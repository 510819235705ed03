SPECIFICATION Spec
CONSTANTS
  MaxStates = 60
  MaxResults = 2
  LastIndex = 4
  MaxObjects = 4
  InitialSize = 2
  InitialHashSize = 2
  Scenarios <- MCScenarios
  Questions <- MCQuestions
  Calls <- MCCalls
  MaxDepth = 1
  ArrayCalls <- MCArrayCalls
  Touches <- MCTouches
  ByteValues = 4
  TypedCalls <- MCTypedCalls
  TypedPrograms <- MCTypedPrograms
  WaitPrograms <- MCWaitPrograms
  Programs <- MCPrograms
  LocalNames = {"l", "m"}
  MaxOutcomes = 5
  Predefined <- MCPredefined
  ObjectCalls <- MCObjectCalls
  ProxyKeys = {6, 7}
  ProxyValues <- MCProxyValues
  ProxyProtos = {0, 1}
  ProxyDescs <- MCProxyDescs
INVARIANTS
  RunsAsDefined
  MethodsAgree
  ObjectsSound
  ArraysAsDefined
  BuffersAsDefined
  WaitersFound
  RunsAsWritten
  ReadsBack
  ProxiesKeepWord
CHECK_DEADLOCK FALSE
