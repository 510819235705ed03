SPECIFICATION FairSpec
CONSTANTS
  None = None
  User = User
  Prim = Prim
  Object = Object
  Error = Error
  MaxPromises = 3
  MaxPairs = 2
  MaxDepth = 1
  MayFail = FALSE
PROPERTIES
  ImplementsPromiseFate
  WaitingEnds
CHECK_DEADLOCK FALSE
