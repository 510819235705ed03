SPECIFICATION Spec
CONSTANTS
  None = None
  User = User
  Prim = Prim
  Object = Object
  Error = Error
  MaxPromises = 3
  MaxPairs = 2
  MaxDepth = 2
  MayFail = TRUE
INVARIANTS
  OneRight
  ResumedOnce
  NeverNested
CHECK_DEADLOCK FALSE
