SPECIFICATION Spec
CONSTANTS
  Handle = {h1, h2}
  Object = {o1, o2, o3}
  global = o1
  None = None
  MaxModules = 2
  MaxLost = 1
INVARIANTS
  OwnedOrLost
SYMMETRY Alike
CHECK_DEADLOCK FALSE
