SPECIFICATION Spec
CONSTANTS
  Key = {k1, k2, k3}
  Hash <- TwoAlike
  Iter = {i1}
  None = None
  MaxDepth = 2
  Threshold = 2
  NoValue = NoValue
  Idle = Idle
  Done = Done
INVARIANTS
  RecordsCounted
PROPERTIES
  ImplementsMapEntries
CHECK_DEADLOCK FALSE
SYMMETRY SameHash
