SPECIFICATION Spec
CONSTANTS
  Obj = {o1, o2, o3}
  Aux = {}
  s1 = s1
  s2 = s2
  map = map
  Strong <- PairStrong
  Record = {}
  Null = Null
  MaxHeld = 2
SYMMETRY Symmetric
INVARIANTS
  TypeOK
  RefCountExact
  NoDangling
  CollectorAssertions
  FreeRuntimeListEmpty
