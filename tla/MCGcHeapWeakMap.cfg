SPECIFICATION FairSpec
CONSTANTS
  Obj = {o1, o2, map}
  Aux = {a1}
  s1 = s1
  s2 = s2
  map = map
  Strong <- MapStrong
  Record <- OneRecord
  Null = Null
  MaxHeld = 1
INVARIANTS
  WeakKeysLive
  SurvivorsUnmarked
PROPERTIES
  CollectionComplete
  CollectionEnds
  ImplementsReachableHeap
