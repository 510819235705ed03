SPECIFICATION Spec
CONSTANTS
  a = a
  b = b
  c = c
  d = d
  Module = {a, b, c, d}
  Programs <- MCPrograms
  Null = Null
  MaxImports = 3
INVARIANTS
  OneWalk
  BodiesInOrder
  ImportsBound
  NoHalfLinked
CHECK_DEADLOCK FALSE
