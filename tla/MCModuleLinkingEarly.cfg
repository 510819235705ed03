SPECIFICATION Spec
CONSTANTS
  a = a
  b = b
  c = c
  d = d
  Module = {a, b, c, d}
  Programs <- MCPrograms
  Null = Null
  MaxImports = 2
INVARIANTS
  VariableExists
CHECK_DEADLOCK FALSE
