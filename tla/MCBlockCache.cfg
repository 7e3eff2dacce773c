SPECIFICATION Spec
CONSTANTS
  a = a
  b = b
  c = c
  d = d
  Readers = {r1, r2}
  Blocks = {a, b, c, d}
  Size <- SmallSize
  Capacity = 4
INVARIANTS
  TypeOK
  Accounted
  WithinBudget
  KeepsMostRecent
