SPECIFICATION Spec
CONSTANTS
  p1 = p1 p2 = p2 a = a b = b
  Paths = {p1}
  Data = {a, b}
  None = None
  MaxVersion = 2
  MaxEdits = 2
  MaxFails = 1
  MaxResets = 1
  MaxIndexes = 2
INVARIANTS
  BaselineIsTrue
CHECK_DEADLOCK FALSE
