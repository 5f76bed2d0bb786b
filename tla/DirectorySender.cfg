SPECIFICATION FairSpec
CONSTANTS
  p1 = p1 p2 = p2 a = a b = b
  Paths = {p1}
  Data = {a, b}
  None = None
  MaxVersion = 4
  MaxEdits = 1
  MaxFails = 1
  MaxResets = 1
  MaxIndexes = 3
INVARIANTS
  BaselineIsTrueUnlessStale
PROPERTIES
  SourceArrives
CHECK_DEADLOCK FALSE
