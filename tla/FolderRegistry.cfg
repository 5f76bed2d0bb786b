SPECIFICATION Spec
CONSTANTS
  a = a b = b boot = boot p1 = p1 p2 = p2 e1 = e1 e2 = e2
  Ids = {a, b}
  Boot = boot
  BootConfig <- MCBootConfig
  Procs = {p1, p2}
  Explicit = {p2}
  Places <- MCPlaces
  Canon <- MCCanon
  Data <- MCData
  Urls = {e1, e2}
  MaxBridges = 2
  MaxFails = 1
  None = None
INVARIANTS
  OwnersAreDisjoint
  EntriesAreUsable
SYMMETRY Symmetry
CHECK_DEADLOCK FALSE
