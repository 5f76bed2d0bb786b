SPECIFICATION FairSpec
CONSTANTS
  Flat = {d1, d2, d3}
  Versions = {v}
  Oversized = {d2}
  Twice = {d3}
  PageSize = 1
  MaxPages = 2
  MaxAttempts = 2
  MaxFails = 1
INVARIANTS
  ScanFitsBacklog
PROPERTIES
  Refines
  OwedIsAcked
