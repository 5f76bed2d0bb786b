SPECIFICATION FairSpec
CONSTANTS
  p1 = p1 p2 = p2 d1 = d1 d2 = d2 x = x
  Paths = {p1}
  Data = {d1, d2, x}
  DataOf <- MCDataOf
  None = None
  MaxVersion = 2
  MaxEdits = 2
  MaxFails = 2
INVARIANTS
  ReceiptIsBacked
  ConflictsAreHonest
  RecoveryIsPossible
PROPERTIES
  VersionsAreDelivered
  NothingIsLost
