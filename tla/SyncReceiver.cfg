SPECIFICATION FairSpec
CONSTANTS
  d1 = d1 d2 = d2 o1 = o1 o2 = o2
  Deliveries = {d1, d2}
  Objects = {o1, o2}
  ObjectOf <- MCObjectOf
  Images = {o1}
  Old = {d2}
  None = None
  MaxFails = 2
  MaxDamage = 1
  MaxRetries = 2
INVARIANTS
  ReceiptIsBacked
PROPERTIES
  DeliveriesSettle
  DamageIsRepaired
  ReplayIsExplicit
