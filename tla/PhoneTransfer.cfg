SPECIFICATION FairSpec
CONSTANTS
  t1 = t1 t2 = t2
  Threads = {t1, t2}
  MaxWorks = 2
  Length = 1
  MaxAttempts = 1
  MaxFails = 1
  MaxUser = 1
INVARIANTS
  DeliveredOnce
  PayloadIsKept
  CleanedStaysClean
PROPERTIES
  OnlyTheUserResumes
  QueuedIsSettled
CHECK_DEADLOCK FALSE
