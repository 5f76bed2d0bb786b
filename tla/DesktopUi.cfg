SPECIFICATION FairSpec
CONSTANTS
  a = a b = b
  Folders = {a, b}
  Directories = {b}
  Files = {1, 2}
  PageSize = 1
  FileFilters = {"Completed"}
  FolderFilters = {"Attention"}
  MaxInputs = 2
  MaxReceives = 1
  MaxFaults = 1
  None = None
INVARIANTS
  IdleScreenIsTrue
PROPERTIES
  NewFilesAreNoticed
  PendingExitEnds
CHECK_DEADLOCK FALSE
