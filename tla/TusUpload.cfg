SPECIFICATION FairSpec
CONSTANTS
  u1 = u1 u2 = u2 f1 = f1 f2 = f2
  Uploads = {u1, u2}
  Devices = {f1, f2}
  DeviceOf <- MCDeviceOf
  Conflicting = {u2}
  Length = 2
  Absent = Absent
  MaxFails = 2
INVARIANTS
  OffsetIsDurable
  DeliveredWasVerified
  CleanedHasNoUpload
PROPERTIES
  ResumedUploadEnds
CHECK_DEADLOCK FALSE
