SPECIFICATION FairSpec
CONSTANTS
  f1 = f1 f2 = f2 b = b n = n v1 = v1 v2 = v2
  g1 = g1 g2 = g2 p = p q = q w1 = w1 w2 = w2
  Workers = {w1, w2}
  Devices = {f1, f2}
  Digests = {g1, g2}
  NoPath = NoPath
  Nobody = Nobody
  Deliveries = {b, n, v1, v2}
  DeviceOf <- MCDeviceOf
  DigestOf <- MCDigestOf
  Paths = {p, q}
  PathOf <- MCPathOf
  VersionOf <- MCVersionOf
  Nested <- MCNested
  MaxFails = 1
INVARIANTS
  PendingHasContent
  CleanedOwnsNothing
  AckedIsDownwardClosed
PROPERTIES
  ExitCompletes
