SPECIFICATION FairSpec
CONSTANTS
  d1 = d1 d2 = d2 c1 = c1 u1 = u1 u2 = u2
  Desktops = {d1, d2}
  Clis = {c1}
  Urls = {u1, u2}
  Peers = {u1}
  MaxFails = 1
  Nobody = Nobody
  NoConf = NoConf
INVARIANTS
  ConfigurationIsTrue
  RemovedWasRevoked
PROPERTIES
  StopIsFinal
  ExitEnds
