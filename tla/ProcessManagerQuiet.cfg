\* Programs that end with their script, a host that does not kill.
SPECIFICATION FairSpec
CONSTANTS
  NoCode = NoCode
  MaxPid = 3
  PoolSize = 1
  Codes = {0, 3}
  MaxInbox = 1
  Wired = FALSE
  MayKill = FALSE
  MayOutlive = FALSE
PROPERTIES CallsReturn ExitResolves
CHECK_DEADLOCK FALSE
