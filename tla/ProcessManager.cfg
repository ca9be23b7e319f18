\* Everything may happen: kills, disposal, callbacks that outlive the script.
SPECIFICATION Spec
CONSTANTS
  NoCode = NoCode
  MaxPid = 2
  PoolSize = 1
  Codes = {3}
  MaxInbox = 1
  Wired = TRUE
  MayKill = TRUE
  MayOutlive = TRUE
INVARIANTS TypeOK BuffersAccounted TableAgrees CallsStayOwn CodesHonoured
PROPERTY NeverRevived
CHECK_DEADLOCK FALSE
