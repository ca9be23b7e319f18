\* Callbacks run after the buffer of their process has gone to another.
SPECIFICATION Spec
CONSTANTS
  NoCode = NoCode
  MaxPid = 2
  PoolSize = 1
  Codes = {0, 3}
  MaxInbox = 1
  Wired = FALSE
  MayKill = FALSE
  MayOutlive = TRUE
INVARIANT ServedAsSelf
CHECK_DEADLOCK FALSE
