\* Two ports, two processes, two requests; the Service Worker may be stopped once.
\* Two callbacks that are called back within each other.  Five tasks; two
\* watchers of a directory, one in it and a file in that; two inodes beside the
\* root.
SPECIFICATION PageSpec
CONSTANTS
  Ports = {80, 81}
  Pids = {p1, p2}
  Fetches = {f1, f2}
  MaxBinds = 2
  MaxChannel = 1
  MaxAnswers = 1
  MaxStops = 1
  Absent = Absent
  Procs = {q1}
  Callbacks = {r1, r2}
  PortNumbers = {80}
  Files = {"file"}
  MaxNesting = 2
  MaxReady = 2
  Pending = Pending
  MaxEnqueued = 5
  WatchPaths <- MCWatchPaths
  MaxWatchers = 2
  MaxChanges = 2
  MaxNotifying = 2
  Dirs <- MCDirs
  EntryNames = {"d", "e"}
  MaxInode = 2
INVARIANTS PortsAgree RequestsMatch EmbedderToldRight SchedulerKeepsTasks
PROPERTIES PageFinishes WatchersAgree SnapshotsRestore
CHECK_DEADLOCK FALSE
