\* A source, a transform and a sink with the pipes between them; listeners that
\* add, remove and emit while they are called; a connection with two sockets.  Two
\* scripts that require each other and a JSON file, evaluated four times in all.
SPECIFICATION NodeSpec
CONSTANTS
  N = 3
  MaxChunks = 2
  MaxTasks = 2
  Steered = {2}
  MaxCorks = 1
  HighWaterMark = 2
  Events = {"data", "newListener", "removeListener"}
  Fns = {"f"}
  MaxAdds = 3
  MaxDepth = 2
  Conns = {c1}
  MaxWrites = 2
  MaxCloses = 2
  Scripts = {"a", "b"}
  JsonFiles = {"j"}
  MaxEvaluations = 4
INVARIANTS PipelineDelivers ListenersAgree ConnectionsAgree ModulesAreShared
PROPERTIES NodeHears EmitDropsOnlyCalledUnlessStale
CHECK_DEADLOCK FALSE
