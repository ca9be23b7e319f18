\* A plan in which two packages need different versions of a third.
SPECIFICATION ToolsSpec
CONSTANTS
  Lines <- MCLines
  Script <- MCScript
  Dirs = {"/", "/a"}
  Home = "/"
  MaxLines = 2
  Unset = Unset
  Names = {"a", "b", "c", "p", "q"}
  Registry <- MCRegistry
  RootDeps <- MCRootDeps
  Failing = {"p", "q", "c"}
  MaxCalls = 24
  Root = Root
  Packages = {"a", "b"}
  Needs <- MCNeeds
  Scripted = {"a", "b"}
  MaxCmds = 2
  MaxUnderWay = 1
  MaxVersion = 2
  MaxKills = 1
  MaxFails = 1
INVARIANT PlanSatisfies
CHECK_DEADLOCK FALSE
