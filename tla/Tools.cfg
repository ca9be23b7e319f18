SPECIFICATION ToolsSpec
CONSTANTS
  Lines <- MCLines
  Script <- MCScript
  Dirs = {"/", "/a"}
  Home = "/"
  MaxLines = 2
  Unset = Unset
  Names = {"a", "b", "c", "p", "q"}
  Registry <- MCRegistry
  RootDeps <- MCRootDeps
  Failing = {"p", "q", "c"}
  MaxCalls = 24
  Root = Root
  Packages = {"a", "b", "c"}
  Needs <- MCNeeds
  Scripted = {"a", "b"}
  MaxCmds = 3
  MaxUnderWay = 2
  MaxVersion = 2
  MaxKills = 1
  MaxFails = 1
INVARIANTS ShellKeepsLines PlanIsSound ProjectAgrees
PROPERTIES ToolsFinish
CHECK_DEADLOCK FALSE
