SPECIFICATION Spec
CONSTANTS
  Names <- MCNames
  NoName = ""
  Paths <- MCPaths
  Targets <- MCTargets
  NoTarget = NoTarget
  MaxIno = 3
  MaxSymlinkDepth = 4
INVARIANTS TypeOK PathsResolve
PROPERTIES TreeStaysSound NeverReused
