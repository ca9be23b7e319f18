SPECIFICATION PureSpec
CONSTANTS
  Size = 9
  Base = 4
  Texts <- MCTexts
  Binaries <- MCBinaries
  MaxTokens = 6
  MaxText = 5
  MaxQuoted = 2
  MaxReferences = 3
  MaxSegments = 3
  MaxPath = 5
  MaxTarget = 3
  MaxStream = 3
  SomeVersions <- MCVersions
  SomeComparators <- MCComparators
  Tree <- MCTree
INVARIANTS ShellReadsText VersionsInRanges TextSurvives
PROPERTY RoundTrips
CHECK_DEADLOCK FALSE
