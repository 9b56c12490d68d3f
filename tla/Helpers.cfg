SPECIFICATION Spec
CONSTANTS
  Texts <- MCTexts
  Paths <- MCPaths
  Files <- MCFiles
  Params <- MCParams
  MaxFiles = 2
  MaxNodes = 6
  MaxLine = 6
  MaxPieces = 3
INVARIANTS
  ReceivedIsSent
  LostOnlyBy
  Accepted
  FindsByPath
  CreatedIsFound
  FoundWasCreated
  ValueIsOwn
  WellFormedAccepted
  CompleteUnlessRepeated
PROPERTY Delivered
CHECK_DEADLOCK FALSE
