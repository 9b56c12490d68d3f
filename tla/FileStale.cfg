SPECIFICATION Spec
CONSTANTS
  MaxServers = 2
  Paths <- MCOnePath
  Slash = "/"
  Entered <- MCOneEntered
  RecvBufSize = 1
  Backlog = 2
  MaxText = 1
  MaxCommands = 4
  Update = {"root"}
  MaxDeaths = 0
  MayDie = {}
PROPERTY ReadsLastSaved
CHECK_DEADLOCK FALSE
