SPECIFICATION FairSpec
CONSTANTS
  MaxServers = 2
  Paths <- MCPaths
  Slash = "/"
  Entered <- MCEntered
  RecvBufSize = 2
  Backlog = 2
  MaxText = 2
  MaxCommands = 2
  Update = {"root", "path", "refused"}
  MaxDeaths = 1
  MayDie = {"client", "server", "directory"}
INVARIANTS
  TypeOK
  AnswersFit
  CountsExact
  SavedIsStored
  NoForeignBytes
  ReadIsFile
  EntryHasFile
  StarvedOnlyBy
PROPERTIES
  
  ServerReleased
CHECK_DEADLOCK FALSE
