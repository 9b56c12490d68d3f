SPECIFICATION FairSpec
CONSTANTS
  MaxClients = 2
  MaxSessions = 2
  MayExit = FALSE
PROPERTY DataConnectionOpens
CHECK_DEADLOCK FALSE
