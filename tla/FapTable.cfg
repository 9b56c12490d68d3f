SPECIFICATION Spec
CONSTANTS
  MaxClients = 2
  MaxSessions = 3
  MayExit = TRUE
INVARIANT InClientList
CHECK_DEADLOCK FALSE
