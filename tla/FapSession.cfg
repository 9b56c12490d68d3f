SPECIFICATION FairSpec
CONSTANTS
  MaxClients = 2
  MaxSessions = 4
  MayExit = TRUE
INVARIANTS
  TypeOK
  DataPaired
  SlotsHeld
PROPERTY NobodyForgotten
CHECK_DEADLOCK FALSE
