SPECIFICATION FairSpec
CONSTANTS
  Names = {a}
  Slash = slash
  Kinds = {"CREATE", "GET_REPLICAS"}
  MaxFservers = 2
  MaxConns = 3
  MaxNodes = 3
PROPERTIES
  EveryServerAnswered
  RequestsProgress
CHECK_DEADLOCK FALSE
