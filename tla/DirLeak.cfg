SPECIFICATION FairSpec
CONSTANTS
  Names = {a}
  Slash = slash
  Kinds = {"CREATE"}
  MaxFservers = 2
  MaxConns = 2
  MaxNodes = 4
PROPERTY RequestResponse
CHECK_DEADLOCK FALSE
