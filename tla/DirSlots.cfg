SPECIFICATION Spec
CONSTANTS
  Names = {a}
  Slash = slash
  Kinds = {"CREATE"}
  MaxFservers = 1
  MaxConns = 2
  MaxNodes = 3
PROPERTY TurnedAwayForConnectedOnly
CHECK_DEADLOCK FALSE
