SPECIFICATION Spec
CONSTANTS
  Names = {a}
  Slash = slash
  Kinds = {"CREATE", "UPDATE"}
  MaxFservers = 2
  MaxConns = 2
  MaxNodes = 4
INVARIANT CreatesAtomic
CHECK_DEADLOCK FALSE
