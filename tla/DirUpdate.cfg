SPECIFICATION Spec
CONSTANTS
  Names = {a}
  Slash = slash
  Kinds = {"CREATE", "READ", "UPDATE", "GET_REPLICAS"}
  MaxFservers = 2
  MaxConns = 2
  MaxNodes = 4
INVARIANTS
  LockKeptOnlyByCreate
  ReplyEndsRequest
  StorersRegistered
CHECK_DEADLOCK FALSE
