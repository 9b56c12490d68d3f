SPECIFICATION Spec
CONSTANTS
  Names = {a, b}
  Slash = slash
  Kinds = {"CREATE", "READ", "GET_REPLICAS"}
  MaxFservers = 2
  MaxConns = 3
  MaxNodes = 4
INVARIANTS
  TypeOK
  MutualExclusion
  CreatedOnce
  NoLostFile
  RefusedWhenFull
PROPERTIES
  ListingGrows
  ImplementsNamespace
SYMMETRY NameSymmetry
CHECK_DEADLOCK FALSE
