SPECIFICATION QFairSpec
CONSTANTS
  a1 = a1
  a2 = a2
  badAddress = badAddress
  p1 = p1
  p2 = p2
  Params = {p1, p2}
  Kinds = {"good", "misshapen", "badfield", "error", "uncoded"}
  MaxOps = 2
  MaxBatch = 2
  MaxConns = 2
  MaxNotes = 1
  Addresses <- MCAddresses
  Scripthash <- MCScripthash
INVARIANTS
  OwnAddresses
  NothingLeftOpen
PROPERTIES
  QueriesEnd
CHECK_DEADLOCK FALSE
