SPECIFICATION BatchesSpec
CONSTANTS
  Params = {p1, p2}
  Kinds = {"good"}
  MaxOps = 2
  MaxBatch = 1
  MaxConns = 1
  MaxNotes = 0
INVARIANT ResultsInOrder
CHECK_DEADLOCK FALSE
