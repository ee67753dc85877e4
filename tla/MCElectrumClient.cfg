SPECIFICATION Spec
CONSTANTS
  Params = {p1}
  Kinds = {"good", "error"}
  MaxOps = 3
  MaxBatch = 2
  MaxConns = 2
  MaxNotes = 1
INVARIANTS
  Framing
PROPERTIES
  Correlated
CHECK_DEADLOCK FALSE
