SPECIFICATION Spec
CONSTANTS
  Threads = {t1, t2}
  Hung = {}
  NoThread = NoThread
  MaxOps = 2
  MaxBatch = 1
SYMMETRY ThreadSymmetry
INVARIANTS
  TypeOK
  UniqueRequestIds
  AtMostOnce
PROPERTIES
  ServiceSpec
CHECK_DEADLOCK FALSE
