SPECIFICATION Spec
CONSTANTS
  Threads = {t1, t2}
  Hung = {}
  NoThread = NoThread
  MaxOps = 1
  MaxBatch = 2
SYMMETRY ThreadSymmetry
INVARIANTS
  OwnAnswers
  OwnFirstError
PROPERTIES
  GenuineReplyHonoured
  ServiceSpec
CHECK_DEADLOCK FALSE
