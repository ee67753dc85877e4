SPECIFICATION FairSpec
CONSTANTS
  Threads = {t1, t2}
  Hung = {t2}
  NoThread = NoThread
  MaxOps = 1
  MaxBatch = 1
PROPERTIES
  CallsReturn
CHECK_DEADLOCK FALSE
