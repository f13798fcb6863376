SPECIFICATION Spec
CONSTANTS
  Threads = {t1, t2}
  NoThread = none
  TaskCounts = {1, 3}
  Objs = {1, 2}
  MAX_LEN = 2
  MAX_WARMUP = 1
  WarmupReqs = {0, 1}
  WarmupSecs = {0, 1}
  REQS_PER_SEC = 2
  START = 5
INVARIANTS
  RowsAsIfAlone
  NothingUsedAfterFree
PROPERTIES
  CallReturns
