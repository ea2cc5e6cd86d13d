SPECIFICATION Spec
CONSTANTS
  min_thr_num = 1
  max_thr_num = 2
  queue_max_size = 2
  MIN_WAIT_TASK_NUM = 1
  DEFAULT_THREAD_VARY = 2
  Adders = {a1}
  NumTasks = 3
  AddersFirst = FALSE
  CreateMayFail = FALSE
INVARIANTS TypeOK LiveWithinLimits LiveCountExact BusyCountExact RingConsistent
PROPERTY ImplementsPromise
CHECK_DEADLOCK FALSE
