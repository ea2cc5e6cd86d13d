SPECIFICATION Spec
CONSTANTS
  min_thr_num = 1
  max_thr_num = 2
  queue_max_size = 1
  MIN_WAIT_TASK_NUM = 1
  DEFAULT_THREAD_VARY = 1
  Adders = {a1}
  NumTasks = 2
  AddersFirst = TRUE
  CreateMayFail = FALSE
INVARIANT NoUseAfterFree
CHECK_DEADLOCK FALSE
