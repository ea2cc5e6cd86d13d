SPECIFICATION FairSpec
CONSTANTS
  min_thr_num = 2
  max_thr_num = 2
  queue_max_size = 1
  MIN_WAIT_TASK_NUM = 1
  DEFAULT_THREAD_VARY = 1
  Adders = {a1, a2}
  NumTasks = 3
  AddersFirst = TRUE
  CreateMayFail = FALSE
INVARIANTS NoStrandedTask NoUseAfterFree ReturnedIsKept
PROPERTIES TaskServed AdderReleased DestroyWaitsOnlyForSleepers
CHECK_DEADLOCK FALSE
