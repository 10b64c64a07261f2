SPECIFICATION FairSpec
CONSTANTS
  MaxBufs = 3
  MaxTodo = 4
  MaxCount = 2
  MaxShots = 4
  MaxTimeouts = 0
  ForceSingle = FALSE
  TimeoutCounts = {TRUE}
  UserWakeup = FALSE
  FiniteTimeout = FALSE
INVARIANT
  NoSleepPastCompletion
PROPERTY
  WaitReturns
CHECK_DEADLOCK FALSE
