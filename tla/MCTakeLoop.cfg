SPECIFICATION LoopSpec
CONSTANTS
  MaxBufs = 3
  MaxTodo = 12
  MaxCount = 2
  MaxShots = 12
  MaxTimeouts = 4
  ForceSingle = FALSE
  TimeoutCounts = {TRUE}
  UserWakeup = FALSE
  FiniteTimeout = TRUE
  NumBufs = 2
  Loops = 4
INVARIANTS
  UnwaitedIntact
  SyncedBeforeWait
  StarvedOnlyAfterTimeout
PROPERTY
  ImplementsStream
CHECK_DEADLOCK FALSE
