SPECIFICATION Spec
CONSTANTS
  MaxBufs = 3
  MaxTodo = 3
  MaxCount = 2
  MaxShots = 3
  MaxTimeouts = 1
  ForceSingle = FALSE
  TimeoutCounts = {TRUE, FALSE}
  UserWakeup = TRUE
  FiniteTimeout = TRUE
INVARIANTS
  OverrunSound
  HeldImageIntact
  AheadOnlyAfterTimeout
  IndInv
CHECK_DEADLOCK FALSE
