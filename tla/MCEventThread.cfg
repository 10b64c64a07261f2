SPECIFICATION FairSpec
CONSTANTS
  Funcs = {f}
  Modes <- MCModes
  CanFail = TRUE
  None = None
  MaxSets = 2
  MaxEvents = 3
INVARIANTS
  IndInv
  NoCallbackAfterRemove
  OnceIsOnce
  HandlerStays
  NoHandleLost
PROPERTIES
  Delivered
  RemoveReturns
CHECK_DEADLOCK FALSE
