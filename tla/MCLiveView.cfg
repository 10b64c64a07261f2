SPECIFICATION FairSpec
CONSTANTS
  NBufs = 4
  MaxCounts <- MCMaxCounts
  KeepUps = {TRUE, FALSE}
  MaxPending = 6
INVARIANTS
  IndInv
  CaptureAlone
  IdleWhenDone
  ShownIntact
PROPERTIES
  AskedStops
  CaptureEnds
  StopEndsSteady
CHECK_DEADLOCK FALSE
