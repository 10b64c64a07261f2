SPECIFICATION FairSpec
CONSTANTS
  NBufs = 4
  MaxCounts <- MCMaxCounts
  KeepUps = {TRUE, FALSE}
  MaxPending = 6
PROPERTY
  StopEnds
CHECK_DEADLOCK FALSE
