SPECIFICATION Spec
CONSTANTS
  Procs = {p1}
  Times = {t1, t2}
  Tags = {g}
  NoTag = NoTag
  NoProc = NoProc
  MaxLoops = 2
  MaxRuns = 2
  Faults = {"open", "weather"}
  MaxFaults = 2
INVARIANT
  ReturnsImageTaken
CHECK_DEADLOCK FALSE
