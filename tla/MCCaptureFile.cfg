SPECIFICATION Spec
CONSTANTS
  Procs = {p1, p2}
  Times = {t1, t2}
  Tags = {g}
  NoTag = NoTag
  NoProc = NoProc
  MaxLoops = 2
  MaxRuns = 2
  Faults = {"serial", "open", "timeout", "create", "write", "weather"}
  MaxFaults = 1
SYMMETRY Symmetry
INVARIANTS
  FilesOwnImage
  RaisesOnlyWhenHit
CHECK_DEADLOCK FALSE
