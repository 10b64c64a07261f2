SPECIFICATION FairSpec
CONSTANTS
  Times = {3, 7}
  Gap = 2
  BadCrc <- MCBadCrc
  MaxTime = 40
  Faults = {"refuse", "ignore", "mute", "late"}
  MaxFaults = 3
  MaxRuns = 2
INVARIANTS
  TruthfulWhenQuiet
  IntFitsFrame
PROPERTY
  ScriptEnds
CHECK_DEADLOCK FALSE
