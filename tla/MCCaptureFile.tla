--------------------------- MODULE MCCaptureFile ---------------------------
(* CaptureFile on a small instance: two places where scripts run, two      *)
(* times, one tag.                                                         *)
EXTENDS CaptureFile, TLC

Symmetry == Permutations(Procs) \cup Permutations(Times)
=============================================================================
