----------------------------- MODULE MCEdtRing -----------------------------
(* EdtRing on a small instance: rings of at most three slots, up to four   *)
(* images started, one timeout.                                            *)
EXTENDS EdtRing
=============================================================================
