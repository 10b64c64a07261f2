----------------------------- MODULE MCLiveView -----------------------------
(* LiveView on a small instance: four buffers, so that two are always      *)
(* started, runs without an end and of three images, both ways to wait.    *)
EXTENDS LiveView

MCMaxCounts == {0, 3}
=============================================================================
