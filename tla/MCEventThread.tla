---------------------------- MODULE MCEventThread ---------------------------
(* EventThread on a small instance: a thread and the one after it, of      *)
(* either mode, and three events.                                          *)
EXTENDS EventThread

MCModes == {"once", "continuous"}
=============================================================================
