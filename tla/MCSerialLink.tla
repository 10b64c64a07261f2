---------------------------- MODULE MCSerialLink ----------------------------
(* SerialLink on a small instance: a command that always fits and one that *)
(* never does, a driver's buffer smaller and one larger than a message.    *)
EXTENDS SerialLink

MCOps == {"command", "query", "txrx", "read_blocking"}
=============================================================================
