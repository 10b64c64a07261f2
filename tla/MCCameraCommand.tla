-------------------------- MODULE MCCameraCommand --------------------------
(* CameraCommand on a small instance: two integration times, one of which  *)
(* has a packet with a bad CRC, and frame times two milliseconds longer,   *)
(* of which two in a row have a bad CRC.                                   *)
EXTENDS CameraCommand

MCBadCrc == {<<"int", 3>>, <<"frame", 5>>, <<"frame", 6>>}
=============================================================================
