---------------------------- MODULE FrameStream ----------------------------
(***************************************************************************)
(* What a capture loop promises, with the ring, the driver and the         *)
(* recovery left out: it hands over Loops images, one after the other;     *)
(* every image is either an exposure newer than all exposures handed over  *)
(* before it, or counted as lost, and it never gets stuck.                 *)
(***************************************************************************)
EXTENDS Integers

CONSTANTS
  Loops,      (* images the caller asks for                               *)
  Exposures   (* bound: exposures the camera delivers                     *)

VARIABLES
  taken,      (* images handed over so far                                *)
  newest,     (* the latest exposure among those not counted as lost      *)
  lost        (* images handed over that count as timeouts                *)

svars == <<taken, newest, lost>>

StreamInit == taken = 0 /\ newest = 0 /\ lost = 0

(* An exposure newer than every one before it.                             *)
Take ==
  /\ taken < Loops
  /\ taken' = taken + 1
  /\ newest' \in newest + 1 .. Exposures
  /\ UNCHANGED lost

(* A timeout: what is handed over may be anything.                         *)
Lose ==
  /\ taken < Loops
  /\ taken' = taken + 1
  /\ lost' = lost + 1
  /\ UNCHANGED newest

StreamNext == Take \/ Lose

StreamSpec == StreamInit /\ [][StreamNext]_svars /\ WF_svars(StreamNext)

=============================================================================
