------------------------------ MODULE TakeLoop ------------------------------
(***************************************************************************)
(* The main loop of simple_take.c (and of simple_take_fits.c, which is the *)
(* same loop with a ring of one buffer) on the ring of EdtRing: prestart a *)
(* ringful of images, then wait for an image, start one more, recover when *)
(* the driver has counted a timeout, and save the image.                   *)
(***************************************************************************)
EXTENDS EdtRing

CONSTANTS
  NumBufs,   (* the -N option; simple_take_fits.c has 1                     *)
  Loops      (* the -l option                                               *)

ASSUME LoopAssumption ==
  /\ NumBufs \in 1 .. MaxBufs /\ NumBufs <= MaxCount
  /\ Loops \in Nat \ {0}
  /\ ~UserWakeup

VARIABLES
  lpc,                 (* where the loop is                                 *)
  i,                   (* images waited for                                 *)
  started,             (* images prestarted                                 *)
  last_timeouts,       (* timeouts already recovered from                   *)
  recovering_timeout,  (* the image before this one timed out               *)
  newest               (* history: latest exposure handed over in time      *)

loopVars == <<lpc, i, started, last_timeouts, recovering_timeout, newest>>
tvars    == <<vars, loopVars>>

Goto(l) ==
  /\ lpc' = l
  /\ UNCHANGED <<i, started, last_timeouts, recovering_timeout, newest>>

(* The result of pdv_multibuf is not looked at.                            *)
LoopMultibuf ==
  /\ lpc = "multibuf"
  /\ Multibuf(NumBufs)
  /\ Goto("prestart")

LoopPrestart ==
  /\ lpc = "prestart"
  /\ started' = IF ForceSingle THEN 1 ELSE NumBufs
  /\ StartImages(started')
  /\ lpc' = "wait"
  /\ UNCHANGED <<i, last_timeouts, recovering_timeout, newest>>

LoopWait ==
  /\ lpc = "wait"
  /\ WaitImages(1)
  /\ Goto("waiting")

(* The library's steps inside pdv_wait_image.                              *)
LoopWaiting ==
  /\ lpc = "waiting"
  /\ WaitCheck \/ WaitEnter \/ WaitWoken \/ WaitExpires \/ WaitDoTimeout
  /\ UNCHANGED loopVars

LoopReturn ==
  /\ lpc = "waiting"
  /\ WaitReturn
  /\ newest' = IF ret = "OK" THEN slot[image'].shot ELSE newest
  /\ lpc' = "start"
  /\ UNCHANGED <<i, started, last_timeouts, recovering_timeout>>

(* Mutant: two images are started for each one waited for.                 *)
LoopStartTwo ==
  /\ lpc = "start"
  /\ IF i < Loops - started THEN StartImages(2) ELSE UNCHANGED vars
  /\ Goto("check")

(* Mutant: the last image is not started.                                  *)
LoopStartOneShort ==
  /\ lpc = "start"
  /\ IF i < Loops - started - 1 THEN StartImages(1) ELSE UNCHANGED vars
  /\ Goto("check")

(* The next image is started before the one just returned is saved.        *)
LoopStart ==
  /\ lpc = "start"
  /\ IF i < Loops - started THEN StartImages(1) ELSE UNCHANGED vars
  /\ Goto("check")

(* Mutant: timeouts are not looked for.                                    *)
LoopCheckNever ==
  /\ lpc = "check"
  /\ Goto("save")
  /\ UNCHANGED vars

(* A timeout is recovered from at once, and once more after the next image *)
(* that comes in time.                                                     *)
LoopCheck ==
  /\ lpc = "check"
  /\ \/ /\ timeouts > last_timeouts
        /\ last_timeouts' = timeouts
        /\ recovering_timeout' = TRUE
        /\ lpc' = "restart"
        /\ RestartRead
     \/ /\ timeouts = last_timeouts /\ recovering_timeout
        /\ recovering_timeout' = FALSE
        /\ lpc' = "restart"
        /\ RestartRead
        /\ UNCHANGED last_timeouts
     \/ /\ timeouts = last_timeouts /\ ~recovering_timeout
        /\ lpc' = "save"
        /\ UNCHANGED <<vars, last_timeouts, recovering_timeout>>
  /\ UNCHANGED <<i, started, newest>>

LoopRestart ==
  /\ lpc = "restart"
  /\ RestartAct(TRUE)
  /\ Goto("save")

(* The image is written out while the DMA goes on.                         *)
LoopSave ==
  /\ lpc = "save"
  /\ i' = i + 1
  /\ lpc' = IF i' < Loops THEN "wait" ELSE "close"
  /\ UNCHANGED <<vars, started, last_timeouts, recovering_timeout, newest>>

LoopClose ==
  /\ lpc = "close"
  /\ DisableRingBuffers
  /\ Goto("done")

-----------------------------------------------------------------------------

LoopInit ==
  /\ Init
  /\ timeout_ok = FALSE
  /\ lpc = "multibuf"
  /\ i = 0 /\ started = 0 /\ last_timeouts = 0
  /\ recovering_timeout = FALSE
  /\ newest = 0

LoopStep ==
  \/ LoopMultibuf \/ LoopPrestart \/ LoopWait \/ LoopWaiting \/ LoopReturn
  \/ LoopStart \/ LoopCheck \/ LoopRestart \/ LoopSave \/ LoopClose

LoopNext == LoopStep \/ (Driver /\ UNCHANGED loopVars)

(* The program runs until it ends, and WaitForSingleObject returns once    *)
(* its timeout is over.  Nothing is assumed of the camera.                 *)
LoopSpec == LoopInit /\ [][LoopNext]_tvars /\ WF_tvars(LoopStep)

(***************************************************************************)
(* Properties.                                                             *)
(***************************************************************************)

LoopTypeOK ==
  /\ TypeOK
  /\ lpc \in {"multibuf", "prestart", "wait", "waiting", "start", "check",
              "restart", "save", "close", "done"}
  /\ i \in 0 .. Loops /\ started \in 0 .. NumBufs
  /\ last_timeouts \in Nat /\ recovering_timeout \in BOOLEAN
  /\ newest \in Nat

(* The loop hands over images as FrameStream promises: each is newer than  *)
(* those before it, or one timeout of the driver accounts for it, and the  *)
(* loop never gets stuck, whatever the camera does.                        *)
Stream == INSTANCE FrameStream WITH
  Exposures <- MaxShots,
  taken <- IF lpc \in {"start", "check", "restart", "save"} THEN i + 1 ELSE i,
  lost  <- timeouts - IF pc = "return" /\ ret = "TIMEOUT" THEN 1 ELSE 0

ImplementsStream == Stream!StreamSpec

(* The driver has counted no timeout, or it counts the buffers it aborts   *)
(* as done, which is what pdv_timeout_restart's arithmetic presupposes.    *)
CountsKeepUp == timeouts = 0 \/ TimeoutCounts = {TRUE}

(* Starting one image per image waited for never lets the DMA reach a slot *)
(* whose image was not waited for, through any timeouts and recoveries     *)
(* with a driver that counts the aborted buffer, and until the first       *)
(* timeout with any.                                                       *)
UnwaitedIntact ==
  configured /\ CountsKeepUp => \A k \in donecount + 1 .. done : Intact(k)

(* Every wait begins with the two counters reconciled: the library is not  *)
(* ahead of the driver, so that it waits for the very next image.          *)
SyncedBeforeWait ==
  lpc = "wait" => donecount <= done /\ timeouts = last_timeouts

(* As long as no timeout was counted, the loop never waits for an image it *)
(* has not started.                                                        *)
StarvedOnlyAfterTimeout ==
  pc = "blocked" /\ todo < tmpcnt => last_timeouts > 0

(***************************************************************************)
(* Why they hold: the invariant of the loop, beside the ring's IndInv.     *)
(***************************************************************************)

InLoop == lpc \in {"wait", "waiting", "start", "check", "restart", "save"}

(* The library is in the call the loop made, and the ring is the loop's.   *)
CallMatches ==
  /\ pc = "restart" <=> lpc = "restart"
  /\ InWait <=> lpc = "waiting"
  /\ pc \notin {"cleanup", "abort"}
  /\ timeout_ok = FALSE /\ wpc = "idle" /\ last_wait_ret # "USER_WAKEUP"
  /\ ret = "OK" \/ (ret = "TIMEOUT" /\ pc = "return")
  /\ lpc = "waiting" => tmpcnt = donecount + 1

RingIsOurs ==
  /\ lpc \in {"multibuf", "done"} => numbufs = 0 /\ ~configured
  /\ InLoop \/ lpc \in {"prestart", "close"} => numbufs = NumBufs
  /\ lpc \in {"multibuf", "prestart"} =>
       i = 0 /\ done = 0 /\ todo = 0 /\ donecount = 0 /\ timeouts = 0
  /\ InLoop => i < Loops /\ started = Capped(NumBufs)
  /\ ~configured => done = 0
  /\ pc = "restart" /\ ~configured => curdone = 0

(* A timeout the loop has not recovered from is the last wait's.           *)
Unrecovered ==
  /\ IF lpc \in {"start", "check"}
     THEN timeouts \in {last_timeouts, last_timeouts + 1}
     ELSE timeouts = last_timeouts + IF pc = "return" /\ ret = "TIMEOUT" THEN 1 ELSE 0
  /\ recovering_timeout \/ lpc = "restart" => last_timeouts > 0

Settled == timeouts = last_timeouts /\ lpc # "restart"

(* Between a recovery and the next timeout the library is not ahead.       *)
InStep == Settled /\ InLoop => donecount <= done

(* Without a timeout, every image that will be waited for is started.      *)
StartsKeepUp ==
  timeouts = 0 /\ InLoop =>
    /\ donecount = IF lpc \in {"wait", "waiting"} THEN i ELSE i + 1
    /\ todo >= Loops
       \/ todo >= started + IF lpc \in {"check", "save"} THEN i + 1 ELSE i

(* No more images are started than there is room for.                      *)
RoomLeft ==
  CountsKeepUp /\ configured /\ lpc # "prestart" =>
    /\ todo <= donecount + NumBufs
    /\ lpc = "start" => todo < donecount + NumBufs
    /\ timeouts > last_timeouts =>
         IF lpc = "check" THEN todo <= done + NumBufs ELSE todo < done + NumBufs
    /\ lpc = "restart" => curtodo <= curdone + NumBufs

(* While no frame is being written the whole ring is in place.             *)
RingFull ==
  CountsKeepUp /\ configured /\ ~filling =>
    \A k \in base + 1 .. done : done < k + numbufs => Intact(k)

Exposure(k) == slot[SlotOf(k, numbufs)].shot

(* The images not yet waited for are newer than those before them.         *)
Newer ==
  /\ newest <= shot /\ shot <= MaxShots /\ (filling => shot < MaxShots)
  /\ \A s \in Slots : slot[s].shot <= shot
  /\ CountsKeepUp /\ Settled /\ configured =>
       \A k \in donecount + 1 .. done :
         newest < Exposure(k) /\ \A j \in donecount + 1 .. k - 1 : Exposure(j) < Exposure(k)

LoopInv ==
  /\ LoopTypeOK /\ IndInv
  /\ CallMatches /\ RingIsOurs /\ Unrecovered /\ InStep
  /\ StartsKeepUp /\ RoomLeft /\ RingFull /\ Newer
=============================================================================
