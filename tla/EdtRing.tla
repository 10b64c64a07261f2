------------------------------ MODULE EdtRing ------------------------------
(***************************************************************************)
(* The ring buffers of an EDT frame grabber, as one application thread     *)
(* uses them through libpdv.c and libedt.c (the Windows build, on the      *)
(* event driven driver).                                                   *)
(*                                                                         *)
(* Two counters number the images of a ring.  The driver counts in done    *)
(* the buffers its DMA has completed; the library keeps in donecount the   *)
(* number of the last buffer it waited for.  Buffer number k (from 1)      *)
(* lives in slot (k - 1) % numbufs.  Waits, timeouts, recoveries and the   *)
(* DMA itself move the two counters independently: what the application    *)
(* is handed depends on how far apart they are.                            *)
(*                                                                         *)
(* The driver and the board are not part of the repository.  Their actions *)
(* are the weakest that the library's use of the ioctls allows.            *)
(***************************************************************************)
EXTENDS Integers

CONSTANTS
  MaxBufs,        (* largest ring that is configured                        *)
  MaxTodo,        (* bound: the highest number an image can be started with *)
  MaxCount,       (* bound: the largest count passed to a start or a wait   *)
  MaxShots,       (* bound: exposures the camera delivers                   *)
  MaxTimeouts,    (* bound: timeouts the driver counts                      *)
  ForceSingle,    (* the force_single directive of the camera configuration *)
  TimeoutCounts,  (* whether the driver counts as done the buffer it aborts *)
                  (* on a timeout: the answers it may give                  *)
  UserWakeup,     (* whether another thread calls edt_user_dma_wakeup       *)
  FiniteTimeout   (* FALSE when edt_get_rtimeout returns 0, an endless wait *)

ASSUME RingAssumption ==
  /\ MaxBufs \in Nat \ {0}
  /\ MaxCount \in Nat \ {0}
  /\ MaxTodo \in Nat
  /\ MaxShots \in Nat
  /\ MaxTimeouts \in Nat
  /\ ForceSingle \in BOOLEAN
  /\ TimeoutCounts \subseteq BOOLEAN /\ TimeoutCounts # {}
  /\ UserWakeup \in BOOLEAN
  /\ FiniteTimeout \in BOOLEAN

VARIABLES
  (* the driver and the board *)
  done,               (* buffers completed (EDTG_BUFDONE)                   *)
  todo,               (* buffers started (EDTG_TODO)                        *)
  running,            (* DMA goes on to the next started buffer             *)
  filling,            (* a frame is being written to slot done % numbufs    *)
  timeouts,           (* timeouts so far (EDTG_TIMEOUTS)                    *)
  timeout_ok,         (* EDTS_TIMEOUT_OK: a timed out wait is no timeout    *)
  event,              (* the auto-reset EDT_EVENT_BUF event is signalled    *)
  slot,               (* per slot: the number and the exposure it holds     *)
  shot,               (* exposures completed since the device was opened    *)
  (* the device handle of the library *)
  numbufs,            (* ring_buffer_numbufs                                *)
  configured,         (* ring_buffers_configured                            *)
  donecount,          (* number of the last buffer waited for               *)
  last_wait_ret,      (* how the last wait ended, and the wakeup flag       *)
  (* the call in progress and its locals *)
  pc, tmpcnt, ret, curdone, curtodo,
  nSkipped,           (* the caller's counter of skipped images             *)
  image,              (* the slot last handed out, or Null                  *)
  (* a second thread inside edt_user_dma_wakeup *)
  wpc,
  (* history *)
  base                (* number up to which the counters were last reset    *)

driverVars  == <<done, todo, running, filling, timeouts, timeout_ok, event, slot, shot>>
libraryVars == <<numbufs, configured, donecount, last_wait_ret>>
callVars    == <<pc, tmpcnt, ret, curdone, curtodo, nSkipped, image>>
vars        == <<driverVars, libraryVars, callVars, wpc, base>>

Null == -1

(* EDT_WAIT_OK, EDT_WAIT_TIMEOUT, EDT_WAIT_OK_TIMEOUT, EDT_WAIT_USER_WAKEUP *)
WaitStatus == {"OK", "TIMEOUT", "OK_TIMEOUT", "USER_WAKEUP"}

Slots == 0 .. MaxBufs - 1

(* What a slot holds: the number of the buffer completed there and its     *)
(* exposure.  Exposure 0 stands for anything but one whole exposure, and   *)
(* number 0 for a buffer that is not complete.                             *)
Content == [num : Nat, shot : Nat]
Torn    == [num |-> 0, shot |-> 0]

(* The slot of buffer k in a ring of n: (donecount - 1) % numbufs on       *)
(* 32 bit unsigned integers, where number 0 wraps to 2^32 - 1.             *)
SlotOf(k, n) ==
  IF k = 0 THEN ((65536 % n) * (65536 % n) - 1) % n ELSE (k - 1) % n

Intact(k) == slot[SlotOf(k, numbufs)].num = k

(***************************************************************************)
(* The driver and the board.                                               *)
(***************************************************************************)

(* The camera begins the frame for the next started buffer: whatever the   *)
(* slot held is being overwritten.                                         *)
FrameStart ==
  /\ running /\ configured /\ ~filling
  /\ done < todo
  /\ shot < MaxShots
  /\ filling' = TRUE
  /\ slot' = [slot EXCEPT ![done % numbufs] = Torn]
  /\ UNCHANGED <<done, todo, running, timeouts, timeout_ok, event, shot>>
  /\ UNCHANGED <<libraryVars, callVars, wpc, base>>

(* SetEvent on an auto-reset event releases a thread blocked on it;        *)
(* without one the event stays signalled.                                  *)
SetEvent ==
  \/ /\ pc = "blocked"
     /\ pc' = "woken"
     /\ UNCHANGED event
  \/ /\ pc # "blocked"
     /\ event' = TRUE
     /\ UNCHANGED pc

(* The frame is complete: the driver counts it and signals the event.      *)
FrameDone ==
  /\ filling
  /\ SetEvent
  /\ filling' = FALSE
  /\ done' = done + 1
  /\ shot' = shot + 1
  /\ slot' = [slot EXCEPT ![done % numbufs] = [num |-> done + 1, shot |-> shot + 1]]
  /\ UNCHANGED <<todo, running, timeouts, timeout_ok, libraryVars>>
  /\ UNCHANGED <<tmpcnt, ret, curdone, curtodo, nSkipped, image, wpc, base>>

(* EDTS_DOTIMEOUT: the DMA is aborted and the timeout counted, and with it *)
(* the buffer it was aborted in, if the driver does so.                    *)
DriverTimeout ==
  /\ timeouts' = timeouts + 1
  /\ running' = FALSE
  /\ filling' = FALSE
  /\ \/ /\ FALSE \in TimeoutCounts \/ ~configured \/ done >= todo
        /\ UNCHANGED <<done, slot>>
     \/ /\ TRUE \in TimeoutCounts /\ configured /\ done < todo
        /\ done' = done + 1
        /\ slot' = [slot EXCEPT ![done % numbufs] = [num |-> done + 1, shot |-> 0]]
  /\ UNCHANGED <<todo, timeout_ok, shot>>

(* EDTS_SETBUF through edt_set_buffer: both counters restart from b, and   *)
(* nothing is started any more.                                            *)
SetBuffer(b, started) ==
  /\ done' = b
  /\ todo' = b + started
  /\ donecount' = b
  /\ base' = b

(***************************************************************************)
(* Configuring the ring.                                                   *)
(***************************************************************************)

(* EDTS_NUMBUFS restarts the driver's counters; an old ring was freed.     *)
NewRing(n, allocated) ==
  /\ numbufs' = n
  /\ configured' = allocated
  /\ done' = 0 /\ base' = 0
  /\ filling' = FALSE
  /\ slot' = [s \in Slots |-> Torn]

(* edt_setup_ring_buffers: the library's counter restarts as well, and     *)
(* numbufs is set before the memory is known to be there.                  *)
FreshRing(n) ==
  /\ \E allocated \in BOOLEAN : NewRing(n, allocated)
  /\ donecount' = 0

(* pdv_multibuf.                                                           *)
Multibuf(n) ==
  /\ pc = "idle"
  /\ FreshRing(n)
  /\ todo' = 0
  /\ running' = FALSE
  /\ UNCHANGED <<timeouts, timeout_ok, event, shot, last_wait_ret, callVars, wpc>>

(* edt_disable_ring_buffers: pending DMA is cancelled, the buffers freed.  *)
(* The library's counter stays as it is until the next configuration.      *)
DisableRingBuffers ==
  /\ pc = "idle"
  /\ NewRing(0, FALSE)
  /\ todo' = 0
  /\ running' = FALSE
  /\ UNCHANGED <<timeouts, timeout_ok, event, shot, donecount, last_wait_ret>>
  /\ UNCHANGED <<callVars, wpc>>

(***************************************************************************)
(* Starting images.                                                        *)
(***************************************************************************)

(* How many images pdv_start_images really starts.                         *)
Capped(n) == IF ForceSingle /\ n > 1 THEN 1 ELSE n

(* pdv_start_images: a missing ring gets one buffer first.                 *)
StartImages(n) ==
  /\ pc = "idle"
  /\ n >= 1
  /\ \/ /\ numbufs >= 1
        /\ todo + n <= MaxTodo
        /\ todo' = todo + Capped(n)
        /\ UNCHANGED <<numbufs, configured, done, donecount, base, filling, slot>>
     \/ /\ numbufs = 0
        /\ n <= MaxTodo
        /\ FreshRing(1)
        /\ todo' = Capped(n)
  /\ running' = TRUE
  /\ UNCHANGED <<timeouts, timeout_ok, event, shot, last_wait_ret, callVars, wpc>>

(***************************************************************************)
(* Waiting for images: edt_wait_for_buffers and its callers in libpdv.     *)
(***************************************************************************)

(* The call, up to its loop.  Without a ring it hands out NULL at once.    *)
BeginWait(count) ==
  /\ pc = "idle"
  /\ \/ /\ numbufs = 0
        /\ image' = Null
        /\ UNCHANGED <<pc, tmpcnt, ret, last_wait_ret>>
     \/ /\ numbufs > 0
        /\ pc' = "check"
        /\ tmpcnt' = donecount + count
        /\ ret' = "OK"
        /\ last_wait_ret' = "OK"
        /\ UNCHANGED image
  /\ UNCHANGED <<driverVars, curdone, curtodo, wpc, base>>
  /\ UNCHANGED <<numbufs, configured, donecount>>

(* pdv_wait_images and pdv_wait_image, the framesync mode being            *)
(* PDV_FRAMESYNC_OFF or _ON.  With PDV_FRAMESYNC_EMULATE_TIMEOUT, which a  *)
(* few camera configurations ask for (idtm5c.cfg), a wait that returns a   *)
(* frame with a bad footer calls edt_do_timeout as well: that branch of    *)
(* pdv_wait_images_raw is left out.                                        *)
WaitImages(count) ==
  /\ BeginWait(count)
  /\ UNCHANGED nSkipped

(* pdv_wait_last_image: wait for whatever the driver has completed beyond  *)
(* the last wait, or for one image when there is nothing.                  *)
WaitLastImage ==
  LET delta == done - donecount
  IN  /\ nSkipped' = IF delta = 0 THEN 0 ELSE delta - 1
      /\ BeginWait(IF delta = 0 THEN 1 ELSE delta)

(* edt_last_buffer and pdv_wait_last_image_timed: the same, uncounted.     *)
LastBuffer ==
  /\ BeginWait(IF done = donecount THEN 1 ELSE done - donecount)
  /\ UNCHANGED nSkipped

(* pdv_wait_next_image: one image more than that.  The counter is written  *)
(* only when what the caller left in it is not zero.                       *)
WaitNextImage ==
  LET delta == done - donecount
  IN  /\ nSkipped' \in {0, IF delta = 0 THEN 0 ELSE delta - 1}
      /\ BeginWait(1 + IF delta = 0 THEN 1 ELSE delta)

(* edt_check_for_buffers: as a wait when the buffers are there, else NULL. *)
CheckForBuffers(count) ==
  /\ pc = "idle" /\ numbufs > 0
  /\ \/ /\ done >= donecount + count
        /\ WaitImages(count)
     \/ /\ done < donecount + count
        /\ image' = Null
        /\ UNCHANGED <<driverVars, libraryVars, pc, tmpcnt, ret, curdone, curtodo>>
        /\ UNCHANGED <<nSkipped, wpc, base>>

(* The head of the loop: leave it, or clear the wait status and go to wait. *)
WaitCheck ==
  /\ pc = "check"
  /\ \/ /\ done >= tmpcnt
        /\ pc' = "return"
        /\ UNCHANGED <<ret, last_wait_ret>>
     \/ /\ done < tmpcnt
        /\ pc' = "entering"
        /\ ret' = "OK"
        /\ last_wait_ret' = "OK"
  /\ UNCHANGED <<driverVars, numbufs, configured, donecount>>
  /\ UNCHANGED <<tmpcnt, curdone, curtodo, nSkipped, image, wpc, base>>

(* Mutant: the event is reset before the wait instead of by it.            *)
WaitEnterPulsed ==
  /\ pc = "entering"
  /\ pc' = "blocked"
  /\ event' = FALSE
  /\ UNCHANGED <<done, todo, running, filling, timeouts, timeout_ok, slot, shot>>
  /\ UNCHANGED <<libraryVars, tmpcnt, ret, curdone, curtodo, nSkipped, image, wpc, base>>

(* WaitForSingleObject: a signalled event is consumed at once.             *)
WaitEnter ==
  /\ pc = "entering"
  /\ pc' = IF event THEN "woken" ELSE "blocked"
  /\ event' = FALSE
  /\ UNCHANGED <<done, todo, running, filling, timeouts, timeout_ok, slot, shot>>
  /\ UNCHANGED <<libraryVars, tmpcnt, ret, curdone, curtodo, nSkipped, image, wpc, base>>

(* Woken by a user wakeup, or by the driver: then look again.              *)
WaitWoken ==
  /\ pc = "woken"
  /\ IF last_wait_ret = "USER_WAKEUP"
     THEN ret' = "USER_WAKEUP" /\ pc' = "return"
     ELSE pc' = "check" /\ UNCHANGED ret
  /\ UNCHANGED <<driverVars, libraryVars, tmpcnt, curdone, curtodo, nSkipped>>
  /\ UNCHANGED <<image, wpc, base>>

(* WaitForSingleObject returns WAIT_TIMEOUT.                               *)
WaitExpires ==
  /\ pc = "blocked"
  /\ FiniteTimeout
  /\ \/ /\ timeout_ok
        /\ ret' = "OK_TIMEOUT"
        /\ pc' = "return"
     \/ /\ ~timeout_ok
        /\ timeouts < MaxTimeouts
        /\ pc' = "timedout"
        /\ UNCHANGED ret
  /\ UNCHANGED <<driverVars, libraryVars, tmpcnt, curdone, curtodo, nSkipped>>
  /\ UNCHANGED <<image, wpc, base>>

(* Mutant: the timeout branch does not say that it was one.                *)
WaitDoTimeoutSilent ==
  /\ pc = "timedout"
  /\ DriverTimeout
  /\ event' = FALSE
  /\ pc' = "return"
  /\ UNCHANGED <<libraryVars, tmpcnt, ret, curdone, curtodo, nSkipped, image, wpc, base>>

(* The timeout branch; a frame may have completed since the wait expired.  *)
WaitDoTimeout ==
  /\ pc = "timedout"
  /\ DriverTimeout
  /\ event' = FALSE
  /\ ret' = "TIMEOUT"
  /\ pc' = "return"
  /\ UNCHANGED <<libraryVars, tmpcnt, curdone, curtodo, nSkipped, image, wpc, base>>

(* Mutant: donecount % numbufs, the slot after the one waited for.         *)
WaitReturnNextSlot ==
  /\ pc = "return"
  /\ pc' = "idle"
  /\ donecount' = IF ret \in {"OK", "TIMEOUT"} THEN tmpcnt ELSE donecount
  /\ image' = IF configured THEN SlotOf(donecount' + 1, numbufs) ELSE Null
  /\ last_wait_ret' = ret
  /\ tmpcnt' = 0 /\ ret' = "OK" /\ nSkipped' = 0
  /\ UNCHANGED <<driverVars, numbufs, configured, curdone, curtodo, wpc, base>>

(* The tail: the library's count follows a wait that succeeded and one     *)
(* that timed out alike.                                                   *)
WaitReturn ==
  /\ pc = "return"
  /\ pc' = "idle"
  /\ donecount' = IF ret \in {"OK", "TIMEOUT"} THEN tmpcnt ELSE donecount
  /\ image' = IF configured THEN SlotOf(donecount', numbufs) ELSE Null
  /\ last_wait_ret' = ret
  /\ tmpcnt' = 0 /\ ret' = "OK" /\ nSkipped' = 0
  /\ UNCHANGED <<driverVars, numbufs, configured, curdone, curtodo, wpc, base>>

(***************************************************************************)
(* edt_user_dma_wakeup in another thread: pulse the event, then say why.   *)
(***************************************************************************)

WakeSet ==
  /\ UserWakeup
  /\ wpc = "idle"
  /\ SetEvent
  /\ wpc' = "reset"
  /\ UNCHANGED <<done, todo, running, filling, timeouts, timeout_ok, slot, shot>>
  /\ UNCHANGED <<libraryVars, tmpcnt, ret, curdone, curtodo, nSkipped, image, base>>

WakeReset ==
  /\ wpc = "reset"
  /\ event' = FALSE
  /\ wpc' = "mark"
  /\ UNCHANGED <<done, todo, running, filling, timeouts, timeout_ok, slot, shot>>
  /\ UNCHANGED <<libraryVars, callVars, base>>

WakeMark ==
  /\ wpc = "mark"
  /\ last_wait_ret' = "USER_WAKEUP"
  /\ wpc' = "idle"
  /\ UNCHANGED <<driverVars, numbufs, configured, donecount>>
  /\ UNCHANGED <<callVars, base>>

(***************************************************************************)
(* Recovering from timeouts.                                               *)
(***************************************************************************)

(* Mutant: the two counters are read into each other's variable.           *)
ReadCountsSwapped(next) ==
  /\ pc = "idle"
  /\ curdone' = todo
  /\ curtodo' = done
  /\ pc' = next
  /\ UNCHANGED <<driverVars, libraryVars, tmpcnt, ret, nSkipped, image, wpc, base>>

(* pdv_timeout_restart, pdv_timeout_cleanup and edt_abort_current_dma read *)
(* the driver's counters ...                                               *)
ReadCounts(next) ==
  /\ pc = "idle"
  /\ curdone' = done
  /\ curtodo' = todo
  /\ pc' = next
  /\ UNCHANGED <<driverVars, libraryVars, tmpcnt, ret, nSkipped, image, wpc, base>>

RestartRead == ReadCounts("restart")
CleanupRead == ReadCounts("cleanup")
AbortRead   == numbufs > 0 /\ done < MaxTodo /\ ReadCounts("abort")

(* ... and act on them, frames later: the DMA is cancelled, both counters  *)
(* are set to the number read before, the interface is reset, and what     *)
(* was not done then is started again.                                     *)
RestartAct(restart) ==
  LET left == curtodo - curdone
  IN  /\ pc = "restart"
      /\ SetBuffer(curdone, IF restart /\ left # 0 THEN Capped(left) ELSE 0)
      /\ running' = (restart /\ left # 0)
      /\ filling' = FALSE
      /\ pc' = "idle" /\ curdone' = 0 /\ curtodo' = 0
      /\ UNCHANGED <<timeouts, timeout_ok, event, slot, shot, numbufs, configured>>
      /\ UNCHANGED <<last_wait_ret, tmpcnt, ret, nSkipped, image, wpc>>

(* pdv_timeout_cleanup leaves the starting to its caller.                  *)
CleanupAct ==
  /\ pc = "cleanup"
  /\ SetBuffer(curdone, 0)
  /\ running' = FALSE
  /\ filling' = FALSE
  /\ pc' = "idle" /\ curdone' = 0 /\ curtodo' = 0
  /\ UNCHANGED <<timeouts, timeout_ok, event, slot, shot, numbufs, configured>>
  /\ UNCHANGED <<last_wait_ret, tmpcnt, ret, nSkipped, image, wpc>>

(* edt_abort_current_dma: cancel, and go on with the buffer after the one  *)
(* that was in progress when the counter was read.                         *)
AbortAct ==
  /\ pc = "abort"
  /\ SetBuffer(curdone + 1, 0)
  /\ running' = FALSE
  /\ filling' = FALSE
  /\ pc' = "idle" /\ curdone' = 0 /\ curtodo' = 0
  /\ UNCHANGED <<timeouts, timeout_ok, event, slot, shot, numbufs, configured>>
  /\ UNCHANGED <<last_wait_ret, tmpcnt, ret, nSkipped, image, wpc>>

(* Mutant: the overrun is noticed one image late.                          *)
OverrunLate == done > donecount + numbufs

(* edt_ring_buffer_overrun.                                                *)
Overrun == done >= donecount + numbufs

-----------------------------------------------------------------------------

(* edt_open resets the counters of the driver and of the library.          *)
Init ==
  /\ done = 0 /\ todo = 0 /\ timeouts = 0 /\ shot = 0
  /\ running = FALSE /\ filling = FALSE /\ event = FALSE
  /\ timeout_ok \in BOOLEAN
  /\ slot = [s \in Slots |-> Torn]
  /\ numbufs = 0 /\ configured = FALSE /\ donecount = 0
  /\ last_wait_ret = "OK"
  /\ pc = "idle" /\ tmpcnt = 0 /\ ret = "OK" /\ curdone = 0 /\ curtodo = 0
  /\ nSkipped = 0
  /\ image = Null
  /\ wpc = "idle"
  /\ base = 0

Driver == FrameStart \/ FrameDone

WaitStep ==
  \/ WaitCheck \/ WaitEnter \/ WaitWoken
  \/ WaitExpires \/ WaitDoTimeout \/ WaitReturn

Waker == WakeSet \/ WakeReset \/ WakeMark

Recover ==
  \/ RestartRead \/ CleanupRead \/ AbortRead \/ CleanupAct \/ AbortAct
  \/ \E restart \in BOOLEAN : RestartAct(restart)

Setup ==
  \/ DisableRingBuffers
  \/ \E n \in 1 .. MaxBufs : Multibuf(n)

Client ==
  \/ WaitLastImage \/ LastBuffer \/ WaitNextImage
  \/ \E n \in 1 .. MaxCount : StartImages(n) \/ WaitImages(n) \/ CheckForBuffers(n)

Next == Driver \/ WaitStep \/ Waker \/ Recover \/ Setup \/ Client

Spec == Init /\ [][Next]_vars

(* The thread that waits is scheduled; nothing is assumed of the camera.   *)
FairSpec == Spec /\ WF_vars(WaitStep)

(***************************************************************************)
(* Properties.                                                             *)
(***************************************************************************)

DriverTypeOK ==
  /\ done \in Nat /\ todo \in Nat /\ timeouts \in Nat /\ shot \in Nat
  /\ slot \in [Slots -> Content]

LibraryTypeOK ==
  /\ numbufs \in 0 .. MaxBufs
  /\ donecount \in Nat
  /\ last_wait_ret \in WaitStatus
  /\ base \in Nat

CallTypeOK ==
  /\ pc \in {"idle", "check", "entering", "blocked", "woken", "timedout",
              "return", "restart", "cleanup", "abort"}
  /\ tmpcnt \in Int /\ curdone \in Nat /\ curtodo \in Nat
  /\ nSkipped \in Int
  /\ ret \in WaitStatus
  /\ image \in Slots \cup {Null}
  /\ wpc \in {"idle", "reset", "mark"}

FlagsTypeOK ==
  /\ running \in BOOLEAN /\ filling \in BOOLEAN /\ event \in BOOLEAN
  /\ timeout_ok \in BOOLEAN /\ configured \in BOOLEAN

(* Every variable has its type.                                            *)
TypeOK == DriverTypeOK /\ LibraryTypeOK /\ CallTypeOK /\ FlagsTypeOK

InWait == pc \in {"check", "entering", "blocked", "woken", "timedout", "return"}

(* edt_ring_buffer_overrun misses nothing: while it answers 0, every image *)
(* the DMA completed and no wait has returned yet is still in its slot.    *)
OverrunSound ==
  configured /\ ~Overrun => \A k \in donecount + 1 .. done : Intact(k)

(* The image a wait handed out stays as it was completed until the DMA has *)
(* completed numbufs - 1 more images, across every start, timeout and      *)
(* user wakeup; only a reset of the counters ends the promise.             *)
HeldImageIntact ==
  /\ configured /\ image # Null
  /\ base < donecount /\ donecount <= done
  /\ done + 1 < donecount + numbufs
  => slot[image].num = donecount

(* The library's count runs ahead of the driver's only from a wait that    *)
(* timed out until the next wait, recovery or reset: a wait that reports   *)
(* EDT_WAIT_OK never hands out a buffer the driver has not completed.      *)
AheadOnlyAfterTimeout ==
  pc = "idle" /\ numbufs > 0 /\ last_wait_ret = "OK" => donecount <= done

(* A wait is never asleep on the event when the buffers it waits for are   *)
(* complete ("Blocks until the specified number of buffers have            *)
(* completed", edt_wait_for_buffers).  A user wakeup breaks this: the      *)
(* event it resets may be that of a frame.                                 *)
NoSleepPastCompletion ==
  pc = "blocked" => done < tmpcnt

(* A wait whose buffers are complete returns, without any timeout and      *)
(* without one more frame.                                                 *)
WaitReturns ==
  InWait /\ done >= tmpcnt ~> pc = "idle"

(***************************************************************************)
(* Why they hold: an inductive invariant of every ring, count and timeout. *)
(***************************************************************************)

InRecover == pc \in {"restart", "cleanup", "abort"}

(* The counters stay in order, and the DMA writes only what was started.   *)
CountersInOrder ==
  /\ base <= done /\ base <= donecount /\ done <= todo
  /\ configured => numbufs > 0
  /\ filling => configured /\ done < todo

(* Of the images completed since the last reset, the last numbufs - 1 are  *)
(* in their slots, even while the next frame is being written.             *)
RingHolds ==
  configured => \A k \in base + 1 .. done : done + 1 < k + numbufs => Intact(k)

(* What a call in progress has read stays true until the call is over.     *)
CallInOrder ==
  /\ InWait => numbufs > 0 /\ base <= tmpcnt
  /\ pc = "return" /\ ret = "OK" => tmpcnt <= done
  /\ InRecover => curdone <= curtodo

(* The address handed out is that of the library's count.                  *)
HandedOut ==
  configured /\ image # Null /\ base < donecount => image = SlotOf(donecount, numbufs)

IndInv ==
  /\ TypeOK /\ CountersInOrder /\ RingHolds
  /\ CallInOrder /\ HandedOut /\ AheadOnlyAfterTimeout

=============================================================================
