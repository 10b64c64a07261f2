------------------------------ MODULE LiveView ------------------------------
(***************************************************************************)
(* Live display in the vendor's Windows viewer: LiveDisplay runs a thread  *)
(* that takes images through PdvInput while the user interface starts,     *)
(* stops, aborts and takes single images.  The user interface and the      *)
(* thread share two flags and PdvInput's counts; LiveDisplay's lock guards *)
(* only the flags of LiveDisplay.                                          *)
(*                                                                         *)
(* All counters are kept as differences, for the counters themselves only  *)
(* grow while the display is live:                                         *)
(*   pending  PdvInput's started - done                                    *)
(*   queued   the driver's todo - done                                     *)
(*   unseen   the driver's done - the library's donecount                  *)
(* LiveDisplay's m_bStartPending is left out: it is only TRUE inside of    *)
(* GoLive, before there is a thread.  Camera settings are at their         *)
(* defaults: one camera, no free running, no forced single buffers.        *)
(***************************************************************************)
EXTENDS Integers

CONSTANTS
  NBufs,       (* m_nBufs                                                   *)
  MaxCounts,   (* the values of m_nMaxCount, 0 for no end                   *)
  KeepUps,     (* the values of m_bKeepUp                                   *)
  MaxPending   (* bound: pending, beyond which no frame is skipped          *)

ASSUME LiveAssumption ==
  /\ NBufs \in Nat /\ NBufs >= 3
  /\ MaxCounts \subseteq Nat
  /\ KeepUps \subseteq BOOLEAN /\ KeepUps # {}
  /\ MaxPending \in Nat

VARIABLES
  (* the driver and the library *)
  queued, unseen,
  (* PdvInput *)
  active,      (* m_bActiveFlag                                             *)
  pending,
  left,        (* m_nTodo - started, or Unlimited                           *)
  recovering,  (* m_bTimeoutRecovery                                        *)
  keepUp,
  (* LiveDisplay *)
  thread,      (* m_pThread is set                                          *)
  liveFlag,    (* LiveDisplay's m_bActiveFlag                               *)
  (* the call of GetNextBuffer that each of the two is in *)
  at, want, skipped, timedOut, curtodo, ntostart,
  (* the user interface *)
  ui,          (* where it is                                               *)
  stopPending, (* m_bStopPending, and the timer is set                      *)
  (* history *)
  keptUp       (* m_bKeepUp has been on since the display went live         *)

bufferVars == <<queued, unseen>>
inputVars  == <<active, pending, left, recovering>>
liveVars   == <<thread, liveFlag>>
callVars   == <<want, skipped, timedOut, curtodo, ntostart>>
uiVars     == <<ui, stopPending, keepUp, keptUp>>
vars == <<bufferVars, inputVars, liveVars, at, callVars, uiVars>>

Unlimited == -1

(* Who may be in GetNextBuffer: the live thread, and the user interface    *)
(* for a single image.                                                     *)
Actors == {"live", "single"}

Places == {"none", "top", "test", "wait", "expired", "count", "restartRead", "restart",
           "startRead", "start", "show", "drainRead", "drain", "drainExpired", "drained",
           "finish", "stopping", "clear"}

Goes(a, from, to) ==
  /\ at[a] = from
  /\ at' = [at EXCEPT ![a] = to]

Init ==
  /\ queued = 0 /\ unseen = 0
  /\ active = FALSE /\ pending = 0 /\ left = 0 /\ recovering = FALSE
  /\ keepUp \in KeepUps /\ keptUp = keepUp
  /\ thread = FALSE /\ liveFlag = FALSE
  /\ at = [a \in Actors |-> "none"]
  /\ want = [a \in Actors |-> 0] /\ skipped = [a \in Actors |-> 0]
  /\ timedOut = [a \in Actors |-> FALSE]
  /\ curtodo = [a \in Actors |-> 0] /\ ntostart = [a \in Actors |-> 0]
  /\ ui = "idle" /\ stopPending = FALSE

-----------------------------------------------------------------------------
(***************************************************************************)
(* The driver.                                                             *)
(***************************************************************************)

(* While a restart is under way, a frame that completes is skipped: it     *)
(* will be pending for ever.                                               *)
FrameDone ==
  /\ queued > 0
  /\ pending <= MaxPending
  /\ queued' = queued - 1
  /\ unseen' = unseen + 1
  /\ UNCHANGED <<inputVars, liveVars, at, callVars, uiVars>>

(* The image that timed out counts as done. *)
DoTimeout(a, from, to) ==
  /\ Goes(a, from, to)
  /\ timedOut' = [timedOut EXCEPT ![a] = TRUE]
  /\ LET counted == IF queued > 0 THEN 1 ELSE 0
     IN /\ queued' = queued - counted
        /\ unseen' = unseen + counted - want[a]
  /\ UNCHANGED <<inputVars, liveVars, want, skipped, curtodo, ntostart, uiVars>>

(* pdv_wait_images_raw, for want[a] images beyond donecount. *)
Waited(a, from, to) ==
  /\ unseen >= want[a]
  /\ Goes(a, from, to)
  /\ unseen' = unseen - want[a]
  /\ UNCHANGED <<queued, inputVars, liveVars, callVars, uiVars>>

(* Mutant: the wait has no timeout. *)
ExpiresNever(a, from, to) == a \notin Actors /\ Goes(a, from, to)

Expires(a, from, to) ==
  /\ unseen < want[a]
  /\ Goes(a, from, to)
  /\ UNCHANGED <<bufferVars, inputVars, liveVars, callVars, uiVars>>

-----------------------------------------------------------------------------
(***************************************************************************)
(* PdvInput.                                                               *)
(***************************************************************************)

AtMost(n, m) == IF n <= m THEN n ELSE m
AtLeast(n, m) == IF n >= m THEN n ELSE m

(* StartImages starts no more than are to do. *)
Capped(n) == IF left = Unlimited THEN n ELSE AtLeast(AtMost(n, left), 0)

(* StartAcquire: as many images as there are buffers but two. *)
StartAcquire(todo) ==
  LET n == IF NBufs > 3 THEN NBufs - 2 ELSE 1
      first == IF todo = 0 THEN n ELSE AtMost(n, todo)
  IN /\ active' = TRUE
     /\ pending' = first
     /\ left' = IF todo = 0 THEN Unlimited ELSE todo - first
     /\ queued' = first /\ unseen' = 0

(* GetNextBuffer: whether it has been asked to stop, and if not, how many  *)
(* images have come: all of them, or one, are waited for.                  *)
Test(a) ==
  IF active
  THEN /\ Goes(a, "test", "wait")
       /\ want' = [want EXCEPT ![a] = IF keepUp THEN AtLeast(unseen, 1) ELSE 1]
       /\ skipped' = [skipped EXCEPT ![a] = IF keepUp THEN AtLeast(unseen - 1, 0) ELSE 0]
       /\ UNCHANGED <<bufferVars, inputVars, liveVars, timedOut, curtodo, ntostart, uiVars>>
  ELSE (* edt_stop_buffers: the current one is finished *)
       /\ Goes(a, "test", "drainRead")
       /\ queued' \in {queued, AtMost(queued, 1)}
       /\ UNCHANGED <<unseen, inputVars, liveVars, callVars, uiVars>>

Wait(a) ==
  \/ Waited(a, "wait", "count")
  \/ Expires(a, "wait", "expired")
  \/ DoTimeout(a, "expired", "count")

(* Mutant: an image is counted that was not waited for. *)
CountMore(a) ==
  /\ Goes(a, "count", IF timedOut[a] \/ recovering THEN "restartRead" ELSE "startRead")
  /\ pending' = pending - (skipped[a] + 2)
  /\ recovering' = timedOut[a]
  /\ want' = [want EXCEPT ![a] = 0]
  /\ skipped' = [skipped EXCEPT ![a] = 0]
  /\ timedOut' = [timedOut EXCEPT ![a] = FALSE]
  /\ UNCHANGED <<bufferVars, active, left, liveVars, curtodo, ntostart, uiVars>>

(* A timeout is recovered from twice, after the image that timed out and   *)
(* after the next that does not.                                           *)
Count(a) ==
  /\ Goes(a, "count", IF timedOut[a] \/ recovering THEN "restartRead" ELSE "startRead")
  /\ pending' = pending - (skipped[a] + 1)
  /\ recovering' = timedOut[a]
  /\ want' = [want EXCEPT ![a] = 0]
  /\ skipped' = [skipped EXCEPT ![a] = 0]
  /\ timedOut' = [timedOut EXCEPT ![a] = FALSE]
  /\ UNCHANGED <<bufferVars, active, left, liveVars, curtodo, ntostart, uiVars>>

(* pdv_timeout_restart. *)
RestartRead(a) ==
  /\ Goes(a, "restartRead", "restart")
  /\ curtodo' = [curtodo EXCEPT ![a] = queued]
  /\ UNCHANGED <<bufferVars, inputVars, liveVars, want, skipped, timedOut, ntostart, uiVars>>

Restart(a) ==
  /\ Goes(a, "restart", "startRead")
  /\ queued' = curtodo[a] /\ unseen' = 0
  /\ curtodo' = [curtodo EXCEPT ![a] = 0]
  /\ UNCHANGED <<inputVars, liveVars, want, skipped, timedOut, ntostart, uiVars>>

(* Mutant: one image more is kept going. *)
StartReadMore(a) ==
  /\ Goes(a, "startRead", "start")
  /\ ntostart' = [ntostart EXCEPT ![a] = 2]
  /\ UNCHANGED <<bufferVars, inputVars, liveVars, want, skipped, timedOut, curtodo, uiVars>>

(* The end of GetNextBuffer. *)
StartRead(a) ==
  /\ Goes(a, "startRead", "start")
  /\ ntostart' = [ntostart EXCEPT ![a] =
       IF keepUp THEN AtLeast(NBufs - queued - 2, 1) ELSE 1]
  /\ UNCHANGED <<bufferVars, inputVars, liveVars, want, skipped, timedOut, curtodo, uiVars>>

(* Mutant: what is to do is not looked at. *)
StartUncapped(a) ==
  /\ Goes(a, "start", IF a = "live" THEN "show" ELSE "stopping")
  /\ queued' = queued + ntostart[a]
  /\ pending' = pending + ntostart[a]
  /\ ntostart' = [ntostart EXCEPT ![a] = 0]
  /\ UNCHANGED <<unseen, active, left, recovering, liveVars, want, skipped, timedOut,
                 curtodo, uiVars>>

Start(a) ==
  LET n == Capped(ntostart[a])
  IN /\ Goes(a, "start", IF a = "live" THEN "show" ELSE "stopping")
     /\ queued' = queued + n
     /\ pending' = pending + n
     /\ left' = IF left = Unlimited THEN left ELSE left - n
     /\ ntostart' = [ntostart EXCEPT ![a] = 0]
     /\ UNCHANGED <<unseen, active, recovering, liveVars, want, skipped, timedOut,
                    curtodo, uiVars>>

(* GetAllStartedImages: the images that the driver has still to do are     *)
(* counted from donecount.                                                 *)
DrainRead(a) ==
  /\ Goes(a, "drainRead", "drain")
  /\ want' = [want EXCEPT ![a] = queued]
  /\ UNCHANGED <<bufferVars, inputVars, liveVars, skipped, timedOut, curtodo, ntostart, uiVars>>

Drain(a) ==
  \/ Waited(a, "drain", "drained")
  \/ Expires(a, "drain", "drainExpired")
  \/ DoTimeout(a, "drainExpired", "drained")

(* Mutant: the count of started images stays. *)
DrainedNot(a) ==
  /\ Goes(a, "drained", IF a = "live" THEN "show" ELSE "stopping")
  /\ queued' = 0 /\ unseen' = 0
  /\ want' = [want EXCEPT ![a] = 0]
  /\ timedOut' = [timedOut EXCEPT ![a] = FALSE]
  /\ UNCHANGED <<active, pending, left, recovering, liveVars, skipped, curtodo, ntostart, uiVars>>

(* SetDone, SetStarted and edt_set_buffer(0). *)
Drained(a) ==
  /\ Goes(a, "drained", IF a = "live" THEN "show" ELSE "stopping")
  /\ pending' = 0
  /\ queued' = 0 /\ unseen' = 0
  /\ want' = [want EXCEPT ![a] = 0]
  /\ timedOut' = [timedOut EXCEPT ![a] = FALSE]
  /\ UNCHANGED <<active, left, recovering, liveVars, skipped, curtodo, ntostart, uiVars>>

GetNextBuffer(a) ==
  \/ Test(a) \/ Wait(a) \/ Count(a)
  \/ RestartRead(a) \/ Restart(a) \/ StartRead(a) \/ Start(a)
  \/ DrainRead(a) \/ Drain(a) \/ Drained(a)

StopAcquiring(a) ==
  /\ Goes(a, "stopping", "clear")
  /\ active' = FALSE
  /\ UNCHANGED <<bufferVars, pending, left, recovering, liveVars, callVars, uiVars>>

-----------------------------------------------------------------------------
(***************************************************************************)
(* LiveDisplay's thread, DoLiveThreadFunc.  Its look at the flag and its   *)
(* setting of it need the lock that StopLive holds.                        *)
(***************************************************************************)

Unlocked == ui # "initiate"

Top ==
  /\ Unlocked
  /\ Goes("live", "top", IF liveFlag THEN "test" ELSE "stopping")
  /\ UNCHANGED <<bufferVars, inputVars, liveVars, callVars, uiVars>>

(* The image, a buffer of the ring, is shown. *)
Show ==
  /\ Goes("live", "show", "finish")
  /\ UNCHANGED <<bufferVars, inputVars, liveVars, callVars, uiVars>>

(* AllFinished: there are no images pending. *)
Finish ==
  /\ Unlocked
  /\ Goes("live", "finish", "top")
  /\ liveFlag' = (liveFlag /\ pending > 0)
  /\ UNCHANGED <<bufferVars, inputVars, thread, callVars, uiVars>>

(* The end of the thread: the finish functions, and m_pThread = 0. *)
Clear ==
  /\ Goes("live", "clear", "none")
  /\ thread' = FALSE
  /\ UNCHANGED <<bufferVars, inputVars, liveFlag, callVars, uiVars>>

LiveThread ==
  GetNextBuffer("live") \/ Top \/ Show \/ Finish \/ StopAcquiring("live") \/ Clear

-----------------------------------------------------------------------------
(***************************************************************************)
(* The user interface.                                                     *)
(***************************************************************************)

(* OnCameraContinuous, when the display is not live. *)
GoLive ==
  /\ ui = "idle" /\ ~stopPending /\ ~thread
  /\ thread' = TRUE /\ liveFlag' = TRUE
  /\ \E count \in MaxCounts : StartAcquire(count)
  /\ at' = [at EXCEPT !["live"] = "top"]
  /\ keptUp' = keepUp
  /\ UNCHANGED <<recovering, callVars, ui, stopPending, keepUp>>

IsCapturingImages == active /\ pending > 0

(* OnCameraContinuous, and OnCameraCapture, when it is live: StopPump asks *)
(* only a camera that is capturing to stop.                                *)
Stop ==
  /\ ui = "idle" /\ ~stopPending /\ thread
  /\ ui' = IF IsCapturingImages THEN "initiate" ELSE "idle"
  /\ stopPending' = TRUE
  /\ UNCHANGED <<bufferVars, inputVars, liveVars, at, callVars, keepUp, keptUp>>

(* Mutant: the stop is not passed on. *)
InitiateNothing ==
  /\ ui = "initiate"
  /\ ui' = "idle"
  /\ UNCHANGED <<bufferVars, inputVars, liveVars, at, callVars, stopPending, keepUp, keptUp>>

InitiateStop ==
  /\ ui = "initiate"
  /\ active' = FALSE
  /\ ui' = "idle"
  /\ UNCHANGED <<bufferVars, pending, left, recovering, liveVars, at, callVars, stopPending,
                 keepUp, keptUp>>

(* OnTimer. *)
Timer ==
  /\ ui = "idle" /\ stopPending /\ ~thread
  /\ stopPending' = FALSE
  /\ UNCHANGED <<bufferVars, inputVars, liveVars, at, callVars, ui, keepUp, keptUp>>

(* Mutant: a stop under way is taken for its end. *)
CaptureImageEarly ==
  /\ ui = "idle" /\ (~thread \/ stopPending)
  /\ StartAcquire(1)
  /\ at' = [at EXCEPT !["single"] = "test"]
  /\ ui' = "capture"
  /\ UNCHANGED <<recovering, liveVars, callVars, stopPending, keepUp, keptUp>>

(* OnCameraCapture, when the display is not live: PdvInput::CaptureImage. *)
CaptureImage ==
  /\ ui = "idle" /\ ~thread
  /\ StartAcquire(1)
  /\ at' = [at EXCEPT !["single"] = "test"]
  /\ ui' = "capture"
  /\ UNCHANGED <<recovering, liveVars, callVars, stopPending, keepUp, keptUp>>

Captured ==
  /\ Goes("single", "clear", "none")
  /\ ui' = "idle"
  /\ UNCHANGED <<bufferVars, inputVars, liveVars, callVars, stopPending, keepUp, keptUp>>

(* OnKeepUp. *)
KeepUp ==
  /\ ui = "idle"
  /\ keepUp' \in KeepUps \ {keepUp}
  /\ keptUp' = TRUE
  /\ UNCHANGED <<bufferVars, inputVars, liveVars, at, callVars, ui, stopPending>>

(* OnClose: LiveDisplay::Abort, whose camera gives up the images queued,   *)
(* if it has not been asked to stop.  The window is gone after it.         *)
Close ==
  /\ ui = "idle"
  /\ ui' = "closed"
  /\ IF thread
     THEN /\ thread' = FALSE /\ liveFlag' = FALSE /\ active' = FALSE
          /\ IF active THEN queued' = 0 /\ unseen' = 0 ELSE UNCHANGED bufferVars
     ELSE UNCHANGED <<bufferVars, liveVars, active>>
  /\ UNCHANGED <<pending, left, recovering, at, callVars, stopPending, keepUp, keptUp>>

Interface ==
  InitiateStop \/ Timer \/ GetNextBuffer("single") \/ StopAcquiring("single") \/ Captured

Next ==
  \/ FrameDone
  \/ LiveThread
  \/ Interface
  \/ GoLive \/ Stop \/ CaptureImage \/ KeepUp \/ Close

Spec == Init /\ [][Next]_vars

(* Threads are scheduled, and waits end by an image or by their timeout.   *)
(* The timer goes on firing: it gets its turn between single images.       *)
(* Neither images nor the user are waited for.                             *)
FairSpec ==
  /\ Spec
  /\ WF_vars(LiveThread)
  /\ WF_vars(Interface)
  /\ SF_vars(Timer)

-----------------------------------------------------------------------------
TypeOK ==
  /\ queued \in Nat /\ unseen \in Int
  /\ active \in BOOLEAN /\ pending \in Nat
  /\ left \in Nat \cup {Unlimited} /\ recovering \in BOOLEAN
  /\ keepUp \in BOOLEAN /\ keptUp \in BOOLEAN
  /\ thread \in BOOLEAN /\ liveFlag \in BOOLEAN
  /\ at \in [Actors -> Places]
  /\ want \in [Actors -> Nat] /\ skipped \in [Actors -> Nat]
  /\ timedOut \in [Actors -> BOOLEAN]
  /\ curtodo \in [Actors -> Nat] /\ ntostart \in [Actors -> Nat]
  /\ ui \in {"idle", "initiate", "capture", "closed"}
  /\ stopPending \in BOOLEAN

(* A single image is taken only when the live thread has let go of the     *)
(* device, however a stop, the timer and the thread's end fall together.   *)
CaptureAlone == at["single"] # "none" => at["live"] = "none"

(* When the display ends, other than by closing the window, nothing that   *)
(* was started is still to be acquired: BuffersPending is enough to tell.  *)
IdleWhenDone ==
  (\A a \in Actors : at[a] = "none") /\ ui # "closed" => queued = 0

(* While images are waited for one by one, the image that is being shown   *)
(* is not one the camera writes into.                                      *)
ShownIntact ==
  at["live"] = "show" /\ active /\ ~keptUp => queued + unseen < NBufs

(***************************************************************************)
(* The inductive invariant.                                                *)
(***************************************************************************)

Waiting == {"wait", "expired"}

(* Between the count of an image and the start of the next. *)
Counted == {"restartRead", "restart", "startRead", "start"}

Draining == {"drainRead", "drain", "drainExpired", "drained"}

Ending == {"none", "stopping", "clear"}

Closed == ui = "closed"

(* The two flags and the two threads. *)
WhoIsWhere ==
  /\ at["single"] \in Ending \cup {"test", "count"} \cup Waiting \cup Counted
  /\ at["single"] # "none" <=> ui = "capture"
  /\ ui = "capture" => ~thread
  /\ ui = "initiate" => thread
  /\ ui = "initiate" => at["live"] \notin Ending /\ (at["live"] = "top" => liveFlag)
  /\ ~Closed => (at["live"] # "none" <=> thread)
  /\ Closed /\ at["live"] # "none" => ~active
  /\ at["live"] \notin Ending \cup {"top"} /\ ~Closed => liveFlag

(* A wait that expires is one for the very next image. *)
WaitsKnown ==
  \A a \in Actors :
    /\ at[a] \in Waiting \cup {"count"} => want[a] = skipped[a] + 1
    /\ at[a] \in Waiting /\ ~Closed => unseen >= 0 /\ (unseen >= want[a] \/ want[a] = 1)
    /\ at[a] = "expired" /\ ~Closed => want[a] = 1
    /\ at[a] \in {"count", "restartRead"} /\ ~Closed =>
         unseen >= 0 \/ (queued = 0 /\ unseen = -1)
    /\ at[a] = "count" /\ ~Closed /\ unseen < 0 => timedOut[a]

(* While the display is live, what is started and not yet taken is pending.*)
PendingCovers ==
  /\ at["live"] \in Waiting \cup {"count"} => pending > skipped["live"]
  /\ ~Closed =>
       /\ at["live"] \in {"top", "test", "show", "finish"} \cup Waiting =>
            pending >= queued + unseen /\ unseen >= 0
       /\ at["live"] = "test" \/ (at["live"] = "top" /\ liveFlag) => pending > 0
       /\ at["live"] = "count" =>
            /\ pending - (skipped["live"] + 1) >= queued + unseen
            /\ pending - (skipped["live"] + 1) >= queued
       /\ at["live"] = "restartRead" => pending >= queued + unseen /\ pending >= queued
       /\ at["live"] = "restart" => pending >= curtodo["live"]
       /\ at["live"] \in {"startRead", "start"} => pending >= queued + unseen /\ unseen >= 0
       /\ at["live"] \in Ending \/ (at["live"] = "top" /\ ~liveFlag) =>
            queued = 0 \/ at["single"] # "none"
       /\ at["live"] \in {"stopping", "clear"} \/ (at["live"] = "top" /\ ~liveFlag) =>
            pending = 0

(* A single image is the only one. *)
SingleIsOne ==
  /\ at["single"] \notin Ending => active /\ left = 0
  /\ at["single"] \in {"test"} \cup Waiting =>
       queued + unseen = 1 /\ unseen >= 0 /\ pending = 1
  /\ at["single"] \in Waiting \cup {"count"} => want["single"] = 1
  /\ at["single"] = "count" => pending = 1
  /\ at["single"] \in {"count", "stopping", "clear"} \cup Counted => queued = 0 /\ unseen <= 0
  /\ at["single"] = "restart" => curtodo["single"] = 0

(* How many images are started and not yet taken, when images are waited   *)
(* for one by one.                                                         *)
Depth == IF NBufs > 3 THEN NBufs - 2 ELSE 1

DepthKept ==
  ~keptUp =>
    /\ ~keepUp
    /\ at["live"] \in Waiting \cup {"count"} => want["live"] = 1
    /\ at["live"] = "start" => ntostart["live"] = 1
    /\ ~Closed =>
         /\ at["live"] \in {"top", "test", "show", "finish"} \cup Waiting =>
              queued + unseen <= Depth
         /\ at["live"] \in {"count", "restartRead", "startRead", "start"} =>
              queued <= Depth - 1 /\ queued + unseen <= Depth - 1
         /\ at["live"] = "restart" => curtodo["live"] <= Depth - 1

IndInv == TypeOK /\ WhoIsWhere /\ WaitsKnown /\ PendingCovers /\ SingleIsOne /\ DepthKept

-----------------------------------------------------------------------------
(* A camera that was asked to stop, or aborted, is let go by the thread.   *)
AskedStops == (at["live"] # "none" /\ ~active) ~> (at["live"] = "none")

(* The user interface gets its single image, or its timeout.               *)
CaptureEnds == (ui = "capture") ~> (ui = "idle")

(* A stop ends, and the display can go live again, when images are waited  *)
(* for one by one and there are four buffers or more.                      *)
StopEndsSteady == NBufs > 3 => ((stopPending /\ ~keptUp) ~> (~stopPending \/ ui = "closed"))

(* A stop ends, whatever the settings.                                     *)
StopEnds == stopPending ~> (~stopPending \/ ui = "closed")
=============================================================================
