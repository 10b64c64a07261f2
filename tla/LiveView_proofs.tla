-------------------------- MODULE LiveView_proofs --------------------------
(***************************************************************************)
(* Proofs about LiveView, for every number of buffers and every bound: the *)
(* device is never used by two threads, nothing is left running when the   *)
(* display ends, and with images waited for one by one the image shown is  *)
(* not written into.                                                       *)
(*                                                                         *)
(* One lemma per action, with one step per part of the invariant.          *)
(***************************************************************************)
EXTENDS LiveView, TLAPS

USE DEF Actors, Places, Waiting, Counted, Draining, Ending, Closed, Unlimited, Goes,
  bufferVars, inputVars, liveVars, callVars, uiVars

(* A frame. *)
LEMMA FrameDoneStep ==
  ASSUME IndInv, FrameDone
  PROVE  IndInv'
<1>1. TypeOK'
  BY LiveAssumption DEF IndInv, TypeOK, FrameDone
<1>2. WhoIsWhere'
  BY LiveAssumption DEF IndInv, TypeOK, WhoIsWhere, FrameDone
<1>3. WaitsKnown'
  BY LiveAssumption DEF IndInv, TypeOK, WhoIsWhere, WaitsKnown, FrameDone
<1>4. PendingCovers'
  BY LiveAssumption DEF IndInv, TypeOK, WhoIsWhere, WaitsKnown, PendingCovers, FrameDone
<1>5. SingleIsOne'
  BY LiveAssumption DEF IndInv, TypeOK, WhoIsWhere, WaitsKnown, SingleIsOne, FrameDone
<1>6. DepthKept'
  BY LiveAssumption DEF IndInv, TypeOK, WhoIsWhere, WaitsKnown, DepthKept, Depth, FrameDone
<1> QED BY <1>1, <1>2, <1>3, <1>4, <1>5, <1>6 DEF IndInv

(* GetNextBuffer looks whether it was asked to stop. *)
LEMMA TestStep ==
  ASSUME IndInv, NEW a \in Actors, Test(a)
  PROVE  IndInv'
<1>1. TypeOK'
  BY LiveAssumption DEF IndInv, TypeOK, Test, AtLeast, AtMost
<1>2. WhoIsWhere'
  BY LiveAssumption DEF IndInv, TypeOK, WhoIsWhere, WaitsKnown, PendingCovers, SingleIsOne, Test, AtLeast,
       AtMost
<1>3. WaitsKnown'
  BY LiveAssumption DEF IndInv, TypeOK, WhoIsWhere, WaitsKnown, PendingCovers, SingleIsOne, Test, AtLeast,
       AtMost
<1>4. PendingCovers'
  BY LiveAssumption DEF IndInv, TypeOK, WhoIsWhere, WaitsKnown, PendingCovers, Test, AtLeast, AtMost
<1>5. SingleIsOne'
  BY LiveAssumption DEF IndInv, TypeOK, WhoIsWhere, WaitsKnown, SingleIsOne, Test, AtLeast, AtMost
<1>6. DepthKept'
  BY LiveAssumption DEF IndInv, TypeOK, WhoIsWhere, WaitsKnown, DepthKept, Depth, Test, AtLeast, AtMost
<1> QED BY <1>1, <1>2, <1>3, <1>4, <1>5, <1>6 DEF IndInv

(* A wait that finds its images. *)
LEMMA WaitedStep ==
  ASSUME IndInv, NEW a \in Actors, Waited(a, "wait", "count")
  PROVE  IndInv'
<1>1. TypeOK'
  BY LiveAssumption DEF IndInv, TypeOK, Waited
<1>2. WhoIsWhere'
  BY LiveAssumption DEF IndInv, TypeOK, WhoIsWhere, Waited
<1>3. WaitsKnown'
  BY LiveAssumption DEF IndInv, TypeOK, WhoIsWhere, WaitsKnown, Waited
<1>4. PendingCovers'
  BY LiveAssumption DEF IndInv, TypeOK, WhoIsWhere, WaitsKnown, PendingCovers, Waited
<1>5. SingleIsOne'
  BY LiveAssumption DEF IndInv, TypeOK, WhoIsWhere, WaitsKnown, SingleIsOne, Waited
<1>6. DepthKept'
  BY LiveAssumption DEF IndInv, TypeOK, WhoIsWhere, WaitsKnown, DepthKept, Depth, Waited
<1> QED BY <1>1, <1>2, <1>3, <1>4, <1>5, <1>6 DEF IndInv

(* A wait that expires. *)
LEMMA ExpiresStep ==
  ASSUME IndInv, NEW a \in Actors, Expires(a, "wait", "expired")
  PROVE  IndInv'
<1>1. TypeOK'
  BY LiveAssumption DEF IndInv, TypeOK, Expires
<1>2. WhoIsWhere'
  BY LiveAssumption DEF IndInv, TypeOK, WhoIsWhere, Expires
<1>3. WaitsKnown'
  BY LiveAssumption DEF IndInv, TypeOK, WhoIsWhere, WaitsKnown, Expires
<1>4. PendingCovers'
  BY LiveAssumption DEF IndInv, TypeOK, WhoIsWhere, WaitsKnown, PendingCovers, Expires
<1>5. SingleIsOne'
  BY LiveAssumption DEF IndInv, TypeOK, WhoIsWhere, WaitsKnown, SingleIsOne, Expires
<1>6. DepthKept'
  BY LiveAssumption DEF IndInv, TypeOK, WhoIsWhere, WaitsKnown, DepthKept, Depth, Expires
<1> QED BY <1>1, <1>2, <1>3, <1>4, <1>5, <1>6 DEF IndInv

(* A timeout. *)
LEMMA DoTimeoutStep ==
  ASSUME IndInv, NEW a \in Actors, DoTimeout(a, "expired", "count")
  PROVE  IndInv'
<1>1. TypeOK'
  BY LiveAssumption DEF IndInv, TypeOK, DoTimeout
<1>2. WhoIsWhere'
  BY LiveAssumption DEF IndInv, TypeOK, WhoIsWhere, DoTimeout
<1>3. WaitsKnown'
  <2>1. CASE a = "live"
    BY <2>1, LiveAssumption
    DEF IndInv, TypeOK, WhoIsWhere, WaitsKnown, DoTimeout
  <2>2. CASE a = "single"
    BY <2>2, LiveAssumption
    DEF IndInv, TypeOK, WhoIsWhere, WaitsKnown, DoTimeout
  <2> QED BY <2>1, <2>2 DEF Actors
<1>4. PendingCovers'
  BY LiveAssumption DEF IndInv, TypeOK, WhoIsWhere, WaitsKnown, PendingCovers, DoTimeout
<1>5. SingleIsOne'
  <2>1. CASE a = "live"
    BY <2>1, LiveAssumption
    DEF IndInv, TypeOK, WhoIsWhere, WaitsKnown, SingleIsOne, DoTimeout
  <2>2. CASE a = "single"
    BY <2>2, LiveAssumption
    DEF IndInv, TypeOK, WhoIsWhere, WaitsKnown, SingleIsOne, DoTimeout
  <2> QED BY <2>1, <2>2 DEF Actors
<1>6. DepthKept'
  BY LiveAssumption DEF IndInv, TypeOK, WhoIsWhere, WaitsKnown, DepthKept, Depth, DoTimeout
<1> QED BY <1>1, <1>2, <1>3, <1>4, <1>5, <1>6 DEF IndInv

(* The count of an image. *)
LEMMA CountStep ==
  ASSUME IndInv, NEW a \in Actors, Count(a)
  PROVE  IndInv'
<1>1. TypeOK'
  BY LiveAssumption DEF IndInv, TypeOK, WaitsKnown, PendingCovers, SingleIsOne, Count
<1>2. WhoIsWhere'
  BY LiveAssumption DEF IndInv, TypeOK, WhoIsWhere, Count
<1>3. WaitsKnown'
  BY LiveAssumption DEF IndInv, TypeOK, WhoIsWhere, WaitsKnown, Count
<1>4. PendingCovers'
  BY LiveAssumption DEF IndInv, TypeOK, WhoIsWhere, WaitsKnown, PendingCovers, Count
<1>5. SingleIsOne'
  BY LiveAssumption DEF IndInv, TypeOK, WhoIsWhere, WaitsKnown, SingleIsOne, Count
<1>6. DepthKept'
  BY LiveAssumption DEF IndInv, TypeOK, WhoIsWhere, WaitsKnown, DepthKept, Depth, Count
<1> QED BY <1>1, <1>2, <1>3, <1>4, <1>5, <1>6 DEF IndInv

(* The counters read for a restart. *)
LEMMA RestartReadStep ==
  ASSUME IndInv, NEW a \in Actors, RestartRead(a)
  PROVE  IndInv'
<1>1. TypeOK'
  BY LiveAssumption DEF IndInv, TypeOK, RestartRead
<1>2. WhoIsWhere'
  BY LiveAssumption DEF IndInv, TypeOK, WhoIsWhere, RestartRead
<1>3. WaitsKnown'
  BY LiveAssumption DEF IndInv, TypeOK, WhoIsWhere, WaitsKnown, RestartRead
<1>4. PendingCovers'
  BY LiveAssumption DEF IndInv, TypeOK, WhoIsWhere, WaitsKnown, PendingCovers, RestartRead
<1>5. SingleIsOne'
  BY LiveAssumption DEF IndInv, TypeOK, WhoIsWhere, WaitsKnown, SingleIsOne, RestartRead
<1>6. DepthKept'
  BY LiveAssumption DEF IndInv, TypeOK, WhoIsWhere, WaitsKnown, DepthKept, Depth, RestartRead
<1> QED BY <1>1, <1>2, <1>3, <1>4, <1>5, <1>6 DEF IndInv

(* The restart. *)
LEMMA RestartStep ==
  ASSUME IndInv, NEW a \in Actors, Restart(a)
  PROVE  IndInv'
<1>1. TypeOK'
  BY LiveAssumption DEF IndInv, TypeOK, Restart
<1>2. WhoIsWhere'
  BY LiveAssumption DEF IndInv, TypeOK, WhoIsWhere, Restart
<1>3. WaitsKnown'
  BY LiveAssumption DEF IndInv, TypeOK, WhoIsWhere, WaitsKnown, Restart
<1>4. PendingCovers'
  BY LiveAssumption DEF IndInv, TypeOK, WhoIsWhere, WaitsKnown, PendingCovers, Restart
<1>5. SingleIsOne'
  BY LiveAssumption DEF IndInv, TypeOK, WhoIsWhere, WaitsKnown, SingleIsOne, Restart
<1>6. DepthKept'
  BY LiveAssumption DEF IndInv, TypeOK, WhoIsWhere, WaitsKnown, DepthKept, Depth, Restart
<1> QED BY <1>1, <1>2, <1>3, <1>4, <1>5, <1>6 DEF IndInv

(* How many images to start. *)
LEMMA StartReadStep ==
  ASSUME IndInv, NEW a \in Actors, StartRead(a)
  PROVE  IndInv'
<1>1. TypeOK'
  BY LiveAssumption DEF IndInv, TypeOK, StartRead, AtLeast
<1>2. WhoIsWhere'
  BY LiveAssumption DEF IndInv, TypeOK, WhoIsWhere, StartRead, AtLeast
<1>3. WaitsKnown'
  BY LiveAssumption DEF IndInv, TypeOK, WhoIsWhere, WaitsKnown, StartRead, AtLeast
<1>4. PendingCovers'
  BY LiveAssumption DEF IndInv, TypeOK, WhoIsWhere, WaitsKnown, PendingCovers, StartRead, AtLeast
<1>5. SingleIsOne'
  BY LiveAssumption DEF IndInv, TypeOK, WhoIsWhere, WaitsKnown, SingleIsOne, StartRead, AtLeast
<1>6. DepthKept'
  BY LiveAssumption DEF IndInv, TypeOK, WhoIsWhere, WaitsKnown, DepthKept, Depth, StartRead, AtLeast
<1> QED BY <1>1, <1>2, <1>3, <1>4, <1>5, <1>6 DEF IndInv

(* Images are started. *)
LEMMA StartStep ==
  ASSUME IndInv, NEW a \in Actors, Start(a)
  PROVE  IndInv'
<1>1. TypeOK'
  BY LiveAssumption DEF IndInv, TypeOK, Start, Capped, AtLeast, AtMost
<1>2. WhoIsWhere'
  BY LiveAssumption DEF IndInv, TypeOK, WhoIsWhere, Start, Capped, AtLeast, AtMost
<1>3. WaitsKnown'
  BY LiveAssumption DEF IndInv, TypeOK, WhoIsWhere, WaitsKnown, Start, Capped, AtLeast, AtMost
<1>4. PendingCovers'
  BY LiveAssumption DEF IndInv, TypeOK, WhoIsWhere, WaitsKnown, PendingCovers, Start, Capped, AtLeast, AtMost
<1>5. SingleIsOne'
  BY LiveAssumption DEF IndInv, TypeOK, WhoIsWhere, WaitsKnown, SingleIsOne, Start, Capped, AtLeast, AtMost
<1>6. DepthKept'
  BY LiveAssumption DEF IndInv, TypeOK, WhoIsWhere, WaitsKnown, DepthKept, Depth, Start, Capped, AtLeast,
       AtMost
<1> QED BY <1>1, <1>2, <1>3, <1>4, <1>5, <1>6 DEF IndInv

(* The images to wait for before the end. *)
LEMMA DrainReadStep ==
  ASSUME IndInv, NEW a \in Actors, DrainRead(a)
  PROVE  IndInv'
<1>1. TypeOK'
  BY LiveAssumption DEF IndInv, TypeOK, DrainRead
<1>2. WhoIsWhere'
  BY LiveAssumption DEF IndInv, TypeOK, WhoIsWhere, DrainRead
<1>3. WaitsKnown'
  BY LiveAssumption DEF IndInv, TypeOK, WhoIsWhere, WaitsKnown, DrainRead
<1>4. PendingCovers'
  BY LiveAssumption DEF IndInv, TypeOK, WhoIsWhere, WaitsKnown, PendingCovers, DrainRead
<1>5. SingleIsOne'
  BY LiveAssumption DEF IndInv, TypeOK, WhoIsWhere, WaitsKnown, SingleIsOne, DrainRead
<1>6. DepthKept'
  BY LiveAssumption DEF IndInv, TypeOK, WhoIsWhere, WaitsKnown, DepthKept, Depth, DrainRead
<1> QED BY <1>1, <1>2, <1>3, <1>4, <1>5, <1>6 DEF IndInv

(* The last wait finds its images. *)
LEMMA DrainWaitedStep ==
  ASSUME IndInv, NEW a \in Actors, Waited(a, "drain", "drained")
  PROVE  IndInv'
<1>1. TypeOK'
  BY LiveAssumption DEF IndInv, TypeOK, Waited
<1>2. WhoIsWhere'
  BY LiveAssumption DEF IndInv, TypeOK, WhoIsWhere, Waited
<1>3. WaitsKnown'
  BY LiveAssumption DEF IndInv, TypeOK, WhoIsWhere, WaitsKnown, Waited
<1>4. PendingCovers'
  BY LiveAssumption DEF IndInv, TypeOK, WhoIsWhere, WaitsKnown, PendingCovers, Waited
<1>5. SingleIsOne'
  BY LiveAssumption DEF IndInv, TypeOK, WhoIsWhere, WaitsKnown, SingleIsOne, Waited
<1>6. DepthKept'
  BY LiveAssumption DEF IndInv, TypeOK, WhoIsWhere, WaitsKnown, DepthKept, Depth, Waited
<1> QED BY <1>1, <1>2, <1>3, <1>4, <1>5, <1>6 DEF IndInv

(* The last wait expires. *)
LEMMA DrainExpiresStep ==
  ASSUME IndInv, NEW a \in Actors, Expires(a, "drain", "drainExpired")
  PROVE  IndInv'
<1>1. TypeOK'
  BY LiveAssumption DEF IndInv, TypeOK, Expires
<1>2. WhoIsWhere'
  BY LiveAssumption DEF IndInv, TypeOK, WhoIsWhere, Expires
<1>3. WaitsKnown'
  BY LiveAssumption DEF IndInv, TypeOK, WhoIsWhere, WaitsKnown, Expires
<1>4. PendingCovers'
  BY LiveAssumption DEF IndInv, TypeOK, WhoIsWhere, WaitsKnown, PendingCovers, Expires
<1>5. SingleIsOne'
  BY LiveAssumption DEF IndInv, TypeOK, WhoIsWhere, WaitsKnown, SingleIsOne, Expires
<1>6. DepthKept'
  BY LiveAssumption DEF IndInv, TypeOK, WhoIsWhere, WaitsKnown, DepthKept, Depth, Expires
<1> QED BY <1>1, <1>2, <1>3, <1>4, <1>5, <1>6 DEF IndInv

(* The last wait's timeout. *)
LEMMA DrainTimeoutStep ==
  ASSUME IndInv, NEW a \in Actors, DoTimeout(a, "drainExpired", "drained")
  PROVE  IndInv'
<1>1. TypeOK'
  BY LiveAssumption DEF IndInv, TypeOK, DoTimeout
<1>2. WhoIsWhere'
  BY LiveAssumption DEF IndInv, TypeOK, WhoIsWhere, DoTimeout
<1>3. WaitsKnown'
  BY LiveAssumption DEF IndInv, TypeOK, WhoIsWhere, WaitsKnown, DoTimeout
<1>4. PendingCovers'
  BY LiveAssumption DEF IndInv, TypeOK, WhoIsWhere, WaitsKnown, PendingCovers, DoTimeout
<1>5. SingleIsOne'
  BY LiveAssumption DEF IndInv, TypeOK, WhoIsWhere, WaitsKnown, SingleIsOne, DoTimeout
<1>6. DepthKept'
  BY LiveAssumption DEF IndInv, TypeOK, WhoIsWhere, WaitsKnown, DepthKept, Depth, DoTimeout
<1> QED BY <1>1, <1>2, <1>3, <1>4, <1>5, <1>6 DEF IndInv

(* The counts after the last wait. *)
LEMMA DrainedStep ==
  ASSUME IndInv, NEW a \in Actors, Drained(a)
  PROVE  IndInv'
<1>1. TypeOK'
  BY LiveAssumption DEF IndInv, TypeOK, Drained
<1>2. WhoIsWhere'
  BY LiveAssumption DEF IndInv, TypeOK, WhoIsWhere, Drained
<1>3. WaitsKnown'
  BY LiveAssumption DEF IndInv, TypeOK, WhoIsWhere, WaitsKnown, Drained
<1>4. PendingCovers'
  BY LiveAssumption DEF IndInv, TypeOK, WhoIsWhere, WaitsKnown, PendingCovers, Drained
<1>5. SingleIsOne'
  BY LiveAssumption DEF IndInv, TypeOK, WhoIsWhere, WaitsKnown, SingleIsOne, Drained
<1>6. DepthKept'
  BY LiveAssumption DEF IndInv, TypeOK, WhoIsWhere, WaitsKnown, DepthKept, Depth, Drained
<1> QED BY <1>1, <1>2, <1>3, <1>4, <1>5, <1>6 DEF IndInv

(* The end of an acquisition. *)
LEMMA StopAcquiringStep ==
  ASSUME IndInv, NEW a \in Actors, StopAcquiring(a)
  PROVE  IndInv'
<1>1. TypeOK'
  BY LiveAssumption DEF IndInv, TypeOK, StopAcquiring
<1>2. WhoIsWhere'
  BY LiveAssumption DEF IndInv, TypeOK, WhoIsWhere, StopAcquiring
<1>3. WaitsKnown'
  BY LiveAssumption DEF IndInv, TypeOK, WhoIsWhere, WaitsKnown, StopAcquiring
<1>4. PendingCovers'
  BY LiveAssumption DEF IndInv, TypeOK, WhoIsWhere, WaitsKnown, PendingCovers, StopAcquiring
<1>5. SingleIsOne'
  BY LiveAssumption DEF IndInv, TypeOK, WhoIsWhere, WaitsKnown, SingleIsOne, StopAcquiring
<1>6. DepthKept'
  BY LiveAssumption DEF IndInv, TypeOK, WhoIsWhere, WaitsKnown, DepthKept, Depth, StopAcquiring
<1> QED BY <1>1, <1>2, <1>3, <1>4, <1>5, <1>6 DEF IndInv

(* The live thread looks at its flag. *)
LEMMA TopStep ==
  ASSUME IndInv, Top
  PROVE  IndInv'
<1>1. TypeOK'
  BY LiveAssumption DEF IndInv, TypeOK, Top, Unlocked
<1>2. WhoIsWhere'
  BY LiveAssumption DEF IndInv, TypeOK, WhoIsWhere, Top, Unlocked
<1>3. WaitsKnown'
  BY LiveAssumption DEF IndInv, TypeOK, WhoIsWhere, WaitsKnown, Top, Unlocked
<1>4. PendingCovers'
  BY LiveAssumption DEF IndInv, TypeOK, WhoIsWhere, WaitsKnown, PendingCovers, Top, Unlocked
<1>5. SingleIsOne'
  BY LiveAssumption DEF IndInv, TypeOK, WhoIsWhere, WaitsKnown, SingleIsOne, Top, Unlocked
<1>6. DepthKept'
  BY LiveAssumption DEF IndInv, TypeOK, WhoIsWhere, WaitsKnown, DepthKept, Depth, Top, Unlocked
<1> QED BY <1>1, <1>2, <1>3, <1>4, <1>5, <1>6 DEF IndInv

(* It shows an image. *)
LEMMA ShowStep ==
  ASSUME IndInv, Show
  PROVE  IndInv'
<1>1. TypeOK'
  BY LiveAssumption DEF IndInv, TypeOK, Show
<1>2. WhoIsWhere'
  BY LiveAssumption DEF IndInv, TypeOK, WhoIsWhere, Show
<1>3. WaitsKnown'
  BY LiveAssumption DEF IndInv, TypeOK, WhoIsWhere, WaitsKnown, Show
<1>4. PendingCovers'
  BY LiveAssumption DEF IndInv, TypeOK, WhoIsWhere, WaitsKnown, PendingCovers, Show
<1>5. SingleIsOne'
  BY LiveAssumption DEF IndInv, TypeOK, WhoIsWhere, WaitsKnown, SingleIsOne, Show
<1>6. DepthKept'
  BY LiveAssumption DEF IndInv, TypeOK, WhoIsWhere, WaitsKnown, DepthKept, Depth, Show
<1> QED BY <1>1, <1>2, <1>3, <1>4, <1>5, <1>6 DEF IndInv

(* It looks whether all images are in. *)
LEMMA FinishStep ==
  ASSUME IndInv, Finish
  PROVE  IndInv'
<1>1. TypeOK'
  BY LiveAssumption DEF IndInv, TypeOK, Finish, Unlocked
<1>2. WhoIsWhere'
  BY LiveAssumption DEF IndInv, TypeOK, WhoIsWhere, Finish, Unlocked
<1>3. WaitsKnown'
  BY LiveAssumption DEF IndInv, TypeOK, WhoIsWhere, WaitsKnown, Finish, Unlocked
<1>4. PendingCovers'
  <2>1. /\ at["live"] = "finish" /\ at'["live"] = "top" /\ at'["single"] = at["single"]
        /\ UNCHANGED <<queued, unseen, pending, skipped, curtodo, ui>>
    BY DEF IndInv, TypeOK, Finish
  <2>2. pending \in Nat /\ queued \in Nat /\ unseen \in Int
    BY DEF IndInv, TypeOK
  <2>3. liveFlag' => pending > 0
    BY DEF Finish
  <2>4. ~Closed => pending >= queued + unseen /\ unseen >= 0
    BY <2>1 DEF IndInv, PendingCovers
  <2>5. ~Closed /\ ~liveFlag' => pending = 0
    <3>1. ~Closed => liveFlag
      BY <2>1 DEF IndInv, WhoIsWhere
    <3>2. liveFlag' = (liveFlag /\ pending > 0)
      BY DEF Finish
    <3>3. ~Closed /\ ~liveFlag' => ~(pending > 0)
      BY <3>1, <3>2, Zenon
    <3> QED BY <3>3, <2>2
  <2> QED BY <2>1, <2>3, <2>4, <2>5, <2>2 DEF IndInv, PendingCovers
<1>5. SingleIsOne'
  BY LiveAssumption DEF IndInv, TypeOK, WhoIsWhere, WaitsKnown, SingleIsOne, Finish, Unlocked
<1>6. DepthKept'
  BY LiveAssumption DEF IndInv, TypeOK, WhoIsWhere, WaitsKnown, DepthKept, Depth, Finish, Unlocked
<1> QED BY <1>1, <1>2, <1>3, <1>4, <1>5, <1>6 DEF IndInv

(* It ends. *)
LEMMA ClearStep ==
  ASSUME IndInv, Clear
  PROVE  IndInv'
<1>1. TypeOK'
  BY LiveAssumption DEF IndInv, TypeOK, Clear
<1>2. WhoIsWhere'
  BY LiveAssumption DEF IndInv, TypeOK, WhoIsWhere, Clear
<1>3. WaitsKnown'
  BY LiveAssumption DEF IndInv, TypeOK, WhoIsWhere, WaitsKnown, Clear
<1>4. PendingCovers'
  BY LiveAssumption DEF IndInv, TypeOK, WhoIsWhere, WaitsKnown, PendingCovers, Clear
<1>5. SingleIsOne'
  BY LiveAssumption DEF IndInv, TypeOK, WhoIsWhere, WaitsKnown, SingleIsOne, Clear
<1>6. DepthKept'
  BY LiveAssumption DEF IndInv, TypeOK, WhoIsWhere, WaitsKnown, DepthKept, Depth, Clear
<1> QED BY <1>1, <1>2, <1>3, <1>4, <1>5, <1>6 DEF IndInv

(* The display goes live. *)
LEMMA GoLiveStep ==
  ASSUME IndInv, GoLive
  PROVE  IndInv'
<1>1. TypeOK'
  BY LiveAssumption DEF IndInv, TypeOK, GoLive, StartAcquire, AtMost
<1>2. WhoIsWhere'
  BY LiveAssumption DEF IndInv, TypeOK, WhoIsWhere, GoLive, StartAcquire, AtMost
<1>3. WaitsKnown'
  BY LiveAssumption DEF IndInv, TypeOK, WhoIsWhere, WaitsKnown, GoLive, StartAcquire, AtMost
<1>4. PendingCovers'
  BY LiveAssumption DEF IndInv, TypeOK, WhoIsWhere, WaitsKnown, PendingCovers, GoLive, StartAcquire, AtMost
<1>5. SingleIsOne'
  BY LiveAssumption DEF IndInv, TypeOK, WhoIsWhere, WaitsKnown, SingleIsOne, GoLive, StartAcquire, AtMost
<1>6. DepthKept'
  BY LiveAssumption DEF IndInv, TypeOK, WhoIsWhere, WaitsKnown, DepthKept, Depth, GoLive, StartAcquire,
       AtMost
<1> QED BY <1>1, <1>2, <1>3, <1>4, <1>5, <1>6 DEF IndInv

(* The user asks for a stop. *)
LEMMA StopStep ==
  ASSUME IndInv, Stop
  PROVE  IndInv'
<1>1. TypeOK'
  BY LiveAssumption DEF IndInv, TypeOK, Stop, IsCapturingImages
<1>2. WhoIsWhere'
  BY LiveAssumption DEF IndInv, TypeOK, WhoIsWhere, WaitsKnown, PendingCovers, SingleIsOne, Stop,
       IsCapturingImages
<1>3. WaitsKnown'
  BY LiveAssumption DEF IndInv, TypeOK, WhoIsWhere, WaitsKnown, Stop, IsCapturingImages
<1>4. PendingCovers'
  BY LiveAssumption DEF IndInv, TypeOK, WhoIsWhere, WaitsKnown, PendingCovers, Stop, IsCapturingImages
<1>5. SingleIsOne'
  BY LiveAssumption DEF IndInv, TypeOK, WhoIsWhere, WaitsKnown, SingleIsOne, Stop, IsCapturingImages
<1>6. DepthKept'
  BY LiveAssumption DEF IndInv, TypeOK, WhoIsWhere, WaitsKnown, DepthKept, Depth, Stop, IsCapturingImages
<1> QED BY <1>1, <1>2, <1>3, <1>4, <1>5, <1>6 DEF IndInv

(* The stop reaches the camera. *)
LEMMA InitiateStopStep ==
  ASSUME IndInv, InitiateStop
  PROVE  IndInv'
<1>1. TypeOK'
  BY LiveAssumption DEF IndInv, TypeOK, InitiateStop
<1>2. WhoIsWhere'
  BY LiveAssumption DEF IndInv, TypeOK, WhoIsWhere, InitiateStop
<1>3. WaitsKnown'
  BY LiveAssumption DEF IndInv, TypeOK, WhoIsWhere, WaitsKnown, InitiateStop
<1>4. PendingCovers'
  BY LiveAssumption DEF IndInv, TypeOK, WhoIsWhere, WaitsKnown, PendingCovers, InitiateStop
<1>5. SingleIsOne'
  BY LiveAssumption DEF IndInv, TypeOK, WhoIsWhere, WaitsKnown, SingleIsOne, InitiateStop
<1>6. DepthKept'
  BY LiveAssumption DEF IndInv, TypeOK, WhoIsWhere, WaitsKnown, DepthKept, Depth, InitiateStop
<1> QED BY <1>1, <1>2, <1>3, <1>4, <1>5, <1>6 DEF IndInv

(* The timer finds the thread gone. *)
LEMMA TimerStep ==
  ASSUME IndInv, Timer
  PROVE  IndInv'
<1>1. TypeOK'
  BY LiveAssumption DEF IndInv, TypeOK, Timer
<1>2. WhoIsWhere'
  BY LiveAssumption DEF IndInv, TypeOK, WhoIsWhere, Timer
<1>3. WaitsKnown'
  BY LiveAssumption DEF IndInv, TypeOK, WhoIsWhere, WaitsKnown, Timer
<1>4. PendingCovers'
  BY LiveAssumption DEF IndInv, TypeOK, WhoIsWhere, WaitsKnown, PendingCovers, Timer
<1>5. SingleIsOne'
  BY LiveAssumption DEF IndInv, TypeOK, WhoIsWhere, WaitsKnown, SingleIsOne, Timer
<1>6. DepthKept'
  BY LiveAssumption DEF IndInv, TypeOK, WhoIsWhere, WaitsKnown, DepthKept, Depth, Timer
<1> QED BY <1>1, <1>2, <1>3, <1>4, <1>5, <1>6 DEF IndInv

(* A single image is asked for. *)
LEMMA CaptureImageStep ==
  ASSUME IndInv, CaptureImage
  PROVE  IndInv'
<1>1. TypeOK'
  BY LiveAssumption DEF IndInv, TypeOK, CaptureImage, StartAcquire, AtMost
<1>2. WhoIsWhere'
  BY LiveAssumption DEF IndInv, TypeOK, WhoIsWhere, CaptureImage, StartAcquire, AtMost
<1>3. WaitsKnown'
  BY LiveAssumption DEF IndInv, TypeOK, WhoIsWhere, WaitsKnown, CaptureImage, StartAcquire, AtMost
<1>4. PendingCovers'
  BY LiveAssumption DEF IndInv, TypeOK, WhoIsWhere, WaitsKnown, PendingCovers, CaptureImage, StartAcquire,
       AtMost
<1>5. SingleIsOne'
  BY LiveAssumption DEF IndInv, TypeOK, WhoIsWhere, WaitsKnown, SingleIsOne, CaptureImage, StartAcquire,
       AtMost
<1>6. DepthKept'
  BY LiveAssumption DEF IndInv, TypeOK, WhoIsWhere, WaitsKnown, DepthKept, Depth, CaptureImage, StartAcquire,
       AtMost
<1> QED BY <1>1, <1>2, <1>3, <1>4, <1>5, <1>6 DEF IndInv

(* It is there. *)
LEMMA CapturedStep ==
  ASSUME IndInv, Captured
  PROVE  IndInv'
<1>1. TypeOK'
  BY LiveAssumption DEF IndInv, TypeOK, Captured
<1>2. WhoIsWhere'
  BY LiveAssumption DEF IndInv, TypeOK, WhoIsWhere, Captured
<1>3. WaitsKnown'
  BY LiveAssumption DEF IndInv, TypeOK, WhoIsWhere, WaitsKnown, Captured
<1>4. PendingCovers'
  BY LiveAssumption DEF IndInv, TypeOK, WhoIsWhere, WaitsKnown, PendingCovers, SingleIsOne, Captured
<1>5. SingleIsOne'
  BY LiveAssumption DEF IndInv, TypeOK, WhoIsWhere, WaitsKnown, SingleIsOne, Captured
<1>6. DepthKept'
  BY LiveAssumption DEF IndInv, TypeOK, WhoIsWhere, WaitsKnown, DepthKept, Depth, Captured
<1> QED BY <1>1, <1>2, <1>3, <1>4, <1>5, <1>6 DEF IndInv

(* The user changes the way images are waited for. *)
LEMMA KeepUpStep ==
  ASSUME IndInv, KeepUp
  PROVE  IndInv'
<1>1. TypeOK'
  BY LiveAssumption DEF IndInv, TypeOK, KeepUp
<1>2. WhoIsWhere'
  BY LiveAssumption DEF IndInv, TypeOK, WhoIsWhere, KeepUp
<1>3. WaitsKnown'
  BY LiveAssumption DEF IndInv, TypeOK, WhoIsWhere, WaitsKnown, KeepUp
<1>4. PendingCovers'
  BY LiveAssumption DEF IndInv, TypeOK, WhoIsWhere, WaitsKnown, PendingCovers, KeepUp
<1>5. SingleIsOne'
  BY LiveAssumption DEF IndInv, TypeOK, WhoIsWhere, WaitsKnown, SingleIsOne, KeepUp
<1>6. DepthKept'
  BY LiveAssumption DEF IndInv, TypeOK, WhoIsWhere, WaitsKnown, DepthKept, Depth, KeepUp
<1> QED BY <1>1, <1>2, <1>3, <1>4, <1>5, <1>6 DEF IndInv

(* The window is closed. *)
LEMMA CloseStep ==
  ASSUME IndInv, Close
  PROVE  IndInv'
<1>1. TypeOK'
  <2>1. /\ queued' \in Nat /\ unseen' \in Int /\ pending' \in Nat
        /\ left' \in Nat \cup {Unlimited}
    BY DEF IndInv, TypeOK, Close
  <2>2. /\ thread' \in BOOLEAN /\ liveFlag' \in BOOLEAN /\ active' \in BOOLEAN
    BY DEF IndInv, TypeOK, Close
  <2>3. /\ recovering' \in BOOLEAN /\ keepUp' \in BOOLEAN /\ keptUp' \in BOOLEAN
        /\ stopPending' \in BOOLEAN /\ ui' \in {"idle", "initiate", "capture", "closed"}
    BY DEF IndInv, TypeOK, Close
  <2>4. /\ at' \in [Actors -> Places] /\ want' \in [Actors -> Nat] /\ skipped' \in [Actors -> Nat]
        /\ timedOut' \in [Actors -> BOOLEAN] /\ curtodo' \in [Actors -> Nat]
        /\ ntostart' \in [Actors -> Nat]
    BY DEF IndInv, TypeOK, Close
  <2> QED BY <2>1, <2>2, <2>3, <2>4 DEF TypeOK
<1>2. WhoIsWhere'
  BY LiveAssumption DEF IndInv, TypeOK, WhoIsWhere, Close
<1>3. WaitsKnown'
  BY LiveAssumption DEF IndInv, TypeOK, WhoIsWhere, WaitsKnown, Close
<1>4. PendingCovers'
  BY LiveAssumption DEF IndInv, TypeOK, WhoIsWhere, WaitsKnown, PendingCovers, Close
<1>5. SingleIsOne'
  BY LiveAssumption DEF IndInv, TypeOK, WhoIsWhere, WaitsKnown, SingleIsOne, Close
<1>6. DepthKept'
  BY LiveAssumption DEF IndInv, TypeOK, WhoIsWhere, WaitsKnown, DepthKept, Depth, Close
<1> QED BY <1>1, <1>2, <1>3, <1>4, <1>5, <1>6 DEF IndInv

(* The invariant holds at first. *)
LEMMA InitInv == Init => IndInv
<1> SUFFICES ASSUME Init PROVE IndInv
  OBVIOUS
<1>1. TypeOK
  <2>1. /\ active \in BOOLEAN /\ recovering \in BOOLEAN /\ thread \in BOOLEAN
        /\ liveFlag \in BOOLEAN /\ stopPending \in BOOLEAN
    BY DEF Init
  <2>2. keepUp \in BOOLEAN /\ keptUp \in BOOLEAN
    BY LiveAssumption DEF Init
  <2>3. /\ queued \in Nat /\ unseen \in Int /\ pending \in Nat /\ left \in Nat \cup {Unlimited}
        /\ want \in [Actors -> Nat] /\ skipped \in [Actors -> Nat]
        /\ curtodo \in [Actors -> Nat] /\ ntostart \in [Actors -> Nat]
    BY DEF Init
  <2>4. /\ at \in [Actors -> Places] /\ timedOut \in [Actors -> BOOLEAN]
        /\ ui \in {"idle", "initiate", "capture", "closed"}
    BY DEF Init
  <2> QED BY <2>1, <2>2, <2>3, <2>4 DEF TypeOK
<1>2. WhoIsWhere
  BY LiveAssumption DEF Init, WhoIsWhere
<1>3. WaitsKnown
  BY LiveAssumption DEF Init, WaitsKnown
<1>4. PendingCovers
  BY LiveAssumption DEF Init, PendingCovers
<1>5. SingleIsOne
  BY LiveAssumption DEF Init, SingleIsOne
<1>6. DepthKept
  BY LiveAssumption DEF Init, DepthKept, Depth
<1> QED BY <1>1, <1>2, <1>3, <1>4, <1>5, <1>6 DEF IndInv

(* Every step keeps the invariant. *)
LEMMA NextInv == IndInv /\ [Next]_vars => IndInv'
<1> SUFFICES ASSUME IndInv, [Next]_vars PROVE IndInv'
  OBVIOUS
<1>1. ASSUME NEW a \in Actors, GetNextBuffer(a) PROVE IndInv'
  <2>1. CASE Wait(a)
    BY <2>1, WaitedStep, ExpiresStep, DoTimeoutStep DEF Wait
  <2>2. CASE Drain(a)
    BY <2>2, DrainWaitedStep, DrainExpiresStep, DrainTimeoutStep DEF Drain
  <2> QED
    BY <1>1, <2>1, <2>2, TestStep, CountStep, RestartReadStep, RestartStep, StartReadStep,
       StartStep, DrainReadStep, DrainedStep
    DEF GetNextBuffer
<1>2. CASE LiveThread
  BY <1>1, <1>2, TopStep, ShowStep, FinishStep, ClearStep, StopAcquiringStep DEF LiveThread
<1>3. CASE Interface
  BY <1>1, <1>3, InitiateStopStep, TimerStep, CapturedStep,
     StopAcquiringStep
  DEF Interface
<1>4. CASE FrameDone \/ GoLive \/ Stop \/ CaptureImage \/ KeepUp \/ Close
  BY <1>4, FrameDoneStep, GoLiveStep, StopStep, CaptureImageStep, KeepUpStep, CloseStep
<1>5. CASE UNCHANGED vars
  BY <1>5 DEF IndInv, TypeOK, WhoIsWhere, WaitsKnown, PendingCovers, SingleIsOne, DepthKept, Depth, vars
<1> QED BY <1>2, <1>3, <1>4, <1>5 DEF Next

(* The inductive invariant of the live display holds in every reachable    *)
(* state: the flags say who uses the device, and the counts of PdvInput    *)
(* cover what the driver has to do.                                        *)
THEOREM Invariance == Spec => []IndInv
  BY InitInv, NextInv, PTL DEF Spec

(* A single image is never taken while the live thread uses the device.    *)
THEOREM DeviceNotShared == Spec => []CaptureAlone
<1>1. IndInv => CaptureAlone
  BY DEF IndInv, WhoIsWhere, CaptureAlone
<1> QED BY <1>1, Invariance, PTL

(* When the display has ended, the driver has nothing to do.               *)
THEOREM EndsIdle == Spec => []IdleWhenDone
<1>1. IndInv => IdleWhenDone
  BY DEF IndInv, PendingCovers, IdleWhenDone
<1> QED BY <1>1, Invariance, PTL

(* The image shown is not written into while images are waited for one by  *)
(* one, whatever times out and is restarted.                               *)
THEOREM ShownIsIntact == Spec => []ShownIntact
<1>1. IndInv => ShownIntact
  BY LiveAssumption DEF IndInv, TypeOK, WhoIsWhere, DepthKept, Depth, ShownIntact
<1> QED BY <1>1, Invariance, PTL

=============================================================================
