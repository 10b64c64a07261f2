-------------------------- MODULE TakeLoop_proofs --------------------------
(***************************************************************************)
(* Proofs about EdtRing and about TakeLoop, which is built on it, for      *)
(* every ring, every number of images, every camera, every number of       *)
(* timeouts and every choice the driver has.  First what the ring          *)
(* promises, whoever uses it; then that what the loop does is a use of the *)
(* ring that EdtRing allows, and that it hands over what FrameStream       *)
(* promises.                                                               *)
(***************************************************************************)
EXTENDS TakeLoop, TLAPS

(***************************************************************************)
(* The ring.                                                               *)
(***************************************************************************)

(* Slots: consecutive images of a ring lie in different ones.              *)

(* The remainder modulo n is one of the n slots.                           *)
LEMMA ModRange == \A a \in Int, n \in Nat \ {0} : a % n \in 0 .. n - 1
  BY SMT

(* No multiple of n lies strictly between two consecutive multiples.       *)
LEMMA NoMultipleBetween ==
  ASSUME NEW n \in Nat \ {0}, NEW p \in Int, NEW q \in Int,
         n * p < n * q, n * q < n * p + n
  PROVE  FALSE
<1>1. CASE p >= q
  <2>1. n * p >= n * q  BY <1>1, SMT
  <2>. QED  BY <2>1, SMT
<1>2. CASE q >= p + 1
  <2>1. n * q >= n * (p + 1)  BY <1>2, SMT
  <2>2. n * (p + 1) = n * p + n  BY SMT
  <2>. QED  BY <2>1, <2>2, SMT
<1>. QED  BY <1>1, <1>2, SMT

(* Numbers less than n apart have different remainders modulo n.           *)
LEMMA ModApart ==
  ASSUME NEW n \in Nat \ {0}, NEW a \in Nat, NEW b \in Nat, a < b, b < a + n
  PROVE  a % n # b % n
<1>. DEFINE p == a \div n
            q == b \div n
            c == a % n
            d == b % n
<1>1. p \in Int /\ q \in Int /\ c \in Int /\ d \in Int  BY SMT
<1>2. a = n * p + c /\ b = n * q + d  BY SMT
<1>3. ASSUME c = d PROVE FALSE
  <2>. HIDE DEF p, q, c, d
  <2>1. n * p \in Int /\ n * q \in Int  BY <1>1, SMT
  <2>2. n * p < n * q /\ n * q < n * p + n  BY <1>1, <1>2, <1>3, <2>1, SMT
  <2>. QED  BY <1>1, <2>2, NoMultipleBetween
<1>. QED  BY <1>3

(* The slot of an image is a slot of the ring.                             *)
LEMMA SlotRange ==
  ASSUME NEW n \in 1 .. MaxBufs, NEW k \in Nat
  PROVE  SlotOf(k, n) \in Slots
<1>1. MaxBufs \in Nat  BY RingAssumption
<1>2. CASE k = 0
  <2>. DEFINE m == (65536 % n) * (65536 % n) - 1
  <2>1. 65536 % n \in Int  BY ModRange
  <2>2. m \in Int  BY <2>1, SMT
  <2>3. m % n \in 0 .. n - 1  BY <2>2, ModRange
  <2>. QED  BY <1>1, <1>2, <2>3, SMT DEF SlotOf, Slots
<1>3. CASE k # 0
  <2>1. (k - 1) % n \in 0 .. n - 1  BY <1>3, SMT
  <2>. QED  BY <1>1, <1>3, <2>1, SMT DEF SlotOf, Slots
<1>. QED  BY <1>2, <1>3

(* The DMA writes image k + 1 to slot k % n, and no other image of the     *)
(* last n shares it.                                                       *)
LEMMA SlotNext ==
  ASSUME NEW n \in 1 .. MaxBufs, NEW k \in Nat
  PROVE  SlotOf(k + 1, n) = k % n
BY SMT DEF SlotOf

(* Two buffers less than the ring apart have slots of their own.           *)
LEMMA SlotApart ==
  ASSUME NEW n \in 1 .. MaxBufs, NEW j \in Nat \ {0}, NEW k \in Nat,
         j <= k, k < j - 1 + n
  PROVE  SlotOf(j, n) # k % n
<1>1. n \in Nat \ {0}  BY RingAssumption
<1>2. j - 1 \in Nat /\ j - 1 < k /\ k < (j - 1) + n  BY <1>1, SMT
<1>3. (j - 1) % n # k % n  BY <1>1, <1>2, ModApart
<1>. QED  BY <1>3, SMT DEF SlotOf

-----------------------------------------------------------------------------
(* The inductive invariant.                                                *)

ringVars == <<done, todo, filling, slot, numbufs, configured, donecount, image, base>>

(* A step that touches neither the ring nor the counters keeps them right. *)
LEMMA RingKept ==
  ASSUME CountersInOrder, RingHolds, HandedOut, UNCHANGED ringVars
  PROVE  CountersInOrder' /\ RingHolds' /\ HandedOut'
<1>1. CountersInOrder'  BY Zenon DEF CountersInOrder, ringVars
<1>2. RingHolds'        BY SMT DEF RingHolds, Intact, ringVars
<1>3. HandedOut'        BY SMT DEF HandedOut, Null, ringVars
<1>. QED  BY <1>1, <1>2, <1>3

(* Writing a slot of the ring leaves it a ring.                            *)
LEMMA SlotWritten ==
  ASSUME TypeOK, CountersInOrder, configured, NEW c \in Content
  PROVE  [slot EXCEPT ![done % numbufs] = c] \in [Slots -> Content]
BY Zenon DEF TypeOK, DriverTypeOK

(* A completed buffer joins the ring; the images that stay in it are those *)
(* of the last numbufs.                                                    *)
LEMMA BufferCounted ==
  ASSUME TypeOK, CountersInOrder, RingHolds, configured, NEW x \in Nat,
         done' = done + 1,
         slot' = [slot EXCEPT ![done % numbufs] = [num |-> done + 1, shot |-> x]],
         UNCHANGED <<numbufs, configured, base>>
  PROVE  RingHolds' /\ slot' \in [Slots -> Content]
<1>. USE RingAssumption
<1>1. numbufs \in 1 .. MaxBufs /\ done \in Nat /\ base \in Nat
  BY SMT DEF TypeOK, DriverTypeOK, LibraryTypeOK, CountersInOrder
<1>2. SlotOf(done + 1, numbufs) = done % numbufs /\ done % numbufs \in Slots
  BY <1>1, SlotNext, SlotRange, SMT
<1>3. slot \in [Slots -> Content]
  BY DEF TypeOK, DriverTypeOK
<1>4. slot' \in [Slots -> Content]
  <2>1. [num |-> done + 1, shot |-> x] \in Content  BY <1>1, SMT DEF Content
  <2>. QED  BY <2>1, SlotWritten
<1>5. ASSUME NEW k \in base + 1 .. done + 1, done + 2 < k + numbufs
      PROVE  slot'[SlotOf(k, numbufs)].num = k
  <2>1. CASE k = done + 1
    BY <1>2, <1>3, <2>1, SMT
  <2>2. CASE k # done + 1
    <3>1. k \in Nat \ {0} /\ k <= done /\ done < k - 1 + numbufs /\ k \in base + 1 .. done
      BY <1>1, <1>5, <2>2, SMT
    <3>2. SlotOf(k, numbufs) # done % numbufs
      BY <1>1, <3>1, SlotApart, Zenon
    <3>3. slot[SlotOf(k, numbufs)].num = k
      BY <1>1, <3>1, SMT DEF RingHolds, Intact
    <3>4. SlotOf(k, numbufs) \in Slots
      BY <1>1, <3>1, SlotRange, Zenon
    <3>. QED  BY <1>3, <3>2, <3>3, <3>4, Zenon
  <2>. QED  BY <2>1, <2>2
<1>6. RingHolds'
  <2>1. SUFFICES ASSUME NEW k \in (base + 1 .. done)', done' + 1 < k + numbufs'
                 PROVE  slot'[SlotOf(k, numbufs')].num = k
    BY DEF RingHolds, Intact, SlotOf
  <2>2. k \in base + 1 .. done + 1 /\ done + 2 < k + numbufs
    BY <1>1, <2>1, SMT
  <2>. QED  BY <1>5, <2>2
<1>. QED  BY <1>4, <1>6

(* A frame that begins destroys the oldest image of the ring only.         *)
LEMMA BufferTorn ==
  ASSUME TypeOK, CountersInOrder, RingHolds, configured,
         slot' = [slot EXCEPT ![done % numbufs] = Torn],
         UNCHANGED <<done, numbufs, configured, base>>
  PROVE  RingHolds' /\ slot' \in [Slots -> Content]
<1>. USE RingAssumption
<1>1. numbufs \in 1 .. MaxBufs /\ done \in Nat /\ base \in Nat
  BY SMT DEF TypeOK, DriverTypeOK, LibraryTypeOK, CountersInOrder
<1>2. slot \in [Slots -> Content]
  BY DEF TypeOK, DriverTypeOK
<1>3. slot' \in [Slots -> Content]
  <2>1. Torn \in Content  BY SMT DEF Torn, Content
  <2>. QED  BY <2>1, SlotWritten
<1>4. ASSUME NEW k \in base + 1 .. done, done + 1 < k + numbufs
      PROVE  slot'[SlotOf(k, numbufs)].num = k
  <2>1. k \in Nat \ {0} /\ k <= done /\ done < k - 1 + numbufs
    BY <1>1, <1>4, SMT
  <2>2. SlotOf(k, numbufs) # done % numbufs /\ SlotOf(k, numbufs) \in Slots
    BY <1>1, <2>1, SlotApart, SlotRange
  <2>3. slot[SlotOf(k, numbufs)].num = k
    BY <1>1, <1>4, SMT DEF RingHolds, Intact
  <2>. QED  BY <1>2, <2>2, <2>3, Zenon
<1>5. RingHolds'
  BY <1>4, SMT DEF RingHolds, Intact
<1>. QED  BY <1>3, <1>5

(* The invariant holds for a device just opened.                           *)
LEMMA InitInv == Init => IndInv
<1>. SUFFICES ASSUME Init PROVE IndInv
  OBVIOUS
<1>. USE RingAssumption
<1>1. TypeOK
  <2>1. slot \in [Slots -> Content]
    BY SMT DEF Init, Torn, Content
  <2>2. DriverTypeOK
    BY <2>1, SMT DEF Init, DriverTypeOK
  <2>3. LibraryTypeOK
    BY SMT DEF Init, LibraryTypeOK, WaitStatus
  <2>4. CallTypeOK
    BY SMT DEF Init, CallTypeOK, WaitStatus
  <2>5. FlagsTypeOK
    BY Zenon DEF Init, FlagsTypeOK
  <2>. QED  BY <2>2, <2>3, <2>4, <2>5 DEF TypeOK
<1>2. CountersInOrder /\ RingHolds /\ HandedOut
  BY SMT DEF Init, CountersInOrder, RingHolds, HandedOut
<1>3. CallInOrder /\ AheadOnlyAfterTimeout
  BY SMT DEF Init, CallInOrder, InWait, InRecover, AheadOnlyAfterTimeout
<1>. QED  BY <1>1, <1>2, <1>3 DEF IndInv

(* A wait that begins.                                                     *)
LEMMA BeginWaitInv ==
  ASSUME IndInv, NEW count \in Int, base <= donecount + count,
         BeginWait(count), nSkipped' \in Int
  PROVE  IndInv'
<1>. USE RingAssumption DEF IndInv
<1>1. TypeOK'
  <2>1. DriverTypeOK' /\ LibraryTypeOK' /\ CallTypeOK'
    BY SMT DEF BeginWait, TypeOK, DriverTypeOK, LibraryTypeOK, CallTypeOK, WaitStatus,
       driverVars
  <2>2. FlagsTypeOK'
    BY Zenon DEF BeginWait, TypeOK, FlagsTypeOK, driverVars
  <2>. QED  BY <2>1, <2>2 DEF TypeOK
<1>2. CountersInOrder' /\ RingHolds'
  <2>1. CountersInOrder'  BY Zenon DEF BeginWait, CountersInOrder, driverVars
  <2>2. RingHolds'        BY SMT DEF BeginWait, RingHolds, Intact, driverVars
  <2>. QED  BY <2>1, <2>2
<1>3. HandedOut'
  BY SMT DEF BeginWait, HandedOut, CountersInOrder, SlotOf, driverVars, LibraryTypeOK,
     TypeOK
<1>4. CallInOrder' /\ AheadOnlyAfterTimeout'
  BY SMT DEF BeginWait, CallInOrder, InWait, InRecover, AheadOnlyAfterTimeout,
     driverVars, LibraryTypeOK, DriverTypeOK, TypeOK
<1>. QED  BY <1>1, <1>2, <1>3, <1>4

(* A new ring starts with nothing in it, and so does having no ring.       *)
LEMMA NewRingInv ==
  ASSUME IndInv, NEW n \in 0 .. MaxBufs, NEW allocated \in BOOLEAN,
         NewRing(n, allocated), allocated => n > 0, donecount' \in Nat,
         n > 0 => donecount' = 0,
         todo' \in Nat, running' \in BOOLEAN, pc = "idle",
         UNCHANGED <<timeouts, timeout_ok, event, shot, last_wait_ret, callVars, wpc>>
  PROVE  IndInv'
<1>. USE RingAssumption DEF IndInv
<1>1. TypeOK'
  <2>1. slot' \in [Slots -> Content]
    BY SMT DEF NewRing, Torn, Content
  <2>2. DriverTypeOK'
    BY <2>1, SMT DEF NewRing, DriverTypeOK, TypeOK
  <2>3. LibraryTypeOK' /\ CallTypeOK'
    BY SMT DEF NewRing, LibraryTypeOK, CallTypeOK, TypeOK, callVars
  <2>4. FlagsTypeOK'
    BY Zenon DEF NewRing, TypeOK, FlagsTypeOK
  <2>. QED  BY <2>2, <2>3, <2>4 DEF TypeOK
<1>2. CountersInOrder' /\ RingHolds' /\ HandedOut'
  BY SMT DEF NewRing, CountersInOrder, RingHolds, HandedOut
<1>3. CallInOrder' /\ AheadOnlyAfterTimeout'
  BY SMT DEF NewRing, CallInOrder, InWait, InRecover, AheadOnlyAfterTimeout, callVars
<1>. QED  BY <1>1, <1>2, <1>3

(* A recovery restarts both counters at the same number.                   *)
LEMMA SetBufferInv ==
  ASSUME IndInv, NEW b \in Nat, NEW begun \in Nat, SetBuffer(b, begun),
         running' \in BOOLEAN, filling' = FALSE,
         pc' = "idle", curdone' = 0, curtodo' = 0,
         UNCHANGED <<timeouts, timeout_ok, event, slot, shot, numbufs, configured>>,
         UNCHANGED <<last_wait_ret, tmpcnt, ret, nSkipped, image, wpc>>
  PROVE  IndInv'
<1>. USE DEF IndInv
<1>1. TypeOK'
  <2>1. DriverTypeOK' /\ LibraryTypeOK' /\ CallTypeOK'
    BY SMT DEF SetBuffer, TypeOK, DriverTypeOK, LibraryTypeOK, CallTypeOK
  <2>2. FlagsTypeOK'
    BY Zenon DEF SetBuffer, TypeOK, FlagsTypeOK
  <2>. QED  BY <2>1, <2>2 DEF TypeOK
<1>2. CountersInOrder' /\ RingHolds' /\ HandedOut'
  BY SMT DEF SetBuffer, CountersInOrder, RingHolds, HandedOut
<1>3. CallInOrder' /\ AheadOnlyAfterTimeout'
  BY SMT DEF SetBuffer, CallInOrder, InWait, InRecover, AheadOnlyAfterTimeout
<1>. QED  BY <1>1, <1>2, <1>3

(* Every step of the system keeps the invariant.                           *)
LEMMA StepInv == IndInv /\ [Next]_vars => IndInv'
<1>. SUFFICES ASSUME IndInv, [Next]_vars PROVE IndInv'
  OBVIOUS
<1>. USE RingAssumption DEF IndInv
<1>1. ASSUME WaitCheck PROVE IndInv'
  <2>1. TypeOK'
    <3>1. DriverTypeOK' /\ LibraryTypeOK' /\ CallTypeOK'
      BY <1>1, SMT DEF WaitCheck, TypeOK, DriverTypeOK, LibraryTypeOK, CallTypeOK,
         WaitStatus, driverVars, libraryVars, callVars
    <3>2. FlagsTypeOK'
      BY <1>1, Zenon DEF WaitCheck, TypeOK, FlagsTypeOK, driverVars, libraryVars
    <3>. QED  BY <3>1, <3>2 DEF TypeOK
  <2>2. UNCHANGED ringVars
    BY <1>1, Zenon DEF WaitCheck, ringVars, driverVars, libraryVars, callVars
  <2>3. CallInOrder' /\ AheadOnlyAfterTimeout'
    BY <1>1, SMT DEF WaitCheck, CallInOrder, InWait, InRecover, CountersInOrder,
       AheadOnlyAfterTimeout, TypeOK, DriverTypeOK, LibraryTypeOK, CallTypeOK,
          driverVars, libraryVars, callVars
  <2>. QED  BY <2>1, <2>2, <2>3, RingKept
<1>2. ASSUME WaitEnter PROVE IndInv'
  <2>1. TypeOK'
    <3>1. DriverTypeOK' /\ LibraryTypeOK' /\ CallTypeOK'
      BY <1>2, SMT DEF WaitEnter, TypeOK, DriverTypeOK, LibraryTypeOK, CallTypeOK,
         WaitStatus, driverVars, libraryVars, callVars
    <3>2. FlagsTypeOK'
      BY <1>2, Zenon DEF WaitEnter, TypeOK, FlagsTypeOK, driverVars, libraryVars
    <3>. QED  BY <3>1, <3>2 DEF TypeOK
  <2>2. UNCHANGED ringVars
    BY <1>2, Zenon DEF WaitEnter, ringVars, driverVars, libraryVars, callVars
  <2>3. CallInOrder' /\ AheadOnlyAfterTimeout'
    BY <1>2, SMT DEF WaitEnter, CallInOrder, InWait, InRecover, CountersInOrder,
       AheadOnlyAfterTimeout, TypeOK, DriverTypeOK, LibraryTypeOK, CallTypeOK,
          driverVars, libraryVars, callVars
  <2>. QED  BY <2>1, <2>2, <2>3, RingKept
<1>3. ASSUME WaitWoken PROVE IndInv'
  <2>1. TypeOK'
    <3>1. DriverTypeOK' /\ LibraryTypeOK' /\ CallTypeOK'
      BY <1>3, SMT DEF WaitWoken, TypeOK, DriverTypeOK, LibraryTypeOK, CallTypeOK,
         WaitStatus, driverVars, libraryVars, callVars
    <3>2. FlagsTypeOK'
      BY <1>3, Zenon DEF WaitWoken, TypeOK, FlagsTypeOK, driverVars, libraryVars
    <3>. QED  BY <3>1, <3>2 DEF TypeOK
  <2>2. UNCHANGED ringVars
    BY <1>3, Zenon DEF WaitWoken, ringVars, driverVars, libraryVars, callVars
  <2>3. CallInOrder' /\ AheadOnlyAfterTimeout'
    BY <1>3, SMT DEF WaitWoken, CallInOrder, InWait, InRecover, CountersInOrder,
       AheadOnlyAfterTimeout, TypeOK, DriverTypeOK, LibraryTypeOK, CallTypeOK,
          driverVars, libraryVars, callVars
  <2>. QED  BY <2>1, <2>2, <2>3, RingKept
<1>4. ASSUME WaitExpires PROVE IndInv'
  <2>1. TypeOK'
    <3>1. DriverTypeOK' /\ LibraryTypeOK' /\ CallTypeOK'
      BY <1>4, SMT DEF WaitExpires, TypeOK, DriverTypeOK, LibraryTypeOK,
         CallTypeOK, WaitStatus, driverVars, libraryVars, callVars
    <3>2. FlagsTypeOK'
      BY <1>4, Zenon DEF WaitExpires, TypeOK, FlagsTypeOK, driverVars, libraryVars
    <3>. QED  BY <3>1, <3>2 DEF TypeOK
  <2>2. UNCHANGED ringVars
    BY <1>4, Zenon DEF WaitExpires, ringVars, driverVars, libraryVars, callVars
  <2>3. CallInOrder' /\ AheadOnlyAfterTimeout'
    BY <1>4, SMT DEF WaitExpires, CallInOrder, InWait, InRecover, CountersInOrder,
       AheadOnlyAfterTimeout, TypeOK, DriverTypeOK, LibraryTypeOK, CallTypeOK,
          driverVars, libraryVars, callVars
  <2>. QED  BY <2>1, <2>2, <2>3, RingKept
<1>5. ASSUME WakeSet PROVE IndInv'
  <2>1. TypeOK'
    <3>1. DriverTypeOK' /\ LibraryTypeOK' /\ CallTypeOK'
      BY <1>5, SMT DEF WakeSet, SetEvent, TypeOK, DriverTypeOK, LibraryTypeOK,
         CallTypeOK, WaitStatus, driverVars, libraryVars, callVars
    <3>2. FlagsTypeOK'
      BY <1>5, Zenon DEF WakeSet, SetEvent, TypeOK, FlagsTypeOK, driverVars, libraryVars
    <3>. QED  BY <3>1, <3>2 DEF TypeOK
  <2>2. UNCHANGED ringVars
    BY <1>5, Zenon DEF WakeSet, SetEvent, ringVars, driverVars, libraryVars, callVars
  <2>3. CallInOrder' /\ AheadOnlyAfterTimeout'
    BY <1>5, SMT DEF WakeSet, SetEvent, CallInOrder, InWait, InRecover, CountersInOrder,
       AheadOnlyAfterTimeout, TypeOK, DriverTypeOK, LibraryTypeOK, CallTypeOK,
          driverVars, libraryVars, callVars
  <2>. QED  BY <2>1, <2>2, <2>3, RingKept
<1>6. ASSUME WakeReset PROVE IndInv'
  <2>1. TypeOK'
    <3>1. DriverTypeOK' /\ LibraryTypeOK' /\ CallTypeOK'
      BY <1>6, SMT DEF WakeReset, TypeOK, DriverTypeOK, LibraryTypeOK, CallTypeOK,
         WaitStatus, driverVars, libraryVars, callVars
    <3>2. FlagsTypeOK'
      BY <1>6, Zenon DEF WakeReset, TypeOK, FlagsTypeOK, driverVars, libraryVars
    <3>. QED  BY <3>1, <3>2 DEF TypeOK
  <2>2. UNCHANGED ringVars
    BY <1>6, Zenon DEF WakeReset, ringVars, driverVars, libraryVars, callVars
  <2>3. CallInOrder' /\ AheadOnlyAfterTimeout'
    BY <1>6, SMT DEF WakeReset, CallInOrder, InWait, InRecover, CountersInOrder,
       AheadOnlyAfterTimeout, TypeOK, DriverTypeOK, LibraryTypeOK, CallTypeOK,
          driverVars, libraryVars, callVars
  <2>. QED  BY <2>1, <2>2, <2>3, RingKept
<1>7. ASSUME WakeMark PROVE IndInv'
  <2>1. TypeOK'
    <3>1. DriverTypeOK' /\ LibraryTypeOK' /\ CallTypeOK'
      BY <1>7, SMT DEF WakeMark, TypeOK, DriverTypeOK, LibraryTypeOK, CallTypeOK,
         WaitStatus, driverVars, libraryVars, callVars
    <3>2. FlagsTypeOK'
      BY <1>7, Zenon DEF WakeMark, TypeOK, FlagsTypeOK, driverVars, libraryVars
    <3>. QED  BY <3>1, <3>2 DEF TypeOK
  <2>2. UNCHANGED ringVars
    BY <1>7, Zenon DEF WakeMark, ringVars, driverVars, libraryVars, callVars
  <2>3. CallInOrder' /\ AheadOnlyAfterTimeout'
    BY <1>7, SMT DEF WakeMark, CallInOrder, InWait, InRecover, CountersInOrder,
       AheadOnlyAfterTimeout, TypeOK, DriverTypeOK, LibraryTypeOK, CallTypeOK,
          driverVars, libraryVars, callVars
  <2>. QED  BY <2>1, <2>2, <2>3, RingKept
<1>8. ASSUME RestartRead PROVE IndInv'
  <2>1. TypeOK'
    <3>1. DriverTypeOK' /\ LibraryTypeOK' /\ CallTypeOK'
      BY <1>8, SMT DEF RestartRead, ReadCounts, TypeOK, DriverTypeOK,
         LibraryTypeOK, CallTypeOK, WaitStatus, driverVars, libraryVars, callVars
    <3>2. FlagsTypeOK'
      BY <1>8, Zenon DEF RestartRead, ReadCounts, TypeOK, FlagsTypeOK, driverVars,
         libraryVars
    <3>. QED  BY <3>1, <3>2 DEF TypeOK
  <2>2. UNCHANGED ringVars
    BY <1>8, Zenon DEF RestartRead, ReadCounts, ringVars, driverVars, libraryVars, callVars
  <2>3. CallInOrder' /\ AheadOnlyAfterTimeout'
    BY <1>8, SMT DEF RestartRead, ReadCounts, CallInOrder, InWait, InRecover,
       CountersInOrder,
       AheadOnlyAfterTimeout, TypeOK, DriverTypeOK, LibraryTypeOK, CallTypeOK,
          driverVars, libraryVars, callVars
  <2>. QED  BY <2>1, <2>2, <2>3, RingKept
<1>9. ASSUME CleanupRead PROVE IndInv'
  <2>1. TypeOK'
    <3>1. DriverTypeOK' /\ LibraryTypeOK' /\ CallTypeOK'
      BY <1>9, SMT DEF CleanupRead, ReadCounts, TypeOK, DriverTypeOK,
         LibraryTypeOK, CallTypeOK, WaitStatus, driverVars, libraryVars, callVars
    <3>2. FlagsTypeOK'
      BY <1>9, Zenon DEF CleanupRead, ReadCounts, TypeOK, FlagsTypeOK, driverVars,
         libraryVars
    <3>. QED  BY <3>1, <3>2 DEF TypeOK
  <2>2. UNCHANGED ringVars
    BY <1>9, Zenon DEF CleanupRead, ReadCounts, ringVars, driverVars, libraryVars, callVars
  <2>3. CallInOrder' /\ AheadOnlyAfterTimeout'
    BY <1>9, SMT DEF CleanupRead, ReadCounts, CallInOrder, InWait, InRecover,
       CountersInOrder,
       AheadOnlyAfterTimeout, TypeOK, DriverTypeOK, LibraryTypeOK, CallTypeOK,
          driverVars, libraryVars, callVars
  <2>. QED  BY <2>1, <2>2, <2>3, RingKept
<1>10. ASSUME AbortRead PROVE IndInv'
  <2>1. TypeOK'
    <3>1. DriverTypeOK' /\ LibraryTypeOK' /\ CallTypeOK'
      BY <1>10, SMT DEF AbortRead, ReadCounts, TypeOK, DriverTypeOK,
         LibraryTypeOK, CallTypeOK, WaitStatus, driverVars, libraryVars, callVars
    <3>2. FlagsTypeOK'
      BY <1>10, Zenon DEF AbortRead, ReadCounts, TypeOK, FlagsTypeOK, driverVars,
         libraryVars
    <3>. QED  BY <3>1, <3>2 DEF TypeOK
  <2>2. UNCHANGED ringVars
    BY <1>10, Zenon DEF AbortRead, ReadCounts, ringVars, driverVars, libraryVars, callVars
  <2>3. CallInOrder' /\ AheadOnlyAfterTimeout'
    BY <1>10, SMT DEF AbortRead, ReadCounts, CallInOrder, InWait, InRecover,
       CountersInOrder,
       AheadOnlyAfterTimeout, TypeOK, DriverTypeOK, LibraryTypeOK, CallTypeOK,
          driverVars, libraryVars, callVars
  <2>. QED  BY <2>1, <2>2, <2>3, RingKept
<1>11. ASSUME FrameStart PROVE IndInv'
  <2>1. RingHolds' /\ slot' \in [Slots -> Content]
    <3>1. /\ slot' = [slot EXCEPT ![done % numbufs] = Torn] /\ configured
          /\ UNCHANGED <<done, numbufs, configured, base>>
      BY <1>11, SMT DEF FrameStart, libraryVars
    <3>. QED  BY <3>1, BufferTorn
  <2>2. TypeOK'
    <3>1. DriverTypeOK' /\ LibraryTypeOK' /\ CallTypeOK'
      BY <1>11, <2>1, SMT DEF FrameStart, TypeOK, DriverTypeOK, LibraryTypeOK, CallTypeOK,
         libraryVars, callVars
    <3>2. FlagsTypeOK'
      BY <1>11, Zenon DEF FrameStart, TypeOK, FlagsTypeOK, libraryVars
    <3>. QED  BY <3>1, <3>2 DEF TypeOK
  <2>3. CountersInOrder' /\ HandedOut'
    BY <1>11, SMT DEF FrameStart, CountersInOrder, HandedOut, SlotOf, libraryVars, callVars
  <2>4. CallInOrder' /\ AheadOnlyAfterTimeout'
    BY <1>11, Zenon DEF FrameStart, CallInOrder, InWait, InRecover, AheadOnlyAfterTimeout,
       libraryVars, callVars
  <2>. QED  BY <2>1, <2>2, <2>3, <2>4
<1>12. ASSUME FrameDone PROVE IndInv'
  <2>1. RingHolds' /\ slot' \in [Slots -> Content]
    <3>1. /\ shot + 1 \in Nat /\ configured /\ done' = done + 1
          /\ slot' = [slot EXCEPT ![done % numbufs] =
                        [num |-> done + 1, shot |-> shot + 1]]
          /\ UNCHANGED <<numbufs, configured, base>>
      BY <1>12, SMT DEF FrameDone, libraryVars, CountersInOrder, TypeOK, DriverTypeOK
    <3>. QED  BY <3>1, BufferCounted
  <2>2. TypeOK'
    <3>1. DriverTypeOK' /\ LibraryTypeOK' /\ CallTypeOK'
      BY <1>12, <2>1, SMT DEF FrameDone, SetEvent, TypeOK, DriverTypeOK, LibraryTypeOK,
         CallTypeOK, libraryVars
    <3>2. FlagsTypeOK'
      BY <1>12, Zenon DEF FrameDone, SetEvent, TypeOK, FlagsTypeOK, libraryVars
    <3>. QED  BY <3>1, <3>2 DEF TypeOK
  <2>3. CountersInOrder' /\ HandedOut'
    BY <1>12, SMT DEF FrameDone, CountersInOrder, HandedOut, SlotOf, libraryVars,
       TypeOK, DriverTypeOK, LibraryTypeOK
  <2>4. CallInOrder' /\ AheadOnlyAfterTimeout'
    BY <1>12, SMT DEF FrameDone, SetEvent, CallInOrder, InWait, InRecover,
       AheadOnlyAfterTimeout, libraryVars, TypeOK, DriverTypeOK, LibraryTypeOK, CallTypeOK
  <2>. QED  BY <2>1, <2>2, <2>3, <2>4
<1>13. ASSUME WaitDoTimeout PROVE IndInv'
  <2>1. CASE UNCHANGED <<done, slot>>
    <3>1. TypeOK'
      <4>1. DriverTypeOK' /\ LibraryTypeOK' /\ CallTypeOK'
        BY <1>13, <2>1, SMT DEF WaitDoTimeout, DriverTypeOK, DriverTimeout, TypeOK,
           LibraryTypeOK, CallTypeOK, WaitStatus, libraryVars
      <4>2. FlagsTypeOK'
        BY <1>13, Zenon DEF WaitDoTimeout, DriverTimeout, TypeOK, FlagsTypeOK, libraryVars
      <4>. QED  BY <4>1, <4>2 DEF TypeOK
    <3>2. CountersInOrder' /\ RingHolds' /\ HandedOut'
      BY <1>13, <2>1, SMT DEF WaitDoTimeout, DriverTimeout, CountersInOrder, RingHolds,
         HandedOut, Intact, libraryVars, Null
    <3>3. CallInOrder' /\ AheadOnlyAfterTimeout'
      BY <1>13, <2>1, Zenon DEF WaitDoTimeout, CallInOrder, InWait, InRecover,
         AheadOnlyAfterTimeout, libraryVars
    <3>. QED  BY <3>1, <3>2, <3>3
  <2>2. CASE ~UNCHANGED <<done, slot>>
    <3>1. /\ configured /\ done < todo /\ done' = done + 1
          /\ slot' = [slot EXCEPT ![done % numbufs] = [num |-> done + 1, shot |-> 0]]
          /\ UNCHANGED <<numbufs, configured, base>>
      BY <1>13, <2>2, Zenon DEF WaitDoTimeout, DriverTimeout, libraryVars
    <3>2. RingHolds' /\ slot' \in [Slots -> Content]
      BY <3>1, BufferCounted
    <3>3. TypeOK'
      <4>1. DriverTypeOK' /\ LibraryTypeOK' /\ CallTypeOK'
        BY <1>13, <3>1, <3>2, SMT DEF WaitDoTimeout, DriverTypeOK, DriverTimeout, TypeOK,
           LibraryTypeOK, CallTypeOK, WaitStatus, libraryVars
      <4>2. FlagsTypeOK'
        BY <1>13, Zenon DEF WaitDoTimeout, DriverTimeout, TypeOK, FlagsTypeOK, libraryVars
      <4>. QED  BY <4>1, <4>2 DEF TypeOK
    <3>4. CountersInOrder' /\ HandedOut'
      BY <1>13, <3>1, SMT DEF WaitDoTimeout, DriverTimeout, CountersInOrder, HandedOut,
         SlotOf, libraryVars, TypeOK, DriverTypeOK, LibraryTypeOK
    <3>5. CallInOrder' /\ AheadOnlyAfterTimeout'
      BY <1>13, SMT DEF WaitDoTimeout, CallInOrder, InWait, InRecover,
         AheadOnlyAfterTimeout, libraryVars
    <3>. QED  BY <3>2, <3>3, <3>4, <3>5
  <2>. QED  BY <2>1, <2>2
<1>14. ASSUME WaitReturn PROVE IndInv'
  <2>1. donecount' \in Nat /\ base <= donecount'
    BY <1>14, SMT DEF WaitReturn, CallInOrder, InWait, CountersInOrder, TypeOK,
       LibraryTypeOK, CallTypeOK
  <2>2. image' \in Slots \cup {Null} /\ HandedOut'
    <3>1. numbufs \in 1 .. MaxBufs
      BY <1>14, SMT DEF WaitReturn, CallInOrder, InWait, TypeOK, LibraryTypeOK
    <3>2. SlotOf(donecount', numbufs) \in Slots
      BY <2>1, <3>1, SlotRange
    <3>3. /\ image' = IF configured THEN SlotOf(donecount', numbufs) ELSE Null
          /\ UNCHANGED <<numbufs, configured>>
      BY <1>14, Zenon DEF WaitReturn
    <3>. QED  BY <3>2, <3>3, SMT DEF HandedOut, Null
  <2>3. TypeOK'
    <3>1. DriverTypeOK' /\ LibraryTypeOK' /\ CallTypeOK'
      BY <1>14, <2>1, <2>2, SMT DEF WaitReturn, TypeOK, DriverTypeOK, LibraryTypeOK,
         CallTypeOK, WaitStatus, driverVars
    <3>2. FlagsTypeOK'
      BY <1>14, Zenon DEF WaitReturn, TypeOK, FlagsTypeOK, driverVars
    <3>. QED  BY <3>1, <3>2 DEF TypeOK
  <2>4. CountersInOrder'
    BY <1>14, <2>1, Zenon DEF WaitReturn, CountersInOrder, driverVars
  <2>5. RingHolds'
    BY <1>14, SMT DEF WaitReturn, RingHolds, Intact, driverVars
  <2>6. CallInOrder' /\ AheadOnlyAfterTimeout'
    BY <1>14, SMT DEF WaitReturn, CallInOrder, InWait, InRecover, AheadOnlyAfterTimeout,
       driverVars
  <2>. QED  BY <2>2, <2>3, <2>4, <2>5, <2>6
<1>15. ASSUME NEW restart \in BOOLEAN, RestartAct(restart) PROVE IndInv'
  <2>. DEFINE left    == curtodo - curdone
              begun == IF restart /\ left # 0 THEN Capped(left) ELSE 0
  <2>1. begun \in Nat /\ curdone \in Nat
    BY <1>15, SMT DEF RestartAct, Capped, CallInOrder, InRecover, TypeOK, CallTypeOK
  <2>2. SetBuffer(curdone, begun) /\ running' \in BOOLEAN
    BY <1>15, Zenon DEF RestartAct
  <2>3. /\ filling' = FALSE /\ pc' = "idle" /\ curdone' = 0 /\ curtodo' = 0
        /\ UNCHANGED <<timeouts, timeout_ok, event, slot, shot, numbufs, configured>>
        /\ UNCHANGED <<last_wait_ret, tmpcnt, ret, nSkipped, image, wpc>>
    BY <1>15, Zenon DEF RestartAct
  <2>. HIDE DEF begun, IndInv
  <2>. QED  BY <2>1, <2>2, <2>3, SetBufferInv
<1>16. ASSUME CleanupAct \/ AbortAct PROVE IndInv'
  <2>1. curdone \in Nat /\ curdone + 1 \in Nat
    BY SMT DEF TypeOK, CallTypeOK
  <2>2. SetBuffer(curdone, 0) \/ SetBuffer(curdone + 1, 0)
    BY <1>16, Zenon DEF CleanupAct, AbortAct
  <2>3. /\ running' \in BOOLEAN
        /\ filling' = FALSE /\ pc' = "idle" /\ curdone' = 0 /\ curtodo' = 0
        /\ UNCHANGED <<timeouts, timeout_ok, event, slot, shot, numbufs, configured>>
        /\ UNCHANGED <<last_wait_ret, tmpcnt, ret, nSkipped, image, wpc>>
    BY <1>16, Zenon DEF CleanupAct, AbortAct
  <2>4. 0 \in Nat  BY SMT
  <2>. HIDE DEF IndInv
  <2>. QED  BY <2>1, <2>2, <2>3, <2>4, SetBufferInv
<1>17. ASSUME DisableRingBuffers PROVE IndInv'
  <2>1. /\ NewRing(0, FALSE) /\ todo' = 0 /\ running' = FALSE /\ pc = "idle"
        /\ donecount' = donecount
        /\ UNCHANGED <<timeouts, timeout_ok, event, shot, last_wait_ret, callVars, wpc>>
    BY <1>17, Zenon DEF DisableRingBuffers
  <2>2. 0 \in 0 .. MaxBufs /\ 0 \in Nat /\ donecount \in Nat /\ ~(0 > 0)
    BY SMT DEF TypeOK, LibraryTypeOK
  <2>. HIDE DEF IndInv
  <2>. QED  BY <2>1, <2>2, NewRingInv
<1>18. ASSUME NEW n \in 1 .. MaxBufs, Multibuf(n) PROVE IndInv'
  <2>1. PICK allocated \in BOOLEAN : NewRing(n, allocated)
    BY <1>18 DEF Multibuf, FreshRing
  <2>2. /\ donecount' = 0 /\ todo' = 0 /\ running' = FALSE /\ pc = "idle"
        /\ UNCHANGED <<timeouts, timeout_ok, event, shot, last_wait_ret, callVars, wpc>>
    BY <1>18, Zenon DEF Multibuf, FreshRing
  <2>3. n \in 0 .. MaxBufs /\ n > 0 /\ 0 \in Nat
    BY SMT
  <2>. HIDE DEF IndInv
  <2>. QED  BY <2>1, <2>2, <2>3, NewRingInv
<1>19. ASSUME NEW n \in 1 .. MaxCount, StartImages(n) PROVE IndInv'
  <2>1. /\ running' = TRUE /\ pc = "idle"
        /\ UNCHANGED <<timeouts, timeout_ok, event, shot, last_wait_ret, callVars, wpc>>
    BY <1>19, Zenon DEF StartImages
  <2>2. Capped(n) \in Nat
    BY SMT DEF Capped
  <2>3. CASE numbufs >= 1
    <3>1. /\ todo' = todo + Capped(n)
          /\ UNCHANGED <<numbufs, configured, done, donecount, base, filling, slot>>
      BY <1>19, <2>3, SMT DEF StartImages
    <3>2. TypeOK'
      <4>1. DriverTypeOK' /\ LibraryTypeOK' /\ CallTypeOK'
        BY <2>1, <2>2, <3>1, SMT DEF TypeOK, DriverTypeOK, LibraryTypeOK, CallTypeOK,
           callVars
      <4>2. FlagsTypeOK'
        BY <2>1, <3>1, Zenon DEF TypeOK, FlagsTypeOK
      <4>. QED  BY <4>1, <4>2 DEF TypeOK
    <3>3. CountersInOrder'
      BY <2>2, <3>1, SMT DEF CountersInOrder, TypeOK, DriverTypeOK
    <3>4. RingHolds' /\ HandedOut'
      BY <2>1, <3>1, SMT DEF RingHolds, HandedOut, Intact, callVars, Null
    <3>5. CallInOrder' /\ AheadOnlyAfterTimeout'
      BY <2>1, <3>1, Zenon DEF CallInOrder, InWait, InRecover, AheadOnlyAfterTimeout,
         callVars
    <3>. QED  BY <3>2, <3>3, <3>4, <3>5
  <2>4. CASE ~(numbufs >= 1)
    <3>1. FreshRing(1) /\ todo' = Capped(n)
      BY <1>19, <2>4, Zenon DEF StartImages
    <3>2. PICK allocated \in BOOLEAN : NewRing(1, allocated)
      BY <3>1 DEF FreshRing
    <3>3. donecount' = 0
      BY <3>1 DEF FreshRing
    <3>4. 1 \in 0 .. MaxBufs /\ 1 > 0 /\ 0 \in Nat
      BY SMT
    <3>. HIDE DEF IndInv
    <3>. QED  BY <2>1, <2>2, <3>1, <3>2, <3>3, <3>4, NewRingInv
  <2>. QED  BY <2>3, <2>4
<1>20. ASSUME WaitLastImage \/ LastBuffer \/ WaitNextImage PROVE IndInv'
  <2>1. /\ done - donecount \in Int
        /\ base <= donecount + 1
        /\ base <= donecount + (done - donecount)
        /\ base <= donecount + (1 + (done - donecount))
        /\ base <= donecount + (1 + 1)
    BY SMT DEF CountersInOrder, TypeOK, DriverTypeOK, LibraryTypeOK
  <2>2. \E count \in {1, 1 + 1, done - donecount, 1 + (done - donecount)} :
           BeginWait(count) /\ nSkipped' \in Int
    BY <1>20, <2>1, SMT DEF WaitLastImage, LastBuffer, WaitNextImage, TypeOK, CallTypeOK
  <2>3. PICK count \in {1, 1 + 1, done - donecount, 1 + (done - donecount)} :
           BeginWait(count) /\ nSkipped' \in Int
    BY <2>2
  <2>4. count \in Int /\ base <= donecount + count
    BY <2>1, <2>3, SMT
  <2>. HIDE DEF IndInv
  <2>. QED  BY <2>3, <2>4, BeginWaitInv
<1>21. ASSUME NEW n \in 1 .. MaxCount, WaitImages(n) PROVE IndInv'
  <2>1. n \in Int /\ base <= donecount + n
    BY SMT DEF CountersInOrder, TypeOK, LibraryTypeOK
  <2>2. BeginWait(n) /\ nSkipped' \in Int
    BY <1>21, Zenon DEF WaitImages, TypeOK, CallTypeOK
  <2>. HIDE DEF IndInv
  <2>. QED  BY <2>1, <2>2, BeginWaitInv
<1>22. ASSUME NEW n \in 1 .. MaxCount, CheckForBuffers(n) PROVE IndInv'
  <2>1. CASE WaitImages(n)
    BY <1>21, <2>1
  <2>2. CASE ~WaitImages(n)
    <3>1. /\ image' = Null
          /\ UNCHANGED <<driverVars, libraryVars, pc, tmpcnt, ret, curdone, curtodo>>
          /\ UNCHANGED <<nSkipped, wpc, base>>
      BY <1>22, <2>2, Zenon DEF CheckForBuffers
    <3>2. TypeOK'
      BY <3>1, Zenon DEF TypeOK, DriverTypeOK, LibraryTypeOK, CallTypeOK, FlagsTypeOK,
         driverVars, libraryVars
    <3>3. CountersInOrder' /\ RingHolds' /\ HandedOut'
      BY <3>1, SMT DEF CountersInOrder, RingHolds, HandedOut, Intact, Null,
         driverVars, libraryVars
    <3>4. CallInOrder' /\ AheadOnlyAfterTimeout'
      BY <3>1, Zenon DEF CallInOrder, InWait, InRecover, AheadOnlyAfterTimeout,
         driverVars, libraryVars
    <3>. QED  BY <3>2, <3>3, <3>4
  <2>. QED  BY <2>1, <2>2
<1>23. CASE UNCHANGED vars
  <2>1. TypeOK'
    BY <1>23, Zenon DEF TypeOK, DriverTypeOK, LibraryTypeOK, CallTypeOK, FlagsTypeOK,
       vars, driverVars, libraryVars, callVars
  <2>2. UNCHANGED ringVars
    BY <1>23, Zenon DEF ringVars, vars, driverVars, libraryVars, callVars
  <2>3. CallInOrder' /\ AheadOnlyAfterTimeout'
    BY <1>23, Zenon DEF CallInOrder, InWait, InRecover, AheadOnlyAfterTimeout, vars,
       driverVars, libraryVars, callVars
  <2>. QED  BY <2>1, <2>2, <2>3, RingKept
<1>24. ASSUME Driver \/ WaitStep \/ Waker PROVE IndInv'
  BY <1>1, <1>2, <1>3, <1>4, <1>5, <1>6, <1>7, <1>11, <1>12, <1>13, <1>14, <1>24
  DEF Driver, WaitStep, Waker
<1>25. ASSUME Recover \/ Setup \/ Client PROVE IndInv'
  BY <1>8, <1>9, <1>10, <1>15, <1>16, <1>17, <1>18, <1>19, <1>20, <1>21, <1>22, <1>25
  DEF Recover, Setup, Client
<1>. QED  BY <1>23, <1>24, <1>25 DEF Next

-----------------------------------------------------------------------------
(* The theorems.                                                           *)

(* The ring, the counters and the call in progress fit together always.    *)
THEOREM Invariance == Spec => []IndInv
<1>1. Init => IndInv                    BY InitInv
<1>2. IndInv /\ [Next]_vars => IndInv'  BY StepInv
<1>. QED  BY <1>1, <1>2, PTL DEF Spec

(* Every variable has its type: an image handed out is a slot that exists. *)
THEOREM TypeCorrect == Spec => []TypeOK
<1>1. IndInv => TypeOK  BY DEF IndInv
<1>. QED  BY <1>1, Invariance, PTL

(* edt_ring_buffer_overrun misses no overwritten image.                    *)
THEOREM OverrunCorrect == Spec => []OverrunSound
<1>1. IndInv => OverrunSound
  <2>. SUFFICES ASSUME IndInv, configured, ~Overrun, NEW k \in donecount + 1 .. done
                PROVE  Intact(k)
    BY DEF OverrunSound
  <2>1. k \in base + 1 .. done /\ done + 1 < k + numbufs
    BY SMT DEF IndInv, TypeOK, DriverTypeOK, LibraryTypeOK, CountersInOrder, Overrun
  <2>. QED  BY <2>1 DEF IndInv, RingHolds
<1>. QED  BY <1>1, Invariance, PTL

(* The image in the application's hands is safe for numbufs - 1 frames.    *)
THEOREM HeldImageSafe == Spec => []HeldImageIntact
<1>1. IndInv => HeldImageIntact
  <2>. SUFFICES ASSUME IndInv, configured, image # Null, base < donecount,
                       donecount <= done, done + 1 < donecount + numbufs
                PROVE  slot[image].num = donecount
    BY DEF HeldImageIntact
  <2>1. donecount \in base + 1 .. done
    BY SMT DEF IndInv, TypeOK, DriverTypeOK, LibraryTypeOK
  <2>2. Intact(donecount)
    BY <2>1 DEF IndInv, RingHolds
  <2>3. image = SlotOf(donecount, numbufs)
    BY DEF IndInv, HandedOut
  <2>. QED  BY <2>2, <2>3 DEF Intact
<1>. QED  BY <1>1, Invariance, PTL

(* A wait that reports success never hands out a buffer that is not there. *)
THEOREM NeverAhead == Spec => []AheadOnlyAfterTimeout
<1>1. IndInv => AheadOnlyAfterTimeout  BY DEF IndInv
<1>. QED  BY <1>1, Invariance, PTL

-----------------------------------------------------------------------------
(* No frame is missed, as long as nobody calls edt_user_dma_wakeup: the    *)
(* event stays signalled from a frame that completes while the wait is     *)
(* between its look at the counter and WaitForSingleObject.                *)

EventKept ==
  /\ NoSleepPastCompletion
  /\ pc = "entering" /\ done >= tmpcnt => event
  /\ wpc = "idle"

(* No step loses the event of a completed buffer.                          *)
LEMMA EventStep ==
  ASSUME ~UserWakeup, IndInv, EventKept, [Next]_vars
  PROVE  EventKept'
<1>. USE DEF EventKept, NoSleepPastCompletion
<1>0. done \in Nat /\ tmpcnt \in Int
  BY DEF IndInv, TypeOK, DriverTypeOK, CallTypeOK
<1>1. CASE FrameStart
  BY <1>1, Zenon DEF FrameStart, callVars
<1>2. CASE FrameDone
  BY <1>2, SMT DEF FrameDone, SetEvent
<1>3. CASE WaitCheck
  BY <1>0, <1>3, SMT DEF WaitCheck, driverVars
<1>4. CASE WaitEnter
  BY <1>0, <1>4, SMT DEF WaitEnter
<1>5. CASE WaitWoken \/ WaitExpires \/ WaitDoTimeout \/ WaitReturn
  BY <1>5, SMT DEF WaitWoken, WaitExpires, WaitDoTimeout, WaitReturn
<1>6. CASE Waker
  BY <1>6, Zenon DEF Waker, WakeSet, WakeReset, WakeMark
<1>7. CASE Recover
  BY <1>7, SMT DEF Recover, RestartRead, CleanupRead, AbortRead, ReadCounts, CleanupAct,
     AbortAct, RestartAct
<1>8. CASE Setup
  <2>1. pc = "idle" /\ UNCHANGED <<pc, wpc>>
    BY <1>8, Zenon DEF Setup, DisableRingBuffers, Multibuf, callVars
  <2>. QED  BY <2>1, Zenon
<1>9. CASE Client
  BY <1>9, SMT DEF Client, WaitLastImage, LastBuffer, WaitNextImage, BeginWait, StartImages, callVars,
     WaitImages, CheckForBuffers
<1>10. CASE UNCHANGED vars
  BY <1>10, Zenon DEF vars, driverVars, callVars
<1>. QED
  BY <1>1, <1>2, <1>3, <1>4, <1>5, <1>6, <1>7, <1>8, <1>9, <1>10 DEF Next, Driver, WaitStep

(* Without user wakeups a wait never sleeps past the completion of what it *)
(* waits for.                                                              *)
THEOREM NoFrameMissed ==
  ASSUME ~UserWakeup
  PROVE  Spec => []NoSleepPastCompletion
<1>1. Init => EventKept
  BY SMT DEF Init, EventKept, NoSleepPastCompletion
<1>2. IndInv /\ EventKept /\ [Next]_vars => EventKept'
  BY EventStep
<1>3. EventKept => NoSleepPastCompletion
  BY DEF EventKept
<1>. QED  BY <1>1, <1>2, <1>3, Invariance, PTL DEF Spec

(***************************************************************************)
(* The loop.                                                               *)
(***************************************************************************)

USE DEF Goto

(* What the variables are.                                                 *)
LEMMA Typed ==
  ASSUME LoopInv
  PROVE  /\ done \in Nat /\ todo \in Nat /\ timeouts \in Nat /\ shot \in Nat
         /\ donecount \in Nat /\ base \in Nat /\ tmpcnt \in Int
         /\ curdone \in Nat /\ curtodo \in Nat
         /\ numbufs \in 0 .. MaxBufs /\ numbufs \in Nat
         /\ i \in Nat /\ i <= Loops /\ started \in Nat /\ started <= NumBufs
         /\ last_timeouts \in Nat /\ newest \in Nat
         /\ Loops \in Nat /\ Loops > 0 /\ NumBufs \in 1 .. MaxBufs /\ NumBufs \in Nat /\ NumBufs > 0
         /\ MaxShots \in Nat
         /\ Capped(NumBufs) \in Nat /\ Capped(NumBufs) > 0 /\ Capped(NumBufs) <= NumBufs
         /\ Capped(1) = 1
<1>1. LoopTypeOK /\ TypeOK
  BY DEF LoopInv, LoopTypeOK
<1>2. MaxBufs \in Nat /\ MaxShots \in Nat /\ Loops \in Nat /\ Loops > 0 /\ NumBufs \in 1 .. MaxBufs
  BY RingAssumption, LoopAssumption
<1> QED BY <1>1, <1>2 DEF LoopTypeOK, TypeOK, DriverTypeOK, LibraryTypeOK, CallTypeOK, Capped

(* The steps of the loop are steps of the ring.                            *)
LEMMA StepOfRing ==
  ASSUME LoopInv, [LoopNext]_tvars
  PROVE  [Next]_vars
<1>1. CASE LoopMultibuf
  BY <1>1, Typed DEF LoopMultibuf, Next, Setup
<1>2. CASE LoopPrestart
  <2>1. started' \in 1 .. MaxCount
    BY <1>2, RingAssumption, LoopAssumption DEF LoopPrestart
  <2> QED BY <1>2, <2>1 DEF LoopPrestart, Next, Client
<1>3. CASE LoopWait
  <2>1. 1 \in 1 .. MaxCount
    BY RingAssumption
  <2> QED BY <1>3, <2>1 DEF LoopWait, Next, Client
<1>4. CASE LoopWaiting \/ LoopReturn
  BY <1>4 DEF LoopWaiting, LoopReturn, Next, WaitStep
<1>5. CASE LoopStart
  <2>1. 1 \in 1 .. MaxCount
    BY RingAssumption
  <2> QED BY <1>5, <2>1 DEF LoopStart, Next, Client
<1>6. CASE LoopCheck \/ LoopRestart
  BY <1>6 DEF LoopCheck, LoopRestart, Next, Recover
<1>7. CASE LoopSave
  BY <1>7 DEF LoopSave
<1>8. CASE LoopClose
  BY <1>8 DEF LoopClose, Next, Setup
<1>9. CASE Driver \/ UNCHANGED tvars
  BY <1>9 DEF Next, tvars
<1> QED BY <1>1, <1>2, <1>3, <1>4, <1>5, <1>6, <1>7, <1>8, <1>9 DEF LoopNext, LoopStep

(* What the ring's invariant says of the ring's variables.                 *)
LEMMA RingFacts ==
  ASSUME IndInv
  PROVE  /\ done \in Nat /\ todo \in Nat /\ donecount \in Nat /\ base \in Nat
         /\ tmpcnt \in Int /\ curdone \in Nat /\ curtodo \in Nat /\ timeouts \in Nat /\ shot \in Nat
         /\ base <= done /\ base <= donecount /\ done <= todo
         /\ filling => configured /\ done < todo
         /\ slot \in [Slots -> Content]
         /\ \A s \in Slots : slot[s].num \in Nat /\ slot[s].shot \in Nat
         /\ image \in Slots \cup {Null}
BY DEF IndInv, TypeOK, DriverTypeOK, LibraryTypeOK, CallTypeOK, CountersInOrder, Content

(* The same after a step.                                                  *)
LEMMA RingFactsAfter ==
  ASSUME IndInv'
  PROVE  /\ done' \in Nat /\ todo' \in Nat /\ donecount' \in Nat /\ base' \in Nat
         /\ timeouts' \in Nat /\ shot' \in Nat /\ base' <= done' /\ done' <= todo'
BY DEF IndInv, TypeOK, DriverTypeOK, LibraryTypeOK, CallTypeOK, CountersInOrder

(* The ring is whole while nothing is written to it.                       *)
LEMMA RingFullSame ==
  ASSUME RingFull, CountsKeepUp' => CountsKeepUp,
         UNCHANGED <<slot, numbufs, configured, done, base, filling>>
  PROVE  RingFull'
BY DEF RingFull, Intact

(* The order of the images stays when nothing is moved.                    *)
LEMMA NewerSame ==
  ASSUME Newer, CountsKeepUp' => CountsKeepUp, Settled' => Settled,
         UNCHANGED <<slot, numbufs, configured, done, donecount, shot, filling, newest>>
  PROVE  Newer'
BY DEF Newer, Exposure

(* Nothing lies between a number and a smaller one.                        *)
LEMMA NoneBeyond ==
  ASSUME NEW a \in Nat, NEW b \in Nat, a <= b
  PROVE  \A k \in b + 1 .. a : FALSE
OBVIOUS

(* Nothing that is complete has not been waited for.                       *)
LEMMA NewerEmpty ==
  ASSUME Newer, IndInv', newest' <= shot', shot' <= MaxShots, filling' => shot' < MaxShots,
         \A s \in Slots : slot'[s].shot <= shot',
         CountsKeepUp' /\ Settled' /\ configured' => done' <= donecount'
  PROVE  Newer'
<1>1. done' \in Nat /\ donecount' \in Nat
  BY RingFactsAfter
<1>2. CASE CountsKeepUp' /\ Settled' /\ configured'
  <2>1. done' <= donecount'
    BY <1>2
  <2>2. \A k \in donecount' + 1 .. done' : FALSE
    BY <1>1, <2>1, NoneBeyond
  <2> QED BY <2>2 DEF Newer
<1>3. CASE ~(CountsKeepUp' /\ Settled' /\ configured')
  BY <1>3 DEF Newer
<1> QED BY <1>2, <1>3

(* The slot of the buffer in progress is not that of one numbufs - 1 before *)
(* it.                                                                     *)
LEMMA NextSlot ==
  ASSUME NEW n \in 1 .. MaxBufs, NEW d \in Nat
  PROVE  /\ SlotOf(d + 1, n) = d % n /\ d % n \in Slots
         /\ \A k \in Nat : 0 < k /\ k <= d /\ d + 1 < k + n =>
              SlotOf(k, n) \in Slots /\ SlotOf(k, n) # d % n
<1>1. SlotOf(d + 1, n) = d % n
  BY SlotNext
<1>2. d + 1 \in Nat /\ n \in Nat
  BY RingAssumption, SMT
<1>3. d % n \in Slots
  BY <1>1, <1>2, SlotRange
<1>4. ASSUME NEW k \in Nat, 0 < k, k <= d, d + 1 < k + n PROVE SlotOf(k, n) # d % n
  <2>1. k \in Nat \ {0} /\ d < k - 1 + n
    BY <1>2, <1>4, SMT
  <2> QED BY <1>4, <2>1, SlotApart
<1> QED BY <1>1, <1>3, <1>4, SlotRange

(* The buffer in progress is counted, with whatever exposure: it is in     *)
(* place, and the numbufs - 1 before it stay.                              *)
LEMMA Counted ==
  ASSUME LoopInv, configured, NEW x \in Nat, x <= shot + 1, done' = done + 1,
         slot' = [slot EXCEPT ![done % numbufs] = [num |-> done + 1, shot |-> x]],
         UNCHANGED <<numbufs, configured, base>>
  PROVE  /\ \A k \in base + 1 .. done' : done' < k + numbufs => Intact(k)'
         /\ \A k \in Nat : k = done + 1 => Exposure(k)' = x
         /\ \A k \in Nat : 0 < k /\ k <= done /\ done + 1 < k + numbufs => Exposure(k)' = Exposure(k)
         /\ \A s \in Slots : slot'[s].shot = slot[s].shot \/ slot'[s].shot = x
<1>1. /\ numbufs \in 1 .. MaxBufs /\ numbufs \in Nat /\ done \in Nat /\ base \in Nat
      /\ slot \in [Slots -> Content] /\ RingHolds
  BY Typed, RingFacts, RingAssumption DEF LoopInv, IndInv, CountersInOrder
<1>2. SlotOf(done + 1, numbufs) = done % numbufs /\ done % numbufs \in Slots
  BY <1>1, NextSlot
<1>3. slot'[done % numbufs] = [num |-> done + 1, shot |-> x]
  BY <1>1, <1>2
<1>4. ASSUME NEW k \in Nat, 0 < k, k <= done, done + 1 < k + numbufs
      PROVE  slot'[SlotOf(k, numbufs)] = slot[SlotOf(k, numbufs)]
  <2>1. SlotOf(k, numbufs) \in Slots /\ SlotOf(k, numbufs) # done % numbufs
    BY <1>1, <1>4, NextSlot
  <2> QED BY <1>1, <2>1
<1>5. ASSUME NEW k \in base + 1 .. done', done' < k + numbufs PROVE Intact(k)'
  <2>1. CASE k = done + 1
    BY <1>2, <1>3, <2>1 DEF Intact
  <2>2. CASE k # done + 1
    <3>1. k \in Nat /\ 0 < k /\ k <= done /\ done + 1 < k + numbufs /\ k \in base + 1 .. done
      BY <1>1, <1>5, <2>2
    <3>2. Intact(k)
      BY <1>1, <3>1 DEF RingHolds
    <3> QED BY <1>4, <3>1, <3>2 DEF Intact
  <2> QED BY <2>1, <2>2
<1>6. \A k \in Nat : k = done + 1 => Exposure(k)' = x
  BY <1>2, <1>3 DEF Exposure
<1>7. \A s \in Slots : slot'[s].shot = slot[s].shot \/ slot'[s].shot = x
  BY <1>1, <1>2
<1> QED BY <1>4, <1>5, <1>6, <1>7 DEF Exposure

(* The wait looks at the driver's counter.                                 *)
LEMMA WaitCheckKept ==
  ASSUME LoopInv, IndInv', lpc = "waiting", WaitCheck, UNCHANGED loopVars
  PROVE  LoopInv'
<1>0. LoopTypeOK /\ CallMatches /\ RingIsOurs /\ Unrecovered
      /\ InStep /\ StartsKeepUp /\ RoomLeft /\ RingFull /\ Newer
  BY DEF LoopInv
<1>1. LoopTypeOK'
  BY <1>0, Typed DEF WaitCheck, driverVars, libraryVars, callVars, loopVars,
    LoopTypeOK, IndInv
<1>2. CallMatches'
  BY <1>0, Typed DEF WaitCheck, driverVars, libraryVars, callVars, loopVars,
    CallMatches, InWait
<1>3. RingIsOurs'
  BY <1>0, Typed DEF WaitCheck, driverVars, libraryVars, callVars, loopVars,
    RingIsOurs, InLoop, CallMatches
<1>4. Unrecovered'
  BY <1>0, Typed DEF WaitCheck, driverVars, libraryVars, callVars, loopVars,
    Unrecovered, CallMatches, InWait
<1>5. InStep'
  BY <1>0, Typed DEF WaitCheck, driverVars, libraryVars, callVars, loopVars,
    InStep, Settled, InLoop, Unrecovered, CallMatches, InWait, RingIsOurs
<1>6. StartsKeepUp'
  BY <1>0, Typed DEF WaitCheck, driverVars, libraryVars, callVars, loopVars,
    StartsKeepUp, InLoop, CallMatches, RingIsOurs, Unrecovered, InWait
<1>7. RoomLeft'
  BY <1>0, Typed DEF WaitCheck, driverVars, libraryVars, callVars, loopVars,
    RoomLeft, CountsKeepUp, Unrecovered, CallMatches, RingIsOurs, InStep, Settled,
    InLoop, InWait
<1>8. RingFull'
  BY <1>0, Typed DEF WaitCheck, driverVars, libraryVars, callVars, loopVars,
    RingFull, CountsKeepUp, Intact
<1>9. Newer'
  BY <1>0, Typed DEF WaitCheck, driverVars, libraryVars, callVars, loopVars, Newer,
    CountsKeepUp, Settled, Exposure
<1> QED BY <1>1, <1>2, <1>3, <1>4, <1>5, <1>6, <1>7, <1>8, <1>9 DEF LoopInv

(* The wait enters WaitForSingleObject.                                    *)
LEMMA WaitEnterKept ==
  ASSUME LoopInv, IndInv', lpc = "waiting", WaitEnter, UNCHANGED loopVars
  PROVE  LoopInv'
<1>0. LoopTypeOK /\ CallMatches /\ RingIsOurs /\ Unrecovered
      /\ InStep /\ StartsKeepUp /\ RoomLeft /\ RingFull /\ Newer
  BY DEF LoopInv
<1>1. LoopTypeOK'
  BY <1>0, Typed DEF WaitEnter, driverVars, libraryVars, callVars, loopVars,
    LoopTypeOK, IndInv
<1>2. CallMatches'
  BY <1>0, Typed DEF WaitEnter, driverVars, libraryVars, callVars, loopVars,
    CallMatches, InWait
<1>3. RingIsOurs'
  BY <1>0, Typed DEF WaitEnter, driverVars, libraryVars, callVars, loopVars,
    RingIsOurs, InLoop, CallMatches
<1>4. Unrecovered'
  BY <1>0, Typed DEF WaitEnter, driverVars, libraryVars, callVars, loopVars,
    Unrecovered, CallMatches, InWait
<1>5. InStep'
  BY <1>0, Typed DEF WaitEnter, driverVars, libraryVars, callVars, loopVars,
    InStep, Settled, InLoop, Unrecovered, CallMatches, InWait, RingIsOurs
<1>6. StartsKeepUp'
  BY <1>0, Typed DEF WaitEnter, driverVars, libraryVars, callVars, loopVars,
    StartsKeepUp, InLoop, CallMatches, RingIsOurs, Unrecovered, InWait
<1>7. RoomLeft'
  BY <1>0, Typed DEF WaitEnter, driverVars, libraryVars, callVars, loopVars,
    RoomLeft, CountsKeepUp, Unrecovered, CallMatches, RingIsOurs, InStep, Settled,
    InLoop, InWait
<1>8. RingFull'
  BY <1>0, Typed DEF WaitEnter, driverVars, libraryVars, callVars, loopVars,
    RingFull, CountsKeepUp, Intact
<1>9. Newer'
  BY <1>0, Typed DEF WaitEnter, driverVars, libraryVars, callVars, loopVars, Newer,
    CountsKeepUp, Settled, Exposure
<1> QED BY <1>1, <1>2, <1>3, <1>4, <1>5, <1>6, <1>7, <1>8, <1>9 DEF LoopInv

(* The wait is woken.                                                      *)
LEMMA WaitWokenKept ==
  ASSUME LoopInv, IndInv', lpc = "waiting", WaitWoken, UNCHANGED loopVars
  PROVE  LoopInv'
<1>0. LoopTypeOK /\ CallMatches /\ RingIsOurs /\ Unrecovered
      /\ InStep /\ StartsKeepUp /\ RoomLeft /\ RingFull /\ Newer
  BY DEF LoopInv
<1>1. LoopTypeOK'
  BY <1>0, Typed DEF WaitWoken, driverVars, libraryVars, callVars, loopVars,
    LoopTypeOK, IndInv
<1>2. CallMatches'
  BY <1>0, Typed DEF WaitWoken, driverVars, libraryVars, callVars, loopVars,
    CallMatches, InWait
<1>3. RingIsOurs'
  BY <1>0, Typed DEF WaitWoken, driverVars, libraryVars, callVars, loopVars,
    RingIsOurs, InLoop, CallMatches
<1>4. Unrecovered'
  BY <1>0, Typed DEF WaitWoken, driverVars, libraryVars, callVars, loopVars,
    Unrecovered, CallMatches, InWait
<1>5. InStep'
  BY <1>0, Typed DEF WaitWoken, driverVars, libraryVars, callVars, loopVars,
    InStep, Settled, InLoop, Unrecovered, CallMatches, InWait, RingIsOurs
<1>6. StartsKeepUp'
  BY <1>0, Typed DEF WaitWoken, driverVars, libraryVars, callVars, loopVars,
    StartsKeepUp, InLoop, CallMatches, RingIsOurs, Unrecovered, InWait
<1>7. RoomLeft'
  BY <1>0, Typed DEF WaitWoken, driverVars, libraryVars, callVars, loopVars,
    RoomLeft, CountsKeepUp, Unrecovered, CallMatches, RingIsOurs, InStep, Settled,
    InLoop, InWait
<1>8. RingFull'
  BY <1>0, Typed DEF WaitWoken, driverVars, libraryVars, callVars, loopVars,
    RingFull, CountsKeepUp, Intact
<1>9. Newer'
  BY <1>0, Typed DEF WaitWoken, driverVars, libraryVars, callVars, loopVars, Newer,
    CountsKeepUp, Settled, Exposure
<1> QED BY <1>1, <1>2, <1>3, <1>4, <1>5, <1>6, <1>7, <1>8, <1>9 DEF LoopInv

(* The wait's time is over.                                                *)
LEMMA WaitExpiresKept ==
  ASSUME LoopInv, IndInv', lpc = "waiting", WaitExpires, UNCHANGED loopVars
  PROVE  LoopInv'
<1>0. LoopTypeOK /\ CallMatches /\ RingIsOurs /\ Unrecovered
      /\ InStep /\ StartsKeepUp /\ RoomLeft /\ RingFull /\ Newer
  BY DEF LoopInv
<1>1. LoopTypeOK'
  BY <1>0, Typed DEF WaitExpires, driverVars, libraryVars, callVars, loopVars,
    LoopTypeOK, IndInv
<1>2. CallMatches'
  BY <1>0, Typed DEF WaitExpires, driverVars, libraryVars, callVars, loopVars,
    CallMatches, InWait
<1>3. RingIsOurs'
  BY <1>0, Typed DEF WaitExpires, driverVars, libraryVars, callVars, loopVars,
    RingIsOurs, InLoop, CallMatches
<1>4. Unrecovered'
  BY <1>0, Typed DEF WaitExpires, driverVars, libraryVars, callVars, loopVars,
    Unrecovered, CallMatches, InWait
<1>5. InStep'
  BY <1>0, Typed DEF WaitExpires, driverVars, libraryVars, callVars, loopVars,
    InStep, Settled, InLoop, Unrecovered, CallMatches, InWait, RingIsOurs
<1>6. StartsKeepUp'
  BY <1>0, Typed DEF WaitExpires, driverVars, libraryVars, callVars, loopVars,
    StartsKeepUp, InLoop, CallMatches, RingIsOurs, Unrecovered, InWait
<1>7. RoomLeft'
  BY <1>0, Typed DEF WaitExpires, driverVars, libraryVars, callVars, loopVars,
    RoomLeft, CountsKeepUp, Unrecovered, CallMatches, RingIsOurs, InStep, Settled,
    InLoop, InWait
<1>8. RingFull'
  BY <1>0, Typed DEF WaitExpires, driverVars, libraryVars, callVars, loopVars,
    RingFull, CountsKeepUp, Intact
<1>9. Newer'
  BY <1>0, Typed DEF WaitExpires, driverVars, libraryVars, callVars, loopVars,
    Newer, CountsKeepUp, Settled, Exposure
<1> QED BY <1>1, <1>2, <1>3, <1>4, <1>5, <1>6, <1>7, <1>8, <1>9 DEF LoopInv

(* The timeout is counted, and the buffer the DMA was aborted in.          *)
LEMMA WaitDoTimeoutKept ==
  ASSUME LoopInv, IndInv', lpc = "waiting", WaitDoTimeout, UNCHANGED loopVars
  PROVE  LoopInv'
<1>0. LoopTypeOK /\ CallMatches /\ RingIsOurs /\ Unrecovered
      /\ InStep /\ StartsKeepUp /\ RoomLeft /\ RingFull /\ Newer
  BY DEF LoopInv
<1>a. /\ timeouts = last_timeouts /\ timeouts' = timeouts + 1 /\ last_timeouts' = last_timeouts
      /\ lpc = "waiting" /\ lpc' = lpc /\ donecount <= done
      /\ filling' = FALSE
      /\ UNCHANGED <<todo, donecount, configured, numbufs, base, shot, newest>>
  BY <1>0, Typed DEF WaitDoTimeout, DriverTimeout, libraryVars, loopVars, Unrecovered, InStep, Settled, InLoop
<1>b. \/ UNCHANGED <<done, slot>>
      \/ /\ configured /\ done' = done + 1
         /\ slot' = [slot EXCEPT ![done % numbufs] = [num |-> done + 1, shot |-> 0]]
  BY DEF WaitDoTimeout, DriverTimeout
<1>c. CountsKeepUp' => CountsKeepUp /\ TimeoutCounts = {TRUE}
  <2>1. timeouts' # 0
    BY <1>a, Typed
  <2> QED BY <2>1, Zenon DEF CountsKeepUp
<1>d. CountsKeepUp' /\ configured => done' = IF done < todo THEN done + 1 ELSE done
  <2> SUFFICES ASSUME TimeoutCounts = {TRUE}, configured
               PROVE  done' = IF done < todo THEN done + 1 ELSE done
    BY <1>c
  <2> QED BY Typed DEF WaitDoTimeout, DriverTimeout
<1>1. LoopTypeOK'
  BY <1>0, Typed DEF WaitDoTimeout, driverVars, libraryVars, callVars, loopVars,
    DriverTimeout, LoopTypeOK, IndInv
<1>2. CallMatches'
  BY <1>0, Typed DEF WaitDoTimeout, driverVars, libraryVars, callVars, loopVars,
    DriverTimeout, CallMatches, InWait
<1>3. RingIsOurs'
  BY <1>0, Typed DEF WaitDoTimeout, driverVars, libraryVars, callVars, loopVars,
    DriverTimeout, RingIsOurs, InLoop, CallMatches
<1>4. Unrecovered'
  BY <1>0, Typed DEF WaitDoTimeout, driverVars, libraryVars, callVars, loopVars,
    DriverTimeout, Unrecovered, CallMatches, InWait
<1>5. InStep'
  BY <1>0, Typed DEF WaitDoTimeout, driverVars, libraryVars, callVars, loopVars,
    DriverTimeout, InStep, Settled, InLoop, Unrecovered, CallMatches, InWait,
    RingIsOurs
<1>6. StartsKeepUp'
  BY <1>0, Typed DEF WaitDoTimeout, driverVars, libraryVars, callVars, loopVars,
    DriverTimeout, StartsKeepUp, InLoop, CallMatches, RingIsOurs, Unrecovered, InWait
<1>7. RoomLeft'
  <2> SUFFICES ASSUME CountsKeepUp', configured
               PROVE  todo <= donecount + NumBufs /\ todo < done' + NumBufs
    BY <1>a, Typed DEF RoomLeft
  <2>1. todo <= donecount + NumBufs
    BY <1>0, <1>a, <1>c DEF RoomLeft
  <2>2. done' \in Nat
    BY RingFactsAfter
  <2> QED BY <1>a, <1>d, <2>1, <2>2, Typed
<1>8. RingFull'
  <2>1. CASE UNCHANGED <<done, slot>>
    <3>1. CountsKeepUp' /\ configured => ~filling
      BY <1>0, <1>d, <2>1, RingFacts, Typed DEF LoopInv
    <3> QED BY <1>0, <1>a, <1>c, <2>1, <3>1 DEF RingFull, Intact
  <2>2. CASE /\ configured /\ done' = done + 1
             /\ slot' = [slot EXCEPT ![done % numbufs] = [num |-> done + 1, shot |-> 0]]
    <3>1. 0 \in Nat /\ 0 <= shot + 1
      BY Typed
    <3> QED BY <1>a, <2>2, <3>1, Counted DEF RingFull
  <2> QED BY <1>b, <2>1, <2>2
<1>9. Newer'
  <2>1. ~Settled'
    BY <1>a, Typed DEF Settled
  <2>2. \A s \in Slots : slot'[s].shot <= shot
    <3>1. CASE UNCHANGED <<done, slot>>
      BY <1>0, <3>1 DEF Newer
    <3>2. CASE /\ configured /\ done' = done + 1
               /\ slot' = [slot EXCEPT ![done % numbufs] = [num |-> done + 1, shot |-> 0]]
      <4>1. 0 \in Nat /\ 0 <= shot /\ 0 <= shot + 1
        BY Typed
      <4> QED BY <1>0, <1>a, <3>2, <4>1, Counted DEF Newer
    <3> QED BY <1>b, <3>1, <3>2
  <2> QED BY <1>0, <1>a, <2>1, <2>2 DEF Newer
<1> QED BY <1>1, <1>2, <1>3, <1>4, <1>5, <1>6, <1>7, <1>8, <1>9 DEF LoopInv

(* The ring is configured, or it has no memory.                            *)
LEMMA LoopMultibufKept ==
  ASSUME LoopInv, IndInv', LoopMultibuf
  PROVE  LoopInv'
<1>0. LoopTypeOK /\ CallMatches /\ RingIsOurs /\ Unrecovered
      /\ InStep /\ StartsKeepUp /\ RoomLeft /\ RingFull /\ Newer
  BY DEF LoopInv
<1>1. LoopTypeOK'
  BY <1>0, Typed DEF LoopMultibuf, Multibuf, FreshRing, NewRing, driverVars,
    libraryVars, callVars, loopVars, LoopTypeOK, IndInv
<1>2. CallMatches'
  BY <1>0, Typed DEF LoopMultibuf, Multibuf, FreshRing, NewRing, driverVars,
    libraryVars, callVars, loopVars, CallMatches, InWait
<1>3. RingIsOurs'
  BY <1>0, Typed DEF LoopMultibuf, Multibuf, FreshRing, NewRing, driverVars,
    libraryVars, callVars, loopVars, RingIsOurs, InLoop, CallMatches
<1>4. Unrecovered'
  BY <1>0, Typed DEF LoopMultibuf, Multibuf, FreshRing, NewRing, driverVars,
    libraryVars, callVars, loopVars, Unrecovered, CallMatches, InWait
<1>5. InStep'
  BY <1>0, Typed DEF LoopMultibuf, Multibuf, FreshRing, NewRing, driverVars,
    libraryVars, callVars, loopVars, InStep, Settled, InLoop, Unrecovered,
    CallMatches, InWait, RingIsOurs
<1>6. StartsKeepUp'
  BY <1>0, Typed DEF LoopMultibuf, Multibuf, FreshRing, NewRing, driverVars,
    libraryVars, callVars, loopVars, StartsKeepUp, InLoop, CallMatches, RingIsOurs,
    Unrecovered, InWait
<1>7. RoomLeft'
  BY <1>0, Typed DEF LoopMultibuf, Multibuf, FreshRing, NewRing, driverVars,
    libraryVars, callVars, loopVars, RoomLeft, CountsKeepUp, Unrecovered,
    CallMatches, RingIsOurs, InStep, Settled, InLoop, InWait
<1>8. RingFull'
  BY <1>0, Typed DEF LoopMultibuf, Multibuf, FreshRing, NewRing, driverVars,
    libraryVars, callVars, loopVars, RingFull, CountsKeepUp, Intact
<1>9. Newer'
  <2>1. /\ UNCHANGED <<shot, newest>> /\ done' = 0 /\ donecount' = 0 /\ filling' = FALSE
        /\ \A s \in Slots : slot'[s].shot = 0
    BY DEF LoopMultibuf, Multibuf, FreshRing, NewRing, Torn
  <2> QED BY <1>0, <2>1, NewerEmpty, Typed DEF Newer
<1> QED BY <1>1, <1>2, <1>3, <1>4, <1>5, <1>6, <1>7, <1>8, <1>9 DEF LoopInv

(* A ringful of images is started.                                         *)
LEMMA LoopPrestartKept ==
  ASSUME LoopInv, IndInv', LoopPrestart
  PROVE  LoopInv'
<1>0. LoopTypeOK /\ CallMatches /\ RingIsOurs /\ Unrecovered
      /\ InStep /\ StartsKeepUp /\ RoomLeft /\ RingFull /\ Newer
  BY DEF LoopInv
<1>u. /\ started' = Capped(NumBufs) /\ todo' = Capped(NumBufs)
      /\ lpc = "prestart" /\ lpc' = "wait" /\ pc = "idle"
      /\ UNCHANGED <<done, donecount, base, filling, slot, numbufs, configured, shot, timeouts,
                     newest, i, last_timeouts, callVars>>
  BY <1>0, Typed DEF LoopPrestart, StartImages, Capped, RingIsOurs, InLoop
<1>1. LoopTypeOK'
  BY <1>0, Typed DEF LoopPrestart, StartImages, driverVars, libraryVars, callVars,
    loopVars, LoopTypeOK, IndInv
<1>2. CallMatches'
  BY <1>0, Typed DEF LoopPrestart, StartImages, driverVars, libraryVars, callVars,
    loopVars, CallMatches, InWait
<1>3. RingIsOurs'
  BY <1>0, <1>u, Typed DEF RingIsOurs, InLoop, callVars
<1>4. Unrecovered'
  BY <1>0, Typed DEF LoopPrestart, StartImages, driverVars, libraryVars, callVars,
    loopVars, Unrecovered, CallMatches, InWait
<1>5. InStep'
  BY <1>0, Typed DEF LoopPrestart, StartImages, driverVars, libraryVars, callVars,
    loopVars, InStep, Settled, InLoop, Unrecovered, CallMatches, InWait, RingIsOurs
<1>6. StartsKeepUp'
  BY <1>0, <1>u, Typed DEF StartsKeepUp, RingIsOurs, InLoop
<1>7. RoomLeft'
  <2>1. todo' <= donecount' + NumBufs
    BY <1>0, <1>u, Typed DEF RingIsOurs
  <2>2. timeouts = last_timeouts
    BY <1>0, <1>u, Typed DEF Unrecovered
  <2> QED BY <1>u, <2>1, <2>2, Typed DEF RoomLeft
<1>8. RingFull'
  BY <1>0, <1>u, RingFullSame, Typed DEF CountsKeepUp
<1>9. Newer'
  BY <1>0, <1>u, NewerSame, Typed DEF Settled, CountsKeepUp
<1> QED BY <1>1, <1>2, <1>3, <1>4, <1>5, <1>6, <1>7, <1>8, <1>9 DEF LoopInv

(* A wait begins.                                                          *)
LEMMA LoopWaitKept ==
  ASSUME LoopInv, IndInv', LoopWait
  PROVE  LoopInv'
<1>0. LoopTypeOK /\ CallMatches /\ RingIsOurs /\ Unrecovered
      /\ InStep /\ StartsKeepUp /\ RoomLeft /\ RingFull /\ Newer
  BY DEF LoopInv
<1>1. LoopTypeOK'
  BY <1>0, Typed DEF LoopWait, WaitImages, BeginWait, driverVars, libraryVars,
    callVars, loopVars, LoopTypeOK, IndInv
<1>2. CallMatches'
  BY <1>0, Typed DEF LoopWait, WaitImages, BeginWait, driverVars, libraryVars,
    callVars, loopVars, CallMatches, InWait, RingIsOurs, InLoop
<1>3. RingIsOurs'
  BY <1>0, Typed DEF LoopWait, WaitImages, BeginWait, driverVars, libraryVars,
    callVars, loopVars, RingIsOurs, InLoop, CallMatches
<1>4. Unrecovered'
  BY <1>0, Typed DEF LoopWait, WaitImages, BeginWait, driverVars, libraryVars,
    callVars, loopVars, Unrecovered, CallMatches, InWait
<1>5. InStep'
  BY <1>0, Typed DEF LoopWait, WaitImages, BeginWait, driverVars, libraryVars,
    callVars, loopVars, InStep, Settled, InLoop, Unrecovered, CallMatches, InWait,
    RingIsOurs
<1>6. StartsKeepUp'
  BY <1>0, Typed DEF LoopWait, WaitImages, BeginWait, driverVars, libraryVars,
    callVars, loopVars, StartsKeepUp, InLoop, CallMatches, RingIsOurs, Unrecovered,
    InWait
<1>7. RoomLeft'
  BY <1>0, Typed DEF LoopWait, WaitImages, BeginWait, driverVars, libraryVars,
    callVars, loopVars, RoomLeft, CountsKeepUp, Unrecovered, CallMatches, RingIsOurs,
    InStep, Settled, InLoop, InWait
<1>8. RingFull'
  BY <1>0, Typed DEF LoopWait, WaitImages, BeginWait, driverVars, libraryVars,
    callVars, loopVars, RingFull, CountsKeepUp, Intact
<1>9. Newer'
  BY <1>0, Typed DEF LoopWait, WaitImages, BeginWait, driverVars, libraryVars,
    callVars, loopVars, Newer, CountsKeepUp, Settled, Exposure
<1> QED BY <1>1, <1>2, <1>3, <1>4, <1>5, <1>6, <1>7, <1>8, <1>9 DEF LoopInv

(* A wait returns, with an image or without.                               *)
LEMMA LoopReturnKept ==
  ASSUME LoopInv, IndInv', LoopReturn
  PROVE  LoopInv'
<1>0. LoopTypeOK /\ CallMatches /\ RingIsOurs /\ Unrecovered
      /\ InStep /\ StartsKeepUp /\ RoomLeft /\ RingFull /\ Newer
  BY DEF LoopInv
<1>a. /\ lpc = "waiting" /\ lpc' = "start" /\ pc = "return" /\ pc' = "idle"
      /\ donecount' = donecount + 1 /\ ret \in {"OK", "TIMEOUT"}
      /\ UNCHANGED <<done, todo, timeouts, base, filling, slot, numbufs, configured, shot, i,
                     started, last_timeouts, recovering_timeout>>
  BY <1>0 DEF LoopReturn, WaitReturn, driverVars, CallMatches
<1>b. ASSUME ret = "OK"
      PROVE  /\ timeouts = last_timeouts /\ configured /\ donecount + 1 <= done
             /\ SlotOf(donecount + 1, numbufs) \in Slots /\ newest' = Exposure(donecount + 1)
             /\ newest' \in Nat /\ newest' <= shot
  <2>1. donecount + 1 <= done
    BY <1>0, <1>a, <1>b, RingFacts DEF LoopInv, IndInv, CallInOrder, CallMatches
  <2>2. configured
    BY <1>0, <2>1, Typed DEF RingIsOurs
  <2>3. image' = SlotOf(donecount + 1, numbufs)
    BY <1>a, <2>2 DEF LoopReturn, WaitReturn
  <2>4. SlotOf(donecount + 1, numbufs) \in Slots
    <3>1. numbufs \in 1 .. MaxBufs /\ donecount + 1 \in Nat
      BY <2>2, Typed, RingAssumption DEF LoopInv, IndInv, CountersInOrder
    <3> QED BY <3>1, SlotRange
  <2>5. newest' = Exposure(donecount + 1)
    BY <1>b, <2>3 DEF LoopReturn, Exposure
  <2>6. timeouts = last_timeouts
    BY <1>0, <1>a, <1>b, Typed DEF Unrecovered
  <2> QED BY <1>0, <2>1, <2>2, <2>4, <2>5, <2>6, RingFacts DEF LoopInv, Newer, Exposure
<1>c. ASSUME ret = "TIMEOUT" PROVE timeouts > last_timeouts /\ newest' = newest
  BY <1>0, <1>a, <1>c, Typed DEF Unrecovered, LoopReturn
<1>1. LoopTypeOK'
  BY <1>0, <1>a, <1>b, <1>c, Typed DEF LoopTypeOK, IndInv
<1>2. CallMatches'
  BY <1>0, Typed DEF LoopReturn, WaitReturn, driverVars, libraryVars, callVars,
    loopVars, CallMatches, InWait
<1>3. RingIsOurs'
  BY <1>0, Typed DEF LoopReturn, WaitReturn, driverVars, libraryVars, callVars,
    loopVars, RingIsOurs, InLoop, CallMatches
<1>4. Unrecovered'
  BY <1>0, Typed DEF LoopReturn, WaitReturn, driverVars, libraryVars, callVars,
    loopVars, Unrecovered, CallMatches, InWait
<1>5. InStep'
  <2>1. Settled' => ret = "OK"
    BY <1>a, <1>c, Typed DEF Settled
  <2> QED BY <1>a, <1>b, <2>1 DEF InStep
<1>6. StartsKeepUp'
  BY <1>0, Typed DEF LoopReturn, WaitReturn, driverVars, libraryVars, callVars,
    loopVars, StartsKeepUp, InLoop, CallMatches, RingIsOurs, Unrecovered, InWait
<1>7. RoomLeft'
  <2> SUFFICES ASSUME CountsKeepUp', configured
               PROVE  todo < donecount' + NumBufs /\ (timeouts > last_timeouts => todo < done + NumBufs)
    BY <1>a, RingFactsAfter, Typed DEF RoomLeft
  <2>1. CountsKeepUp
    BY <1>a DEF CountsKeepUp
  <2> QED BY <1>0, <1>a, <2>1, Typed DEF RoomLeft
<1>8. RingFull'
  BY <1>0, <1>a, RingFullSame DEF CountsKeepUp
<1>9. Newer'
  <2>1. CASE ret = "TIMEOUT"
    <3>1. ~Settled'
      BY <1>a, <1>c, <2>1, Typed DEF Settled
    <3> QED BY <1>0, <1>a, <1>c, <2>1, <3>1, NewerEmpty DEF Newer
  <2>2. CASE ret = "OK"
    <3>1. Settled /\ (CountsKeepUp' => CountsKeepUp)
      BY <1>a, <1>b, <2>2 DEF Settled, CountsKeepUp
    <3>2. ASSUME CountsKeepUp, NEW k \in Nat, donecount + 1 < k, k <= done
          PROVE  /\ Exposure(donecount + 1) < Exposure(k)
                 /\ \A j \in Nat : donecount + 1 < j /\ j < k => Exposure(j) < Exposure(k)
      <4>1. k \in donecount + 1 .. done /\ donecount + 1 \in donecount + 1 .. k - 1
        BY <3>2, Typed
      <4>2. \A j \in Nat : donecount + 1 < j /\ j < k => j \in donecount + 1 .. k - 1
        BY <3>2, Typed
      <4> QED BY <1>0, <1>b, <2>2, <3>1, <3>2, <4>1, <4>2 DEF Newer
    <3>3. \A k : Exposure(k)' = Exposure(k)
      BY <1>a DEF Exposure
    <3>4. ASSUME CountsKeepUp, NEW k \in donecount' + 1 .. done'
          PROVE  newest' < Exposure(k)' /\ \A j \in donecount' + 1 .. k - 1 : Exposure(j)' < Exposure(k)'
      <4>1. k \in Nat /\ donecount + 1 < k /\ k <= done
        BY <1>a, <3>4, Typed
      <4>2. \A j \in donecount' + 1 .. k - 1 : j \in Nat /\ donecount + 1 < j /\ j < k
        BY <1>a, <4>1, Typed
      <4> QED BY <1>b, <2>2, <3>2, <3>3, <3>4, <4>1, <4>2
    <3> QED BY <1>0, <1>a, <1>b, <2>2, <3>1, <3>4 DEF Newer
  <2> QED BY <1>a, <2>1, <2>2
<1> QED BY <1>1, <1>2, <1>3, <1>4, <1>5, <1>6, <1>7, <1>8, <1>9 DEF LoopInv

(* The next image is started, if there is one.                             *)
LEMMA LoopStartKept ==
  ASSUME LoopInv, IndInv', LoopStart
  PROVE  LoopInv'
<1>0. LoopTypeOK /\ CallMatches /\ RingIsOurs /\ Unrecovered
      /\ InStep /\ StartsKeepUp /\ RoomLeft /\ RingFull /\ Newer
  BY DEF LoopInv
<1>u. /\ lpc = "start" /\ lpc' = "check"
      /\ UNCHANGED <<done, donecount, base, filling, slot, numbufs, configured, shot, timeouts,
                     newest, i, started, last_timeouts, recovering_timeout, curdone, curtodo>>
      /\ todo' = todo \/ todo' = todo + 1
  BY <1>0, Typed DEF LoopStart, StartImages, vars, driverVars, libraryVars, callVars, RingIsOurs, InLoop
<1>1. LoopTypeOK'
  BY <1>0, Typed DEF LoopStart, StartImages, vars, driverVars, libraryVars,
    callVars, loopVars, LoopTypeOK, IndInv
<1>2. CallMatches'
  BY <1>0, Typed DEF LoopStart, StartImages, vars, driverVars, libraryVars,
    callVars, loopVars, CallMatches, InWait
<1>3. RingIsOurs'
  BY <1>0, Typed DEF LoopStart, StartImages, vars, driverVars, libraryVars,
    callVars, loopVars, RingIsOurs, InLoop, CallMatches
<1>4. Unrecovered'
  BY <1>0, Typed DEF LoopStart, StartImages, vars, driverVars, libraryVars,
    callVars, loopVars, Unrecovered, CallMatches, InWait
<1>5. InStep'
  BY <1>0, Typed DEF LoopStart, StartImages, vars, driverVars, libraryVars,
    callVars, loopVars, InStep, Settled, InLoop, Unrecovered, CallMatches, InWait,
    RingIsOurs
<1>6. StartsKeepUp'
  BY <1>0, Typed DEF LoopStart, StartImages, vars, driverVars, libraryVars,
    callVars, loopVars, StartsKeepUp, InLoop, CallMatches, RingIsOurs, Unrecovered,
    InWait
<1>7. RoomLeft'
  <2> SUFFICES ASSUME CountsKeepUp', configured
               PROVE  todo' <= donecount + NumBufs /\ (timeouts > last_timeouts => todo' <= done + NumBufs)
    BY <1>u, Typed DEF RoomLeft
  <2>1. CountsKeepUp
    BY <1>u DEF CountsKeepUp
  <2>2. todo < donecount + NumBufs /\ (timeouts > last_timeouts => todo < done + NumBufs)
    BY <1>0, <1>u, <2>1 DEF RoomLeft
  <2> QED BY <1>u, <2>2, Typed
<1>8. RingFull'
  BY <1>0, <1>u, RingFullSame, Typed DEF CountsKeepUp
<1>9. Newer'
  BY <1>0, <1>u, NewerSame, Typed DEF Settled, CountsKeepUp
<1> QED BY <1>1, <1>2, <1>3, <1>4, <1>5, <1>6, <1>7, <1>8, <1>9 DEF LoopInv

(* The timeouts are looked at.                                             *)
LEMMA LoopCheckKept ==
  ASSUME LoopInv, IndInv', LoopCheck
  PROVE  LoopInv'
<1>0. LoopTypeOK /\ CallMatches /\ RingIsOurs /\ Unrecovered
      /\ InStep /\ StartsKeepUp /\ RoomLeft /\ RingFull /\ Newer
  BY DEF LoopInv
<1>u. /\ lpc = "check" /\ timeouts' = last_timeouts'
      /\ UNCHANGED <<done, todo, donecount, base, filling, slot, numbufs, configured, shot, timeouts,
                     newest, i, started>>
      /\ \/ lpc' = "restart" /\ curdone' = done /\ curtodo' = todo
         \/ lpc' = "save" /\ timeouts = last_timeouts
  BY <1>0, Typed DEF LoopCheck, RestartRead, ReadCounts, vars, driverVars, libraryVars, callVars
<1>1. LoopTypeOK'
  BY <1>0, Typed DEF LoopCheck, RestartRead, ReadCounts, vars, driverVars,
    libraryVars, callVars, loopVars, LoopTypeOK, IndInv
<1>2. CallMatches'
  BY <1>0, Typed DEF LoopCheck, RestartRead, ReadCounts, vars, driverVars,
    libraryVars, callVars, loopVars, CallMatches, InWait
<1>3. RingIsOurs'
  BY <1>0, Typed DEF LoopCheck, RestartRead, ReadCounts, vars, driverVars,
    libraryVars, callVars, loopVars, RingIsOurs, InLoop, CallMatches
<1>4. Unrecovered'
  BY <1>0, Typed DEF LoopCheck, RestartRead, ReadCounts, vars, driverVars,
    libraryVars, callVars, loopVars, Unrecovered, CallMatches, InWait
<1>5. InStep'
  BY <1>0, Typed DEF LoopCheck, RestartRead, ReadCounts, vars, driverVars,
    libraryVars, callVars, loopVars, InStep, Settled, InLoop, Unrecovered,
    CallMatches, InWait, RingIsOurs
<1>6. StartsKeepUp'
  BY <1>0, Typed DEF LoopCheck, RestartRead, ReadCounts, vars, driverVars,
    libraryVars, callVars, loopVars, StartsKeepUp, InLoop, CallMatches, RingIsOurs,
    Unrecovered, InWait
<1>7. RoomLeft'
  <2> SUFFICES ASSUME CountsKeepUp', configured
               PROVE  todo <= donecount + NumBufs /\ todo <= done + NumBufs
    BY <1>u, Typed DEF RoomLeft
  <2>1. CountsKeepUp
    BY <1>u DEF CountsKeepUp
  <2>2. todo <= donecount + NumBufs /\ (timeouts > last_timeouts => todo <= done + NumBufs)
    BY <1>0, <1>u, <2>1 DEF RoomLeft
  <2>3. timeouts > last_timeouts \/ donecount <= done
    BY <1>0, <1>u, Typed DEF InStep, Settled, InLoop, Unrecovered
  <2> QED BY <2>2, <2>3, Typed
<1>8. RingFull'
  BY <1>0, <1>u, RingFullSame, Typed DEF CountsKeepUp
<1>9. Newer'
  BY <1>0, <1>u, NewerSame, Typed DEF Settled, CountsKeepUp
<1> QED BY <1>1, <1>2, <1>3, <1>4, <1>5, <1>6, <1>7, <1>8, <1>9 DEF LoopInv

(* The loop recovers: the library's count is the driver's.                 *)
LEMMA LoopRestartKept ==
  ASSUME LoopInv, IndInv', LoopRestart
  PROVE  LoopInv'
<1>0. LoopTypeOK /\ CallMatches /\ RingIsOurs /\ Unrecovered
      /\ InStep /\ StartsKeepUp /\ RoomLeft /\ RingFull /\ Newer
  BY DEF LoopInv
<1>u. /\ lpc = "restart" /\ lpc' = "save" /\ pc = "restart"
      /\ done' = curdone /\ donecount' = curdone /\ filling' = FALSE
      /\ UNCHANGED <<slot, numbufs, configured, shot, timeouts, newest, i, started, last_timeouts>>
  BY DEF LoopRestart, RestartAct, SetBuffer
<1>1. LoopTypeOK'
  BY <1>0, Typed DEF LoopRestart, RestartAct, SetBuffer, driverVars, libraryVars,
    callVars, loopVars, LoopTypeOK, IndInv
<1>2. CallMatches'
  BY <1>0, Typed DEF LoopRestart, RestartAct, SetBuffer, driverVars, libraryVars,
    callVars, loopVars, CallMatches, InWait
<1>3. RingIsOurs'
  BY <1>0, Typed DEF LoopRestart, RestartAct, SetBuffer, driverVars, libraryVars,
    callVars, loopVars, RingIsOurs, InLoop, CallMatches
<1>4. Unrecovered'
  BY <1>0, Typed DEF LoopRestart, RestartAct, SetBuffer, driverVars, libraryVars,
    callVars, loopVars, Unrecovered, CallMatches, InWait
<1>5. InStep'
  BY <1>0, Typed DEF LoopRestart, RestartAct, SetBuffer, driverVars, libraryVars,
    callVars, loopVars, InStep, Settled, InLoop, Unrecovered, CallMatches, InWait,
    RingIsOurs
<1>6. StartsKeepUp'
  BY <1>0, Typed DEF LoopRestart, RestartAct, SetBuffer, driverVars, libraryVars,
    callVars, loopVars, StartsKeepUp, InLoop, CallMatches, RingIsOurs, Unrecovered,
    InWait
<1>7. RoomLeft'
  <2> SUFFICES ASSUME CountsKeepUp', configured
               PROVE  todo' <= curdone + NumBufs
    BY <1>0, <1>u, Typed DEF RoomLeft, Unrecovered
  <2>1. CountsKeepUp
    BY <1>u DEF CountsKeepUp
  <2>2. curtodo <= curdone + NumBufs /\ curdone <= curtodo
    BY <1>0, <1>u, <2>1 DEF RoomLeft, LoopInv, IndInv, CallInOrder, InRecover
  <2>3. PICK left \in Nat : left = curtodo - curdone /\ left <= NumBufs
    BY <2>2, Typed
  <2>4. todo' = curdone + IF left # 0 THEN Capped(left) ELSE 0
    BY <2>3 DEF LoopRestart, RestartAct, SetBuffer
  <2>5. left # 0 => Capped(left) \in Nat /\ Capped(left) <= left
    BY <2>3 DEF Capped
  <2> QED BY <2>3, <2>4, <2>5, Typed
<1>8. RingFull'
  BY <1>0, Typed DEF LoopRestart, RestartAct, SetBuffer, driverVars, libraryVars,
    callVars, loopVars, RingFull, CountsKeepUp, Intact
<1>9. Newer'
  <2>1. done' <= donecount'
    BY <1>u, Typed
  <2> QED BY <1>0, <1>u, <2>1, NewerEmpty DEF Newer
<1> QED BY <1>1, <1>2, <1>3, <1>4, <1>5, <1>6, <1>7, <1>8, <1>9 DEF LoopInv

(* A frame begins.                                                         *)
LEMMA FrameStartKept ==
  ASSUME LoopInv, IndInv', FrameStart, UNCHANGED loopVars
  PROVE  LoopInv'
<1>0. LoopTypeOK /\ CallMatches /\ RingIsOurs /\ Unrecovered
      /\ InStep /\ StartsKeepUp /\ RoomLeft /\ RingFull /\ Newer
  BY DEF LoopInv
<1>1. LoopTypeOK'
  BY <1>0, Typed DEF FrameStart, driverVars, libraryVars, callVars, loopVars,
    LoopTypeOK, IndInv
<1>2. CallMatches'
  BY <1>0, Typed DEF FrameStart, driverVars, libraryVars, callVars, loopVars,
    CallMatches, InWait
<1>3. RingIsOurs'
  BY <1>0, Typed DEF FrameStart, driverVars, libraryVars, callVars, loopVars,
    RingIsOurs, InLoop, CallMatches
<1>4. Unrecovered'
  BY <1>0, Typed DEF FrameStart, driverVars, libraryVars, callVars, loopVars,
    Unrecovered, CallMatches, InWait
<1>5. InStep'
  BY <1>0, Typed DEF FrameStart, driverVars, libraryVars, callVars, loopVars,
    InStep, Settled, InLoop, Unrecovered, CallMatches, InWait, RingIsOurs
<1>6. StartsKeepUp'
  BY <1>0, Typed DEF FrameStart, driverVars, libraryVars, callVars, loopVars,
    StartsKeepUp, InLoop, CallMatches, RingIsOurs, Unrecovered, InWait
<1>7. RoomLeft'
  BY <1>0, Typed DEF FrameStart, driverVars, libraryVars, callVars, loopVars,
    RoomLeft, CountsKeepUp, Unrecovered, CallMatches, RingIsOurs, InStep, Settled,
    InLoop, InWait
<1>8. RingFull'
  BY <1>0, Typed DEF FrameStart, driverVars, libraryVars, callVars, loopVars,
    RingFull, CountsKeepUp, Intact
<1>9. Newer'
  <2>1. /\ configured /\ done < todo /\ shot < MaxShots
        /\ UNCHANGED <<done, donecount, numbufs, configured, shot, newest, timeouts, last_timeouts, lpc>>
        /\ slot' = [slot EXCEPT ![done % numbufs] = Torn]
    BY DEF FrameStart, libraryVars, loopVars
  <2>2. numbufs = NumBufs /\ lpc # "prestart"
    BY <1>0, <2>1, Typed DEF RingIsOurs, LoopTypeOK, InLoop
  <2>3. done % numbufs \in Slots
    BY <2>2, NextSlot, Typed
  <2>4. \A s \in Slots : slot'[s] = slot[s] \/ slot'[s].shot = 0
    BY <2>1, <2>3, RingFacts DEF Torn, LoopInv
  <2>5. ASSUME CountsKeepUp, NEW k \in Nat, donecount < k, k <= done PROVE Exposure(k)' = Exposure(k)
    <3>1. 0 < k /\ done + 1 < k + NumBufs
      BY <1>0, <2>1, <2>2, <2>5, Typed DEF RoomLeft
    <3>2. SlotOf(k, numbufs) \in Slots /\ SlotOf(k, numbufs) # done % numbufs
      BY <2>2, <2>5, <3>1, NextSlot, Typed
    <3> QED BY <2>1, <3>2, RingFacts DEF Exposure, LoopInv
  <2>6. (CountsKeepUp' <=> CountsKeepUp) /\ (Settled' <=> Settled)
    BY <2>1 DEF CountsKeepUp, Settled
  <2>7. ASSUME CountsKeepUp, Settled, NEW k \in donecount + 1 .. done
        PROVE  newest < Exposure(k)' /\ \A j \in donecount + 1 .. k - 1 : Exposure(j)' < Exposure(k)'
    <3>1. k \in Nat /\ donecount < k /\ k <= done
          /\ \A j \in donecount + 1 .. k - 1 : j \in Nat /\ donecount < j /\ j <= done
      BY <2>7, Typed
    <3> QED BY <1>0, <2>1, <2>5, <2>7, <3>1 DEF Newer
  <2>8. \A s \in Slots : slot'[s].shot <= shot
    BY <1>0, <2>4, Typed DEF Newer
  <2> QED BY <1>0, <2>1, <2>6, <2>7, <2>8 DEF Newer
<1> QED BY <1>1, <1>2, <1>3, <1>4, <1>5, <1>6, <1>7, <1>8, <1>9 DEF LoopInv

(* A frame is complete.                                                    *)
LEMMA FrameDoneKept ==
  ASSUME LoopInv, IndInv', FrameDone, UNCHANGED loopVars
  PROVE  LoopInv'
<1>0. LoopTypeOK /\ CallMatches /\ RingIsOurs /\ Unrecovered
      /\ InStep /\ StartsKeepUp /\ RoomLeft /\ RingFull /\ Newer
  BY DEF LoopInv
<1>u. /\ configured /\ filling /\ done < todo /\ done' = done + 1 /\ filling' = FALSE /\ shot' = shot + 1
      /\ slot' = [slot EXCEPT ![done % numbufs] = [num |-> done + 1, shot |-> shot + 1]]
      /\ UNCHANGED <<todo, donecount, base, numbufs, configured, newest, timeouts, last_timeouts, lpc,
                     curdone, curtodo>>
  BY RingFacts DEF FrameDone, libraryVars, loopVars, LoopInv
<1>v. numbufs = NumBufs /\ lpc \notin {"multibuf", "prestart", "done"}
  BY <1>0, <1>u, Typed DEF RingIsOurs, LoopTypeOK, InLoop
<1>w. shot + 1 \in Nat /\ shot + 1 <= shot + 1
  BY Typed
<1>1. LoopTypeOK'
  BY <1>0, Typed DEF FrameDone, SetEvent, driverVars, libraryVars, callVars,
    loopVars, LoopTypeOK, IndInv
<1>2. CallMatches'
  BY <1>0, Typed DEF FrameDone, SetEvent, driverVars, libraryVars, callVars,
    loopVars, CallMatches, InWait
<1>3. RingIsOurs'
  BY <1>0, <1>u, <1>v, Typed DEF RingIsOurs, FrameDone, SetEvent, loopVars, InLoop
<1>4. Unrecovered'
  BY <1>0, Typed DEF FrameDone, SetEvent, driverVars, libraryVars, callVars,
    loopVars, Unrecovered, CallMatches, InWait
<1>5. InStep'
  BY <1>0, Typed DEF FrameDone, SetEvent, driverVars, libraryVars, callVars,
    loopVars, InStep, Settled, InLoop, Unrecovered, CallMatches, InWait, RingIsOurs
<1>6. StartsKeepUp'
  BY <1>0, Typed DEF FrameDone, SetEvent, driverVars, libraryVars, callVars,
    loopVars, StartsKeepUp, InLoop, CallMatches, RingIsOurs, Unrecovered, InWait
<1>7. RoomLeft'
  <2> SUFFICES ASSUME CountsKeepUp, configured PROVE RoomLeft'
    BY <1>u DEF RoomLeft, CountsKeepUp
  <2> QED BY <1>0, <1>u, <1>v, RingFactsAfter, Typed DEF RoomLeft
<1>8. RingFull'
  BY <1>u, <1>w, Counted DEF RingFull
<1>9. Newer'
  <2>1. \A s \in Slots : slot'[s].shot <= shot + 1
    BY <1>0, <1>u, <1>w, Counted, RingFacts DEF Newer, LoopInv
  <2>2. (CountsKeepUp' <=> CountsKeepUp) /\ (Settled' <=> Settled)
    BY <1>u DEF CountsKeepUp, Settled
  <2>3. ASSUME CountsKeepUp, NEW k \in Nat, donecount < k, k <= done PROVE Exposure(k)' = Exposure(k)
    <3>1. 0 < k /\ done + 1 < k + numbufs
      BY <1>0, <1>u, <1>v, <2>3, Typed DEF RoomLeft
    <3> QED BY <1>u, <1>w, <2>3, <3>1, Counted
  <2>4. ASSUME NEW k \in Nat, 0 < k, k <= done PROVE Exposure(k) < shot + 1 /\ Exposure(k) \in Nat
    <3>1. SlotOf(k, numbufs) \in Slots
      BY <1>v, SlotRange, Typed
    <3>2. slot[SlotOf(k, numbufs)].shot \in Nat /\ slot[SlotOf(k, numbufs)].shot <= shot
      BY <1>0, <3>1, RingFacts DEF Newer, LoopInv
    <3> QED BY <3>2, Typed DEF Exposure
  <2>5. ASSUME CountsKeepUp, Settled, NEW k \in donecount + 1 .. done'
        PROVE  newest < Exposure(k)' /\ \A j \in donecount + 1 .. k - 1 : Exposure(j)' < Exposure(k)'
    <3>1. k \in Nat /\ donecount < k /\ k <= done + 1
          /\ \A j \in donecount + 1 .. k - 1 : j \in Nat /\ donecount < j /\ j <= done /\ 0 < j
      BY <1>u, <2>5, Typed
    <3>2. CASE k = done + 1
      <4>1. Exposure(k)' = shot + 1
        BY <1>u, <1>w, <3>1, <3>2, Counted
      <4>2. newest < shot + 1
        BY <1>0, Typed DEF Newer
      <4> QED BY <2>3, <2>4, <2>5, <3>1, <4>1, <4>2
    <3>3. CASE k # done + 1
      <4>1. k \in donecount + 1 .. done /\ k <= done
        BY <3>1, <3>3, Typed
      <4> QED BY <1>0, <1>u, <2>3, <2>5, <3>1, <4>1 DEF Newer
    <3> QED BY <3>2, <3>3
  <2>6. newest <= shot + 1 /\ shot + 1 <= MaxShots
    BY <1>0, <1>u, Typed DEF Newer
  <2> QED BY <1>u, <2>1, <2>2, <2>5, <2>6 DEF Newer
<1> QED BY <1>1, <1>2, <1>3, <1>4, <1>5, <1>6, <1>7, <1>8, <1>9 DEF LoopInv

(* The image is saved.                                                     *)
LEMMA LoopSaveKept ==
  ASSUME LoopInv, IndInv', LoopSave
  PROVE  LoopInv'
<1>0. LoopTypeOK /\ CallMatches /\ RingIsOurs /\ Unrecovered
      /\ InStep /\ StartsKeepUp /\ RoomLeft /\ RingFull /\ Newer
  BY DEF LoopInv
<1>1. LoopTypeOK'
  <2>1. i + 1 \in 0 .. Loops
    BY <1>0, Typed DEF LoopSave, RingIsOurs, InLoop
  <2> QED BY <1>0, <2>1, Typed DEF LoopSave, LoopTypeOK, IndInv
<1>2. CallMatches'
  BY <1>0, Typed DEF LoopSave, vars, driverVars, libraryVars, callVars, loopVars,
    CallMatches, InWait
<1>3. RingIsOurs'
  BY <1>0, Typed DEF LoopSave, vars, driverVars, libraryVars, callVars, loopVars,
    RingIsOurs, InLoop, CallMatches
<1>4. Unrecovered'
  BY <1>0, Typed DEF LoopSave, vars, driverVars, libraryVars, callVars, loopVars,
    Unrecovered, CallMatches, InWait
<1>5. InStep'
  BY <1>0, Typed DEF LoopSave, vars, driverVars, libraryVars, callVars, loopVars,
    InStep, Settled, InLoop, Unrecovered, CallMatches, InWait, RingIsOurs
<1>6. StartsKeepUp'
  BY <1>0, Typed DEF LoopSave, vars, driverVars, libraryVars, callVars, loopVars,
    StartsKeepUp, InLoop, CallMatches, RingIsOurs, Unrecovered, InWait
<1>7. RoomLeft'
  BY <1>0, Typed DEF LoopSave, vars, driverVars, libraryVars, callVars, loopVars,
    RoomLeft, CountsKeepUp, Unrecovered, CallMatches, RingIsOurs, InStep, Settled,
    InLoop, InWait
<1>8. RingFull'
  BY <1>0, Typed DEF LoopSave, vars, driverVars, libraryVars, callVars, loopVars,
    RingFull, CountsKeepUp, Intact
<1>9. Newer'
  BY <1>0, Typed DEF LoopSave, vars, driverVars, libraryVars, callVars, loopVars,
    Newer, CountsKeepUp, Settled, Exposure
<1> QED BY <1>1, <1>2, <1>3, <1>4, <1>5, <1>6, <1>7, <1>8, <1>9 DEF LoopInv

(* The ring is given back.                                                 *)
LEMMA LoopCloseKept ==
  ASSUME LoopInv, IndInv', LoopClose
  PROVE  LoopInv'
<1>0. LoopTypeOK /\ CallMatches /\ RingIsOurs /\ Unrecovered
      /\ InStep /\ StartsKeepUp /\ RoomLeft /\ RingFull /\ Newer
  BY DEF LoopInv
<1>1. LoopTypeOK'
  BY <1>0, Typed DEF LoopClose, DisableRingBuffers, NewRing, driverVars,
    libraryVars, callVars, loopVars, LoopTypeOK, IndInv
<1>2. CallMatches'
  BY <1>0, Typed DEF LoopClose, DisableRingBuffers, NewRing, driverVars,
    libraryVars, callVars, loopVars, CallMatches, InWait
<1>3. RingIsOurs'
  BY <1>0, Typed DEF LoopClose, DisableRingBuffers, NewRing, driverVars,
    libraryVars, callVars, loopVars, RingIsOurs, InLoop, CallMatches
<1>4. Unrecovered'
  BY <1>0, Typed DEF LoopClose, DisableRingBuffers, NewRing, driverVars,
    libraryVars, callVars, loopVars, Unrecovered, CallMatches, InWait
<1>5. InStep'
  BY <1>0, Typed DEF LoopClose, DisableRingBuffers, NewRing, driverVars,
    libraryVars, callVars, loopVars, InStep, Settled, InLoop, Unrecovered,
    CallMatches, InWait, RingIsOurs
<1>6. StartsKeepUp'
  BY <1>0, Typed DEF LoopClose, DisableRingBuffers, NewRing, driverVars,
    libraryVars, callVars, loopVars, StartsKeepUp, InLoop, CallMatches, RingIsOurs,
    Unrecovered, InWait
<1>7. RoomLeft'
  BY <1>0, Typed DEF LoopClose, DisableRingBuffers, NewRing, driverVars,
    libraryVars, callVars, loopVars, RoomLeft, CountsKeepUp, Unrecovered,
    CallMatches, RingIsOurs, InStep, Settled, InLoop, InWait
<1>8. RingFull'
  BY <1>0, Typed DEF LoopClose, DisableRingBuffers, NewRing, driverVars,
    libraryVars, callVars, loopVars, RingFull, CountsKeepUp, Intact
<1>9. Newer'
  <2>1. /\ UNCHANGED <<shot, newest>> /\ ~configured' /\ filling' = FALSE
        /\ \A s \in Slots : slot'[s].shot = 0
    BY DEF LoopClose, DisableRingBuffers, NewRing, Torn
  <2> QED BY <1>0, <2>1, NewerEmpty, Typed DEF Newer
<1> QED BY <1>1, <1>2, <1>3, <1>4, <1>5, <1>6, <1>7, <1>8, <1>9 DEF LoopInv

(* Nothing happens.                                                        *)
LEMMA StutterKept ==
  ASSUME LoopInv, IndInv', UNCHANGED tvars
  PROVE  LoopInv'
<1>0. LoopTypeOK /\ CallMatches /\ RingIsOurs /\ Unrecovered
      /\ InStep /\ StartsKeepUp /\ RoomLeft /\ RingFull /\ Newer
  BY DEF LoopInv
<1>1. LoopTypeOK'
  BY <1>0, Typed DEF tvars, vars, driverVars, libraryVars, callVars, loopVars,
    LoopTypeOK, IndInv
<1>2. CallMatches'
  BY <1>0, Typed DEF tvars, vars, driverVars, libraryVars, callVars, loopVars,
    CallMatches, InWait
<1>3. RingIsOurs'
  BY <1>0, Typed DEF tvars, vars, driverVars, libraryVars, callVars, loopVars,
    RingIsOurs, InLoop, CallMatches
<1>4. Unrecovered'
  BY <1>0, Typed DEF tvars, vars, driverVars, libraryVars, callVars, loopVars,
    Unrecovered, CallMatches, InWait
<1>5. InStep'
  BY <1>0, Typed DEF tvars, vars, driverVars, libraryVars, callVars, loopVars,
    InStep, Settled, InLoop, Unrecovered, CallMatches, InWait, RingIsOurs
<1>6. StartsKeepUp'
  BY <1>0, Typed DEF tvars, vars, driverVars, libraryVars, callVars, loopVars,
    StartsKeepUp, InLoop, CallMatches, RingIsOurs, Unrecovered, InWait
<1>7. RoomLeft'
  BY <1>0, Typed DEF tvars, vars, driverVars, libraryVars, callVars, loopVars,
    RoomLeft, CountsKeepUp, Unrecovered, CallMatches, RingIsOurs, InStep, Settled,
    InLoop, InWait
<1>8. RingFull'
  BY <1>0, Typed DEF tvars, vars, driverVars, libraryVars, callVars, loopVars,
    RingFull, CountsKeepUp, Intact
<1>9. Newer'
  BY <1>0, Typed DEF tvars, vars, driverVars, libraryVars, callVars, loopVars,
    Newer, CountsKeepUp, Settled, Exposure
<1> QED BY <1>1, <1>2, <1>3, <1>4, <1>5, <1>6, <1>7, <1>8, <1>9 DEF LoopInv

(* The invariant holds when the program starts.                            *)
LEMMA LoopInitInv ==
  ASSUME LoopInit
  PROVE  LoopInv
<1>1. IndInv
  BY InitInv DEF LoopInit
<1>2. /\ lpc = "multibuf" /\ pc = "idle" /\ numbufs = 0 /\ ~configured /\ ~filling
      /\ i = 0 /\ started = 0 /\ last_timeouts = 0 /\ recovering_timeout = FALSE /\ newest = 0
      /\ done = 0 /\ todo = 0 /\ donecount = 0 /\ timeouts = 0 /\ shot = 0 /\ tmpcnt = 0
      /\ timeout_ok = FALSE /\ wpc = "idle" /\ last_wait_ret = "OK" /\ ret = "OK"
      /\ \A s \in Slots : slot[s].shot = 0
  BY DEF LoopInit, Init, Torn
<1>3. MaxShots \in Nat /\ Loops \in Nat /\ NumBufs \in Nat
  BY RingAssumption, LoopAssumption
<1>4. LoopTypeOK
  <2>1. TypeOK
    BY <1>1 DEF IndInv
  <2>2. /\ lpc \in {"multibuf", "prestart", "wait", "waiting", "start", "check",
                    "restart", "save", "close", "done"}
        /\ recovering_timeout \in BOOLEAN
    BY <1>2
  <2> QED BY <1>2, <1>3, <2>1, <2>2 DEF LoopTypeOK
<1>5. CallMatches /\ RingIsOurs /\ Unrecovered
  BY <1>2 DEF CallMatches, RingIsOurs, Unrecovered, InWait, InLoop
<1>6. InStep /\ StartsKeepUp /\ RoomLeft /\ RingFull
  BY <1>2 DEF InStep, StartsKeepUp, RoomLeft, RingFull, InLoop
<1>7. Newer
  BY <1>2, <1>3 DEF Newer
<1> QED BY <1>1, <1>4, <1>5, <1>6, <1>7 DEF LoopInv

(* Every step keeps it.                                                    *)
LEMMA LoopStepInv ==
  ASSUME LoopInv, [LoopNext]_tvars
  PROVE  LoopInv'
<1>1. IndInv'
  BY StepOfRing, StepInv DEF LoopInv
<1>2. CASE LoopMultibuf \/ LoopPrestart \/ LoopWait
  BY <1>1, <1>2, LoopMultibufKept, LoopPrestartKept, LoopWaitKept
<1>3. CASE LoopWaiting
  BY <1>1, <1>3, WaitCheckKept, WaitEnterKept, WaitWokenKept, WaitExpiresKept, WaitDoTimeoutKept
  DEF LoopWaiting
<1>4. CASE LoopReturn \/ LoopStart \/ LoopCheck
  BY <1>1, <1>4, LoopReturnKept, LoopStartKept, LoopCheckKept
<1>5. CASE LoopRestart \/ LoopSave \/ LoopClose
  BY <1>1, <1>5, LoopRestartKept, LoopSaveKept, LoopCloseKept
<1>6. CASE Driver /\ UNCHANGED loopVars
  BY <1>1, <1>6, FrameStartKept, FrameDoneKept DEF Driver
<1>7. CASE UNCHANGED tvars
  BY <1>1, <1>7, StutterKept
<1> QED BY <1>2, <1>3, <1>4, <1>5, <1>6, <1>7 DEF LoopNext, LoopStep

(* The invariant of the loop and of the ring under it.                     *)
THEOREM LoopInvariance == LoopSpec => []LoopInv
<1>1. LoopInit => LoopInv
  BY LoopInitInv
<1>2. LoopInv /\ [LoopNext]_tvars => LoopInv'
  BY LoopStepInv
<1> QED BY <1>1, <1>2, PTL DEF LoopSpec

(* What the loop does with the ring is a use that EdtRing allows: all its  *)
(* theorems hold of the loop.                                              *)
THEOREM LoopUsesRing == LoopSpec => Spec
<1>1. LoopInit => Init
  BY DEF LoopInit
<1>2. LoopInv /\ [LoopNext]_tvars => [Next]_vars
  BY StepOfRing
<1> QED BY <1>1, <1>2, LoopInvariance, PTL DEF LoopSpec, Spec

(* Starting one image per image waited for never lets the DMA reach a slot *)
(* whose image was not waited for.                                         *)
THEOREM UnwaitedStays == LoopSpec => []UnwaitedIntact
<1>1. LoopInv => UnwaitedIntact
  <2> SUFFICES ASSUME LoopInv, configured, CountsKeepUp, NEW k \in donecount + 1 .. done
               PROVE  Intact(k)
    BY DEF UnwaitedIntact
  <2>1. RingHolds /\ RingFull /\ RoomLeft
    BY RingFacts DEF LoopInv, IndInv
  <2>2. lpc # "prestart" /\ numbufs = NumBufs
    <3>1. RingIsOurs /\ LoopTypeOK
      BY DEF LoopInv
    <3>2. done \in Nat /\ donecount \in Nat
      BY Typed
    <3> QED BY <3>1, <3>2 DEF RingIsOurs, LoopTypeOK, InLoop
  <2>3. k \in base + 1 .. done /\ done < k + numbufs
    BY <2>1, <2>2, RingFacts, Typed DEF RoomLeft, LoopInv
  <2>4. CASE filling
    <3>1. done + 1 < k + numbufs
      BY <2>1, <2>2, <2>4, RingFacts, Typed DEF RoomLeft, LoopInv
    <3> QED BY <2>1, <2>3, <3>1 DEF RingHolds
  <2>5. CASE ~filling
    BY <2>1, <2>3, <2>5 DEF RingFull
  <2> QED BY <2>4, <2>5
<1> QED BY <1>1, LoopInvariance, PTL

(* Every wait begins with the two counters reconciled.                     *)
THEOREM WaitsInStep == LoopSpec => []SyncedBeforeWait
<1>1. LoopInv => SyncedBeforeWait
  <2> SUFFICES ASSUME LoopInv, lpc = "wait" PROVE donecount <= done /\ timeouts = last_timeouts
    BY DEF SyncedBeforeWait
  <2>1. pc # "return"
    BY DEF LoopInv, CallMatches, InWait
  <2>2. timeouts = last_timeouts
    BY <2>1, Typed DEF LoopInv, Unrecovered
  <2> QED BY <2>2 DEF LoopInv, InStep, Settled, InLoop
<1> QED BY <1>1, LoopInvariance, PTL

(* As long as no timeout was counted, the loop never waits for an image it *)
(* has not started.                                                        *)
THEOREM NotStarved == LoopSpec => []StarvedOnlyAfterTimeout
<1>1. LoopInv => StarvedOnlyAfterTimeout
  <2> SUFFICES ASSUME LoopInv, pc = "blocked", todo < tmpcnt PROVE last_timeouts > 0
    BY DEF StarvedOnlyAfterTimeout
  <2>1. lpc = "waiting" /\ tmpcnt = donecount + 1 /\ timeouts = last_timeouts
    <3>1. lpc = "waiting" /\ tmpcnt = donecount + 1
      BY DEF LoopInv, CallMatches, InWait
    <3> QED BY <3>1, Typed DEF LoopInv, Unrecovered
  <2>2. i < Loops /\ started > 0
    BY <2>1, Typed DEF LoopInv, RingIsOurs, InLoop
  <2>3. ASSUME timeouts = 0 PROVE FALSE
    <3>1. donecount = i /\ (todo >= Loops \/ todo >= started + i)
      BY <2>1, <2>3 DEF LoopInv, StartsKeepUp, InLoop
    <3> QED BY <2>1, <2>2, <3>1, Typed
  <2> QED BY <2>1, <2>3, Typed
<1> QED BY <1>1, LoopInvariance, PTL

-----------------------------------------------------------------------------
(* The loop is a FrameStream, as far as safety goes.                       *)

(* At first nothing is handed over.                                        *)
LEMMA StreamInitially ==
  ASSUME LoopInit
  PROVE  Stream!StreamInit
BY DEF LoopInit, Init, Stream!StreamInit

(* A wait that returns hands over one image: a newer one, or one that a    *)
(* timeout accounts for.                                                   *)
LEMMA ReturnHandsOver ==
  ASSUME LoopInv, TimeoutCounts = {TRUE}, LoopReturn
  PROVE  Stream!StreamNext
<1>1. /\ lpc = "waiting" /\ lpc' = "start" /\ pc = "return" /\ pc' = "idle"
      /\ i' = i /\ i < Loops /\ timeouts' = timeouts /\ ret \in {"OK", "TIMEOUT"}
  BY DEF LoopReturn, WaitReturn, driverVars, LoopInv, CallMatches, RingIsOurs, InLoop
<1>2. CASE ret = "TIMEOUT"
  <2>1. newest' = newest
    BY <1>2 DEF LoopReturn
  <2> QED BY <1>1, <1>2, <2>1, Typed DEF Stream!StreamNext, Stream!Lose
<1>3. CASE ret = "OK"
  <2>1. newest' \in newest + 1 .. MaxShots
    <3>1. donecount + 1 <= done /\ timeouts = last_timeouts
      <4>1. tmpcnt = donecount + 1 /\ tmpcnt <= done
        BY <1>1, <1>3 DEF LoopInv, IndInv, CallInOrder, CallMatches
      <4>2. timeouts = last_timeouts
        BY <1>1, <1>3, Typed DEF LoopInv, Unrecovered
      <4> QED BY <4>1, <4>2
    <3>2. configured
      BY <3>1, Typed DEF LoopInv, RingIsOurs
    <3>3. donecount + 1 \in donecount + 1 .. done
      BY <3>1, Typed
    <3>4. newest < Exposure(donecount + 1)
      BY <1>1, <3>1, <3>2, <3>3 DEF LoopInv, Newer, CountsKeepUp, Settled
    <3>5. newest' = Exposure(donecount + 1)
      BY <1>1, <1>3, <3>2 DEF LoopReturn, WaitReturn, Exposure, LoopInv, CallMatches
    <3>6. Exposure(donecount + 1) \in Nat /\ Exposure(donecount + 1) <= shot
      <4>1. SlotOf(donecount + 1, numbufs) \in Slots
        <5>1. numbufs \in 1 .. MaxBufs /\ donecount + 1 \in Nat
          BY <3>2, Typed, RingAssumption DEF LoopInv, IndInv, CountersInOrder
        <5> QED BY <5>1, SlotRange
      <4> QED BY <4>1, RingFacts DEF LoopInv, Newer, Exposure
    <3>7. shot <= MaxShots
      BY DEF LoopInv, Newer
    <3> QED BY <3>4, <3>5, <3>6, <3>7, Typed
  <2> QED BY <1>1, <1>3, <2>1, Typed DEF Stream!StreamNext, Stream!Take
<1> QED BY <1>1, <1>2, <1>3

(* Every other step stutters; counting a timeout and returning its image   *)
(* are one loss.                                                           *)
LEMMA OthersStutter ==
  ASSUME LoopInv, LoopNext, ~LoopReturn
  PROVE  UNCHANGED Stream!svars
<1>1. LoopInv => CallMatches
  BY DEF LoopInv
<1>2. CASE LoopMultibuf \/ LoopPrestart \/ LoopWait
  BY <1>1, <1>2, Typed DEF LoopMultibuf, LoopPrestart, LoopWait, Multibuf, StartImages, WaitImages,
    BeginWait, driverVars, callVars, Stream!svars
<1>3. CASE LoopWaiting
  <2>1. CASE WaitDoTimeout
    <3>1. /\ lpc = "waiting" /\ pc = "timedout" /\ pc' = "return" /\ ret' = "TIMEOUT"
          /\ timeouts' = timeouts + 1 /\ UNCHANGED <<lpc, i, newest>>
      BY <1>3, <2>1 DEF LoopWaiting, WaitDoTimeout, DriverTimeout, loopVars
    <3> QED BY <3>1, Typed DEF Stream!svars
  <2>2. CASE WaitCheck \/ WaitEnter \/ WaitWoken \/ WaitExpires
    BY <1>1, <1>3, <2>2, Typed DEF LoopWaiting, WaitCheck, WaitEnter, WaitWoken, WaitExpires,
      driverVars, loopVars, CallMatches, Stream!svars
  <2> QED BY <1>3, <2>1, <2>2 DEF LoopWaiting
<1>4. CASE LoopStart \/ LoopCheck \/ LoopRestart
  BY <1>1, <1>4, Typed DEF LoopStart, LoopCheck, LoopRestart, StartImages, RestartRead, ReadCounts,
    RestartAct, vars, driverVars, callVars, CallMatches, Stream!svars
<1>5. CASE LoopSave \/ LoopClose
  BY <1>1, <1>5, Typed DEF LoopSave, LoopClose, DisableRingBuffers, vars, driverVars, callVars,
    CallMatches, Stream!svars
<1>6. CASE Driver /\ UNCHANGED loopVars
  BY <1>1, <1>6, Typed DEF Driver, FrameStart, FrameDone, SetEvent, callVars, loopVars, CallMatches,
    Stream!svars
<1> QED BY <1>2, <1>3, <1>4, <1>5, <1>6 DEF LoopNext, LoopStep

(* What the loop hands over is what FrameStream promises, with a driver    *)
(* that counts the buffers it aborts: every image is newer than those      *)
(* before it, or one timeout accounts for it.                              *)
THEOREM StreamSafety ==
  ASSUME TimeoutCounts = {TRUE}
  PROVE  LoopSpec => Stream!StreamInit /\ [][Stream!StreamNext]_(Stream!svars)
<1>1. LoopInit => Stream!StreamInit
  BY StreamInitially
<1>2. LoopInv /\ [LoopNext]_tvars => [Stream!StreamNext]_(Stream!svars)
  <2>1. ASSUME UNCHANGED tvars PROVE UNCHANGED Stream!svars
    BY <2>1 DEF tvars, vars, loopVars, callVars, driverVars, Stream!svars
  <2> QED BY <2>1, ReturnHandsOver, OthersStutter
<1> QED BY <1>1, <1>2, LoopInvariance, PTL DEF LoopSpec
=============================================================================
