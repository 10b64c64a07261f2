------------------------- MODULE EventThread_proofs -------------------------
(***************************************************************************)
(* Proofs about EventThread, for any number of functions, threads and      *)
(* events: no function is called after its removal has returned, none is   *)
(* called twice that was to be called once, what is set up stays until its *)
(* event has come, and no handle is lost.  Programs remove functions of    *)
(* either mode, at any time; all this holds until a function is set over a *)
(* thread of an earlier one that has still to zero the handler, and can    *)
(* fail only then.                                                         *)
(*                                                                         *)
(* Two lemmas per action: the types are kept always, the rest as long as   *)
(* no thread was overtaken.                                                *)
(***************************************************************************)
EXTENDS EventThread, TLAPS

USE DEF Threads, Running, Gone, Setting, Removing, Clearing, handlerVars, systemVars, historyVars

(* An event of the board. *)
LEMMA EventTypes ==
  ASSUME TypeOK, Event
  PROVE  TypeOK'
<1>1. callback' \in Funcs \cup {None} /\ active' \in BOOLEAN /\ continuous' \in BOOLEAN
  BY EventAssumption DEF TypeOK, Event
<1>2. /\ wait_thread' \in 0 .. sets' /\ wait_event' \in 0 .. sets' /\ closing_event' \in 0 .. sets'
      /\ sets' \in 0 .. MaxSets /\ events' \in 0 .. MaxEvents
      /\ joined' \in 0 .. sets' /\ armed' \in 0 .. sets'
  BY EventAssumption DEF TypeOK, Event
<1>3. signalled' \in BOOLEAN /\ registered' \in BOOLEAN /\ overtaken' \in BOOLEAN
  BY EventAssumption DEF TypeOK, Event
<1>4. closing' \subseteq 1 .. sets' /\ open' \subseteq Kinds \X (1 .. sets')
  BY EventAssumption DEF TypeOK, Kinds, Handles, Event
<1>5. /\ at' \in [Threads -> Running \cup {"none", "suspended", "ended"}]
      /\ waits_on' \in [Threads -> Nat \X Nat] /\ rc' \in [Threads -> {0, 1}]
      /\ mode' \in [Threads -> {"once", "continuous"}] /\ calls' \in [Threads -> Nat]
  BY EventAssumption DEF TypeOK, Event
<1>6. /\ pc' \in {"idle", "kernelEvent", "closingEvent", "thread", "resume",
              "setClosing", "join", "joining", "close", "zero"}
      /\ pc' # "idle" => sets' > 0
  BY EventAssumption DEF TypeOK, Event
<1> QED BY <1>1, <1>2, <1>3, <1>4, <1>5, <1>6 DEF TypeOK

LEMMA EventKnown ==
  ASSUME TypeOK, Known, ~overtaken', Event
  PROVE  Known'
<1>1. OnlyLast'
  BY EventAssumption DEF TypeOK, Known, OnlyLast, WhoIsWhere, Event
<1>2. WhoIsWhere'
  BY EventAssumption DEF TypeOK, Known, OnlyLast, WhoIsWhere, HandlesKnown, Handles, Event
<1>3. HandlesKnown'
  BY EventAssumption DEF TypeOK, Known, OnlyLast, WhoIsWhere, HandlesKnown, Handles, Kinds,
       Event
<1>4. ArmedWaits'
  BY EventAssumption DEF TypeOK, Known, OnlyLast, WhoIsWhere, HandlesKnown, ArmedWaits,
       Handles, Kinds, Event
<1> QED BY <1>1, <1>2, <1>3, <1>4 DEF Known

(* edt_set_event_func begins. *)
LEMMA SetTypes ==
  ASSUME TypeOK, NEW func \in Funcs, NEW m \in Modes, Set(func, m)
  PROVE  TypeOK'
<1>1. callback' \in Funcs \cup {None} /\ active' \in BOOLEAN /\ continuous' \in BOOLEAN
  BY EventAssumption DEF TypeOK, Set, AlreadyGoing
<1>2. /\ wait_thread' \in 0 .. sets' /\ wait_event' \in 0 .. sets' /\ closing_event' \in 0 .. sets'
      /\ sets' \in 0 .. MaxSets /\ events' \in 0 .. MaxEvents
      /\ joined' \in 0 .. sets' /\ armed' \in 0 .. sets'
  BY EventAssumption DEF TypeOK, Set, AlreadyGoing
<1>3. signalled' \in BOOLEAN /\ registered' \in BOOLEAN /\ overtaken' \in BOOLEAN
  BY EventAssumption DEF TypeOK, Set, AlreadyGoing
<1>4. closing' \subseteq 1 .. sets' /\ open' \subseteq Kinds \X (1 .. sets')
  BY EventAssumption DEF TypeOK, Kinds, Handles, Set, AlreadyGoing
<1>5. /\ at' \in [Threads -> Running \cup {"none", "suspended", "ended"}]
      /\ waits_on' \in [Threads -> Nat \X Nat] /\ rc' \in [Threads -> {0, 1}]
      /\ mode' \in [Threads -> {"once", "continuous"}] /\ calls' \in [Threads -> Nat]
  BY EventAssumption DEF TypeOK, Set, AlreadyGoing
<1>6. /\ pc' \in {"idle", "kernelEvent", "closingEvent", "thread", "resume",
              "setClosing", "join", "joining", "close", "zero"}
      /\ pc' # "idle" => sets' > 0
  BY EventAssumption DEF TypeOK, Set, AlreadyGoing
<1> QED BY <1>1, <1>2, <1>3, <1>4, <1>5, <1>6 DEF TypeOK

LEMMA SetKnown ==
  ASSUME TypeOK, Known, ~overtaken', NEW func \in Funcs, NEW m \in Modes, Set(func, m)
  PROVE  Known'
<1>1. OnlyLast'
  <2>1. /\ pc = "idle" /\ callback = None /\ sets' = sets + 1 /\ sets \in Nat
        /\ at' = at /\ calls' = calls /\ \A t \in Threads : t # sets + 1 => mode'[t] = mode[t]
    BY EventAssumption DEF TypeOK, Set, AlreadyGoing
  <2>2. \A t \in Threads : at[t] # "zero"
    BY DEF Set
  <2>3. \A t \in Threads : at[t] \in Gone
    BY <2>1, <2>2 DEF Known, OnlyLast, WhoIsWhere
  <2>4. \A t \in Threads : t > sets => at[t] = "none" /\ calls[t] = 0
    BY DEF Known, OnlyLast
  <2>5. \A t \in Threads : t > sets + 1 => t > sets
    BY <2>1 DEF Threads
  <2>6. sets + 1 > sets
    BY <2>1
  <2>7. \A t \in Threads : t # sets + 1 /\ mode[t] = "once" =>
          calls[t] <= 1 /\ (at[t] = "none" => calls[t] = 0)
    BY DEF Known, OnlyLast
  <2> QED BY <2>1, <2>3, <2>4, <2>5, <2>6, <2>7 DEF OnlyLast
<1>2. WhoIsWhere'
  BY EventAssumption DEF TypeOK, Known, OnlyLast, WhoIsWhere, HandlesKnown, Handles, Set,
       AlreadyGoing
<1>3. HandlesKnown'
  BY EventAssumption DEF TypeOK, Known, OnlyLast, WhoIsWhere, HandlesKnown, Handles, Kinds,
       Set, AlreadyGoing
<1>4. ArmedWaits'
  BY EventAssumption DEF TypeOK, Known, OnlyLast, WhoIsWhere, HandlesKnown, ArmedWaits,
       Handles, Kinds, Set, AlreadyGoing
<1> QED BY <1>1, <1>2, <1>3, <1>4 DEF Known

(* The event is created, or not. *)
LEMMA KernelEventTypes ==
  ASSUME TypeOK, KernelEvent
  PROVE  TypeOK'
<1>1. callback' \in Funcs \cup {None} /\ active' \in BOOLEAN /\ continuous' \in BOOLEAN
  BY EventAssumption DEF TypeOK, KernelEvent
<1>2. /\ wait_thread' \in 0 .. sets' /\ wait_event' \in 0 .. sets' /\ closing_event' \in 0 .. sets'
      /\ sets' \in 0 .. MaxSets /\ events' \in 0 .. MaxEvents
      /\ joined' \in 0 .. sets' /\ armed' \in 0 .. sets'
  BY EventAssumption DEF TypeOK, KernelEvent
<1>3. signalled' \in BOOLEAN /\ registered' \in BOOLEAN /\ overtaken' \in BOOLEAN
  BY EventAssumption DEF TypeOK, KernelEvent
<1>4. closing' \subseteq 1 .. sets' /\ open' \subseteq Kinds \X (1 .. sets')
  BY EventAssumption DEF TypeOK, Kinds, Handles, KernelEvent
<1>5. /\ at' \in [Threads -> Running \cup {"none", "suspended", "ended"}]
      /\ waits_on' \in [Threads -> Nat \X Nat] /\ rc' \in [Threads -> {0, 1}]
      /\ mode' \in [Threads -> {"once", "continuous"}] /\ calls' \in [Threads -> Nat]
  BY EventAssumption DEF TypeOK, KernelEvent
<1>6. /\ pc' \in {"idle", "kernelEvent", "closingEvent", "thread", "resume",
              "setClosing", "join", "joining", "close", "zero"}
      /\ pc' # "idle" => sets' > 0
  BY EventAssumption DEF TypeOK, KernelEvent
<1> QED BY <1>1, <1>2, <1>3, <1>4, <1>5, <1>6 DEF TypeOK

LEMMA KernelEventKnown ==
  ASSUME TypeOK, Known, ~overtaken', KernelEvent
  PROVE  Known'
<1>1. OnlyLast'
  BY EventAssumption DEF TypeOK, Known, OnlyLast, WhoIsWhere, KernelEvent
<1>2. WhoIsWhere'
  BY EventAssumption DEF TypeOK, Known, OnlyLast, WhoIsWhere, HandlesKnown, Handles,
       KernelEvent
<1>3. HandlesKnown'
  BY EventAssumption DEF TypeOK, Known, OnlyLast, WhoIsWhere, HandlesKnown, Handles, Kinds,
       KernelEvent
<1>4. ArmedWaits'
  BY EventAssumption DEF TypeOK, Known, OnlyLast, WhoIsWhere, HandlesKnown, ArmedWaits,
       Handles, Kinds, KernelEvent
<1> QED BY <1>1, <1>2, <1>3, <1>4 DEF Known

(* The closing event is created, or not. *)
LEMMA ClosingEventTypes ==
  ASSUME TypeOK, ClosingEvent
  PROVE  TypeOK'
<1>1. callback' \in Funcs \cup {None} /\ active' \in BOOLEAN /\ continuous' \in BOOLEAN
  BY EventAssumption DEF TypeOK, ClosingEvent, ClearFailed
<1>2. /\ wait_thread' \in 0 .. sets' /\ wait_event' \in 0 .. sets' /\ closing_event' \in 0 .. sets'
      /\ sets' \in 0 .. MaxSets /\ events' \in 0 .. MaxEvents
      /\ joined' \in 0 .. sets' /\ armed' \in 0 .. sets'
  <2>1. CASE pc' = "thread"
    BY <2>1, EventAssumption DEF TypeOK, ClosingEvent, ClearFailed
  <2>2. CASE pc' = "close"
    BY <2>2, EventAssumption DEF TypeOK, ClosingEvent, ClearFailed
  <2> QED BY <2>1, <2>2 DEF ClosingEvent, ClearFailed
<1>3. signalled' \in BOOLEAN /\ registered' \in BOOLEAN /\ overtaken' \in BOOLEAN
  BY EventAssumption DEF TypeOK, ClosingEvent, ClearFailed
<1>4. closing' \subseteq 1 .. sets' /\ open' \subseteq Kinds \X (1 .. sets')
  <2>1. /\ open' \in {open, open \cup {<<"closing", sets>>}} /\ closing' = closing /\ sets' = sets
        /\ pc # "idle"
    BY DEF ClosingEvent, ClearFailed
  <2>2. <<"closing", sets>> \in Kinds \X (1 .. sets)
    BY <2>1 DEF TypeOK, Kinds
  <2>3. closing \subseteq 1 .. sets /\ open \subseteq Kinds \X (1 .. sets)
    BY DEF TypeOK
  <2> QED BY <2>1, <2>2, <2>3
<1>5. /\ at' \in [Threads -> Running \cup {"none", "suspended", "ended"}]
      /\ waits_on' \in [Threads -> Nat \X Nat] /\ rc' \in [Threads -> {0, 1}]
      /\ mode' \in [Threads -> {"once", "continuous"}] /\ calls' \in [Threads -> Nat]
  BY EventAssumption DEF TypeOK, ClosingEvent, ClearFailed
<1>6. /\ pc' \in {"idle", "kernelEvent", "closingEvent", "thread", "resume",
              "setClosing", "join", "joining", "close", "zero"}
      /\ pc' # "idle" => sets' > 0
  BY EventAssumption DEF TypeOK, ClosingEvent, ClearFailed
<1> QED BY <1>1, <1>2, <1>3, <1>4, <1>5, <1>6 DEF TypeOK

LEMMA ClosingEventKnown ==
  ASSUME TypeOK, Known, ~overtaken', ClosingEvent
  PROVE  Known'
<1>1. OnlyLast'
  BY EventAssumption DEF TypeOK, Known, OnlyLast, WhoIsWhere, ClosingEvent, ClearFailed
<1>2. WhoIsWhere'
  BY EventAssumption DEF TypeOK, Known, OnlyLast, WhoIsWhere, HandlesKnown, Handles,
       ClosingEvent, ClearFailed
<1>3. HandlesKnown'
  <2>1. sets \in Threads /\ callback # None
    BY EventAssumption DEF TypeOK, Known, WhoIsWhere, ClosingEvent
  <2>2. CASE pc' = "thread"
    <3>1. /\ pc = "closingEvent" /\ wait_event # 0 /\ closing_event' = sets
          /\ open' = open \cup {<<"closing", sets>>}
          /\ UNCHANGED <<callback, wait_thread, wait_event, at, sets, waits_on>>
      BY <2>2 DEF ClosingEvent, ClearFailed
    <3>2. wait_event = sets /\ <<"event", sets>> \in open /\ wait_thread = 0 /\ closing_event = 0
      BY <3>1 DEF Known, HandlesKnown
    <3>3. <<"closing", 0>> \notin open
      BY DEF TypeOK
    <3>4. open' \subseteq Handles'
      BY <3>1, <3>2, <3>3 DEF Known, HandlesKnown, Handles
    <3>5. at[sets] = "none"
      BY <2>1, <3>1 DEF Known, WhoIsWhere
    <3> QED BY <2>1, <2>2, <3>1, <3>2, <3>4, <3>5 DEF HandlesKnown
  <2>3. CASE pc' = "close"
    BY <2>1, <2>3 DEF TypeOK, Known, HandlesKnown, Handles, ClosingEvent, ClearFailed
  <2> QED BY <2>2, <2>3 DEF ClosingEvent, ClearFailed
<1>4. ArmedWaits'
  BY EventAssumption DEF TypeOK, Known, OnlyLast, WhoIsWhere, HandlesKnown, ArmedWaits,
       Handles, Kinds, ClosingEvent, ClearFailed
<1> QED BY <1>1, <1>2, <1>3, <1>4 DEF Known

(* The thread is created, or not. *)
LEMMA CreateThreadTypes ==
  ASSUME TypeOK, CreateThread
  PROVE  TypeOK'
<1>1. callback' \in Funcs \cup {None} /\ active' \in BOOLEAN /\ continuous' \in BOOLEAN
  BY EventAssumption DEF TypeOK, CreateThread, ClearFailed
<1>2. /\ wait_thread' \in 0 .. sets' /\ wait_event' \in 0 .. sets' /\ closing_event' \in 0 .. sets'
      /\ sets' \in 0 .. MaxSets /\ events' \in 0 .. MaxEvents
      /\ joined' \in 0 .. sets' /\ armed' \in 0 .. sets'
  <2>1. CASE pc' = "resume"
    BY <2>1, EventAssumption DEF TypeOK, CreateThread, ClearFailed
  <2>2. CASE pc' = "close"
    BY <2>2, EventAssumption DEF TypeOK, CreateThread, ClearFailed
  <2> QED BY <2>1, <2>2 DEF CreateThread, ClearFailed
<1>3. signalled' \in BOOLEAN /\ registered' \in BOOLEAN /\ overtaken' \in BOOLEAN
  BY EventAssumption DEF TypeOK, CreateThread, ClearFailed
<1>4. closing' \subseteq 1 .. sets' /\ open' \subseteq Kinds \X (1 .. sets')
  <2>1. /\ open' \in {open, open \cup {<<"thread", sets>>}} /\ closing' = closing /\ sets' = sets
        /\ pc # "idle"
    BY DEF CreateThread, ClearFailed
  <2>2. <<"thread", sets>> \in Kinds \X (1 .. sets)
    BY <2>1 DEF TypeOK, Kinds
  <2>3. closing \subseteq 1 .. sets /\ open \subseteq Kinds \X (1 .. sets)
    BY DEF TypeOK
  <2> QED BY <2>1, <2>2, <2>3
<1>5. /\ at' \in [Threads -> Running \cup {"none", "suspended", "ended"}]
      /\ waits_on' \in [Threads -> Nat \X Nat] /\ rc' \in [Threads -> {0, 1}]
      /\ mode' \in [Threads -> {"once", "continuous"}] /\ calls' \in [Threads -> Nat]
  BY EventAssumption DEF TypeOK, CreateThread, ClearFailed
<1>6. /\ pc' \in {"idle", "kernelEvent", "closingEvent", "thread", "resume",
              "setClosing", "join", "joining", "close", "zero"}
      /\ pc' # "idle" => sets' > 0
  BY EventAssumption DEF TypeOK, CreateThread, ClearFailed
<1> QED BY <1>1, <1>2, <1>3, <1>4, <1>5, <1>6 DEF TypeOK

LEMMA CreateThreadKnown ==
  ASSUME TypeOK, Known, ~overtaken', CreateThread
  PROVE  Known'
<1>1. OnlyLast'
  <2>1. sets \in Threads /\ callback # None /\ at[sets] = "none"
    BY EventAssumption DEF TypeOK, Known, WhoIsWhere, CreateThread
  <2>2. CASE pc' = "resume"
    <3>1. /\ pc = "thread" /\ wait_thread' = sets /\ at' = [at EXCEPT ![sets] = "suspended"]
          /\ open' = open \cup {<<"thread", sets>>}
          /\ UNCHANGED <<callback, active, continuous, wait_event, closing_event, sets, joined,
                         calls, mode, waits_on>>
      BY <2>2 DEF CreateThread, ClearFailed
    <3>2. at'[sets] = "suspended" /\ \A t \in Threads : t # sets => at'[t] = at[t]
      BY <2>1, <3>1 DEF TypeOK
    <3> QED BY <2>1, <3>1, <3>2 DEF Known, OnlyLast
  <2>3. CASE pc' = "close"
    BY <2>1, <2>3 DEF TypeOK, Known, OnlyLast, CreateThread, ClearFailed
  <2> QED BY <2>2, <2>3 DEF CreateThread, ClearFailed
<1>2. WhoIsWhere'
  <2>1. sets \in Threads /\ callback # None /\ at[sets] = "none"
    BY EventAssumption DEF TypeOK, Known, WhoIsWhere, CreateThread
  <2>2. CASE pc' = "resume"
    <3>1. /\ pc = "thread" /\ wait_thread' = sets /\ at' = [at EXCEPT ![sets] = "suspended"]
          /\ open' = open \cup {<<"thread", sets>>}
          /\ UNCHANGED <<callback, active, continuous, wait_event, closing_event, sets, joined,
                         calls, mode, waits_on>>
      BY <2>2 DEF CreateThread, ClearFailed
    <3>2. at'[sets] = "suspended" /\ \A t \in Threads : t # sets => at'[t] = at[t]
      BY <2>1, <3>1 DEF TypeOK
    <3> QED BY <2>1, <2>2, <3>1, <3>2 DEF Known, WhoIsWhere
  <2>3. CASE pc' = "close"
    BY <2>1, <2>3 DEF TypeOK, Known, WhoIsWhere, CreateThread, ClearFailed
  <2> QED BY <2>2, <2>3 DEF CreateThread, ClearFailed
<1>3. HandlesKnown'
  <2>1. sets \in Threads /\ callback # None /\ at[sets] = "none"
    BY EventAssumption DEF TypeOK, Known, WhoIsWhere, CreateThread
  <2>2. CASE pc' = "resume"
    <3>1. /\ pc = "thread" /\ wait_thread' = sets /\ at' = [at EXCEPT ![sets] = "suspended"]
          /\ open' = open \cup {<<"thread", sets>>}
          /\ UNCHANGED <<callback, active, continuous, wait_event, closing_event, sets, joined,
                         calls, mode, waits_on>>
      BY <2>2 DEF CreateThread, ClearFailed
    <3>2. at'[sets] = "suspended" /\ \A t \in Threads : t # sets => at'[t] = at[t]
      BY <2>1, <3>1 DEF TypeOK
    <3>3. wait_event = sets /\ closing_event = sets /\ wait_thread = 0
      BY <3>1 DEF Known, HandlesKnown
    <3>4. {<<"event", sets>>, <<"closing", sets>>} \subseteq open /\ <<"thread", 0>> \notin open
      BY <3>1 DEF TypeOK, Known, HandlesKnown
    <3>5. open' \subseteq Handles'
      BY <3>1, <3>3, <3>4 DEF Known, HandlesKnown, Handles
    <3>6. Handles' \subseteq open'
      BY <3>1, <3>3, <3>4 DEF Handles
    <3> QED BY <2>1, <2>2, <3>1, <3>2, <3>3, <3>5, <3>6 DEF HandlesKnown
  <2>3. CASE pc' = "close"
    BY <2>1, <2>3 DEF TypeOK, Known, HandlesKnown, Handles, CreateThread, ClearFailed
  <2> QED BY <2>2, <2>3 DEF CreateThread, ClearFailed
<1>4. ArmedWaits'
  BY EventAssumption DEF TypeOK, Known, OnlyLast, WhoIsWhere, HandlesKnown, ArmedWaits,
       Handles, Kinds, CreateThread, ClearFailed
<1> QED BY <1>1, <1>2, <1>3, <1>4 DEF Known

(* It is let go. *)
LEMMA ResumeTypes ==
  ASSUME TypeOK, Resume
  PROVE  TypeOK'
<1>1. callback' \in Funcs \cup {None} /\ active' \in BOOLEAN /\ continuous' \in BOOLEAN
  BY EventAssumption DEF TypeOK, Resume
<1>2. /\ wait_thread' \in 0 .. sets' /\ wait_event' \in 0 .. sets' /\ closing_event' \in 0 .. sets'
      /\ sets' \in 0 .. MaxSets /\ events' \in 0 .. MaxEvents
      /\ joined' \in 0 .. sets' /\ armed' \in 0 .. sets'
  BY EventAssumption DEF TypeOK, Resume
<1>3. signalled' \in BOOLEAN /\ registered' \in BOOLEAN /\ overtaken' \in BOOLEAN
  BY EventAssumption DEF TypeOK, Resume
<1>4. closing' \subseteq 1 .. sets' /\ open' \subseteq Kinds \X (1 .. sets')
  BY EventAssumption DEF TypeOK, Kinds, Handles, Resume
<1>5. /\ at' \in [Threads -> Running \cup {"none", "suspended", "ended"}]
      /\ waits_on' \in [Threads -> Nat \X Nat] /\ rc' \in [Threads -> {0, 1}]
      /\ mode' \in [Threads -> {"once", "continuous"}] /\ calls' \in [Threads -> Nat]
  BY EventAssumption DEF TypeOK, Resume
<1>6. /\ pc' \in {"idle", "kernelEvent", "closingEvent", "thread", "resume",
              "setClosing", "join", "joining", "close", "zero"}
      /\ pc' # "idle" => sets' > 0
  BY EventAssumption DEF TypeOK, Resume
<1> QED BY <1>1, <1>2, <1>3, <1>4, <1>5, <1>6 DEF TypeOK

LEMMA ResumeKnown ==
  ASSUME TypeOK, Known, ~overtaken', Resume
  PROVE  Known'
<1>1. OnlyLast'
  <2>1. /\ sets \in Threads /\ callback # None /\ at[sets] = "suspended" /\ wait_thread = sets
        /\ sets \notin closing
    BY EventAssumption DEF TypeOK, Known, WhoIsWhere, HandlesKnown, ArmedWaits, Resume
  <2>2. /\ pc' = "idle" /\ at'[sets] = "begin" /\ \A t \in Threads : t # sets => at'[t] = at[t]
        /\ armed' = sets /\ registered'
        /\ UNCHANGED <<callback, sets, mode, calls, closing>>
    BY <2>1 DEF Resume
  <2> QED BY <2>1, <2>2 DEF Known, OnlyLast
<1>2. WhoIsWhere'
  BY EventAssumption DEF TypeOK, Known, OnlyLast, WhoIsWhere, HandlesKnown, Handles, Resume
<1>3. HandlesKnown'
  BY EventAssumption DEF TypeOK, Known, OnlyLast, WhoIsWhere, HandlesKnown, Handles, Kinds,
       Resume
<1>4. ArmedWaits'
  <2>1. /\ sets \in Threads /\ callback # None /\ at[sets] = "suspended" /\ wait_thread = sets
        /\ sets \notin closing
    BY EventAssumption DEF TypeOK, Known, WhoIsWhere, HandlesKnown, ArmedWaits, Resume
  <2>2. /\ pc' = "idle" /\ at'[sets] = "begin" /\ \A t \in Threads : t # sets => at'[t] = at[t]
        /\ armed' = sets /\ registered'
        /\ UNCHANGED <<callback, sets, mode, calls, closing>>
    BY <2>1 DEF Resume
  <2> QED BY <2>1, <2>2 DEF ArmedWaits
<1> QED BY <1>1, <1>2, <1>3, <1>4 DEF Known

(* edt_remove_event_func begins. *)
LEMMA RemoveTypes ==
  ASSUME TypeOK, Remove
  PROVE  TypeOK'
<1>1. callback' \in Funcs \cup {None} /\ active' \in BOOLEAN /\ continuous' \in BOOLEAN
  BY EventAssumption DEF TypeOK, Remove
<1>2. /\ wait_thread' \in 0 .. sets' /\ wait_event' \in 0 .. sets' /\ closing_event' \in 0 .. sets'
      /\ sets' \in 0 .. MaxSets /\ events' \in 0 .. MaxEvents
      /\ joined' \in 0 .. sets' /\ armed' \in 0 .. sets'
  BY EventAssumption DEF TypeOK, Remove
<1>3. signalled' \in BOOLEAN /\ registered' \in BOOLEAN /\ overtaken' \in BOOLEAN
  BY EventAssumption DEF TypeOK, Remove
<1>4. closing' \subseteq 1 .. sets' /\ open' \subseteq Kinds \X (1 .. sets')
  BY EventAssumption DEF TypeOK, Kinds, Handles, Remove
<1>5. /\ at' \in [Threads -> Running \cup {"none", "suspended", "ended"}]
      /\ waits_on' \in [Threads -> Nat \X Nat] /\ rc' \in [Threads -> {0, 1}]
      /\ mode' \in [Threads -> {"once", "continuous"}] /\ calls' \in [Threads -> Nat]
  BY EventAssumption DEF TypeOK, Remove
<1>6. /\ pc' \in {"idle", "kernelEvent", "closingEvent", "thread", "resume",
              "setClosing", "join", "joining", "close", "zero"}
      /\ pc' # "idle" => sets' > 0
  BY EventAssumption DEF TypeOK, Remove
<1> QED BY <1>1, <1>2, <1>3, <1>4, <1>5, <1>6 DEF TypeOK

LEMMA RemoveKnown ==
  ASSUME TypeOK, Known, ~overtaken', Remove
  PROVE  Known'
<1>1. OnlyLast'
  BY EventAssumption DEF TypeOK, Known, OnlyLast, WhoIsWhere, Remove
<1>2. WhoIsWhere'
  BY EventAssumption DEF TypeOK, Known, OnlyLast, WhoIsWhere, HandlesKnown, Handles, Remove
<1>3. HandlesKnown'
  BY EventAssumption DEF TypeOK, Known, OnlyLast, WhoIsWhere, HandlesKnown, Handles, Kinds,
       Remove
<1>4. ArmedWaits'
  BY EventAssumption DEF TypeOK, Known, OnlyLast, WhoIsWhere, HandlesKnown, ArmedWaits,
       Handles, Kinds, Remove
<1> QED BY <1>1, <1>2, <1>3, <1>4 DEF Known

(* The thread is told to end. *)
LEMMA SetClosingTypes ==
  ASSUME TypeOK, SetClosing
  PROVE  TypeOK'
<1>1. callback' \in Funcs \cup {None} /\ active' \in BOOLEAN /\ continuous' \in BOOLEAN
  BY EventAssumption DEF TypeOK, SetClosing
<1>2. /\ wait_thread' \in 0 .. sets' /\ wait_event' \in 0 .. sets' /\ closing_event' \in 0 .. sets'
      /\ sets' \in 0 .. MaxSets /\ events' \in 0 .. MaxEvents
      /\ joined' \in 0 .. sets' /\ armed' \in 0 .. sets'
  BY EventAssumption DEF TypeOK, SetClosing
<1>3. signalled' \in BOOLEAN /\ registered' \in BOOLEAN /\ overtaken' \in BOOLEAN
  BY EventAssumption DEF TypeOK, SetClosing
<1>4. closing' \subseteq 1 .. sets' /\ open' \subseteq Kinds \X (1 .. sets')
  BY EventAssumption DEF TypeOK, Kinds, Handles, SetClosing
<1>5. /\ at' \in [Threads -> Running \cup {"none", "suspended", "ended"}]
      /\ waits_on' \in [Threads -> Nat \X Nat] /\ rc' \in [Threads -> {0, 1}]
      /\ mode' \in [Threads -> {"once", "continuous"}] /\ calls' \in [Threads -> Nat]
  BY EventAssumption DEF TypeOK, SetClosing
<1>6. /\ pc' \in {"idle", "kernelEvent", "closingEvent", "thread", "resume",
              "setClosing", "join", "joining", "close", "zero"}
      /\ pc' # "idle" => sets' > 0
  BY EventAssumption DEF TypeOK, SetClosing
<1> QED BY <1>1, <1>2, <1>3, <1>4, <1>5, <1>6 DEF TypeOK

LEMMA SetClosingKnown ==
  ASSUME TypeOK, Known, ~overtaken', SetClosing
  PROVE  Known'
<1>1. OnlyLast'
  BY EventAssumption DEF TypeOK, Known, OnlyLast, WhoIsWhere, SetClosing
<1>2. WhoIsWhere'
  BY EventAssumption DEF TypeOK, Known, OnlyLast, WhoIsWhere, HandlesKnown, Handles,
       SetClosing
<1>3. HandlesKnown'
  BY EventAssumption DEF TypeOK, Known, OnlyLast, WhoIsWhere, HandlesKnown, Handles, Kinds,
       SetClosing
<1>4. ArmedWaits'
  BY EventAssumption DEF TypeOK, Known, OnlyLast, WhoIsWhere, HandlesKnown, ArmedWaits,
       Handles, Kinds, SetClosing
<1> QED BY <1>1, <1>2, <1>3, <1>4 DEF Known

(* Its end is about to be waited for. *)
LEMMA JoinTypes ==
  ASSUME TypeOK, Join
  PROVE  TypeOK'
<1>1. callback' \in Funcs \cup {None} /\ active' \in BOOLEAN /\ continuous' \in BOOLEAN
  BY EventAssumption DEF TypeOK, Join
<1>2. /\ wait_thread' \in 0 .. sets' /\ wait_event' \in 0 .. sets' /\ closing_event' \in 0 .. sets'
      /\ sets' \in 0 .. MaxSets /\ events' \in 0 .. MaxEvents
      /\ joined' \in 0 .. sets' /\ armed' \in 0 .. sets'
  BY EventAssumption DEF TypeOK, Join
<1>3. signalled' \in BOOLEAN /\ registered' \in BOOLEAN /\ overtaken' \in BOOLEAN
  BY EventAssumption DEF TypeOK, Join
<1>4. closing' \subseteq 1 .. sets' /\ open' \subseteq Kinds \X (1 .. sets')
  BY EventAssumption DEF TypeOK, Kinds, Handles, Join
<1>5. /\ at' \in [Threads -> Running \cup {"none", "suspended", "ended"}]
      /\ waits_on' \in [Threads -> Nat \X Nat] /\ rc' \in [Threads -> {0, 1}]
      /\ mode' \in [Threads -> {"once", "continuous"}] /\ calls' \in [Threads -> Nat]
  BY EventAssumption DEF TypeOK, Join
<1>6. /\ pc' \in {"idle", "kernelEvent", "closingEvent", "thread", "resume",
              "setClosing", "join", "joining", "close", "zero"}
      /\ pc' # "idle" => sets' > 0
  BY EventAssumption DEF TypeOK, Join
<1> QED BY <1>1, <1>2, <1>3, <1>4, <1>5, <1>6 DEF TypeOK

LEMMA JoinKnown ==
  ASSUME TypeOK, Known, ~overtaken', Join
  PROVE  Known'
<1>1. OnlyLast'
  BY EventAssumption DEF TypeOK, Known, OnlyLast, WhoIsWhere, Join
<1>2. WhoIsWhere'
  BY EventAssumption DEF TypeOK, Known, OnlyLast, WhoIsWhere, HandlesKnown, Handles, Join
<1>3. HandlesKnown'
  BY EventAssumption DEF TypeOK, Known, OnlyLast, WhoIsWhere, HandlesKnown, Handles, Kinds,
       Join
<1>4. ArmedWaits'
  BY EventAssumption DEF TypeOK, Known, OnlyLast, WhoIsWhere, HandlesKnown, ArmedWaits,
       Handles, Kinds, Join
<1> QED BY <1>1, <1>2, <1>3, <1>4 DEF Known

(* It has ended, or its handle is closed. *)
LEMMA JoinedTypes ==
  ASSUME TypeOK, Joined
  PROVE  TypeOK'
<1>1. callback' \in Funcs \cup {None} /\ active' \in BOOLEAN /\ continuous' \in BOOLEAN
  BY EventAssumption DEF TypeOK, Joined
<1>2. /\ wait_thread' \in 0 .. sets' /\ wait_event' \in 0 .. sets' /\ closing_event' \in 0 .. sets'
      /\ sets' \in 0 .. MaxSets /\ events' \in 0 .. MaxEvents
      /\ joined' \in 0 .. sets' /\ armed' \in 0 .. sets'
  BY EventAssumption DEF TypeOK, Joined
<1>3. signalled' \in BOOLEAN /\ registered' \in BOOLEAN /\ overtaken' \in BOOLEAN
  BY EventAssumption DEF TypeOK, Joined
<1>4. closing' \subseteq 1 .. sets' /\ open' \subseteq Kinds \X (1 .. sets')
  BY EventAssumption DEF TypeOK, Kinds, Handles, Joined
<1>5. /\ at' \in [Threads -> Running \cup {"none", "suspended", "ended"}]
      /\ waits_on' \in [Threads -> Nat \X Nat] /\ rc' \in [Threads -> {0, 1}]
      /\ mode' \in [Threads -> {"once", "continuous"}] /\ calls' \in [Threads -> Nat]
  BY EventAssumption DEF TypeOK, Joined
<1>6. /\ pc' \in {"idle", "kernelEvent", "closingEvent", "thread", "resume",
              "setClosing", "join", "joining", "close", "zero"}
      /\ pc' # "idle" => sets' > 0
  BY EventAssumption DEF TypeOK, Joined
<1> QED BY <1>1, <1>2, <1>3, <1>4, <1>5, <1>6 DEF TypeOK

LEMMA JoinedKnown ==
  ASSUME TypeOK, Known, ~overtaken', Joined
  PROVE  Known'
<1>1. OnlyLast'
  BY EventAssumption DEF TypeOK, Known, OnlyLast, WhoIsWhere, Joined
<1>2. WhoIsWhere'
  BY EventAssumption DEF TypeOK, Known, OnlyLast, WhoIsWhere, HandlesKnown, Handles, Joined
<1>3. HandlesKnown'
  BY EventAssumption DEF TypeOK, Known, OnlyLast, WhoIsWhere, HandlesKnown, Handles, Kinds,
       Joined
<1>4. ArmedWaits'
  BY EventAssumption DEF TypeOK, Known, OnlyLast, WhoIsWhere, HandlesKnown, ArmedWaits,
       Handles, Kinds, Joined
<1> QED BY <1>1, <1>2, <1>3, <1>4 DEF Known

(* The program closes the handles. *)
LEMMA ClearCloseTypes ==
  ASSUME TypeOK, ClearClose
  PROVE  TypeOK'
<1>1. callback' \in Funcs \cup {None} /\ active' \in BOOLEAN /\ continuous' \in BOOLEAN
  BY EventAssumption DEF TypeOK, ClearClose, CloseHandles
<1>2. /\ wait_thread' \in 0 .. sets' /\ wait_event' \in 0 .. sets' /\ closing_event' \in 0 .. sets'
      /\ sets' \in 0 .. MaxSets /\ events' \in 0 .. MaxEvents
      /\ joined' \in 0 .. sets' /\ armed' \in 0 .. sets'
  BY EventAssumption DEF TypeOK, ClearClose, CloseHandles
<1>3. signalled' \in BOOLEAN /\ registered' \in BOOLEAN /\ overtaken' \in BOOLEAN
  BY EventAssumption DEF TypeOK, ClearClose, CloseHandles
<1>4. closing' \subseteq 1 .. sets' /\ open' \subseteq Kinds \X (1 .. sets')
  BY EventAssumption DEF TypeOK, Kinds, Handles, ClearClose, CloseHandles
<1>5. /\ at' \in [Threads -> Running \cup {"none", "suspended", "ended"}]
      /\ waits_on' \in [Threads -> Nat \X Nat] /\ rc' \in [Threads -> {0, 1}]
      /\ mode' \in [Threads -> {"once", "continuous"}] /\ calls' \in [Threads -> Nat]
  BY EventAssumption DEF TypeOK, ClearClose, CloseHandles
<1>6. /\ pc' \in {"idle", "kernelEvent", "closingEvent", "thread", "resume",
              "setClosing", "join", "joining", "close", "zero"}
      /\ pc' # "idle" => sets' > 0
  BY EventAssumption DEF TypeOK, ClearClose, CloseHandles
<1> QED BY <1>1, <1>2, <1>3, <1>4, <1>5, <1>6 DEF TypeOK

LEMMA ClearCloseKnown ==
  ASSUME TypeOK, Known, ~overtaken', ClearClose
  PROVE  Known'
<1>1. OnlyLast'
  BY EventAssumption DEF TypeOK, Known, OnlyLast, WhoIsWhere, ClearClose, CloseHandles
<1>2. WhoIsWhere'
  BY EventAssumption DEF TypeOK, Known, OnlyLast, WhoIsWhere, HandlesKnown, Handles,
       ClearClose, CloseHandles
<1>3. HandlesKnown'
  BY EventAssumption DEF TypeOK, Known, OnlyLast, WhoIsWhere, HandlesKnown, Handles, Kinds,
       ClearClose, CloseHandles
<1>4. ArmedWaits'
  BY EventAssumption DEF TypeOK, Known, OnlyLast, WhoIsWhere, HandlesKnown, ArmedWaits,
       Handles, Kinds, ClearClose, CloseHandles
<1> QED BY <1>1, <1>2, <1>3, <1>4 DEF Known

(* It zeroes the handler. *)
LEMMA ClearZeroTypes ==
  ASSUME TypeOK, ClearZero
  PROVE  TypeOK'
<1>1. callback' \in Funcs \cup {None} /\ active' \in BOOLEAN /\ continuous' \in BOOLEAN
  BY EventAssumption DEF TypeOK, ClearZero, Zero
<1>2. /\ wait_thread' \in 0 .. sets' /\ wait_event' \in 0 .. sets' /\ closing_event' \in 0 .. sets'
      /\ sets' \in 0 .. MaxSets /\ events' \in 0 .. MaxEvents
      /\ joined' \in 0 .. sets' /\ armed' \in 0 .. sets'
  BY EventAssumption DEF TypeOK, ClearZero, Zero
<1>3. signalled' \in BOOLEAN /\ registered' \in BOOLEAN /\ overtaken' \in BOOLEAN
  BY EventAssumption DEF TypeOK, ClearZero, Zero
<1>4. closing' \subseteq 1 .. sets' /\ open' \subseteq Kinds \X (1 .. sets')
  BY EventAssumption DEF TypeOK, Kinds, Handles, ClearZero, Zero
<1>5. /\ at' \in [Threads -> Running \cup {"none", "suspended", "ended"}]
      /\ waits_on' \in [Threads -> Nat \X Nat] /\ rc' \in [Threads -> {0, 1}]
      /\ mode' \in [Threads -> {"once", "continuous"}] /\ calls' \in [Threads -> Nat]
  BY EventAssumption DEF TypeOK, ClearZero, Zero
<1>6. /\ pc' \in {"idle", "kernelEvent", "closingEvent", "thread", "resume",
              "setClosing", "join", "joining", "close", "zero"}
      /\ pc' # "idle" => sets' > 0
  BY EventAssumption DEF TypeOK, ClearZero, Zero
<1> QED BY <1>1, <1>2, <1>3, <1>4, <1>5, <1>6 DEF TypeOK

LEMMA ClearZeroKnown ==
  ASSUME TypeOK, Known, ~overtaken', ClearZero
  PROVE  Known'
<1>1. OnlyLast'
  BY EventAssumption DEF TypeOK, Known, OnlyLast, WhoIsWhere, ClearZero, Zero
<1>2. WhoIsWhere'
  BY EventAssumption DEF TypeOK, Known, OnlyLast, WhoIsWhere, HandlesKnown, Handles,
       ClearZero, Zero
<1>3. HandlesKnown'
  BY EventAssumption DEF TypeOK, Known, OnlyLast, WhoIsWhere, HandlesKnown, Handles, Kinds,
       ClearZero, Zero
<1>4. ArmedWaits'
  BY EventAssumption DEF TypeOK, Known, OnlyLast, WhoIsWhere, HandlesKnown, ArmedWaits,
       Handles, Kinds, ClearZero, Zero
<1> QED BY <1>1, <1>2, <1>3, <1>4 DEF Known

(* The thread reads its handles. *)
LEMMA BeginTypes ==
  ASSUME TypeOK, NEW t \in Threads, Begin(t)
  PROVE  TypeOK'
<1>1. callback' \in Funcs \cup {None} /\ active' \in BOOLEAN /\ continuous' \in BOOLEAN
  BY EventAssumption DEF TypeOK, Begin, Goes
<1>2. /\ wait_thread' \in 0 .. sets' /\ wait_event' \in 0 .. sets' /\ closing_event' \in 0 .. sets'
      /\ sets' \in 0 .. MaxSets /\ events' \in 0 .. MaxEvents
      /\ joined' \in 0 .. sets' /\ armed' \in 0 .. sets'
  BY EventAssumption DEF TypeOK, Begin, Goes
<1>3. signalled' \in BOOLEAN /\ registered' \in BOOLEAN /\ overtaken' \in BOOLEAN
  BY EventAssumption DEF TypeOK, Begin, Goes
<1>4. closing' \subseteq 1 .. sets' /\ open' \subseteq Kinds \X (1 .. sets')
  BY EventAssumption DEF TypeOK, Kinds, Handles, Begin, Goes
<1>5. /\ at' \in [Threads -> Running \cup {"none", "suspended", "ended"}]
      /\ waits_on' \in [Threads -> Nat \X Nat] /\ rc' \in [Threads -> {0, 1}]
      /\ mode' \in [Threads -> {"once", "continuous"}] /\ calls' \in [Threads -> Nat]
  BY EventAssumption DEF TypeOK, Begin, Goes
<1>6. /\ pc' \in {"idle", "kernelEvent", "closingEvent", "thread", "resume",
              "setClosing", "join", "joining", "close", "zero"}
      /\ pc' # "idle" => sets' > 0
  BY EventAssumption DEF TypeOK, Begin, Goes
<1> QED BY <1>1, <1>2, <1>3, <1>4, <1>5, <1>6 DEF TypeOK

LEMMA BeginKnown ==
  ASSUME TypeOK, Known, ~overtaken', NEW t \in Threads, Begin(t)
  PROVE  Known'
<1>1. OnlyLast'
  BY EventAssumption DEF TypeOK, Known, OnlyLast, WhoIsWhere, Begin, Goes
<1>2. WhoIsWhere'
  BY EventAssumption DEF TypeOK, Known, OnlyLast, WhoIsWhere, HandlesKnown, Handles, Begin,
       Goes
<1>3. HandlesKnown'
  BY EventAssumption DEF TypeOK, Known, OnlyLast, WhoIsWhere, HandlesKnown, Handles, Kinds,
       Begin, Goes
<1>4. ArmedWaits'
  BY EventAssumption DEF TypeOK, Known, OnlyLast, WhoIsWhere, HandlesKnown, ArmedWaits,
       Handles, Kinds, Begin, Goes
<1> QED BY <1>1, <1>2, <1>3, <1>4 DEF Known

(* It looks whether it is to go on. *)
LEMMA LoopTypes ==
  ASSUME TypeOK, NEW t \in Threads, Loop(t)
  PROVE  TypeOK'
<1>1. callback' \in Funcs \cup {None} /\ active' \in BOOLEAN /\ continuous' \in BOOLEAN
  BY EventAssumption DEF TypeOK, Loop, Goes
<1>2. /\ wait_thread' \in 0 .. sets' /\ wait_event' \in 0 .. sets' /\ closing_event' \in 0 .. sets'
      /\ sets' \in 0 .. MaxSets /\ events' \in 0 .. MaxEvents
      /\ joined' \in 0 .. sets' /\ armed' \in 0 .. sets'
  BY EventAssumption DEF TypeOK, Loop, Goes
<1>3. signalled' \in BOOLEAN /\ registered' \in BOOLEAN /\ overtaken' \in BOOLEAN
  BY EventAssumption DEF TypeOK, Loop, Goes
<1>4. closing' \subseteq 1 .. sets' /\ open' \subseteq Kinds \X (1 .. sets')
  BY EventAssumption DEF TypeOK, Kinds, Handles, Loop, Goes
<1>5. /\ at' \in [Threads -> Running \cup {"none", "suspended", "ended"}]
      /\ waits_on' \in [Threads -> Nat \X Nat] /\ rc' \in [Threads -> {0, 1}]
      /\ mode' \in [Threads -> {"once", "continuous"}] /\ calls' \in [Threads -> Nat]
  BY EventAssumption DEF TypeOK, Loop, Goes
<1>6. /\ pc' \in {"idle", "kernelEvent", "closingEvent", "thread", "resume",
              "setClosing", "join", "joining", "close", "zero"}
      /\ pc' # "idle" => sets' > 0
  BY EventAssumption DEF TypeOK, Loop, Goes
<1> QED BY <1>1, <1>2, <1>3, <1>4, <1>5, <1>6 DEF TypeOK

LEMMA LoopKnown ==
  ASSUME TypeOK, Known, ~overtaken', NEW t \in Threads, Loop(t)
  PROVE  Known'
<1>1. OnlyLast'
  BY EventAssumption DEF TypeOK, Known, OnlyLast, WhoIsWhere, Loop, Goes
<1>2. WhoIsWhere'
  BY EventAssumption DEF TypeOK, Known, OnlyLast, WhoIsWhere, HandlesKnown, Handles, Loop,
       Goes
<1>3. HandlesKnown'
  BY EventAssumption DEF TypeOK, Known, OnlyLast, WhoIsWhere, HandlesKnown, Handles, Kinds,
       Loop, Goes
<1>4. ArmedWaits'
  BY EventAssumption DEF TypeOK, Known, OnlyLast, WhoIsWhere, HandlesKnown, ArmedWaits,
       Handles, Kinds, Loop, Goes
<1> QED BY <1>1, <1>2, <1>3, <1>4 DEF Known

(* Its wait ends. *)
LEMMA WaitTypes ==
  ASSUME TypeOK, NEW t \in Threads, Wait(t)
  PROVE  TypeOK'
<1>1. callback' \in Funcs \cup {None} /\ active' \in BOOLEAN /\ continuous' \in BOOLEAN
  BY EventAssumption DEF TypeOK, Wait, Goes
<1>2. /\ wait_thread' \in 0 .. sets' /\ wait_event' \in 0 .. sets' /\ closing_event' \in 0 .. sets'
      /\ sets' \in 0 .. MaxSets /\ events' \in 0 .. MaxEvents
      /\ joined' \in 0 .. sets' /\ armed' \in 0 .. sets'
  BY EventAssumption DEF TypeOK, Wait, Goes
<1>3. signalled' \in BOOLEAN /\ registered' \in BOOLEAN /\ overtaken' \in BOOLEAN
  BY EventAssumption DEF TypeOK, Wait, Goes
<1>4. closing' \subseteq 1 .. sets' /\ open' \subseteq Kinds \X (1 .. sets')
  BY EventAssumption DEF TypeOK, Kinds, Handles, Wait, Goes
<1>5. /\ at' \in [Threads -> Running \cup {"none", "suspended", "ended"}]
      /\ waits_on' \in [Threads -> Nat \X Nat] /\ rc' \in [Threads -> {0, 1}]
      /\ mode' \in [Threads -> {"once", "continuous"}] /\ calls' \in [Threads -> Nat]
  BY EventAssumption DEF TypeOK, Wait, Goes
<1>6. /\ pc' \in {"idle", "kernelEvent", "closingEvent", "thread", "resume",
              "setClosing", "join", "joining", "close", "zero"}
      /\ pc' # "idle" => sets' > 0
  BY EventAssumption DEF TypeOK, Wait, Goes
<1> QED BY <1>1, <1>2, <1>3, <1>4, <1>5, <1>6 DEF TypeOK

LEMMA WaitKnown ==
  ASSUME TypeOK, Known, ~overtaken', NEW t \in Threads, Wait(t)
  PROVE  Known'
<1>1. OnlyLast'
  BY EventAssumption DEF TypeOK, Known, OnlyLast, WhoIsWhere, Wait, Goes
<1>2. WhoIsWhere'
  BY EventAssumption DEF TypeOK, Known, OnlyLast, WhoIsWhere, HandlesKnown, Handles, Wait,
       Goes
<1>3. HandlesKnown'
  BY EventAssumption DEF TypeOK, Known, OnlyLast, WhoIsWhere, HandlesKnown, Handles, Kinds,
       Wait, Goes
<1>4. ArmedWaits'
  <2>1. /\ at[t] = "wait" /\ at' = [at EXCEPT ![t] = "check"]
        /\ UNCHANGED <<sets, mode, pc, registered, callback, closing, armed>>
    BY DEF Wait, Goes
  <2>2. at'[t] = "check" /\ t = sets
    BY <2>1 DEF TypeOK, Known, OnlyLast
  <2>3. ASSUME armed = t PROVE rc'[t] = 0
    <3>1. pc = "idle" /\ callback # None /\ t \notin closing
      BY <2>2, <2>3 DEF Known, ArmedWaits
    <3>2. wait_event = t /\ closing_event = t /\ Handles \subseteq open /\ waits_on[t] = <<t, t>>
      BY <2>1, <2>2, <3>1 DEF Known, HandlesKnown
    <3>3. <<"event", waits_on[t][1]>> \in open /\ <<"closing", waits_on[t][2]>> \in open
      BY <3>2 DEF Handles
    <3>4. waits_on[t][2] \notin closing
      BY <3>1, <3>2
    <3> QED BY <3>3, <3>4 DEF TypeOK, Wait
  <2>4. \A u \in Threads : armed = u => u = t
    BY <2>2 DEF Known, ArmedWaits
  <2> QED BY <2>1, <2>2, <2>3, <2>4 DEF Known, ArmedWaits
<1> QED BY <1>1, <1>2, <1>3, <1>4 DEF Known

(* It looks what ended the wait. *)
LEMMA CheckTypes ==
  ASSUME TypeOK, NEW t \in Threads, Check(t)
  PROVE  TypeOK'
<1>1. callback' \in Funcs \cup {None} /\ active' \in BOOLEAN /\ continuous' \in BOOLEAN
  BY EventAssumption DEF TypeOK, Check, Goes
<1>2. /\ wait_thread' \in 0 .. sets' /\ wait_event' \in 0 .. sets' /\ closing_event' \in 0 .. sets'
      /\ sets' \in 0 .. MaxSets /\ events' \in 0 .. MaxEvents
      /\ joined' \in 0 .. sets' /\ armed' \in 0 .. sets'
  BY EventAssumption DEF TypeOK, Check, Goes
<1>3. signalled' \in BOOLEAN /\ registered' \in BOOLEAN /\ overtaken' \in BOOLEAN
  BY EventAssumption DEF TypeOK, Check, Goes
<1>4. closing' \subseteq 1 .. sets' /\ open' \subseteq Kinds \X (1 .. sets')
  BY EventAssumption DEF TypeOK, Kinds, Handles, Check, Goes
<1>5. /\ at' \in [Threads -> Running \cup {"none", "suspended", "ended"}]
      /\ waits_on' \in [Threads -> Nat \X Nat] /\ rc' \in [Threads -> {0, 1}]
      /\ mode' \in [Threads -> {"once", "continuous"}] /\ calls' \in [Threads -> Nat]
  BY EventAssumption DEF TypeOK, Check, Goes
<1>6. /\ pc' \in {"idle", "kernelEvent", "closingEvent", "thread", "resume",
              "setClosing", "join", "joining", "close", "zero"}
      /\ pc' # "idle" => sets' > 0
  BY EventAssumption DEF TypeOK, Check, Goes
<1> QED BY <1>1, <1>2, <1>3, <1>4, <1>5, <1>6 DEF TypeOK

LEMMA CheckKnown ==
  ASSUME TypeOK, Known, ~overtaken', NEW t \in Threads, Check(t)
  PROVE  Known'
<1>1. OnlyLast'
  BY EventAssumption DEF TypeOK, Known, OnlyLast, WhoIsWhere, Check, Goes
<1>2. WhoIsWhere'
  BY EventAssumption DEF TypeOK, Known, OnlyLast, WhoIsWhere, HandlesKnown, Handles, Check,
       Goes
<1>3. HandlesKnown'
  BY EventAssumption DEF TypeOK, Known, OnlyLast, WhoIsWhere, HandlesKnown, Handles, Kinds,
       Check, Goes
<1>4. ArmedWaits'
  BY EventAssumption DEF TypeOK, Known, OnlyLast, WhoIsWhere, HandlesKnown, ArmedWaits,
       Handles, Kinds, Check, Goes
<1> QED BY <1>1, <1>2, <1>3, <1>4 DEF Known

(* It calls. *)
LEMMA CallbackTypes ==
  ASSUME TypeOK, NEW t \in Threads, Callback(t)
  PROVE  TypeOK'
<1>1. callback' \in Funcs \cup {None} /\ active' \in BOOLEAN /\ continuous' \in BOOLEAN
  BY EventAssumption DEF TypeOK, Callback, Goes
<1>2. /\ wait_thread' \in 0 .. sets' /\ wait_event' \in 0 .. sets' /\ closing_event' \in 0 .. sets'
      /\ sets' \in 0 .. MaxSets /\ events' \in 0 .. MaxEvents
      /\ joined' \in 0 .. sets' /\ armed' \in 0 .. sets'
  BY EventAssumption DEF TypeOK, Callback, Goes
<1>3. signalled' \in BOOLEAN /\ registered' \in BOOLEAN /\ overtaken' \in BOOLEAN
  BY EventAssumption DEF TypeOK, Callback, Goes
<1>4. closing' \subseteq 1 .. sets' /\ open' \subseteq Kinds \X (1 .. sets')
  BY EventAssumption DEF TypeOK, Kinds, Handles, Callback, Goes
<1>5. /\ at' \in [Threads -> Running \cup {"none", "suspended", "ended"}]
      /\ waits_on' \in [Threads -> Nat \X Nat] /\ rc' \in [Threads -> {0, 1}]
      /\ mode' \in [Threads -> {"once", "continuous"}] /\ calls' \in [Threads -> Nat]
  <2>1. /\ at[t] = "call" /\ at' = [at EXCEPT ![t] = IF callback # None THEN "callback" ELSE "after"]
        /\ calls' = IF callback # None THEN [calls EXCEPT ![t] = @ + 1] ELSE calls
        /\ armed' = IF callback # None /\ armed = t /\ mode[t] = "once" THEN 0 ELSE armed
        /\ UNCHANGED <<sets, mode, pc, registered, callback, closing, rc>>
    BY DEF Callback, Goes
  <2>2. at' \in [Threads -> Running \cup {"none", "suspended", "ended"}]
    BY <2>1 DEF TypeOK
  <2>3. calls' \in [Threads -> Nat]
    BY <2>1 DEF TypeOK
  <2>4. UNCHANGED <<waits_on, rc, mode>>
    BY DEF Callback
  <2> QED BY <2>2, <2>3, <2>4 DEF TypeOK
<1>6. /\ pc' \in {"idle", "kernelEvent", "closingEvent", "thread", "resume",
              "setClosing", "join", "joining", "close", "zero"}
      /\ pc' # "idle" => sets' > 0
  BY EventAssumption DEF TypeOK, Callback, Goes
<1> QED BY <1>1, <1>2, <1>3, <1>4, <1>5, <1>6 DEF TypeOK

LEMMA CallbackKnown ==
  ASSUME TypeOK, Known, ~overtaken', NEW t \in Threads, Callback(t)
  PROVE  Known'
<1>1. OnlyLast'
  <2>1. /\ at[t] = "call" /\ at' = [at EXCEPT ![t] = IF callback # None THEN "callback" ELSE "after"]
        /\ calls' = IF callback # None THEN [calls EXCEPT ![t] = @ + 1] ELSE calls
        /\ armed' = IF callback # None /\ armed = t /\ mode[t] = "once" THEN 0 ELSE armed
        /\ UNCHANGED <<sets, mode, pc, registered, callback, closing, rc>>
    BY DEF Callback, Goes
  <2>2. t = sets /\ (mode[t] = "once" => calls[t] = 0)
    BY <2>1 DEF Known, OnlyLast
  <2>3. /\ at'[t] \in {"callback", "after"} /\ calls'[t] \in {calls[t], calls[t] + 1}
        /\ \A u \in Threads : u # t => at'[u] = at[u] /\ calls'[u] = calls[u]
    BY <2>1 DEF TypeOK
  <2>4. mode[t] = "once" => calls'[t] <= 1
    BY <2>2, <2>3
  <2>5. ~(t > sets)
    BY <2>2
  <2> QED BY <2>1, <2>2, <2>3, <2>4, <2>5 DEF Known, OnlyLast
<1>2. WhoIsWhere'
  BY EventAssumption DEF TypeOK, Known, OnlyLast, WhoIsWhere, HandlesKnown, Handles, Callback,
       Goes
<1>3. HandlesKnown'
  BY EventAssumption DEF TypeOK, Known, OnlyLast, WhoIsWhere, HandlesKnown, Handles, Kinds,
       Callback, Goes
<1>4. ArmedWaits'
  <2>1. /\ at[t] = "call" /\ at' = [at EXCEPT ![t] = IF callback # None THEN "callback" ELSE "after"]
        /\ calls' = IF callback # None THEN [calls EXCEPT ![t] = @ + 1] ELSE calls
        /\ armed' = IF callback # None /\ armed = t /\ mode[t] = "once" THEN 0 ELSE armed
        /\ UNCHANGED <<sets, mode, pc, registered, callback, closing, rc>>
    BY DEF Callback, Goes
  <2>2. t = sets
    BY <2>1 DEF Known, OnlyLast
  <2>3. armed' # 0 => armed' = armed /\ callback # None /\ armed = sets
    BY <2>1 DEF Known, ArmedWaits
  <2>4. armed' = t => mode[t] # "once"
    BY <2>1, <2>3 DEF Threads
  <2>5. \A u \in Threads : armed' = u => u = t
    BY <2>2, <2>3 DEF Threads
  <2> QED BY <2>1, <2>3, <2>4, <2>5 DEF Known, ArmedWaits
<1> QED BY <1>1, <1>2, <1>3, <1>4 DEF Known

(* The call returns. *)
LEMMA CallbackReturnsTypes ==
  ASSUME TypeOK, NEW t \in Threads, CallbackReturns(t)
  PROVE  TypeOK'
<1>1. callback' \in Funcs \cup {None} /\ active' \in BOOLEAN /\ continuous' \in BOOLEAN
  BY EventAssumption DEF TypeOK, CallbackReturns, Goes
<1>2. /\ wait_thread' \in 0 .. sets' /\ wait_event' \in 0 .. sets' /\ closing_event' \in 0 .. sets'
      /\ sets' \in 0 .. MaxSets /\ events' \in 0 .. MaxEvents
      /\ joined' \in 0 .. sets' /\ armed' \in 0 .. sets'
  BY EventAssumption DEF TypeOK, CallbackReturns, Goes
<1>3. signalled' \in BOOLEAN /\ registered' \in BOOLEAN /\ overtaken' \in BOOLEAN
  BY EventAssumption DEF TypeOK, CallbackReturns, Goes
<1>4. closing' \subseteq 1 .. sets' /\ open' \subseteq Kinds \X (1 .. sets')
  BY EventAssumption DEF TypeOK, Kinds, Handles, CallbackReturns, Goes
<1>5. /\ at' \in [Threads -> Running \cup {"none", "suspended", "ended"}]
      /\ waits_on' \in [Threads -> Nat \X Nat] /\ rc' \in [Threads -> {0, 1}]
      /\ mode' \in [Threads -> {"once", "continuous"}] /\ calls' \in [Threads -> Nat]
  BY EventAssumption DEF TypeOK, CallbackReturns, Goes
<1>6. /\ pc' \in {"idle", "kernelEvent", "closingEvent", "thread", "resume",
              "setClosing", "join", "joining", "close", "zero"}
      /\ pc' # "idle" => sets' > 0
  BY EventAssumption DEF TypeOK, CallbackReturns, Goes
<1> QED BY <1>1, <1>2, <1>3, <1>4, <1>5, <1>6 DEF TypeOK

LEMMA CallbackReturnsKnown ==
  ASSUME TypeOK, Known, ~overtaken', NEW t \in Threads, CallbackReturns(t)
  PROVE  Known'
<1>1. OnlyLast'
  BY EventAssumption DEF TypeOK, Known, OnlyLast, WhoIsWhere, CallbackReturns, Goes
<1>2. WhoIsWhere'
  BY EventAssumption DEF TypeOK, Known, OnlyLast, WhoIsWhere, HandlesKnown, Handles,
       CallbackReturns, Goes
<1>3. HandlesKnown'
  BY EventAssumption DEF TypeOK, Known, OnlyLast, WhoIsWhere, HandlesKnown, Handles, Kinds,
       CallbackReturns, Goes
<1>4. ArmedWaits'
  BY EventAssumption DEF TypeOK, Known, OnlyLast, WhoIsWhere, HandlesKnown, ArmedWaits,
       Handles, Kinds, CallbackReturns, Goes
<1> QED BY <1>1, <1>2, <1>3, <1>4 DEF Known

(* It goes on or ends. *)
LEMMA AfterTypes ==
  ASSUME TypeOK, NEW t \in Threads, After(t)
  PROVE  TypeOK'
<1>1. callback' \in Funcs \cup {None} /\ active' \in BOOLEAN /\ continuous' \in BOOLEAN
  BY EventAssumption DEF TypeOK, After, Goes
<1>2. /\ wait_thread' \in 0 .. sets' /\ wait_event' \in 0 .. sets' /\ closing_event' \in 0 .. sets'
      /\ sets' \in 0 .. MaxSets /\ events' \in 0 .. MaxEvents
      /\ joined' \in 0 .. sets' /\ armed' \in 0 .. sets'
  BY EventAssumption DEF TypeOK, After, Goes
<1>3. signalled' \in BOOLEAN /\ registered' \in BOOLEAN /\ overtaken' \in BOOLEAN
  BY EventAssumption DEF TypeOK, After, Goes
<1>4. closing' \subseteq 1 .. sets' /\ open' \subseteq Kinds \X (1 .. sets')
  BY EventAssumption DEF TypeOK, Kinds, Handles, After, Goes
<1>5. /\ at' \in [Threads -> Running \cup {"none", "suspended", "ended"}]
      /\ waits_on' \in [Threads -> Nat \X Nat] /\ rc' \in [Threads -> {0, 1}]
      /\ mode' \in [Threads -> {"once", "continuous"}] /\ calls' \in [Threads -> Nat]
  BY EventAssumption DEF TypeOK, After, Goes
<1>6. /\ pc' \in {"idle", "kernelEvent", "closingEvent", "thread", "resume",
              "setClosing", "join", "joining", "close", "zero"}
      /\ pc' # "idle" => sets' > 0
  BY EventAssumption DEF TypeOK, After, Goes
<1> QED BY <1>1, <1>2, <1>3, <1>4, <1>5, <1>6 DEF TypeOK

LEMMA AfterKnown ==
  ASSUME TypeOK, Known, ~overtaken', NEW t \in Threads, After(t)
  PROVE  Known'
<1>1. OnlyLast'
  BY EventAssumption DEF TypeOK, Known, OnlyLast, WhoIsWhere, After, Goes
<1>2. WhoIsWhere'
  BY EventAssumption DEF TypeOK, Known, OnlyLast, WhoIsWhere, HandlesKnown, Handles, After,
       Goes
<1>3. HandlesKnown'
  BY EventAssumption DEF TypeOK, Known, OnlyLast, WhoIsWhere, HandlesKnown, Handles, Kinds,
       After, Goes
<1>4. ArmedWaits'
  BY EventAssumption DEF TypeOK, Known, OnlyLast, WhoIsWhere, HandlesKnown, ArmedWaits,
       Handles, Kinds, After, Goes
<1> QED BY <1>1, <1>2, <1>3, <1>4 DEF Known

(* A thread that called once tells the driver. *)
LEMMA ThreadDelTypes ==
  ASSUME TypeOK, NEW t \in Threads, ThreadDel(t)
  PROVE  TypeOK'
<1>1. callback' \in Funcs \cup {None} /\ active' \in BOOLEAN /\ continuous' \in BOOLEAN
  BY EventAssumption DEF TypeOK, ThreadDel, Goes
<1>2. /\ wait_thread' \in 0 .. sets' /\ wait_event' \in 0 .. sets' /\ closing_event' \in 0 .. sets'
      /\ sets' \in 0 .. MaxSets /\ events' \in 0 .. MaxEvents
      /\ joined' \in 0 .. sets' /\ armed' \in 0 .. sets'
  BY EventAssumption DEF TypeOK, ThreadDel, Goes
<1>3. signalled' \in BOOLEAN /\ registered' \in BOOLEAN /\ overtaken' \in BOOLEAN
  BY EventAssumption DEF TypeOK, ThreadDel, Goes
<1>4. closing' \subseteq 1 .. sets' /\ open' \subseteq Kinds \X (1 .. sets')
  BY EventAssumption DEF TypeOK, Kinds, Handles, ThreadDel, Goes
<1>5. /\ at' \in [Threads -> Running \cup {"none", "suspended", "ended"}]
      /\ waits_on' \in [Threads -> Nat \X Nat] /\ rc' \in [Threads -> {0, 1}]
      /\ mode' \in [Threads -> {"once", "continuous"}] /\ calls' \in [Threads -> Nat]
  BY EventAssumption DEF TypeOK, ThreadDel, Goes
<1>6. /\ pc' \in {"idle", "kernelEvent", "closingEvent", "thread", "resume",
              "setClosing", "join", "joining", "close", "zero"}
      /\ pc' # "idle" => sets' > 0
  BY EventAssumption DEF TypeOK, ThreadDel, Goes
<1> QED BY <1>1, <1>2, <1>3, <1>4, <1>5, <1>6 DEF TypeOK

LEMMA ThreadDelKnown ==
  ASSUME TypeOK, Known, ~overtaken', NEW t \in Threads, ThreadDel(t)
  PROVE  Known'
<1>1. OnlyLast'
  BY EventAssumption DEF TypeOK, Known, OnlyLast, WhoIsWhere, ThreadDel, Goes
<1>2. WhoIsWhere'
  BY EventAssumption DEF TypeOK, Known, OnlyLast, WhoIsWhere, HandlesKnown, Handles,
       ThreadDel, Goes
<1>3. HandlesKnown'
  BY EventAssumption DEF TypeOK, Known, OnlyLast, WhoIsWhere, HandlesKnown, Handles, Kinds,
       ThreadDel, Goes
<1>4. ArmedWaits'
  BY EventAssumption DEF TypeOK, Known, OnlyLast, WhoIsWhere, HandlesKnown, ArmedWaits,
       Handles, Kinds, ThreadDel, Goes
<1> QED BY <1>1, <1>2, <1>3, <1>4 DEF Known

(* It closes the handles. *)
LEMMA ThreadCloseTypes ==
  ASSUME TypeOK, NEW t \in Threads, ThreadClose(t)
  PROVE  TypeOK'
<1>1. callback' \in Funcs \cup {None} /\ active' \in BOOLEAN /\ continuous' \in BOOLEAN
  BY EventAssumption DEF TypeOK, ThreadClose, CloseHandles, Goes
<1>2. /\ wait_thread' \in 0 .. sets' /\ wait_event' \in 0 .. sets' /\ closing_event' \in 0 .. sets'
      /\ sets' \in 0 .. MaxSets /\ events' \in 0 .. MaxEvents
      /\ joined' \in 0 .. sets' /\ armed' \in 0 .. sets'
  BY EventAssumption DEF TypeOK, ThreadClose, CloseHandles, Goes
<1>3. signalled' \in BOOLEAN /\ registered' \in BOOLEAN /\ overtaken' \in BOOLEAN
  BY EventAssumption DEF TypeOK, ThreadClose, CloseHandles, Goes
<1>4. closing' \subseteq 1 .. sets' /\ open' \subseteq Kinds \X (1 .. sets')
  BY EventAssumption DEF TypeOK, Kinds, Handles, ThreadClose, CloseHandles, Goes
<1>5. /\ at' \in [Threads -> Running \cup {"none", "suspended", "ended"}]
      /\ waits_on' \in [Threads -> Nat \X Nat] /\ rc' \in [Threads -> {0, 1}]
      /\ mode' \in [Threads -> {"once", "continuous"}] /\ calls' \in [Threads -> Nat]
  BY EventAssumption DEF TypeOK, ThreadClose, CloseHandles, Goes
<1>6. /\ pc' \in {"idle", "kernelEvent", "closingEvent", "thread", "resume",
              "setClosing", "join", "joining", "close", "zero"}
      /\ pc' # "idle" => sets' > 0
  BY EventAssumption DEF TypeOK, ThreadClose, CloseHandles, Goes
<1> QED BY <1>1, <1>2, <1>3, <1>4, <1>5, <1>6 DEF TypeOK

LEMMA ThreadCloseKnown ==
  ASSUME TypeOK, Known, ~overtaken', NEW t \in Threads, ThreadClose(t)
  PROVE  Known'
<1>1. OnlyLast'
  BY EventAssumption DEF TypeOK, Known, OnlyLast, WhoIsWhere, ThreadClose, CloseHandles, Goes
<1>2. WhoIsWhere'
  BY EventAssumption DEF TypeOK, Known, OnlyLast, WhoIsWhere, HandlesKnown, Handles,
       ThreadClose, CloseHandles, Goes
<1>3. HandlesKnown'
  BY EventAssumption DEF TypeOK, Known, OnlyLast, WhoIsWhere, HandlesKnown, Handles, Kinds,
       ThreadClose, CloseHandles, Goes
<1>4. ArmedWaits'
  BY EventAssumption DEF TypeOK, Known, OnlyLast, WhoIsWhere, HandlesKnown, ArmedWaits,
       Handles, Kinds, ThreadClose, CloseHandles, Goes
<1> QED BY <1>1, <1>2, <1>3, <1>4 DEF Known

(* It zeroes the handler and ends. *)
LEMMA ThreadZeroTypes ==
  ASSUME TypeOK, NEW t \in Threads, ThreadZero(t)
  PROVE  TypeOK'
<1>1. callback' \in Funcs \cup {None} /\ active' \in BOOLEAN /\ continuous' \in BOOLEAN
  BY EventAssumption DEF TypeOK, ThreadZero, Zero, Goes
<1>2. /\ wait_thread' \in 0 .. sets' /\ wait_event' \in 0 .. sets' /\ closing_event' \in 0 .. sets'
      /\ sets' \in 0 .. MaxSets /\ events' \in 0 .. MaxEvents
      /\ joined' \in 0 .. sets' /\ armed' \in 0 .. sets'
  BY EventAssumption DEF TypeOK, ThreadZero, Zero, Goes
<1>3. signalled' \in BOOLEAN /\ registered' \in BOOLEAN /\ overtaken' \in BOOLEAN
  BY EventAssumption DEF TypeOK, ThreadZero, Zero, Goes
<1>4. closing' \subseteq 1 .. sets' /\ open' \subseteq Kinds \X (1 .. sets')
  BY EventAssumption DEF TypeOK, Kinds, Handles, ThreadZero, Zero, Goes
<1>5. /\ at' \in [Threads -> Running \cup {"none", "suspended", "ended"}]
      /\ waits_on' \in [Threads -> Nat \X Nat] /\ rc' \in [Threads -> {0, 1}]
      /\ mode' \in [Threads -> {"once", "continuous"}] /\ calls' \in [Threads -> Nat]
  BY EventAssumption DEF TypeOK, ThreadZero, Zero, Goes
<1>6. /\ pc' \in {"idle", "kernelEvent", "closingEvent", "thread", "resume",
              "setClosing", "join", "joining", "close", "zero"}
      /\ pc' # "idle" => sets' > 0
  BY EventAssumption DEF TypeOK, ThreadZero, Zero, Goes
<1> QED BY <1>1, <1>2, <1>3, <1>4, <1>5, <1>6 DEF TypeOK

LEMMA ThreadZeroKnown ==
  ASSUME TypeOK, Known, ~overtaken', NEW t \in Threads, ThreadZero(t)
  PROVE  Known'
<1>1. OnlyLast'
  BY EventAssumption DEF TypeOK, Known, OnlyLast, WhoIsWhere, ThreadZero, Zero, Goes
<1>2. WhoIsWhere'
  BY EventAssumption DEF TypeOK, Known, OnlyLast, WhoIsWhere, HandlesKnown, Handles,
       ThreadZero, Zero, Goes
<1>3. HandlesKnown'
  BY EventAssumption DEF TypeOK, Known, OnlyLast, WhoIsWhere, HandlesKnown, Handles, Kinds,
       ThreadZero, Zero, Goes
<1>4. ArmedWaits'
  BY EventAssumption DEF TypeOK, Known, OnlyLast, WhoIsWhere, HandlesKnown, ArmedWaits,
       Handles, Kinds, ThreadZero, Zero, Goes
<1> QED BY <1>1, <1>2, <1>3, <1>4 DEF Known

(* The invariant holds at first. *)
LEMMA InitInv == Init => IndInv
<1> SUFFICES ASSUME Init PROVE IndInv
  OBVIOUS
<1>1. TypeOK
  <2>1. callback \in Funcs \cup {None} /\ active \in BOOLEAN /\ continuous \in BOOLEAN
    BY DEF Init
  <2>2. signalled \in BOOLEAN /\ registered \in BOOLEAN /\ overtaken \in BOOLEAN
    BY DEF Init
  <2>3. /\ wait_thread \in 0 .. sets /\ wait_event \in 0 .. sets /\ closing_event \in 0 .. sets
        /\ sets \in 0 .. MaxSets /\ events \in 0 .. MaxEvents
        /\ joined \in 0 .. sets /\ armed \in 0 .. sets
    BY EventAssumption DEF Init
  <2>4. /\ at \in [Threads -> Running \cup {"none", "suspended", "ended"}]
        /\ waits_on \in [Threads -> Nat \X Nat]
        /\ rc \in [Threads -> {0, 1}] /\ calls \in [Threads -> Nat]
        /\ mode \in [Threads -> {"once", "continuous"}]
        /\ closing \subseteq 1 .. sets /\ open \subseteq Kinds \X (1 .. sets)
    BY DEF Init
  <2> QED BY <2>1, <2>2, <2>3, <2>4 DEF Init, TypeOK
<1>2. OnlyLast
  BY EventAssumption DEF Init, OnlyLast
<1>3. WhoIsWhere
  BY EventAssumption DEF Init, WhoIsWhere
<1>4. HandlesKnown
  BY EventAssumption DEF Init, HandlesKnown, Handles
<1>5. ArmedWaits
  BY EventAssumption DEF Init, ArmedWaits
<1> QED BY <1>1, <1>2, <1>3, <1>4, <1>5 DEF IndInv, Known

(* Every step keeps the types. *)
LEMMA TypesKept ==
  ASSUME TypeOK, [Next]_vars
  PROVE  TypeOK'
<1>1. ASSUME NEW t \in Threads, Thread(t) PROVE TypeOK'
  BY <1>1, BeginTypes, LoopTypes, WaitTypes, CheckTypes, CallbackTypes, CallbackReturnsTypes,
     AfterTypes, ThreadDelTypes, ThreadCloseTypes, ThreadZeroTypes
  DEF Thread
<1>2. CASE Program
  BY <1>2, KernelEventTypes, ClosingEventTypes, CreateThreadTypes, ResumeTypes, SetClosingTypes,
     JoinTypes, JoinedTypes, ClearCloseTypes, ClearZeroTypes
  DEF Program
<1>3. ASSUME NEW func \in Funcs, NEW m \in Modes, Set(func, m) PROVE TypeOK'
  BY <1>3, SetTypes
<1>4. CASE Event
  BY <1>4, EventTypes
<1>5. CASE Remove
  BY <1>5, RemoveTypes
<1>6. CASE UNCHANGED vars
  BY <1>6 DEF TypeOK, vars
<1> QED BY <1>1, <1>2, <1>3, <1>4, <1>5, <1>6 DEF Next

(* What a step overtakes stays overtaken. *)
LEMMA OvertakenStays ==
  ASSUME TypeOK, [Next]_vars, ~overtaken'
  PROVE  ~overtaken
<1>1. ASSUME NEW t \in Threads, Thread(t) PROVE overtaken' = overtaken
  BY <1>1 DEF Thread, Begin, Loop, Wait, Check, Callback, CallbackReturns, After, ThreadDel,
       ThreadClose, ThreadZero
<1>2. CASE Program
  BY <1>2 DEF Program, KernelEvent, ClosingEvent, CreateThread, Resume, SetClosing, Join, Joined,
       ClearClose, ClearZero
<1>3. ASSUME NEW func \in Funcs, NEW m \in Modes, Set(func, m) PROVE ~overtaken
  BY <1>3 DEF Set
<1> QED BY <1>1, <1>2, <1>3 DEF Next, Event, Remove, vars

(* Every step keeps the rest, unless it sets a function over a thread that *)
(* has still to zero the handler.                                          *)
LEMMA KnownKept ==
  ASSUME TypeOK, Known, ~overtaken', [Next]_vars
  PROVE  Known'
<1>1. ASSUME NEW t \in Threads, Thread(t) PROVE Known'
  BY <1>1, BeginKnown, LoopKnown, WaitKnown, CheckKnown, CallbackKnown, CallbackReturnsKnown,
     AfterKnown, ThreadDelKnown, ThreadCloseKnown, ThreadZeroKnown
  DEF Thread
<1>2. CASE Program
  BY <1>2, KernelEventKnown, ClosingEventKnown, CreateThreadKnown, ResumeKnown, SetClosingKnown,
     JoinKnown, JoinedKnown, ClearCloseKnown, ClearZeroKnown
  DEF Program
<1>3. ASSUME NEW func \in Funcs, NEW m \in Modes, Set(func, m) PROVE Known'
  BY <1>3, SetKnown
<1>4. CASE Event
  BY <1>4, EventKnown
<1>5. CASE Remove
  BY <1>5, RemoveKnown
<1>6. CASE UNCHANGED vars
  BY <1>6 DEF Known, OnlyLast, WhoIsWhere, HandlesKnown, ArmedWaits, Handles, vars
<1> QED BY <1>1, <1>2, <1>3, <1>4, <1>5, <1>6 DEF Next

(* The inductive invariant of the event functions holds in every reachable *)
(* state: until a function is set over a thread that has still to zero the *)
(* handler, the handler belongs to the thread last made.                   *)
THEOREM Invariance == Spec => []IndInv
<1>1. ASSUME IndInv, [Next]_vars PROVE IndInv'
  <2>1. TypeOK'
    BY <1>1, TypesKept DEF IndInv
  <2>2. ASSUME ~overtaken' PROVE Known'
    BY <1>1, <2>2, OvertakenStays, KnownKept DEF IndInv
  <2> QED BY <2>1, <2>2 DEF IndInv
<1> QED BY <1>1, InitInv, PTL DEF Spec

(* After edt_remove_event_func no call is under way, also of a function    *)
(* that was to be called once, until one is set over its thread.           *)
THEOREM NoneAfterRemove == Spec => []NoCallbackAfterRemove
<1>1. IndInv => NoCallbackAfterRemove
  BY EventAssumption DEF IndInv, Known, TypeOK, OnlyLast, WhoIsWhere, NoCallbackAfterRemove
<1> QED BY <1>1, Invariance, PTL

(* A thread that is to call once calls at most once, also when its         *)
(* function is removed meanwhile, as long as no function was set over a    *)
(* thread that has still to zero the handler.                              *)
THEOREM CalledOnce == Spec => []OnceIsOnce
<1>1. IndInv => OnceIsOnce
  BY DEF IndInv, Known, OnlyLast, OnceIsOnce, CalledForOneEvent
<1> QED BY <1>1, Invariance, PTL

(* What edt_set_event_func has set up stays until the function was called  *)
(* for its only event or its removal has begun, as long as no function was *)
(* set over a thread that has still to zero the handler.                   *)
THEOREM StaysSetUp == Spec => []HandlerStays
<1>1. IndInv => HandlerStays
  <2> SUFFICES ASSUME IndInv, armed # 0, ~overtaken
               PROVE  /\ callback # None /\ active
                      /\ wait_thread = armed /\ wait_event = armed /\ closing_event = armed
                      /\ Handles \subseteq open
                      /\ registered
                      /\ at[armed] \in Running
    BY DEF HandlerStays
  <2>1. /\ armed \in Threads /\ armed = sets /\ pc = "idle" /\ callback # None /\ registered
        /\ mode[armed] \in {"once", "continuous"}
    BY EventAssumption DEF IndInv, Known, TypeOK, ArmedWaits
  <2>2. active /\ at[armed] \in Running
    BY <2>1 DEF IndInv, Known, WhoIsWhere
  <2>3. at[armed] # "zero"
    BY <2>1 DEF IndInv, Known, OnlyLast, ArmedWaits
  <2>4. wait_thread = armed /\ wait_event = armed /\ closing_event = armed
    BY <2>1 DEF IndInv, Known, HandlesKnown
  <2>5. Handles \subseteq open
    BY <2>1, <2>3 DEF IndInv, Known, HandlesKnown
  <2> QED BY <2>1, <2>2, <2>4, <2>5
<1> QED BY <1>1, Invariance, PTL

(* No handle is forgotten, also when an event or a thread cannot be        *)
(* created and when the program and the thread clear the handler both, as  *)
(* long as no function was set over a thread that has still to zero it.    *)
THEOREM HandlesKept == Spec => []NoHandleLost
<1>1. IndInv => NoHandleLost
  BY DEF IndInv, Known, HandlesKnown, NoHandleLost
<1> QED BY <1>1, Invariance, PTL

=============================================================================
