---------------------------- MODULE EventThread ----------------------------
(***************************************************************************)
(* Event callbacks of libedt.c, as built for Windows: edt_set_event_func   *)
(* starts a thread that waits for one event of the board and calls the     *)
(* program's function, every time or once; edt_remove_event_func stops the *)
(* thread and waits for its end.  The handler is one structure per event,  *)
(* written by the program's thread and, in once mode, cleared by the       *)
(* waiting thread itself.  There is no lock.                               *)
(*                                                                         *)
(* Threads and handles are numbered by the call of edt_set_event_func that *)
(* made them; 0 is no handle, and no number is used twice.  The event      *)
(* object itself is named, and one object whatever handle it is reached    *)
(* by.  The assignments edt_set_event_func begins with are one step, and   *)
(* so is the zeroing of the structure.                                     *)
(*                                                                         *)
(* The event is one of those the documentation of edt_set_event_func       *)
(* lists.  EDT_EVENT_BUF is not: for it edt_wait_for_buffers may have made *)
(* a wait_event before, which edt_get_kernel_event would overwrite.        *)
(***************************************************************************)
EXTENDS Integers, FiniteSets

CONSTANTS
  Funcs,        (* the functions the program registers                      *)
  Modes,        (* of "once" and "continuous"                               *)
  CanFail,      (* whether events and threads can fail to be created        *)
  None,
  MaxSets,      (* bound: threads made                                      *)
  MaxEvents     (* bound: events of the board                               *)

ASSUME EventAssumption ==
  /\ None \notin Funcs
  /\ Modes \subseteq {"once", "continuous"}
  /\ CanFail \in BOOLEAN
  /\ MaxSets \in Nat /\ MaxEvents \in Nat

VARIABLES
  (* the EdtEventHandler *)
  callback, active, continuous, wait_thread, wait_event, closing_event,
  (* Windows and the driver *)
  signalled,   (* the event object: reset by the wait it ends               *)
  closing,     (* the closing events that are set                           *)
  open,        (* the open handles, <<kind, number>>                        *)
  registered,  (* the driver signals the event                              *)
  events,      (* how often it has                                          *)
  (* the waiting threads, and the program's *)
  at,          (* where each waiting thread is                              *)
  waits_on,    (* the event and the closing event it waits for              *)
  rc,          (* what ended its last wait                                  *)
  sets,        (* threads made so far                                       *)
  pc, joined,  (* where the program is, the thread it waits for             *)
  (* history *)
  mode,        (* the mode each thread was made for                         *)
  calls,       (* how often each has called                                 *)
  armed,       (* the thread whose edt_set_event_func has returned, until   *)
               (* it has made its only call, or its removal has begun; 0    *)
               (* for none                                                  *)
  overtaken    (* a function was set while the thread of an earlier one had *)
               (* still to zero the handler                                 *)

handlerVars == <<callback, active, continuous, wait_thread, wait_event, closing_event>>
systemVars  == <<signalled, closing, open, registered, events>>
historyVars == <<mode, calls, armed, overtaken>>
vars == <<handlerVars, systemVars, at, waits_on, rc, sets, pc, joined, historyVars>>

Threads == 1 .. MaxSets

Running == {"begin", "loop", "wait", "check", "call", "callback", "after", "del", "close", "zero"}

Init ==
  /\ callback = None /\ active = FALSE /\ continuous = FALSE
  /\ wait_thread = 0 /\ wait_event = 0 /\ closing_event = 0
  /\ signalled = FALSE /\ closing = {} /\ open = {}
  /\ registered = FALSE /\ events = 0
  /\ at = [t \in Threads |-> "none"] /\ rc = [t \in Threads |-> 0]
  /\ waits_on = [t \in Threads |-> <<0, 0>>]
  /\ sets = 0 /\ pc = "idle" /\ joined = 0
  /\ mode = [t \in Threads |-> "once"] /\ calls = [t \in Threads |-> 0]
  /\ armed = 0 /\ overtaken = FALSE

(***************************************************************************)
(* The board.                                                              *)
(***************************************************************************)

Event ==
  /\ registered /\ events < MaxEvents
  /\ events' = events + 1
  /\ signalled' = TRUE
  /\ UNCHANGED <<handlerVars, closing, open, registered, at, waits_on, rc, sets, pc, joined, historyVars>>

(***************************************************************************)
(* edt_clear_event_func: the handles are closed, and the structure zeroed. *)
(***************************************************************************)

Handles == {<<"thread", wait_thread>>, <<"event", wait_event>>, <<"closing", closing_event>>}

(* Mutant: the closing event is forgotten. *)
CloseHandlesTwo == open' = open \ {<<"thread", wait_thread>>, <<"event", wait_event>>}

CloseHandles == open' = open \ Handles

Zero ==
  /\ callback' = None /\ active' = FALSE /\ continuous' = FALSE
  /\ wait_thread' = 0 /\ wait_event' = 0 /\ closing_event' = 0

(***************************************************************************)
(* edt_set_event_func.                                                     *)
(***************************************************************************)

(* Mutant: a second function takes the place of the first. *)
AlreadyGoingNever == FALSE

(* A handler there is already is left alone, whatever is returned: 0 when  *)
(* it is for the same function, -1 otherwise.                              *)
AlreadyGoing == callback # None

Set(func, m) ==
  /\ pc = "idle" /\ sets < MaxSets
  /\ ~AlreadyGoing
  /\ callback' = func /\ active' = TRUE /\ continuous' = (m = "continuous")
  /\ sets' = sets + 1
  /\ mode' = [mode EXCEPT ![sets + 1] = m]
  /\ pc' = "kernelEvent"
  /\ overtaken' = (overtaken \/ \E t \in Threads : at[t] = "zero")
  /\ UNCHANGED <<wait_thread, wait_event, closing_event, systemVars, at, waits_on, rc, joined,
                 calls, armed>>

(* Mutant: what was created before is left as it is. *)
ClearFailedNot ==
  /\ pc' = "idle"
  /\ UNCHANGED <<handlerVars, systemVars, at, sets>>

(* Then all is cleared, and -1 returned.                                   *)
ClearFailed ==
  /\ pc' = "close"
  /\ UNCHANGED <<handlerVars, systemVars, at, sets>>

(* edt_get_kernel_event creates the event or opens it, and resets it.      *)
KernelEvent ==
  /\ pc = "kernelEvent"
  /\ \/ /\ wait_event' = sets
        /\ open' = open \cup {<<"event", sets>>}
        /\ signalled' = FALSE
     \/ /\ CanFail
        /\ wait_event' = 0
        /\ UNCHANGED <<open, signalled>>
  /\ pc' = "closingEvent"
  /\ UNCHANGED <<callback, active, continuous, wait_thread, closing_event, closing, registered,
                 events, at, waits_on, rc, sets, joined, historyVars>>

(* What edt_get_kernel_event returns is not looked at, but wait_event is.  *)
ClosingEvent ==
  /\ pc = "closingEvent"
  /\ \/ /\ wait_event # 0
        /\ closing_event' = sets
        /\ open' = open \cup {<<"closing", sets>>}
        /\ pc' = "thread"
        /\ UNCHANGED <<callback, active, continuous, wait_thread, wait_event,
                       signalled, closing, registered, events, at, sets>>
     \/ (wait_event = 0 \/ CanFail) /\ ClearFailed
  /\ UNCHANGED <<waits_on, rc, joined, historyVars>>

CreateThread ==
  /\ pc = "thread"
  /\ \/ /\ wait_thread' = sets
        /\ open' = open \cup {<<"thread", sets>>}
        /\ at' = [at EXCEPT ![sets] = "suspended"]
        /\ pc' = "resume"
        /\ UNCHANGED <<callback, active, continuous, wait_event, closing_event,
                       signalled, closing, registered, events, sets>>
     \/ CanFail /\ ClearFailed
  /\ UNCHANGED <<waits_on, rc, joined, historyVars>>

(* EDTS_ADD_EVENT_FUNC, and ResumeThread, if its handle is still there.    *)
Resume ==
  /\ pc = "resume"
  /\ registered' = TRUE
  /\ at' = [t \in Threads |-> IF t = wait_thread THEN "begin" ELSE at[t]]
  /\ pc' = "idle"
  /\ armed' = sets
  /\ UNCHANGED <<handlerVars, signalled, closing, open, events, waits_on, rc, sets, joined,
                 mode, calls, overtaken>>

(***************************************************************************)
(* edt_remove_event_func.                                                  *)
(***************************************************************************)

Remove ==
  /\ pc = "idle" /\ sets > 0
  /\ IF wait_thread # 0 /\ wait_event # 0
     THEN pc' = "setClosing" /\ active' = FALSE
     ELSE pc' = "close" /\ UNCHANGED active
  /\ armed' = 0
  /\ UNCHANGED <<callback, continuous, wait_thread, wait_event, closing_event, systemVars,
                 at, waits_on, rc, sets, joined, mode, calls, overtaken>>

(* Mutant: the closing event is not set. *)
SetClosingNot ==
  /\ pc = "setClosing"
  /\ registered' = FALSE
  /\ pc' = "join"
  /\ UNCHANGED <<handlerVars, signalled, closing, open, events, at, waits_on, rc, sets, joined, historyVars>>

SetClosing ==
  /\ pc = "setClosing"
  /\ closing' = IF <<"closing", closing_event>> \in open THEN closing \cup {closing_event}
                ELSE closing
  /\ registered' = FALSE
  /\ pc' = "join"
  /\ UNCHANGED <<handlerVars, signalled, open, events, at, waits_on, rc, sets, joined, historyVars>>

(* Mutant: the thread's end is not waited for. *)
JoinNot ==
  /\ pc = "join"
  /\ pc' = "close"
  /\ UNCHANGED <<handlerVars, systemVars, at, waits_on, rc, sets, joined, historyVars>>

(* Waiting for a handle that is closed fails at once. *)
Join ==
  /\ pc = "join"
  /\ IF <<"thread", wait_thread>> \in open
     THEN pc' = "joining" /\ joined' = wait_thread
     ELSE pc' = "close" /\ UNCHANGED joined
  /\ UNCHANGED <<handlerVars, systemVars, at, waits_on, rc, sets, historyVars>>

(* A handle that is closed while it is waited for: the wait may go on      *)
(* until the thread ends, or it may end.                                   *)
Joined ==
  /\ pc = "joining"
  /\ at[joined] = "ended" \/ <<"thread", joined>> \notin open
  /\ joined' = 0
  /\ pc' = "close"
  /\ UNCHANGED <<handlerVars, systemVars, at, waits_on, rc, sets, historyVars>>

ClearClose ==
  /\ pc = "close"
  /\ CloseHandles
  /\ pc' = "zero"
  /\ UNCHANGED <<handlerVars, signalled, closing, registered, events, at, waits_on, rc, sets, joined, historyVars>>

ClearZero ==
  /\ pc = "zero"
  /\ Zero
  /\ pc' = "idle"
  /\ UNCHANGED <<systemVars, at, waits_on, rc, sets, joined, historyVars>>

(***************************************************************************)
(* edt_wait_event_thread.                                                  *)
(***************************************************************************)

Goes(t, from, to) ==
  /\ at[t] = from
  /\ at' = [at EXCEPT ![t] = to]

(* The handles are read once.                                              *)
Begin(t) ==
  /\ Goes(t, "begin", "loop")
  /\ waits_on' = [waits_on EXCEPT ![t] = <<wait_event, closing_event>>]
  /\ UNCHANGED <<handlerVars, systemVars, rc, sets, pc, joined, historyVars>>

(* Mutant: the event is reset before it is waited for. *)
LoopResets(t) ==
  /\ Goes(t, "loop", IF active THEN "wait" ELSE "ended")
  /\ signalled' = FALSE
  /\ UNCHANGED <<handlerVars, closing, open, registered, events, waits_on, rc, sets, pc, joined, historyVars>>

Loop(t) ==
  /\ Goes(t, "loop", IF active THEN "wait" ELSE "ended")
  /\ UNCHANGED <<handlerVars, systemVars, waits_on, rc, sets, pc, joined, historyVars>>

(* WaitForMultipleObjects: the board's event is the first of the two.      *)
(* With a handle that is not open the wait fails, unless it was closed     *)
(* while it was waited for: then the wait may go on.                       *)
Wait(t) ==
  /\ Goes(t, "wait", "check")
  /\ \/ /\ signalled /\ waits_on[t][1] # 0 /\ waits_on[t][2] # 0
        /\ rc' = [rc EXCEPT ![t] = 0]
        /\ signalled' = FALSE
     \/ /\ \/ ~signalled /\ waits_on[t][2] \in closing
           \/ <<"event", waits_on[t][1]>> \notin open
           \/ <<"closing", waits_on[t][2]>> \notin open
        /\ rc' = [rc EXCEPT ![t] = 1]
        /\ UNCHANGED signalled
  /\ UNCHANGED <<handlerVars, closing, open, registered, events, waits_on, sets, pc, joined,
                 historyVars>>

Check(t) ==
  /\ Goes(t, "check", IF active /\ rc[t] = 0 THEN "call" ELSE "after")
  /\ UNCHANGED <<handlerVars, systemVars, waits_on, rc, sets, pc, joined, historyVars>>

Callback(t) ==
  /\ Goes(t, "call", IF callback # None THEN "callback" ELSE "after")
  /\ calls' = IF callback # None THEN [calls EXCEPT ![t] = @ + 1] ELSE calls
  /\ armed' = IF callback # None /\ armed = t /\ mode[t] = "once" THEN 0 ELSE armed
  /\ UNCHANGED <<handlerVars, systemVars, waits_on, rc, sets, pc, joined, mode, overtaken>>

CallbackReturns(t) ==
  /\ Goes(t, "callback", "after")
  /\ UNCHANGED <<handlerVars, systemVars, waits_on, rc, sets, pc, joined, historyVars>>

(* Mutant: one call is like many. *)
AfterLoops(t) ==
  /\ Goes(t, "after", "loop")
  /\ UNCHANGED <<handlerVars, systemVars, waits_on, rc, sets, pc, joined, historyVars>>

After(t) ==
  /\ Goes(t, "after", IF continuous THEN "loop" ELSE "del")
  /\ UNCHANGED <<handlerVars, systemVars, waits_on, rc, sets, pc, joined, historyVars>>

(* A thread that was to call once clears the handler it finds. *)
ThreadDel(t) ==
  /\ Goes(t, "del", "close")
  /\ registered' = FALSE
  /\ UNCHANGED <<handlerVars, signalled, closing, open, events, waits_on, rc, sets, pc, joined, historyVars>>

ThreadClose(t) ==
  /\ Goes(t, "close", "zero")
  /\ CloseHandles
  /\ UNCHANGED <<handlerVars, signalled, closing, registered, events, waits_on, rc, sets, pc, joined, historyVars>>

ThreadZero(t) ==
  /\ Goes(t, "zero", "ended")
  /\ Zero
  /\ UNCHANGED <<systemVars, waits_on, rc, sets, pc, joined, historyVars>>

Thread(t) ==
  \/ Begin(t) \/ Loop(t) \/ Wait(t) \/ Check(t) \/ Callback(t) \/ CallbackReturns(t) \/ After(t)
  \/ ThreadDel(t) \/ ThreadClose(t) \/ ThreadZero(t)

(* The steps of a call the program is in. *)
Program ==
  \/ KernelEvent \/ ClosingEvent \/ CreateThread \/ Resume
  \/ SetClosing \/ Join \/ Joined
  \/ ClearClose \/ ClearZero

Next ==
  \/ Event
  \/ \E func \in Funcs, m \in Modes : Set(func, m)
  \/ Remove
  \/ Program
  \/ \E t \in Threads : Thread(t)

Spec == Init /\ [][Next]_vars

(* Threads are scheduled, and callbacks return. *)
FairSpec ==
  /\ Spec
  /\ WF_vars(Program)
  /\ \A t \in Threads : WF_vars(Thread(t))

-----------------------------------------------------------------------------
Kinds == {"thread", "event", "closing"}

TypeOK ==
  /\ callback \in Funcs \cup {None} /\ active \in BOOLEAN /\ continuous \in BOOLEAN
  /\ wait_thread \in 0 .. sets /\ wait_event \in 0 .. sets /\ closing_event \in 0 .. sets
  /\ signalled \in BOOLEAN /\ closing \subseteq 1 .. sets
  /\ open \subseteq Kinds \X (1 .. sets)
  /\ registered \in BOOLEAN /\ events \in 0 .. MaxEvents
  /\ at \in [Threads -> Running \cup {"none", "suspended", "ended"}]
  /\ waits_on \in [Threads -> Nat \X Nat]
  /\ rc \in [Threads -> {0, 1}]
  /\ sets \in 0 .. MaxSets
  /\ pc \in {"idle", "kernelEvent", "closingEvent", "thread", "resume",
             "setClosing", "join", "joining", "close", "zero"}
  /\ pc # "idle" => sets > 0
  /\ joined \in 0 .. sets
  /\ mode \in [Threads -> {"once", "continuous"}]
  /\ calls \in [Threads -> Nat]
  /\ armed \in 0 .. sets
  /\ overtaken \in BOOLEAN

(* The documentation of edt_set_event_func: with a final argument of 0 the *)
(* program is notified of one event only, and removing the function is     *)
(* implied.  A function that was set to be called once is called at most   *)
(* once.                                                                   *)
CalledForOneEvent == \A t \in Threads : mode[t] = "once" => calls[t] <= 1

(* It is so as long as no function is set while the thread of an earlier   *)
(* one, which edt_remove_event_func did not wait for, has still to zero    *)
(* the handler.                                                            *)
OnceIsOnce == ~overtaken => CalledForOneEvent

(* When edt_remove_event_func has returned, also for a function that was   *)
(* to be called once and whatever its thread was about to do, the function *)
(* is not running and no thread is about to call it, until a function is   *)
(* set over a thread that has still to zero the handler.                   *)
NoCallbackAfterRemove ==
  ~overtaken /\ pc = "idle" /\ callback = None
    => \A t \in Threads : at[t] \notin {"check", "call", "callback"}

(* What edt_set_event_func has set up stays: until the function was called *)
(* for the one event or its removal has begun, its thread waits for it,    *)
(* the handler is as it was set up, its handles are open and the driver    *)
(* signals the event.  An earlier thread that clears the handler by itself *)
(* does not disturb it unless it was set over that thread.                 *)
HandlerStays ==
  armed # 0 /\ ~overtaken =>
    /\ callback # None /\ active
    /\ wait_thread = armed /\ wait_event = armed /\ closing_event = armed
    /\ Handles \subseteq open
    /\ registered
    /\ at[armed] \in Running

(* No handle is forgotten, unless a function is set over a thread that has *)
(* still to zero the handler: those that are open are in the handler.      *)
NoHandleLost == ~overtaken => open \subseteq Handles

(***************************************************************************)
(* The inductive invariant: its types, and until a function is set over a  *)
(* thread that has still to zero the handler, all the rest.                *)
(***************************************************************************)

Gone == {"none", "ended"}

Setting == {"kernelEvent", "closingEvent", "thread"}

Removing == {"setClosing", "join", "joining"}

Clearing == {"close", "zero"}

(* Only the thread last made may run, and how often each has called.       *)
OnlyLast ==
  \A t \in Threads :
    /\ t # sets => at[t] \in Gone
    /\ t > sets => at[t] = "none" /\ calls[t] = 0
    /\ mode[t] = "continuous" => at[t] \notin {"del", "close", "zero"}
    /\ mode[t] = "once" => calls[t] <= 1
    /\ mode[t] = "once" /\ at[t] \in {"none", "suspended", "begin", "loop", "wait", "check", "call"}
         => calls[t] = 0

(* Where it is, and where the program: a thread that is about to zero the  *)
(* handler may be anywhere in a removal, and behind it.                    *)
WhoIsWhere ==
  /\ callback # None => sets > 0
  /\ \A t \in Threads : t = sets =>
       /\ callback # None => continuous = (mode[t] = "continuous")
       /\ pc \in Setting => at[t] = "none"
       /\ pc = "resume" <=> at[t] = "suspended"
       /\ pc \in Removing => at[t] \in Running \cup {"ended"}
       /\ pc \in Removing /\ callback = None => at[t] = "ended"
       /\ pc \in Clearing => at[t] \in Gone \cup {"zero"}
       /\ pc = "idle" /\ callback = None => at[t] \in Gone \cup {"zero"}
       /\ pc = "idle" /\ callback # None => at[t] \in Running
  /\ pc \in Setting \cup {"resume"} => callback # None
  /\ callback # None /\ pc \notin Removing \cup Clearing => active
  /\ pc = "joining" => joined = sets

(* The handles that are open are those in the handler.                     *)
HandlesKnown ==
  /\ open \subseteq Handles
  /\ pc = "zero" => open = {}
  /\ callback = None => wait_thread = 0 /\ wait_event = 0 /\ closing_event = 0
  /\ pc \in Setting => wait_thread = 0
  /\ pc \in {"kernelEvent", "closingEvent"} => closing_event = 0
  /\ pc = "kernelEvent" => wait_event = 0
  /\ pc = "closingEvent" /\ wait_event # 0 => wait_event = sets /\ <<"event", sets>> \in open
  /\ pc = "thread" => /\ wait_event = sets /\ closing_event = sets
                      /\ {<<"event", sets>>, <<"closing", sets>>} \subseteq open
  /\ pc \in {"resume", "idle"} \cup Removing /\ callback # None =>
       wait_thread = sets /\ wait_event = sets /\ closing_event = sets
  /\ \A t \in Threads : t = sets =>
       /\ at[t] = "zero" => open = {}
       /\ pc \in {"resume", "idle"} \cup Removing /\ callback # None /\ at[t] # "zero"
            => Handles \subseteq open
       /\ at[t] \in Running \ {"begin"} => waits_on[t] = <<t, t>>

(* What is set up and has not been called waits for its event.             *)
ArmedWaits ==
  /\ armed # 0 => armed = sets /\ pc = "idle" /\ registered /\ callback # None
  /\ sets \in closing => pc \in {"join", "joining"} \cup Clearing \/ callback = None
  /\ \A t \in Threads : armed = t /\ mode[t] = "once" =>
       at[t] \in {"begin", "loop", "wait"} \/ (at[t] \in {"check", "call"} /\ rc[t] = 0)

Known == OnlyLast /\ WhoIsWhere /\ HandlesKnown /\ ArmedWaits

IndInv == TypeOK /\ (~overtaken => Known)

-----------------------------------------------------------------------------
(* An event of the board leads to a call, in either mode, as long as the   *)
(* function stays set.                                                     *)
Delivered ==
  \A t \in Threads :
    (signalled /\ armed = t) ~> (at[t] = "callback" \/ armed # t \/ overtaken)

(* edt_remove_event_func returns.                                          *)
RemoveReturns == (pc = "joining") ~> (pc = "idle")
=============================================================================
