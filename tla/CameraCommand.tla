--------------------------- MODULE CameraCommand ---------------------------
(***************************************************************************)
(* Setting and reading the camera's integration and frame time over the    *)
(* serial line: scicam.py runs serial_cmd.exe once per packet, and takes   *)
(* whatever that program printed first as the answer.  A packet that       *)
(* cannot be sent or that is refused is tried again with one millisecond   *)
(* more; an answer that makes no sense is tried again once.                *)
(*                                                                         *)
(* Times are whole milliseconds.  The camera and the board's receive FIFO  *)
(* are not part of the repository: the camera answers packets in order,    *)
(* and its faults are those named in Faults.                               *)
(***************************************************************************)
EXTENDS Integers, Sequences

CONSTANTS
  Times,      (* the integration times the scripts are run with             *)
  Gap,        (* the frame time is that much longer: 250 in expose.py, 20   *)
              (* in misc_scripts/capture.py                                 *)
  BadCrc,     (* packets <<time, milliseconds>> whose CRC starts with 0     *)
  MaxTime,    (* the longest time that fits into 32 bits of 16 MHz clocks   *)
  Faults,     (* what may go wrong in the camera and on the line            *)
  MaxFaults,  (* bound: how often it goes wrong                             *)
  MaxRuns     (* bound: how many scripts are run                            *)

ASSUME CameraAssumption ==
  /\ Times \subseteq Nat
  /\ Gap \in Nat /\ MaxTime \in Nat
  /\ BadCrc \subseteq {"int", "frame"} \X Nat
  /\ Faults \subseteq {"refuse", "ignore", "mute", "late"}
  /\ MaxFaults \in Nat /\ MaxRuns \in Nat

VARIABLES
  (* the camera and the line *)
  register,   (* the times the camera uses                                  *)
  sent,       (* packets the camera has not handled                         *)
  line,       (* halves of answers that have not arrived                    *)
  fifo,       (* the board's receive FIFO                                   *)
  faults,
  (* the script, and serial_cmd while it runs *)
  pc, request, op, which,
  t,          (* the time being set                                         *)
  attempt,    (* which of set_int_time's three tries this is                *)
  output,     (* what serial_cmd printed first                              *)
  reported,   (* the times the script was told                              *)
  runs,
  (* history *)
  retries,    (* milliseconds added to the integration time in this script  *)
  quiet       (* every command of the script found the line quiet and left  *)
              (* it so: no answer was late                                  *)

cameraVars == <<register, sent, line, fifo, faults>>
callVars   == <<op, which, t, attempt>>
scriptVars == <<request, runs>>
historyVars == <<retries, quiet>>
vars       == <<cameraVars, pc, callVars, output, reported, scriptVars, historyVars>>

Which == {"int", "frame"}

(* What is reported when it is no time the camera was set to.  Unbound is  *)
(* one that the check against 2.5E17 ms catches.                           *)
Nothing  == -1
Nonsense == -2
Unbound  == -3

(* What serial_cmd printed may also be the camera's standard error answer, *)
(* or no hexadecimal number at all.                                        *)
Refused == -4
Garbage == -5

(* An answer arrives in two halves: serial_cmd may read between them.      *)
Halves(answer) == <<[answer |-> answer, half |-> 1], [answer |-> answer, half |-> 2]>>

IsWhole(chunk) ==
  Len(chunk) = 2 /\ chunk[1].half = 1 /\ chunk[2].half = 2

(***************************************************************************)
(* The camera and the line.                                                *)
(***************************************************************************)

Fault(kind) ==
  /\ kind \in Faults /\ faults < MaxFaults
  /\ faults' = faults + 1

(* The camera does as it is told and answers with the time it now uses.    *)
CameraAccepts ==
  LET p   == Head(sent)
      new == IF p.op = "set" THEN p.ms ELSE register[p.which]
  IN  /\ register' = [register EXCEPT ![p.which] = new]
      /\ \/ /\ line' = line \o Halves([op |-> p.op, which |-> p.which, ms |-> new])
            /\ UNCHANGED faults
         \/ /\ Fault("mute")
            /\ UNCHANGED line

(* Or it answers with its error code, or not at all.                       *)
CameraDeclines ==
  /\ \/ /\ Fault("refuse")
        /\ line' = line \o Halves([op |-> "error", which |-> "int", ms |-> Refused])
     \/ /\ Fault("ignore")
        /\ UNCHANGED line
  /\ UNCHANGED register

Camera ==
  /\ sent # <<>>
  /\ sent' = Tail(sent)
  /\ CameraAccepts \/ CameraDeclines
  /\ UNCHANGED <<fifo, pc, callVars, output, reported, scriptVars, historyVars>>

Arrive ==
  /\ line # <<>>
  /\ line' = Tail(line)
  /\ fifo' = Append(fifo, Head(line))
  /\ UNCHANGED <<register, sent, faults, pc, callVars, output, reported>>
  /\ UNCHANGED <<scriptVars, historyVars>>

(***************************************************************************)
(* The scripts: expose.py and misc_scripts/capture.py.                     *)
(***************************************************************************)

(* Begin a call of one of the four functions of scicam.py.                 *)
Call(o, w, ms) ==
  /\ op' = o /\ which' = w /\ t' = ms
  /\ attempt' = 1
  /\ pc' = "send"

SetIntTime == Call("set", "int", request')

(* Mutant: nothing is put between the two times.                           *)
SetFrameTimeBare == Call("set", "frame", request)

SetFrameTime == Call("set", "frame", request + Gap)

ReadIntTime == Call("read", "int", 0)

ReadFrameTime == Call("read", "frame", 0)

(* A script starts with an integration time, or without one.               *)
Start ==
  /\ pc = "idle" /\ runs < MaxRuns
  /\ runs' = runs + 1
  /\ \/ /\ request' \in Times
        /\ SetIntTime
     \/ /\ request' = 0
        /\ ReadIntTime
  /\ reported' = [w \in Which |-> Nothing]
  /\ retries' = 0 /\ quiet' = TRUE
  /\ UNCHANGED <<cameraVars, output>>

(* Mutant: the same time is tried again.                                   *)
TryAgainSame ==
  /\ pc' = "send"
  /\ UNCHANGED <<t, retries>>

(* Try again with one millisecond more.                                    *)
TryAgain ==
  /\ t' = t + 1
  /\ retries' = IF which = "int" THEN retries + 1 ELSE retries
  /\ pc' = "send"

(* send_to_cam: secs_to_refclks pads the clocks to eight hex digits, and   *)
(* never ends when there are more; crc16 refuses some packets.             *)
Send ==
  /\ pc = "send"
  /\ \/ /\ op = "set" /\ t > MaxTime
        /\ pc' = "padding"
        /\ UNCHANGED <<t, retries>>
     \/ /\ op = "set" /\ t <= MaxTime /\ <<which, t>> \in BadCrc
        /\ TryAgain
     \/ /\ op = "read" \/ (t <= MaxTime /\ <<which, t>> \notin BadCrc)
        /\ pc' = "flush"
        /\ UNCHANGED <<t, retries>>
  /\ UNCHANGED <<cameraVars, op, which, attempt, output, reported>>
  /\ UNCHANGED <<scriptVars, quiet>>

(***************************************************************************)
(* serial_cmd: PdvSerialWriteRead with a hexadecimal packet.               *)
(***************************************************************************)

(* What has arrived so far is read and thrown away.                        *)
Flush ==
  /\ pc = "flush"
  /\ fifo' = <<>>
  /\ output' = <<>>
  /\ pc' = "write"
  /\ quiet' = (quiet /\ sent = <<>> /\ line = <<>>)
  /\ UNCHANGED <<register, sent, line, faults, callVars, reported, scriptVars, retries>>

Write ==
  /\ pc = "write"
  /\ sent' = Append(sent, [op |-> op, which |-> which, ms |-> t])
  /\ pc' = "wait"
  /\ UNCHANGED <<register, line, fifo, faults, callVars, output, reported>>
  /\ UNCHANGED <<scriptVars, historyVars>>

(* pdv_serial_wait lasts its whole timeout, for no answer has 64 bytes.    *)
(* When it ends before the camera is through, the answer is late.          *)
WaitEnds ==
  IF sent = <<>> /\ line = <<>>
  THEN UNCHANGED <<faults, quiet>>
  ELSE Fault("late") /\ quiet' = FALSE

(* Read once after the first wait, and again as long as a further wait     *)
(* finds something.  The script looks at the first <...> printed only.     *)
Read ==
  /\ pc = "wait" \/ (pc = "more" /\ fifo # <<>>)
  /\ WaitEnds
  /\ output' = IF output = <<>> THEN fifo ELSE output
  /\ fifo' = <<>>
  /\ pc' = "more"
  /\ UNCHANGED <<register, sent, line, callVars, reported, scriptVars, retries>>

Exit ==
  /\ pc = "more" /\ fifo = <<>>
  /\ WaitEnds
  /\ pc' = "answer"
  /\ UNCHANGED <<register, sent, line, fifo, callVars, output, reported>>
  /\ UNCHANGED <<scriptVars, retries>>

(***************************************************************************)
(* command, and what its callers make of the answer.                       *)
(***************************************************************************)

(* The answers command may make of what was printed.  The bytes of another *)
(* command's answer are a large number, those of half an answer any number *)
(* or none, and more than one answer a very large number.                  *)
Answers ==
  IF output = <<>> THEN {Garbage}
  ELSE LET first == Head(output).answer
       IN  IF IsWhole(output)
           THEN IF first.op = "error" THEN {Refused}
                ELSE IF first.op = op /\ first.which = which THEN {first.ms}
                ELSE {Nonsense}
           ELSE IF Len(output) = 1
           THEN {Garbage, Nonsense} \cup
                  (IF Head(output).half = 2 /\ first.op # "error" THEN {first.ms} ELSE {})
           ELSE {Nonsense, Unbound}

(* The call returns v, and the script goes on.                             *)
Return(v) ==
  /\ reported' = [reported EXCEPT ![which] = v]
  /\ \/ which = "int" /\ op = "set" /\ SetFrameTime
     \/ which = "int" /\ op = "read" /\ ReadFrameTime
     \/ which = "frame" /\ pc' = "idle" /\ UNCHANGED callVars
  /\ UNCHANGED retries

(* An exception nobody catches ends the script.                            *)
Raise ==
  /\ pc' = "idle"
  /\ reported' = [w \in Which |-> Nothing]
  /\ UNCHANGED <<callVars, retries>>

(* Mutant: no sense twice is taken for consent.                            *)
SetAnswerTrusting(a) ==
  \/ /\ a = Refused
     /\ TryAgain
     /\ UNCHANGED <<op, which, attempt, reported>>
  \/ /\ a = Garbage /\ attempt = 1
     /\ attempt' = 2
     /\ TryAgain
     /\ UNCHANGED <<op, which, reported>>
  \/ /\ a = Garbage /\ attempt > 1
     /\ Return(t)
  \/ /\ a \notin {Refused, Garbage}
     /\ Return(a)

(* set_int_time and set_frame_time.  An answer that is no number is tried  *)
(* again once, one that is out of all bounds in a third attempt; what goes *)
(* wrong after that is not caught, and what is wrong then is believed.     *)
SetAnswer(a) ==
  \/ /\ a = Refused
     /\ TryAgain
     /\ UNCHANGED <<op, which, attempt, reported>>
  \/ /\ a = Garbage /\ attempt = 1
     /\ attempt' = 2
     /\ TryAgain
     /\ UNCHANGED <<op, which, reported>>
  \/ /\ a = Garbage /\ attempt > 1
     /\ Raise
  \/ /\ a = Unbound /\ attempt < 3
     /\ attempt' = 3
     /\ TryAgain
     /\ UNCHANGED <<op, which, reported>>
  \/ /\ a = Unbound /\ attempt = 3
     /\ Return(a)
  \/ /\ a \notin {Refused, Garbage, Unbound}
     /\ Return(a)

(* read_int_time and read_frame_time catch nothing.                        *)
ReadAnswer(a) ==
  IF a \in {Refused, Garbage} THEN Raise ELSE Return(a)

Answer ==
  /\ pc = "answer"
  /\ \E a \in Answers :
       IF op = "set" THEN SetAnswer(a) ELSE ReadAnswer(a)
  /\ output' = <<>>
  /\ UNCHANGED <<cameraVars, scriptVars, quiet>>

-----------------------------------------------------------------------------

Init ==
  /\ register = [w \in Which |-> 0]
  /\ sent = <<>> /\ line = <<>> /\ fifo = <<>> /\ faults = 0
  /\ pc = "idle" /\ request = 0 /\ op = "set" /\ which = "int" /\ t = 0
  /\ attempt = 1 /\ output = <<>>
  /\ reported = [w \in Which |-> Nothing]
  /\ runs = 0 /\ retries = 0 /\ quiet = TRUE

Link == Camera \/ Arrive

Script == Start \/ Send \/ Flush \/ Write \/ Read \/ Exit \/ Answer

Next == Link \/ Script

Spec == Init /\ [][Next]_vars

(* The processes run, every wait ends, and the camera works on.  That a    *)
(* script is started at all is not assumed.                                *)
FairSpec == Spec /\ WF_vars(Link) /\ WF_vars(~(pc = "idle") /\ Script)

(***************************************************************************)
(* Properties.                                                             *)
(***************************************************************************)

Finished == pc = "idle" /\ reported["frame"] # Nothing

Packet == [op : {"set", "read"}, which : Which, ms : Nat]

Reply == Packet \cup [op : {"error"}, which : {"int"}, ms : {Refused}]

Chunk == [answer : Reply, half : {1, 2}]

TypeOK ==
  /\ register \in [Which -> Nat]
  /\ sent \in Seq(Packet) /\ line \in Seq(Chunk) /\ fifo \in Seq(Chunk)
  /\ output \in Seq(Chunk)
  /\ pc \in {"idle", "send", "padding", "flush", "write", "wait", "more", "answer"}
  /\ op \in {"set", "read"} /\ which \in Which
  /\ t \in Nat /\ request \in Nat /\ attempt \in 1 .. 3
  /\ reported \in [Which -> Nat \cup {Nothing, Nonsense, Unbound}]
  /\ faults \in 0 .. MaxFaults /\ runs \in 0 .. MaxRuns /\ retries \in Nat
  /\ quiet \in BOOLEAN

(* A script that ends tells the truth: the times reported, which become   *)
(* the name and the header of the images, are those the camera uses,       *)
(* whatever packets it refused, ignored or did not answer.  A late answer  *)
(* spoils only the scripts that run while it is on its way.                *)
TruthfulWhenQuiet ==
  Finished /\ quiet => reported = register

(* The frame time still holds the integration time set before it, although *)
(* both may have been raised, as long as the integration time was not      *)
(* raised by as much as the scripts put between the two.                   *)
IntFitsFrame ==
  Finished /\ quiet /\ op = "set" /\ retries < Gap
    => register["int"] < register["frame"]

(***************************************************************************)
(* The inductive invariant.                                                *)
(***************************************************************************)

(* Nothing is on its way to the camera or from it.                         *)
Still == sent = <<>> /\ line = <<>>

(* The answers the camera may give to the packet it has handled.           *)
Given ==
  {[op |-> "error", which |-> "int", ms |-> Refused],
   [op |-> op, which |-> which, ms |-> register[which]]}

Carries(answer) == answer.op = "set" => register[which] = t

(* An answer is on its way.                                                *)
Arriving(answer) ==
  \/ line = Halves(answer) /\ fifo = <<>>
  \/ line = <<[answer |-> answer, half |-> 2]>> /\ fifo = <<[answer |-> answer, half |-> 1]>>
  \/ line = <<>> /\ fifo = Halves(answer)

(* A command that found the line quiet has the line for itself.            *)
OwnExchange ==
  quiet =>
    /\ pc = "write" => Still /\ fifo = <<>> /\ output = <<>>
    /\ pc = "wait" =>
         /\ output = <<>>
         /\ \/ /\ sent = <<[op |-> op, which |-> which, ms |-> t]>>
               /\ line = <<>> /\ fifo = <<>>
            \/ Still /\ fifo = <<>>
            \/ sent = <<>> /\ \E a \in Given : Carries(a) /\ Arriving(a)
    /\ pc \in {"more", "answer"} =>
         /\ Still /\ fifo = <<>>
         /\ output = <<>> \/ \E a \in Given : Carries(a) /\ output = Halves(a)

(* The times set and reported so far in this script.                       *)
TimesKept ==
  /\ pc # "idle" => reported["frame"] = Nothing
  /\ pc # "idle" /\ op = "set" /\ which = "int" => t = request + retries
  /\ pc # "idle" /\ op = "set" /\ which = "frame" => t >= request + Gap
  /\ quiet /\ (pc # "idle" => which = "frame") /\ (pc = "idle" => Finished) =>
       /\ pc \notin {"write", "wait", "more", "answer"} => Still
       /\ reported["int"] = register["int"]
       /\ op = "set" => register["int"] = request + retries
  /\ quiet /\ Finished =>
       /\ reported["frame"] = register["frame"]
       /\ op = "set" => register["frame"] >= request + Gap

IndInv == TypeOK /\ OwnExchange /\ TimesKept

(* Every script ends, by itself or by an exception, when the camera fails  *)
(* a bounded number of times: the retries get past every bad packet.       *)
ScriptEnds ==
  pc # "idle" ~> pc = "idle"

=============================================================================
