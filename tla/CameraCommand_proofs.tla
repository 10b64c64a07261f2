------------------------ MODULE CameraCommand_proofs ------------------------
(***************************************************************************)
(* Proofs about CameraCommand, for all times, faults and numbers of        *)
(* scripts: a script that ends and has met no late answer was told the     *)
(* times the camera uses, and its frame time holds its integration time.   *)
(*                                                                         *)
(* One lemma per action, with one step per part of the invariant.          *)
(***************************************************************************)
EXTENDS CameraCommand, TLAPS

USE DEF Which, Nothing, Nonsense, Unbound, Refused, Garbage,
  cameraVars, callVars, scriptVars, historyVars

(* Two halves in a row.                                                    *)
LEMMA AppendTwo ==
  ASSUME NEW x, NEW y
  PROVE  Append(<<x>>, y) = <<x, y>>
<1> DEFINE S == {x, y}
           s == Append(<<x>>, y)
<1>0. x \in S /\ y \in S
  OBVIOUS
<1> HIDE DEF S
<1>1. s \in Seq(S) /\ Len(s) = 2 /\ s[1] = x /\ s[2] = y
  BY <1>0
<1>2. s = [i \in 1 .. 2 |-> s[i]]
  BY <1>1
<1>3. <<x, y>> = [i \in 1 .. 2 |-> <<x, y>>[i]]
  OBVIOUS
<1> HIDE DEF s
<1>4. \A i \in 1 .. 2 : s[i] = <<x, y>>[i]
  BY <1>1
<1>5. s = <<x, y>>
  BY <1>2, <1>3, <1>4, Zenon
<1> QED BY <1>5 DEF s

(* An answer is a sequence of two halves.                                  *)
LEMMA HalvesType ==
  ASSUME NEW a \in Reply
  PROVE  /\ Halves(a) \in Seq(Chunk) /\ Halves(a) # <<>>
         /\ Halves(a) = <<[answer |-> a, half |-> 1], [answer |-> a, half |-> 2]>>
         /\ [answer |-> a, half |-> 1] \in Chunk /\ [answer |-> a, half |-> 2] \in Chunk
         /\ IsWhole(Halves(a)) /\ Head(Halves(a)).answer = a
  BY DEF Chunk, Halves, IsWhole

(* What a read gives may be a time, or one of the codes for no time.        *)
LEMMA AnswersType ==
  ASSUME IndInv, NEW a \in Answers
  PROVE  a \in Nat \cup {Nonsense, Unbound, Refused, Garbage}
<1> DEFINE first == Head(output).answer
<1>1. CASE output = <<>>
  BY <1>1 DEF Answers
<1>2. CASE output # <<>>
  <2>1. Head(output) \in Chunk
    BY <1>2 DEF IndInv, TypeOK
  <2>2. first \in Reply
    BY <2>1 DEF Chunk
  <2>3. first.op # "error" => first.ms \in Nat
    BY <2>2 DEF Reply, Packet
  <2>4. op # "error"
    BY DEF IndInv, TypeOK
  <2>5. a \in {Garbage, Nonsense, Unbound, Refused} \/ (a = first.ms /\ first.op # "error")
    <3> HIDE DEF first
    <3> QED BY <1>2, <2>4 DEF Answers, first
  <2> QED BY <2>3, <2>5
<1> QED BY <1>1, <1>2

(* An answer got while the line was quiet is the time the camera uses, if  *)
(* it is a time at all.                                                    *)
LEMMA OwnAnswer ==
  ASSUME IndInv, quiet, pc = "answer", NEW a \in Answers, a \notin {Refused, Garbage}
  PROVE  Still /\ a = register[which] /\ (op = "set" => register[which] = t)
<1>1. Still /\ (output = <<>> \/ \E r \in Given : Carries(r) /\ output = Halves(r))
  BY DEF IndInv, OwnExchange
<1>2. output # <<>>
  BY DEF Answers
<1>3. PICK r \in Given : Carries(r) /\ output = Halves(r)
  BY <1>1, <1>2
<1>4. r \in Reply
  BY <1>3 DEF IndInv, TypeOK, Given, Reply, Packet
<1>5. IsWhole(output) /\ Head(output).answer = r
  BY <1>3, <1>4, HalvesType
<1>6. r.op # "error"
  BY <1>2, <1>5 DEF Answers
<1>7. r = [op |-> op, which |-> which, ms |-> register[which]]
  BY <1>3, <1>6 DEF Given
<1>8. a = r.ms
  BY <1>2, <1>5, <1>6, <1>7 DEF Answers
<1>9. op = "set" => register[which] = t
  BY <1>3, <1>7 DEF Carries
<1> QED BY <1>1, <1>7, <1>8, <1>9

(* The camera handles a packet. *)
LEMMA CameraStep ==
  ASSUME IndInv, Camera
  PROVE  IndInv'
<1>1. TypeOK'
  <2> DEFINE p   == Head(sent)
             new == IF p.op = "set" THEN p.ms ELSE register[p.which]
  <2>1. sent # <<>> /\ sent' = Tail(sent) /\ (CameraAccepts \/ CameraDeclines)
    BY DEF Camera
  <2>2. p \in Packet /\ sent' \in Seq(Packet)
    BY <2>1 DEF IndInv, TypeOK
  <2>3. p.op \in {"set", "read"} /\ p.which \in Which /\ new \in Nat
    BY <2>2 DEF IndInv, TypeOK, Packet
  <2>4. register' \in [Which -> Nat]
    BY <2>1, <2>3 DEF IndInv, TypeOK, CameraAccepts, CameraDeclines
  <2>5. line' \in Seq(Chunk)
    <3>1. [op |-> p.op, which |-> p.which, ms |-> new] \in Reply
      BY <2>3 DEF Reply, Packet
    <3>2. [op |-> "error", which |-> "int", ms |-> Refused] \in Reply
      BY DEF Reply
    <3>3. line \in Seq(Chunk)
      BY DEF IndInv, TypeOK
    <3>4. \A a \in Reply : line \o Halves(a) \in Seq(Chunk)
      <4> SUFFICES ASSUME NEW a \in Reply PROVE line \o Halves(a) \in Seq(Chunk)
        OBVIOUS
      <4> DEFINE h == Halves(a)
      <4>1. h \in Seq(Chunk)
        BY HalvesType
      <4> HIDE DEF h
      <4>2. line \o h \in Seq(Chunk)
        BY <3>3, <4>1
      <4> QED BY <4>2 DEF h
    <3>5. line' \in {line, line \o Halves([op |-> p.op, which |-> p.which, ms |-> new]),
                     line \o Halves([op |-> "error", which |-> "int", ms |-> Refused])}
      BY <2>1 DEF CameraAccepts, CameraDeclines
    <3> QED BY <3>1, <3>2, <3>3, <3>4, <3>5
  <2>6. faults' \in 0 .. MaxFaults
    BY <2>1, CameraAssumption DEF IndInv, TypeOK, CameraAccepts, CameraDeclines, Fault
  <2> QED BY <2>2, <2>4, <2>5, <2>6 DEF IndInv, TypeOK, Camera
<1>2. OwnExchange'
  <2>1. CASE ~quiet
    BY <2>1 DEF Camera, OwnExchange
  <2>2. CASE quiet /\ pc # "wait"
    <3>1. pc \notin {"write", "wait", "more", "answer"}
      BY <2>2 DEF IndInv, OwnExchange, Still, Camera
    <3> QED BY <3>1 DEF Camera, OwnExchange
  <2>3. CASE quiet /\ pc = "wait"
    <3> DEFINE p == [op |-> op, which |-> which, ms |-> t]
               error == [op |-> "error", which |-> "int", ms |-> Refused]
    <3>0. PICK answer : answer = [op |-> op, which |-> which, ms |-> register'[which]]
      OBVIOUS
    <3>1. /\ sent = <<p>> /\ line = <<>> /\ fifo = <<>> /\ output = <<>>
      BY <2>3 DEF IndInv, OwnExchange, Still, Camera
    <3>2. /\ sent' = <<>> /\ fifo' = <<>> /\ output' = <<>>
          /\ UNCHANGED <<pc, op, which, t, quiet>>
      BY <3>1 DEF Camera
    <3>3. Head(sent) = p /\ p.op = op /\ p.which = which /\ p.ms = t
      BY <3>1
    <3>4. line' \in {<<>>, Halves(answer), Halves(error)}
      <4>1. \A a : <<>> \o Halves(a) = Halves(a)
        BY DEF Halves
      <4>2. ASSUME CameraAccepts PROVE line' \in {<<>>, Halves(answer)}
        BY <3>0, <4>1, <4>2, <3>1, <3>3 DEF IndInv, TypeOK, CameraAccepts
      <4>3. ASSUME CameraDeclines PROVE line' \in {<<>>, Halves(error)}
        BY <4>1, <4>3, <3>1 DEF CameraDeclines
      <4> QED BY <4>2, <4>3 DEF Camera
    <3>5. line' = Halves(answer) => (op = "set" => register'[which] = t)
      <4>1. ASSUME CameraAccepts PROVE op = "set" => register'[which] = t
        BY <4>1, <3>3 DEF IndInv, TypeOK, CameraAccepts
      <4>2. ASSUME CameraDeclines, line' = Halves(answer) PROVE FALSE
        <5>1. line' \in {<<>>, Halves(error)}
          BY <4>2, <3>1 DEF CameraDeclines, Halves
        <5>2. op # "error"
          BY DEF IndInv, TypeOK
        <5> QED BY <3>0, <4>2, <5>1, <5>2 DEF Halves
      <4> QED BY <4>1, <4>2 DEF Camera
    <3>6. error \in Given' /\ answer \in Given' /\ Carries(error)'
      BY <3>0, <3>2 DEF Given, Carries
    <3>7. line' = Halves(answer) => Carries(answer)'
      BY <3>0, <3>2, <3>5 DEF Carries
    <3> HIDE DEF p, error
    <3>8. \/ (Still /\ fifo = <<>>)'
          \/ (sent = <<>> /\ \E a \in Given : Carries(a) /\ Arriving(a))'
      <4>1. CASE line' = <<>>
        BY <4>1, <3>2 DEF Still
      <4>2. ASSUME NEW a, line' = Halves(a) PROVE Arriving(a)'
        BY <4>2, <3>2 DEF Arriving
      <4>3. ASSUME NEW a \in Given', Carries(a)', line' = Halves(a)
            PROVE  sent' = <<>> /\ \E b \in Given' : Carries(b)' /\ Arriving(b)'
        BY <4>2, <4>3, <3>2
      <4>4. CASE line' = Halves(answer)
        BY <4>3, <4>4, <3>6, <3>7
      <4>5. CASE line' = Halves(error)
        BY <4>3, <4>5, <3>6
      <4> QED BY <3>4, <4>1, <4>4, <4>5
    <3> QED BY <3>2, <3>8, <2>3 DEF OwnExchange
  <2> QED BY <2>1, <2>2, <2>3
<1>3. TimesKept'
  BY CameraAssumption DEF IndInv, TypeOK, OwnExchange, TimesKept, Packet, Reply, Chunk,
       Still, Given, Carries, Arriving, Finished, Camera, CameraAccepts, CameraDeclines,
       Fault
<1> QED BY <1>1, <1>2, <1>3 DEF IndInv

(* Half an answer arrives. *)
LEMMA ArriveStep ==
  ASSUME IndInv, Arrive
  PROVE  IndInv'
<1>1. TypeOK'
  <2>1. Head(line) \in Chunk /\ line' \in Seq(Chunk) /\ fifo' = Append(fifo, Head(line))
    BY DEF IndInv, TypeOK, Arrive
  <2>2. fifo' \in Seq(Chunk)
    BY <2>1 DEF IndInv, TypeOK
  <2> QED BY <2>1, <2>2 DEF IndInv, TypeOK, Arrive
<1>2. OwnExchange'
  <2>1. CASE ~quiet
    BY <2>1 DEF Arrive, OwnExchange
  <2>2. CASE quiet /\ pc # "wait"
    BY <2>2 DEF IndInv, OwnExchange, Still, Arrive
  <2>3. CASE quiet /\ pc = "wait"
    <3>1. line # <<>> /\ line' = Tail(line) /\ fifo' = Append(fifo, Head(line))
      BY DEF Arrive
    <3>2. UNCHANGED <<register, sent, pc, op, which, t, output, quiet>>
      BY DEF Arrive
    <3>3. output = <<>> /\ sent = <<>>
      BY <2>3, <3>1 DEF IndInv, OwnExchange, Still
    <3>4. PICK a \in Given : Carries(a) /\ Arriving(a)
      BY <2>3, <3>1 DEF IndInv, OwnExchange, Still
    <3> DEFINE h1 == [answer |-> a, half |-> 1]
               h2 == [answer |-> a, half |-> 2]
    <3>5. Halves(a) = <<h1, h2>>
      BY DEF Halves
    <3> HIDE DEF h1, h2
    <3>6. \/ line = <<h1, h2>> /\ fifo = <<>>
          \/ line = <<h2>> /\ fifo = <<h1>>
      BY <3>1, <3>4, <3>5 DEF Arriving, h1, h2
    <3>7. \/ line' = <<h2>> /\ fifo' = <<h1>>
          \/ line' = <<>> /\ fifo' = <<h1, h2>>
      <4>1. CASE line = <<h1, h2>> /\ fifo = <<>>
        BY <3>1, <4>1
      <4>2. CASE line = <<h2>> /\ fifo = <<h1>>
        <5>1. line' = <<>> /\ fifo' = Append(<<h1>>, h2)
          BY <3>1, <4>2
        <5>2. Append(<<h1>>, h2) = <<h1, h2>>
          BY AppendTwo
        <5> QED BY <5>1, <5>2
      <4> QED BY <3>6, <4>1, <4>2
    <3>8. Arriving(a)'
      BY <3>5, <3>7 DEF Arriving, h1, h2
    <3>9. a \in Given' /\ Carries(a)'
      BY <3>2, <3>4 DEF Given, Carries
    <3> QED BY <2>3, <3>2, <3>3, <3>8, <3>9 DEF OwnExchange
  <2> QED BY <2>1, <2>2, <2>3
<1>3. TimesKept'
  BY CameraAssumption DEF IndInv, TypeOK, OwnExchange, TimesKept, Packet, Reply, Chunk,
       Still, Given, Carries, Arriving, Finished, Arrive
<1> QED BY <1>1, <1>2, <1>3 DEF IndInv

(* A script starts. *)
LEMMA StartStep ==
  ASSUME IndInv, Start
  PROVE  IndInv'
<1>1. TypeOK'
  <2>1. op' \in {"set", "read"} /\ which' \in Which /\ attempt' \in 1 .. 3 /\ pc' = "send"
    BY DEF Start, SetIntTime, ReadIntTime, Call
  <2>2. request' \in Nat /\ t' \in Nat
    <3>1. request' \in Times \cup {0} /\ t' \in {request', 0}
      BY DEF Start, SetIntTime, ReadIntTime, Call
    <3> QED BY <3>1, CameraAssumption
  <2>3. runs' \in 0 .. MaxRuns /\ retries' \in Nat
    BY CameraAssumption DEF IndInv, TypeOK, Start
  <2>4. quiet' \in BOOLEAN /\ reported' \in [Which -> Nat \cup {Nothing, Nonsense, Unbound}]
    BY DEF Start
  <2> QED BY <2>1, <2>2, <2>3, <2>4 DEF IndInv, TypeOK, Start
<1>2. OwnExchange'
  BY CameraAssumption DEF IndInv, TypeOK, OwnExchange, Packet, Reply, Chunk, Still,
       Given, Carries, Arriving, Start, SetIntTime, ReadIntTime, Call
<1>3. TimesKept'
  <2>1. pc' = "send" /\ which' = "int" /\ retries' = 0 /\ reported' = [w \in Which |-> Nothing]
    BY DEF Start, SetIntTime, ReadIntTime, Call
  <2>2. op' = "set" => t' = request' /\ request' \in Nat
    BY CameraAssumption DEF Start, SetIntTime, ReadIntTime, Call
  <2> QED BY <2>1, <2>2 DEF TimesKept, Finished
<1> QED BY <1>1, <1>2, <1>3 DEF IndInv

(* A packet is made. *)
LEMMA SendStep ==
  ASSUME IndInv, Send
  PROVE  IndInv'
<1>1. TypeOK'
  BY CameraAssumption DEF IndInv, TypeOK, Packet, Reply, Chunk, Send, TryAgain
<1>2. OwnExchange'
  BY CameraAssumption DEF IndInv, TypeOK, OwnExchange, Packet, Reply, Chunk, Still,
       Given, Carries, Arriving, Send, TryAgain
<1>3. TimesKept'
  BY CameraAssumption DEF IndInv, TypeOK, OwnExchange, TimesKept, Packet, Reply, Chunk,
       Still, Given, Carries, Arriving, Finished, Send, TryAgain
<1> QED BY <1>1, <1>2, <1>3 DEF IndInv

(* What is left of earlier answers is thrown away. *)
LEMMA FlushStep ==
  ASSUME IndInv, Flush
  PROVE  IndInv'
<1>1. TypeOK'
  BY CameraAssumption DEF IndInv, TypeOK, Packet, Reply, Chunk, Flush
<1>2. OwnExchange'
  BY CameraAssumption DEF IndInv, TypeOK, OwnExchange, Packet, Reply, Chunk, Still,
       Given, Carries, Arriving, Flush
<1>3. TimesKept'
  BY CameraAssumption DEF IndInv, TypeOK, OwnExchange, TimesKept, Packet, Reply, Chunk,
       Still, Given, Carries, Arriving, Finished, Flush
<1> QED BY <1>1, <1>2, <1>3 DEF IndInv

(* The packet is written. *)
LEMMA WriteStep ==
  ASSUME IndInv, Write
  PROVE  IndInv'
<1>1. TypeOK'
  BY CameraAssumption DEF IndInv, TypeOK, Packet, Reply, Chunk, Write
<1>2. OwnExchange'
  BY CameraAssumption DEF IndInv, TypeOK, OwnExchange, Packet, Reply, Chunk, Still,
       Given, Carries, Arriving, Write
<1>3. TimesKept'
  BY CameraAssumption DEF IndInv, TypeOK, OwnExchange, TimesKept, Packet, Reply, Chunk,
       Still, Given, Carries, Arriving, Finished, Write
<1> QED BY <1>1, <1>2, <1>3 DEF IndInv

(* The answer is read. *)
LEMMA ReadStep ==
  ASSUME IndInv, Read
  PROVE  IndInv'
<1>1. TypeOK'
  <2>1. output' \in Seq(Chunk) /\ fifo' = <<>> /\ pc' = "more"
    BY DEF IndInv, TypeOK, Read
  <2>2. faults' \in 0 .. MaxFaults /\ quiet' \in BOOLEAN
    <3>1. CASE sent = <<>> /\ line = <<>>
      BY <3>1 DEF IndInv, TypeOK, Read, WaitEnds
    <3>2. CASE ~(sent = <<>> /\ line = <<>>)
      <4>1. faults < MaxFaults /\ faults' = faults + 1 /\ quiet' = FALSE
        BY <3>2 DEF Read, WaitEnds, Fault
      <4>2. faults' \in 0 .. MaxFaults
        BY <4>1, CameraAssumption DEF IndInv, TypeOK
      <4> QED BY <4>1, <4>2
    <3> QED BY <3>1, <3>2
  <2> QED BY <2>1, <2>2 DEF IndInv, TypeOK, Read
<1>2. OwnExchange'
  <2>1. CASE ~quiet'
    BY <2>1 DEF OwnExchange
  <2>2. CASE quiet'
    <3>1. quiet /\ Still /\ UNCHANGED <<sent, line>>
      BY <2>2 DEF Read, WaitEnds, Still
    <3>2. /\ pc' = "more" /\ fifo' = <<>>
          /\ UNCHANGED <<op, which, t, register>>
      BY DEF Read
    <3>3. pc = "wait"
      BY <3>1 DEF IndInv, OwnExchange, Read
    <3>4. output = <<>> /\ output' = fifo
      BY <3>1, <3>3 DEF IndInv, OwnExchange, Read
    <3>5. fifo = <<>> \/ \E a \in Given : Carries(a) /\ fifo = Halves(a)
      BY <3>1, <3>3, HalvesType DEF IndInv, OwnExchange, Still, Arriving, Halves
    <3>6. output' = <<>> \/ \E a \in Given' : Carries(a)' /\ output' = Halves(a)
      BY <3>2, <3>4, <3>5 DEF Given, Carries
    <3> QED BY <3>1, <3>2, <3>6 DEF OwnExchange, Still
  <2> QED BY <2>1, <2>2
<1>3. TimesKept'
  BY CameraAssumption DEF IndInv, TypeOK, OwnExchange, TimesKept, Packet, Reply, Chunk,
       Still, Given, Carries, Arriving, Finished, Read, WaitEnds, Fault
<1> QED BY <1>1, <1>2, <1>3 DEF IndInv

(* serial_cmd ends. *)
LEMMA ExitStep ==
  ASSUME IndInv, Exit
  PROVE  IndInv'
<1>1. TypeOK'
  <2>1. faults' \in 0 .. MaxFaults /\ quiet' \in BOOLEAN
    <3>1. CASE sent = <<>> /\ line = <<>>
      BY <3>1 DEF IndInv, TypeOK, Exit, WaitEnds
    <3>2. CASE ~(sent = <<>> /\ line = <<>>)
      <4>1. faults < MaxFaults /\ faults' = faults + 1 /\ quiet' = FALSE
        BY <3>2 DEF Exit, WaitEnds, Fault
      <4>2. faults' \in 0 .. MaxFaults
        BY <4>1, CameraAssumption DEF IndInv, TypeOK
      <4> QED BY <4>1, <4>2
    <3> QED BY <3>1, <3>2
  <2> QED BY <2>1 DEF IndInv, TypeOK, Exit
<1>2. OwnExchange'
  BY CameraAssumption DEF IndInv, TypeOK, OwnExchange, Packet, Reply, Chunk, Still,
       Given, Carries, Arriving, Exit, WaitEnds, Fault
<1>3. TimesKept'
  BY CameraAssumption DEF IndInv, TypeOK, OwnExchange, TimesKept, Packet, Reply, Chunk,
       Still, Given, Carries, Arriving, Finished, Exit, WaitEnds, Fault
<1> QED BY <1>1, <1>2, <1>3 DEF IndInv

(* The script looks at the answer. *)
LEMMA AnswerStep ==
  ASSUME IndInv, Answer
  PROVE  IndInv'
<1>1. TypeOK'
  <2>1. PICK a \in Answers : IF op = "set" THEN SetAnswer(a) ELSE ReadAnswer(a)
    BY DEF Answer
  <2>2. a \in Nat \cup {Nonsense, Unbound, Refused, Garbage}
    BY AnswersType
  <2>3. /\ pc' \in {"idle", "send"} /\ op' \in {"set", "read"} /\ which' \in Which
        /\ attempt' \in 1 .. 3
    BY <2>1 DEF IndInv, TypeOK, SetAnswer, ReadAnswer, TryAgain, Raise, Return, SetFrameTime,
                ReadFrameTime, Call
  <2>4. t' \in Nat /\ retries' \in Nat
    <3>1. t \in Nat /\ request \in Nat /\ retries \in Nat /\ Gap \in Nat
      BY CameraAssumption DEF IndInv, TypeOK
    <3>2. /\ t' = t \/ t' = t + 1 \/ t' = request + Gap \/ t' = 0
          /\ retries' = retries \/ retries' = retries + 1
      BY <2>1 DEF SetAnswer, ReadAnswer, TryAgain, Raise, Return, SetFrameTime, ReadFrameTime, Call
    <3> QED BY <3>1, <3>2
  <2>5. reported' \in [Which -> Nat \cup {Nothing, Nonsense, Unbound}]
    <3>1. \/ reported' = reported \/ reported' = [w \in Which |-> Nothing]
          \/ a \notin {Refused, Garbage} /\ reported' = [reported EXCEPT ![which] = a]
      BY <2>1 DEF SetAnswer, ReadAnswer, TryAgain, Raise, Return
    <3> QED BY <2>2, <3>1 DEF IndInv, TypeOK
  <2> QED BY <2>3, <2>4, <2>5 DEF IndInv, TypeOK, Answer
<1>2. OwnExchange'
  BY CameraAssumption DEF IndInv, TypeOK, OwnExchange, Packet, Reply, Chunk, Still,
       Given, Carries, Arriving, Answer, Answers, SetAnswer, ReadAnswer, TryAgain, Raise,
       Return, SetFrameTime, ReadFrameTime, Call
<1>3. TimesKept'
  <2>1. PICK a \in Answers : IF op = "set" THEN SetAnswer(a) ELSE ReadAnswer(a)
    BY DEF Answer
  <2>2. /\ pc = "answer" /\ UNCHANGED <<sent, line, register, request, quiet>>
    BY DEF Answer
  <2>3. /\ t \in Nat /\ retries \in Nat /\ request \in Nat /\ op \in {"set", "read"} /\ which \in Which
        /\ Gap \in Nat /\ reported["frame"] = Nothing /\ DOMAIN reported = Which
    BY <2>2, CameraAssumption DEF IndInv, TypeOK, TimesKept
  <2>4. CASE TryAgain /\ UNCHANGED <<op, which, reported>>
    <3>1. /\ pc' = "send" /\ t' = t + 1 /\ UNCHANGED <<op, which, reported>>
          /\ retries' = IF which = "int" THEN retries + 1 ELSE retries
      BY <2>4 DEF TryAgain
    <3> QED BY <2>2, <2>3, <3>1 DEF IndInv, TimesKept, OwnExchange, Still, Finished
  <2>5. CASE Raise
    BY <2>5, <2>2, <2>3 DEF Raise, TimesKept, Finished
  <2>6. CASE a \notin {Refused, Garbage} /\ Return(a)
    <3>1. quiet => Still /\ a = register[which] /\ (op = "set" => register[which] = t)
      BY <2>2, <2>6, OwnAnswer
    <3>2. CASE which = "int"
      <4>1. /\ pc' = "send" /\ op' = op /\ which' = "frame" /\ retries' = retries
            /\ reported' = [reported EXCEPT !["int"] = a]
            /\ op = "set" => t' = request + Gap
        BY <2>3, <2>6, <3>2 DEF Return, SetFrameTime, ReadFrameTime, Call
      <4>2. op = "set" => t = request + retries
        BY <2>2, <3>2 DEF IndInv, TimesKept
      <4>3. reported'["frame"] = Nothing /\ reported'["int"] = a
        BY <2>3, <4>1
      <4> QED BY <2>2, <2>3, <3>1, <3>2, <4>1, <4>2, <4>3 DEF TimesKept, Still, Finished
    <3>3. CASE which = "frame"
      <4>1. /\ pc' = "idle" /\ UNCHANGED <<op, which, t, retries>>
            /\ reported' = [reported EXCEPT !["frame"] = a]
        BY <2>6, <3>3 DEF Return
      <4>2. /\ quiet => reported["int"] = register["int"]
            /\ quiet /\ op = "set" => register["int"] = request + retries
            /\ op = "set" => t >= request + Gap
        BY <2>2, <3>3 DEF IndInv, TimesKept
      <4>3. reported'["frame"] = a /\ reported'["int"] = reported["int"]
        BY <2>3, <4>1
      <4> QED BY <2>2, <2>3, <3>1, <3>3, <4>1, <4>2, <4>3 DEF TimesKept, Still, Finished
    <3> QED BY <3>2, <3>3, <2>3
  <2> QED BY <2>1, <2>4, <2>5, <2>6 DEF SetAnswer, ReadAnswer
<1> QED BY <1>1, <1>2, <1>3 DEF IndInv

(* The invariant holds at first. *)
LEMMA InitInv == Init => IndInv
<1> SUFFICES ASSUME Init PROVE IndInv
  OBVIOUS
<1>1. TypeOK
  BY CameraAssumption DEF Init, TypeOK, Packet, Reply, Chunk
<1>2. OwnExchange
  BY CameraAssumption DEF Init, OwnExchange, Still, Given, Carries, Arriving
<1>3. TimesKept
  BY CameraAssumption DEF Init, TimesKept, Still, Finished
<1> QED BY <1>1, <1>2, <1>3 DEF IndInv

(* Every step keeps the invariant. *)
LEMMA NextInv == IndInv /\ [Next]_vars => IndInv'
<1> SUFFICES ASSUME IndInv, [Next]_vars PROVE IndInv'
  OBVIOUS
<1>1. CASE Link
  BY <1>1, CameraStep, ArriveStep DEF Link
<1>2. CASE Script
  BY <1>2, StartStep, SendStep, FlushStep, WriteStep, ReadStep, ExitStep, AnswerStep DEF Script
<1>3. CASE UNCHANGED vars
  <2>1. TypeOK'
    BY <1>3 DEF IndInv, TypeOK, vars
  <2>2. OwnExchange'
    BY <1>3 DEF IndInv, OwnExchange, Still, Given, Carries, Arriving, vars
  <2>3. TimesKept'
    BY <1>3 DEF IndInv, TimesKept, Still, Finished, vars
  <2> QED BY <2>1, <2>2, <2>3 DEF IndInv
<1> QED BY <1>1, <1>2, <1>3 DEF Next

(* The inductive invariant holds in every reachable state: a command that  *)
(* finds the line quiet has the line for itself, and the times set so far  *)
(* are those reported.                                                     *)
THEOREM Invariance == Spec => []IndInv
  BY InitInv, NextInv, PTL DEF Spec

(* A script that ends without a late answer tells the truth.               *)
THEOREM Truthful == Spec => []TruthfulWhenQuiet
<1>1. IndInv => TruthfulWhenQuiet
  <2> SUFFICES ASSUME IndInv, Finished, quiet PROVE reported = register
    BY DEF TruthfulWhenQuiet
  <2>1. reported["int"] = register["int"] /\ reported["frame"] = register["frame"]
    BY DEF IndInv, TimesKept, Finished
  <2>2. reported = [w \in Which |-> reported[w]] /\ register = [w \in Which |-> register[w]]
    BY DEF IndInv, TypeOK
  <2> QED BY <2>1, <2>2
<1> QED BY <1>1, Invariance, PTL

(* The frame time set is longer than the integration time set.             *)
THEOREM IntFits == Spec => []IntFitsFrame
<1>1. IndInv => IntFitsFrame
  BY CameraAssumption DEF IndInv, TypeOK, TimesKept, Finished, IntFitsFrame
<1> QED BY <1>1, Invariance, PTL

=============================================================================
