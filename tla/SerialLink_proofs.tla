------------------------- MODULE SerialLink_proofs -------------------------
(***************************************************************************)
(* Proofs about SerialLink, for all sizes of commands, buffers and         *)
(* answers: the driver is never given more than it has room for, the       *)
(* camera sees the bytes of the commands in order and without gaps,        *)
(* pdv_serial_write returns 0 when all of the command was sent and -1 when *)
(* nothing was, and a quiet exchange reads its own answer.                 *)
(*                                                                         *)
(* One lemma per action, with one step per part of the invariant.          *)
(***************************************************************************)
EXTENDS SerialLink, SequenceTheorems, TLAPS

USE DEF driverVars, Call

(* What goes from the head of one queue to the end of another is moved     *)
(* within the two put together.                                            *)
LEMMA MovedOn ==
  ASSUME NEW S, NEW s \in Seq(S), NEW q \in Seq(S), q # <<>>
  PROVE  /\ Append(s, Head(q)) \in Seq(S)
         /\ Tail(q) \in Seq(S)
         /\ Append(s, Head(q)) \o Tail(q) = s \o q
<1> DEFINE a == Append(s, Head(q))
           b == Tail(q)
<1>1. /\ a \in Seq(S) /\ Len(a) = Len(s) + 1 /\ a[Len(s) + 1] = q[1]
      /\ \A i \in 1 .. Len(s) : a[i] = s[i]
  OBVIOUS
<1>2. b \in Seq(S) /\ Len(b) = Len(q) - 1 /\ \A i \in 1 .. Len(b) : b[i] = q[i + 1]
  OBVIOUS
<1> HIDE DEF a, b
<1>0. Len(s) \in Nat /\ Len(q) \in Nat
  BY LenProperties
<1>3. /\ a \o b \in Seq(S) /\ Len(a \o b) = Len(s) + Len(q)
      /\ s \o q \in Seq(S) /\ Len(s \o q) = Len(s) + Len(q)
  <2>1. s \o q \in Seq(S) /\ Len(s \o q) = Len(s) + Len(q)
    BY ConcatProperties
  <2>2. a \o b \in Seq(S) /\ Len(a \o b) = Len(a) + Len(b)
    BY <1>1, <1>2, ConcatProperties
  <2> QED BY <2>1, <2>2, <1>0, <1>1, <1>2
<1>4. ASSUME NEW i \in 1 .. Len(s) + Len(q) PROVE (a \o b)[i] = (s \o q)[i]
  <2>0. Len(s) \in Nat /\ Len(q) \in Nat /\ i \in Nat
    BY LenProperties
  <2>1. (a \o b)[i] = IF i <= Len(s) + 1 THEN a[i] ELSE b[i - (Len(s) + 1)]
    BY <1>1, <1>2, <2>0, ConcatProperties
  <2>2. (s \o q)[i] = IF i <= Len(s) THEN s[i] ELSE q[i - Len(s)]
    BY <2>0, ConcatProperties
  <2>3. i > Len(s) + 1 => b[i - (Len(s) + 1)] = q[i - Len(s)]
    <3>1. i > Len(s) + 1 => i - (Len(s) + 1) \in 1 .. Len(b) /\ (i - (Len(s) + 1)) + 1 = i - Len(s)
      BY <2>0, <1>2
    <3> QED BY <3>1, <1>2
  <2> QED BY <2>0, <2>1, <2>2, <2>3, <1>1
<1>5. a \o b = s \o q
  BY <1>3, <1>4, SeqEqual
<1> QED BY <1>1, <1>2, <1>5 DEF a, b

(* Two sequences put together, by position.                                *)
LEMMA ConcatIndexed ==
  ASSUME NEW S, NEW s \in Seq(S), NEW t \in Seq(S), NEW m \in Nat, Len(t) = m
  PROVE  /\ Len(s) \in Nat /\ s \o t \in Seq(S) /\ Len(s \o t) = Len(s) + m
         /\ \A i \in 1 .. Len(s) : (s \o t)[i] = s[i]
         /\ \A i \in 1 .. m : (s \o t)[Len(s) + i] = t[i]
<1>1. Len(s) \in Nat /\ Len(t) \in Nat
  BY LenProperties
<1>2. /\ s \o t \in Seq(S) /\ Len(s \o t) = Len(s) + Len(t)
      /\ \A i \in 1 .. Len(s) + Len(t) :
           (s \o t)[i] = IF i <= Len(s) THEN s[i] ELSE t[i - Len(s)]
  BY ConcatProperties
<1>3. ASSUME NEW i \in 1 .. Len(t) PROVE (s \o t)[Len(s) + i] = t[i]
  <2>1. Len(s) + i \in 1 .. Len(s) + Len(t) /\ ~(Len(s) + i <= Len(s)) /\ (Len(s) + i) - Len(s) = i
    BY <1>1
  <2> QED BY <1>2, <2>1
<1> QED BY <1>1, <1>2, <1>3

(* The bytes of a call.                                                    *)
LEMMA BytesType ==
  ASSUME NEW c \in Nat \ {0}, NEW from \in Nat \ {0}, NEW to \in Nat
  PROVE  /\ Bytes(c, from, to) \in Seq(Byte)
         /\ Len(Bytes(c, from, to)) = IF to < from THEN 0 ELSE to - from + 1
         /\ \A i \in 1 .. Len(Bytes(c, from, to)) : Bytes(c, from, to)[i] = <<c, from + i - 1>>
<1> DEFINE k == IF to < from THEN 0 ELSE to - from + 1
<1>1. k \in Nat
  OBVIOUS
<1>2. \A i \in 1 .. k : <<c, from + i - 1>> \in Byte
  BY DEF Byte
<1> HIDE DEF k
<1>3. [i \in 1 .. k |-> <<c, from + i - 1>>] \in Seq(Byte)
  BY <1>1, <1>2
<1>4. Bytes(c, from, to) = [i \in 1 .. k |-> <<c, from + i - 1>>]
  BY DEF Bytes, k
<1>5. Len([i \in 1 .. k |-> <<c, from + i - 1>>]) = k
  BY <1>1
<1> QED BY <1>1, <1>3, <1>4, <1>5 DEF k

(* Where pdv_serial_write returns to.                                      *)
ReturnsTo ==
  /\ pc' \in {"idle", "queryWait", "answerWait"}
  /\ pc' = "queryWait" => Current.op = "query"
  /\ pc' = "answerWait" => Current.op = "txrx"
  /\ Current.op = "txrx" => pc' = "answerWait"

LEMMA ReturnPlace ==
  ASSUME TypeOK, Call > 0, Current.op # "read_blocking", pc' = AfterWrite
  PROVE  ReturnsTo
<1>1. Current \in CallType
  BY ElementOfSeq DEF TypeOK, Current
<1>2. Current.op \in {"command", "query", "txrx"}
  BY <1>1 DEF CallType
<1> QED BY <1>2 DEF ReturnsTo, AfterWrite

(* What holds when a field of the present call has changed.                *)
LEMMA CallChanged ==
  ASSUME TypeOK, Call > 0, NEW new \in CallType,
         calls' = [calls EXCEPT ![Call] = new]
  PROVE  /\ calls' \in Seq(CallType) /\ Len(calls') = Len(calls) /\ Call' = Call
         /\ \A c \in 1 .. Call : calls'[c] = IF c = Call THEN new ELSE calls[c]
         /\ Current' = new /\ Current \in CallType
<1> DEFINE i == Len(calls)
<1>1. calls \in Seq(CallType) /\ i \in 1 .. Len(calls)
  BY DEF TypeOK
<1>2. calls[i] \in CallType
  BY <1>1, ElementOfSeq
<1>3. calls' = [calls EXCEPT ![i] = new]
  OBVIOUS
<1>4. /\ calls' \in Seq(CallType) /\ Len(calls') = Len(calls)
      /\ \A j \in 1 .. Len(calls) : calls'[j] = IF j = i THEN new ELSE calls[j]
  BY <1>1, <1>3, ExceptSeq
<1> QED BY <1>1, <1>2, <1>4 DEF Current

(* What holds when pdv_serial_write has failed.                            *)
Failed ==
  /\ calls' \in Seq(CallType) /\ Len(calls') = Len(calls)
  /\ \A c \in 1 .. Len(calls) :
       /\ calls'[c].op = calls[c].op /\ calls'[c].size = calls[c].size
       /\ calls'[c].lost = calls[c].lost
       /\ c # Len(calls) => calls'[c].ret = calls[c].ret
  /\ calls'[Len(calls)].ret = -1
  /\ Len(calls) > 0 /\ Current'.op = Current.op /\ Current'.size = Current.size
  /\ ReturnsTo

(* What pdv_serial_write leaves behind then.                               *)
LEMMA WriteFailed ==
  ASSUME TypeOK, pc # "idle", Current.op # "read_blocking", WriteFails
  PROVE  Failed
<1> DEFINE new == [calls[Call] EXCEPT !.ret = -1]
<1>1. calls \in Seq(CallType) /\ Call \in 1 .. Len(calls) /\ Call > 0
  BY DEF TypeOK
<1>2. calls[Call] \in CallType
  BY <1>1, ElementOfSeq
<1>3. /\ new \in CallType /\ new.op = calls[Call].op /\ new.size = calls[Call].size
      /\ new.lost = calls[Call].lost /\ new.ret = -1
  BY <1>2 DEF CallType
<1>4. calls' = [calls EXCEPT ![Call] = new]
  BY <1>1 DEF WriteFails
<1> HIDE DEF new
<1>5. /\ calls' \in Seq(CallType) /\ Len(calls') = Len(calls)
      /\ \A c \in 1 .. Call : calls'[c] = IF c = Call THEN new ELSE calls[c]
      /\ Current' = new
  BY <1>1, <1>3, <1>4, CallChanged
<1>6. ReturnsTo
  BY <1>1, ReturnPlace DEF WriteFails
<1>7. \A c \in 1 .. Len(calls) :
        /\ calls'[c].op = calls[c].op /\ calls'[c].size = calls[c].size
        /\ calls'[c].lost = calls[c].lost
        /\ c # Len(calls) => calls'[c].ret = calls[c].ret
  BY <1>3, <1>5
<1> QED BY <1>1, <1>3, <1>5, <1>6, <1>7 DEF Failed, Current

(* pdv_serial_write_single_block gives up, or has a block to send.         *)
LEMMA BlockOrReturn ==
  ASSUME IndInv, pc \in {"first", "sendMore"},
         NEW size \in Nat, size <= left, size <= n, single_block(size)
  PROVE  \/ /\ Failed /\ UNCHANGED <<left, block>>
            /\ size = 0 \/ size > MsgMax
         \/ /\ size > 0 /\ block' = size /\ left' = left - size /\ pc' = "send"
            /\ UNCHANGED calls
<1>1. pc # "idle" /\ Current.op # "read_blocking"
  BY DEF IndInv, CallInStep, Writing
<1>2. CASE size = 0 \/ (~Pause /\ size > MsgMax)
  BY <1>1, <1>2, WriteFailed DEF IndInv, single_block
<1>3. CASE ~(size = 0 \/ (~Pause /\ size > MsgMax))
  BY <1>3 DEF single_block
<1> QED BY <1>2, <1>3

(* What pdv_serial_write does before it sends a block.                     *)
BlockChosen ==
  /\ Given' = Given
  /\ UNCHANGED <<driverVars, n, got, quiet>>
  /\ pc \in {"first", "sendMore"} /\ block = 0 /\ left \in Nat \ {0} /\ n \in Nat
  /\ \/ /\ Failed /\ UNCHANGED <<left, block>>
        /\ n > MsgMax \/ (n = 0 /\ pc = "first")
     \/ /\ block' \in Nat \ {0} /\ left' \in Nat /\ left' = left - block'
        /\ block' <= n /\ pc' = "send"
        /\ UNCHANGED calls

(* The first block fits into the room found.                               *)
LEMMA FirstBlockChosen ==
  ASSUME IndInv, FirstBlock
  PROVE  BlockChosen
<1> DEFINE size == IF n > left THEN left ELSE n
<1>1. /\ block = 0 /\ left \in Nat \ {0} /\ n \in Nat /\ pc = "first"
      /\ single_block(size) /\ UNCHANGED <<driverVars, n, got, quiet>>
  <2>1. Call > 0 /\ Current \in CallType
    BY ElementOfSeq DEF IndInv, TypeOK, FirstBlock, Current
  <2> QED BY <2>1, SerialAssumption
      DEF IndInv, TypeOK, CallInStep, Writing, CallType, FirstBlock
<1>2. size \in Nat /\ size <= left /\ size <= n /\ (size = 0 => n = 0)
  BY <1>1
<1>3. Given' = Given
  BY <1>1 DEF Given
<1> HIDE DEF size
<1> QED BY <1>1, <1>2, <1>3, BlockOrReturn, SerialAssumption DEF BlockChosen

(* So does every further block.                                            *)
LEMMA MoreBlocksChosen ==
  ASSUME IndInv, MoreBlocks, n > 0
  PROVE  BlockChosen
<1> DEFINE size == IF n > left THEN left ELSE n
<1>1. /\ block = 0 /\ left \in Nat \ {0} /\ n \in Nat /\ pc = "sendMore"
      /\ single_block(size) /\ UNCHANGED <<driverVars, n, got, quiet>>
  BY DEF IndInv, TypeOK, CallInStep, Writing, MoreBlocks
<1>2. size \in Nat \ {0} /\ size <= left /\ size <= n
  BY <1>1
<1>3. Given' = Given
  BY <1>1 DEF Given
<1> HIDE DEF size
<1> QED BY <1>1, <1>2, <1>3, BlockOrReturn, SerialAssumption DEF BlockChosen

(* What the driver was given are bytes.                                    *)
LEMMA GivenType ==
  ASSUME TypeOK
  PROVE  /\ Given \in Seq(Byte) /\ Len(Given) = Len(wire) + Len(tx)
         /\ \A i \in 1 .. Len(Given) : Given[i][1] \in Nat \ {0} /\ Given[i][2] \in Nat \ {0}
         /\ \A i \in 1 .. Len(tx) : tx[i] = Given[Len(wire) + i]
<1>1. Given \in Seq(Byte) /\ Len(Given) = Len(wire) + Len(tx)
  BY ConcatProperties DEF TypeOK, Given
<1>2. \A i \in 1 .. Len(Given) : Given[i] \in Byte
  BY <1>1, ElementOfSeq
<1>3. ASSUME NEW i \in 1 .. Len(tx) PROVE tx[i] = Given[Len(wire) + i]
  <2>1. Len(wire) \in Nat /\ Len(tx) \in Nat
    BY LenProperties DEF TypeOK
  <2>2. Len(wire) + i \in 1 .. Len(wire) + Len(tx) /\ (Len(wire) + i) - Len(wire) = i
        /\ ~(Len(wire) + i <= Len(wire))
    BY <2>1
  <2> QED BY <2>2, ConcatProperties DEF TypeOK, Given
<1> QED BY <1>1, <1>2, <1>3 DEF Byte

(* What a call begins with.                                                *)
Begun ==
  /\ Given' = Given
  /\ UNCHANGED <<driverVars, block, n>>
  /\ pc = "idle" /\ got' = <<>> /\ block = 0
  /\ Len(calls) \in Nat /\ calls' \in Seq(CallType) /\ Len(calls') = Len(calls) + 1
  /\ \A c \in 1 .. Len(calls) : calls'[c] = calls[c]
  /\ Current'.size = left' /\ left' \in Nat \ {0} /\ Current'.ret = 0
  /\ \/ pc' = "flush" /\ Current'.op = "txrx"
     \/ pc' = "blocking" /\ Current'.op = "read_blocking"
     \/ pc' = "write" /\ Current'.op \in {"command", "query"}
  /\ quiet' \in BOOLEAN /\ (quiet' => tx = <<>> /\ owed = <<>>)

(* How a call begins.                                                      *)
LEMMA BeginsSo ==
  ASSUME IndInv, Begin
  PROVE  Begun
<1>1. PICK op \in Ops, size \in Sizes :
        /\ calls' = Append(calls, [op |-> op, size |-> size, ret |-> 0, lost |-> FALSE])
        /\ left' = size
        /\ pc' = CASE op = "txrx"          -> "flush"
                   [] op = "read_blocking" -> "blocking"
                   [] OTHER                -> "write"
  BY DEF Begin
<1> DEFINE call == [op |-> op, size |-> size, ret |-> 0, lost |-> FALSE]
<1>2. call \in CallType /\ size \in Nat \ {0}
  BY SerialAssumption DEF CallType
<1>3. call.op = op /\ call.size = size /\ call.ret = 0
  OBVIOUS
<1>4. calls \in Seq(CallType) /\ Len(calls) \in Nat
  BY LenProperties DEF IndInv, TypeOK
<1> HIDE DEF call
<1>5. /\ calls' \in Seq(CallType) /\ Len(calls') = Len(calls) + 1
      /\ \A c \in 1 .. Len(calls) : calls'[c] = calls[c]
      /\ Current' = call
  BY <1>1, <1>2, <1>4, AppendProperties DEF call, Current
<1>6. \/ pc' = "flush" /\ op = "txrx"
      \/ pc' = "blocking" /\ op = "read_blocking"
      \/ pc' = "write" /\ op \in {"command", "query"}
  BY <1>1, SerialAssumption
<1>7. block = 0 /\ pc = "idle"
  BY DEF Begin, IndInv, TypeOK, CallInStep
<1>8. Given' = Given
  BY DEF Begin, Given
<1>9. quiet' \in BOOLEAN /\ (quiet' => tx = <<>> /\ owed = <<>>)
  BY DEF Begin
<1> QED BY <1>1, <1>2, <1>3, <1>4, <1>5, <1>6, <1>7, <1>8, <1>9 DEF Begun, Begin

(* The result of a write that is over already holds on.                    *)
LEMMA ResultsKept ==
  ASSUME IndInv, Given' = Given, UNCHANGED room,
         \A c \in 1 .. Call' : Done(c)' => /\ c \in 1 .. Call /\ calls'[c] = calls[c]
                                        /\ Done(c)
  PROVE  SuccessIsWhole' /\ FailureIsNone'
<1>1. SuccessIsWhole'
  BY DEF IndInv, SuccessIsWhole, LastGiven
<1>2. FailureIsNone'
  BY DEF IndInv, FailureIsNone
<1> QED BY <1>1, <1>2

(* What is in order stays so when nothing is given.                        *)
LEMMA OrderKept ==
  ASSUME IndInv, Given' = Given,
         \A c \in 1 .. Call : calls[c].lost => calls'[c].lost
  PROVE  CommandsInOrder'
<1>1. \A i \in 1 .. Len(Given) : Given[i][1] \in 1 .. Call
  BY GivenType, LenProperties DEF IndInv, InStep, TypeOK
<1>2. \A i \in 1 .. Len(Given) : calls[Given[i][1]].lost => calls'[Given[i][1]].lost
  BY <1>1
<1>3. Len(Given) \in Nat /\ (Given # <<>> => 1 \in 1 .. Len(Given))
  BY GivenType DEF IndInv
<1>4. Given' # <<>> => Given'[1][2] = 1 \/ calls'[Given'[1][1]].lost
  BY <1>2, <1>3 DEF IndInv, CommandsInOrder
<1>5. ASSUME NEW i \in 1 .. Len(Given) - 1
      PROVE  /\ i + 1 \in 1 .. Len(Given)
             /\ Follows(Given[i], Given[i + 1])
             /\ calls[Given[i + 1][1]].lost => calls'[Given[i + 1][1]].lost
  BY <1>2, <1>3 DEF IndInv, CommandsInOrder
<1>6. ASSUME NEW i \in 1 .. Len(Given) - 1 PROVE Follows(Given[i], Given[i + 1])'
  BY <1>5 DEF Follows
<1> QED BY <1>4, <1>6 DEF CommandsInOrder

(* edt_send_msg has been called for k more bytes of the command.           *)
SendMoves(k) ==
  /\ UNCHANGED <<room, wire, owed, rx, left, n, got, quiet>>
  /\ pc = "send" /\ block \in Nat /\ k <= block /\ left \in Nat
  /\ Call \in Nat \ {0} /\ Call' = Call /\ calls' \in Seq(CallType)
  /\ \A c \in 1 .. Call :
       /\ calls'[c].op = calls[c].op /\ calls'[c].size = calls[c].size
       /\ calls'[c].ret = calls[c].ret
       /\ calls[c].lost => calls'[c].lost
       /\ c # Call => calls'[c].lost = calls[c].lost
  /\ Current'.size = Current.size /\ Current'.op = Current.op
  /\ Current'.ret = 0 /\ Current.ret = 0
  /\ Sent \in Nat /\ Sent + block + left = Current.size
  /\ block' = block - k
  /\ \/ block - k > 0 /\ pc' = "send"
     \/ block = k /\ left > 0 /\ pc' = "more"
     \/ block = k /\ left = 0 /\ ReturnsTo

(* The driver has been given them.                                         *)
BlockSent(k) ==
  /\ SendMoves(k)
  /\ UNCHANGED calls
  /\ Len(tx) \in Nat /\ tx' \in Seq(Byte) /\ Len(tx') = Len(tx) + k
  /\ \A i \in 1 .. Len(tx) : tx'[i] = tx[i]
  /\ \A i \in 1 .. k : tx'[Len(tx) + i] = <<Call, Sent + i>>
  /\ Len(Given) \in Nat /\ Len(Given') = Len(Given) + k
  /\ \A i \in 1 .. Len(Given) : Given'[i] = Given[i]
  /\ \A i \in 1 .. k : Given'[Len(Given) + i] = <<Call, Sent + i>>

(* It has refused them.                                                    *)
BlockRefused(k) ==
  /\ SendMoves(k)
  /\ UNCHANGED tx /\ Given' = Given
  /\ Current'.lost

(* How a block is sent.                                                    *)
LEMMA SendsSo ==
  ASSUME IndInv, SendMsg
  PROVE  \E k \in Nat \ {0} : BlockSent(k) \/ BlockRefused(k)
<1> DEFINE k == IF Pause THEN 1 ELSE block
<1>1. /\ pc = "send" /\ block \in Nat \ {0} /\ left \in Nat /\ Call \in Nat \ {0}
      /\ UNCHANGED <<room, wire, owed, rx, left, n, got, quiet>>
  <2>1. calls \in Seq(CallType) /\ Call > 0
    BY DEF IndInv, TypeOK, SendMsg
  <2> QED BY <2>1, LenProperties DEF IndInv, TypeOK, CallInStep, SendMsg
<1>2. Current.size \in Nat /\ Current.op # "read_blocking"
  <2>1. Current \in CallType
    BY <1>1, ElementOfSeq DEF IndInv, TypeOK, Current
  <2>2. Current.op # "read_blocking"
    BY <1>1 DEF IndInv, CallInStep, Writing
  <2> QED BY <2>1, <2>2, SerialAssumption DEF CallType
<1>3. Sent \in Nat /\ Sent + block + left = Current.size
  <2>1. Sent >= 0
    BY <1>1 DEF IndInv, CallInStep, Writing
  <2>2. Sent = Current.size - left - block
    BY DEF Sent
  <2> HIDE DEF Current
  <2> QED BY <1>1, <1>2, <2>1, <2>2
<1>4. k \in Nat \ {0} /\ k <= block
  BY <1>1
<1>5. /\ block' = block - k
      /\ \/ tx' = tx \o Bytes(Call, Sent + 1, Sent + k) /\ UNCHANGED calls
         \/ UNCHANGED tx /\ calls' = [calls EXCEPT ![Call].lost = TRUE]
  <2>1. \/ tx' = tx \o Bytes(Call, Sent + 1, (Sent + 1) + k - 1) /\ UNCHANGED calls
        \/ UNCHANGED tx /\ calls' = [calls EXCEPT ![Call].lost = TRUE]
    BY DEF SendMsg, Sent
  <2>2. (Sent + 1) + k - 1 = Sent + k
    BY <1>3, <1>4
  <2> QED BY <2>1, <2>2 DEF SendMsg
<1>6. PICK rest \in Nat : rest = block - k /\ block' = rest
  <2>1. block' = block - k
    BY <1>5
  <2> QED BY <1>1, <1>4, <2>1
<1>7. \/ block - k > 0 /\ pc' = "send"
      \/ block = k /\ left > 0 /\ pc' = "more"
      \/ block = k /\ left = 0 /\ ReturnsTo
  <2>1. \/ rest > 0 /\ pc' = "send"
        \/ ~(rest > 0) /\ left > 0 /\ pc' = "more"
        \/ ~(rest > 0) /\ ~(left > 0) /\ pc' = AfterWrite
    BY <1>6 DEF SendMsg
  <2>2. ~(rest > 0) => block = k
    BY <1>1, <1>4, <1>6
  <2>3. pc' = AfterWrite => ReturnsTo
    BY <1>1, <1>2, ReturnPlace DEF IndInv
  <2> QED BY <2>1, <2>2, <2>3, <1>1, <1>6
<1> HIDE DEF k
<1>a. Current.ret = 0 /\ calls \in Seq(CallType) /\ Current \in CallType
  BY <1>1, ElementOfSeq DEF IndInv, TypeOK, CallInStep, Writing, Current
<1>b. CASE UNCHANGED tx /\ calls' = [calls EXCEPT ![Call].lost = TRUE]
  <2> DEFINE new == [calls[Call] EXCEPT !.lost = TRUE]
  <2>1. /\ new \in CallType /\ new.op = Current.op /\ new.size = Current.size
        /\ new.ret = Current.ret /\ new.lost
    BY <1>a DEF CallType, Current
  <2>2. calls' = [calls EXCEPT ![Call] = new]
    BY <1>1, <1>a, <1>b
  <2> HIDE DEF new
  <2>3. /\ calls' \in Seq(CallType) /\ Call' = Call /\ Current' = new
        /\ \A c \in 1 .. Call : calls'[c] = IF c = Call THEN new ELSE calls[c]
    <3>1. TypeOK /\ Call > 0
      BY <1>1 DEF IndInv
    <3> QED BY <2>1, <2>2, <3>1, CallChanged
  <2>4. \A c \in 1 .. Call :
          /\ calls'[c].op = calls[c].op /\ calls'[c].size = calls[c].size
          /\ calls'[c].ret = calls[c].ret
          /\ calls[c].lost => calls'[c].lost
          /\ c # Call => calls'[c].lost = calls[c].lost
    BY <2>1, <2>3 DEF Current
  <2>5. SendMoves(k)
    BY <1>1, <1>3, <1>4, <1>5, <1>7, <1>a, <2>1, <2>3, <2>4 DEF SendMoves
  <2>6. Given' = Given
    BY <1>1, <1>b DEF Given
  <2> QED BY <1>4, <1>b, <2>1, <2>3, <2>5, <2>6 DEF BlockRefused
<1> SUFFICES ASSUME tx' = tx \o Bytes(Call, Sent + 1, Sent + k), UNCHANGED calls
             PROVE  BlockSent(k)
  BY <1>4, <1>5, <1>b
<1>c. SendMoves(k)
  BY <1>1, <1>3, <1>4, <1>5, <1>7, <1>a DEF SendMoves, Current
<1> DEFINE b == Bytes(Call, Sent + 1, Sent + k)
<1>8. /\ b \in Seq(Byte) /\ Len(b) = k
      /\ \A i \in 1 .. k : b[i] = <<Call, Sent + i>>
  <2>1. Sent + 1 \in Nat \ {0} /\ Sent + k \in Nat /\ ~(Sent + k < Sent + 1)
        /\ (Sent + k) - (Sent + 1) + 1 = k
    BY <1>3, <1>4
  <2>2. b \in Seq(Byte) /\ Len(b) = k /\ \A i \in 1 .. Len(b) : b[i] = <<Call, (Sent + 1) + i - 1>>
    BY <1>1, <2>1, BytesType
  <2>3. \A i \in 1 .. k : (Sent + 1) + i - 1 = Sent + i
    BY <1>3, <1>4
  <2> QED BY <2>2, <2>3
<1>9. /\ Len(tx) \in Nat /\ tx' \in Seq(Byte) /\ Len(tx') = Len(tx) + k
      /\ \A i \in 1 .. Len(tx) : tx'[i] = tx[i]
      /\ \A i \in 1 .. k : tx'[Len(tx) + i] = b[i]
  <2> HIDE DEF b
  <2>1. tx \in Seq(Byte) /\ tx' = tx \o b
    BY <1>5 DEF IndInv, TypeOK, b
  <2>2. /\ Len(tx) \in Nat /\ tx \o b \in Seq(Byte) /\ Len(tx \o b) = Len(tx) + k
        /\ \A i \in 1 .. Len(tx) : (tx \o b)[i] = tx[i]
        /\ \A i \in 1 .. k : (tx \o b)[Len(tx) + i] = b[i]
    <3>1. b \in Seq(Byte) /\ Len(b) = k /\ k \in Nat
      BY <1>4, <1>8
    <3>2. tx \in Seq(Byte)
      BY <2>1
    <3> QED BY <3>1, <3>2, ConcatIndexed, SMTT(60)
  <2> QED BY <2>1, <2>2, Zenon
<1>10. /\ Len(Given) \in Nat /\ Len(Given') = Len(Given) + k
       /\ \A i \in 1 .. Len(Given) : Given'[i] = Given[i]
       /\ \A i \in 1 .. k : Given'[Len(Given) + i] = b[i]
  <2> HIDE DEF b
  <2>1. Given \in Seq(Byte) /\ tx \in Seq(Byte) /\ wire \in Seq(Byte)
    BY GivenType DEF IndInv, TypeOK
  <2>2. Given' = Given \o b
    <3>1. Given' = wire \o (tx \o b) /\ Given = wire \o tx
      BY <1>1, <1>5 DEF Given, b
    <3>2. (wire \o tx) \o b = wire \o (tx \o b)
      BY <2>1, <1>8, ConcatAssociative
    <3> QED BY <3>1, <3>2, Zenon
  <2>3. /\ Len(Given) \in Nat /\ Len(Given \o b) = Len(Given) + k
        /\ \A i \in 1 .. Len(Given) : (Given \o b)[i] = Given[i]
        /\ \A i \in 1 .. k : (Given \o b)[Len(Given) + i] = b[i]
    <3>1. b \in Seq(Byte) /\ Len(b) = k /\ k \in Nat
      BY <1>4, <1>8
    <3>2. Given \in Seq(Byte)
      BY <2>1
    <3> QED BY <3>1, <3>2, ConcatIndexed, SMTT(60)
  <2> QED BY <2>2, <2>3, Zenon
<1> HIDE DEF b
<1> QED BY <1>c, <1>8, <1>9, <1>10 DEF BlockSent

(* What is read is the head of what there is.                              *)
LEMMA ReadTakes ==
  ASSUME NEW S, NEW s \in Seq(S), NEW size \in Nat
  PROVE  /\ Least(size, Len(s)) \in Nat /\ Least(size, Len(s)) <= Len(s)
         /\ SubSeq(s, 1, Least(size, Len(s))) \in Seq(S)
         /\ Len(SubSeq(s, 1, Least(size, Len(s)))) = Least(size, Len(s))
         /\ \A i \in 1 .. Least(size, Len(s)) : SubSeq(s, 1, Least(size, Len(s)))[i] = s[i]
         /\ SubSeq(s, Least(size, Len(s)) + 1, Len(s)) \in Seq(S)
<1> DEFINE k == Least(size, Len(s))
<1>1. Len(s) \in Nat /\ \A i \in 1 .. Len(s) : s[i] \in S
  BY LenProperties, ElementOfSeq
<1>2. k \in Nat /\ k <= Len(s)
  BY <1>1 DEF Least
<1> HIDE DEF k
<1>3. /\ SubSeq(s, 1, k) \in Seq(S) /\ Len(SubSeq(s, 1, k)) = k
      /\ \A i \in 1 .. k : SubSeq(s, 1, k)[i] = s[i]
  <2>1. \A i \in 1 .. k : s[i] \in S
    BY <1>1, <1>2
  <2>2. /\ SubSeq(s, 1, k) \in Seq(S)
        /\ Len(SubSeq(s, 1, k)) = IF 1 <= k THEN k - 1 + 1 ELSE 0
        /\ \A i \in 1 .. k - 1 + 1 : SubSeq(s, 1, k)[i] = s[1 + i - 1]
    BY <1>2, <2>1, SubSeqProperties
  <2>3. k - 1 + 1 = k /\ \A i \in 1 .. k : 1 + i - 1 = i
    BY <1>2
  <2>4. (IF 1 <= k THEN k - 1 + 1 ELSE 0) = k
    BY <1>2
  <2> QED BY <2>2, <2>3, <2>4
<1>4. SubSeq(s, k + 1, Len(s)) \in Seq(S)
  <2>1. \A i \in k + 1 .. Len(s) : s[i] \in S
    BY <1>1, <1>2
  <2> QED BY <1>1, <1>2, <2>1, SubSeqProperties
<1> QED BY <1>2, <1>3, <1>4 DEF k

(* What is read are bytes.                                                 *)
LEMMA ReadType ==
  ASSUME TypeOK, NEW size \in Nat, Read(size)
  PROVE  rx' \in Seq(Byte) /\ got' \in Seq(Byte)
<1>1. rx \in Seq(Byte) /\ got \in Seq(Byte)
  BY DEF TypeOK
<1> DEFINE k == Least(size, Len(rx))
<1>2. SubSeq(rx, 1, k) \in Seq(Byte) /\ SubSeq(rx, k + 1, Len(rx)) \in Seq(Byte)
  BY <1>1, ReadTakes
<1>3. got' = got \o SubSeq(rx, 1, k) /\ rx' = SubSeq(rx, k + 1, Len(rx))
  BY DEF Read
<1> HIDE DEF k
<1>4. got \o SubSeq(rx, 1, k) \in Seq(Byte)
  BY <1>1, <1>2, ConcatProperties
<1> QED BY <1>2, <1>3, <1>4

(* An answer.                                                              *)
LEMMA AnswerType ==
  ASSUME NEW c \in Nat \ {0}
  PROVE  /\ Answer(c) \in Seq(Byte) /\ Len(Answer(c)) = AnswerLen
         /\ \A i \in 1 .. AnswerLen : Answer(c)[i] = <<c, i>>
<1>1. AnswerLen \in Nat /\ 1 \in Nat \ {0}
  BY SerialAssumption
<1>2. (IF AnswerLen < 1 THEN 0 ELSE AnswerLen - 1 + 1) = AnswerLen
      /\ \A i \in 1 .. AnswerLen : 1 + i - 1 = i
  BY <1>1
<1>3. /\ Bytes(c, 1, AnswerLen) \in Seq(Byte)
      /\ Len(Bytes(c, 1, AnswerLen)) = (IF AnswerLen < 1 THEN 0 ELSE AnswerLen - 1 + 1)
      /\ \A i \in 1 .. Len(Bytes(c, 1, AnswerLen)) : Bytes(c, 1, AnswerLen)[i] = <<c, 1 + i - 1>>
  BY <1>1, BytesType
<1>4. Answer(c) = Bytes(c, 1, AnswerLen)
  BY DEF Answer
<1> QED BY <1>2, <1>3, <1>4

(* A byte goes out. *)
LEMMA TransmitStep ==
  ASSUME IndInv, Transmit
  PROVE  IndInv'
<1>0. Given' = Given
  <2>1. wire \in Seq(Byte) /\ tx \in Seq(Byte) /\ tx # <<>>
    BY DEF IndInv, TypeOK, Transmit
  <2>2. Append(wire, Head(tx)) \o Tail(tx) = wire \o tx
    BY <2>1, MovedOn
  <2> QED BY <2>2 DEF Given, Transmit
<1>r. SuccessIsWhole' /\ FailureIsNone'
  <2>1. \A c \in 1 .. Call' : Done(c)' => /\ c \in 1 .. Call /\ calls'[c] = calls[c]
                                         /\ Done(c)
    BY DEF IndInv, CallInStep, Done, Writing, Transmit
  <2> QED BY <1>0, <2>1, ResultsKept DEF Transmit
<1>1. TypeOK'
  <2>1. /\ tx # <<>> /\ tx \in Seq(Byte) /\ wire \in Seq(Byte) /\ owed \in Seq(Byte)
        /\ UNCHANGED <<room, rx, calls, pc, left, block, n, got, quiet>>
    BY DEF IndInv, TypeOK, Transmit
  <2>2. wire' \in Seq(Byte) /\ tx' \in Seq(Byte)
    BY <2>1, MovedOn DEF Transmit
  <2>3. owed' \in Seq(Byte)
    <3>1. Head(tx) \in Byte
      BY <2>1, HeadTailProperties
    <3>2. Head(tx)[1] \in Nat \ {0}
      BY <3>1 DEF Byte
    <3>3. Answer(Head(tx)[1]) \in Seq(Byte)
      BY <3>2, AnswerType
    <3>4. owed \o Answer(Head(tx)[1]) \in Seq(Byte)
      BY <2>1, <3>3, ConcatProperties
    <3> QED BY <2>1, <3>4 DEF Transmit
  <2> QED BY <2>1, <2>2, <2>3 DEF IndInv, TypeOK
<1>2. CallInStep'
  BY SerialAssumption DEF IndInv, TypeOK, CallInStep, Writing, CallType, Byte, Sent,
       Current, Before, Transmit
<1>3. RoomKept'
  BY SerialAssumption DEF IndInv, TypeOK, CallInStep, RoomKept, Writing, CallType,
       Byte, Sent, Current, Before, Transmit
<1>4. ReplyFits'
  BY SerialAssumption DEF IndInv, TypeOK, CallInStep, ReplyFits, Writing, CallType,
       Byte, Sent, Current, Before, Transmit
<1>5. InStep'
  BY <1>0, SerialAssumption DEF IndInv, TypeOK, CallInStep, InStep, Writing, CallType,
       Byte, Sent, Current, Before, Transmit
<1>6. CommandsInOrder'
  BY <1>0, SerialAssumption DEF IndInv, TypeOK, CallInStep, InStep, CommandsInOrder,
       Writing, CallType, Byte, Sent, Current, Before, Follows, Transmit
<1>7. SuccessIsWhole'
  BY <1>r
<1>8. FailureIsNone'
  BY <1>r
<1>9. OwnExchange'
  <2> SUFFICES ASSUME Call > 0, Current.op = "txrx", quiet,
                      pc \in Writing \cup {"answerWait", "answerRead"} \/ pc \in Before \/ pc # "idle"
               PROVE  /\ pc \notin Before /\ got = <<>>
                      /\ pc \in Writing \cup {"answerWait", "answerRead"} =>
                           /\ \A i \in 1 .. Len(tx') : tx'[i][1] = Call
                           /\ \/ rx = <<>> /\ owed' = <<>>
                              \/ /\ rx \o owed' = Answer(Call)
                                 /\ pc \notin Writing
                                 /\ \A i \in 1 .. Len(tx') : tx'[i][2] # Current.size
    <3>1. UNCHANGED <<pc, calls, quiet, got, rx, n>>
      BY DEF Transmit
    <3>2. "flushRead" \in Before /\ Before \cap (Writing \cup {"answerWait", "answerRead"}) = {} /\ "idle" \notin Before \cup Writing
      BY DEF Before, Writing
    <3> QED BY <3>1, <3>2 DEF OwnExchange, Current
  <2>1. /\ tx # <<>> /\ tx \in Seq(Byte) /\ owed \in Seq(Byte) /\ Call \in Nat \ {0}
        /\ wire \in Seq(Byte)
    BY LenProperties DEF Transmit, IndInv, TypeOK
  <2>2. pc \notin Before
    BY <2>1 DEF IndInv, OwnExchange
  <2>3. got = <<>>
    BY DEF IndInv, OwnExchange, Before, Writing
  <2>4. ASSUME pc \in Writing \cup {"answerWait", "answerRead"}
        PROVE  /\ \A i \in 1 .. Len(tx') : tx'[i][1] = Call
               /\ \/ rx = <<>> /\ owed' = <<>>
                  \/ /\ rx \o owed' = Answer(Call)
                     /\ pc \notin Writing
                     /\ \A i \in 1 .. Len(tx') : tx'[i][2] # Current.size
    <3>1. /\ Len(tx) \in Nat \ {0} /\ Head(tx) = tx[1] /\ tx' = Tail(tx)
          /\ Len(tx') = Len(tx) - 1
          /\ \A i \in 1 .. Len(tx') : tx'[i] = tx[i + 1]
      BY <2>1, HeadTailProperties, LenProperties DEF Transmit
    <3>2. \A i \in 1 .. Len(tx') : i + 1 \in 1 .. Len(tx)
      <4>1. PICK m : m = Len(tx) - 1
        OBVIOUS
      <4>2. Len(tx') = m
        BY <3>1, <4>1, Zenon
      <4> QED BY <3>1, <4>1, <4>2
    <3>3. \A i \in 1 .. Len(tx) : tx[i][1] = Call
      BY <2>4 DEF IndInv, OwnExchange
    <3>4. tx[1][1] = Call
      BY <3>1, <3>3
    <3>5. owed' = IF tx[1][2] = Current.size THEN owed \o Answer(Call) ELSE owed
      BY <3>1, <3>4 DEF Transmit, Current
    <3>6. \A i \in 1 .. Len(tx') : tx'[i][1] = Call
      BY <3>1, <3>2, <3>3
    <3>7. CASE rx \o owed = Answer(Call) /\ pc \notin Writing /\ \A i \in 1 .. Len(tx) : tx[i][2] # Current.size
      <4>1. tx[1][2] # Current.size
        BY <3>1, <3>7
      <4> QED BY <3>1, <3>2, <3>5, <3>6, <3>7, <4>1
    <3>8. CASE rx = <<>> /\ owed = <<>>
      <4>1. CASE tx[1][2] # Current.size
        BY <3>5, <3>6, <3>8, <4>1
      <4>2. CASE tx[1][2] = Current.size
        <5>1. rx \o owed' = Answer(Call)
          <6>1. Answer(Call) \in Seq(Byte)
            BY <2>1, AnswerType
          <6>2. <<>> \o Answer(Call) = Answer(Call)
            BY <6>1, ConcatEmptySeq
          <6>3. owed' = <<>> \o Answer(Call)
            BY <3>5, <3>8, <4>2
          <6> QED BY <3>8, <6>2, <6>3
        <5>2. tx[1] = Given[Len(wire) + 1] /\ Len(wire) + 1 \in 1 .. Len(Given) /\ Len(wire) \in Nat
          BY <2>1, <3>1, GivenType, LenProperties DEF IndInv
        <5>3. pc \notin Writing
          <6> SUFFICES ASSUME pc \in Writing PROVE FALSE
            OBVIOUS
          <6>1. Current.size \in Nat \ {0}
            <7>1. Current \in CallType
              BY <2>1, ElementOfSeq DEF IndInv, TypeOK, Current
            <7> QED BY <7>1, SerialAssumption DEF CallType
          <6>2. Sent < Current.size
            <7>1. left \in Nat /\ block \in Nat /\ left + block > 0
              <8>1. /\ left \in Nat /\ block \in Nat
                    /\ pc = "send" => block > 0
                    /\ pc \in {"write", "first"} => left = Current.size
                    /\ pc \in {"more", "sendMore"} => left > 0
                BY DEF IndInv, TypeOK, CallInStep
              <8> QED BY <6>1, <8>1 DEF Writing
            <7>2. Sent = Current.size - left - block
              BY DEF Sent
            <7> QED BY <6>1, <7>1, <7>2
          <6>3. tx[1][2] <= Sent
            BY <5>2, <3>4 DEF IndInv, InStep
          <6>4. Sent \in Int
            BY <6>1 DEF Sent, IndInv, TypeOK
          <6> QED BY <4>2, <6>1, <6>2, <6>3, <6>4
        <5>4. ASSUME NEW i \in 1 .. Len(tx') PROVE tx'[i][2] # Current.size
          <6>1. i + 1 \in 1 .. Len(tx) /\ tx'[i] = tx[i + 1]
            BY <3>1, <3>2
          <6>2. tx[i + 1] = Given[Len(wire) + (i + 1)] /\ tx[i + 1][1] = Call
            BY <6>1, <3>3, GivenType DEF IndInv
          <6>3. Len(wire) + (i + 1) \in 1 .. Len(Given) /\ Len(wire) + 1 < Len(wire) + (i + 1)
            <7>1. Len(Given) = Len(wire) + Len(tx)
              BY GivenType DEF IndInv
            <7>2. i \in 1 .. Len(tx')
              OBVIOUS
            <7>3. Len(wire) + 1 < Len(wire) + (i + 1)
              BY <5>2, <7>2
            <7> QED BY <5>2, <6>1, <7>1, <3>1, <7>3
          <6>4. \/ tx[1][1] < tx[i + 1][1]
                \/ tx[1][1] = tx[i + 1][1] /\ tx[1][2] < tx[i + 1][2]
            BY <5>2, <6>2, <6>3 DEF IndInv, InStep
          <6>5. tx[1][2] < tx[i + 1][2]
            BY <2>1, <3>4, <6>2, <6>4
          <6>6. tx[1][2] \in Nat
            BY <5>2, GivenType DEF IndInv
          <6> QED BY <4>2, <6>1, <6>5, <6>6
        <5> QED BY <3>6, <5>1, <5>3, <5>4
      <4> QED BY <4>1, <4>2
    <3>9. \/ rx = <<>> /\ owed = <<>>
          \/ rx \o owed = Answer(Call) /\ pc \notin Writing /\ \A i \in 1 .. Len(tx) : tx[i][2] # Current.size
      BY <2>4 DEF IndInv, OwnExchange
    <3> QED BY <3>7, <3>8, <3>9
  <2> QED BY <2>2, <2>3, <2>4
<1>10. OwnAnswer'
  BY SerialAssumption DEF IndInv, TypeOK, CallInStep, OwnExchange, OwnAnswer, Writing,
       CallType, Byte, Sent, Current, Before, Transmit
<1> QED BY <1>1, <1>2, <1>3, <1>4, <1>5, <1>6, <1>7, <1>8, <1>9, <1>10 DEF IndInv

(* A byte of an answer comes. *)
LEMMA ReceiveStep ==
  ASSUME IndInv, Receive
  PROVE  IndInv'
<1>0. Given' = Given
  BY DEF Given, Receive
<1>r. SuccessIsWhole' /\ FailureIsNone'
  <2>1. \A c \in 1 .. Call' : Done(c)' => /\ c \in 1 .. Call /\ calls'[c] = calls[c]
                                         /\ Done(c)
    BY DEF IndInv, CallInStep, Done, Writing, Receive
  <2> QED BY <1>0, <2>1, ResultsKept DEF Receive
<1>1. TypeOK'
  BY SerialAssumption DEF IndInv, TypeOK, Writing, CallType, Byte, Receive
<1>2. CallInStep'
  BY SerialAssumption DEF IndInv, TypeOK, CallInStep, Writing, CallType, Byte, Sent,
       Current, Before, Receive
<1>3. RoomKept'
  BY SerialAssumption DEF IndInv, TypeOK, CallInStep, RoomKept, Writing, CallType,
       Byte, Sent, Current, Before, Receive
<1>4. ReplyFits'
  BY SerialAssumption DEF IndInv, TypeOK, CallInStep, ReplyFits, Writing, CallType,
       Byte, Sent, Current, Before, Receive
<1>5. InStep'
  BY <1>0, SerialAssumption DEF IndInv, TypeOK, CallInStep, InStep, Writing, CallType,
       Byte, Sent, Current, Before, Receive
<1>6. CommandsInOrder'
  BY <1>0, SerialAssumption DEF IndInv, TypeOK, CallInStep, InStep, CommandsInOrder,
       Writing, CallType, Byte, Sent, Current, Before, Follows, Receive
<1>7. SuccessIsWhole'
  BY <1>r
<1>8. FailureIsNone'
  BY <1>r
<1>9. OwnExchange'
  <2>1. owed # <<>> /\ owed \in Seq(Byte) /\ rx \in Seq(Byte)
    BY DEF IndInv, TypeOK, Receive
  <2>2. rx' \o owed' = rx \o owed
    BY <2>1, MovedOn DEF Receive
  <2>3. UNCHANGED <<tx, calls, pc, got, quiet>> /\ Current' = Current
    BY DEF Receive, Current
  <2> SUFFICES ASSUME Call > 0, Current.op = "txrx", quiet
               PROVE  /\ pc \notin Before
                      /\ pc # "idle" => got = <<>>
                      /\ pc \in Writing \cup {"answerWait", "answerRead"} =>
                           /\ \A i \in 1 .. Len(tx) : tx[i][1] = Call
                           /\ rx' \o owed' = Answer(Call) /\ pc \notin Writing
                           /\ \A i \in 1 .. Len(tx) : tx[i][2] # Current.size
    <3>1. "flushRead" \in Before
      BY DEF Before
    <3> QED BY <2>3, <3>1 DEF OwnExchange
  <2>4. pc \notin Before
    BY <2>1 DEF IndInv, OwnExchange
  <2> QED BY <2>1, <2>2, <2>4 DEF IndInv, OwnExchange
<1>10. OwnAnswer'
  BY SerialAssumption DEF IndInv, TypeOK, CallInStep, OwnExchange, OwnAnswer, Writing,
       CallType, Byte, Sent, Current, Before, Receive
<1> QED BY <1>1, <1>2, <1>3, <1>4, <1>5, <1>6, <1>7, <1>8, <1>9, <1>10 DEF IndInv

(* A call begins. *)
LEMMA BeginStep ==
  ASSUME IndInv, Begun
  PROVE  IndInv'
<1>0. Given' = Given
  BY DEF Given, Begun
<1>r. SuccessIsWhole' /\ FailureIsNone'
  <2>1. ASSUME NEW c \in 1 .. Call', Done(c)'
        PROVE  /\ c \in 1 .. Call /\ calls'[c] = calls[c]
               /\ Done(c)
    <3>1. Call' = Call + 1 /\ Call \in Nat /\ c \in Nat
      BY DEF Begun
    <3>2. c # Call'
      <4> SUFFICES ASSUME c = Call' PROVE FALSE
        OBVIOUS
      <4>1. Current' = calls'[c]
        BY DEF Current
      <4>2. pc' \notin Writing \cup {"flush", "flushRead"} /\ calls'[c].op # "read_blocking"
        BY <3>1, <2>1 DEF Done
      <4> QED BY <4>1, <4>2 DEF Begun, Writing, Current
    <3>3. c \in 1 .. Call
      BY <3>1, <3>2
    <3>4. calls'[c] = calls[c] /\ pc = "idle"
      BY <3>3 DEF Begun
    <3> QED BY <3>3, <3>4, <2>1 DEF Done, Writing
  <2> QED BY <1>0, <2>1, ResultsKept DEF Begun
<1>1. TypeOK'
  BY SerialAssumption DEF IndInv, TypeOK, Writing, CallType, Byte, Begun
<1>2. CallInStep'
  <2>0. PICK x \in Nat : x = left' /\ Current'.size = x /\ block' = 0
    BY DEF Begun
  <2>a. Sent' = x - x - 0
    BY <2>0 DEF Sent, Current
  <2>1. Sent' = 0
    BY <2>a
  <2> QED BY <2>1 DEF Begun, CallInStep, Before, Writing
<1>3. RoomKept'
  BY SerialAssumption DEF IndInv, TypeOK, CallInStep, RoomKept, Writing, CallType,
       Byte, Sent, Current, Before, Begun
<1>4. ReplyFits'
  BY SerialAssumption DEF IndInv, TypeOK, CallInStep, ReplyFits, Writing, CallType,
       Byte, Sent, Current, Before, Begun
<1>5. InStep'
  <2>0. PICK x \in Nat : x = left' /\ Current'.size = x /\ block' = 0
    BY DEF Begun
  <2>a. Sent' = x - x - 0
    BY <2>0 DEF Sent, Current
  <2>1. Sent' = 0 /\ Call' = Call + 1 /\ Call \in Nat
    BY <2>a DEF Begun
  <2>2. \A i \in 1 .. Len(Given) : Given[i][1] \in Nat /\ Given[i][1] <= Call
    BY GivenType DEF IndInv, InStep
  <2> QED BY <1>0, <2>1, <2>2 DEF IndInv, InStep
<1>6. CommandsInOrder'
  <2>1. \A c \in 1 .. Call : calls[c].lost => calls'[c].lost
    BY DEF Begun
  <2> QED BY <1>0, <2>1, OrderKept
<1>7. SuccessIsWhole'
  BY <1>r
<1>8. FailureIsNone'
  BY <1>r
<1>9. OwnExchange'
  <2> QED BY DEF Begun, OwnExchange, Before, Writing
<1>10. OwnAnswer'
  BY SerialAssumption DEF IndInv, TypeOK, CallInStep, OwnExchange, OwnAnswer, Writing,
       CallType, Byte, Sent, Current, Before, Begun
<1> QED BY <1>1, <1>2, <1>3, <1>4, <1>5, <1>6, <1>7, <1>8, <1>9, <1>10 DEF IndInv

(* pdv_serial_txrx looks for junk. *)
LEMMA FlushWaitStep ==
  ASSUME IndInv, FlushWait
  PROVE  IndInv'
<1>0. Given' = Given
  BY DEF Given, FlushWait, wait
<1>r. SuccessIsWhole' /\ FailureIsNone'
  <2>1. \A c \in 1 .. Call' : Done(c)' => /\ c \in 1 .. Call /\ calls'[c] = calls[c]
                                         /\ Done(c)
    BY DEF IndInv, CallInStep, Done, Writing, FlushWait, wait
  <2> QED BY <1>0, <2>1, ResultsKept DEF FlushWait, wait
<1>1. TypeOK'
  BY SerialAssumption DEF IndInv, TypeOK, Writing, CallType, Byte, FlushWait, wait
<1>2. CallInStep'
  BY SerialAssumption DEF IndInv, TypeOK, CallInStep, Writing, CallType, Byte, Sent,
       Current, Before, FlushWait, wait
<1>3. RoomKept'
  BY SerialAssumption DEF IndInv, TypeOK, CallInStep, RoomKept, Writing, CallType,
       Byte, Sent, Current, Before, FlushWait, wait
<1>4. ReplyFits'
  BY SerialAssumption DEF IndInv, TypeOK, CallInStep, ReplyFits, Writing, CallType,
       Byte, Sent, Current, Before, FlushWait, wait
<1>5. InStep'
  BY <1>0, SerialAssumption DEF IndInv, TypeOK, CallInStep, InStep, Writing, CallType,
       Byte, Sent, Current, Before, FlushWait, wait
<1>6. CommandsInOrder'
  BY <1>0, SerialAssumption DEF IndInv, TypeOK, CallInStep, InStep, CommandsInOrder,
       Writing, CallType, Byte, Sent, Current, Before, Follows, FlushWait, wait
<1>7. SuccessIsWhole'
  BY <1>r
<1>8. FailureIsNone'
  BY <1>r
<1>9. OwnExchange'
  BY SerialAssumption DEF IndInv, TypeOK, CallInStep, InStep, OwnExchange, Writing,
       CallType, Byte, Sent, Current, Before, FlushWait, wait
<1>10. OwnAnswer'
  BY SerialAssumption DEF IndInv, TypeOK, CallInStep, OwnExchange, OwnAnswer, Writing,
       CallType, Byte, Sent, Current, Before, FlushWait, wait
<1> QED BY <1>1, <1>2, <1>3, <1>4, <1>5, <1>6, <1>7, <1>8, <1>9, <1>10 DEF IndInv

(* It reads it. *)
LEMMA FlushReadStep ==
  ASSUME IndInv, FlushRead
  PROVE  IndInv'
<1>0. Given' = Given
  BY DEF Given, FlushRead, Least
<1>r. SuccessIsWhole' /\ FailureIsNone'
  <2>1. \A c \in 1 .. Call' : Done(c)' => /\ c \in 1 .. Call /\ calls'[c] = calls[c]
                                         /\ Done(c)
    BY DEF IndInv, CallInStep, Done, Writing, FlushRead, Least
  <2> QED BY <1>0, <2>1, ResultsKept DEF FlushRead, Least
<1>1. TypeOK'
  <2>1. rx' \in Seq(Byte)
    BY ReadTakes DEF FlushRead, IndInv, TypeOK
  <2> QED BY <2>1 DEF FlushRead, IndInv, TypeOK, Writing
<1>2. CallInStep'
  BY SerialAssumption DEF IndInv, TypeOK, CallInStep, Writing, CallType, Byte, Sent,
       Current, Before, FlushRead, Least
<1>3. RoomKept'
  BY SerialAssumption DEF IndInv, TypeOK, CallInStep, RoomKept, Writing, CallType,
       Byte, Sent, Current, Before, FlushRead, Least
<1>4. ReplyFits'
  BY SerialAssumption DEF IndInv, TypeOK, CallInStep, ReplyFits, Writing, CallType,
       Byte, Sent, Current, Before, FlushRead, Least
<1>5. InStep'
  BY <1>0, SerialAssumption DEF IndInv, TypeOK, CallInStep, InStep, Writing, CallType,
       Byte, Sent, Current, Before, FlushRead, Least
<1>6. CommandsInOrder'
  BY <1>0, SerialAssumption DEF IndInv, TypeOK, CallInStep, InStep, CommandsInOrder,
       Writing, CallType, Byte, Sent, Current, Before, Follows, FlushRead, Least
<1>7. SuccessIsWhole'
  BY <1>r
<1>8. FailureIsNone'
  BY <1>r
<1>9. OwnExchange'
  <2> SUFFICES ASSUME Call > 0, Current.op = "txrx", quiet
               PROVE  tx = <<>> /\ owed = <<>> /\ got = <<>> /\ rx' = <<>>
    <3>1. UNCHANGED <<tx, owed, calls, got, quiet>> /\ pc' = "write" /\ Current' = Current
      BY DEF FlushRead, Current
    <3>2. tx = <<>> => Len(tx) = 0
      OBVIOUS
    <3> QED BY <3>1, <3>2 DEF OwnExchange, Before
  <2>1. tx = <<>> /\ owed = <<>> /\ got = <<>> /\ n = Len(rx)
    BY DEF FlushRead, IndInv, OwnExchange, Before
  <2>2. Len(rx) \in Nat /\ Least(n, Len(rx)) = Len(rx)
    BY <2>1, LenProperties DEF IndInv, TypeOK, Least
  <2>3. rx' = SubSeq(rx, Len(rx) + 1, Len(rx))
    BY <2>2 DEF FlushRead
  <2>4. rx' = <<>>
    BY <2>2, <2>3, SubSeqEmpty
  <2> QED BY <2>1, <2>4
<1>10. OwnAnswer'
  BY SerialAssumption DEF IndInv, TypeOK, CallInStep, OwnExchange, OwnAnswer, Writing,
       CallType, Byte, Sent, Current, Before, FlushRead, Least
<1> QED BY <1>1, <1>2, <1>3, <1>4, <1>5, <1>6, <1>7, <1>8, <1>9, <1>10 DEF IndInv

(* The room is asked for. *)
LEMMA WriteAvailableStep ==
  ASSUME IndInv, WriteAvailable
  PROVE  IndInv'
<1>0. Given' = Given
  BY DEF Given, WriteAvailable, write_available
<1>r. SuccessIsWhole' /\ FailureIsNone'
  <2>1. \A c \in 1 .. Call' : Done(c)' => /\ c \in 1 .. Call /\ calls'[c] = calls[c]
                                         /\ Done(c)
    BY DEF IndInv, CallInStep, Done, Writing, WriteAvailable, write_available
  <2> QED BY <1>0, <2>1, ResultsKept DEF WriteAvailable, write_available
<1>1. TypeOK'
  BY SerialAssumption DEF IndInv, TypeOK, CallInStep, RoomKept, ReplyFits, InStep,
       CommandsInOrder, SuccessIsWhole, FailureIsNone, OwnExchange, OwnAnswer, Writing,
       CallType, Byte, Sent, Current, Before, Follows, Done, WriteAvailable, write_available
<1>2. CallInStep'
  BY SerialAssumption DEF IndInv, TypeOK, CallInStep, Writing, CallType, Byte, Sent,
       Current, Before, WriteAvailable, write_available
<1>3. RoomKept'
  BY SerialAssumption DEF IndInv, TypeOK, CallInStep, RoomKept, Writing, CallType,
       Byte, Sent, Current, Before, WriteAvailable, write_available
<1>4. ReplyFits'
  BY SerialAssumption DEF IndInv, TypeOK, CallInStep, ReplyFits, Writing, CallType,
       Byte, Sent, Current, Before, WriteAvailable, write_available
<1>5. InStep'
  BY <1>0, SerialAssumption DEF IndInv, TypeOK, CallInStep, InStep, Writing, CallType,
       Byte, Sent, Current, Before, WriteAvailable, write_available
<1>6. CommandsInOrder'
  BY <1>0, SerialAssumption DEF IndInv, TypeOK, CallInStep, InStep, CommandsInOrder,
       Writing, CallType, Byte, Sent, Current, Before, Follows, WriteAvailable,
       write_available
<1>7. SuccessIsWhole'
  BY <1>r
<1>8. FailureIsNone'
  BY <1>r
<1>9. OwnExchange'
  BY SerialAssumption DEF IndInv, TypeOK, CallInStep, InStep, OwnExchange, Writing,
       CallType, Byte, Sent, Current, Before, WriteAvailable, write_available
<1>10. OwnAnswer'
  BY SerialAssumption DEF IndInv, TypeOK, CallInStep, OwnExchange, OwnAnswer, Writing,
       CallType, Byte, Sent, Current, Before, WriteAvailable, write_available
<1> QED BY <1>1, <1>2, <1>3, <1>4, <1>5, <1>6, <1>7, <1>8, <1>9, <1>10 DEF IndInv

(* A block is chosen, or the write fails. *)
LEMMA BlockStep ==
  ASSUME IndInv, BlockChosen
  PROVE  IndInv'
<1>0. Given' = Given
  BY DEF BlockChosen
<1>1. TypeOK'
  BY SerialAssumption DEF IndInv, TypeOK, Writing, CallType, Byte, BlockChosen,
       Failed, ReturnsTo
<1>2. CallInStep'
  <2>1. CASE Failed /\ UNCHANGED <<left, block>>
    BY <2>1 DEF CallInStep, Failed, ReturnsTo, Before, Writing, BlockChosen
  <2>2. CASE UNCHANGED calls /\ pc' = "send" /\ left' = left - block' /\ left' \in Nat /\ block' \in Nat \ {0}
    <3>1. /\ Current.size \in Nat /\ left \in Nat /\ block = 0 /\ Current.op # "read_blocking"
          /\ Sent >= 0 /\ Current.ret = 0
      <4>1. Call > 0 /\ Current \in CallType
        BY ElementOfSeq DEF IndInv, TypeOK, BlockChosen, Current
      <4> QED BY <4>1, SerialAssumption DEF IndInv, CallInStep, BlockChosen, CallType, Writing, Current
    <3> QED BY <2>2, <3>1 DEF CallInStep, Before, Writing, Sent, Current
  <2> QED BY <2>1, <2>2 DEF BlockChosen
<1>3. RoomKept'
  BY SerialAssumption DEF IndInv, TypeOK, CallInStep, RoomKept, Writing, CallType,
       Byte, Sent, Current, Before, BlockChosen, Failed, ReturnsTo
<1>4. ReplyFits'
  BY SerialAssumption DEF IndInv, TypeOK, CallInStep, ReplyFits, Writing, CallType,
       Byte, Sent, Current, Before, BlockChosen, Failed, ReturnsTo
<1>5. InStep'
  <2>1. CASE Failed
    BY <1>0, <2>1 DEF IndInv, InStep, Failed, ReturnsTo, Before, Writing
  <2>2. CASE UNCHANGED calls /\ pc' = "send" /\ left' = left - block' /\ left' \in Nat /\ block' \in Nat
    <3>1. Sent' = Sent
      <4>1. Current.size \in Nat /\ left \in Nat /\ block = 0
        <5>1. Call > 0 /\ Current \in CallType
          BY ElementOfSeq DEF IndInv, TypeOK, BlockChosen, Current
        <5> QED BY <5>1, SerialAssumption DEF BlockChosen, CallType, Current
      <4> QED BY <2>2, <4>1 DEF Sent, Current
    <3>2. pc \in Before \cup Writing
      BY DEF BlockChosen, Writing
    <3> QED BY <1>0, <2>2, <3>1, <3>2 DEF IndInv, InStep, Current
  <2> QED BY <2>1, <2>2 DEF BlockChosen
<1>6. CommandsInOrder'
  <2>1. \A c \in 1 .. Call : calls[c].lost => calls'[c].lost
    BY DEF BlockChosen, Failed
  <2> QED BY <1>0, <2>1, OrderKept
<1>7. SuccessIsWhole'
  <2>1. CASE Failed
    <3>1. ASSUME NEW c \in 1 .. Call', Done(c)', calls'[c].ret = 0, ~calls'[c].lost
          PROVE  /\ c \in 1 .. Call /\ calls'[c].size = calls[c].size /\ Done(c)
                 /\ calls[c].ret = 0 /\ ~calls[c].lost
      BY <2>1, <3>1 DEF Done, Failed, ReturnsTo, Writing, BlockChosen
    <3> QED BY <1>0, <3>1 DEF IndInv, SuccessIsWhole, LastGiven
  <2>2. CASE UNCHANGED calls /\ pc' = "send"
    BY <1>0, <2>2 DEF IndInv, SuccessIsWhole, LastGiven, Done, Writing, BlockChosen
  <2> QED BY <2>1, <2>2 DEF BlockChosen
<1>8. FailureIsNone'
  <2>1. ASSUME Failed, pc = "first" PROVE \A i \in 1 .. Len(Given) : Given[i][1] # Call
    <3>1. Sent = 0
      BY <2>1 DEF IndInv, TypeOK, CallInStep, Sent, Writing, BlockChosen
    <3>2. \A i \in 1 .. Len(Given) : Given[i][1] = Call => Given[i][2] <= 0
      BY <2>1, <3>1 DEF IndInv, InStep, Writing
    <3> QED BY <3>2, GivenType DEF IndInv
  <2>2. n <= room
    <3>1. Len(tx) \in Nat /\ Len(tx) + n <= room /\ n \in Nat /\ room \in Nat
      BY SerialAssumption, LenProperties DEF IndInv, TypeOK, RoomKept, BlockChosen
    <3> QED BY <3>1
  <2>3. pc \in Writing /\ MsgMax \in Nat /\ room \in Nat
    BY SerialAssumption DEF BlockChosen, Writing, IndInv, TypeOK
  <2>4. CASE Failed
    <3>1. room <= MsgMax => pc = "first"
      BY <2>2, <2>3, <2>4 DEF BlockChosen, Failed, ReturnsTo, Writing
    <3> QED BY <2>1, <2>3, <2>4, <3>1 DEF IndInv, FailureIsNone, Done, BlockChosen, Failed, ReturnsTo, Writing
  <2>5. CASE UNCHANGED calls /\ pc' = "send"
    BY <2>3, <2>5 DEF IndInv, FailureIsNone, Done, BlockChosen, Writing
  <2> QED BY <2>4, <2>5 DEF BlockChosen
<1>9. OwnExchange'
  <2>1. CASE Failed
    BY <2>1 DEF IndInv, OwnExchange, Failed, ReturnsTo, Before, Writing, BlockChosen, Answer
  <2>2. CASE UNCHANGED calls /\ pc' = "send"
    BY <2>2 DEF IndInv, OwnExchange, Before, Writing, BlockChosen, Answer, Current
  <2> QED BY <2>1, <2>2 DEF BlockChosen
<1>10. OwnAnswer'
  BY SerialAssumption DEF IndInv, TypeOK, CallInStep, OwnExchange, OwnAnswer, Writing,
       CallType, Byte, Sent, Current, Before, BlockChosen, Failed, ReturnsTo
<1> QED BY <1>1, <1>2, <1>3, <1>4, <1>5, <1>6, <1>7, <1>8, <1>9, <1>10 DEF IndInv

(* There is no room yet. *)
LEMMA NoRoomStep ==
  ASSUME IndInv, MoreBlocks /\ n <= 0
  PROVE  IndInv'
<1>0. Given' = Given
  BY DEF Given, MoreBlocks
<1>r. SuccessIsWhole' /\ FailureIsNone'
  <2>1. UNCHANGED <<calls, room>> /\ pc' \in Writing /\ pc \in Writing
    BY DEF MoreBlocks, Writing, IndInv, TypeOK
  <2>2. \A c \in 1 .. Call' : Done(c)' => /\ c \in 1 .. Call /\ calls'[c] = calls[c]
                                         /\ Done(c)
    BY <2>1 DEF Done
  <2> QED BY <1>0, <2>1, <2>2, ResultsKept
<1>1. TypeOK'
  BY SerialAssumption DEF IndInv, TypeOK, Writing, CallType, Byte, MoreBlocks
<1>2. CallInStep'
  BY SerialAssumption DEF IndInv, TypeOK, CallInStep, Writing, CallType, Byte, Sent,
       Current, Before, MoreBlocks
<1>3. RoomKept'
  BY SerialAssumption DEF IndInv, TypeOK, CallInStep, RoomKept, Writing, CallType,
       Byte, Sent, Current, Before, MoreBlocks
<1>4. ReplyFits'
  BY SerialAssumption DEF IndInv, TypeOK, CallInStep, ReplyFits, Writing, CallType,
       Byte, Sent, Current, Before, MoreBlocks
<1>5. InStep'
  BY <1>0, SerialAssumption DEF IndInv, TypeOK, CallInStep, InStep, Writing, CallType,
       Byte, Sent, Current, Before, MoreBlocks
<1>6. CommandsInOrder'
  BY <1>0, SerialAssumption DEF IndInv, TypeOK, CallInStep, InStep, CommandsInOrder,
       Writing, CallType, Byte, Sent, Current, Before, Follows, MoreBlocks
<1>7. SuccessIsWhole'
  BY <1>r
<1>8. FailureIsNone'
  BY <1>r
<1>9. OwnExchange'
  BY SerialAssumption DEF IndInv, TypeOK, CallInStep, InStep, OwnExchange, Writing,
       CallType, Byte, Sent, Current, Before, MoreBlocks
<1>10. OwnAnswer'
  BY SerialAssumption DEF IndInv, TypeOK, CallInStep, OwnExchange, OwnAnswer, Writing,
       CallType, Byte, Sent, Current, Before, MoreBlocks
<1> QED BY <1>1, <1>2, <1>3, <1>4, <1>5, <1>6, <1>7, <1>8, <1>9, <1>10 DEF IndInv

(* The driver is given a block, or a byte of it. *)
LEMMA SendStep ==
  ASSUME IndInv, NEW k \in Nat \ {0}, BlockSent(k)
  PROVE  IndInv'
<1>1. TypeOK'
  <2>1. PICK rest \in Nat : rest = block - k /\ block' = rest
    BY DEF BlockSent, SendMoves
  <2>2. calls' \in Seq(CallType) /\ Len(calls') > 0
    BY DEF BlockSent, SendMoves, ReturnsTo, IndInv, TypeOK
  <2>3. pc' \in Writing \cup {"idle", "answerWait", "queryWait"}
    BY DEF BlockSent, SendMoves, ReturnsTo, Writing
  <2>4. tx' \in Seq(Byte) /\ UNCHANGED <<room, wire, owed, rx, left, n, got, quiet>>
    BY DEF BlockSent, SendMoves
  <2> QED BY <2>1, <2>2, <2>3, <2>4 DEF IndInv, TypeOK
<1>2. CallInStep'
  <2>1. PICK rest \in Nat : rest = block - k /\ block' = rest
    BY DEF BlockSent, SendMoves
  <2>2. pc = "send" /\ left \in Nat /\ left' = left /\ k \in Nat \ {0} /\ k <= block /\ block \in Nat
    BY DEF BlockSent, SendMoves
  <2>3. Current'.size = Current.size /\ Current'.op = Current.op /\ Current'.ret = 0
    BY DEF BlockSent, SendMoves
  <2>4. Current.size = Sent + block + left /\ Sent \in Nat /\ Current.op # "read_blocking"
    BY <2>2 DEF BlockSent, SendMoves, IndInv, CallInStep, Writing
  <2>5. Sent' >= 0
    <3>1. Sent' = Current'.size - left' - block'
      BY DEF Sent, Current
    <3>2. PICK x \in Nat : x = Sent + k
      BY <2>4
    <3>3. Sent' = x
      <4>1. Sent' = Current.size - left - rest
        BY <2>1, <2>2, <2>3, <3>1
      <4> QED BY <4>1, <3>2, <2>1, <2>2, <2>4
    <3> QED BY <3>3
  <2>6. CASE rest > 0 /\ pc' = "send"
    BY <2>1, <2>2, <2>3, <2>4, <2>5, <2>6 DEF CallInStep, Before, Writing
  <2>7. CASE rest = 0 /\ left > 0 /\ pc' = "more"
    BY <2>1, <2>2, <2>3, <2>4, <2>5, <2>7 DEF CallInStep, Before, Writing
  <2>8. CASE rest = 0 /\ ReturnsTo
    BY <2>1, <2>3, <2>8 DEF CallInStep, ReturnsTo, Before, Writing
  <2> QED BY <2>1, <2>2, <2>6, <2>7, <2>8 DEF BlockSent, SendMoves
<1>3. RoomKept'
  <2>1. PICK rest \in Nat : rest = block - k /\ block' = rest
    BY DEF BlockSent, SendMoves
  <2>2. PICK size \in Nat : size = Len(tx) + k /\ Len(tx') = size
    BY DEF BlockSent, SendMoves
  <2>3. /\ Len(tx) \in Nat /\ block \in Nat /\ k <= block /\ room \in Nat /\ room' = room
        /\ Len(tx) + block <= room
    BY SerialAssumption DEF BlockSent, SendMoves, IndInv, TypeOK, RoomKept
  <2>4. size <= room /\ size + rest <= room
    BY <2>1, <2>2, <2>3
  <2>5. pc' \notin {"first", "sendMore"}
    BY DEF BlockSent, SendMoves, ReturnsTo
  <2> QED BY <2>1, <2>2, <2>3, <2>4, <2>5 DEF RoomKept
<1>4. ReplyFits'
  BY SerialAssumption DEF IndInv, TypeOK, CallInStep, ReplyFits, Writing, CallType,
       Byte, Sent, Current, Before, BlockSent, SendMoves, ReturnsTo
<1>5. InStep'
  <2> DEFINE size == Len(Given)
  <2>1. size \in Nat /\ k \in Nat \ {0} /\ Sent \in Nat /\ Call \in Nat \ {0} /\ Call' = Call
    BY DEF BlockSent, SendMoves, ReturnsTo
  <2>2. Len(Given') = size + k /\ size + k \in Nat \ {0} /\ Given' # <<>>
    <3>1. Len(Given') = size + k
      BY DEF BlockSent, SendMoves
    <3>2. size + k \in Nat \ {0}
      BY <2>1
    <3>3. Given' = <<>> => Len(Given') = 0
      OBVIOUS
    <3> QED BY <3>1, <3>2, <3>3
  <2>3. /\ \A i \in 1 .. size : Given'[i] = Given[i]
        /\ \A i \in 1 .. k : Given'[size + i] = <<Call, Sent + i>>
    BY DEF BlockSent, SendMoves
  <2>4. \A i \in 1 .. size : /\ Given[i][1] \in Nat /\ Given[i][1] <= Call
                             /\ Given[i][2] \in Nat
                             /\ Given[i][1] = Call => Given[i][2] <= Sent
    <3>1. pc \in Before \cup Writing
      BY DEF BlockSent, SendMoves, Writing
    <3> QED BY <3>1, GivenType DEF IndInv, InStep
  <2>b. \A i, j \in 1 .. size :
           i < j => \/ Given[i][1] < Given[j][1]
                    \/ Given[i][1] = Given[j][1] /\ Given[i][2] < Given[j][2]
    BY DEF IndInv, InStep
  <2> HIDE DEF size
  <2>5. ASSUME NEW i \in 1 .. size + k
        PROVE  \/ i \in 1 .. size /\ Given'[i] = Given[i]
               \/ i - size \in 1 .. k /\ Given'[i] = <<Call, Sent + (i - size)>>
    <3>1. i \notin 1 .. size => i - size \in 1 .. k /\ size + (i - size) = i
      BY <2>1
    <3> QED BY <2>3, <3>1
  <2>6. ASSUME NEW i \in 1 .. size + k, NEW j \in 1 .. size + k, i < j
        PROVE  \/ Given'[i][1] < Given'[j][1]
               \/ Given'[i][1] = Given'[j][1] /\ Given'[i][2] < Given'[j][2]
    <3>1. CASE j \in 1 .. size
      <4>1. i \in 1 .. size
        BY <2>1, <2>6, <3>1
      <4> QED BY <2>3, <2>b, <2>6, <3>1, <4>1
    <3>2. CASE j \notin 1 .. size /\ i \in 1 .. size
      <4>1. j - size \in 1 .. k /\ Given'[j] = <<Call, Sent + (j - size)>>
        BY <2>5, <3>2
      <4>2. PICK y \in Nat : y = Sent + (j - size) /\ y > Sent
        BY <2>1, <4>1
      <4>3. Given[i][1] < Call \/ (Given[i][1] = Call /\ Given[i][2] < y)
        <5>1. /\ Given[i][1] \in Nat /\ Given[i][1] <= Call /\ Given[i][2] \in Nat
              /\ Given[i][1] = Call => Given[i][2] <= Sent
          BY <2>4, <3>2
        <5>2. Sent \in Nat /\ Call \in Nat
          BY <2>1
        <5>3. y \in Nat /\ Sent < y
          BY <4>2, <5>2
        <5>4. Given[i][1] = Call => Given[i][2] < y
          BY <5>1, <5>2, <5>3
        <5>5. Given[i][1] < Call \/ Given[i][1] = Call
          BY <5>1, <5>2
        <5> QED BY <5>4, <5>5
      <4>4. Given'[i] = Given[i] /\ Given'[j][1] = Call /\ Given'[j][2] = y
        BY <2>3, <3>2, <4>1, <4>2
      <4> QED BY <4>3, <4>4, Zenon
    <3>3. CASE j \notin 1 .. size /\ i \notin 1 .. size
      <4>1. PICK x \in Nat : x = Sent + (i - size) /\ Given'[i] = <<Call, x>>
        BY <2>1, <2>5, <3>3
      <4>2. PICK y \in Nat : y = Sent + (j - size) /\ Given'[j] = <<Call, y>>
        BY <2>1, <2>5, <3>3
      <4>3. x < y
        BY <2>1, <2>6, <4>1, <4>2
      <4> QED BY <4>1, <4>2, <4>3
    <3> QED BY <3>1, <3>2, <3>3
  <2>7. ASSUME NEW i \in 1 .. size + k
        PROVE  Given'[i][1] <= Call /\ (Given'[i][1] = Call => Given'[i][2] <= Sent + k)
    <3>1. CASE i \in 1 .. size
      <4>1. /\ Given[i][1] \in Nat /\ Given[i][1] <= Call /\ Given[i][2] \in Nat
            /\ Given[i][1] = Call => Given[i][2] <= Sent
        BY <2>4, <3>1
      <4>2. Given[i][1] <= Call /\ (Given[i][1] = Call => Given[i][2] <= Sent + k)
        BY <2>1, <4>1
      <4>3. Given'[i] = Given[i]
        BY <2>3, <3>1
      <4> QED BY <4>1, <4>2, <4>3, Zenon
    <3>2. CASE i \notin 1 .. size
      <4>1. PICK x \in Nat : x <= Sent + k /\ Given'[i] = <<Call, x>>
        BY <2>1, <2>5, <3>2
      <4> QED BY <2>1, <4>1
    <3> QED BY <3>1, <3>2
  <2>8. Given'[Len(Given')] = <<Call, Sent + k>>
    BY <2>1, <2>2, <2>3
  <2>9. Sent' = Sent + k
    <3>1. Sent' = Current'.size - left' - block'
      BY DEF Sent, Current
    <3>2. PICK rest \in Nat : rest = block - k /\ block' = rest
      BY DEF BlockSent, SendMoves
    <3>3. Sent' = Current.size - left - rest
      BY <3>1, <3>2 DEF BlockSent, SendMoves
    <3>4. left \in Nat /\ block \in Nat /\ Current.size = Sent + block + left
      BY DEF BlockSent, SendMoves
    <3> QED BY <2>1, <3>2, <3>3, <3>4
  <2>10. Call' = Call /\ Len(Given') = size + k
    BY <2>1, <2>2
  <2> QED BY <2>2, <2>6, <2>7, <2>8, <2>9, <2>10 DEF InStep
<1>6. CommandsInOrder'
  <2> DEFINE size == Len(Given)
  <2>1. size \in Nat /\ k \in Nat \ {0} /\ Sent \in Nat /\ Call \in Nat \ {0}
    BY DEF BlockSent, SendMoves
  <2>2. Len(Given') = size + k
    BY DEF BlockSent, SendMoves
  <2>3. /\ \A i \in 1 .. size : Given'[i] = Given[i]
        /\ \A i \in 1 .. k : Given'[size + i] = <<Call, Sent + i>>
    BY DEF BlockSent, SendMoves
  <2>4. /\ Sent > 0 /\ ~Current.lost => size > 0 /\ Given[size] = <<Call, Sent>>
        /\ Sent = 0 => \A i \in 1 .. size : Given[i][1] < Call
    <3>1. pc \in Before \cup Writing
      BY DEF BlockSent, SendMoves, Writing
    <3>2. Sent > 0 /\ ~Current.lost => Given # <<>> /\ Given[size] = <<Call, Sent>>
      BY <3>1 DEF IndInv, InStep
    <3>3. Given # <<>> => size > 0
      BY GivenType DEF IndInv
    <3>4. \A i \in 1 .. size : /\ Given[i][1] \in Nat /\ Given[i][2] \in Nat \ {0}
                             /\ Given[i][1] <= Call /\ (Given[i][1] = Call => Given[i][2] <= Sent)
      BY <3>1, GivenType DEF IndInv, InStep
    <3> QED BY <2>1, <3>2, <3>3, <3>4
  <2>a. \A i \in 1 .. size : /\ Given[i][1] \in Nat /\ Given[i][2] \in Nat
                             /\ Given[i][1] <= Call /\ (Given[i][1] = Call => Given[i][2] <= Sent)
    <3>1. pc \in Before \cup Writing
      BY DEF BlockSent, SendMoves, Writing
    <3> QED BY <3>1, GivenType DEF IndInv, InStep
  <2>5. /\ size > 0 => Given[1][2] = 1 \/ calls[Given[1][1]].lost
        /\ \A i \in 1 .. size - 1 : Follows(Given[i], Given[i + 1])
    <3>1. size > 0 => Given # <<>>
      OBVIOUS
    <3> QED BY <3>1 DEF IndInv, CommandsInOrder
  <2> HIDE DEF size
  <2>6. Given'[1][2] = 1 \/ calls[Given'[1][1]].lost
    <3>1. CASE size > 0
      BY <2>1, <2>3, <2>5, <3>1
    <3>2. CASE size = 0
      <4>1. Sent = 0 \/ Current.lost
        BY <2>1, <2>4, <3>2
      <4>2. Given'[size + 1] = <<Call, Sent + 1>>
        BY <2>1, <2>3
      <4>3. size + 1 = 1 /\ (Sent = 0 => Sent + 1 = 1)
        BY <3>2
      <4> QED BY <4>1, <4>2, <4>3 DEF Current
    <3> QED BY <2>1, <3>1, <3>2
  <2>7. ASSUME NEW i \in 1 .. size + k - 1
        PROVE  Follows(Given'[i], Given'[i + 1])
    <3>0. i \in Nat \ {0}
      BY <2>1
    <3>1. CASE i < size
      <4>1. i \in 1 .. size /\ i + 1 \in 1 .. size /\ i \in 1 .. size - 1
        BY <2>1, <3>1
      <4> QED BY <2>3, <2>5, <4>1
    <3>2. CASE i = size
      <4>1. Given'[i] = Given[size] /\ Given'[i + 1] = <<Call, Sent + 1>>
        BY <2>1, <2>3, <3>2
      <4>2. Follows(Given[size], <<Call, Sent + 1>>)
        <5>1. CASE Sent > 0
          <6>1. CASE ~Current.lost
            BY <2>1, <2>4, <5>1, <6>1 DEF Follows
          <6>2. CASE Current.lost
            <7>1. size > 0 \/ size = 0
              BY <2>1
            <7>2. CASE size > 0
              <8>1. /\ Given[size][1] \in Nat /\ Given[size][2] \in Nat
                    /\ Given[size][1] < Call \/ (Given[size][1] = Call /\ Given[size][2] < Sent + 1)
                BY <2>1, <2>a, <7>2
              <8> QED BY <6>2, <8>1 DEF Follows, Current
            <7> QED BY <2>1, <3>2, <7>1, <7>2
          <6> QED BY <6>1, <6>2
        <5>2. CASE Sent = 0
          <6>1. Given[size][1] < Call
            BY <2>4, <5>2, <3>2
          <6> QED BY <5>2, <6>1 DEF Follows
        <5> QED BY <2>1, <5>1, <5>2
      <4> QED BY <4>1, <4>2
    <3>3. CASE i > size
      <4>1. PICK j \in 1 .. k : j = i - size
        BY <2>1, <3>3
      <4>2. j + 1 \in 1 .. k /\ size + j = i /\ size + (j + 1) = i + 1
        BY <2>1, <4>1
      <4>3. Given'[i] = <<Call, Sent + j>> /\ Given'[i + 1] = <<Call, Sent + (j + 1)>>
        BY <2>3, <4>2
      <4>4. Sent + (j + 1) = (Sent + j) + 1 /\ Sent + (j + 1) > Sent + j
        BY <2>1
      <4> QED BY <4>3, <4>4 DEF Follows
    <3>4. i < size \/ i = size \/ i > size
      BY <2>1
    <3> QED BY <3>1, <3>2, <3>3, <3>4, Zenon
  <2>8. PICK m \in Nat : m = size + k /\ Len(Given') = m
    BY <2>1, <2>2
  <2>9. ASSUME NEW i \in 1 .. m - 1 PROVE Follows(Given'[i], Given'[i + 1])
    <3>1. i \in 1 .. size + k - 1
      BY <2>1, <2>8
    <3> QED BY <2>7, <3>1
  <2>10. (\A i \in 1 .. Len(Given') - 1 : Follows(Given'[i], Given'[i + 1]))
    BY <2>8, <2>9, Zenon
  <2>11. calls' = calls
    BY DEF BlockSent
  <2> QED BY <2>6, <2>10, <2>11 DEF CommandsInOrder, Follows
<1>7. SuccessIsWhole'
  <2> SUFFICES ASSUME NEW c \in 1 .. Call', Done(c)', calls'[c].ret = 0, ~calls'[c].lost
               PROVE  \E i \in 1 .. Len(Given') : Given'[i] = <<c, calls'[c].size>>
    BY DEF SuccessIsWhole, LastGiven
  <2>1. Call' = Call /\ Call \in Nat \ {0} /\ calls'[c].size = calls[c].size
    BY DEF BlockSent, SendMoves, ReturnsTo
  <2>2. /\ Len(Given') = Len(Given) + k /\ Len(Given) \in Nat
        /\ \A i \in 1 .. Len(Given) : Given'[i] = Given[i]
    BY DEF BlockSent, SendMoves
  <2>3. CASE c = Call
    <3>1. block = k /\ left = 0
      BY <2>1, <2>3 DEF BlockSent, SendMoves, Done, Writing
    <3>2. Given'[Len(Given) + k] = <<Call, Current.size>>
      BY <3>1 DEF BlockSent, SendMoves
    <3>3. Len(Given) + k \in 1 .. Len(Given')
      BY <2>2
    <3> QED BY <2>1, <2>3, <3>2, <3>3 DEF Current
  <2>4. CASE c # Call
    <3>1. Done(c) /\ calls[c].ret = 0 /\ ~calls[c].lost /\ c \in 1 .. Call
      BY <2>1, <2>4 DEF BlockSent, SendMoves, ReturnsTo, Done
    <3>2. PICK i \in 1 .. Len(Given) : Given[i] = <<c, calls[c].size>>
      BY <3>1 DEF IndInv, SuccessIsWhole, LastGiven
    <3>3. i \in 1 .. Len(Given')
      BY <2>2
    <3> QED BY <2>1, <2>2, <3>2, <3>3
  <2> QED BY <2>3, <2>4
<1>8. FailureIsNone'
  <2> SUFFICES ASSUME room' <= MsgMax, NEW c \in 1 .. Call', Done(c)', calls'[c].ret = -1,
                      NEW i \in 1 .. Len(Given')
               PROVE  Given'[i][1] # c
    BY DEF FailureIsNone
  <2>1. Call' = Call /\ Call \in Nat \ {0} /\ room' = room
    BY DEF BlockSent, SendMoves, ReturnsTo
  <2>2. c # Call
    <3>1. calls' = calls /\ calls[Call].ret = 0
      BY DEF BlockSent, SendMoves, Current
    <3>2. calls[c].ret = -1
      BY <3>1
    <3> QED BY <3>1, <3>2
  <2>3. Done(c) /\ calls[c].ret = -1 /\ c \in 1 .. Call
    BY <2>1, <2>2 DEF BlockSent, SendMoves, ReturnsTo, Done
  <2>4. \A j \in 1 .. Len(Given) : Given[j][1] # c
    BY <2>1, <2>3 DEF IndInv, FailureIsNone
  <2>5. CASE i \in 1 .. Len(Given)
    BY <2>4, <2>5 DEF BlockSent, SendMoves
  <2>6. CASE i \notin 1 .. Len(Given)
    <3>1. Len(Given) \in Nat /\ i \in 1 .. Len(Given) + k
      BY DEF BlockSent, SendMoves
    <3>2. i - Len(Given) \in 1 .. k /\ Len(Given) + (i - Len(Given)) = i
      BY <2>6, <3>1
    <3>3. Given'[i] = <<Call, Sent + (i - Len(Given))>>
      BY <3>2 DEF BlockSent, SendMoves
    <3> QED BY <2>2, <3>3
  <2> QED BY <2>5, <2>6
<1>9. OwnExchange'
  <2> SUFFICES ASSUME Current'.op = "txrx", quiet' PROVE
        /\ pc' \notin Before /\ got' = <<>>
        /\ \A i \in 1 .. Len(tx') : tx'[i][1] = Call
        /\ rx' = <<>> /\ owed' = <<>>
    <3>1. Call' = Call /\ pc' \notin {"flushRead", "flush"} \cup Before
      BY DEF BlockSent, SendMoves, ReturnsTo, Before
    <3> QED BY <3>1 DEF OwnExchange
  <2>1. Current.op = "txrx" /\ quiet /\ Call > 0 /\ pc = "send" /\ pc \in Writing
    BY DEF BlockSent, SendMoves, Writing
  <2>2. got = <<>> /\ rx = <<>> /\ owed = <<>> /\ \A i \in 1 .. Len(tx) : tx[i][1] = Call
    BY <2>1 DEF IndInv, OwnExchange
  <2>3. pc' \notin Before
    BY DEF BlockSent, SendMoves, ReturnsTo, Before
  <2>4. ASSUME NEW i \in 1 .. Len(tx') PROVE tx'[i][1] = Call
    <3>1. Len(tx) \in Nat /\ i \in 1 .. Len(tx) + k
      BY DEF BlockSent, SendMoves
    <3>2. CASE i \in 1 .. Len(tx)
      BY <2>2, <3>2 DEF BlockSent, SendMoves
    <3>3. CASE i \notin 1 .. Len(tx)
      <4>1. i - Len(tx) \in 1 .. k /\ Len(tx) + (i - Len(tx)) = i
        BY <3>1, <3>3
      <4>2. tx'[i] = <<Call, Sent + (i - Len(tx))>>
        BY <4>1 DEF BlockSent, SendMoves
      <4> QED BY <4>2
    <3> QED BY <3>2, <3>3
  <2> QED BY <2>2, <2>3, <2>4 DEF BlockSent, SendMoves
<1>10. OwnAnswer'
  BY SerialAssumption DEF IndInv, TypeOK, CallInStep, OwnExchange, OwnAnswer, Writing,
       CallType, Byte, Sent, Current, Before, BlockSent, SendMoves, ReturnsTo
<1> QED BY <1>1, <1>2, <1>3, <1>4, <1>5, <1>6, <1>7, <1>8, <1>9, <1>10 DEF IndInv

(* The driver refuses a block, or a byte of it. *)
LEMMA RefuseStep ==
  ASSUME IndInv, NEW k \in Nat \ {0}, BlockRefused(k)
  PROVE  IndInv'
<1>0. Given' = Given
  BY DEF BlockRefused
<1>a. /\ pc = "send" /\ block \in Nat /\ left \in Nat /\ left' = left /\ k <= block
      /\ Call' = Call /\ Call \in Nat \ {0} /\ Sent \in Nat
      /\ Current'.size = Current.size /\ Current'.op = Current.op /\ Current'.ret = 0
      /\ Current.size = Sent + block + left
      /\ Current'.lost /\ Current.op # "read_blocking"
  BY DEF BlockRefused, SendMoves, IndInv, CallInStep, Writing
<1>b. PICK rest \in Nat : rest = block - k /\ block' = rest
  BY <1>a DEF BlockRefused, SendMoves
<1>c. PICK x \in Nat : x = Sent + k /\ x > Sent /\ Sent' = x
  <2>1. Sent' = Current'.size - left' - block'
    BY DEF Sent, Current
  <2>2. Sent' = Current.size - left - rest
    BY <1>a, <1>b, <2>1
  <2> QED BY <1>a, <1>b, <2>2
<1>d. \/ rest > 0 /\ pc' = "send"
      \/ rest = 0 /\ left > 0 /\ pc' = "more"
      \/ rest = 0 /\ left = 0 /\ ReturnsTo
  BY <1>a, <1>b DEF BlockRefused, SendMoves
<1>1. TypeOK'
  <2>1. calls' \in Seq(CallType) /\ Len(calls') > 0 /\ pc' \in Writing \cup {"idle", "answerWait", "queryWait"}
    BY <1>a, <1>d DEF BlockRefused, SendMoves, Writing, ReturnsTo
  <2>2. UNCHANGED <<room, wire, owed, rx, tx, left, n, got, quiet>>
    BY DEF BlockRefused, SendMoves
  <2> QED BY <1>b, <2>1, <2>2 DEF IndInv, TypeOK
<1>2. CallInStep'
  <2>1. Sent' >= 0
    BY <1>c
  <2>2. CASE rest > 0 /\ pc' = "send"
    BY <1>a, <1>b, <2>1, <2>2 DEF CallInStep, Before, Writing
  <2>3. CASE rest = 0 /\ left > 0 /\ pc' = "more"
    BY <1>a, <1>b, <2>1, <2>3 DEF CallInStep, Before, Writing
  <2>4. CASE rest = 0 /\ ReturnsTo
    BY <1>a, <1>b, <2>4 DEF CallInStep, ReturnsTo, Before, Writing
  <2> QED BY <1>d, <2>2, <2>3, <2>4
<1>3. RoomKept'
  <2>1. /\ Len(tx) \in Nat /\ room \in Nat /\ room' = room /\ tx' = tx
        /\ Len(tx) + block <= room
    BY <1>a, SerialAssumption, LenProperties DEF BlockRefused, SendMoves, IndInv, TypeOK, RoomKept
  <2>2. Len(tx) <= room /\ Len(tx) + rest <= room
    BY <1>a, <1>b, <2>1
  <2>3. pc' \notin {"first", "sendMore"}
    BY <1>d DEF ReturnsTo
  <2> QED BY <1>b, <2>1, <2>2, <2>3 DEF RoomKept
<1>4. ReplyFits'
  BY <1>a DEF IndInv, ReplyFits, BlockRefused, SendMoves
<1>5. InStep'
  <2>1. \A i \in 1 .. Len(Given) :
           Given[i][2] \in Nat /\ (Given[i][1] = Call => Given[i][2] <= Sent)
    BY <1>a, GivenType DEF IndInv, InStep, Writing
  <2>2. \A i \in 1 .. Len(Given) : Given[i][1] = Call => Given[i][2] <= x
    BY <1>a, <1>c, <2>1
  <2>3. Given' = Given /\ Sent' = x /\ Call' = Call /\ Current'.lost
    BY <1>0, <1>a, <1>c
  <2> QED BY <2>2, <2>3 DEF IndInv, InStep
<1>6. CommandsInOrder'
  <2>1. \A c \in 1 .. Call : calls[c].lost => calls'[c].lost
    BY DEF BlockRefused, SendMoves
  <2> QED BY <1>0, <2>1, OrderKept
<1>k. ASSUME NEW c \in 1 .. Call', Done(c)', c # Call
      PROVE  /\ c \in 1 .. Call /\ Done(c) /\ calls'[c].size = calls[c].size
             /\ calls'[c].ret = calls[c].ret /\ calls'[c].lost = calls[c].lost
  BY <1>a, <1>k DEF BlockRefused, SendMoves, Done
<1>7. SuccessIsWhole'
  <2> SUFFICES ASSUME NEW c \in 1 .. Call', Done(c)', calls'[c].ret = 0, ~calls'[c].lost
               PROVE  \E i \in 1 .. Len(Given') : Given'[i] = <<c, calls'[c].size>>
    BY DEF SuccessIsWhole, LastGiven
  <2>1. c # Call
    BY <1>a DEF Current
  <2> QED BY <1>0, <1>k, <2>1 DEF IndInv, SuccessIsWhole, LastGiven
<1>8. FailureIsNone'
  <2> SUFFICES ASSUME room' <= MsgMax, NEW c \in 1 .. Call', Done(c)', calls'[c].ret = -1,
                      NEW i \in 1 .. Len(Given')
               PROVE  Given'[i][1] # c
    BY DEF FailureIsNone
  <2>1. c # Call /\ room' = room
    BY <1>a DEF BlockRefused, SendMoves, Current
  <2> QED BY <1>0, <1>k, <2>1 DEF IndInv, FailureIsNone
<1>9. OwnExchange'
  <2>1. /\ UNCHANGED <<tx, rx, owed, got, quiet, n>> /\ pc' \notin Before
    BY <1>d DEF BlockRefused, SendMoves, ReturnsTo, Before
  <2> SUFFICES ASSUME Current'.op = "txrx", quiet' PROVE
        /\ got' = <<>> /\ rx' = <<>> /\ owed' = <<>>
        /\ \A i \in 1 .. Len(tx') : tx'[i][1] = Call
    BY <1>a, <2>1 DEF OwnExchange, Before
  <2>2. Current.op = "txrx" /\ quiet /\ pc \in Writing /\ pc # "idle"
    BY <1>a, <2>1 DEF Writing
  <2> QED BY <1>a, <2>1, <2>2 DEF IndInv, OwnExchange
<1>10. OwnAnswer'
  BY <1>a, <1>d DEF OwnAnswer, ReturnsTo
<1> QED BY <1>1, <1>2, <1>3, <1>4, <1>5, <1>6, <1>7, <1>8, <1>9, <1>10 DEF IndInv

(* The answer is waited for. *)
LEMMA AnswerWaitStep ==
  ASSUME IndInv, AnswerWait
  PROVE  IndInv'
<1>0. Given' = Given
  BY DEF Given, AnswerWait, wait
<1>r. SuccessIsWhole' /\ FailureIsNone'
  <2>1. \A c \in 1 .. Call' : Done(c)' => /\ c \in 1 .. Call /\ calls'[c] = calls[c]
                                         /\ Done(c)
    BY DEF IndInv, CallInStep, Done, Writing, AnswerWait, wait
  <2> QED BY <1>0, <2>1, ResultsKept DEF AnswerWait, wait
<1>1. TypeOK'
  BY SerialAssumption DEF IndInv, TypeOK, Writing, CallType, Byte, AnswerWait, wait
<1>2. CallInStep'
  BY SerialAssumption DEF IndInv, TypeOK, CallInStep, Writing, CallType, Byte, Sent,
       Current, Before, AnswerWait, wait
<1>3. RoomKept'
  BY SerialAssumption DEF IndInv, TypeOK, CallInStep, RoomKept, Writing, CallType,
       Byte, Sent, Current, Before, AnswerWait, wait
<1>4. ReplyFits'
  BY SerialAssumption DEF IndInv, TypeOK, CallInStep, ReplyFits, Writing, CallType,
       Byte, Sent, Current, Before, AnswerWait, wait
<1>5. InStep'
  BY <1>0, SerialAssumption DEF IndInv, TypeOK, CallInStep, InStep, Writing, CallType,
       Byte, Sent, Current, Before, AnswerWait, wait
<1>6. CommandsInOrder'
  BY <1>0, SerialAssumption DEF IndInv, TypeOK, CallInStep, InStep, CommandsInOrder,
       Writing, CallType, Byte, Sent, Current, Before, Follows, AnswerWait, wait
<1>7. SuccessIsWhole'
  BY <1>r
<1>8. FailureIsNone'
  BY <1>r
<1>9. OwnExchange'
  BY SerialAssumption DEF IndInv, TypeOK, CallInStep, InStep, OwnExchange, Writing,
       CallType, Byte, Sent, Current, Before, AnswerWait, wait
<1>10. OwnAnswer'
  BY SerialAssumption DEF IndInv, TypeOK, CallInStep, OwnExchange, OwnAnswer, Writing,
       CallType, Byte, Sent, Current, Before, AnswerWait, wait
<1> QED BY <1>1, <1>2, <1>3, <1>4, <1>5, <1>6, <1>7, <1>8, <1>9, <1>10 DEF IndInv

(* It is read. *)
LEMMA AnswerReadStep ==
  ASSUME IndInv, AnswerRead
  PROVE  IndInv'
<1>0. Given' = Given
  BY DEF Given, AnswerRead, Read, Least
<1>r. SuccessIsWhole' /\ FailureIsNone'
  <2>1. \A c \in 1 .. Call' : Done(c)' => /\ c \in 1 .. Call /\ calls'[c] = calls[c]
                                         /\ Done(c)
    BY DEF IndInv, CallInStep, Done, Writing, AnswerRead, Read, Least
  <2> QED BY <1>0, <2>1, ResultsKept DEF AnswerRead, Read, Least
<1>1. TypeOK'
  <2>1. rx' \in Seq(Byte) /\ got' \in Seq(Byte)
    BY ReadType DEF AnswerRead, IndInv, TypeOK
  <2> QED BY <2>1 DEF AnswerRead, Read, IndInv, TypeOK
<1>2. CallInStep'
  BY SerialAssumption DEF IndInv, TypeOK, CallInStep, Writing, CallType, Byte, Sent,
       Current, Before, AnswerRead, Read, Least
<1>3. RoomKept'
  BY SerialAssumption DEF IndInv, TypeOK, CallInStep, RoomKept, Writing, CallType,
       Byte, Sent, Current, Before, AnswerRead, Read, Least
<1>4. ReplyFits'
  BY SerialAssumption DEF IndInv, TypeOK, CallInStep, ReplyFits, Writing, CallType,
       Byte, Sent, Current, Before, AnswerRead, Read, Least
<1>5. InStep'
  BY <1>0, SerialAssumption DEF IndInv, TypeOK, CallInStep, InStep, Writing, CallType,
       Byte, Sent, Current, Before, AnswerRead, Read, Least
<1>6. CommandsInOrder'
  BY <1>0, SerialAssumption DEF IndInv, TypeOK, CallInStep, InStep, CommandsInOrder,
       Writing, CallType, Byte, Sent, Current, Before, Follows, AnswerRead, Read, Least
<1>7. SuccessIsWhole'
  BY <1>r
<1>8. FailureIsNone'
  BY <1>r
<1>9. OwnExchange'
  BY SerialAssumption DEF IndInv, TypeOK, CallInStep, InStep, OwnExchange, Writing,
       CallType, Byte, Sent, Current, Before, AnswerRead, Read, Least
<1>10. OwnAnswer'
  <2> SUFFICES ASSUME Call > 0, Current.op = "txrx", quiet
               PROVE  \E j \in 0 .. AnswerLen : got' = Bytes(Call, 1, j)
    BY DEF OwnAnswer, AnswerRead, Current
  <2>1. /\ got = <<>> /\ rx \in Seq(Byte) /\ owed \in Seq(Byte) /\ n \in Nat
        /\ Call \in Nat \ {0} /\ AnswerLen \in Nat
        /\ (rx = <<>> \/ rx \o owed = Answer(Call))
    BY SerialAssumption, LenProperties DEF AnswerRead, IndInv, TypeOK, OwnExchange
  <2> DEFINE k == Least(n, Len(rx))
             s == SubSeq(rx, 1, k)
  <2>2. k \in Nat /\ k <= Len(rx) /\ s \in Seq(Byte) /\ Len(s) = k /\ \A i \in 1 .. k : s[i] = rx[i]
    BY <2>1, ReadTakes
  <2>3. got' = s
    <3>1. got' = <<>> \o s
      BY <2>1 DEF AnswerRead, Read
    <3> HIDE DEF s
    <3>2. <<>> \o s = s
      BY <2>2, ConcatEmptySeq
    <3> QED BY <3>1, <3>2
  <2> HIDE DEF k, s
  <2>4. k <= AnswerLen /\ \A i \in 1 .. k : rx[i] = <<Call, i>>
    <3>1. CASE rx = <<>>
      <4>1. Len(rx) = 0
        BY <3>1
      <4>2. k = 0
        BY <2>2, <4>1
      <4> QED BY <4>2, <2>1
    <3>2. CASE rx \o owed = Answer(Call)
      <4>1. /\ Len(rx) \in Nat /\ Len(owed) \in Nat /\ Len(rx \o owed) = Len(rx) + Len(owed)
            /\ \A i \in 1 .. Len(rx) : (rx \o owed)[i] = rx[i]
        BY <2>1, LenProperties, ConcatIndexed
      <4>2. /\ Len(rx \o owed) = AnswerLen
            /\ \A i \in 1 .. AnswerLen : (rx \o owed)[i] = <<Call, i>>
        BY <2>1, <3>2, AnswerType
      <4>3. Len(rx) <= AnswerLen
        BY <2>1, <4>1, <4>2
      <4>4. \A i \in 1 .. k : i \in 1 .. Len(rx) /\ i \in 1 .. AnswerLen
        BY <2>1, <2>2, <4>1, <4>3
      <4> QED BY <2>1, <2>2, <4>1, <4>2, <4>3, <4>4
    <3> QED BY <2>1, <3>1, <3>2
  <2>5. s = Bytes(Call, 1, k)
    <3>1. (IF k < 1 THEN 0 ELSE k - 1 + 1) = k /\ \A i \in 1 .. k : 1 + i - 1 = i
      BY <2>2
    <3>2. /\ Bytes(Call, 1, k) \in Seq(Byte) /\ Len(Bytes(Call, 1, k)) = k
          /\ \A i \in 1 .. k : Bytes(Call, 1, k)[i] = <<Call, i>>
      <4>1. 1 \in Nat \ {0}
        OBVIOUS
      <4>2. /\ Bytes(Call, 1, k) \in Seq(Byte)
            /\ Len(Bytes(Call, 1, k)) = (IF k < 1 THEN 0 ELSE k - 1 + 1)
            /\ \A i \in 1 .. Len(Bytes(Call, 1, k)) : Bytes(Call, 1, k)[i] = <<Call, 1 + i - 1>>
        BY <2>1, <2>2, <4>1, BytesType
      <4> QED BY <3>1, <4>2
    <3> QED BY <2>2, <2>4, <3>2, SeqEqual
  <2> QED BY <2>1, <2>2, <2>3, <2>4, <2>5
<1> QED BY <1>1, <1>2, <1>3, <1>4, <1>5, <1>6, <1>7, <1>8, <1>9, <1>10 DEF IndInv

(* pdv_query_serial waits. *)
LEMMA QueryWaitStep ==
  ASSUME IndInv, QueryWait
  PROVE  IndInv'
<1>0. Given' = Given
  BY DEF Given, QueryWait, wait
<1>r. SuccessIsWhole' /\ FailureIsNone'
  <2>1. \A c \in 1 .. Call' : Done(c)' => /\ c \in 1 .. Call /\ calls'[c] = calls[c]
                                         /\ Done(c)
    BY DEF IndInv, CallInStep, Done, Writing, QueryWait, wait
  <2> QED BY <1>0, <2>1, ResultsKept DEF QueryWait, wait
<1>1. TypeOK'
  BY SerialAssumption DEF IndInv, TypeOK, Writing, CallType, Byte, QueryWait, wait
<1>2. CallInStep'
  BY SerialAssumption DEF IndInv, TypeOK, CallInStep, Writing, CallType, Byte, Sent,
       Current, Before, QueryWait, wait
<1>3. RoomKept'
  BY SerialAssumption DEF IndInv, TypeOK, CallInStep, RoomKept, Writing, CallType,
       Byte, Sent, Current, Before, QueryWait, wait
<1>4. ReplyFits'
  BY SerialAssumption DEF IndInv, TypeOK, CallInStep, ReplyFits, Writing, CallType,
       Byte, Sent, Current, Before, QueryWait, wait
<1>5. InStep'
  BY <1>0, SerialAssumption DEF IndInv, TypeOK, CallInStep, InStep, Writing, CallType,
       Byte, Sent, Current, Before, QueryWait, wait
<1>6. CommandsInOrder'
  BY <1>0, SerialAssumption DEF IndInv, TypeOK, CallInStep, InStep, CommandsInOrder,
       Writing, CallType, Byte, Sent, Current, Before, Follows, QueryWait, wait
<1>7. SuccessIsWhole'
  BY <1>r
<1>8. FailureIsNone'
  BY <1>r
<1>9. OwnExchange'
  BY SerialAssumption DEF IndInv, TypeOK, CallInStep, InStep, OwnExchange, Writing,
       CallType, Byte, Sent, Current, Before, QueryWait, wait
<1>10. OwnAnswer'
  BY SerialAssumption DEF IndInv, TypeOK, CallInStep, OwnExchange, OwnAnswer, Writing,
       CallType, Byte, Sent, Current, Before, QueryWait, wait
<1> QED BY <1>1, <1>2, <1>3, <1>4, <1>5, <1>6, <1>7, <1>8, <1>9, <1>10 DEF IndInv

(* It reads what there is. *)
LEMMA QueryReadStep ==
  ASSUME IndInv, QueryRead
  PROVE  IndInv'
<1>0. Given' = Given
  BY DEF Given, QueryRead, Read, Least
<1>r. SuccessIsWhole' /\ FailureIsNone'
  <2>1. \A c \in 1 .. Call' : Done(c)' => /\ c \in 1 .. Call /\ calls'[c] = calls[c]
                                         /\ Done(c)
    BY DEF IndInv, CallInStep, Done, Writing, QueryRead, Read, Least
  <2> QED BY <1>0, <2>1, ResultsKept DEF QueryRead, Read, Least
<1>1. TypeOK'
  <2>1. got \in Seq(Byte) /\ rx \in Seq(Byte) /\ Len(got) \in Nat /\ ReplyMax \in Nat \ {0}
    BY SerialAssumption, LenProperties DEF IndInv, TypeOK
  <2>2. CASE Len(got) = ReplyMax
    <3>1. SubSeq(got, 1, ReplyMax - 1) \in Seq(Byte)
      <4>1. \A i \in 1 .. ReplyMax - 1 : i \in 1 .. Len(got)
        BY <2>1, <2>2
      <4>2. \A i \in 1 .. ReplyMax - 1 : got[i] \in Byte
        BY <2>1, <4>1, ElementOfSeq
      <4> QED BY <2>1, <4>2, SubSeqProperties
    <3> QED BY <2>2, <3>1 DEF QueryRead, IndInv, TypeOK, Writing
  <2>3. CASE Len(got) # ReplyMax
    <3>1. Len(got) < ReplyMax
      <4>1. Call > 0 /\ Current.op = "query"
        BY DEF IndInv, TypeOK, CallInStep, QueryRead
      <4> QED BY <2>1, <2>3, <4>1 DEF IndInv, ReplyFits
    <3>2. rx' \in Seq(Byte) /\ got' \in Seq(Byte)
      <4>1. ReplyMax - Len(got) \in Nat /\ Read(ReplyMax - Len(got))
        BY <2>1, <2>3, <3>1 DEF QueryRead
      <4> QED BY <4>1, ReadType DEF IndInv
    <3> QED BY <2>3, <3>2 DEF QueryRead, Read, IndInv, TypeOK, Writing
  <2> QED BY <2>2, <2>3
<1>2. CallInStep'
  BY SerialAssumption DEF IndInv, TypeOK, CallInStep, Writing, CallType, Byte, Sent,
       Current, Before, QueryRead, Read, Least
<1>3. RoomKept'
  BY SerialAssumption DEF IndInv, TypeOK, CallInStep, RoomKept, Writing, CallType,
       Byte, Sent, Current, Before, QueryRead, Read, Least
<1>4. ReplyFits'
  <2>1. got \in Seq(Byte) /\ rx \in Seq(Byte) /\ Len(got) \in Nat /\ ReplyMax \in Nat \ {0}
    BY SerialAssumption, LenProperties DEF IndInv, TypeOK
  <2>2. Call > 0 /\ Current.op = "query" /\ Len(got) <= ReplyMax
    BY DEF IndInv, TypeOK, CallInStep, ReplyFits, QueryRead
  <2>3. CASE Len(got) = ReplyMax
    <3>1. Len(SubSeq(got, 1, ReplyMax - 1)) <= ReplyMax
      <4>1. \A i \in 1 .. ReplyMax - 1 : i \in 1 .. Len(got)
        BY <2>1, <2>3
      <4>2. \A i \in 1 .. ReplyMax - 1 : got[i] \in Byte
        BY <2>1, <4>1, ElementOfSeq
      <4>3. Len(SubSeq(got, 1, ReplyMax - 1)) =
              IF 1 <= ReplyMax - 1 THEN (ReplyMax - 1) - 1 + 1 ELSE 0
        BY <2>1, <4>2, SubSeqProperties
      <4> QED BY <2>1, <4>3
    <3> QED BY <2>3, <3>1 DEF QueryRead, ReplyFits
  <2>4. CASE Len(got) # ReplyMax
    <3> DEFINE size == ReplyMax - Len(got)
               s    == SubSeq(rx, 1, Least(size, Len(rx)))
    <3>1. size \in Nat
      BY <2>1, <2>2
    <3>2. s \in Seq(Byte) /\ Len(s) = Least(size, Len(rx)) /\ Len(s) \in Nat
      <4> HIDE DEF size
      <4> QED BY <2>1, <3>1, ReadTakes
    <3>3. Len(s) <= size
      BY <2>1, <3>1, <3>2, LenProperties DEF Least
    <3>4. got' = got \o s
      BY <2>4 DEF QueryRead, Read
    <3> HIDE DEF s
    <3>5. Len(got \o s) = Len(got) + Len(s)
      BY <2>1, <3>2, ConcatProperties
    <3>6. Len(got \o s) <= ReplyMax
      BY <2>1, <2>2, <3>2, <3>3, <3>5
    <3> QED BY <3>4, <3>6 DEF ReplyFits
  <2> QED BY <2>3, <2>4
<1>5. InStep'
  BY <1>0, SerialAssumption DEF IndInv, TypeOK, CallInStep, InStep, Writing, CallType,
       Byte, Sent, Current, Before, QueryRead, Read, Least
<1>6. CommandsInOrder'
  BY <1>0, SerialAssumption DEF IndInv, TypeOK, CallInStep, InStep, CommandsInOrder,
       Writing, CallType, Byte, Sent, Current, Before, Follows, QueryRead, Read, Least
<1>7. SuccessIsWhole'
  BY <1>r
<1>8. FailureIsNone'
  BY <1>r
<1>9. OwnExchange'
  BY SerialAssumption DEF IndInv, TypeOK, CallInStep, InStep, OwnExchange, Writing,
       CallType, Byte, Sent, Current, Before, QueryRead, Read, Least
<1>10. OwnAnswer'
  BY SerialAssumption DEF IndInv, TypeOK, CallInStep, OwnExchange, OwnAnswer, Writing,
       CallType, Byte, Sent, Current, Before, QueryRead, Read, Least
<1> QED BY <1>1, <1>2, <1>3, <1>4, <1>5, <1>6, <1>7, <1>8, <1>9, <1>10 DEF IndInv

(* pdv_serial_read_blocking waits. *)
LEMMA BlockingWaitStep ==
  ASSUME IndInv, BlockingWait
  PROVE  IndInv'
<1>0. Given' = Given
  BY DEF Given, BlockingWait, wait
<1>r. SuccessIsWhole' /\ FailureIsNone'
  <2>1. \A c \in 1 .. Call' : Done(c)' => /\ c \in 1 .. Call /\ calls'[c] = calls[c]
                                         /\ Done(c)
    BY DEF IndInv, CallInStep, Done, Writing, BlockingWait, wait
  <2> QED BY <1>0, <2>1, ResultsKept DEF BlockingWait, wait
<1>1. TypeOK'
  BY SerialAssumption DEF IndInv, TypeOK, Writing, CallType, Byte, BlockingWait, wait
<1>2. CallInStep'
  BY SerialAssumption DEF IndInv, TypeOK, CallInStep, Writing, CallType, Byte, Sent,
       Current, Before, BlockingWait, wait
<1>3. RoomKept'
  BY SerialAssumption DEF IndInv, TypeOK, CallInStep, RoomKept, Writing, CallType,
       Byte, Sent, Current, Before, BlockingWait, wait
<1>4. ReplyFits'
  BY SerialAssumption DEF IndInv, TypeOK, CallInStep, ReplyFits, Writing, CallType,
       Byte, Sent, Current, Before, BlockingWait, wait
<1>5. InStep'
  BY <1>0, SerialAssumption DEF IndInv, TypeOK, CallInStep, InStep, Writing, CallType,
       Byte, Sent, Current, Before, BlockingWait, wait
<1>6. CommandsInOrder'
  BY <1>0, SerialAssumption DEF IndInv, TypeOK, CallInStep, InStep, CommandsInOrder,
       Writing, CallType, Byte, Sent, Current, Before, Follows, BlockingWait, wait
<1>7. SuccessIsWhole'
  BY <1>r
<1>8. FailureIsNone'
  BY <1>r
<1>9. OwnExchange'
  BY SerialAssumption DEF IndInv, TypeOK, CallInStep, InStep, OwnExchange, Writing,
       CallType, Byte, Sent, Current, Before, BlockingWait, wait
<1>10. OwnAnswer'
  BY SerialAssumption DEF IndInv, TypeOK, CallInStep, OwnExchange, OwnAnswer, Writing,
       CallType, Byte, Sent, Current, Before, BlockingWait, wait
<1> QED BY <1>1, <1>2, <1>3, <1>4, <1>5, <1>6, <1>7, <1>8, <1>9, <1>10 DEF IndInv

(* It reads what there is. *)
LEMMA BlockingReadStep ==
  ASSUME IndInv, BlockingRead
  PROVE  IndInv'
<1>0. Given' = Given
  BY DEF Given, BlockingRead, Read, Least
<1>r. SuccessIsWhole' /\ FailureIsNone'
  <2>1. \A c \in 1 .. Call' : Done(c)' => /\ c \in 1 .. Call /\ calls'[c] = calls[c]
                                         /\ Done(c)
    BY DEF IndInv, CallInStep, Done, Writing, BlockingRead, Read, Least
  <2> QED BY <1>0, <2>1, ResultsKept DEF BlockingRead, Read, Least
<1>1. TypeOK'
  <2>1. n \in Nat /\ left \in Nat
    BY DEF IndInv, TypeOK
  <2>2. PICK rest \in Nat : rest = left - Least(n, left) /\ left' = rest
    BY <2>1 DEF BlockingRead, Least
  <2>3. Least(n, left) \in Nat /\ Read(Least(n, left))
    BY <2>1 DEF BlockingRead, Least
  <2>4. rx' \in Seq(Byte) /\ got' \in Seq(Byte)
    BY <2>3, ReadType DEF IndInv
  <2> QED BY <2>2, <2>4 DEF BlockingRead, Read, IndInv, TypeOK
<1>2. CallInStep'
  BY SerialAssumption DEF IndInv, TypeOK, CallInStep, Writing, CallType, Byte, Sent,
       Current, Before, BlockingRead, Read, Least
<1>3. RoomKept'
  BY SerialAssumption DEF IndInv, TypeOK, CallInStep, RoomKept, Writing, CallType,
       Byte, Sent, Current, Before, BlockingRead, Read, Least
<1>4. ReplyFits'
  BY SerialAssumption DEF IndInv, TypeOK, CallInStep, ReplyFits, Writing, CallType,
       Byte, Sent, Current, Before, BlockingRead, Read, Least
<1>5. InStep'
  BY <1>0, SerialAssumption DEF IndInv, TypeOK, CallInStep, InStep, Writing, CallType,
       Byte, Sent, Current, Before, BlockingRead, Read, Least
<1>6. CommandsInOrder'
  BY <1>0, SerialAssumption DEF IndInv, TypeOK, CallInStep, InStep, CommandsInOrder,
       Writing, CallType, Byte, Sent, Current, Before, Follows, BlockingRead, Read, Least
<1>7. SuccessIsWhole'
  BY <1>r
<1>8. FailureIsNone'
  BY <1>r
<1>9. OwnExchange'
  BY SerialAssumption DEF IndInv, TypeOK, CallInStep, InStep, OwnExchange, Writing,
       CallType, Byte, Sent, Current, Before, BlockingRead, Read, Least
<1>10. OwnAnswer'
  BY SerialAssumption DEF IndInv, TypeOK, CallInStep, OwnExchange, OwnAnswer, Writing,
       CallType, Byte, Sent, Current, Before, BlockingRead, Read, Least
<1> QED BY <1>1, <1>2, <1>3, <1>4, <1>5, <1>6, <1>7, <1>8, <1>9, <1>10 DEF IndInv

(* Nothing happens. *)
LEMMA StutterStep ==
  ASSUME IndInv, UNCHANGED vars
  PROVE  IndInv'
<1>0. Given' = Given
  BY DEF Given, vars
<1>r. SuccessIsWhole' /\ FailureIsNone'
  <2>1. \A c \in 1 .. Call' : Done(c)' => /\ c \in 1 .. Call /\ calls'[c] = calls[c]
                                         /\ Done(c)
    BY DEF IndInv, CallInStep, Done, Writing, vars
  <2> QED BY <1>0, <2>1, ResultsKept DEF vars
<1>1. TypeOK'
  BY SerialAssumption DEF IndInv, TypeOK, Writing, CallType, Byte, vars
<1>2. CallInStep'
  BY SerialAssumption DEF IndInv, TypeOK, CallInStep, Writing, CallType, Byte, Sent,
       Current, Before, vars
<1>3. RoomKept'
  BY SerialAssumption DEF IndInv, TypeOK, CallInStep, RoomKept, Writing, CallType,
       Byte, Sent, Current, Before, vars
<1>4. ReplyFits'
  BY SerialAssumption DEF IndInv, TypeOK, CallInStep, ReplyFits, Writing, CallType,
       Byte, Sent, Current, Before, vars
<1>5. InStep'
  BY <1>0, SerialAssumption DEF IndInv, TypeOK, CallInStep, InStep, Writing, CallType,
       Byte, Sent, Current, Before, vars
<1>6. CommandsInOrder'
  BY <1>0, SerialAssumption DEF IndInv, TypeOK, CallInStep, InStep, CommandsInOrder,
       Writing, CallType, Byte, Sent, Current, Before, Follows, vars
<1>7. SuccessIsWhole'
  BY <1>r
<1>8. FailureIsNone'
  BY <1>r
<1>9. OwnExchange'
  BY SerialAssumption DEF IndInv, TypeOK, CallInStep, InStep, OwnExchange, Writing,
       CallType, Byte, Sent, Current, Before, vars
<1>10. OwnAnswer'
  BY SerialAssumption DEF IndInv, TypeOK, CallInStep, OwnExchange, OwnAnswer, Writing,
       CallType, Byte, Sent, Current, Before, vars
<1> QED BY <1>1, <1>2, <1>3, <1>4, <1>5, <1>6, <1>7, <1>8, <1>9, <1>10 DEF IndInv

(* The invariant holds at first. *)
LEMMA InitInv == Init => IndInv
<1> SUFFICES ASSUME Init PROVE IndInv
  OBVIOUS
<1>1. TypeOK
  BY SerialAssumption DEF Init, TypeOK, Writing, CallType, Byte
<1>2. CallInStep
  BY SerialAssumption DEF Init, CallInStep, Sent, Current, Before, Writing
<1>3. RoomKept
  BY SerialAssumption DEF Init, RoomKept
<1>4. ReplyFits
  BY SerialAssumption DEF Init, ReplyFits, Current
<1>5. InStep
  BY SerialAssumption DEF Init, InStep, Given, Sent, Current, Before, Writing
<1>6. CommandsInOrder
  BY SerialAssumption DEF Init, CommandsInOrder, Given, Follows
<1>7. SuccessIsWhole
  BY SerialAssumption DEF Init, SuccessIsWhole, Given, Done, Writing
<1>8. FailureIsNone
  BY SerialAssumption DEF Init, FailureIsNone, Given, Done, Writing
<1>9. OwnExchange
  BY SerialAssumption DEF Init, OwnExchange, Writing, Before, Current
<1>10. OwnAnswer
  BY SerialAssumption DEF Init, OwnAnswer, Current
<1> QED BY <1>1, <1>2, <1>3, <1>4, <1>5, <1>6, <1>7, <1>8, <1>9, <1>10 DEF IndInv

(* Every step keeps the invariant. *)
LEMMA NextInv ==
  ASSUME IndInv, [Next]_vars
  PROVE  IndInv'
<1>1. CASE Program
  <2>1. CASE FirstBlock
    BY <2>1, FirstBlockChosen, BlockStep
  <2>2. CASE MoreBlocks
    <3>1. n > 0 \/ n <= 0
      BY DEF IndInv, TypeOK
    <3> QED BY <2>2, <3>1, MoreBlocksChosen, BlockStep, NoRoomStep
  <2> QED BY <1>1, <2>1, <2>2, BeginsSo, BeginStep, FlushWaitStep, FlushReadStep, WriteAvailableStep,
        SendsSo, SendStep, RefuseStep, AnswerWaitStep, AnswerReadStep, QueryWaitStep, QueryReadStep,
        BlockingWaitStep, BlockingReadStep
      DEF Program, Write
<1> QED BY <1>1, TransmitStep, ReceiveStep, StutterStep DEF Next

(* The inductive invariant holds in every reachable state. *)
THEOREM Invariance == Spec => []IndInv
<1>1. IndInv /\ [Next]_vars => IndInv'
  BY NextInv
<1> QED BY <1>1, InitInv, PTL DEF Spec

(* The driver's write buffer is never given more than it has room for,     *)
(* though it is asked some time before (pdv_serial_write).                 *)
THEOREM NeverTooMuch == Spec => []NeverOverfilled
<1>1. IndInv => NeverOverfilled
  BY DEF IndInv, RoomKept, NeverOverfilled
<1> QED BY <1>1, Invariance, PTL

(* The camera sees every command from its first byte on, in the order they *)
(* were written, without a repetition, and without a gap unless the driver *)
(* has refused a message of it (edt_send_msg).                             *)
THEOREM SentInOrder == Spec => []CommandsInOrder
<1>1. IndInv => CommandsInOrder
  BY DEF IndInv
<1> QED BY <1>1, Invariance, PTL

(* When pdv_serial_write returns 0 the driver was given the whole command, *)
(* if it refused no message of it: edt_send_msg hides a refusal.           *)
THEOREM AllOnSuccess == Spec => []SuccessIsWhole
<1>1. IndInv => SuccessIsWhole
  BY DEF IndInv
<1> QED BY <1>1, Invariance, PTL

(* When it returns -1, and the driver's buffer is no larger than a         *)
(* message, the driver was given nothing of it.                            *)
THEOREM NothingOnFailure == Spec => []FailureIsNone
<1>1. IndInv => FailureIsNone
  BY DEF IndInv
<1> QED BY <1>1, Invariance, PTL

(* pdv_serial_txrx, called when no answer was due, reads the first bytes   *)
(* of its own answer.                                                      *)
THEOREM ReadsOwnAnswer == Spec => []OwnAnswer
<1>1. IndInv => OwnAnswer
  BY DEF IndInv
<1> QED BY <1>1, Invariance, PTL

=============================================================================
