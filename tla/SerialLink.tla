----------------------------- MODULE SerialLink -----------------------------
(***************************************************************************)
(* The serial line to the camera, as libpdv.c uses it: commands are put    *)
(* into the driver's write buffer in blocks as large as it has room for,   *)
(* answers are waited for and taken from its read buffer.  One program     *)
(* uses the line: the library has no lock around an exchange.              *)
(*                                                                         *)
(* A byte is <<c, i>>: the i-th byte of the c-th call, or of the answer to *)
(* it.  The driver and the camera are not part of the repository: they are *)
(* two queues each way, in order and without loss of what they have taken; *)
(* the camera answers a command when its last byte has come, as late as it *)
(* likes.  The driver may refuse a message: the library does not see it.   *)
(***************************************************************************)
EXTENDS Integers, Sequences, FiniteSets

CONSTANTS
  Ops,        (* the library calls the program makes                        *)
  Sizes,      (* the commands' lengths, and the counts to read_blocking     *)
  Rooms,      (* sizes the driver's write buffer may have                   *)
  MsgMax,     (* EDT_SERBUF_SIZE: the longest message the driver is given   *)
  ReplyMax,   (* the reply buffer of pdv_query_serial                       *)
  AnswerLen,  (* the length of an answer, rxcount of pdv_serial_txrx        *)
  Pause,      (* pause_for_serial: bytes are sent one at a time             *)
  MaxCalls,   (* bound: how many calls the program makes                    *)
  MaxRefused  (* bound: in how many calls the driver refuses a message      *)

ASSUME SerialAssumption ==
  /\ Ops \subseteq {"command", "query", "txrx", "read_blocking"}
  /\ Sizes \subseteq Nat \ {0}
  /\ Rooms \subseteq Nat \ {0}
  /\ MsgMax \in Nat \ {0} /\ ReplyMax \in Nat \ {0} /\ AnswerLen \in Nat \ {0}
  /\ Pause \in BOOLEAN
  /\ MaxCalls \in Nat /\ MaxRefused \in Nat

VARIABLES
  (* the driver and the camera *)
  room,      (* the size of the write buffer                                *)
  tx,        (* bytes in the write buffer                                   *)
  wire,      (* history: bytes the camera has had                           *)
  owed,      (* bytes of answers still to come                              *)
  rx,        (* bytes in the read buffer                                    *)
  (* the program *)
  calls,     (* what has been called so far: [op, size, ret, lost], ret the *)
             (* result of pdv_serial_write; lost, history: the driver has   *)
             (* refused a message of the call                               *)
  pc,
  left,      (* bytes still to be given to the driver, or to be read        *)
  block,     (* bytes of the present block still to be given to it          *)
  n,         (* what the last pdv_serial_wait or write_available returned   *)
  got,       (* what the call has read                                      *)
  quiet      (* history: when the call began no answer was due              *)

driverVars == <<room, tx, wire, owed, rx>>
vars == <<driverVars, calls, pc, left, block, n, got, quiet>>

Byte == (Nat \ {0}) \X (Nat \ {0})

Least(a, b) == IF a < b THEN a ELSE b

Call    == Len(calls)
Current == calls[Call]

(* What a call has written, or its answer, from one byte to another. *)
Bytes(call, from, to) ==
  [i \in 1 .. (IF to < from THEN 0 ELSE to - from + 1) |-> <<call, from + i - 1>>]

Answer(call) == Bytes(call, 1, AnswerLen)

Writing == {"write", "first", "more", "send", "sendMore"}

Init ==
  /\ room \in Rooms
  /\ tx = <<>> /\ wire = <<>> /\ owed = <<>> /\ rx = <<>>
  /\ calls = <<>> /\ pc = "idle"
  /\ left = 0 /\ block = 0 /\ n = 0 /\ got = <<>>
  /\ quiet = TRUE

(***************************************************************************)
(* The driver and the camera.                                              *)
(***************************************************************************)

(* A byte goes out; the last one of a command makes the camera answer. *)
Transmit ==
  /\ tx # <<>>
  /\ wire' = Append(wire, Head(tx))
  /\ tx' = Tail(tx)
  /\ owed' = IF Head(tx)[2] = calls[Head(tx)[1]].size
             THEN owed \o Answer(Head(tx)[1])
             ELSE owed
  /\ UNCHANGED <<room, rx, calls, pc, left, block, n, got, quiet>>

Receive ==
  /\ owed # <<>>
  /\ rx' = Append(rx, Head(owed))
  /\ owed' = Tail(owed)
  /\ UNCHANGED <<room, tx, wire, calls, pc, left, block, n, got, quiet>>

(***************************************************************************)
(* Primitives of the library, as parts of the actions below.               *)
(***************************************************************************)

(* Mutant: what is in the buffer already is not counted. *)
write_availableAll == room

(* pdv_serial_write_available: what the driver has room for. *)
write_available == room - Len(tx)

(* pdv_serial_wait: how many bytes there are, be it after the timeout. *)
wait(next) ==
  /\ n' = Len(rx)
  /\ pc' = next
  /\ UNCHANGED <<driverVars, calls, left, block, got, quiet>>

(* edt_get_msg: as many as there are, and no more than asked for. *)
Read(size) ==
  LET count == Least(size, Len(rx)) IN
  /\ got' = got \o SubSeq(rx, 1, count)
  /\ rx' = SubSeq(rx, count + 1, Len(rx))
  /\ UNCHANGED <<room, tx, wire, owed>>

(***************************************************************************)
(* pdv_serial_command, pdv_query_serial, pdv_serial_txrx and               *)
(* pdv_serial_read_blocking begin.                                         *)
(***************************************************************************)

Begin ==
  /\ pc = "idle" /\ Call < MaxCalls
  /\ \E op \in Ops, size \in Sizes :
       /\ calls' = Append(calls, [op |-> op, size |-> size, ret |-> 0, lost |-> FALSE])
       /\ left' = size
       /\ pc' = CASE op = "txrx"          -> "flush"
                  [] op = "read_blocking" -> "blocking"
                  [] OTHER                -> "write"
  /\ got' = <<>>
  /\ quiet' = (tx = <<>> /\ owed = <<>>)
  /\ UNCHANGED <<driverVars, block, n>>

(* Mutant: the junk is waited for, and not read. *)
FlushWaitOnly == pc = "flush" /\ wait("write")

(* pdv_serial_txrx flushes any pending junk before it writes. *)
FlushWait == pc = "flush" /\ wait("flushRead")

FlushRead ==
  /\ pc = "flushRead"
  /\ rx' = SubSeq(rx, Least(n, Len(rx)) + 1, Len(rx))
  /\ pc' = "write"
  /\ UNCHANGED <<room, tx, wire, owed, calls, left, block, n, got, quiet>>

(***************************************************************************)
(* pdv_serial_write: first as much as there is room for, the rest in       *)
(* blocks whenever some room has come up.                                  *)
(***************************************************************************)

WriteAvailable ==
  /\ pc \in {"write", "more"}
  /\ n' = write_available
  /\ pc' = IF pc = "write" THEN "first" ELSE "sendMore"
  /\ UNCHANGED <<driverVars, calls, left, block, got, quiet>>

AfterWrite ==
  CASE Current.op = "command" -> "idle"
    [] Current.op = "query"   -> "queryWait"
    [] Current.op = "txrx"    -> "answerWait"

WriteFails ==
  /\ calls' = [calls EXCEPT ![Call].ret = -1]
  /\ pc' = AfterWrite

(* pdv_serial_write_single_block, on to edt_send_msg: an empty block is an *)
(* error, and so is one that does not fit into a message.  The error ends  *)
(* pdv_serial_write, of which blocks given to the driver before stay.      *)
single_block(size) ==
  IF size = 0 \/ (~Pause /\ size > MsgMax)
  THEN /\ WriteFails
       /\ UNCHANGED <<left, block>>
  ELSE /\ block' = size
       /\ left' = left - size
       /\ pc' = "send"
       /\ UNCHANGED calls

(* Nobody else fills the buffer, so that a first block of n bytes with n   *)
(* no more than size always fits.                                          *)
FirstBlock ==
  /\ pc = "first"
  /\ single_block(IF n > left THEN left ELSE n)
  /\ UNCHANGED <<driverVars, n, got, quiet>>

(* Mutant: a block for which there is no room is sent all the same. *)
MoreBlocksUnasked ==
  /\ pc = "sendMore"
  /\ single_block(IF n > left THEN left ELSE n)
  /\ UNCHANGED <<driverVars, n, got, quiet>>

MoreBlocks ==
  /\ pc = "sendMore"
  /\ IF n > 0
     THEN single_block(IF n > left THEN left ELSE n)
     ELSE /\ pc' = "more"
          /\ UNCHANGED <<calls, left, block>>
  /\ UNCHANGED <<driverVars, n, got, quiet>>

(* Mutant: the offset is not moved on. *)
SendMsgFromStart ==
  /\ pc = "send"
  /\ tx' = tx \o Bytes(Call, 1, block)
  /\ block' = 0
  /\ pc' = IF left > 0 THEN "more" ELSE AfterWrite
  /\ UNCHANGED <<room, wire, owed, rx, calls, left, n, got, quiet>>

(* Mutant: what there is room for at first is taken for all there is. *)
SendMsgOnce ==
  LET next == Current.size - left - block + 1 IN
  /\ pc = "send"
  /\ tx' = tx \o Bytes(Call, next, next + block - 1)
  /\ block' = 0
  /\ pc' = AfterWrite
  /\ UNCHANGED <<room, wire, owed, rx, calls, left, n, got, quiet>>

(* pdv_send_msg: the block at once, or byte by byte.  edt_send_msg does    *)
(* not look at what its ioctl returned: a message that the driver refuses  *)
(* is counted as sent, and the result stays 0.                             *)
SendMsg ==
  LET size  == Current.size
      count == IF Pause THEN 1 ELSE block
      next  == size - left - block + 1
  IN
  /\ pc = "send"
  /\ \/ /\ tx' = tx \o Bytes(Call, next, next + count - 1)
        /\ UNCHANGED calls
     \/ /\ Cardinality({c \in 1 .. Call : calls[c].lost}) < MaxRefused
        /\ calls' = [calls EXCEPT ![Call].lost = TRUE]
        /\ UNCHANGED tx
  /\ block' = block - count
  /\ pc' = IF block' > 0 THEN "send"
           ELSE IF left > 0 THEN "more"
           ELSE AfterWrite
  /\ UNCHANGED <<room, wire, owed, rx, left, n, got, quiet>>

(***************************************************************************)
(* Reading the answer.  Neither caller looks at what pdv_serial_write      *)
(* returned.                                                               *)
(***************************************************************************)

AnswerWait == pc = "answerWait" /\ wait("answerRead")

AnswerRead ==
  /\ pc = "answerRead"
  /\ Read(n)
  /\ pc' = "idle"
  /\ UNCHANGED <<calls, left, block, n, quiet>>

(* Mutant: do ... while (ret >= 0). *)
QueryReadForever ==
  /\ pc = "queryRead"
  /\ IF Len(got) = ReplyMax
     THEN /\ got' = SubSeq(got, 1, ReplyMax - 1)
          /\ pc' = "idle"
          /\ UNCHANGED driverVars
     ELSE /\ Read(ReplyMax - Len(got))
          /\ pc' = "queryWait"
  /\ UNCHANGED <<calls, left, block, n, quiet>>

(* pdv_query_serial reads until there is nothing more to read.  When the   *)
(* buffer is full the read is for no bytes, which returns -1, and the      *)
(* length goes down by one.                                                *)
QueryWait == pc = "queryWait" /\ wait("queryRead")

QueryRead ==
  /\ pc = "queryRead"
  /\ IF Len(got) = ReplyMax
     THEN /\ got' = SubSeq(got, 1, ReplyMax - 1)
          /\ pc' = "idle"
          /\ UNCHANGED driverVars
     ELSE /\ Read(ReplyMax - Len(got))
          /\ pc' = IF rx = <<>> THEN "idle" ELSE "queryWait"
  /\ UNCHANGED <<calls, left, block, n, quiet>>

(* pdv_serial_read_blocking goes on until it has all it was asked for. *)
BlockingWait == pc = "blocking" /\ wait("blockingRead")

BlockingRead ==
  /\ pc = "blockingRead"
  /\ Read(Least(n, left))
  /\ left' = left - Least(n, left)
  /\ pc' = IF left' > 0 THEN "blocking" ELSE "idle"
  /\ UNCHANGED <<calls, block, n, quiet>>

Write == WriteAvailable \/ FirstBlock \/ MoreBlocks \/ SendMsg

Program ==
  \/ Begin \/ FlushWait \/ FlushRead
  \/ Write
  \/ AnswerWait \/ AnswerRead
  \/ QueryWait \/ QueryRead
  \/ BlockingWait \/ BlockingRead

Next == Program \/ Transmit \/ Receive

Spec == Init /\ [][Next]_vars

(* The line goes on sending, and a call once made goes on. *)
FairSpec ==
  /\ Spec
  /\ WF_vars(Transmit) /\ WF_vars(Receive)
  /\ WF_vars(Program)

-----------------------------------------------------------------------------
CallType ==
  [op : {"command", "query", "txrx", "read_blocking"}, size : Sizes, ret : {0, -1},
   lost : BOOLEAN]

TypeOK ==
  /\ room \in Rooms
  /\ tx \in Seq(Byte) /\ wire \in Seq(Byte)
  /\ owed \in Seq(Byte) /\ rx \in Seq(Byte)
  /\ calls \in Seq(CallType)
  /\ pc \in Writing \cup {"idle", "flush", "flushRead", "answerWait", "answerRead",
                          "queryWait", "queryRead", "blocking", "blockingRead"}
  /\ pc # "idle" => Call > 0
  /\ left \in Nat /\ block \in Nat /\ n \in Nat
  /\ got \in Seq(Byte)
  /\ quiet \in BOOLEAN

(* Everything the driver was given. *)
Given == wire \o tx

(* The driver is never given more than the room it said it had, though it  *)
(* is asked some time before it is given the block.                        *)
NeverOverfilled == Len(tx) <= room

(* The camera sees the commands in the order they were written, every one  *)
(* from its first byte on without a gap, a repeated byte or a byte of      *)
(* another in between.  There are gaps, and no more than that, where the   *)
(* driver has refused a message.                                           *)
Follows(before, byte) ==
  \/ byte[1] > before[1] /\ (byte[2] = 1 \/ calls[byte[1]].lost)
  \/ byte[1] = before[1] /\ byte[2] > before[2]
     /\ (byte[2] = before[2] + 1 \/ calls[byte[1]].lost)

CommandsInOrder ==
  /\ Given # <<>> => Given[1][2] = 1 \/ calls[Given[1][1]].lost
  /\ \A i \in 1 .. Len(Given) - 1 : Follows(Given[i], Given[i + 1])

(* What pdv_serial_write has done with a command is over. *)
Done(c) ==
  /\ c < Call \/ pc \notin Writing \cup {"flush", "flushRead"}
  /\ calls[c].op # "read_blocking"

LastGiven(c) == \E i \in 1 .. Len(Given) : Given[i] = <<c, calls[c].size>>

(* When pdv_serial_write returns 0, all of the command was given to the    *)
(* driver, if it took what it was given.                                   *)
SuccessIsWhole ==
  \A c \in 1 .. Call :
    Done(c) /\ calls[c].ret = 0 /\ ~calls[c].lost => LastGiven(c)

(* When it returns -1, nothing of it was: as long as the driver's buffer   *)
(* is no larger than a message, it can fail with its first block only.     *)
FailureIsNone ==
  room <= MsgMax =>
    \A c \in 1 .. Call :
      Done(c) /\ calls[c].ret = -1
        => \A i \in 1 .. Len(Given) : Given[i][1] # c

(* An exchange that begins when no answer is due gets bytes of its own     *)
(* answer, from the first one on: what came too late for an earlier one    *)
(* has been flushed.                                                       *)
OwnAnswer ==
  Call > 0 /\ pc = "idle" /\ Current.op = "txrx" /\ quiet
    => \E j \in 0 .. AnswerLen : got = Bytes(Call, 1, j)

(***************************************************************************)
(* The inductive invariant behind these.                                   *)
(***************************************************************************)

Before == {"flush", "flushRead"}

(* How much of the current command the driver has been given.              *)
Sent == Current.size - left - block

(* Each place of the program belongs to some of the calls, and the bytes   *)
(* still to be written are some of the command's.                          *)
CallInStep ==
  /\ pc = "send" <=> block > 0
  /\ pc \in Before \cup {"answerWait", "answerRead"} => Current.op = "txrx"
  /\ pc \in Writing => Current.op # "read_blocking"
  /\ pc \in {"queryWait", "queryRead"} => Current.op = "query"
  /\ pc \in {"blocking", "blockingRead"} => Current.op = "read_blocking"
  /\ pc \in Before \cup Writing => Sent >= 0 /\ Current.ret = 0
  /\ pc \in Before \cup {"write", "first"} => left = Current.size
  /\ pc \in {"more", "sendMore"} => left > 0

(* What was found to be free is still free, and a block fits into it.      *)
RoomKept ==
  /\ Len(tx) <= room
  /\ pc \in {"first", "sendMore"} => Len(tx) + n <= room
  /\ pc = "send" => Len(tx) + block <= room

(* The bytes ascend, and the last is the last one sent of the current      *)
(* command, if any and none was refused.                                   *)
InStep ==
  /\ \A i, j \in 1 .. Len(Given) :
       i < j => \/ Given[i][1] < Given[j][1]
                \/ Given[i][1] = Given[j][1] /\ Given[i][2] < Given[j][2]
  /\ \A i \in 1 .. Len(Given) : Given[i][1] <= Call
  /\ pc \in Before \cup Writing =>
       /\ \A i \in 1 .. Len(Given) : Given[i][1] = Call => Given[i][2] <= Sent
       /\ Sent > 0 /\ ~Current.lost => Given # <<>> /\ Given[Len(Given)] = <<Call, Sent>>

(* An exchange that began quietly meets nothing but its own bytes, and an  *)
(* answer only after the last of them.                                     *)
OwnExchange ==
  Call > 0 /\ Current.op = "txrx" /\ quiet =>
    /\ pc \in Before => tx = <<>> /\ owed = <<>>
    /\ pc = "flushRead" => n = Len(rx)
    /\ pc # "idle" => got = <<>>
    /\ pc \in Writing \cup {"answerWait", "answerRead"} =>
         /\ \A i \in 1 .. Len(tx) : tx[i][1] = Call
         /\ \/ rx = <<>> /\ owed = <<>>
            \/ /\ rx \o owed = Answer(Call)
               /\ pc \notin Writing
               /\ \A i \in 1 .. Len(tx) : tx[i][2] # Current.size

(* A query does not fill its buffer beyond its end.                        *)
ReplyFits == Call > 0 /\ Current.op = "query" => Len(got) <= ReplyMax

IndInv ==
  /\ TypeOK /\ CallInStep /\ RoomKept /\ ReplyFits /\ InStep /\ CommandsInOrder
  /\ SuccessIsWhole /\ FailureIsNone /\ OwnExchange /\ OwnAnswer

(* A command, a query or an exchange ends: the line drains the driver's    *)
(* buffer, a block is sent whenever there is some room, and the camera     *)
(* does not talk for ever.                                                 *)
ExchangeEnds ==
  (pc # "idle" /\ Current.op \in {"command", "txrx", "query"}) ~> (pc = "idle")

=============================================================================
