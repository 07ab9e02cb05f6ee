------------------------------- MODULE Sender -------------------------------
(***************************************************************************)
(* Sending with the Linux SocketNonblocking (lib/communication/linux/      *)
(* socketnonblocking.cpp): sendBlocks() and sendBlock() on a non-blocking  *)
(* stream socket, called one after the other by one thread.                *)
(*                                                                         *)
(* The bytes of a call are numbered 1, 2, 3, ... over all of its blocks.   *)
(* A block is the number of the byte before its first one and its size.    *)
(***************************************************************************)
EXTENDS Integers, Sequences, SequencesExt

CONSTANTS
  MaxBlocks,  \* bound: blocks given to sendBlocks()
  MaxSize,    \* bound: size of a block
  SendBuffer, \* space in the send buffer of the kernel
  MaxCalls    \* bound: number of calls

ASSUME SenderAssumption ==
  /\ {MaxSize, MaxCalls} \subseteq Nat
  /\ {MaxBlocks, SendBuffer} \subseteq Nat \ {0}

VARIABLES
  conn,       \* the connection: "open" or "broken"
  room,       \* free space in the send buffer
  wire,       \* the bytes of the current call that the kernel has taken
  op,         \* the current or last call: "none", "sendBlocks" or "sendBlock";
              \* SenderWin adds its own
  more,       \* its argument more
  pc,         \* "idle", "send", "advance", "wait", or "killed" by SIGPIPE
  blocks,     \* sendBlocks(): the array, which is changed in place
  pBlockPos,  \* sendBlocks(): the index that pBlockPos points at
  blockCount, \* sendBlocks()
  pDat,       \* sendBlock(): the number of the byte before the one it points at
  total,      \* totalLength, size
  remaining,  \* totalBytesRemaining, BytesLeft
  remainingOffset,
  ret,        \* the return value of the last call
  calls       \* history: number of calls

kernel == <<conn, room, wire>>
array  == <<blocks, pBlockPos, blockCount>>
vars   == <<kernel, op, more, pc, array, pDat, total, remaining, remainingOffset, ret, calls>>

MaxLength == MaxBlocks * MaxSize

Block == [pData : 0..MaxLength, size : 0..MaxSize]

TypeOK ==
  op \in {"none", "sendBlocks", "sendBlock"} =>
  /\ conn \in {"open", "broken"}
  /\ room \in 0..SendBuffer
  /\ more \in BOOLEAN
  /\ pc \in {"idle", "send", "advance", "wait", "killed"}
  /\ blocks \in Seq(Block)
  /\ pBlockPos \in 1..(Len(blocks) + 1)
  /\ blockCount = Len(blocks) + 1 - pBlockPos
  /\ pDat \in 0..MaxSize
  /\ total \in 0..MaxLength
  /\ remaining \in 0..total
  /\ remainingOffset \in 0..total
  /\ ret \in -1..total
  /\ calls \in 0..MaxCalls

Init ==
  /\ conn = "open" /\ room = SendBuffer /\ wire = <<>>
  /\ op = "none" /\ more = FALSE
  /\ pc = "idle"
  /\ blocks = <<>> /\ pBlockPos = 1 /\ blockCount = 0
  /\ pDat = 0
  /\ total = 0 /\ remaining = 0 /\ remainingOffset = 0
  /\ ret = 0
  /\ calls = 0

-----------------------------------------------------------------------------
(* The kernel and the peer (external).                                     *)

Drain ==
  /\ conn = "open" /\ room < SendBuffer
  /\ room' = room + 1
  /\ UNCHANGED <<conn, wire, op, more, pc, array, pDat, total, remaining, remainingOffset,
                 ret, calls>>

Break ==
  /\ conn = "open"
  /\ conn' = "broken"
  /\ UNCHANGED <<room, wire, op, more, pc, array, pDat, total, remaining, remainingOffset,
                 ret, calls>>

-----------------------------------------------------------------------------
Bytes(first, size) == [i \in 1..size |-> first + i]

(* The bytes that the iovecs from pBlockPos on describe.                   *)
Gather == FlattenSeq([i \in 1..blockCount |->
            Bytes(blocks[pBlockPos + i - 1].pData, blocks[pBlockPos + i - 1].size)])

Least(a, b) == IF a < b THEN a ELSE b

(* The sizes of the blocks before the one with the given index, added up.  *)
LengthBefore(sizes) ==
  LET length[i \in 1..(Len(sizes) + 1)] ==
        IF i = 1 THEN 0 ELSE length[i - 1] + sizes[i - 1]
  IN  length

TotalLength(sizes) == LengthBefore(sizes)[Len(sizes) + 1]

(* The blocks with the given sizes, one behind the other.                  *)
Layout(sizes) ==
  [i \in 1..Len(sizes) |-> [pData |-> LengthBefore(sizes)[i], size |-> sizes[i]]]

Begin(call, m, t) ==
  /\ pc = "idle" /\ calls < MaxCalls
  /\ calls' = calls + 1
  /\ op' = call
  /\ more' = m
  /\ total' = t
  /\ remaining' = t
  /\ remainingOffset' = 0
  /\ wire' = <<>>
  /\ ret' = 0

Return(r) == pc' = "idle" /\ ret' = r

-----------------------------------------------------------------------------
(* sendBlocks()                                                            *)

sendBlocks(sizes, m) ==
  /\ Begin("sendBlocks", m, TotalLength(sizes))
  /\ pc' = "send"
  /\ blocks' = Layout(sizes)
  /\ pBlockPos' = 1
  /\ blockCount' = Len(sizes)
  /\ UNCHANGED <<conn, room, pDat>>

(* Mutant of SendMsg: the rest is counted from the start of the array.     *)
SendMsgNoOffset(k) ==
  /\ op = "sendBlocks" /\ pc = "send" /\ conn = "open"
  /\ k \in 1..Least(room, Len(Gather))
  /\ wire' = wire \o SubSeq(Gather, 1, k)
  /\ room' = room - k
  /\ remaining' = remaining - k
  /\ remainingOffset' = 0
  /\ IF remaining = k THEN Return(total) ELSE pc' = "advance" /\ UNCHANGED ret
  /\ UNCHANGED <<conn, op, more, array, pDat, total, calls>>

(* sendmsg() takes k bytes.                                                *)
SendMsg(k) ==
  /\ op = "sendBlocks" /\ pc = "send" /\ conn = "open"
  /\ k \in 1..Least(room, Len(Gather))
  /\ wire' = wire \o SubSeq(Gather, 1, k)
  /\ room' = room - k
  /\ remaining' = remaining - k
  /\ remainingOffset' = k
  /\ IF remaining = k THEN Return(total) ELSE pc' = "advance" /\ UNCHANGED ret
  /\ UNCHANGED <<conn, op, more, array, pDat, total, calls>>

(* There is nothing to send: sendmsg() returns 0.                          *)
SendMsgEmpty ==
  /\ op = "sendBlocks" /\ pc = "send" /\ conn = "open"
  /\ Gather = <<>>
  /\ Return(0)
  /\ UNCHANGED <<kernel, op, more, array, pDat, total, remaining, remainingOffset, calls>>

(* EWOULDBLOCK or EINTR.                                                   *)
SendMsgAgain ==
  /\ op = "sendBlocks" /\ pc = "send"
  /\ remaining > 0
  /\ remainingOffset' = 0
  /\ pc' = "advance"
  /\ UNCHANGED <<kernel, op, more, array, pDat, total, remaining, ret, calls>>

(* Any other error.  With more, MSG_MORE is set instead of MSG_NOSIGNAL:   *)
(* EPIPE then comes with SIGPIPE, ECONNRESET does not.                     *)
SendMsgFails ==
  /\ op = "sendBlocks" /\ pc = "send" /\ conn = "broken"
  /\ \/ Return(-1)
     \/ more /\ pc' = "killed" /\ UNCHANGED ret
  /\ UNCHANGED <<kernel, op, more, array, pDat, total, remaining, remainingOffset, calls>>

(* Mutant of SkipBlock: the number of blocks left is not reduced.          *)
SkipBlockKeepsCount ==
  /\ pc = "advance"
  /\ remainingOffset >= blocks[pBlockPos].size
  /\ remainingOffset' = remainingOffset - blocks[pBlockPos].size
  /\ pBlockPos' = pBlockPos + 1
  /\ UNCHANGED <<kernel, op, more, pc, blocks, blockCount, pDat, total, remaining, ret, calls>>

(* The inner loop: a block that was sent completely.                       *)
SkipBlock ==
  /\ pc = "advance"
  /\ remainingOffset >= blocks[pBlockPos].size
  /\ remainingOffset' = remainingOffset - blocks[pBlockPos].size
  /\ pBlockPos' = pBlockPos + 1
  /\ blockCount' = blockCount - 1
  /\ UNCHANGED <<kernel, op, more, pc, blocks, pDat, total, remaining, ret, calls>>

(* The inner loop: a block that was sent in part or not at all.            *)
CutBlock ==
  /\ pc = "advance"
  /\ remainingOffset < blocks[pBlockPos].size
  /\ blocks' = [blocks EXCEPT ![pBlockPos] =
                  [pData |-> @.pData + remainingOffset, size |-> @.size - remainingOffset]]
  /\ pc' = "wait"
  /\ UNCHANGED <<kernel, op, more, pBlockPos, blockCount, pDat, total, remaining,
                 remainingOffset, ret, calls>>

(* Mutant of Writable: the end of the connection does not end the wait.    *)
WritableOpen ==
  /\ pc = "wait"
  /\ room > 0 /\ conn = "open"
  /\ pc' = "send"
  /\ UNCHANGED <<kernel, op, more, array, pDat, total, remaining, remainingOffset, ret, calls>>

(* waitForWritable() ends, for a broken connection too.                    *)
Writable ==
  /\ pc = "wait"
  /\ room > 0 \/ conn = "broken"
  /\ pc' = "send"
  /\ UNCHANGED <<kernel, op, more, array, pDat, total, remaining, remainingOffset, ret, calls>>

(* poll() fails.                                                           *)
WaitFails ==
  /\ pc = "wait"
  /\ Return(-1)
  /\ UNCHANGED <<kernel, op, more, array, pDat, total, remaining, remainingOffset, calls>>

-----------------------------------------------------------------------------
(* sendBlock()                                                             *)

sendBlock(size, m) ==
  /\ Begin("sendBlock", m, size)
  /\ pc' = IF size > 0 THEN "send" ELSE "idle"
  /\ pDat' = 0
  /\ UNCHANGED <<conn, room, array>>

(* send() takes k bytes.                                                   *)
Send(k) ==
  /\ op = "sendBlock" /\ pc = "send" /\ conn = "open"
  /\ k \in 1..Least(room, remaining)
  /\ wire' = wire \o Bytes(pDat, k)
  /\ room' = room - k
  /\ pDat' = pDat + k
  /\ remaining' = remaining - k
  /\ IF remaining = k THEN Return(total) ELSE UNCHANGED <<pc, ret>>
  /\ UNCHANGED <<conn, op, more, array, total, remainingOffset, calls>>

(* EWOULDBLOCK.                                                            *)
SendAgain ==
  /\ op = "sendBlock" /\ pc = "send" /\ conn = "open"
  /\ room = 0
  /\ pc' = "wait"
  /\ UNCHANGED <<kernel, op, more, array, pDat, total, remaining, remainingOffset, ret, calls>>

(* Mutant of SendFails: the return value keeps the size.                   *)
SendFailsUnnoticed ==
  /\ op = "sendBlock" /\ pc = "send" /\ conn = "broken"
  /\ Return(total)
  /\ UNCHANGED <<kernel, op, more, array, pDat, total, remaining, remainingOffset, calls>>

(* Any other error than EINTR.                                             *)
SendFails ==
  /\ op = "sendBlock" /\ pc = "send" /\ conn = "broken"
  /\ Return(-1)
  /\ UNCHANGED <<kernel, op, more, array, pDat, total, remaining, remainingOffset, calls>>

-----------------------------------------------------------------------------
SendStep ==
  \/ \E k \in 1..remaining : SendMsg(k) \/ Send(k)
  \/ SendMsgEmpty \/ SendMsgFails \/ SendAgain \/ SendFails
  \/ SkipBlock \/ CutBlock \/ Writable

Next ==
  \/ \E sizes \in BoundedSeq(0..MaxSize, MaxBlocks), m \in BOOLEAN : sendBlocks(sizes, m)
  \/ \E size \in 0..MaxSize, m \in BOOLEAN : sendBlock(size, m)
  \/ SendStep \/ SendMsgAgain \/ WaitFails
  \/ Drain \/ Break

Spec == Init /\ [][Next]_vars

(* The sending thread keeps running, interrupts end, and the peer keeps    *)
(* receiving while the connection is open.                                 *)
Fairness ==
  /\ WF_vars(SendStep)
  /\ SF_vars(\E k \in 1..remaining : SendMsg(k))
  /\ SF_vars(SendMsgFails)
  /\ WF_vars(Drain)

-----------------------------------------------------------------------------
(* Properties                                                              *)

(* Whatever the kernel takes of a call, and however often it takes         *)
(* nothing: between two calls of sendmsg() or send() the bytes taken and   *)
(* those that are left are together the bytes given, each once and in      *)
(* order.                                                                  *)
NothingSkippedOrRepeated ==
  pc \in {"send", "wait"} =>
    wire \o (IF op = "sendBlocks" THEN Gather ELSE Bytes(pDat, remaining)) = Bytes(0, total)

(* "send everything or until connection closes": a call that returns       *)
(* successfully has sent everything.                                       *)
SentEverything ==
  op \in {"sendBlocks", "sendBlock"} /\ pc = "idle" /\ ret > 0 => ret = total /\ wire = Bytes(0, total)

(* A call comes to an end while the peer receives; it may be the end of    *)
(* the process.                                                            *)
Returns == pc # "idle" ~> pc \in {"idle", "killed"}
=============================================================================
