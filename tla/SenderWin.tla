----------------------------- MODULE SenderWin ------------------------------
(***************************************************************************)
(* Sending with the Windows SocketNonblocking (lib/communication/windows/  *)
(* socketnonblocking.cpp): sendBlocks() tries WSASend() once and gives     *)
(* what is left of each block to sendBlock().  The state is that of        *)
(* Sender; remainingOffset is bytesWritten.                                *)
(***************************************************************************)
EXTENDS Sender

(* The calls, as values of op; pc is "WSASend", "walk", "sendBlock" (in its *)
(* loop) or "select".                                                      *)
WinCalls == {"sendBlocksWin", "sendBlockWin"}

VARIABLE error \* history of the current call: "none"; "hidden", it was not told of an error; or
               \* "code", it has returned the code of an error in place of a number of bytes

winVars == <<vars, error>>

(* WSAGetLastError(): positive numbers, any of which may be the length of  *)
(* a call, too.                                                            *)
ErrorCodes == 1..(MaxLength + 1)

-----------------------------------------------------------------------------
(* sendBlocks(); &buffers[0] needs at least one block.                     *)
sendBlocksWin(sizes, m) ==
  /\ sizes # <<>>
  /\ Begin("sendBlocksWin", m, TotalLength(sizes))
  /\ pc' = "WSASend"
  /\ blocks' = Layout(sizes)
  /\ pBlockPos' = 1
  /\ blockCount' = Len(sizes)
  /\ error' = "none"
  /\ UNCHANGED <<conn, room, pDat>>

(* WSASend() takes k bytes; none, if it would block or is interrupted.     *)
WSASend(k) ==
  /\ pc = "WSASend" /\ conn = "open"
  /\ k \in 0..Least(room, total)
  /\ wire' = Bytes(0, k)
  /\ room' = room - k
  /\ remainingOffset' = k
  /\ IF k = total THEN Return(k) ELSE pc' = "walk" /\ UNCHANGED ret
  /\ UNCHANGED <<conn, op, more, array, pDat, total, remaining, calls, error>>

(* Any other error is returned as its code, instead of -1.                 *)
WSASendFails(code) ==
  /\ pc = "WSASend"
  /\ Return(code)
  /\ error' = "code"
  /\ UNCHANGED <<kernel, op, more, array, pDat, total, remaining, remainingOffset, calls>>

(* blockSum, at the block with the given index.                            *)
blockSum(i) == blocks[i].pData + blocks[i].size

(* Mutant of Start: the block is sent from its first byte on.              *)
StartOfBlock == blocks[pBlockPos].pData

(* The byte before the first one that is left of the block.                *)
Start ==
  LET bytesRemaining == blockSum(pBlockPos) - remainingOffset
      start          == blocks[pBlockPos].size - bytesRemaining
  IN  blocks[pBlockPos].pData + start

(* The loop over the blocks: one that was sent completely ...              *)
NextBlock ==
  /\ pc = "walk" /\ blockCount > 0
  /\ remainingOffset >= blockSum(pBlockPos)
  /\ pBlockPos' = pBlockPos + 1
  /\ blockCount' = blockCount - 1
  /\ UNCHANGED <<kernel, op, more, pc, blocks, pDat, total, remaining, remainingOffset, ret, calls,
                 error>>

(* ... one that was not ...                                                *)
SendRest ==
  /\ pc = "walk" /\ blockCount > 0
  /\ remainingOffset < blockSum(pBlockPos)
  /\ pDat' = Start
  /\ remaining' = blockSum(pBlockPos) - remainingOffset
  /\ pc' = "sendBlock"
  /\ UNCHANGED <<kernel, op, more, array, total, remainingOffset, ret, calls, error>>

(* ... and the end.                                                        *)
LastBlock ==
  /\ pc = "walk" /\ blockCount = 0
  /\ Return(remainingOffset)
  /\ UNCHANGED <<kernel, op, more, array, pDat, total, remaining, remainingOffset, calls, error>>

-----------------------------------------------------------------------------
(* sendBlock(), called by sendBlocks() or by the application               *)
sendBlockWin(size, m) ==
  /\ Begin("sendBlockWin", m, size)
  /\ pc' = IF size > 0 THEN "sendBlock" ELSE "idle"
  /\ pDat' = 0
  /\ error' = "none"
  /\ UNCHANGED <<conn, room, array>>

(* sendBlock() returns the size it was given; sendBlocks() counts on it.   *)
ReturnSize ==
  IF op = "sendBlockWin"
  THEN Return(total) /\ UNCHANGED <<remainingOffset, array>>
  ELSE /\ remainingOffset' = blockSum(pBlockPos)
       /\ pBlockPos' = pBlockPos + 1
       /\ blockCount' = blockCount - 1
       /\ pc' = "walk"
       /\ UNCHANGED <<blocks, ret>>

(* ::send() takes k bytes.                                                 *)
SendWin(k) ==
  /\ pc = "sendBlock" /\ conn = "open"
  /\ k \in 1..Least(room, remaining)
  /\ wire' = wire \o Bytes(pDat, k)
  /\ room' = room - k
  /\ pDat' = pDat + k
  /\ remaining' = remaining - k
  /\ IF remaining = k THEN ReturnSize ELSE UNCHANGED <<pc, ret, remainingOffset, array>>
  /\ UNCHANGED <<conn, op, more, total, calls, error>>

(* WSAEWOULDBLOCK.                                                         *)
SendWaits ==
  /\ pc = "sendBlock" /\ conn = "open" /\ room = 0
  /\ pc' = "select"
  /\ UNCHANGED <<kernel, op, more, array, pDat, total, remaining, remainingOffset, ret, calls, error>>

Selected ==
  /\ pc = "select"
  /\ room > 0 \/ conn = "broken"
  /\ pc' = "sendBlock"
  /\ UNCHANGED <<kernel, op, more, array, pDat, total, remaining, remainingOffset, ret, calls, error>>

(* ::send() returns 0: -1 is returned.                                     *)
SendZero ==
  /\ pc = "sendBlock" /\ conn = "broken"
  /\ Return(-1)
  /\ UNCHANGED <<kernel, op, more, array, pDat, total, remaining, remainingOffset, calls, error>>

(* Any other error, one that passes (WSAENOBUFS) included, or select()     *)
(* fails: the -1 is assigned to the retVal of the inner block.             *)
SendErrorHidden ==
  /\ pc \in {"sendBlock", "select"}
  /\ error' = "hidden"
  /\ remaining' = 0
  /\ ReturnSize
  /\ UNCHANGED <<kernel, op, more, pDat, total, calls>>

-----------------------------------------------------------------------------
StepWin ==
  \/ \E k \in 0..total : WSASend(k)
  \/ \E k \in 1..remaining : SendWin(k)
  \/ \E code \in ErrorCodes : WSASendFails(code)
  \/ NextBlock \/ SendRest \/ LastBlock \/ SendWaits \/ Selected \/ SendZero

NextWin ==
  \/ \E sizes \in BoundedSeq(0..MaxSize, MaxBlocks), m \in BOOLEAN : sendBlocksWin(sizes, m)
  \/ \E size \in 0..MaxSize, m \in BOOLEAN : sendBlockWin(size, m)
  \/ StepWin \/ SendErrorHidden
  \/ (Drain \/ Break) /\ UNCHANGED error

SpecWin == Init /\ error = "none" /\ [][NextWin]_winVars

-----------------------------------------------------------------------------
(* On Windows too every byte is sent at most once and in order, over the   *)
(* border between WSASend() and sendBlock(), and nothing is skipped: a     *)
(* call that returns its length has sent everything, and one that returns  *)
(* -1 has not.  There are two exceptions.  sendBlock() hides an error of   *)
(* ::send() or select() from its caller, and sendBlocks() goes on with the *)
(* next block.  And the code of an error of WSASend(), which sendBlocks()  *)
(* returns in place of a number of bytes, may be the length of the call,   *)
(* of which nothing was sent then.                                         *)
SentInOrderWin ==
  op \in WinCalls =>
    /\ \A i, j \in 1..Len(wire) : i < j => wire[i] < wire[j]
    /\ error # "hidden" => wire = Bytes(0, Len(wire))
    /\ pc = "idle" /\ error = "none" =>
         \/ ret = total /\ Len(wire) = total
         \/ ret = -1 /\ Len(wire) < total
    /\ error = "code" => wire = <<>>
=============================================================================
