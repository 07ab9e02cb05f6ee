------------------------- MODULE BufferedReaderWin --------------------------
(***************************************************************************)
(* The Windows BufferedReader (lib/communication/windows/                  *)
(* bufferedreader.cpp) with its callers SocketNonblocking::receive(),      *)
(* receiveComplete() and setDataCb(), on one connection.  One thread       *)
(* reads.  When there is nothing to receive, recv() starts an overlapped   *)
(* receive of 0 bytes whose completion wakes the event loop; the peer may  *)
(* send between any two of its calls of WSARecv().                         *)
(***************************************************************************)
EXTENDS Integers

CONSTANTS
  BufferSize,   \* sizeof(m_buffer)
  MaxLen,       \* largest amount of data requested
  MaxSent,      \* bound: bytes sent by the peer
  MaxDword      \* the largest DWORD

ASSUME ReaderWinAssumption ==
  /\ BufferSize \in Nat \ {0}
  /\ MaxLen \in Nat \ {0}
  /\ MaxSent \in Nat
  /\ MaxDword \in Nat /\ MaxDword >= BufferSize

VARIABLES
  sent,          \* bytes sent by the peer
  taken,         \* bytes handed out by WSARecv()
  conn,          \* the connection: "open", "closed" by the peer, or "broken"
  pending,       \* ev.overlapped.Internal = STATUS_PENDING
  signalled,     \* a completion is queued for the event loop
  buffer,        \* m_buffer: the number of the byte at each position, 0 if never written
  m_fillLevel,
  m_alreadyRead,
  pc,            \* recv(): "out" (not called), or before the "first", the "signal" or
                 \* the "retry" call of WSARecv()
  desired,       \* recv(): desiredLen
  phase,         \* receiveComplete(): "idle" (not called), "recv" or "select"
  sizeLeft,      \* receiveComplete(): DataToGet
  waiting,       \* history: the caller was told to wait and was not called back since
  got,           \* history: bytes the caller was given
  ret,           \* history: the last return value of recv()
  data           \* history: the bytes of the last one that was positive

socket  == <<sent, taken, conn>>
signal  == <<pending, signalled>>
reader  == <<buffer, m_fillLevel, m_alreadyRead>>
caller  == <<phase, sizeLeft>>
history == <<got, ret, data>>
vars    == <<socket, signal, reader, pc, desired, caller, waiting, history>>

Positions == 0..(BufferSize - 1)

Least(a, b) == IF a < b THEN a ELSE b

(* m_fillLevel stays within m_buffer, and the unsigned difference of the   *)
(* two positions is never negative; only an undefined number of bytes may  *)
(* put m_fillLevel past m_buffer, once the connection is broken.           *)
TypeOK ==
  /\ sent \in 0..MaxSent
  /\ taken \in 0..MaxSent
  /\ conn \in {"open", "closed", "broken"}
  /\ pending \in BOOLEAN
  /\ signalled \in BOOLEAN
  /\ buffer \in [Positions -> 0..MaxSent]
  /\ m_fillLevel \in 0..(IF conn = "broken" THEN MaxDword ELSE BufferSize)
  /\ m_alreadyRead \in 0..m_fillLevel
  /\ pc \in {"out", "first", "signal", "retry"}
  /\ desired \in 0..MaxLen
  /\ phase \in {"idle", "recv", "select"}
  /\ sizeLeft \in 0..MaxLen
  /\ waiting \in BOOLEAN

Init ==
  /\ sent = 0 /\ taken = 0 /\ conn = "open"
  /\ pending = FALSE /\ signalled = FALSE
  /\ buffer = [p \in Positions |-> 0]
  /\ m_fillLevel = 0
  /\ m_alreadyRead = 0
  /\ pc = "out"
  /\ desired = 0
  /\ phase = "idle"
  /\ sizeLeft = 0
  /\ waiting = FALSE
  /\ got = 0
  /\ ret = 0
  /\ data = [i \in 1..0 |-> 0]

-----------------------------------------------------------------------------
(* The peer and the network (external).  The overlapped receive completes  *)
(* when something arrives.                                                 *)

Completes ==
  /\ pending' = FALSE
  /\ signalled' = (signalled \/ pending)
  /\ UNCHANGED <<taken, reader, pc, desired, caller, waiting, history>>

Send  == conn = "open" /\ sent < MaxSent /\ sent' = sent + 1 /\ conn' = conn /\ Completes
Close == conn = "open" /\ conn' = "closed" /\ sent' = sent /\ Completes

(* A reset discards what WSARecv() has not handed out.                     *)
Reset == conn = "open" /\ conn' = "broken" /\ sent' = taken /\ Completes

-----------------------------------------------------------------------------
(* recv()                                                                  *)

bytesLeft == m_fillLevel - m_alreadyRead

(* What the caller of recv() does with its answer r: receive() returns it, *)
(* receiveComplete() counts it, ends or waits in select().                 *)
Return(r) ==
  /\ pc' = "out"
  /\ ret' = r
  /\ waiting' = (r = -1 /\ conn = "open")
  /\ IF phase = "idle" THEN UNCHANGED caller
     ELSE /\ phase' = IF r > 0 /\ r # sizeLeft THEN "recv"
                      ELSE IF r = -1 /\ conn = "open" THEN "select" ELSE "idle"
          /\ sizeLeft' = IF phase' = "idle" THEN 0 ELSE IF r > 0 THEN sizeLeft - r ELSE sizeLeft

(* The caller is given n bytes.                                            *)
Deliver(n, Byte(_)) ==
  /\ data' = [i \in 1..n |-> Byte(i)]
  /\ got' = got + n
  /\ Return(n)

(* A byte that the peer never sent: what is in memory that no WSARecv()    *)
(* has written.                                                            *)
Unreceived(i) == 0

(* A byte from m_buffer, or from what lies behind it in memory.            *)
Buffered(i) ==
  LET p == m_alreadyRead + i - 1
  IN  IF p \in Positions THEN buffer[p] ELSE Unreceived(i)

(* Mutant of FromBuffer: a short read leaves m_alreadyRead behind.         *)
FromBufferStays ==
  /\ bytesLeft > 0
  /\ m_alreadyRead' = IF bytesLeft >= desired THEN m_alreadyRead + desired ELSE m_alreadyRead
  /\ Deliver(Least(bytesLeft, desired), Buffered)
  /\ UNCHANGED <<socket, signal, buffer, m_fillLevel, desired>>

(* Something is left from the last WSARecv(): what was asked for, or a     *)
(* short read.                                                             *)
FromBuffer ==
  /\ bytesLeft > 0
  /\ m_alreadyRead' = m_alreadyRead + Least(bytesLeft, desired)
  /\ Deliver(Least(bytesLeft, desired), Buffered)
  /\ UNCHANGED <<socket, signal, buffer, m_fillLevel, desired>>

(* The overlapped receive has not completed yet.                           *)
AlreadyWaiting ==
  /\ bytesLeft = 0
  /\ pending
  /\ Return(-1)
  /\ UNCHANGED <<socket, signal, reader, desired, got, data>>

Arrived(i) == taken + i

(* m_buffer after WSARecv() has handed out r bytes.                        *)
Overflow(r) ==
  [p \in Positions |-> IF p < r - desired THEN taken + desired + p + 1 ELSE buffer[p]]

(* Mutant of Received: m_alreadyRead is not reset.                         *)
ReceivedKeepsPosition(r) ==
  /\ r \in 1..Least(sent - taken, desired + BufferSize)
  /\ buffer' = Overflow(r)
  /\ taken' = taken + r
  /\ m_fillLevel' = IF r > desired THEN r - desired ELSE 0
  /\ Deliver(Least(r, desired), Arrived)
  /\ UNCHANGED <<sent, conn, signal, desired, m_alreadyRead>>

(* WSARecv() hands out r bytes, to buf first and to m_buffer then.         *)
Received(r) ==
  /\ r \in 1..Least(sent - taken, desired + BufferSize)
  /\ buffer' = Overflow(r)
  /\ taken' = taken + r
  /\ m_alreadyRead' = 0
  /\ m_fillLevel' = IF r > desired THEN r - desired ELSE 0
  /\ Deliver(Least(r, desired), Arrived)
  /\ UNCHANGED <<sent, conn, signal, desired>>

(* WSARecv() hands out nothing and recv() returns r.                       *)
NothingReceived(r) ==
  /\ m_alreadyRead' = 0
  /\ m_fillLevel' = 0
  /\ Return(r)
  /\ UNCHANGED <<socket, signal, buffer, desired, got, data>>

(* Nothing is left in m_buffer.                                            *)
Empty == bytesLeft = 0 /\ ~pending

(* The first WSARecv(); WSAEWOULDBLOCK leads to the second one.            *)
First ==
  /\ pc = "first"
  /\ \/ FromBuffer
     \/ AlreadyWaiting
     \/ Empty /\ \E r \in 1..(sent - taken) : Received(r)
     \/ Empty /\ sent = taken /\ conn = "closed" /\ NothingReceived(0)
     \/ Empty /\ sent = taken /\ conn = "broken" /\ NothingReceived(-1)
     \/ /\ Empty /\ sent = taken /\ conn = "open"
        /\ pc' = "signal"
        /\ UNCHANGED <<socket, signal, reader, desired, caller, waiting, history>>

(* The second WSARecv() starts the overlapped receive.                     *)
StartWaiting ==
  /\ pc = "signal"
  /\ sent = taken /\ conn = "open"
  /\ pending' = TRUE
  /\ m_alreadyRead' = 0
  /\ m_fillLevel' = 0
  /\ Return(-1)
  /\ UNCHANGED <<socket, signalled, buffer, desired, got, data>>

(* Mutant of NoNeedToWait: recv() returns as if the receive were pending.  *)
NoNeedToWaitReturns ==
  /\ pc = "signal"
  /\ sent > taken \/ conn = "closed"
  /\ NothingReceived(-1)

(* It succeeds at once, and may or may not queue a completion.             *)
NoNeedToWait ==
  /\ pc = "signal"
  /\ sent > taken \/ conn = "closed"
  /\ signalled' \in {signalled, TRUE}
  /\ pc' = "retry"
  /\ UNCHANGED <<socket, pending, reader, desired, caller, waiting, history>>

SignalFails == pc = "signal" /\ conn = "broken" /\ NothingReceived(-1)

(* The third WSARecv(); its return value is not looked at.                 *)
Retry ==
  /\ pc = "retry"
  /\ \/ \E r \in 1..(sent - taken) : Received(r)
     \/ sent = taken /\ conn = "closed" /\ NothingReceived(0)

(* If it fails, nothing was written to buf, and numberOfBytesRecvd is      *)
(* undefined: any DWORD, more than m_buffer holds included.                *)
RetryFails(numberOfBytesRecvd) ==
  /\ pc = "retry"
  /\ conn = "broken"
  /\ m_alreadyRead' = 0
  /\ m_fillLevel' = IF numberOfBytesRecvd > desired THEN numberOfBytesRecvd - desired ELSE 0
  /\ Deliver(Least(numberOfBytesRecvd, desired), Unreceived)
  /\ UNCHANGED <<socket, signal, buffer, desired>>

-----------------------------------------------------------------------------
(* SocketNonblocking and the event loop                                    *)

receive(size) ==
  /\ pc = "out" /\ phase = "idle"
  /\ pc' = "first"
  /\ desired' = size
  /\ UNCHANGED <<socket, signal, reader, caller, waiting, history>>

receiveComplete(size) ==
  /\ pc = "out" /\ phase = "idle"
  /\ phase' = "recv"
  /\ sizeLeft' = size
  /\ UNCHANGED <<socket, signal, reader, pc, desired, waiting, history>>

CompleteStep ==
  /\ pc = "out" /\ phase = "recv"
  /\ pc' = "first"
  /\ desired' = sizeLeft
  /\ UNCHANGED <<socket, signal, reader, caller, waiting, history>>

(* select(): readable, or the timeout, which gives up what was received.   *)
Select ==
  /\ phase = "select"
  /\ \/ (sent > taken \/ conn # "open") /\ phase' = "recv" /\ UNCHANGED sizeLeft
     \/ phase' = "idle" /\ sizeLeft' = 0
  /\ UNCHANGED <<socket, signal, reader, pc, desired, waiting, history>>

(* setDataCb() starts an overlapped receive, too.                          *)
setDataCb ==
  /\ pc = "out" /\ phase = "idle"
  /\ IF sent = taken /\ conn = "open"
     THEN pending' = TRUE /\ UNCHANGED signalled
     ELSE signalled' \in {signalled, TRUE} /\ UNCHANGED pending
  /\ UNCHANGED <<socket, reader, pc, desired, caller, waiting, history>>

(* The event loop takes the completion and calls the data callback.        *)
Dispatch ==
  /\ pc = "out" /\ phase = "idle"
  /\ signalled
  /\ signalled' = FALSE
  /\ waiting' = FALSE
  /\ UNCHANGED <<socket, pending, reader, pc, desired, caller, history>>

recv ==
  \/ First \/ StartWaiting \/ NoNeedToWait \/ SignalFails \/ Retry
  \/ \E numberOfBytesRecvd \in 0..MaxDword : RetryFails(numberOfBytesRecvd)

Next ==
  \/ Send \/ Close \/ Reset
  \/ \E size \in 1..MaxLen : receive(size) \/ receiveComplete(size)
  \/ CompleteStep \/ Select \/ setDataCb \/ Dispatch \/ recv

Spec == Init /\ [][Next]_vars

-----------------------------------------------------------------------------
(* Properties                                                              *)

(* recv() "behaves like standard recv": every byte once and in order, -1   *)
(* only if there is nothing, 0 only after the peer has closed and all was  *)
(* received, whatever arrives between its calls of WSARecv(), until the    *)
(* connection is broken and all that had been received was handed out.     *)
Standard == INSTANCE Stream
LikeRecv == Standard!Spec

(* A caller who was told to wait is going to be called back: the           *)
(* overlapped receive is pending, or its completion is queued as soon as   *)
(* there is something to receive.                                          *)
WakeupDue ==
  waiting => IF sent > taken \/ conn # "open" THEN signalled ELSE pending \/ signalled
=============================================================================
