--------------------------- MODULE BufferedReader ---------------------------
(***************************************************************************)
(* The Linux BufferedReader (lib/communication/linux/bufferedreader.cpp)   *)
(* with its callers SocketNonblocking::receive() and receiveComplete(), on *)
(* a non-blocking stream socket.  One thread reads ("not reentrant").      *)
(*                                                                         *)
(* The bytes the peers send are numbered 1, 2, 3, ... over all connections *)
(* of the socket object.                                                   *)
(***************************************************************************)
EXTENDS Integers

CONSTANTS
  BufferSize,   \* m_buffer.size()
  MaxLen,       \* largest amount of data requested
  MaxSent,      \* bound: bytes sent by the peers
  MaxConnects   \* bound: disconnect() followed by connect()

ASSUME ReaderAssumption ==
  /\ BufferSize \in Nat \ {0}
  /\ MaxLen \in Nat \ {0}
  /\ MaxSent \in Nat
  /\ MaxConnects \in Nat

VARIABLES
  sent,          \* bytes sent by the peer
  taken,         \* bytes handed out by readv()
  conn,          \* the connection: "open", "closed" by the peer, or "broken"
  buffer,        \* m_buffer: the number of the byte at each position, 0 if never written
  m_fillLevel,
  m_alreadyRead,
  phase,         \* receiveComplete(): "idle" (not called), "recv" or "poll"
  sizeLeft,      \* receiveComplete(): sizeLeft
  connects,      \* history: reconnections
  got,           \* history: bytes the caller was given on this connection, counted from its first
  ret,           \* history: the last return value of recv() on this connection
  data,          \* history: the bytes of the last one that was positive
  mixed          \* history: a recv() asked for more than was left in m_buffer, but something
                 \* was left; or something was left when the socket was connected again

socket  == <<sent, taken, conn>>
reader  == <<buffer, m_fillLevel, m_alreadyRead>>
history == <<got, ret, data, mixed>>
vars    == <<socket, reader, phase, sizeLeft, connects, history>>

Positions == 0..(BufferSize - 1)

Least(a, b) == IF a < b THEN a ELSE b

TypeOK ==
  /\ sent \in 0..MaxSent
  /\ taken \in 0..MaxSent
  /\ conn \in {"open", "closed", "broken"}
  /\ buffer \in [Positions -> 0..MaxSent]
  /\ m_fillLevel \in 0..BufferSize
  /\ m_alreadyRead \in 0..BufferSize
  /\ m_alreadyRead <= m_fillLevel
  /\ phase \in {"idle", "recv", "poll"}
  /\ sizeLeft \in 0..MaxLen
  /\ connects \in 0..MaxConnects
  /\ mixed \in BOOLEAN

Init ==
  /\ sent = 0 /\ taken = 0 /\ conn = "open"
  /\ buffer = [p \in Positions |-> 0]
  /\ m_fillLevel = 0
  /\ m_alreadyRead = 0
  /\ phase = "idle"
  /\ sizeLeft = 0
  /\ connects = 0
  /\ got = 0
  /\ ret = 0
  /\ data = [i \in 1..0 |-> 0]
  /\ mixed = FALSE

-----------------------------------------------------------------------------
(* The peer and the network (external).                                    *)

Send ==
  /\ conn = "open" /\ sent < MaxSent
  /\ sent' = sent + 1
  /\ UNCHANGED <<taken, conn, reader, phase, sizeLeft, connects, history>>

Close ==
  /\ conn = "open"
  /\ conn' = "closed"
  /\ UNCHANGED <<sent, taken, reader, phase, sizeLeft, connects, history>>

(* A reset discards what readv() has not handed out.                       *)
Reset ==
  /\ conn = "open"
  /\ conn' = "broken"
  /\ sent' = taken
  /\ UNCHANGED <<taken, reader, phase, sizeLeft, connects, history>>

-----------------------------------------------------------------------------
(* recv()                                                                  *)

bytesLeft == m_fillLevel - m_alreadyRead

(* Enough is left from the last readv().                                   *)
FromBuffer(desiredLen) ==
  /\ bytesLeft >= desiredLen
  /\ data' = [i \in 1..desiredLen |-> buffer[m_alreadyRead + i - 1]]
  /\ m_alreadyRead' = m_alreadyRead + desiredLen
  /\ ret' = desiredLen
  /\ got' = got + desiredLen
  /\ UNCHANGED <<socket, buffer, m_fillLevel, mixed>>

(* Mutant of Filled: what is left is taken from the start of m_buffer.     *)
FilledFromStart(i) == IF i <= bytesLeft THEN buffer[i - 1] ELSE taken + i - bytesLeft

(* What buf holds after the memcpy() of what is left and the readv().      *)
Filled(i) == IF i <= bytesLeft THEN buffer[m_alreadyRead + i - 1]
                               ELSE taken + i - bytesLeft

(* Mutant of Overflow: all of the bytes go to m_buffer.                    *)
OverflowRepeats(desiredLen, r) ==
  [p \in Positions |-> IF p < r THEN taken + p + 1 ELSE buffer[p]]

(* m_buffer after readv() has handed out r bytes.                          *)
Overflow(desiredLen, r) ==
  LET room == desiredLen - bytesLeft
  IN  [p \in Positions |-> IF p < r - room THEN taken + room + p + 1 ELSE buffer[p]]

(* Mutant of Read: m_alreadyRead is not reset.                             *)
ReadKeepsPosition(desiredLen, r) ==
  /\ bytesLeft < desiredLen
  /\ r \in 1..Least(sent - taken, desiredLen - bytesLeft + BufferSize)
  /\ buffer' = Overflow(desiredLen, r)
  /\ taken' = taken + r
  /\ m_fillLevel' = IF r > desiredLen THEN r - desiredLen ELSE 0
  /\ ret' = Least(r, desiredLen)
  /\ data' = [i \in 1..Least(r, desiredLen) |-> Filled(i)]
  /\ got' = got + Least(r, desiredLen)
  /\ mixed' = (mixed \/ bytesLeft > 0)
  /\ UNCHANGED <<sent, conn, m_alreadyRead>>

(* readv() hands out r bytes: the number that is returned, and compared    *)
(* with desiredLen, leaves out what was left in m_buffer before.           *)
Read(desiredLen, r) ==
  /\ bytesLeft < desiredLen
  /\ r \in 1..Least(sent - taken, desiredLen - bytesLeft + BufferSize)
  /\ buffer' = Overflow(desiredLen, r)
  /\ taken' = taken + r
  /\ m_alreadyRead' = 0
  /\ m_fillLevel' = IF r > desiredLen THEN r - desiredLen ELSE 0
  /\ ret' = Least(r, desiredLen)
  /\ data' = [i \in 1..Least(r, desiredLen) |-> Filled(i)]
  /\ got' = got + Least(r, desiredLen)
  /\ mixed' = (mixed \/ bytesLeft > 0)
  /\ UNCHANGED <<sent, conn>>

(* readv() hands out nothing: 0 if the peer has closed, otherwise -1.      *)
ReadNothing(desiredLen) ==
  /\ bytesLeft < desiredLen
  /\ sent = taken
  /\ m_alreadyRead' = 0
  /\ m_fillLevel' = 0
  /\ ret' = IF conn = "closed" THEN 0 ELSE -1
  /\ mixed' = (mixed \/ bytesLeft > 0)
  /\ UNCHANGED <<socket, buffer, got, data>>

recv(desiredLen) ==
  \/ FromBuffer(desiredLen)
  \/ \E r \in 1..(sent - taken) : Read(desiredLen, r)
  \/ ReadNothing(desiredLen)

-----------------------------------------------------------------------------
(* SocketNonblocking                                                       *)

receive(size) ==
  /\ phase = "idle"
  /\ recv(size)
  /\ UNCHANGED <<phase, sizeLeft, connects>>

receiveComplete(size) ==
  /\ phase = "idle"
  /\ phase' = "recv"
  /\ sizeLeft' = size
  /\ UNCHANGED <<socket, reader, connects, history>>

(* One turn of receiveComplete()'s loop; it ends when nothing is missing,  *)
(* when the peer has closed, and on an error that is not EWOULDBLOCK.      *)
CompleteStep ==
  /\ phase = "recv"
  /\ recv(sizeLeft)
  /\ IF ret' > 0
     THEN /\ sizeLeft' = sizeLeft - ret'
          /\ phase' = IF ret' = sizeLeft THEN "idle" ELSE "recv"
     ELSE /\ phase' = IF ret' = -1 /\ conn = "open" THEN "poll" ELSE "idle"
          /\ sizeLeft' = IF phase' = "idle" THEN 0 ELSE sizeLeft
  /\ UNCHANGED connects

(* poll(): readable, or the timeout, which gives up what was received.     *)
Poll ==
  /\ phase = "poll"
  /\ \/ (sent > taken \/ conn # "open") /\ phase' = "recv" /\ UNCHANGED sizeLeft
     \/ phase' = "idle" /\ sizeLeft' = 0
  /\ UNCHANGED <<socket, reader, connects, history>>

(* disconnect() and connect(): m_bufferedReader is not touched.            *)
reconnect ==
  /\ phase = "idle" /\ connects < MaxConnects
  /\ connects' = connects + 1
  /\ conn' = "open"
  /\ taken' = sent
  /\ got' = sent
  /\ ret' = 0
  /\ mixed' = (mixed \/ bytesLeft > 0)
  /\ UNCHANGED <<sent, reader, phase, sizeLeft, data>>

Next ==
  \/ Send \/ Close \/ Reset
  \/ \E size \in 1..MaxLen : receive(size) \/ receiveComplete(size)
  \/ CompleteStep \/ Poll \/ reconnect

Spec == Init /\ [][Next]_vars

-----------------------------------------------------------------------------
(* Properties                                                              *)

(* recv() "behaves like standard recv".                                    *)
Standard == INSTANCE Stream
LikeRecv == Standard!Spec

(* Every byte is handed out exactly once and in order, and m_buffer holds  *)
(* what comes next, as long as no recv() asks for more than is left in     *)
(* m_buffer while something is left, and m_buffer is empty whenever the    *)
(* socket is connected again.                                              *)
IntactUnlessMixed ==
  ~mixed =>
    /\ taken = got + bytesLeft
    /\ \A p \in Positions : m_alreadyRead <= p /\ p < m_fillLevel =>
         buffer[p] = got + 1 + (p - m_alreadyRead)
    /\ ret > 0 => \A i \in 1..ret : data[i] = got - ret + i

(* Whatever is asked for, bytes may get lost but are never made up,        *)
(* repeated or reordered: each answer continues behind the last one.       *)
InOrder ==
  [][data' # data =>
       /\ \A i, j \in DOMAIN data' : i < j => data'[i] < data'[j]
       /\ \A i \in DOMAIN data, j \in DOMAIN data' : data[i] < data'[j]
       /\ \A j \in DOMAIN data' : data'[j] \in 1..sent]_vars
=============================================================================
