---------------------- MODULE BufferedReaderWinProofs -----------------------
(***************************************************************************)
(* Proofs about BufferedReaderWin, for every size of m_buffer, every       *)
(* amount of data requested and every stream.                              *)
(***************************************************************************)
EXTENDS BufferedReaderWin, TLAPS

(* m_buffer holds the bytes that were taken from the socket and not handed *)
(* to the caller, in order.                                                *)
Intact ==
  /\ taken = got + bytesLeft
  /\ m_fillLevel <= BufferSize
  /\ \A p \in Positions : m_alreadyRead <= p /\ p < m_fillLevel =>
       buffer[p] = got + 1 + (p - m_alreadyRead)

(* The part of the state that the bytes go through; a failing third        *)
(* WSARecv() spoils it only after everything was handed out.               *)
Bytes ==
  /\ sent \in 0..MaxSent /\ taken \in 0..MaxSent /\ taken <= sent
  /\ conn \in {"open", "closed", "broken"}
  /\ buffer \in [Positions -> 0..MaxSent]
  /\ m_fillLevel \in 0..(IF conn = "broken" THEN MaxDword ELSE BufferSize)
  /\ m_alreadyRead \in 0..m_fillLevel
  /\ got \in Nat
  /\ conn = "broken" => sent = taken
  /\ Intact \/ (conn = "broken" /\ got >= sent)

(* The part of the state that says where recv() and its caller are.        *)
Control ==
  /\ pc \in {"out", "first", "signal", "retry"}
  /\ desired \in 0..MaxLen
  /\ phase \in {"idle", "recv", "select"}
  /\ sizeLeft \in 0..MaxLen
  /\ pc # "out" => desired > 0
  /\ phase # "idle" => sizeLeft > 0
  /\ phase # "idle" /\ pc # "out" => desired = sizeLeft
  /\ phase = "select" => pc = "out"
  /\ pc \in {"signal", "retry"} => bytesLeft = 0
  /\ pc = "retry" => sent > taken \/ conn # "open"

(* The part of the state that wakes the caller up.                         *)
Signals ==
  /\ pending \in BOOLEAN /\ signalled \in BOOLEAN /\ waiting \in BOOLEAN
  /\ pending => conn = "open" /\ sent = taken

Inv == Bytes /\ Control /\ Signals

LEMMA InvInit == Init => Inv
<1> SUFFICES ASSUME Init PROVE Inv
  OBVIOUS
<1>1. Bytes
  <2>1. buffer \in [Positions -> 0..MaxSent]
    BY ReaderWinAssumption DEF Init
  <2>2. Intact
    BY ReaderWinAssumption DEF Init, Intact, bytesLeft, Positions
  <2> QED
    BY <2>1, <2>2, ReaderWinAssumption DEF Init, Bytes
<1>2. Control
  BY ReaderWinAssumption DEF Init, Control
<1>3. Signals
  BY DEF Init, Signals
<1> QED
  BY <1>1, <1>2, <1>3 DEF Inv

(* What the caller does with an answer of recv() keeps it in order.        *)
LEMMA ReturnControl ==
  ASSUME Inv, NEW r \in Int, Return(r), pc # "out", r <= desired, r >= -1,
         UNCHANGED desired
  PROVE  Control'
<1> USE ReaderWinAssumption DEF Inv, Control
<1>1. pc' = "out" /\ desired' = desired
  BY DEF Return
<1>2. CASE phase = "idle"
  BY <1>1, <1>2 DEF Return, caller
<1>3. CASE phase # "idle"
  <2>1. /\ phase' = IF r > 0 /\ r # sizeLeft THEN "recv"
                    ELSE IF r = -1 /\ conn = "open" THEN "select" ELSE "idle"
        /\ sizeLeft' = IF phase' = "idle" THEN 0 ELSE IF r > 0 THEN sizeLeft - r ELSE sizeLeft
    BY <1>3 DEF Return
  <2>2. r <= sizeLeft
    BY <1>3
  <2>3. CASE r > 0 /\ r # sizeLeft
    BY <1>1, <2>1, <2>2, <2>3
  <2>4. CASE ~(r > 0 /\ r # sizeLeft) /\ r = -1 /\ conn = "open"
    BY <1>1, <2>1, <2>4, <1>3
  <2>5. CASE ~(r > 0 /\ r # sizeLeft) /\ ~(r = -1 /\ conn = "open")
    BY <1>1, <2>1, <2>5
  <2> QED
    BY <2>3, <2>4, <2>5
<1> QED
  BY <1>2, <1>3

(* n >= 1 bytes are delivered: either the next ones in order, and the      *)
(* caller sees what a standard recv() gives, or those of a broken          *)
(* connection after everything was handed out.                             *)
LEMMA InOrderIsReceive ==
  ASSUME Inv, NEW n \in Nat \ {0}, n <= sent - got,
         data' = [i \in 1..n |-> got + i], got' = got + n, ret' = n,
         UNCHANGED <<sent, conn>>
  PROVE  Standard!Next
<1>1. n \in 1..(sent - got)
  BY DEF Inv, Bytes
<1>2. Standard!Receive(n)
  BY <1>1 DEF Standard!Receive
<1> QED
  BY <1>1, <1>2 DEF Standard!Next

LEMMA FromBufferStep ==
  ASSUME Inv, FromBuffer, pc = "first"
  PROVE  Bytes' /\ Standard!Next
<1> DEFINE n == Least(bytesLeft, desired)
<1>1. /\ m_alreadyRead' = m_alreadyRead + n
      /\ m_fillLevel' = m_fillLevel /\ buffer' = buffer
      /\ sent' = sent /\ taken' = taken /\ conn' = conn
      /\ data' = [i \in 1..n |-> Buffered(i)]
      /\ got' = got + n /\ ret' = n
  BY DEF FromBuffer, Deliver, Return, socket
<1>2. n \in Nat \ {0} /\ n <= bytesLeft /\ bytesLeft \in Nat /\ bytesLeft > 0
  BY ReaderWinAssumption DEF FromBuffer, Least, bytesLeft, Inv, Bytes, Control
<1>3. bytesLeft' = bytesLeft - n
  BY <1>1, <1>2, ReaderWinAssumption DEF bytesLeft, Inv, Bytes
<1> HIDE DEF n
<1>4. m_alreadyRead' \in 0..m_fillLevel'
  BY <1>1, <1>2, ReaderWinAssumption DEF bytesLeft, Inv, Bytes
<1>5. CASE Intact
  <2>1. taken' = got' + bytesLeft'
    BY <1>1, <1>2, <1>3, <1>5, ReaderWinAssumption DEF Intact, Inv, Bytes
  <2>2. ASSUME NEW p \in Positions, m_alreadyRead' <= p, p < m_fillLevel'
        PROVE  buffer'[p] = got' + 1 + (p - m_alreadyRead')
    BY <1>1, <1>2, <1>5, <2>2, ReaderWinAssumption DEF Intact, Inv, Bytes, Positions
  <2>3. Intact'
    BY <1>1, <1>5, <2>1, <2>2 DEF Intact, Positions
  <2>4. Bytes'
    BY <1>1, <1>2, <1>4, <2>3, ReaderWinAssumption DEF Inv, Bytes
  <2>5. \A i \in 1..n : Buffered(i) = got + i
    <3> SUFFICES ASSUME NEW i \in 1..n PROVE Buffered(i) = got + i
      OBVIOUS
    <3>1. m_alreadyRead + i - 1 \in Positions /\ m_alreadyRead + i - 1 < m_fillLevel
      BY <1>2, <1>5, ReaderWinAssumption DEF Intact, Inv, Bytes, bytesLeft, Positions
    <3>2. m_alreadyRead <= m_alreadyRead + i - 1
      BY <1>2, ReaderWinAssumption DEF Inv, Bytes
    <3> QED
      BY <1>2, <1>5, <3>1, <3>2, ReaderWinAssumption DEF Buffered, Intact, Inv, Bytes
  <2>6. data' = [i \in 1..n |-> got + i]
    BY <1>1, <2>5
  <2>7. n <= sent - got
    BY <1>2, <1>5, ReaderWinAssumption DEF Intact, Inv, Bytes
  <2> QED
    BY <1>1, <1>2, <2>4, <2>6, <2>7, InOrderIsReceive
<1>6. CASE conn = "broken" /\ got >= sent
  <2>1. Bytes'
    BY <1>1, <1>2, <1>4, <1>6, ReaderWinAssumption DEF Inv, Bytes
  <2>2. Standard!Broken
    BY <1>1, <1>2, <1>6 DEF Standard!Broken, Inv, Bytes
  <2> QED
    BY <2>1, <2>2 DEF Standard!Next
<1> QED
  BY <1>5, <1>6 DEF Inv, Bytes

LEMMA ReceivedStep ==
  ASSUME Inv, NEW r \in 1..(sent - taken), Received(r), bytesLeft = 0, desired > 0
  PROVE  Bytes' /\ Standard!Next
<1> DEFINE n == Least(r, desired)
<1>1. /\ m_alreadyRead' = 0
      /\ m_fillLevel' = IF r > desired THEN r - desired ELSE 0
      /\ buffer' = Overflow(r)
      /\ sent' = sent /\ taken' = taken + r /\ conn' = conn
      /\ data' = [i \in 1..n |-> taken + i]
      /\ got' = got + n /\ ret' = n
  BY DEF Received, Deliver, Arrived, Return
<1>2. /\ r \in Nat /\ r > 0 /\ r <= sent - taken /\ r <= desired + BufferSize
      /\ desired \in Nat
  BY ReaderWinAssumption DEF Received, Least, Inv, Bytes, Control
<1>3. n \in Nat \ {0} /\ n <= r /\ m_fillLevel' = r - n
  BY <1>1, <1>2 DEF Least
<1>4. r - n \in Nat /\ r - n <= BufferSize
  BY <1>2, ReaderWinAssumption DEF Least
<1>5. conn # "broken"
  BY <1>2 DEF Inv, Bytes
<1>6. Intact /\ taken = got
  BY <1>5 DEF Inv, Bytes, Intact
<1>7. ASSUME NEW p \in Positions, p < r - n
      PROVE  p < r - desired /\ n = desired
  BY <1>2, <1>7 DEF Least, Positions
<1> HIDE DEF n
<1>8. buffer' \in [Positions -> 0..MaxSent]
  <2> SUFFICES ASSUME NEW p \in Positions
               PROVE  (IF p < r - desired THEN taken + desired + p + 1 ELSE buffer[p])
                        \in 0..MaxSent
    BY <1>1 DEF Overflow
  <2>1. CASE p < r - desired
    BY <1>2, <2>1, ReaderWinAssumption DEF Inv, Bytes, Positions
  <2>2. CASE ~(p < r - desired)
    BY <2>2 DEF Inv, Bytes
  <2> QED
    BY <2>1, <2>2
<1>9. Intact'
  <2>1. bytesLeft' = r - n
    BY <1>1, <1>3, <1>4 DEF bytesLeft
  <2>2. taken' = got' + bytesLeft'
    BY <1>1, <1>2, <1>3, <1>6, <2>1 DEF Inv, Bytes
  <2>3. ASSUME NEW p \in Positions, p < m_fillLevel'
        PROVE  buffer'[p] = got' + 1 + (p - m_alreadyRead')
    <3>1. p < r - desired /\ n = desired
      BY <1>3, <1>7, <2>3
    <3>2. buffer'[p] = taken + desired + p + 1
      BY <1>1, <3>1 DEF Overflow
    <3> QED
      BY <1>1, <1>2, <1>6, <3>1, <3>2, ReaderWinAssumption DEF Inv, Bytes, Positions
  <2> QED
    BY <1>1, <1>3, <1>4, <2>2, <2>3 DEF Intact, Positions
<1>10. Bytes'
  BY <1>1, <1>2, <1>3, <1>4, <1>5, <1>8, <1>9, ReaderWinAssumption DEF Inv, Bytes
<1>11. data' = [i \in 1..n |-> got + i]
  BY <1>1, <1>6
<1>12. n <= sent - got
  BY <1>2, <1>3, <1>6 DEF Inv, Bytes
<1> QED
  BY <1>1, <1>3, <1>10, <1>11, <1>12, InOrderIsReceive

(* With nothing left in m_buffer, everything taken was handed out.         *)
LEMMA EmptyMeansAllGot ==
  ASSUME Inv, bytesLeft = 0
  PROVE  /\ got >= taken
         /\ conn # "broken" => got = taken
BY DEF Inv, Bytes, Intact

(* m_buffer is emptied when nothing is left in it.                         *)
LEMMA EmptiedBytes ==
  ASSUME Inv, bytesLeft = 0, m_fillLevel' = 0, m_alreadyRead' = 0,
         UNCHANGED <<socket, buffer, got>>
  PROVE  Bytes'
<1>1. /\ sent' = sent /\ taken' = taken /\ conn' = conn /\ buffer' = buffer /\ got' = got
      /\ bytesLeft' = 0
  BY DEF socket, bytesLeft
<1>2. Intact => Intact'
  BY <1>1, ReaderWinAssumption DEF Intact, Positions, Inv, Bytes
<1> QED
  BY <1>1, <1>2, ReaderWinAssumption DEF Inv, Bytes

LEMMA NothingReceivedStep ==
  ASSUME Inv, NEW r \in {0, -1}, NothingReceived(r), bytesLeft = 0,
         conn = "broken" \/ (r = 0 /\ sent = taken /\ conn = "closed")
  PROVE  Bytes' /\ Standard!Next
<1>1. Bytes'
  BY EmptiedBytes DEF NothingReceived
<1>2. UNCHANGED <<sent, got, conn, data>> /\ ret' = r
  BY DEF NothingReceived, Return, socket
<1>3. CASE conn = "broken"
  <2>1. got >= sent /\ got \in Nat
    BY <1>3, EmptyMeansAllGot DEF Inv, Bytes
  <2> QED
    BY <1>1, <1>2, <1>3, <2>1 DEF Standard!Broken, Standard!Next
<1>4. CASE r = 0 /\ sent = taken /\ conn = "closed"
  <2>1. sent = got
    BY <1>4, EmptyMeansAllGot DEF Inv, Bytes
  <2> QED
    BY <1>1, <1>2, <1>4, <2>1 DEF Standard!Eof, Standard!Next
<1> QED
  BY <1>3, <1>4

LEMMA WaitStep ==
  ASSUME Inv, bytesLeft = 0, sent = taken, conn = "open", ret' = -1,
         UNCHANGED <<socket, got, data>>
  PROVE  Standard!Next
<1>1. sent = got
  BY EmptyMeansAllGot DEF Inv, Bytes
<1> QED
  BY <1>1 DEF Standard!Again, Standard!Next, socket

LEMMA RetryFailsStep ==
  ASSUME Inv, NEW r \in 0..MaxDword, RetryFails(r)
  PROVE  Bytes' /\ Standard!Next
<1> DEFINE n == Least(r, desired)
<1>1. /\ m_alreadyRead' = 0
      /\ m_fillLevel' = IF r > desired THEN r - desired ELSE 0
      /\ sent' = sent /\ taken' = taken /\ conn' = conn /\ buffer' = buffer
      /\ got' = got + n
      /\ conn = "broken"
  BY DEF RetryFails, Deliver, socket
<1>2. n \in Nat /\ m_fillLevel' \in 0..MaxDword
  BY <1>1, ReaderWinAssumption DEF Least, Inv, Control
<1> HIDE DEF n
<1>3. got >= sent /\ got \in Nat
  BY <1>1, EmptyMeansAllGot DEF Inv, Bytes, Control, RetryFails
<1>4. Bytes'
  BY <1>1, <1>2, <1>3, ReaderWinAssumption DEF Inv, Bytes
<1>5. Standard!Broken
  BY <1>1, <1>2, <1>3 DEF Standard!Broken, Inv, Bytes
<1> QED
  BY <1>4, <1>5 DEF Standard!Next

(* A step that leaves the bytes and the socket alone.                      *)
LEMMA BytesUnchanged ==
  ASSUME Inv, UNCHANGED <<socket, reader, history>>
  PROVE  Bytes' /\ UNCHANGED Standard!vars
<1>1. /\ sent' = sent /\ taken' = taken /\ conn' = conn /\ buffer' = buffer
      /\ m_fillLevel' = m_fillLevel /\ m_alreadyRead' = m_alreadyRead
      /\ got' = got /\ ret' = ret /\ data' = data
  BY DEF socket, reader, history
<1>2. bytesLeft' = bytesLeft
  BY <1>1 DEF bytesLeft
<1>3. Intact => Intact'
  BY <1>1, <1>2 DEF Intact, Positions
<1> QED
  BY <1>1, <1>3, ReaderWinAssumption DEF Inv, Bytes, Standard!vars

(* The peer sends, closes or resets the connection.                        *)
LEMMA PeerStep ==
  ASSUME Inv, Send \/ Close \/ Reset
  PROVE  Bytes' /\ Control' /\ Standard!Next
<1>1. /\ taken' = taken /\ buffer' = buffer /\ m_fillLevel' = m_fillLevel
      /\ m_alreadyRead' = m_alreadyRead /\ got' = got /\ ret' = ret /\ data' = data
      /\ pc' = pc /\ desired' = desired /\ phase' = phase /\ sizeLeft' = sizeLeft
      /\ conn = "open"
  BY DEF Send, Close, Reset, Completes, reader, caller, history
<1>2. bytesLeft' = bytesLeft
  BY <1>1 DEF bytesLeft
<1>3. Intact /\ Intact'
  BY <1>1, <1>2 DEF Inv, Bytes, Intact, Positions
<1>4. sent' \in 0..MaxSent /\ taken <= sent' /\ (conn' = "broken" => sent' = taken)
      /\ conn' \in {"open", "closed", "broken"} /\ (sent' >= sent \/ conn' # "open")
  BY ReaderWinAssumption DEF Inv, Bytes, Send, Close, Reset
<1>5. Bytes'
  BY <1>1, <1>3, <1>4, ReaderWinAssumption DEF Inv, Bytes
<1>6. Control'
  BY <1>1, <1>2, <1>4, ReaderWinAssumption DEF Inv, Bytes, Control
<1>7. CASE Send \/ Close
  BY <1>1, <1>5, <1>6, <1>7 DEF Send, Close, Standard!Send, Standard!Close, Standard!Next
<1>8. CASE Reset
  <2>1. sent' \in got..sent
    BY <1>3, <1>8, ReaderWinAssumption DEF Reset, Intact, bytesLeft, Inv, Bytes
  <2> QED
    BY <1>1, <1>5, <1>6, <1>8, <2>1 DEF Reset, Standard!Reset, Standard!Next
<1> QED
  BY <1>7, <1>8

(* One call of WSARecv() within recv().                                    *)
LEMMA RecvStep ==
  ASSUME Inv, recv
  PROVE  Bytes' /\ Control' /\ [Standard!Next]_Standard!vars
<1> USE ReaderWinAssumption
<1>0. pc # "out" /\ desired \in Nat /\ desired > 0
  <2>1. pc \in {"first", "signal", "retry"}
    BY DEF recv, First, StartWaiting, NoNeedToWait, SignalFails, Retry, RetryFails
  <2> QED
    BY <2>1 DEF Inv, Control
<1>1. CASE First /\ FromBuffer
  <2>1. Return(Least(bytesLeft, desired)) /\ desired' = desired
    BY <1>1 DEF FromBuffer, Deliver
  <2>2. Least(bytesLeft, desired) \in Int /\ Least(bytesLeft, desired) <= desired
        /\ Least(bytesLeft, desired) >= -1
    BY <1>0 DEF Least, bytesLeft, Inv, Bytes
  <2>3. Control'
    BY <1>0, <2>1, <2>2, ReturnControl
  <2> QED
    BY <1>1, <2>3, FromBufferStep DEF First
<1>2. CASE First /\ AlreadyWaiting
  <2>1. Return(-1) /\ desired' = desired /\ bytesLeft = 0 /\ pending
        /\ UNCHANGED <<socket, reader, got, data>>
    BY <1>2 DEF AlreadyWaiting
  <2>2. Control'
    BY <1>0, <2>1, ReturnControl
  <2>3. Standard!Next
    BY <2>1, WaitStep DEF Inv, Signals, Return
  <2>4. Bytes'
    <3>1. /\ sent' = sent /\ taken' = taken /\ conn' = conn /\ buffer' = buffer
          /\ m_fillLevel' = m_fillLevel /\ m_alreadyRead' = m_alreadyRead /\ got' = got
      BY <2>1 DEF socket, reader
    <3>2. Intact => Intact'
      BY <3>1 DEF Intact, Positions, bytesLeft
    <3> QED
      BY <3>1, <3>2 DEF Inv, Bytes
  <2> QED
    BY <2>2, <2>3, <2>4
<1>3. ASSUME NEW r \in 1..(sent - taken), Received(r), bytesLeft = 0
      PROVE  Bytes' /\ Control' /\ [Standard!Next]_Standard!vars
  <2>1. Return(Least(r, desired)) /\ desired' = desired
    BY <1>3 DEF Received, Deliver
  <2>2. Least(r, desired) \in Int /\ Least(r, desired) <= desired /\ Least(r, desired) >= -1
    BY <1>0, <1>3 DEF Least, Inv, Bytes
  <2>3. Control'
    BY <1>0, <2>1, <2>2, ReturnControl
  <2> QED
    BY <1>0, <1>3, <2>3, ReceivedStep
<1>4. ASSUME NEW r \in {0, -1}, NothingReceived(r), bytesLeft = 0,
             conn = "broken" \/ (r = 0 /\ sent = taken /\ conn = "closed")
      PROVE  Bytes' /\ Control' /\ [Standard!Next]_Standard!vars
  <2>1. Return(r) /\ desired' = desired /\ r \in Int /\ r <= desired /\ r >= -1
    BY <1>0, <1>4 DEF NothingReceived
  <2>2. Control'
    BY <1>0, <2>1, ReturnControl
  <2> QED
    BY <1>4, <2>2, NothingReceivedStep
<1>5. ASSUME UNCHANGED <<socket, reader, history>>, UNCHANGED <<desired, caller>>,
             \/ pc' = "signal" /\ phase # "select" /\ bytesLeft = 0
             \/ pc' = "retry" /\ phase # "select" /\ bytesLeft = 0
                /\ (sent > taken \/ conn # "open")
      PROVE  Bytes' /\ Control' /\ [Standard!Next]_Standard!vars
  <2>1. Bytes' /\ UNCHANGED Standard!vars
    BY <1>5, BytesUnchanged
  <2>2. Control'
    BY <1>0, <1>5 DEF Inv, Control, caller, socket, reader, bytesLeft
  <2> QED
    BY <2>1, <2>2
<1>6. CASE First /\ ~FromBuffer /\ ~AlreadyWaiting
  <2>1. bytesLeft = 0 /\ phase # "select"
    BY <1>6 DEF First, Empty, Inv, Control
  <2>2. CASE \E r \in 1..(sent - taken) : Received(r)
    BY <1>3, <2>1, <2>2
  <2>3. CASE sent = taken /\ conn = "closed" /\ NothingReceived(0)
    BY <1>4, <2>1, <2>3
  <2>4. CASE sent = taken /\ conn = "broken" /\ NothingReceived(-1)
    BY <1>4, <2>1, <2>4
  <2>5. CASE /\ pc' = "signal"
             /\ UNCHANGED <<socket, signal, reader, desired, caller, waiting, history>>
    BY <1>5, <2>1, <2>5
  <2> QED
    BY <1>6, <2>2, <2>3, <2>4, <2>5 DEF First
<1>7. CASE StartWaiting
  <2>1. Return(-1) /\ desired' = desired /\ bytesLeft = 0
    BY <1>7 DEF StartWaiting, Inv, Control
  <2>2. Control'
    BY <1>0, <2>1, ReturnControl
  <2>3. Bytes'
    BY <1>7, <2>1, EmptiedBytes DEF StartWaiting
  <2>4. Standard!Next
    BY <1>7, <2>1, WaitStep DEF StartWaiting, Return
  <2> QED
    BY <2>2, <2>3, <2>4
<1>8. CASE NoNeedToWait
  <2>1. bytesLeft = 0 /\ phase # "select" /\ (sent > taken \/ conn # "open")
    BY <1>8 DEF NoNeedToWait, Inv, Control
  <2> QED
    BY <1>5, <1>8, <2>1 DEF NoNeedToWait
<1>9. CASE SignalFails
  BY <1>4, <1>9 DEF SignalFails, Inv, Control
<1>10. CASE Retry
  <2>1. bytesLeft = 0
    BY <1>10 DEF Retry, Inv, Control
  <2> QED
    BY <1>3, <1>4, <1>10, <2>1 DEF Retry
<1>11. ASSUME NEW r \in 0..MaxDword, RetryFails(r)
       PROVE  Bytes' /\ Control' /\ [Standard!Next]_Standard!vars
  <2>1. Return(Least(r, desired)) /\ desired' = desired
    BY <1>11 DEF RetryFails, Deliver
  <2>2. Least(r, desired) \in Int /\ Least(r, desired) <= desired /\ Least(r, desired) >= -1
    BY <1>0, <1>11 DEF Least
  <2>3. Control'
    BY <1>0, <2>1, <2>2, ReturnControl
  <2> QED
    BY <1>11, <2>3, RetryFailsStep
<1> QED
  BY <1>1, <1>2, <1>6, <1>7, <1>8, <1>9, <1>10, <1>11 DEF recv

(* A call of receive() or receiveComplete(), and what the latter and the   *)
(* event loop do between two calls of recv().                              *)
LEMMA CallerStep ==
  ASSUME Inv,
         \/ \E size \in 1..MaxLen : receive(size) \/ receiveComplete(size)
         \/ CompleteStep \/ Select \/ setDataCb \/ Dispatch
  PROVE  Bytes' /\ Control' /\ [Standard!Next]_Standard!vars
<1>1. UNCHANGED <<socket, reader, history>>
  BY DEF receive, receiveComplete, CompleteStep, Select, setDataCb, Dispatch
<1>2. Bytes' /\ UNCHANGED Standard!vars
  BY <1>1, BytesUnchanged
<1>3. sent' = sent /\ taken' = taken /\ conn' = conn /\ bytesLeft' = bytesLeft
  BY <1>1 DEF socket, reader, bytesLeft
<1>4. Control'
  <2> USE ReaderWinAssumption DEF Inv, Control
  <2>1. CASE \E size \in 1..MaxLen : receive(size)
    BY <1>3, <2>1 DEF receive, caller
  <2>2. CASE \E size \in 1..MaxLen : receiveComplete(size)
    BY <1>3, <2>2 DEF receiveComplete
  <2>3. CASE CompleteStep
    BY <1>3, <2>3 DEF CompleteStep, caller
  <2>4. CASE Select
    BY <1>3, <2>4 DEF Select
  <2>5. CASE setDataCb \/ Dispatch
    BY <1>3, <2>5 DEF setDataCb, Dispatch, caller
  <2> QED
    BY <2>1, <2>2, <2>3, <2>4, <2>5
<1> QED
  BY <1>2, <1>4

(* Pending means that there is nothing to receive.                         *)
LEMMA SignalsStep == Inv /\ [Next]_vars => Signals'
<1> SUFFICES ASSUME Inv, [Next]_vars PROVE Signals'
  OBVIOUS
<1> USE DEF Inv, Signals
<1>1. CASE Send \/ Close \/ Reset
  BY <1>1 DEF Send, Close, Reset, Completes
<1>2. CASE \E size \in 1..MaxLen : receive(size) \/ receiveComplete(size)
  BY <1>2 DEF receive, receiveComplete, signal, socket
<1>3. CASE CompleteStep \/ Select
  BY <1>3 DEF CompleteStep, Select, signal, socket
<1>4. CASE setDataCb
  BY <1>4 DEF setDataCb, socket
<1>5. CASE Dispatch
  BY <1>5 DEF Dispatch, socket
<1>6. CASE recv
  <2>1. CASE FromBuffer \/ AlreadyWaiting
    <3>1. UNCHANGED <<socket, signal>>
      BY <2>1 DEF FromBuffer, AlreadyWaiting
    <3>2. \E r : Return(r)
      BY <2>1 DEF FromBuffer, AlreadyWaiting, Deliver
    <3>3. waiting' \in BOOLEAN
      BY <3>2 DEF Return
    <3> QED
      BY <3>1, <3>3 DEF signal, socket
  <2>2. ASSUME ~pending, UNCHANGED <<signal>>, waiting' \in BOOLEAN
        PROVE  Signals'
    BY <2>2 DEF signal
  <2>3. ASSUME NEW r, NothingReceived(r)
        PROVE  UNCHANGED signal /\ UNCHANGED socket /\ waiting' \in BOOLEAN
    BY <2>3 DEF NothingReceived, Return
  <2>4. ASSUME NEW r, Received(r)
        PROVE  UNCHANGED signal /\ waiting' \in BOOLEAN
    BY <2>4 DEF Received, Deliver, Return
  <2>5. CASE First /\ ~FromBuffer /\ ~AlreadyWaiting
    <3>1. ~pending
      BY <2>5 DEF First, Empty
    <3>2. UNCHANGED signal /\ waiting' \in BOOLEAN
      BY <2>3, <2>4, <2>5 DEF First
    <3> QED
      BY <2>2, <3>1, <3>2
  <2>6. CASE StartWaiting
    BY <2>6 DEF StartWaiting, Return, socket
  <2>7. CASE NoNeedToWait
    BY <2>7 DEF NoNeedToWait, socket
  <2>8. CASE SignalFails
    BY <2>3, <2>8 DEF SignalFails, signal, socket
  <2>9. CASE Retry
    <3>0. pc = "retry" /\ sent \in Int /\ taken \in Int
      BY <2>9 DEF Retry, Bytes
    <3>1. ~pending
      BY <3>0 DEF Control
    <3>2. UNCHANGED signal /\ waiting' \in BOOLEAN
      BY <2>3, <2>4, <2>9 DEF Retry
    <3> QED
      BY <2>2, <3>1, <3>2
  <2>10. CASE \E numberOfBytesRecvd \in 0..MaxDword : RetryFails(numberOfBytesRecvd)
    BY <2>10 DEF RetryFails, Deliver, Return, signal, socket
  <2> QED
    BY <1>6, <2>1, <2>5, <2>6, <2>7, <2>8, <2>9, <2>10 DEF recv
<1>7. CASE UNCHANGED vars
  BY <1>7 DEF vars, signal, socket
<1> QED
  BY <1>1, <1>2, <1>3, <1>4, <1>5, <1>6, <1>7 DEF Next

LEMMA InvStep == Inv /\ [Next]_vars => Inv' /\ [Standard!Next]_Standard!vars
<1> SUFFICES ASSUME Inv, [Next]_vars
             PROVE  Inv' /\ [Standard!Next]_Standard!vars
  OBVIOUS
<1>1. Signals'
  BY SignalsStep
<1>2. CASE Send \/ Close \/ Reset
  BY <1>1, <1>2, PeerStep DEF Inv
<1>3. CASE \/ \E size \in 1..MaxLen : receive(size) \/ receiveComplete(size)
           \/ CompleteStep \/ Select \/ setDataCb \/ Dispatch
  BY <1>1, <1>3, CallerStep DEF Inv
<1>4. CASE recv
  BY <1>1, <1>4, RecvStep DEF Inv
<1>5. CASE UNCHANGED vars
  <2>1. UNCHANGED <<socket, reader, history>>
    BY <1>5 DEF vars
  <2>2. Bytes' /\ UNCHANGED Standard!vars
    BY <2>1, BytesUnchanged
  <2>3. Control'
    BY <1>5 DEF vars, Inv, Control, caller, socket, reader, bytesLeft
  <2> QED
    BY <1>1, <2>2, <2>3 DEF Inv
<1> QED
  BY <1>2, <1>3, <1>4, <1>5 DEF Next

LEMMA Invariant == Spec => []Inv
BY InvInit, InvStep, PTL DEF Spec

(* m_alreadyRead never passes m_fillLevel, so the unsigned difference of   *)
(* the two is right, and both stay within m_buffer until the connection is *)
(* broken; then the number of bytes of a failed WSARecv(), which may be    *)
(* any DWORD, may put m_fillLevel past m_buffer.                           *)
THEOREM TypeCorrect == Spec => []TypeOK
<1>1. Inv => TypeOK
  BY DEF Inv, Bytes, Control, Signals, TypeOK
<1> QED
  BY <1>1, Invariant, PTL

(* The Windows reader implements Stream: recv() of BufferedReader "behaves *)
(* like standard recv" for every size of m_buffer and every stream.        *)
THEOREM ReaderImplements == Spec => LikeRecv
<1>1. Init => Standard!Init
  BY DEF Init, Standard!Init
<1>2. Inv /\ [Next]_vars => [Standard!Next]_Standard!vars
  BY InvStep
<1> QED
  BY <1>1, <1>2, Invariant, PTL DEF Spec, LikeRecv, Standard!Spec

(* An answer that does not tell the caller to wait.                        *)
LEMMA NoWait ==
  ASSUME NEW r, Return(r), r # -1 \/ conn # "open"
  PROVE  WakeupDue'
<1>1. ~waiting'
  BY DEF Return
<1> QED
  BY <1>1 DEF WakeupDue

(* The wake-up of a caller who was told to wait is not lost between recv() *)
(* finding nothing and starting the overlapped receive, nor when the event *)
(* loop takes a completion that is out of date.                            *)
THEOREM WakeupDueAlways == Spec => []WakeupDue
<1>1. Init => WakeupDue
  BY DEF Init, WakeupDue
<1>2. Inv /\ WakeupDue /\ [Next]_vars => WakeupDue'
  <2> SUFFICES ASSUME Inv, WakeupDue, [Next]_vars PROVE WakeupDue'
    OBVIOUS
  <2>1. CASE Send \/ Close \/ Reset
    <3>1. waiting => signalled \/ pending
      BY DEF WakeupDue
    <3>2. waiting' = waiting /\ signalled' = (signalled \/ pending)
      BY <2>1 DEF Send, Close, Reset, Completes
    <3> QED
      BY <3>1, <3>2 DEF WakeupDue
  <2>2. ASSUME UNCHANGED <<socket, signal, waiting>>
        PROVE  WakeupDue'
    BY <2>2 DEF WakeupDue, socket, signal
  <2>3. CASE \E size \in 1..MaxLen : receive(size) \/ receiveComplete(size)
    BY <2>2, <2>3 DEF receive, receiveComplete
  <2>4. CASE CompleteStep \/ Select
    BY <2>2, <2>4 DEF CompleteStep, Select
  <2>5. CASE setDataCb
    <3>1. CASE sent = taken /\ conn = "open"
      BY <2>5, <3>1 DEF setDataCb, WakeupDue, socket, Inv, Bytes
    <3>2. CASE ~(sent = taken /\ conn = "open")
      <4>1. signalled => signalled'
        BY <2>5, <3>2 DEF setDataCb, Inv, Signals
      <4>2. waiting' = waiting /\ sent' = sent /\ taken' = taken /\ conn' = conn
            /\ pending' = pending
        BY <2>5, <3>2 DEF setDataCb, socket
      <4> QED
        BY <4>1, <4>2 DEF WakeupDue
    <3> QED
      BY <3>1, <3>2
  <2>6. CASE Dispatch
    BY <2>6 DEF Dispatch, WakeupDue
  <2>7. CASE FromBuffer
    <3>1. Return(Least(bytesLeft, desired)) /\ Least(bytesLeft, desired) # -1
      BY <2>7 DEF FromBuffer, Deliver, Least, bytesLeft, Inv, Bytes, Control
    <3> QED
      BY <3>1, NoWait
  <2>8. CASE AlreadyWaiting
    <3>1. pending' /\ conn' = "open" /\ sent' = taken' /\ sent' \in Int
      BY <2>8 DEF AlreadyWaiting, signal, socket, Inv, Signals, Bytes
    <3> QED
      BY <3>1 DEF WakeupDue
  <2>9. ASSUME NEW r \in 1..(sent - taken), Received(r)
        PROVE  WakeupDue'
    <3>1. Return(Least(r, desired)) /\ Least(r, desired) # -1
      BY <2>9 DEF Received, Deliver, Least, Inv, Bytes, Control
    <3> QED
      BY <3>1, NoWait
  <2>10. ASSUME NEW r, NothingReceived(r), r # -1 \/ conn # "open"
         PROVE  WakeupDue'
    BY <2>10, NoWait DEF NothingReceived
  <2>11. CASE First /\ ~FromBuffer /\ ~AlreadyWaiting
    BY <2>2, <2>9, <2>10, <2>11 DEF First
  <2>12. CASE StartWaiting
    <3>1. pending' /\ conn' = "open" /\ sent' = taken' /\ sent' \in Int
      BY <2>12 DEF StartWaiting, socket, Inv, Bytes
    <3> QED
      BY <3>1 DEF WakeupDue
  <2>13. CASE NoNeedToWait
    <3>1. signalled => signalled'
      BY <2>13 DEF NoNeedToWait, Inv, Signals
    <3>2. waiting' = waiting /\ sent' = sent /\ taken' = taken /\ conn' = conn
          /\ pending' = pending
      BY <2>13 DEF NoNeedToWait, socket
    <3> QED
      BY <3>1, <3>2 DEF WakeupDue
  <2>14. CASE SignalFails
    BY <2>10, <2>14 DEF SignalFails
  <2>15. CASE Retry
    BY <2>9, <2>10, <2>15 DEF Retry
  <2>16. ASSUME NEW r \in 0..MaxDword, RetryFails(r)
         PROVE  WakeupDue'
    <3>1. Return(Least(r, desired)) /\ conn # "open"
      BY <2>16 DEF RetryFails, Deliver
    <3> QED
      BY <3>1, NoWait
  <2>17. CASE UNCHANGED vars
    BY <2>2, <2>17 DEF vars
  <2>18. CASE recv
    BY <2>7, <2>8, <2>11, <2>12, <2>13, <2>14, <2>15, <2>16, <2>18 DEF recv
  <2> QED
    BY <2>1, <2>3, <2>4, <2>5, <2>6, <2>17, <2>18 DEF Next
<1> QED
  BY <1>1, <1>2, Invariant, PTL DEF Spec
=============================================================================
