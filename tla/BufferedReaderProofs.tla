------------------------ MODULE BufferedReaderProofs ------------------------
(***************************************************************************)
(* Proofs about the Linux BufferedReader, for every size of m_buffer,      *)
(* every amount of data requested, every stream and any number of          *)
(* connections.                                                            *)
(***************************************************************************)
EXTENDS BufferedReader, TLAPS

Inv ==
  /\ TypeOK
  /\ got \in Nat
  /\ taken <= sent
  /\ phase # "idle" => sizeLeft > 0
  /\ IntactUnlessMixed

(* What recv() keeps in order.                                             *)
Reader ==
  /\ sent \in 0..MaxSent /\ taken \in 0..MaxSent /\ taken <= sent
  /\ conn \in {"open", "closed", "broken"}
  /\ buffer \in [Positions -> 0..MaxSent]
  /\ m_fillLevel \in 0..BufferSize
  /\ m_alreadyRead \in 0..BufferSize
  /\ m_alreadyRead <= m_fillLevel
  /\ got \in Nat
  /\ mixed \in BOOLEAN
  /\ IntactUnlessMixed

LEMMA InvInit == Init => Inv
<1> SUFFICES ASSUME Init PROVE Inv
  OBVIOUS
<1>0. mixed \in BOOLEAN
  BY DEF Init
<1>1. buffer \in [Positions -> 0..MaxSent]
  BY ReaderAssumption DEF Init
<1>2. IntactUnlessMixed
  <2>1. taken = 0 /\ got = 0 /\ m_fillLevel = 0 /\ m_alreadyRead = 0 /\ ret = 0
    BY DEF Init
  <2> QED
    BY <2>1 DEF IntactUnlessMixed, bytesLeft, Positions
<1> QED
  BY <1>0, <1>1, <1>2, ReaderAssumption DEF Init, Inv, TypeOK

LEMMA FromBufferStep ==
  ASSUME Inv, NEW desiredLen \in 1..MaxLen, FromBuffer(desiredLen)
  PROVE  Reader' /\ ret' \in 1..desiredLen
<1> USE ReaderAssumption
<1>1. /\ m_alreadyRead' = m_alreadyRead + desiredLen
      /\ m_fillLevel' = m_fillLevel /\ buffer' = buffer
      /\ sent' = sent /\ taken' = taken /\ conn' = conn /\ mixed' = mixed
      /\ data' = [i \in 1..desiredLen |-> buffer[m_alreadyRead + i - 1]]
      /\ got' = got + desiredLen /\ ret' = desiredLen
      /\ desiredLen <= m_fillLevel - m_alreadyRead
  BY DEF FromBuffer, socket, bytesLeft
<1>2. m_alreadyRead' \in 0..BufferSize /\ m_alreadyRead' <= m_fillLevel' /\ got' \in Nat
  BY <1>1 DEF Inv, TypeOK
<1>3. IntactUnlessMixed'
  <2> SUFFICES ASSUME ~mixed' PROVE IntactUnlessMixed'
    BY DEF IntactUnlessMixed
  <2>1. ~mixed
    BY <1>1
  <2>2. taken' = got' + bytesLeft'
    BY <1>1, <2>1 DEF IntactUnlessMixed, bytesLeft, Inv, TypeOK
  <2>3. ASSUME NEW p \in Positions, m_alreadyRead' <= p, p < m_fillLevel'
        PROVE  buffer'[p] = got' + 1 + (p - m_alreadyRead')
    BY <1>1, <2>1, <2>3 DEF IntactUnlessMixed, Inv, TypeOK, Positions
  <2>4. ASSUME NEW i \in 1..ret'
        PROVE  data'[i] = got' - ret' + i
    <3>1. m_alreadyRead + i - 1 \in Positions /\ m_alreadyRead + i - 1 < m_fillLevel
          /\ m_alreadyRead <= m_alreadyRead + i - 1
      BY <1>1 DEF Inv, TypeOK, Positions
    <3>2. buffer[m_alreadyRead + i - 1] = got + i
      BY <2>1, <3>1 DEF IntactUnlessMixed, Inv, TypeOK
    <3> QED
      BY <1>1, <3>2 DEF Inv
  <2> QED
    BY <2>2, <2>3, <2>4 DEF IntactUnlessMixed, Positions
<1> QED
  BY <1>1, <1>2, <1>3 DEF Inv, TypeOK, Reader

LEMMA ReadStep ==
  ASSUME Inv, NEW desiredLen \in 1..MaxLen, NEW r \in 1..(sent - taken), Read(desiredLen, r)
  PROVE  Reader' /\ ret' \in 1..desiredLen
<1> USE ReaderAssumption
<1> DEFINE n == Least(r, desiredLen)
           room == desiredLen - bytesLeft
<1>1. /\ m_alreadyRead' = 0
      /\ m_fillLevel' = IF r > desiredLen THEN r - desiredLen ELSE 0
      /\ buffer' = [p \in Positions |-> IF p < r - room THEN taken + room + p + 1 ELSE buffer[p]]
      /\ sent' = sent /\ taken' = taken + r /\ conn' = conn
      /\ data' = [i \in 1..n |-> Filled(i)]
      /\ got' = got + n /\ ret' = n
      /\ r <= Least(sent - taken, room + BufferSize)
      /\ bytesLeft < desiredLen
  BY DEF Read, Overflow
<1>2. bytesLeft \in Nat /\ r \in Nat /\ r > 0 /\ r <= sent - taken /\ r <= room + BufferSize
      /\ room \in Nat /\ room > 0
  BY <1>1 DEF Least, bytesLeft, Inv, TypeOK
<1>3. n \in 1..desiredLen /\ n <= r /\ m_fillLevel' = r - n
  BY <1>1, <1>2 DEF Least
<1>4. m_fillLevel' \in 0..BufferSize /\ taken' \in 0..MaxSent /\ taken' <= sent' /\ got' \in Nat
  BY <1>1, <1>2, <1>3 DEF Inv, TypeOK, Least
<1>5. buffer' \in [Positions -> 0..MaxSent]
  <2> SUFFICES ASSUME NEW p \in Positions
               PROVE  (IF p < r - room THEN taken + room + p + 1 ELSE buffer[p]) \in 0..MaxSent
    BY <1>1
  <2>1. CASE p < r - room
    BY <1>2, <2>1 DEF Inv, TypeOK, Positions
  <2>2. CASE ~(p < r - room)
    BY <2>2 DEF Inv, TypeOK
  <2> QED
    BY <2>1, <2>2
<1>6. mixed' = (mixed \/ bytesLeft > 0)
  BY DEF Read
<1>7. mixed' \in BOOLEAN
  BY <1>6
<1>8. ASSUME NEW p \in Positions, p < r - n
      PROVE  p < r - desiredLen /\ n = desiredLen
  BY <1>2, <1>8 DEF Least, Positions
<1> HIDE DEF n
<1>9. IntactUnlessMixed'
  <2> SUFFICES ASSUME ~mixed' PROVE IntactUnlessMixed'
    BY DEF IntactUnlessMixed
  <2>1. ~mixed /\ ~(bytesLeft > 0)
    BY <1>6
  <2>2. bytesLeft = 0 /\ taken = got /\ room = desiredLen
    BY <1>2, <2>1 DEF IntactUnlessMixed, Inv, TypeOK
  <2>3. taken' = got' + bytesLeft'
    BY <1>1, <1>2, <1>3, <2>2 DEF bytesLeft, Inv
  <2>4. ASSUME NEW p \in Positions, p < m_fillLevel'
        PROVE  buffer'[p] = got' + 1 + (p - m_alreadyRead')
    <3>1. p < r - desiredLen /\ n = desiredLen
      BY <1>3, <1>8, <2>4
    <3>2. buffer'[p] = taken + desiredLen + p + 1
      BY <1>1, <2>2, <3>1
    <3> QED
      BY <1>1, <2>2, <3>1, <3>2 DEF Inv, TypeOK, Positions
  <2>5. ASSUME NEW i \in 1..ret'
        PROVE  data'[i] = got' - ret' + i
    BY <1>1, <1>3, <2>2 DEF Filled, Inv, TypeOK
  <2> QED
    BY <2>3, <2>4, <2>5 DEF IntactUnlessMixed, Positions
<1> QED
  BY <1>1, <1>3, <1>4, <1>5, <1>7, <1>9 DEF Inv, TypeOK, Reader

LEMMA ReadNothingStep ==
  ASSUME Inv, NEW desiredLen \in 1..MaxLen, ReadNothing(desiredLen)
  PROVE  Reader' /\ ret' \in {0, -1}
<1> USE ReaderAssumption
<1>1. /\ m_alreadyRead' = 0 /\ m_fillLevel' = 0 /\ buffer' = buffer
      /\ sent' = sent /\ taken' = taken /\ conn' = conn /\ got' = got /\ data' = data
      /\ ret' \in {0, -1}
  BY DEF ReadNothing, socket
<1>2. mixed' = (mixed \/ bytesLeft > 0)
  BY DEF ReadNothing
<1>3. mixed' \in BOOLEAN
  BY <1>2
<1>4. IntactUnlessMixed'
  <2> SUFFICES ASSUME ~mixed' PROVE IntactUnlessMixed'
    BY DEF IntactUnlessMixed
  <2>1. ~mixed /\ ~(bytesLeft > 0)
    BY <1>2
  <2>2. taken = got
    BY <2>1 DEF IntactUnlessMixed, Inv, TypeOK, bytesLeft
  <2> QED
    BY <1>1, <2>2 DEF IntactUnlessMixed, bytesLeft, Inv, TypeOK, Positions
<1> QED
  BY <1>1, <1>3, <1>4 DEF Inv, TypeOK, Reader

LEMMA RecvStep ==
  ASSUME Inv, NEW desiredLen \in 1..MaxLen, recv(desiredLen)
  PROVE  Reader' /\ ret' \in Int /\ ret' <= desiredLen
BY FromBufferStep, ReadStep, ReadNothingStep DEF recv

(* A step that leaves the reader, the socket and the history alone.        *)
LEMMA ReaderUnchanged ==
  ASSUME Inv, UNCHANGED <<socket, reader, history>>
  PROVE  Reader'
<1>1. /\ sent' = sent /\ taken' = taken /\ conn' = conn /\ buffer' = buffer
      /\ m_fillLevel' = m_fillLevel /\ m_alreadyRead' = m_alreadyRead
      /\ got' = got /\ ret' = ret /\ data' = data /\ mixed' = mixed
  BY DEF socket, reader, history
<1>2. IntactUnlessMixed'
  BY <1>1 DEF IntactUnlessMixed, bytesLeft, Positions, Inv
<1>3. mixed' \in BOOLEAN
  BY <1>1 DEF Inv, TypeOK
<1> QED
  BY <1>1, <1>2, <1>3 DEF Inv, TypeOK, Reader

LEMMA InvStep == Inv /\ [Next]_vars => Inv'
<1> SUFFICES ASSUME Inv, [Next]_vars PROVE Inv'
  OBVIOUS
<1> USE ReaderAssumption
<1>0. ASSUME Reader', phase' \in {"idle", "recv", "poll"}, sizeLeft' \in 0..MaxLen,
             connects' \in 0..MaxConnects, phase' # "idle" => sizeLeft' > 0
      PROVE  Inv'
  BY <1>0 DEF Reader, Inv, TypeOK
<1>1. CASE Send \/ Close \/ Reset
  <2>1. /\ taken' = taken /\ buffer' = buffer
        /\ m_fillLevel' = m_fillLevel /\ m_alreadyRead' = m_alreadyRead
        /\ got' = got /\ ret' = ret /\ data' = data /\ mixed' = mixed
        /\ phase' = phase /\ sizeLeft' = sizeLeft /\ connects' = connects
    BY <1>1 DEF Send, Close, Reset, reader, history
  <2>2. sent' \in 0..MaxSent /\ taken <= sent' /\ conn' \in {"open", "closed", "broken"}
    BY <1>1 DEF Send, Close, Reset, Inv, TypeOK
  <2>3. IntactUnlessMixed'
    BY <2>1 DEF IntactUnlessMixed, bytesLeft, Positions, Inv
  <2>4. mixed' \in BOOLEAN
    BY <2>1 DEF Inv, TypeOK
  <2> QED
    BY <2>1, <2>2, <2>3, <2>4 DEF Inv, TypeOK
<1>2. CASE \E size \in 1..MaxLen : receive(size)
  BY <1>0, <1>2, RecvStep DEF receive, Inv, TypeOK
<1>3. CASE \E size \in 1..MaxLen : receiveComplete(size)
  BY <1>0, <1>3, ReaderUnchanged DEF receiveComplete, Inv, TypeOK
<1>4. CASE CompleteStep
  <2>1. sizeLeft \in 1..MaxLen
    BY <1>4 DEF CompleteStep, Inv, TypeOK
  <2>2. Reader' /\ ret' \in Int /\ ret' <= sizeLeft
    BY <1>4, <2>1, RecvStep DEF CompleteStep
  <2>3. phase' \in {"idle", "recv", "poll"} /\ sizeLeft' \in 0..MaxLen
        /\ (phase' # "idle" => sizeLeft' > 0)
    <3>1. CASE ret' > 0
      <4>1. /\ sizeLeft' = sizeLeft - ret'
            /\ phase' = IF ret' = sizeLeft THEN "idle" ELSE "recv"
        BY <1>4, <3>1 DEF CompleteStep
      <4>2. CASE ret' = sizeLeft
        BY <2>1, <4>1, <4>2
      <4>3. CASE ret' # sizeLeft
        <5>1. sizeLeft - ret' \in 1..MaxLen
          <6> DEFINE r == ret'
          <6>1. r \in Int /\ r <= sizeLeft /\ r > 0 /\ r # sizeLeft
            BY <2>2, <3>1, <4>3
          <6> HIDE DEF r
          <6>2. sizeLeft - r \in 1..MaxLen
            BY <2>1, <6>1
          <6> QED
            BY <6>2 DEF r
        <5> QED
          BY <4>1, <4>3, <5>1
      <4> QED
        BY <4>2, <4>3
    <3>2. CASE ~(ret' > 0)
      <4>1. /\ phase' = IF ret' = -1 /\ conn = "open" THEN "poll" ELSE "idle"
            /\ sizeLeft' = IF phase' = "idle" THEN 0 ELSE sizeLeft
        BY <1>4, <3>2 DEF CompleteStep
      <4> QED
        BY <2>1, <4>1
    <3> QED
      BY <3>1, <3>2
  <2> QED
    BY <1>0, <1>4, <2>2, <2>3 DEF CompleteStep, Inv, TypeOK
<1>5. CASE Poll
  BY <1>0, <1>5, ReaderUnchanged DEF Poll, Inv, TypeOK
<1>6. CASE reconnect
  <2>1. /\ sent' = sent /\ taken' = sent /\ conn' = "open" /\ buffer' = buffer
        /\ m_fillLevel' = m_fillLevel /\ m_alreadyRead' = m_alreadyRead
        /\ got' = sent /\ ret' = 0 /\ data' = data
        /\ phase' = "idle" /\ sizeLeft' = sizeLeft /\ connects' = connects + 1
        /\ connects < MaxConnects
    BY <1>6 DEF reconnect, reader
  <2>2. mixed' = (mixed \/ bytesLeft > 0)
    BY <1>6 DEF reconnect
  <2>3. mixed' \in BOOLEAN
    BY <2>2
  <2>4. IntactUnlessMixed'
    <3> SUFFICES ASSUME ~mixed' PROVE IntactUnlessMixed'
      BY DEF IntactUnlessMixed
    <3>1. ~(bytesLeft > 0)
      BY <2>2
    <3>2. m_fillLevel = m_alreadyRead
      BY <3>1 DEF bytesLeft, Inv, TypeOK
    <3> QED
      BY <2>1, <3>2 DEF IntactUnlessMixed, bytesLeft, Inv, TypeOK, Positions
  <2>5. Reader'
    BY <2>1, <2>3, <2>4 DEF Reader, Inv, TypeOK
  <2> QED
    BY <1>0, <2>1, <2>5 DEF Inv, TypeOK
<1>7. CASE UNCHANGED vars
  BY <1>0, <1>7, ReaderUnchanged DEF vars, Inv, TypeOK
<1> QED
  BY <1>1, <1>2, <1>3, <1>4, <1>5, <1>6, <1>7 DEF Next

LEMMA Invariant == Spec => []Inv
BY InvInit, InvStep, PTL DEF Spec

(* The positions in m_buffer stay within m_buffer, m_alreadyRead never     *)
(* passes m_fillLevel, so that their unsigned difference does not wrap     *)
(* around, and receiveComplete() never asks for more than is missing.      *)
THEOREM TypeCorrect == Spec => []TypeOK
<1>1. Inv => TypeOK
  BY DEF Inv
<1> QED
  BY <1>1, Invariant, PTL

(* Until a recv() asks for more than is left in m_buffer while something   *)
(* is left, or the socket is connected again while something is left,      *)
(* every byte is handed out exactly once and in order.                     *)
THEOREM IntactAlways == Spec => []IntactUnlessMixed
<1>1. Inv => IntactUnlessMixed
  BY DEF Inv
<1> QED
  BY <1>1, Invariant, PTL

-----------------------------------------------------------------------------
(* Order                                                                   *)

Left == {p \in Positions : m_alreadyRead <= p /\ p < m_fillLevel}

(* What was handed out, then what is left in m_buffer, then what the       *)
(* socket still has, is in the order in which it was sent.                 *)
Ordered ==
  /\ \A i \in DOMAIN data : data[i] \in 1..taken
  /\ \A p \in Left : buffer[p] \in 1..taken /\ \A i \in DOMAIN data : data[i] < buffer[p]
  /\ \A p, q \in Left : p < q => buffer[p] < buffer[q]

(* An answer continues behind the last one.                                *)
Follows ==
  /\ \A i, j \in DOMAIN data' : i < j => data'[i] < data'[j]
  /\ \A i \in DOMAIN data, j \in DOMAIN data' : data[i] < data'[j]
  /\ \A j \in DOMAIN data' : data'[j] \in 1..sent

LEMMA FromBufferFollows ==
  ASSUME Inv, Ordered, NEW desiredLen \in 1..MaxLen, FromBuffer(desiredLen)
  PROVE  Ordered' /\ Follows
<1> USE ReaderAssumption
<1> DEFINE D == 1..desiredLen
           at(i) == m_alreadyRead + i - 1
<1>1. /\ m_alreadyRead' = m_alreadyRead + desiredLen
      /\ m_fillLevel' = m_fillLevel /\ buffer' = buffer /\ taken' = taken
      /\ data' = [i \in D |-> buffer[at(i)]]
      /\ desiredLen <= m_fillLevel - m_alreadyRead
  BY DEF FromBuffer, socket, bytesLeft
<1>2. /\ m_alreadyRead \in Nat /\ m_fillLevel \in Nat /\ m_fillLevel <= BufferSize
      /\ taken \in Nat /\ sent \in Nat /\ taken <= sent
  BY DEF Inv, TypeOK
<1>3. ASSUME NEW i \in D PROVE at(i) \in Left
  BY <1>1, <1>2 DEF Left, Positions
<1>4. \A p \in Left' : p \in Left /\ \A i \in D : at(i) < p
  BY <1>1, <1>2 DEF Left, Positions
<1>5. Left \subseteq Int
  BY DEF Left, Positions
<1>6. DOMAIN data' = D /\ \A i \in D : data'[i] = buffer[at(i)]
  BY <1>1
<1>7. \A i, j \in D : i < j => at(i) < at(j)
  BY <1>2
<1> HIDE DEF at, D
<1>8. Ordered'
  <2>1. \A i \in DOMAIN data' : data'[i] \in 1..taken'
    BY <1>1, <1>3, <1>6 DEF Ordered
  <2>2. \A p \in Left' : /\ buffer'[p] \in 1..taken'
                         /\ \A i \in DOMAIN data' : data'[i] < buffer'[p]
    BY <1>1, <1>3, <1>4, <1>6 DEF Ordered
  <2>3. \A p, q \in Left' : p < q => buffer'[p] < buffer'[q]
    BY <1>1, <1>4 DEF Ordered
  <2> QED
    BY <2>1, <2>2, <2>3 DEF Ordered
<1>9. Follows
  <2>1. \A i, j \in DOMAIN data' : i < j => data'[i] < data'[j]
    BY <1>3, <1>6, <1>7 DEF Ordered
  <2>2. \A i \in DOMAIN data, j \in DOMAIN data' : data[i] < data'[j]
    BY <1>3, <1>6 DEF Ordered
  <2>3. \A j \in DOMAIN data' : data'[j] \in 1..sent
    <3>1. 1..taken \subseteq 1..sent
      BY <1>2
    <3> QED
      BY <1>3, <1>6, <3>1 DEF Ordered
  <2> QED
    BY <2>1, <2>2, <2>3 DEF Follows
<1> QED
  BY <1>8, <1>9

LEMMA ReadFollows ==
  ASSUME Inv, Ordered, NEW desiredLen \in 1..MaxLen, NEW r \in 1..(sent - taken),
         Read(desiredLen, r)
  PROVE  Ordered' /\ Follows
<1> USE ReaderAssumption
<1> DEFINE n == Least(r, desiredLen)
           room == desiredLen - bytesLeft
<1>1. /\ m_alreadyRead' = 0
      /\ m_fillLevel' = IF r > desiredLen THEN r - desiredLen ELSE 0
      /\ buffer' = [p \in Positions |-> IF p < r - room THEN taken + room + p + 1 ELSE buffer[p]]
      /\ taken' = taken + r
      /\ data' = [i \in 1..n |-> Filled(i)]
      /\ bytesLeft < desiredLen
  BY DEF Read, Overflow
<1>2. /\ bytesLeft \in Nat /\ bytesLeft = m_fillLevel - m_alreadyRead
      /\ r \in Nat /\ r > 0 /\ r <= sent - taken /\ room \in Nat /\ room > 0
      /\ m_alreadyRead \in Nat /\ m_fillLevel \in Nat /\ m_fillLevel <= BufferSize
      /\ taken \in Nat /\ sent \in Nat /\ taken + r <= sent
      /\ n \in Nat /\ n <= r /\ n <= desiredLen
  BY <1>1 DEF Least, bytesLeft, Inv, TypeOK
<1>3. DOMAIN data' = 1..n /\ \A i \in 1..n : data'[i] = Filled(i)
  BY <1>1
<1>4. ASSUME NEW i \in 1..n
      PROVE  \/ /\ i <= bytesLeft /\ m_alreadyRead + i - 1 \in Left
                /\ data'[i] = buffer[m_alreadyRead + i - 1]
             \/ i > bytesLeft /\ data'[i] = taken + i - bytesLeft
  BY <1>2, <1>3 DEF Filled, Left, Positions
<1>5. ASSUME NEW p \in Left'
      PROVE  /\ r > desiredLen /\ n = desiredLen /\ p \in Nat /\ p < r - desiredLen
             /\ buffer'[p] = taken + room + p + 1
  <2>1. p \in Positions /\ p < m_fillLevel' /\ p \in Nat
    BY DEF Left, Positions
  <2>2. r > desiredLen /\ p < r - desiredLen
    BY <1>1, <2>1
  <2>3. p < r - room
    BY <1>2, <2>1, <2>2
  <2> QED
    BY <1>1, <2>1, <2>2, <2>3 DEF Least
<1> HIDE DEF n
<1>6. \A i \in 1..n : data'[i] \in 1..(taken + r)
  <2> SUFFICES ASSUME NEW i \in 1..n PROVE data'[i] \in 1..(taken + r)
    OBVIOUS
  <2>1. CASE m_alreadyRead + i - 1 \in Left /\ data'[i] = buffer[m_alreadyRead + i - 1]
    <3>1. data'[i] \in 1..taken
      BY <2>1 DEF Ordered
    <3> QED
      BY <1>2, <3>1
  <2>2. CASE i > bytesLeft /\ data'[i] = taken + i - bytesLeft
    BY <1>2, <2>2
  <2> QED
    BY <1>4, <2>1, <2>2
<1>7. ASSUME NEW i \in 1..n PROVE data'[i] <= taken + room
  <2>1. CASE m_alreadyRead + i - 1 \in Left /\ data'[i] = buffer[m_alreadyRead + i - 1]
    <3>1. data'[i] \in 1..taken
      BY <2>1 DEF Ordered
    <3> QED
      BY <1>2, <3>1
  <2>2. CASE i > bytesLeft /\ data'[i] = taken + i - bytesLeft
    BY <1>2, <2>2
  <2> QED
    BY <1>4, <2>1, <2>2
<1>8. ASSUME NEW p \in Left'
      PROVE  buffer'[p] \in 1..taken' /\ \A i \in 1..n : data'[i] < buffer'[p]
  <2>1. /\ buffer'[p] = taken + room + p + 1 /\ p \in Nat /\ p < r - desiredLen
        /\ taken' = taken + r /\ room <= desiredLen
    BY <1>1, <1>2, <1>5
  <2>2. buffer'[p] \in 1..taken'
    <3>1. taken + room + p + 1 <= taken + r /\ taken + room + p + 1 >= 1
      BY <1>2, <2>1
    <3> QED
      BY <1>2, <2>1, <3>1
  <2>3. \A i \in 1..n : data'[i] < buffer'[p]
    BY <1>2, <1>6, <1>7, <2>1
  <2> QED
    BY <2>2, <2>3
<1>9. \A p, q \in Left' : p < q => buffer'[p] < buffer'[q]
  BY <1>2, <1>5
<1>10. Ordered'
  BY <1>1, <1>3, <1>6, <1>8, <1>9 DEF Ordered
<1>11. ASSUME NEW i \in 1..n, NEW j \in 1..n, i < j PROVE data'[i] < data'[j]
  <2>1. CASE j <= bytesLeft
    <3> DEFINE a == m_alreadyRead + i - 1
               b == m_alreadyRead + j - 1
    <3>1. /\ a \in Left /\ b \in Left /\ data'[i] = buffer[a] /\ data'[j] = buffer[b]
      BY <1>2, <1>4, <1>11, <2>1
    <3>2. a < b
      BY <1>2, <1>11
    <3> HIDE DEF a, b
    <3> QED
      BY <3>1, <3>2 DEF Ordered
  <2>2. CASE j > bytesLeft /\ i <= bytesLeft
    <3>1. data'[j] = taken + j - bytesLeft
      BY <1>2, <1>4, <2>2
    <3>2. data'[i] \in 1..taken
      <4>1. m_alreadyRead + i - 1 \in Left /\ data'[i] = buffer[m_alreadyRead + i - 1]
        BY <1>2, <1>4, <2>2
      <4> QED
        BY <4>1 DEF Ordered
    <3> QED
      BY <1>2, <2>2, <3>1, <3>2
  <2>3. CASE i > bytesLeft
    <3>1. data'[i] = taken + i - bytesLeft /\ data'[j] = taken + j - bytesLeft
      BY <1>2, <1>4, <1>11, <2>3
    <3> QED
      BY <1>2, <1>11, <3>1
  <2> QED
    BY <1>2, <2>1, <2>2, <2>3
<1>12. ASSUME NEW i \in DOMAIN data, NEW j \in 1..n PROVE data[i] < data'[j]
  <2>1. CASE m_alreadyRead + j - 1 \in Left /\ data'[j] = buffer[m_alreadyRead + j - 1]
    BY <2>1 DEF Ordered
  <2>2. CASE j > bytesLeft /\ data'[j] = taken + j - bytesLeft
    <3>1. data[i] \in 1..taken
      BY DEF Ordered
    <3> QED
      BY <1>2, <2>2, <3>1
  <2> QED
    BY <1>4, <2>1, <2>2
<1>13. Follows
  <2>1. 1..(taken + r) \subseteq 1..sent
    BY <1>2
  <2> QED
    BY <1>3, <1>6, <1>11, <1>12, <2>1 DEF Follows
<1> QED
  BY <1>10, <1>13

LEMMA ReadNothingFollows ==
  ASSUME Inv, Ordered, NEW desiredLen \in 1..MaxLen, ReadNothing(desiredLen)
  PROVE  Ordered' /\ data' = data
<1>1. /\ m_alreadyRead' = 0 /\ m_fillLevel' = 0 /\ data' = data /\ taken' = taken
  BY DEF ReadNothing, socket
<1>2. Left' = {}
  BY <1>1 DEF Left, Positions
<1> QED
  BY <1>1, <1>2 DEF Ordered

LEMMA OrderedStep ==
  ASSUME Inv, Ordered, [Next]_vars
  PROVE  Ordered' /\ (data' # data => Follows)
<1>1. ASSUME NEW desiredLen \in 1..MaxLen, recv(desiredLen)
      PROVE  Ordered' /\ (data' # data => Follows)
  BY <1>1, FromBufferFollows, ReadFollows, ReadNothingFollows DEF recv
<1>2. CASE \E size \in 1..MaxLen : receive(size)
  BY <1>1, <1>2 DEF receive
<1>3. CASE CompleteStep
  <2>1. sizeLeft \in 1..MaxLen
    BY <1>3, ReaderAssumption DEF CompleteStep, Inv, TypeOK
  <2> QED
    BY <1>1, <1>3, <2>1 DEF CompleteStep
<1>4. ASSUME UNCHANGED <<reader, data>>, taken <= taken', taken' \in Nat
      PROVE  Ordered' /\ data' = data
  <2>1. taken \in Nat /\ 1..taken \subseteq 1..taken'
    BY <1>4, ReaderAssumption DEF Inv, TypeOK
  <2>2. Left' = Left /\ buffer' = buffer /\ data' = data
    BY <1>4 DEF Left, reader
  <2> QED
    BY <2>1, <2>2 DEF Ordered
<1>5. CASE reconnect
  BY <1>4, <1>5, ReaderAssumption DEF reconnect, Inv, TypeOK
<1>6. CASE \/ Send \/ Close \/ Reset \/ Poll \/ UNCHANGED vars
           \/ \E size \in 1..MaxLen : receiveComplete(size)
  <2>1. UNCHANGED <<reader, data>> /\ taken' = taken
    BY <1>6 DEF Send, Close, Reset, Poll, receiveComplete, vars, history, socket
  <2> QED
    BY <1>4, <2>1, ReaderAssumption DEF Inv, TypeOK
<1> QED
  BY <1>2, <1>3, <1>5, <1>6 DEF Next

(* Each answer of recv() continues behind the last one, whatever is asked  *)
(* for and however often the socket is connected again: bytes may get      *)
(* lost, but are never repeated, reordered or made up.                     *)
THEOREM InOrderAlways == Spec => InOrder
<1>1. Init => Ordered
  BY DEF Init, Ordered, Left, Positions
<1>2. Inv /\ Ordered /\ [Next]_vars => Ordered'
  BY OrderedStep
<1>3. Inv /\ Ordered /\ [Next]_vars
        => [data' # data =>
              /\ \A i, j \in DOMAIN data' : i < j => data'[i] < data'[j]
              /\ \A i \in DOMAIN data, j \in DOMAIN data' : data[i] < data'[j]
              /\ \A j \in DOMAIN data' : data'[j] \in 1..sent]_vars
  BY OrderedStep DEF Follows
<1> QED
  BY <1>1, <1>2, <1>3, Invariant, PTL DEF Spec, InOrder
=============================================================================
