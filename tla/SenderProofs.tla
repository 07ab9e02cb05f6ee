---------------------------- MODULE SenderProofs ----------------------------
(***************************************************************************)
(* Proofs about Sender and SenderWin, for any number and sizes of blocks   *)
(* and any send buffer.                                                    *)
(***************************************************************************)
EXTENDS SenderWin, FiniteSetTheorems, SequenceTheorems, TLAPS

-----------------------------------------------------------------------------
(* Induction over the natural numbers, for a set: if m were the number of  *)
(* no element, the numbers up to m could be mapped into those below m, one *)
(* to one.                                                                 *)
LEMMA InductionOverSet ==
  ASSUME NEW S, 0 \in S, \A n \in Nat : n \in S => n + 1 \in S
  PROVE  \A n \in Nat : n \in S
<1> SUFFICES ASSUME NEW m \in Nat, m \notin S PROVE FALSE
  OBVIOUS
<1> DEFINE shift == [n \in 0..m |-> IF n \in S THEN n ELSE n - 1]
<1>1. m # 0
  OBVIOUS
<1>2. \A n \in 0..m : n \notin S => n - 1 \in 0..(m - 1) /\ n - 1 \notin S
  <2> SUFFICES ASSUME NEW n \in 0..m, n \notin S PROVE n - 1 \in 0..(m - 1) /\ n - 1 \notin S
    OBVIOUS
  <2>1. n # 0
    OBVIOUS
  <2>2. n - 1 \in Nat /\ (n - 1) + 1 = n
    BY <2>1
  <2> QED BY <2>1, <2>2
<1>3. shift \in [0..m -> 0..(m - 1)]
  BY <1>1, <1>2
<1>4. /\ IsFiniteSet(0..m) /\ IsFiniteSet(0..(m - 1))
      /\ Cardinality(0..(m - 1)) < Cardinality(0..m)
  BY <1>1, FS_Interval
<1>5. \A x, y \in 0..m : x # y => shift[x] # shift[y]
  BY <1>2
<1> HIDE DEF shift
<1>6. \E x, y \in 0..m : x # y /\ shift[x] = shift[y]
  BY <1>3, <1>4, FS_PigeonHole
<1> QED BY <1>5, <1>6

-----------------------------------------------------------------------------
(* LengthBefore() adds the sizes up.                                       *)
LEMMA LengthBeforeDefined ==
  ASSUME NEW sizes, Len(sizes) \in Nat, \A i \in 1..Len(sizes) : sizes[i] \in Nat
  PROVE  LengthBefore(sizes) = [i \in 1..(Len(sizes) + 1) |->
           IF i = 1 THEN 0 ELSE LengthBefore(sizes)[i - 1] + sizes[i - 1]]
<1> DEFINE N == Len(sizes)
           Partial(f, n) == f = [i \in 1..(n + 1) |->
                                   IF i = 1 THEN 0 ELSE f[i - 1] + sizes[i - 1]]
           S == {n \in Nat : n <= N => \E f : Partial(f, n)}
<1>1. 0 \in S
  <2>1. Partial([i \in 1..1 |-> 0], 0)
    OBVIOUS
  <2> QED BY <2>1
<1>2. \A n \in Nat : n \in S => n + 1 \in S
  <2> SUFFICES ASSUME NEW n \in Nat, n + 1 <= N, NEW f, Partial(f, n)
               PROVE  \E g : Partial(g, n + 1)
    OBVIOUS
  <2> DEFINE g == [i \in 1..(n + 2) |-> IF i = n + 2 THEN f[n + 1] + sizes[n + 1] ELSE f[i]]
  <2>1. Partial(g, n + 1)
    OBVIOUS
  <2> QED BY <2>1
<1>3. \A n \in Nat : n \in S
  <2> HIDE DEF S
  <2> QED BY <1>1, <1>2, InductionOverSet
<1>4. \E f : Partial(f, N)
  BY <1>3
<1> QED BY <1>4 DEF LengthBefore

Sizes == {s \in Seq(0..MaxSize) : Len(s) <= MaxBlocks}

LEMMA BoundedSizes == \A s \in BoundedSeq(0..MaxSize, MaxBlocks) : s \in Sizes
<1> SUFFICES ASSUME NEW n \in 0..MaxBlocks, NEW s \in [1..n -> 0..MaxSize] PROVE s \in Sizes
  BY DEF BoundedSeq, SeqOf
<1>1. s \in Seq(0..MaxSize) /\ Len(s) = n
  BY SenderAssumption
<1> QED BY <1>1, SenderAssumption DEF Sizes

LEMMA LengthBeforeFacts ==
  ASSUME NEW sizes \in Sizes
  PROVE  /\ LengthBefore(sizes)[1] = 0
         /\ \A i \in 1..Len(sizes) :
              LengthBefore(sizes)[i + 1] = LengthBefore(sizes)[i] + sizes[i]
         /\ \A i \in 1..(Len(sizes) + 1) : LengthBefore(sizes)[i] \in 0..TotalLength(sizes)
         /\ TotalLength(sizes) \in 0..MaxLength
<1> DEFINE N == Len(sizes)
           length == LengthBefore(sizes)
<1>1. MaxSize \in Nat /\ MaxBlocks \in Nat /\ N \in 0..MaxBlocks
  BY SenderAssumption DEF Sizes
<1>2. \A i \in 1..N : sizes[i] \in 0..MaxSize
  BY ElementOfSeq DEF Sizes
<1>3. length = [i \in 1..(N + 1) |-> IF i = 1 THEN 0 ELSE length[i - 1] + sizes[i - 1]]
  BY <1>1, <1>2, LengthBeforeDefined
<1> HIDE DEF length
<1>4. length[1] = 0
  BY <1>1, <1>3
<1>5. \A i \in 1..N : length[i + 1] = length[i] + sizes[i]
  BY <1>1, <1>3
<1>6. \A n \in Nat : n <= N => length[n + 1] \in 0..(n * MaxSize)
  <2> DEFINE S == {n \in Nat : n <= N => length[n + 1] \in 0..(n * MaxSize)}
  <2>1. 0 \in S
    BY <1>4, <1>1
  <2>2. \A n \in Nat : n \in S => n + 1 \in S
    <3> SUFFICES ASSUME NEW n \in Nat, n + 1 <= N, length[n + 1] \in 0..(n * MaxSize)
                 PROVE  length[(n + 1) + 1] \in 0..((n + 1) * MaxSize)
      OBVIOUS
    <3>1. length[(n + 1) + 1] = length[n + 1] + sizes[n + 1] /\ sizes[n + 1] \in 0..MaxSize
      BY <1>1, <1>2, <1>5
    <3>2. (n + 1) * MaxSize = n * MaxSize + MaxSize /\ n * MaxSize \in Nat
      BY <1>1
    <3> QED BY <3>1, <3>2, <1>1
  <2> HIDE DEF S
  <2>3. \A n \in Nat : n \in S
    BY <2>1, <2>2, InductionOverSet
  <2> QED BY <2>3 DEF S
<1>7. \A i \in 1..(N + 1) : length[i] \in Nat /\ length[i] <= (i - 1) * MaxSize
  <2> SUFFICES ASSUME NEW i \in 1..(N + 1)
               PROVE  length[i] \in Nat /\ length[i] <= (i - 1) * MaxSize
    OBVIOUS
  <2>1. i - 1 \in Nat /\ i - 1 <= N /\ (i - 1) + 1 = i
    BY <1>1
  <2>2. length[(i - 1) + 1] \in 0..((i - 1) * MaxSize)
    BY <2>1, <1>6
  <2> QED BY <2>1, <2>2, <1>1
<1>8. \A n \in Nat : n <= N => length[(N + 1) - n] <= length[N + 1]
  <2> DEFINE S == {n \in Nat : n <= N => length[(N + 1) - n] <= length[N + 1]}
  <2>1. 0 \in S
    BY <1>1, <1>6
  <2>2. \A n \in Nat : n \in S => n + 1 \in S
    <3> SUFFICES ASSUME NEW n \in Nat, n + 1 <= N, length[(N + 1) - n] <= length[N + 1]
                 PROVE  length[(N + 1) - (n + 1)] <= length[N + 1]
      OBVIOUS
    <3>1. /\ N - n \in 1..N /\ (N - n) + 1 = (N + 1) - n /\ (N + 1) - (n + 1) = N - n
          /\ N - n = (N - n - 1) + 1 /\ N - n - 1 \in Nat /\ N - n - 1 <= N
      BY <1>1
    <3>2. length[(N + 1) - n] = length[N - n] + sizes[N - n] /\ sizes[N - n] \in 0..MaxSize
      BY <3>1, <1>2, <1>5
    <3>3. length[N - n] \in Nat /\ length[N + 1] \in Nat
      BY <3>1, <1>1, <1>7
    <3> QED BY <3>1, <3>2, <3>3, <1>1
  <2> HIDE DEF S
  <2>3. \A n \in Nat : n \in S
    BY <2>1, <2>2, InductionOverSet
  <2> QED BY <2>3 DEF S
<1>9. \A i \in 1..(N + 1) : length[i] \in 0..length[N + 1]
  <2> SUFFICES ASSUME NEW i \in 1..(N + 1) PROVE length[i] \in 0..length[N + 1]
    OBVIOUS
  <2>2. (N + 1) - i \in Nat /\ (N + 1) - i <= N /\ (N + 1) - ((N + 1) - i) = i
    BY <1>1
  <2>3. length[i] \in Nat /\ length[N + 1] \in Nat
    BY <1>1, <1>7
  <2>4. length[i] <= length[N + 1]
    BY <2>2, <1>8
  <2> QED BY <2>3, <2>4
<1>10. length[N + 1] \in 0..(MaxBlocks * MaxSize)
  <2>1. N * MaxSize <= MaxBlocks * MaxSize
    BY <1>1
  <2>2. N * MaxSize \in Nat /\ MaxBlocks * MaxSize \in Nat
    BY <1>1
  <2>3. (N + 1) - 1 = N /\ N + 1 \in 1..(N + 1)
    BY <1>1
  <2>4. length[N + 1] \in Nat /\ length[N + 1] <= ((N + 1) - 1) * MaxSize
    BY <2>3, <1>7
  <2>5. length[N + 1] <= N * MaxSize
    BY <2>3, <2>4
  <2> QED BY <2>1, <2>2, <2>4, <2>5
<1> QED BY <1>4, <1>5, <1>9, <1>10 DEF TotalLength, length, MaxLength

-----------------------------------------------------------------------------
(* Bytes() and Gather: blocks that are one behind the other are gathered   *)
(* to the bytes from the first one to the last.                            *)
LEMMA BytesFacts ==
  ASSUME NEW a \in Nat, NEW n \in Nat
  PROVE  /\ Bytes(a, n) \in Seq(Nat) /\ Len(Bytes(a, n)) = n
         /\ \A i \in 1..n : Bytes(a, n)[i] = a + i
<1>1. \A i \in 1..n : a + i \in Nat
  OBVIOUS
<1> QED BY <1>1 DEF Bytes

LEMMA BytesConcat ==
  ASSUME NEW a \in Nat, NEW m \in Nat, NEW n \in Nat
  PROVE  Bytes(a, m) \o Bytes(a + m, n) = Bytes(a, m + n)
<1> DEFINE s == Bytes(a, m)
           t == Bytes(a + m, n)
           u == Bytes(a, m + n)
<1>1. s \in Seq(Nat) /\ Len(s) = m /\ \A i \in 1..m : s[i] = a + i
  BY BytesFacts
<1>2. t \in Seq(Nat) /\ Len(t) = n /\ \A i \in 1..n : t[i] = (a + m) + i
  <2>1. a + m \in Nat
    OBVIOUS
  <2> QED BY <2>1, BytesFacts
<1>3. u \in Seq(Nat) /\ Len(u) = m + n /\ \A i \in 1..(m + n) : u[i] = a + i
  <2>1. m + n \in Nat
    OBVIOUS
  <2> QED BY <2>1, BytesFacts
<1> HIDE DEF s, t, u
<1>4. /\ s \o t \in Seq(Nat) /\ Len(s \o t) = m + n
      /\ \A i \in 1..(m + n) : (s \o t)[i] = IF i <= m THEN s[i] ELSE t[i - m]
  BY <1>1, <1>2, ConcatProperties
<1>5. \A i \in 1..(m + n) : (s \o t)[i] = u[i]
  <2> SUFFICES ASSUME NEW i \in 1..(m + n) PROVE (s \o t)[i] = a + i
    BY <1>3
  <2>1. i <= m => s[i] = a + i
    BY <1>1
  <2>2. ~(i <= m) => i - m \in 1..n /\ t[i - m] = a + i
    BY <1>2
  <2> QED BY <1>4, <2>1, <2>2
<1>6. s \o t = u
  BY <1>3, <1>4, <1>5, SeqEqual
<1> QED BY <1>6 DEF s, t, u

LEMMA BytesSubSeq ==
  ASSUME NEW a \in Nat, NEW n \in Nat, NEW k \in 0..n
  PROVE  SubSeq(Bytes(a, n), 1, k) = Bytes(a, k)
<1> DEFINE s == Bytes(a, n)
           t == Bytes(a, k)
<1>1. s \in Seq(Nat) /\ Len(s) = n /\ \A i \in 1..n : s[i] = a + i
  BY BytesFacts
<1>2. t \in Seq(Nat) /\ Len(t) = k /\ \A i \in 1..k : t[i] = a + i
  <2>1. k \in Nat
    OBVIOUS
  <2> QED BY <2>1, BytesFacts
<1> HIDE DEF s, t
<1>3. \A i \in 1..k : s[i] \in Nat /\ s[i] = t[i]
  BY <1>1, <1>2
<1>4. /\ SubSeq(s, 1, k) \in Seq(Nat) /\ Len(SubSeq(s, 1, k)) = k
      /\ \A i \in 1..k : SubSeq(s, 1, k)[i] = s[i]
  BY <1>3, SubSeqProperties
<1>5. SubSeq(s, 1, k) = t
  BY <1>2, <1>3, <1>4, SeqEqual
<1> QED BY <1>5 DEF s, t

(* What blocks is, from the block pBlockPos on.                            *)
LEMMA FlattenBytes ==
  ASSUME NEW n \in Nat \ {0}, NEW begin, NEW size,
         \A i \in 1..n : begin[i] \in Nat /\ size[i] \in Nat,
         \A i \in 1..(n - 1) : begin[i + 1] = begin[i] + size[i]
  PROVE  FlattenSeq([i \in 1..n |-> Bytes(begin[i], size[i])])
           = Bytes(begin[1], begin[n] + size[n] - begin[1])
<1> DEFINE seqs == [i \in 1..n |-> Bytes(begin[i], size[i])]
           upTo(i) == Bytes(begin[1], begin[i] + size[i] - begin[1])
           Solves(f) == f = [i \in 1..n |-> IF i = 1 THEN seqs[i] ELSE f[i - 1] \o seqs[i]]
           S == {k \in Nat : k + 1 <= n => begin[k + 1] >= begin[1]}
<1>1. Len(seqs) = n
  BY IsASeq, BytesFacts
<1>2. \A i \in 1..n : begin[i] >= begin[1]
  <2>1. 0 \in S
    OBVIOUS
  <2>2. \A k \in Nat : k \in S => k + 1 \in S
    <3> SUFFICES ASSUME NEW k \in Nat, (k + 1) + 1 <= n, begin[k + 1] >= begin[1]
                 PROVE  begin[(k + 1) + 1] >= begin[1]
      OBVIOUS
    <3>1. k + 1 \in 1..(n - 1) /\ k + 1 \in 1..n
      OBVIOUS
    <3>2. begin[(k + 1) + 1] = begin[k + 1] + size[k + 1]
      BY <3>1
    <3> QED BY <3>1, <3>2
  <2>3. \A k \in Nat : k \in S
    <3> HIDE DEF S
    <3> QED BY <2>1, <2>2, InductionOverSet
  <2> SUFFICES ASSUME NEW i \in 1..n PROVE begin[i] >= begin[1]
    OBVIOUS
  <2>4. i - 1 \in Nat /\ (i - 1) + 1 = i
    OBVIOUS
  <2>5. (i - 1) + 1 <= n => begin[(i - 1) + 1] >= begin[1]
    BY <2>3, <2>4
  <2> QED BY <2>4, <2>5
<1>3. upTo(1) = seqs[1]
  <2>1. begin[1] + size[1] - begin[1] = size[1]
    OBVIOUS
  <2> QED BY <2>1
<1>4. \A i \in 2..n : upTo(i - 1) \o seqs[i] = upTo(i)
  <2> SUFFICES ASSUME NEW i \in 2..n PROVE upTo(i - 1) \o seqs[i] = upTo(i)
    OBVIOUS
  <2> DEFINE a == begin[1]
             m == begin[i] - begin[1]
  <2>1. i - 1 \in 1..(n - 1) /\ (i - 1) + 1 = i
    OBVIOUS
  <2>2. /\ begin[i] = begin[i - 1] + size[i - 1]
        /\ begin[i - 1] \in Nat /\ size[i - 1] \in Nat /\ begin[i] \in Nat /\ size[i] \in Nat
        /\ begin[1] \in Nat /\ begin[i] >= begin[1]
    BY <2>1, <1>2
  <2>3. /\ m \in Nat /\ a + m = begin[i] /\ begin[i - 1] + size[i - 1] - begin[1] = m
        /\ begin[i] + size[i] - begin[1] = m + size[i]
    BY <2>2
  <2>4. Bytes(a, m) \o Bytes(a + m, size[i]) = Bytes(a, m + size[i])
    <3>1. a \in Nat /\ m \in Nat /\ size[i] \in Nat
      BY <2>2, <2>3
    <3> HIDE DEF m, a
    <3> QED BY <3>1, BytesConcat
  <2>5. upTo(i - 1) = Bytes(a, m) /\ seqs[i] = Bytes(a + m, size[i])
        /\ upTo(i) = Bytes(a, m + size[i])
    BY <2>3
  <2> QED BY <2>4, <2>5
<1>5. Solves([i \in 1..n |-> upTo(i)])
  <2> DEFINE g == [i \in 1..n |-> upTo(i)]
  <2>1. \A i \in 1..n : g[i] = IF i = 1 THEN seqs[i] ELSE g[i - 1] \o seqs[i]
    <3> SUFFICES ASSUME NEW i \in 1..n
                 PROVE  g[i] = IF i = 1 THEN seqs[i] ELSE g[i - 1] \o seqs[i]
      OBVIOUS
    <3>1. CASE i = 1
      <4> HIDE DEF upTo, seqs
      <4> QED BY <3>1, <1>3
    <3>2. CASE i # 1
      <4>1. i \in 2..n /\ i - 1 \in 1..n
        BY <3>2
      <4> HIDE DEF upTo, seqs
      <4>2. g[i] = upTo(i) /\ g[i - 1] = upTo(i - 1)
        BY <4>1
      <4> QED BY <3>2, <4>1, <4>2, <1>4
    <3> QED BY <3>1, <3>2
  <2> HIDE DEF upTo, seqs
  <2>2. g = [i \in 1..n |-> g[i]]
    OBVIOUS
  <2> QED BY <2>1, <2>2
<1> DEFINE flatten == CHOOSE f : Solves(f)
<1>6. Solves(flatten)
  <2> HIDE DEF Solves
  <2> QED BY <1>5
<1>7. flatten[n] = upTo(n)
  <2> HIDE DEF flatten, upTo, seqs
  <2> DEFINE T == {k \in Nat : k + 1 <= n => flatten[k + 1] = upTo(k + 1)}
  <2>1. 0 \in T
    BY <1>6, <1>3
  <2>2. \A k \in Nat : k \in T => k + 1 \in T
    <3> SUFFICES ASSUME NEW k \in Nat, (k + 1) + 1 <= n, flatten[k + 1] = upTo(k + 1)
                 PROVE  flatten[(k + 1) + 1] = upTo((k + 1) + 1)
      OBVIOUS
    <3>1. (k + 1) + 1 \in 2..n /\ ((k + 1) + 1) - 1 = k + 1
      OBVIOUS
    <3> DEFINE i == (k + 1) + 1
    <3>2. i \in 1..n /\ i # 1
      OBVIOUS
    <3>3. flatten[i] = flatten[i - 1] \o seqs[i]
      <4> HIDE DEF i
      <4> QED BY <3>2, <1>6
    <3> QED BY <3>1, <3>3, <1>4
  <2>3. \A k \in Nat : k \in T
    <3> HIDE DEF T
    <3> QED BY <2>1, <2>2, InductionOverSet
  <2>4. n - 1 \in T /\ (n - 1) + 1 = n
    BY <2>3
  <2> QED BY <2>4
<1>8. FlattenSeq(seqs) = flatten[n]
  BY <1>1 DEF FlattenSeq
<1> QED BY <1>7, <1>8

LEMMA Bounds == MaxLength \in Nat /\ MaxSize \in 0..MaxLength /\ MaxBlocks \in Nat \ {0}
<1>1. MaxSize \in Nat /\ MaxBlocks \in Nat \ {0}
  BY SenderAssumption
<1>2. MaxBlocks * MaxSize \in Nat /\ MaxSize <= MaxBlocks * MaxSize
  BY <1>1
<1> QED BY <1>1, <1>2 DEF MaxLength

(* The blocks from pBlockPos on are what is left of total, one behind the  *)
(* other.                                                                  *)
InLine ==
  \A i \in pBlockPos..Len(blocks) :
    /\ blocks[i].pData + blocks[i].size <= total
    /\ blocks[i].pData + blocks[i].size = IF i = Len(blocks) THEN total ELSE blocks[i + 1].pData

ArrayOK ==
  /\ blocks \in Seq(Block)
  /\ pBlockPos \in 1..(Len(blocks) + 1)
  /\ blockCount = Len(blocks) + 1 - pBlockPos
  /\ total \in 0..MaxLength

(* The number of the byte before the first one that is left.               *)
First == IF blockCount = 0 THEN total ELSE blocks[pBlockPos].pData

LEMMA LayoutInLine ==
  ASSUME NEW sizes \in Sizes
  PROVE  /\ TotalLength(sizes) \in 0..MaxLength
         /\ Layout(sizes) \in Seq(Block)
         /\ Len(Layout(sizes)) = Len(sizes) /\ Len(sizes) \in Nat
         /\ \A i \in 1..Len(sizes) :
              /\ Layout(sizes)[i].pData + Layout(sizes)[i].size <= TotalLength(sizes)
              /\ Layout(sizes)[i].pData + Layout(sizes)[i].size
                   = IF i = Len(sizes) THEN TotalLength(sizes) ELSE Layout(sizes)[i + 1].pData
         /\ sizes # <<>> => Len(sizes) > 0 /\ Layout(sizes)[1].pData = 0
         /\ Len(sizes) = 0 => TotalLength(sizes) = 0
<1> DEFINE N == Len(sizes)
           before == LengthBefore(sizes)
<1>1. N \in Nat /\ \A i \in 1..N : sizes[i] \in 0..MaxSize
  <2>1. sizes \in Seq(0..MaxSize)
    BY DEF Sizes
  <2> QED BY <2>1, ElementOfSeq, LenProperties
<1>2. /\ TotalLength(sizes) \in 0..MaxLength
      /\ before[1] = 0
      /\ \A i \in 1..N : before[i + 1] = before[i] + sizes[i]
      /\ \A i \in 1..(N + 1) : before[i] \in 0..TotalLength(sizes)
      /\ before[N + 1] = TotalLength(sizes)
  BY LengthBeforeFacts DEF TotalLength
<1>3. Layout(sizes) = [i \in 1..N |-> [pData |-> before[i], size |-> sizes[i]]]
  BY DEF Layout
<1> HIDE DEF before
<1>4. \A i \in 1..N : [pData |-> before[i], size |-> sizes[i]] \in Block
  BY <1>1, <1>2, Bounds DEF Block
<1>5. Layout(sizes) \in Seq(Block) /\ Len(Layout(sizes)) = N
  BY <1>1, <1>3, <1>4
<1>6. \A i \in 1..N : /\ Layout(sizes)[i].pData = before[i] /\ Layout(sizes)[i].size = sizes[i]
                      /\ i + 1 \in 1..(N + 1) /\ before[i + 1] <= TotalLength(sizes)
                      /\ i # N => i + 1 \in 1..N
  BY <1>1, <1>2, <1>3
<1>7. \A i \in 1..N : i # N => Layout(sizes)[i + 1].pData = before[i + 1]
  BY <1>6
<1>8. \A i \in 1..N : Layout(sizes)[i].pData + Layout(sizes)[i].size = before[i + 1]
  BY <1>6, <1>2
<1>9. sizes # <<>> => N > 0
  BY EmptySeq DEF Sizes
<1>10. N > 0 => Layout(sizes)[1].pData = 0
  BY <1>1, <1>2, <1>6
<1>11. N = 0 => TotalLength(sizes) = 0
  BY <1>2
<1>12. \A i \in 1..N :
         /\ Layout(sizes)[i].pData + Layout(sizes)[i].size <= TotalLength(sizes)
         /\ Layout(sizes)[i].pData + Layout(sizes)[i].size
              = IF i = N THEN TotalLength(sizes) ELSE Layout(sizes)[i + 1].pData
  BY <1>2, <1>6, <1>7, <1>8
<1> QED BY <1>1, <1>2, <1>5, <1>9, <1>10, <1>11, <1>12

LEMMA FirstFacts ==
  ASSUME ArrayOK, InLine
  PROVE  /\ First \in 0..total
         /\ blockCount > 0 => /\ pBlockPos \in 1..Len(blocks)
                              /\ blocks[pBlockPos] \in Block
                              /\ blocks[pBlockPos].pData \in Nat /\ blocks[pBlockPos].size \in Nat
<1>1. \A i \in 1..Len(blocks) : blocks[i] \in Block
  BY ElementOfSeq DEF ArrayOK
<1>2. CASE blockCount = 0
  BY <1>2 DEF First, ArrayOK
<1>3. CASE blockCount # 0
  <2>1. pBlockPos \in 1..Len(blocks) /\ pBlockPos \in pBlockPos..Len(blocks)
    BY <1>3 DEF ArrayOK
  <2>2. /\ blocks[pBlockPos] \in Block
        /\ blocks[pBlockPos].pData \in Nat /\ blocks[pBlockPos].size \in Nat
    BY <1>1, <2>1, Bounds DEF Block
  <2>3. blocks[pBlockPos].pData + blocks[pBlockPos].size <= total /\ total \in Nat
    BY <2>1, Bounds DEF InLine, ArrayOK
  <2> QED BY <1>3, <2>1, <2>2, <2>3 DEF First
<1> QED BY <1>2, <1>3

LEMMA Gathered ==
  ASSUME ArrayOK, InLine
  PROVE  Gather = Bytes(First, total - First)
<1> DEFINE seqs == [i \in 1..blockCount |->
                     Bytes(blocks[pBlockPos + i - 1].pData, blocks[pBlockPos + i - 1].size)]
<1>1. CASE blockCount = 0
  <2>1. seqs = <<>> /\ Len(seqs) = 0
    BY <1>1
  <2>2. Gather = <<>>
    BY <2>1 DEF Gather, FlattenSeq
  <2>3. First = total /\ total - First = 0
    BY <1>1 DEF First, ArrayOK
  <2>4. Bytes(First, 0) = <<>>
    BY DEF Bytes
  <2> QED BY <2>2, <2>3, <2>4
<1>2. CASE blockCount # 0
  <2> DEFINE n == blockCount
             begin == [i \in 1..n |-> blocks[pBlockPos + i - 1].pData]
             size  == [i \in 1..n |-> blocks[pBlockPos + i - 1].size]
  <2>1. /\ n \in Nat \ {0} /\ pBlockPos \in Nat /\ Len(blocks) \in Nat
        /\ pBlockPos + n - 1 = Len(blocks) /\ pBlockPos + 1 - 1 = pBlockPos
        /\ \A i \in 1..n : /\ pBlockPos + i - 1 \in pBlockPos..Len(blocks)
                           /\ pBlockPos + i - 1 \in 1..Len(blocks)
                           /\ pBlockPos + (i + 1) - 1 = (pBlockPos + i - 1) + 1
                           /\ i # n => pBlockPos + i - 1 # Len(blocks)
    BY <1>2 DEF ArrayOK
  <2>2. \A i \in 1..n : begin[i] \in Nat /\ size[i] \in Nat
    <3> SUFFICES ASSUME NEW i \in 1..n PROVE begin[i] \in Nat /\ size[i] \in Nat
      OBVIOUS
    <3>1. blocks[pBlockPos + i - 1] \in Block
      BY <2>1, ElementOfSeq DEF ArrayOK
    <3> QED BY <3>1, Bounds DEF Block
  <2>3. \A i \in 1..(n - 1) : begin[i + 1] = begin[i] + size[i]
    <3> SUFFICES ASSUME NEW i \in 1..(n - 1) PROVE begin[i + 1] = begin[i] + size[i]
      OBVIOUS
    <3>1. i \in 1..n /\ i + 1 \in 1..n /\ i # n
      BY <2>1
    <3>2. blocks[pBlockPos + i - 1].pData + blocks[pBlockPos + i - 1].size
            = blocks[pBlockPos + (i + 1) - 1].pData
      BY <2>1, <3>1 DEF InLine
    <3> QED BY <3>1, <3>2
  <2>4. begin[n] + size[n] = total
    <3>1. n \in 1..n /\ Len(blocks) \in pBlockPos..Len(blocks)
      BY <2>1
    <3>2. blocks[Len(blocks)].pData + blocks[Len(blocks)].size = total
      BY <3>1 DEF InLine
    <3> QED BY <2>1, <3>1, <3>2
  <2>5. begin[1] = First
    BY <1>2, <2>1 DEF First
  <2>6. [i \in 1..n |-> Bytes(begin[i], size[i])] = seqs
    OBVIOUS
  <2>7. Gather = FlattenSeq(seqs)
    BY DEF Gather
  <2>8. FlattenSeq([i \in 1..n |-> Bytes(begin[i], size[i])])
          = Bytes(begin[1], begin[n] + size[n] - begin[1])
    <3> HIDE DEF begin, size, n
    <3> QED BY <2>1, <2>2, <2>3, FlattenBytes
  <2>9. Gather = Bytes(begin[1], begin[n] + size[n] - begin[1])
    BY <2>6, <2>7, <2>8
  <2> HIDE DEF begin, size, n
  <2>10. begin[n] + size[n] - begin[1] = total - First
    <3>1. n \in 1..n /\ 1 \in 1..n
      BY <2>1
    <3>2. begin[n] \in Nat /\ size[n] \in Nat /\ begin[1] \in Nat
      BY <3>1, <2>2
    <3> HIDE DEF First
    <3> QED BY <2>4, <2>5, <3>2
  <2> QED BY <2>5, <2>9, <2>10
<1> QED BY <1>1, <1>2

-----------------------------------------------------------------------------
(* Sender                                                                  *)

LinuxCalls == {"none", "sendBlocks", "sendBlock"}

(* The number of bytes that the call has handed over.                      *)
Taken ==
  IF op = "sendBlock" THEN pDat
  ELSE IF pc = "advance" THEN First + remainingOffset
  ELSE First

(* The bytes of a running call that are taken are the first ones, and the  *)
(* others are those that pDat or the blocks still describe.                *)
SenderInv ==
  /\ op \in LinuxCalls /\ TypeOK
  /\ op = "none" => pc = "idle"
  /\ op = "sendBlocks" => InLine
  /\ op = "sendBlock" => pc # "advance" /\ total <= MaxSize
  /\ pc \in {"send", "advance", "wait"} => wire = Bytes(0, Taken) /\ remaining = total - Taken
  /\ pc = "advance" => remaining > 0
  /\ op # "none" /\ pc = "idle" /\ ret > 0 => ret = total /\ wire = Bytes(0, total)

Increasing(w) == \A i, j \in 1..Len(w) : i < j => w[i] < w[j]

(* Of the first n bytes of the call, w are sent: all of them, or those     *)
(* that no hidden error has skipped.                                       *)
Sent(w, n, skipped) ==
  /\ n \in Nat
  /\ w \in Seq(1..n) /\ Increasing(w)
  /\ ~skipped => w = Bytes(0, n)

(* What the answer r of a call says of the bytes it has sent.              *)
Told(r) ==
  \/ r = total /\ Len(wire) = total
  \/ r = -1 /\ Len(wire) < total

WinInv ==
  /\ op \in WinCalls \cup {"none"}
  /\ pc \in {"idle", "WSASend", "walk", "sendBlock", "select"}
  /\ ArrayOK
  /\ remaining \in Nat /\ remainingOffset \in 0..total
  /\ error \in {"none", "hidden", "code"}
  /\ op = "none" => pc = "idle"
  /\ error = "code" => pc = "idle" /\ wire = <<>>
  /\ pc \in {"WSASend", "walk"} => op = "sendBlocksWin"
  /\ op = "sendBlocksWin" => InLine
  /\ pc = "WSASend" => First = 0 /\ wire = <<>>
  /\ pc = "walk" => First <= remainingOffset /\ Sent(wire, remainingOffset, error = "hidden")
  /\ pc \in {"sendBlock", "select"} =>
       /\ Sent(wire, pDat, error = "hidden") /\ remaining > 0
       /\ op = "sendBlockWin" => pDat + remaining = total
       /\ op = "sendBlocksWin" => blockCount > 0 /\ pDat + remaining = blockSum(pBlockPos)
  /\ pc = "idle" =>
       /\ wire \in Seq(Nat) /\ Increasing(wire)
       /\ error # "hidden" => wire = Bytes(0, Len(wire))
       /\ op \in WinCalls /\ error = "none" => Told(ret)

LEMMA BytesAppend ==
  ASSUME NEW n \in Nat, NEW k \in Nat
  PROVE  Bytes(0, n) \o Bytes(n, k) = Bytes(0, n + k)
<1>1. 0 + n = n
  OBVIOUS
<1> QED BY <1>1, BytesConcat

(* What the invariant says of the running call.                            *)
LEMMA SenderInvFacts ==
  ASSUME SenderInv
  PROVE  /\ ArrayOK /\ InLine => First \in 0..total
         /\ total \in Nat /\ total <= MaxLength /\ pDat \in Nat
         /\ op = "sendBlocks" => First \in 0..total
         /\ ArrayOK
<1>1. ArrayOK /\ total \in Nat /\ total <= MaxLength /\ pDat \in Nat
  BY Bounds DEF SenderInv, TypeOK, LinuxCalls, ArrayOK
<1> QED BY <1>1, FirstFacts DEF SenderInv

(* The parts of the type invariant.                                        *)
Numbers ==
  /\ room \in 0..SendBuffer
  /\ pDat \in 0..MaxSize
  /\ remaining \in 0..total
  /\ remainingOffset \in 0..total
  /\ ret \in -1..total
  /\ calls \in 0..MaxCalls

LEMMA TypeParts ==
  op \in LinuxCalls =>
    (TypeOK <=> /\ Numbers /\ ArrayOK /\ more \in BOOLEAN
                /\ conn \in {"open", "broken"}
                /\ pc \in {"idle", "send", "advance", "wait", "killed"})
BY Zenon DEF TypeOK, Numbers, ArrayOK, LinuxCalls

LEMMA SenderInvInit == Init => SenderInv
<1> SUFFICES ASSUME Init PROVE SenderInv
  OBVIOUS
<1>1. blocks \in Seq(Block) /\ Len(blocks) = 0
  BY DEF Init
<1>2. more \in BOOLEAN
  BY DEF Init
<1>3. Numbers /\ ArrayOK
  BY <1>1, Bounds, SenderAssumption DEF Init, Numbers, ArrayOK
<1>4. TypeOK
  BY <1>2, <1>3, TypeParts DEF Init, LinuxCalls
<1> QED BY <1>4 DEF Init, SenderInv, LinuxCalls

LEMMA SenderParts ==
  ASSUME SenderInv
  PROVE  /\ Numbers /\ ArrayOK /\ more \in BOOLEAN
         /\ conn \in {"open", "broken"}
         /\ pc \in {"idle", "send", "advance", "wait", "killed"}
BY TypeParts DEF SenderInv

LEMMA SendBlocksInv ==
  ASSUME SenderInv, NEW sizes \in BoundedSeq(0..MaxSize, MaxBlocks), NEW m \in BOOLEAN,
         sendBlocks(sizes, m)
  PROVE  SenderInv'
<1>1. sizes \in Sizes
  BY BoundedSizes
<1> DEFINE N == Len(sizes)
<1>2. /\ total' \in 0..MaxLength /\ total' = TotalLength(sizes) /\ remaining' = total'
      /\ blocks' \in Seq(Block) /\ Len(blocks') = N /\ N \in Nat
      /\ pBlockPos' = 1 /\ blockCount' = N /\ remainingOffset' = 0
      /\ ret' = 0 /\ wire' = <<>> /\ op' = "sendBlocks" /\ pc' = "send"
  BY <1>1, LayoutInLine DEF sendBlocks, Begin
<1>3. TypeOK'
  <2>1. /\ room' = room /\ pDat' = pDat /\ calls' = calls + 1 /\ calls < MaxCalls
        /\ MaxCalls \in Nat
    BY SenderAssumption DEF sendBlocks, Begin
  <2>2. Numbers'
    BY <1>2, <2>1, SenderParts, Bounds DEF Numbers
  <2>3. ArrayOK'
    BY <1>2 DEF ArrayOK
  <2>4. more' \in BOOLEAN /\ conn' \in {"open", "broken"}
    BY SenderParts DEF sendBlocks, Begin
  <2> QED BY <1>2, <2>2, <2>3, <2>4, Zenon DEF TypeOK, Numbers, ArrayOK, LinuxCalls
<1>4. InLine'
  BY <1>1, <1>2, LayoutInLine DEF InLine, sendBlocks
<1>5. First' = 0
  <2>1. CASE N = 0
    BY <2>1, <1>1, <1>2, LayoutInLine DEF First
  <2>2. CASE N > 0
    <3>1. sizes # <<>>
      BY <2>2
    <3> QED BY <2>2, <3>1, <1>1, <1>2, LayoutInLine DEF First, sendBlocks
  <2> QED BY <2>1, <2>2, <1>2
<1>6. Bytes(0, 0) = <<>>
  BY DEF Bytes
<1>7. Taken' = 0 /\ total' - 0 = total'
  BY <1>2, <1>5 DEF Taken
<1> QED BY <1>2, <1>3, <1>4, <1>6, <1>7 DEF SenderInv, LinuxCalls

LEMMA SendBlockInv ==
  ASSUME SenderInv, NEW size \in 0..MaxSize, NEW m \in BOOLEAN, sendBlock(size, m)
  PROVE  SenderInv'
<1>1. /\ total' = size /\ remaining' = size /\ remainingOffset' = 0 /\ pDat' = 0
      /\ ret' = 0 /\ wire' = <<>> /\ op' = "sendBlock" /\ pc' \in {"send", "idle"}
  BY DEF sendBlock, Begin
<1>2. TypeOK'
  <2>1. Numbers'
    BY <1>1, SenderParts, Bounds, SenderAssumption DEF Numbers, sendBlock, Begin
  <2>2. ArrayOK'
    BY <1>1, SenderParts, Bounds DEF ArrayOK, sendBlock, array
  <2>3. more' \in BOOLEAN /\ conn' \in {"open", "broken"}
    BY SenderParts DEF sendBlock, Begin
  <2> QED BY <1>1, <2>1, <2>2, <2>3, Zenon DEF TypeOK, Numbers, ArrayOK, LinuxCalls
<1>3. Taken' = 0 /\ total' - 0 = total' /\ total' <= MaxSize
  BY <1>1, Bounds DEF Taken
<1>4. Bytes(0, 0) = <<>>
  BY DEF Bytes
<1> QED BY <1>1, <1>2, <1>3, <1>4 DEF SenderInv, LinuxCalls

LEMMA SendMsgInv ==
  ASSUME SenderInv, NEW k \in 1..remaining, SendMsg(k)
  PROVE  SenderInv'
<1>1. /\ ArrayOK /\ InLine /\ First \in 0..total /\ total \in Nat
      /\ op = "sendBlocks" /\ pc = "send"
      /\ wire = Bytes(0, First) /\ remaining = total - First
      /\ k \in 1..room
  BY SenderInvFacts DEF SenderInv, SendMsg, Taken, Least, TypeOK, LinuxCalls
<1>2. SubSeq(Gather, 1, k) = Bytes(First, k)
  <2>1. k \in 0..(total - First) /\ total - First \in Nat /\ First \in Nat
    BY <1>1
  <2> QED BY <1>1, <2>1, Gathered, BytesSubSeq
<1>3. wire' = Bytes(0, First + k)
  <2>1. First \in Nat /\ k \in Nat
    BY <1>1
  <2>2. Bytes(0, First) \o Bytes(First, k) = Bytes(0, First + k)
    BY <2>1, BytesAppend
  <2>3. wire' = wire \o SubSeq(Gather, 1, k)
    BY DEF SendMsg
  <2> QED BY <1>1, <1>2, <2>2, <2>3
<1>4. First' = First /\ InLine'
  BY <1>1 DEF SendMsg, First, InLine, array
<1>5. /\ remaining' = remaining - k /\ remainingOffset' = k /\ total' = total /\ op' = op
      /\ \/ remaining = k /\ pc' = "idle" /\ ret' = total
         \/ remaining # k /\ pc' = "advance" /\ ret' = ret
  BY DEF SendMsg, Return
<1>6. TypeOK'
  <2>1. Numbers'
    <3>1. room' = room - k /\ pDat' = pDat /\ calls' = calls
      BY DEF SendMsg
    <3>2. room' \in 0..SendBuffer
      BY <1>1, <3>1, SenderParts, SenderAssumption DEF Numbers
    <3>3. remaining' \in 0..total' /\ remainingOffset' \in 0..total' /\ ret' \in -1..total'
      BY <1>1, <1>5, SenderParts DEF Numbers
    <3> QED BY <3>1, <3>2, <3>3, SenderParts DEF Numbers
  <2>2. ArrayOK'
    BY <1>1, <1>5 DEF ArrayOK, SendMsg, array
  <2>3. more' \in BOOLEAN /\ conn' \in {"open", "broken"}
    BY SenderParts DEF SendMsg
  <2> QED BY <1>1, <1>5, <2>1, <2>2, <2>3, Zenon DEF TypeOK, Numbers, ArrayOK, LinuxCalls
<1>7. CASE remaining = k
  <2>1. First + k = total
    BY <1>1, <1>7
  <2> QED BY <2>1, <1>1, <1>3, <1>4, <1>5, <1>6, <1>7 DEF SenderInv
<1>8. CASE remaining # k
  <2>1. Taken' = First + k /\ remaining' = total - (First + k) /\ remaining' > 0
    BY <1>1, <1>4, <1>5, <1>8 DEF Taken
  <2> QED BY <2>1, <1>1, <1>3, <1>4, <1>5, <1>6, <1>8 DEF SenderInv
<1> QED BY <1>7, <1>8

(* Steps that send nothing and leave the blocks alone.                     *)
LEMMA NothingSentInv ==
  ASSUME SenderInv,
         UNCHANGED <<wire, op, more, array, pDat, total, remaining, remainingOffset, calls>>,
         room' \in 0..SendBuffer, conn' \in {"open", "broken"},
         \/ pc' = pc /\ ret' = ret
         \/ pc \in {"send", "wait"} /\ pc' \in {"send", "wait", "killed"} /\ ret' = ret
         \/ pc' = "idle" /\ ret' \in {-1, 0}
  PROVE  SenderInv'
<1>1. /\ total \in Nat /\ op' = op
      /\ blocks' = blocks /\ pBlockPos' = pBlockPos /\ blockCount' = blockCount
      /\ total' = total /\ wire' = wire /\ remaining' = remaining
  BY SenderInvFacts DEF array
<1>2. TypeOK'
  <2>1. Numbers'
    BY <1>1, SenderParts DEF Numbers
  <2>2. ArrayOK'
    BY <1>1, SenderParts DEF ArrayOK
  <2>3. more' \in BOOLEAN
    BY SenderParts
  <2>4. pc' \in {"idle", "send", "advance", "wait", "killed"}
    BY SenderParts
  <2> QED BY <2>1, <2>2, <2>3, <2>4, Zenon DEF TypeOK, Numbers, ArrayOK, LinuxCalls
<1>3. InLine <=> InLine'
  BY <1>1 DEF InLine
<1>4. First' = First
  BY <1>1 DEF First
<1>5. pc' \in {"send", "advance", "wait"} => Taken' = Taken /\ pc \in {"send", "advance", "wait"}
  BY <1>1, <1>4 DEF Taken
<1>6. pc' \in {"send", "advance", "wait"} =>
        wire' = Bytes(0, Taken') /\ remaining' = total' - Taken'
  BY <1>1, <1>5 DEF SenderInv
<1>7. pc' = "advance" => pc = "advance"
  OBVIOUS
<1>8. pc' = "idle" /\ ret' > 0 => pc = "idle" /\ ret' = ret
  OBVIOUS
<1> QED BY <1>1, <1>2, <1>3, <1>6, <1>7, <1>8 DEF SenderInv

LEMMA SendMsgAgainInv ==
  ASSUME SenderInv, SendMsgAgain
  PROVE  SenderInv'
<1>1. /\ ArrayOK /\ InLine /\ First \in 0..total /\ total \in Nat
      /\ op = "sendBlocks" /\ pc = "send" /\ remaining > 0
      /\ wire = Bytes(0, First) /\ remaining = total - First
  BY SenderInvFacts DEF SenderInv, SendMsgAgain, Taken
<1>2. /\ op' = op /\ blocks' = blocks /\ pBlockPos' = pBlockPos /\ blockCount' = blockCount
      /\ total' = total /\ wire' = wire /\ remaining' = remaining
      /\ pc' = "advance" /\ remainingOffset' = 0
      /\ room' = room /\ conn' = conn /\ pDat' = pDat /\ calls' = calls /\ ret' = ret
  BY DEF SendMsgAgain, array, kernel
<1>3. TypeOK'
  <2>1. Numbers'
    BY <1>1, <1>2, SenderParts DEF Numbers
  <2>2. ArrayOK'
    BY <1>2, SenderParts DEF ArrayOK
  <2>3. more' \in BOOLEAN
    BY SenderParts DEF SendMsgAgain
  <2>4. conn' \in {"open", "broken"}
    BY <1>2, SenderParts
  <2> QED BY <1>2, <2>1, <2>2, <2>3, <2>4, Zenon DEF TypeOK, Numbers, ArrayOK, LinuxCalls
<1>4. InLine'
  BY <1>1, <1>2 DEF InLine
<1>5. First' = First
  BY <1>2 DEF First
<1>6. Taken' = First
  BY <1>1, <1>2, <1>5 DEF Taken
<1> QED BY <1>1, <1>2, <1>3, <1>4, <1>6 DEF SenderInv, LinuxCalls

LEMMA SkipBlockInv ==
  ASSUME SenderInv, SkipBlock
  PROVE  SenderInv'
<1>1. /\ ArrayOK /\ InLine /\ First \in 0..total /\ total \in Nat
      /\ op = "sendBlocks" /\ pc = "advance" /\ remaining > 0
      /\ wire = Bytes(0, First + remainingOffset)
      /\ remaining = total - (First + remainingOffset) /\ remainingOffset \in Nat
  BY SenderInvFacts, SenderParts DEF SenderInv, SkipBlock, Taken, LinuxCalls, Numbers
<1> DEFINE block == blocks[pBlockPos]
<1>2. /\ op' = op /\ blocks' = blocks /\ pBlockPos' = pBlockPos + 1
      /\ blockCount' = blockCount - 1
      /\ total' = total /\ wire' = wire /\ remaining' = remaining
      /\ pc' = pc /\ remainingOffset' = remainingOffset - block.size
      /\ remainingOffset >= block.size
      /\ room' = room /\ conn' = conn /\ pDat' = pDat /\ calls' = calls /\ ret' = ret
  BY DEF SkipBlock, kernel
<1>3. blockCount # 0
  BY <1>1 DEF First
<1>4. /\ blockCount > 0 /\ First = block.pData
      /\ pBlockPos \in 1..Len(blocks) /\ block.pData \in Nat /\ block.size \in Nat
  BY <1>1, <1>3, FirstFacts DEF First, ArrayOK
<1>5. First' = block.pData + block.size
  <2>1. pBlockPos \in pBlockPos..Len(blocks) /\ Len(blocks) \in Nat
    BY <1>4
  <2>2. block.pData + block.size = IF pBlockPos = Len(blocks) THEN total
                                   ELSE blocks[pBlockPos + 1].pData
    BY <2>1, <1>1 DEF InLine
  <2>3. blockCount' = 0 <=> pBlockPos = Len(blocks)
    BY <1>1, <1>2, <2>1 DEF ArrayOK
  <2> QED BY <1>2, <2>2, <2>3 DEF First
<1>6. Taken' = First + remainingOffset
  <2>1. Taken' = First' + remainingOffset'
    BY <1>1, <1>2 DEF Taken
  <2>2. (block.pData + block.size) + (remainingOffset - block.size)
          = block.pData + remainingOffset
    BY <1>1, <1>4
  <2> QED BY <1>2, <1>4, <1>5, <2>1, <2>2
<1>7. InLine'
  <2>1. \A i : i \in (pBlockPos + 1)..Len(blocks) => i \in pBlockPos..Len(blocks)
    BY <1>4
  <2> QED BY <1>1, <1>2, <2>1 DEF InLine
<1>8. TypeOK'
  <2>1. Numbers'
    <3>1. remainingOffset \in 0..total
      BY SenderParts DEF Numbers
    <3>2. remainingOffset - block.size \in 0..total
      BY <1>1, <1>2, <1>4, <3>1
    <3> QED BY <1>2, <3>2, SenderParts DEF Numbers
  <2>2. ArrayOK'
    <3>1. pBlockPos + 1 \in 1..(Len(blocks) + 1)
      BY <1>4
    <3>2. blockCount - 1 = Len(blocks) + 1 - (pBlockPos + 1)
      BY <1>1, <1>4 DEF ArrayOK
    <3> QED BY <1>1, <1>2, <3>1, <3>2 DEF ArrayOK
  <2>3. more' \in BOOLEAN
    BY SenderParts DEF SkipBlock
  <2>4. conn' \in {"open", "broken"}
    BY <1>2, SenderParts
  <2> QED BY <1>1, <1>2, <2>1, <2>2, <2>3, <2>4, Zenon DEF TypeOK, Numbers, ArrayOK, LinuxCalls
<1> QED BY <1>1, <1>2, <1>6, <1>7, <1>8 DEF SenderInv, LinuxCalls

LEMMA CutBlockInv ==
  ASSUME SenderInv, CutBlock
  PROVE  SenderInv'
<1>1. /\ ArrayOK /\ InLine /\ First \in 0..total /\ total \in 0..MaxLength
      /\ op = "sendBlocks" /\ pc = "advance" /\ remaining > 0
      /\ wire = Bytes(0, First + remainingOffset)
      /\ remaining = total - (First + remainingOffset) /\ remainingOffset \in Nat
  BY SenderInvFacts, SenderParts DEF SenderInv, CutBlock, Taken, LinuxCalls, Numbers, ArrayOK
<1> DEFINE block == blocks[pBlockPos]
           cut   == [pData |-> block.pData + remainingOffset,
                     size  |-> block.size - remainingOffset]
<1>2. /\ op' = op /\ blocks' = [blocks EXCEPT ![pBlockPos] = cut] /\ pBlockPos' = pBlockPos
      /\ blockCount' = blockCount
      /\ total' = total /\ wire' = wire /\ remaining' = remaining
      /\ pc' = "wait" /\ remainingOffset' = remainingOffset
      /\ remainingOffset < block.size
      /\ room' = room /\ conn' = conn /\ pDat' = pDat /\ calls' = calls /\ ret' = ret
  BY DEF CutBlock, kernel
<1>3. blockCount # 0
  BY <1>1 DEF First
<1>4. /\ blockCount > 0 /\ First = block.pData /\ block \in Block
      /\ pBlockPos \in 1..Len(blocks) /\ block.pData \in Nat /\ block.size \in Nat
  BY <1>1, <1>3, FirstFacts DEF First, ArrayOK
<1>5. block.pData + block.size <= total
  BY <1>1, <1>4 DEF InLine
<1>6. cut \in Block
  <2>1. block.size \in 0..MaxSize /\ remainingOffset \in Nat /\ remainingOffset < block.size
    BY <1>1, <1>2, <1>4 DEF Block
  <2> HIDE DEF block
  <2>2. block.pData + remainingOffset \in 0..MaxLength
    BY <1>1, <1>2, <1>4, <1>5, Bounds
  <2>3. block.size - remainingOffset \in 0..MaxSize
    BY <2>1, Bounds
  <2> QED BY <2>2, <2>3 DEF Block
<1>7. /\ blocks' \in Seq(Block) /\ Len(blocks') = Len(blocks)
      /\ \A i \in 1..Len(blocks) : blocks'[i] = IF i = pBlockPos THEN cut ELSE blocks[i]
  BY <1>1, <1>2, <1>4, <1>6, ExceptSeq DEF ArrayOK
<1>8. First' = First + remainingOffset
  BY <1>2, <1>3, <1>4, <1>7 DEF First
<1>9. Taken' = First + remainingOffset
  BY <1>1, <1>2, <1>8 DEF Taken
<1> HIDE DEF cut, block
<1>10. InLine'
  <2> SUFFICES ASSUME NEW i \in pBlockPos..Len(blocks)
               PROVE  /\ blocks'[i].pData + blocks'[i].size <= total
                      /\ blocks'[i].pData + blocks'[i].size
                           = IF i = Len(blocks) THEN total ELSE blocks'[i + 1].pData
    <3>1. total' = total /\ pBlockPos' = pBlockPos /\ Len(blocks') = Len(blocks)
      BY <1>2, <1>7
    <3> QED BY <3>1 DEF InLine
  <2>1. /\ blocks[i].pData + blocks[i].size <= total
        /\ blocks[i].pData + blocks[i].size
             = IF i = Len(blocks) THEN total ELSE blocks[i + 1].pData
    BY <1>1 DEF InLine
  <2>2. /\ i \in 1..Len(blocks) /\ i + 1 # pBlockPos
        /\ i # Len(blocks) => i + 1 \in 1..Len(blocks)
    BY <1>4
  <2>3. ASSUME i # Len(blocks) PROVE blocks'[i + 1] = blocks[i + 1]
    <3> DEFINE j == i + 1
    <3>1. j \in 1..Len(blocks) /\ j # pBlockPos
      BY <2>2, <2>3
    <3> HIDE DEF j
    <3>2. blocks'[j] = blocks[j]
      BY <1>7, <3>1
    <3> QED BY <3>2 DEF j
  <2>4. blocks'[i].pData + blocks'[i].size = blocks[i].pData + blocks[i].size
    <3>1. CASE i = pBlockPos
      <4>1. cut.pData + cut.size = block.pData + block.size
        <5>1. remainingOffset \in Nat
          BY <1>1
        <5>2. block.pData \in Nat /\ block.size \in Nat
          BY <1>4
        <5>3. cut.pData = block.pData + remainingOffset /\ cut.size = block.size - remainingOffset
          BY DEF cut
        <5> QED BY <5>1, <5>2, <5>3
      <4>2. blocks'[i] = cut
        BY <3>1, <1>7, <2>2
      <4> QED BY <3>1, <4>1, <4>2 DEF block
    <3>2. CASE i # pBlockPos
      <4>1. blocks'[i] = blocks[i]
        BY <3>2, <1>7, <2>2
      <4> QED BY <4>1
    <3> QED BY <3>1, <3>2
  <2> QED BY <2>1, <2>3, <2>4
<1>11. TypeOK'
  <2>1. Numbers'
    BY <1>1, <1>2, SenderParts DEF Numbers
  <2>2. ArrayOK'
    BY <1>1, <1>2, <1>7 DEF ArrayOK
  <2>3. more' \in BOOLEAN
    BY SenderParts DEF CutBlock
  <2>4. conn' \in {"open", "broken"}
    BY <1>2, SenderParts
  <2> QED BY <1>1, <1>2, <2>1, <2>2, <2>3, <2>4, Zenon DEF TypeOK, Numbers, ArrayOK, LinuxCalls
<1> QED BY <1>1, <1>2, <1>9, <1>10, <1>11 DEF SenderInv, LinuxCalls

LEMMA SendInv ==
  ASSUME SenderInv, NEW k \in 1..remaining, Send(k)
  PROVE  SenderInv'
<1>1. /\ op = "sendBlock" /\ pc = "send" /\ total \in Nat /\ total <= MaxSize /\ pDat \in Nat
      /\ wire = Bytes(0, pDat) /\ remaining = total - pDat
      /\ k \in 1..room
  BY SenderInvFacts, SenderParts DEF SenderInv, Send, Taken, Least, Numbers
<1>2. wire' = Bytes(0, pDat + k)
  <2>1. k \in Nat
    OBVIOUS
  <2>2. wire' = Bytes(0, pDat) \o Bytes(pDat, k)
    BY <1>1 DEF Send
  <2> QED BY <1>1, <2>1, <2>2, BytesAppend
<1>3. /\ op' = op /\ blocks' = blocks /\ pBlockPos' = pBlockPos /\ blockCount' = blockCount
      /\ total' = total /\ remaining' = remaining - k /\ remainingOffset' = remainingOffset
      /\ pDat' = pDat + k
      /\ room' = room - k /\ conn' = conn /\ calls' = calls
      /\ \/ remaining = k /\ pc' = "idle" /\ ret' = total
         \/ remaining # k /\ pc' = "send" /\ ret' = ret
  BY <1>1 DEF Send, Return, array
<1>4. TypeOK'
  <2>1. Numbers'
    <3>1. room' \in 0..SendBuffer
      BY <1>1, <1>3, SenderParts, SenderAssumption DEF Numbers
    <3>2. remaining' \in 0..total' /\ ret' \in -1..total'
      BY <1>1, <1>3, SenderParts DEF Numbers
    <3>3. pDat' \in 0..MaxSize
      BY <1>1, <1>3, SenderAssumption
    <3> QED BY <1>3, <3>1, <3>2, <3>3, SenderParts DEF Numbers
  <2>2. ArrayOK'
    BY <1>3, SenderParts DEF ArrayOK
  <2>3. more' \in BOOLEAN
    BY SenderParts DEF Send
  <2>4. conn' \in {"open", "broken"}
    BY <1>3, SenderParts
  <2> QED BY <1>1, <1>3, <2>1, <2>2, <2>3, <2>4, Zenon DEF TypeOK, Numbers, ArrayOK, LinuxCalls
<1>5. Taken' = pDat + k /\ remaining' = total - (pDat + k)
  BY <1>1, <1>3 DEF Taken
<1>6. remaining = k => pDat + k = total
  BY <1>1
<1> QED BY <1>1, <1>2, <1>3, <1>4, <1>5, <1>6 DEF SenderInv, LinuxCalls

LEMMA QuietStepInv ==
  ASSUME SenderInv,
         \/ SendMsgEmpty \/ SendMsgFails \/ SendAgain \/ SendFails \/ Writable \/ WaitFails
         \/ Drain \/ Break
  PROVE  SenderInv'
<1>1. room \in 0..SendBuffer /\ SendBuffer \in Nat /\ conn \in {"open", "broken"}
  BY SenderParts, SenderAssumption DEF Numbers
<1>2. CASE SendMsgEmpty \/ SendFails
  BY <1>1, <1>2, NothingSentInv DEF SendMsgEmpty, SendFails, Return, kernel
<1>3. CASE SendMsgFails
  BY <1>1, <1>3, NothingSentInv DEF SendMsgFails, Return, kernel
<1>4. CASE WaitFails
  BY <1>1, <1>4, NothingSentInv DEF WaitFails, Return, kernel
<1>5. CASE SendAgain
  BY <1>1, <1>5, NothingSentInv DEF SendAgain, kernel
<1>6. CASE Writable
  BY <1>1, <1>6, NothingSentInv DEF Writable, kernel
<1>7. CASE Drain
  <2>1. room + 1 \in 0..SendBuffer
    BY <1>1, <1>7 DEF Drain
  <2> QED BY <1>1, <1>7, <2>1, NothingSentInv DEF Drain
<1>8. CASE Break
  BY <1>1, <1>8, NothingSentInv DEF Break
<1> QED BY <1>2, <1>3, <1>4, <1>5, <1>6, <1>7, <1>8

LEMMA SenderInvNext == SenderInv /\ [Next]_vars => SenderInv'
<1> SUFFICES ASSUME SenderInv, [Next]_vars PROVE SenderInv'
  OBVIOUS
<1>1. CASE \E sizes \in BoundedSeq(0..MaxSize, MaxBlocks), m \in BOOLEAN : sendBlocks(sizes, m)
  BY <1>1, SendBlocksInv
<1>2. CASE \E size \in 0..MaxSize, m \in BOOLEAN : sendBlock(size, m)
  BY <1>2, SendBlockInv
<1>3. CASE \E k \in 1..remaining : SendMsg(k) \/ Send(k)
  BY <1>3, SendMsgInv, SendInv
<1>4. CASE SendMsgAgain
  BY <1>4, SendMsgAgainInv
<1>5. CASE SkipBlock
  BY <1>5, SkipBlockInv
<1>6. CASE CutBlock
  BY <1>6, CutBlockInv
<1>7. CASE \/ SendMsgEmpty \/ SendMsgFails \/ SendAgain \/ SendFails \/ Writable \/ WaitFails
           \/ Drain \/ Break
  BY <1>7, QuietStepInv
<1>8. CASE UNCHANGED vars
  <2>1. room \in 0..SendBuffer /\ conn \in {"open", "broken"}
    BY SenderParts DEF Numbers
  <2> QED BY <1>8, <2>1, NothingSentInv DEF vars, kernel
<1> QED BY <1>1, <1>2, <1>3, <1>4, <1>5, <1>6, <1>7, <1>8 DEF Next, SendStep

LEMMA SenderInvAlways == Spec => []SenderInv
BY SenderInvInit, SenderInvNext, PTL DEF Spec

(* The type invariant of Sender: every position, offset and rest stays     *)
(* within the call, and pBlockPos and blockCount move together.            *)
THEOREM TypeCorrect == Spec => []TypeOK
<1>1. SenderInv => TypeOK
  BY DEF SenderInv
<1> QED BY <1>1, SenderInvAlways, PTL

(* sendBlocks() and sendBlock() on Linux: between two system calls, what   *)
(* was taken and what is left are together the bytes of the call.          *)
THEOREM NothingSkippedOrRepeatedAlways == Spec => []NothingSkippedOrRepeated
<1>1. SenderInv => NothingSkippedOrRepeated
  <2> SUFFICES ASSUME SenderInv, pc \in {"send", "wait"}
               PROVE  wire \o (IF op = "sendBlocks" THEN Gather ELSE Bytes(pDat, remaining))
                        = Bytes(0, total)
    BY DEF NothingSkippedOrRepeated
  <2>1. /\ ArrayOK /\ total \in Nat /\ pDat \in Nat /\ op # "none"
        /\ wire = Bytes(0, Taken) /\ remaining = total - Taken /\ remaining \in Nat
    BY SenderInvFacts, SenderParts DEF SenderInv, Numbers
  <2>2. CASE op = "sendBlocks"
    <3>1. First \in 0..total /\ InLine /\ Taken = First
      BY <2>2, SenderInvFacts DEF SenderInv, Taken
    <3>2. Gather = Bytes(First, total - First)
      BY <2>1, <3>1, Gathered
    <3>3. First \in Nat /\ total - First \in Nat /\ First + (total - First) = total
      BY <2>1, <3>1
    <3> QED BY <2>1, <2>2, <3>1, <3>2, <3>3, BytesAppend
  <2>3. CASE op # "sendBlocks"
    <3>1. Taken = pDat /\ pDat + remaining = total
      BY <2>1, <2>3 DEF SenderInv, LinuxCalls, Taken
    <3> QED BY <2>1, <2>3, <3>1, BytesAppend
  <2> QED BY <2>2, <2>3
<1> QED BY <1>1, SenderInvAlways, PTL

(* sendBlocks() and sendBlock() on Linux: a positive result is the size,   *)
(* and everything was sent, in order.                                      *)
THEOREM SentEverythingAlways == Spec => []SentEverything
<1>1. SenderInv => SentEverything
  BY DEF SenderInv, SentEverything
<1> QED BY <1>1, SenderInvAlways, PTL

-----------------------------------------------------------------------------
(* SenderWin                                                               *)

(* Bytes sent behind those that were sent before.                          *)
LEMMA SentMore ==
  ASSUME NEW v, NEW n \in Nat, NEW k \in Nat, NEW skipped, Sent(v, n, skipped)
  PROVE  Sent(v \o Bytes(n, k), n + k, skipped)
<1> DEFINE w == v \o Bytes(n, k)
           L == Len(v)
<1>1. /\ v \in Seq(1..n) /\ Increasing(v) /\ L \in Nat
      /\ v \in Seq(Nat) /\ \A i \in 1..L : v[i] \in 1..n
  <2>1. v \in Seq(1..n) /\ Increasing(v)
    BY DEF Sent
  <2>2. \A i \in 1..L : v[i] \in 1..n
    BY <2>1, ElementOfSeq
  <2>3. v \in Seq(Nat)
    BY <2>1, SeqMonotonic
  <2> QED BY <2>1, <2>2, <2>3
<1>2. /\ Bytes(n, k) \in Seq(Nat) /\ Len(Bytes(n, k)) = k
      /\ \A i \in 1..k : Bytes(n, k)[i] = n + i
  BY BytesFacts
<1>3. /\ w \in Seq(Nat) /\ Len(w) = L + k
      /\ \A i \in 1..(L + k) : w[i] = IF i <= L THEN v[i] ELSE Bytes(n, k)[i - L]
  <2> DEFINE t == Bytes(n, k)
  <2>1. t \in Seq(Nat) /\ Len(t) = k /\ v \in Seq(Nat)
    BY <1>1, <1>2
  <2> HIDE DEF t
  <2>2. /\ v \o t \in Seq(Nat) /\ Len(v \o t) = Len(v) + Len(t)
        /\ \A i \in 1..(Len(v) + Len(t)) :
             (v \o t)[i] = IF i <= Len(v) THEN v[i] ELSE t[i - Len(v)]
    BY <2>1, ConcatProperties
  <2> QED BY <2>1, <2>2 DEF t
<1>4. \A i \in 1..(L + k) : /\ i <= L => w[i] = v[i] /\ i \in 1..L
                            /\ i > L => w[i] = n + (i - L) /\ i - L \in 1..k
  <2> SUFFICES ASSUME NEW i \in 1..(L + k)
               PROVE  /\ i <= L => w[i] = v[i] /\ i \in 1..L
                      /\ i > L => w[i] = n + (i - L) /\ i - L \in 1..k
    OBVIOUS
  <2>1. i > L => i - L \in 1..k
    BY <1>1
  <2>2. i > L => Bytes(n, k)[i - L] = n + (i - L)
    BY <1>2, <2>1
  <2> HIDE DEF w
  <2> QED BY <1>1, <1>3, <2>1, <2>2
<1> HIDE DEF w, L
<1>5. \A i \in 1..(L + k) : w[i] \in 1..(n + k)
  BY <1>1, <1>4
<1>6. w \in Seq(1..(n + k))
  <2> DEFINE N == L + k
  <2>1. N \in Nat /\ w \in [1..N -> Nat] /\ \A i \in 1..N : w[i] \in 1..(n + k)
    BY <1>1, <1>3, <1>5, LenProperties
  <2> HIDE DEF N
  <2>2. w \in [1..N -> 1..(n + k)]
    BY <2>1
  <2> QED BY <2>1, <2>2
<1>7. \A i, j \in 1..(L + k) : i < j => w[i] < w[j]
  <2> SUFFICES ASSUME NEW i \in 1..(L + k), NEW j \in 1..(L + k), i < j PROVE w[i] < w[j]
    OBVIOUS
  <2>1. CASE j <= L
    <3>1. i \in 1..L /\ j \in 1..L
      BY <2>1, <1>1
    <3>2. v[i] < v[j]
      BY <3>1, <1>1 DEF Increasing, L
    <3>3. w[i] = v[i] /\ w[j] = v[j]
      BY <2>1, <1>1, <1>4
    <3> QED BY <3>2, <3>3
  <2>2. CASE j > L /\ i <= L
    <3>1. w[i] \in 1..n /\ w[j] > n /\ w[j] \in Nat
      BY <2>2, <1>1, <1>4
    <3> QED BY <3>1
  <2>3. CASE i > L
    <3>1. w[i] = n + (i - L) /\ w[j] = n + (j - L)
      BY <2>3, <1>1, <1>4
    <3> QED BY <3>1, <1>1
  <2> QED BY <2>1, <2>2, <2>3, <1>1
<1>8. ~skipped => w = Bytes(0, n + k)
  BY BytesAppend DEF Sent, w
<1> QED BY <1>3, <1>6, <1>7, <1>8 DEF Sent, Increasing, w

(* Nothing was sent yet.                                                   *)
LEMMA NothingSentYet == \A skipped : Sent(<<>>, 0, skipped)
<1>1. <<>> = Bytes(0, 0)
  BY DEF Bytes
<1>2. <<>> \in Seq(1..0) /\ Len(<<>>) = 0
  BY EmptySeq
<1> QED BY <1>1, <1>2 DEF Sent, Increasing

(* What a call that ends has sent.                                         *)
LEMMA SentIdle ==
  ASSUME NEW w, NEW n, NEW skipped, Sent(w, n, skipped)
  PROVE  /\ w \in Seq(Nat) /\ Increasing(w)
         /\ ~skipped => w = Bytes(0, Len(w)) /\ Len(w) = n
<1>1. w \in Seq(Nat)
  BY SeqMonotonic DEF Sent
<1>2. ~skipped => Len(w) = n
  BY BytesFacts DEF Sent
<1> QED BY <1>1, <1>2 DEF Sent

(* After an error, the bytes sent are among any more that follow.          *)
LEMMA SentBefore ==
  ASSUME NEW w, NEW n, NEW skipped, NEW m \in Nat, Sent(w, n, skipped), n <= m
  PROVE  Sent(w, m, TRUE)
<1>1. w \in Seq(1..m)
  BY SeqMonotonic DEF Sent
<1> QED BY <1>1 DEF Sent

(* The blocks are one behind the other: where one ends the next begins.    *)
LEMMA BlockFacts ==
  ASSUME ArrayOK, InLine, blockCount > 0
  PROVE  /\ blockSum(pBlockPos) \in 0..total
         /\ First = blocks[pBlockPos].pData
         /\ blockSum(pBlockPos) = First + blocks[pBlockPos].size
         /\ First \in Nat /\ blocks[pBlockPos].size \in Nat
         /\ blockSum(pBlockPos) = IF blockCount = 1 THEN total ELSE blocks[pBlockPos + 1].pData
<1>1. /\ pBlockPos \in 1..Len(blocks)
      /\ blocks[pBlockPos].pData \in Nat /\ blocks[pBlockPos].size \in Nat
  BY FirstFacts
<1>2. pBlockPos \in pBlockPos..Len(blocks) /\ (pBlockPos = Len(blocks) <=> blockCount = 1)
  BY <1>1 DEF ArrayOK
<1>3. total \in Nat
  BY Bounds DEF ArrayOK
<1>4. /\ blockSum(pBlockPos) = blocks[pBlockPos].pData + blocks[pBlockPos].size
      /\ blockSum(pBlockPos) <= total
      /\ blockSum(pBlockPos) = IF pBlockPos = Len(blocks) THEN total
                               ELSE blocks[pBlockPos + 1].pData
  BY <1>2 DEF InLine, blockSum
<1>5. blockSum(pBlockPos) \in 0..total
  BY <1>1, <1>3, <1>4
<1>6. First = blocks[pBlockPos].pData
  BY DEF First
<1> QED BY <1>1, <1>2, <1>4, <1>5, <1>6

(* The next block, or the end.                                             *)
LEMMA NextBlockFacts ==
  ASSUME ArrayOK, InLine, blockCount > 0,
         pBlockPos' = pBlockPos + 1, blockCount' = blockCount - 1, UNCHANGED <<blocks, total>>
  PROVE  ArrayOK' /\ InLine' /\ First' = blockSum(pBlockPos)
<1>1. pBlockPos \in 1..Len(blocks) /\ blockCount \in Nat /\ Len(blocks) \in Nat
  BY FirstFacts DEF ArrayOK
<1>2. ArrayOK'
  <2>1. pBlockPos + 1 \in 1..(Len(blocks) + 1)
    BY <1>1
  <2>2. blockCount - 1 = Len(blocks) + 1 - (pBlockPos + 1)
    BY <1>1 DEF ArrayOK
  <2> QED BY <2>1, <2>2 DEF ArrayOK
<1>3. InLine'
  <2>1. \A i : i \in (pBlockPos + 1)..Len(blocks) => i \in pBlockPos..Len(blocks)
    BY <1>1
  <2> QED BY <2>1 DEF InLine
<1>4. First' = IF blockCount = 1 THEN total ELSE blocks[pBlockPos + 1].pData
  BY <1>1 DEF First
<1> QED BY <1>2, <1>3, <1>4, BlockFacts

LEMMA SameBlocks ==
  ASSUME UNCHANGED <<array, total>>
  PROVE  /\ ArrayOK <=> ArrayOK'
         /\ InLine <=> InLine'
         /\ First' = First /\ blockSum(pBlockPos)' = blockSum(pBlockPos) /\ blockCount' = blockCount
<1>1. blocks' = blocks /\ pBlockPos' = pBlockPos /\ blockCount' = blockCount /\ total' = total
  BY DEF array
<1>2. ArrayOK <=> ArrayOK'
  BY <1>1 DEF ArrayOK
<1>3. InLine <=> InLine'
  BY <1>1 DEF InLine
<1>4. First' = First
  BY <1>1 DEF First
<1>5. blockSum(pBlockPos)' = blockSum(pBlockPos)
  BY <1>1 DEF blockSum
<1> QED BY <1>1, <1>2, <1>3, <1>4, <1>5

LEMMA SentFirst == \A k \in Nat : \A skipped : Sent(Bytes(0, k), k, skipped)
<1> SUFFICES ASSUME NEW k \in Nat, NEW skipped PROVE Sent(Bytes(0, k), k, skipped)
  OBVIOUS
<1>1. Sent(<<>> \o Bytes(0, k), 0 + k, skipped)
  BY NothingSentYet, SentMore
<1>2. <<>> \o Bytes(0, k) = Bytes(0, k)
  BY BytesFacts, ConcatEmptySeq
<1> QED BY <1>1, <1>2

LEMMA WinInvInit == Init /\ error = "none" => WinInv
<1> SUFFICES ASSUME Init, error = "none" PROVE WinInv
  OBVIOUS
<1>1. ArrayOK /\ total = 0
  <2>1. blocks \in Seq(Block) /\ Len(blocks) = 0
    BY DEF Init
  <2> QED BY <2>1, Bounds DEF Init, ArrayOK
<1>2. wire \in Seq(Nat) /\ Increasing(wire) /\ wire = Bytes(0, Len(wire))
  BY NothingSentYet, SentIdle DEF Init, Sent
<1> QED BY <1>1, <1>2 DEF Init, WinInv, WinCalls

LEMMA SendBlocksWinInv ==
  ASSUME WinInv, NEW sizes \in BoundedSeq(0..MaxSize, MaxBlocks), NEW m \in BOOLEAN,
         sendBlocksWin(sizes, m)
  PROVE  WinInv'
<1>1. sizes \in Sizes
  BY BoundedSizes
<1> DEFINE N == Len(sizes)
<1>2. /\ total' \in 0..MaxLength /\ total' = TotalLength(sizes) /\ remaining' = total'
      /\ blocks' \in Seq(Block) /\ Len(blocks') = N /\ N \in Nat /\ N > 0
      /\ blocks'[1].pData = 0
      /\ pBlockPos' = 1 /\ blockCount' = N /\ remainingOffset' = 0
      /\ op' = "sendBlocksWin" /\ pc' = "WSASend" /\ wire' = <<>> /\ error' = "none"
  BY <1>1, LayoutInLine DEF sendBlocksWin, Begin
<1>4. ArrayOK'
  BY <1>2 DEF ArrayOK
<1>5. InLine'
  BY <1>1, <1>2, LayoutInLine DEF InLine, sendBlocksWin
<1>6. First' = 0
  BY <1>2 DEF First
<1>7. remaining' \in Nat /\ remainingOffset' \in 0..total'
  BY <1>2, Bounds
<1> QED BY <1>2, <1>4, <1>5, <1>6, <1>7 DEF WinInv, WinCalls

LEMMA SendBlockWinInv ==
  ASSUME WinInv, NEW size \in 0..MaxSize, NEW m \in BOOLEAN, sendBlockWin(size, m)
  PROVE  WinInv'
<1>1. /\ total' = size /\ remaining' = size /\ remainingOffset' = 0 /\ pDat' = 0
      /\ ret' = 0 /\ wire' = <<>> /\ op' = "sendBlockWin" /\ error' = "none"
      /\ pc' = IF size > 0 THEN "sendBlock" ELSE "idle"
      /\ blocks' = blocks /\ pBlockPos' = pBlockPos /\ blockCount' = blockCount
  BY DEF sendBlockWin, Begin, array
<1>2. ArrayOK'
  BY <1>1, Bounds DEF ArrayOK, WinInv
<1>3. Sent(wire', pDat', error' = "hidden")
  BY <1>1, NothingSentYet
<1>4. wire' \in Seq(Nat) /\ Increasing(wire') /\ wire' = Bytes(0, Len(wire'))
  BY <1>1, NothingSentYet, SentIdle DEF Sent
<1>5. pDat' + remaining' = total' /\ remaining' \in Nat /\ remainingOffset' \in 0..total'
  BY <1>1, Bounds
<1>6. IF size > 0 THEN pc' = "sendBlock" /\ remaining' > 0 ELSE pc' = "idle" /\ Told(ret)'
  BY <1>1, <1>5 DEF Told
<1> QED BY <1>1, <1>2, <1>3, <1>4, <1>5, <1>6 DEF WinInv, WinCalls

LEMMA WSASendInv ==
  ASSUME WinInv, NEW k \in 0..total, WSASend(k)
  PROVE  WinInv'
<1>1. /\ op = "sendBlocksWin" /\ ArrayOK /\ InLine /\ First = 0 /\ total \in Nat
      /\ remaining \in Nat /\ error \in {"none", "hidden"}
  BY Bounds DEF WSASend, WinInv, ArrayOK
<1>2. /\ wire' = Bytes(0, k) /\ remainingOffset' = k /\ remaining' = remaining
      /\ op' = op /\ total' = total /\ error' = error /\ UNCHANGED array
      /\ \/ k = total /\ pc' = "idle" /\ ret' = k
         \/ k # total /\ pc' = "walk"
  BY DEF WSASend, Return
<1>3. ArrayOK' /\ InLine' /\ First' = 0
  BY <1>1, <1>2, SameBlocks
<1>4. Sent(wire', k, error' = "hidden")
  BY <1>2, SentFirst
<1>5. /\ wire' \in Seq(Nat) /\ Increasing(wire')
      /\ error' # "hidden" => wire' = Bytes(0, Len(wire')) /\ Len(wire') = k
  BY <1>4, SentIdle
<1>6. k = total /\ error' = "none" => Told(ret)'
  BY <1>2, <1>5 DEF Told
<1> QED BY <1>1, <1>2, <1>3, <1>4, <1>5, <1>6 DEF WinInv, WinCalls

LEMMA WSASendFailsInv ==
  ASSUME WinInv, NEW code \in ErrorCodes, WSASendFails(code)
  PROVE  WinInv'
<1>1. /\ op = "sendBlocksWin" /\ ArrayOK /\ InLine
      /\ remaining \in Nat /\ remainingOffset \in 0..total
      /\ wire = <<>>
  BY DEF WSASendFails, WinInv
<1>2. /\ wire' = wire /\ remainingOffset' = remainingOffset /\ remaining' = remaining
      /\ op' = op /\ total' = total /\ UNCHANGED array
      /\ pc' = "idle" /\ error' = "code"
  BY DEF WSASendFails, Return, kernel
<1>3. ArrayOK' /\ InLine'
  BY <1>1, <1>2, SameBlocks
<1>4. wire' \in Seq(Nat) /\ Increasing(wire') /\ wire' = Bytes(0, Len(wire'))
  BY <1>1, <1>2, NothingSentYet, SentIdle DEF Sent
<1> QED BY <1>1, <1>2, <1>3, <1>4 DEF WinInv, WinCalls

LEMMA NextBlockInv ==
  ASSUME WinInv, NextBlock
  PROVE  WinInv'
<1>1. /\ op = "sendBlocksWin" /\ ArrayOK /\ InLine /\ blockCount > 0
      /\ remaining \in Nat /\ remainingOffset \in 0..total
      /\ Sent(wire, remainingOffset, error = "hidden")
      /\ remainingOffset >= blockSum(pBlockPos) /\ pc = "walk"
  BY DEF NextBlock, WinInv
<1>2. /\ wire' = wire /\ remainingOffset' = remainingOffset /\ remaining' = remaining
      /\ op' = op /\ total' = total /\ pc' = pc /\ error' = error
      /\ pBlockPos' = pBlockPos + 1 /\ blockCount' = blockCount - 1 /\ blocks' = blocks
  BY DEF NextBlock, kernel
<1>3. ArrayOK' /\ InLine' /\ First' = blockSum(pBlockPos)
  BY <1>1, <1>2, NextBlockFacts
<1>4. First' <= remainingOffset'
  BY <1>1, <1>2, <1>3
<1>5. Sent(wire', remainingOffset', error' = "hidden")
  BY <1>1, <1>2
<1> QED BY <1>1, <1>2, <1>3, <1>4, <1>5 DEF WinInv, WinCalls

LEMMA SendRestInv ==
  ASSUME WinInv, SendRest
  PROVE  WinInv'
<1>1. /\ op = "sendBlocksWin" /\ ArrayOK /\ InLine /\ blockCount > 0
      /\ remaining \in Nat /\ remainingOffset \in 0..total /\ total \in Nat
      /\ Sent(wire, remainingOffset, error = "hidden")
      /\ remainingOffset < blockSum(pBlockPos) /\ pc = "walk"
  BY Bounds DEF SendRest, WinInv, ArrayOK
<1>2. /\ wire' = wire /\ remainingOffset' = remainingOffset
      /\ remaining' = blockSum(pBlockPos) - remainingOffset /\ pDat' = Start
      /\ op' = op /\ total' = total /\ pc' = "sendBlock" /\ error' = error
      /\ UNCHANGED array
  BY DEF SendRest, kernel
<1>3. /\ ArrayOK' /\ InLine' /\ blockSum(pBlockPos)' = blockSum(pBlockPos)
      /\ blockCount' = blockCount
  BY <1>1, <1>2, SameBlocks
<1>4. Start = remainingOffset /\ remaining' \in Nat
      /\ remainingOffset + remaining' = blockSum(pBlockPos)
  <2>1. /\ blockSum(pBlockPos) \in Nat
        /\ blockSum(pBlockPos) = blocks[pBlockPos].pData + blocks[pBlockPos].size
        /\ blocks[pBlockPos].pData \in Nat /\ blocks[pBlockPos].size \in Nat
    BY <1>1, BlockFacts
  <2>2. Start = blocks[pBlockPos].pData
                + (blocks[pBlockPos].size - (blockSum(pBlockPos) - remainingOffset))
    BY DEF Start
  <2> HIDE DEF blockSum
  <2> QED BY <1>1, <1>2, <2>1, <2>2
<1>5. Sent(wire', pDat', error' = "hidden")
  BY <1>1, <1>2, <1>4
<1> QED BY <1>1, <1>2, <1>3, <1>4, <1>5 DEF WinInv, WinCalls

LEMMA LastBlockInv ==
  ASSUME WinInv, LastBlock
  PROVE  WinInv'
<1>1. /\ op = "sendBlocksWin" /\ ArrayOK /\ InLine
      /\ remaining \in Nat /\ remainingOffset = total /\ error \in {"none", "hidden"}
      /\ Sent(wire, remainingOffset, error = "hidden")
  BY Bounds DEF LastBlock, WinInv, First, ArrayOK
<1>2. /\ wire' = wire /\ remainingOffset' = remainingOffset /\ remaining' = remaining
      /\ op' = op /\ total' = total /\ pc' = "idle" /\ error' = error
      /\ ret' = remainingOffset /\ UNCHANGED array
  BY DEF LastBlock, Return, kernel
<1>3. ArrayOK' /\ InLine'
  BY <1>1, <1>2, SameBlocks
<1>4. Sent(wire', remainingOffset, error' = "hidden")
  BY <1>1, <1>2
<1>5. /\ wire' \in Seq(Nat) /\ Increasing(wire')
      /\ error' # "hidden" => wire' = Bytes(0, Len(wire')) /\ Len(wire') = remainingOffset
  BY <1>4, SentIdle
<1>6. error' = "none" => Told(ret)'
  BY <1>1, <1>2, <1>5 DEF Told
<1>7. remainingOffset' \in 0..total'
  BY <1>1, <1>2, Bounds DEF ArrayOK
<1> QED BY <1>1, <1>2, <1>3, <1>5, <1>6, <1>7 DEF WinInv, WinCalls

(* What sendBlock() starts from and leaves behind.                         *)
LEMMA SendingFacts ==
  ASSUME WinInv, pc \in {"sendBlock", "select"}
  PROVE  /\ op \in WinCalls /\ ArrayOK
         /\ remaining \in Nat /\ remainingOffset \in 0..total /\ total \in Nat
         /\ Sent(wire, pDat, error = "hidden") /\ pDat \in Nat
         /\ remaining > 0 /\ error \in {"none", "hidden"}
         /\ op = "sendBlockWin" => pDat + remaining = total
         /\ op = "sendBlocksWin" =>
              /\ InLine /\ blockCount > 0 /\ pDat + remaining = blockSum(pBlockPos)
              /\ blockSum(pBlockPos) \in 0..total
<1>1. /\ op \in WinCalls /\ ArrayOK
      /\ remaining \in Nat /\ remainingOffset \in 0..total
      /\ Sent(wire, pDat, error = "hidden") /\ remaining > 0
      /\ error \in {"none", "hidden"}
      /\ op = "sendBlockWin" => pDat + remaining = total
      /\ op = "sendBlocksWin" =>
           InLine /\ blockCount > 0 /\ pDat + remaining = blockSum(pBlockPos)
  BY DEF WinInv
<1>2. pDat \in Nat /\ total \in Nat
  BY <1>1, Bounds DEF Sent, ArrayOK
<1>3. op = "sendBlocksWin" => blockSum(pBlockPos) \in 0..total
  BY <1>1, BlockFacts
<1> QED BY <1>1, <1>2, <1>3

LEMMA ReturnSizeInv ==
  ASSUME WinInv, pc \in {"sendBlock", "select"}, ReturnSize,
         UNCHANGED <<op, total>>, remaining' = 0, error' \in {error, "hidden"},
         op = "sendBlockWin" => Sent(wire', total, error' = "hidden"),
         op = "sendBlocksWin" => Sent(wire', blockSum(pBlockPos), error' = "hidden")
  PROVE  WinInv'
<1>1. CASE op = "sendBlockWin"
  <2>1. /\ pc' = "idle" /\ ret' = total /\ UNCHANGED <<remainingOffset, array>>
        /\ ArrayOK /\ remainingOffset \in 0..total
    BY <1>1, SendingFacts DEF ReturnSize, Return
  <2>2. ArrayOK'
    BY <2>1, SameBlocks
  <2>3. /\ wire' \in Seq(Nat) /\ Increasing(wire')
        /\ error' # "hidden" => wire' = Bytes(0, Len(wire')) /\ Len(wire') = total
    BY <1>1, SentIdle
  <2>4. error' = "none" => Told(ret)'
    BY <2>1, <2>3 DEF Told
  <2>5. error' \in {"none", "hidden"}
    BY SendingFacts
  <2> QED BY <1>1, <2>1, <2>2, <2>3, <2>4, <2>5 DEF WinInv, WinCalls
<1>2. CASE op = "sendBlocksWin"
  <2>1. /\ pc' = "walk" /\ remainingOffset' = blockSum(pBlockPos)
        /\ pBlockPos' = pBlockPos + 1 /\ blockCount' = blockCount - 1 /\ blocks' = blocks
        /\ ArrayOK /\ InLine /\ blockCount > 0 /\ blockSum(pBlockPos) \in 0..total
    BY <1>2, SendingFacts DEF ReturnSize
  <2>2. ArrayOK' /\ InLine' /\ First' = blockSum(pBlockPos)
    BY <2>1, NextBlockFacts
  <2>3. First' <= remainingOffset' /\ total \in Nat
    BY <2>1, <2>2, SendingFacts
  <2>4. Sent(wire', remainingOffset', error' = "hidden")
    BY <1>2, <2>1
  <2>5. error' \in {"none", "hidden"}
    BY SendingFacts
  <2> QED BY <1>2, <2>1, <2>2, <2>3, <2>4, <2>5 DEF WinInv, WinCalls
<1> QED BY <1>1, <1>2, SendingFacts DEF WinCalls

LEMMA SendWinInv ==
  ASSUME WinInv, NEW k \in 1..remaining, SendWin(k)
  PROVE  WinInv'
<1>1. /\ pc = "sendBlock" /\ wire' = wire \o Bytes(pDat, k) /\ error' = error
      /\ pDat' = pDat + k /\ remaining' = remaining - k /\ UNCHANGED <<op, total>>
  BY DEF SendWin
<1>2. k \in Nat /\ pDat \in Nat /\ remaining \in Nat /\ Sent(wire, pDat, error = "hidden")
  BY <1>1, SendingFacts
<1>3. Sent(wire', pDat + k, error' = "hidden")
  BY <1>1, <1>2, SentMore
<1>4. CASE remaining = k
  <2>1. ReturnSize /\ remaining' = 0
    BY <1>1, <1>2, <1>4 DEF SendWin
  <2>2. /\ op = "sendBlockWin" => Sent(wire', total, error' = "hidden")
        /\ op = "sendBlocksWin" => Sent(wire', blockSum(pBlockPos), error' = "hidden")
    BY <1>1, <1>3, <1>4, SendingFacts
  <2> QED BY <1>1, <2>1, <2>2, ReturnSizeInv
<1>5. CASE remaining # k
  <2>1. UNCHANGED <<pc, ret, remainingOffset, array>>
    BY <1>5 DEF SendWin
  <2>2. /\ ArrayOK <=> ArrayOK'
        /\ InLine <=> InLine'
        /\ blockSum(pBlockPos)' = blockSum(pBlockPos) /\ blockCount' = blockCount
    BY <1>1, <2>1, SameBlocks
  <2>3. /\ ArrayOK' /\ op' \in WinCalls /\ remainingOffset' \in 0..total'
        /\ op' = "sendBlocksWin" => InLine' /\ blockCount' > 0
    BY <1>1, <2>1, <2>2, SendingFacts
  <2>4. /\ remaining' \in Nat /\ remaining' > 0 /\ error' \in {"none", "hidden"}
        /\ op' = "sendBlockWin" => pDat' + remaining' = total'
        /\ op' = "sendBlocksWin" => pDat' + remaining' = blockSum(pBlockPos)'
    <3>1. (pDat + k) + (remaining - k) = pDat + remaining /\ remaining - k \in Nat \ {0}
      BY <1>2, <1>5
    <3> QED BY <1>1, <2>2, <3>1, SendingFacts
  <2>5. Sent(wire', pDat', error' = "hidden") /\ pc' = "sendBlock"
    BY <1>1, <1>3, <2>1
  <2> QED BY <2>3, <2>4, <2>5 DEF WinInv, WinCalls
<1> QED BY <1>4, <1>5

LEMMA SendErrorHiddenInv ==
  ASSUME WinInv, SendErrorHidden
  PROVE  WinInv'
<1>1. /\ pc \in {"sendBlock", "select"} /\ wire' = wire /\ remaining' = 0
      /\ UNCHANGED <<op, total>> /\ ReturnSize
  BY DEF SendErrorHidden, kernel
<1>2. error' = "hidden"
  BY DEF SendErrorHidden
<1>3. /\ op = "sendBlockWin" => pDat <= total
      /\ op = "sendBlocksWin" => pDat <= blockSum(pBlockPos) /\ blockSum(pBlockPos) \in Nat
      /\ total \in Nat /\ Sent(wire, pDat, error = "hidden")
  BY <1>1, SendingFacts
<1>4. /\ op = "sendBlockWin" => Sent(wire, total, TRUE)
      /\ op = "sendBlocksWin" => Sent(wire, blockSum(pBlockPos), TRUE)
  BY <1>3, SentBefore
<1>5. /\ op = "sendBlockWin" => Sent(wire', total, error' = "hidden")
      /\ op = "sendBlocksWin" => Sent(wire', blockSum(pBlockPos), error' = "hidden")
  BY <1>1, <1>2, <1>4 DEF Sent
<1>6. error' \in {error, "hidden"} /\ UNCHANGED <<op, total>>
  BY <1>1, <1>2
<1> QED BY <1>1, <1>5, <1>6, ReturnSizeInv

(* Steps that send nothing and leave the blocks alone.                     *)
LEMMA NothingSentWinInv ==
  ASSUME WinInv,
         UNCHANGED <<wire, op, array, pDat, total, remaining, remainingOffset, error>>,
         \/ pc' = pc /\ ret' = ret
         \/ pc \in {"sendBlock", "select"} /\ pc' \in {"sendBlock", "select"}
         \/ pc \in {"sendBlock", "select"} /\ pc' = "idle" /\ ret' = -1
  PROVE  WinInv'
<1>1. /\ ArrayOK <=> ArrayOK'
      /\ InLine <=> InLine'
      /\ First' = First
      /\ blockSum(pBlockPos)' = blockSum(pBlockPos) /\ blockCount' = blockCount
  BY SameBlocks
<1>2. CASE pc' = pc /\ ret' = ret
  <2>1. Told(ret)' <=> Told(ret)
    BY <1>2 DEF Told
  <2> QED BY <1>1, <1>2, <2>1 DEF WinInv
<1>3. CASE pc \in {"sendBlock", "select"} /\ pc' \in {"sendBlock", "select"}
  BY <1>1, <1>3 DEF WinInv
<1>4. CASE pc \in {"sendBlock", "select"} /\ pc' = "idle" /\ ret' = -1
  <2>1. wire' \in Seq(Nat) /\ Increasing(wire') /\ (error' # "hidden" => wire' = Bytes(0, Len(wire')) /\ Len(wire') = pDat)
    BY <1>4, SendingFacts, SentIdle
  <2>2. error' \in {"none", "hidden"} /\ pDat < total
    <3>1. op = "sendBlockWin" => pDat < total
      BY <1>4, SendingFacts
    <3>2. op = "sendBlocksWin" => pDat < total
      <4>1. op = "sendBlocksWin" => blockSum(pBlockPos) <= total /\ blockSum(pBlockPos) \in Nat
        BY <1>4, SendingFacts
      <4> QED BY <1>4, <4>1, SendingFacts
    <3> QED BY <1>4, <3>1, <3>2, SendingFacts DEF WinCalls
  <2>3. error' = "none" => Told(ret)'
    BY <1>4, <2>1, <2>2 DEF Told
  <2> QED BY <1>1, <1>4, <2>1, <2>2, <2>3 DEF WinInv
<1> QED BY <1>2, <1>3, <1>4

LEMMA WinInvNext == WinInv /\ [NextWin]_winVars => WinInv'
<1> SUFFICES ASSUME WinInv, [NextWin]_winVars PROVE WinInv'
  OBVIOUS
<1>1. CASE \E sizes \in BoundedSeq(0..MaxSize, MaxBlocks), m \in BOOLEAN : sendBlocksWin(sizes, m)
  BY <1>1, SendBlocksWinInv
<1>2. CASE \E size \in 0..MaxSize, m \in BOOLEAN : sendBlockWin(size, m)
  BY <1>2, SendBlockWinInv
<1>3. CASE \E k \in 0..total : WSASend(k)
  BY <1>3, WSASendInv
<1>4. CASE \E k \in 1..remaining : SendWin(k)
  BY <1>4, SendWinInv
<1>5. CASE \E code \in ErrorCodes : WSASendFails(code)
  BY <1>5, WSASendFailsInv
<1>6. CASE NextBlock \/ SendRest \/ LastBlock
  BY <1>6, NextBlockInv, SendRestInv, LastBlockInv
<1>7. CASE SendErrorHidden
  BY <1>7, SendErrorHiddenInv
<1>8. CASE SendWaits \/ Selected
  BY <1>8, NothingSentWinInv DEF SendWaits, Selected, kernel
<1>9. CASE SendZero
  BY <1>9, NothingSentWinInv DEF SendZero, Return, kernel
<1>10. CASE (Drain \/ Break) /\ UNCHANGED error
  BY <1>10, NothingSentWinInv DEF Drain, Break
<1>11. CASE UNCHANGED winVars
  BY <1>11, NothingSentWinInv DEF winVars, vars, kernel
<1> QED BY <1>1, <1>2, <1>3, <1>4, <1>5, <1>6, <1>7, <1>8, <1>9, <1>10, <1>11
    DEF NextWin, StepWin

(* sendBlocks() and sendBlock() on Windows: the bytes sent are in order    *)
(* and none twice, over the border between WSASend() and ::send(), none is *)
(* left out unless an error was hidden, and the answer says whether all of *)
(* them were sent unless it is the code of an error, whatever that code is.*)
THEOREM SentInOrderWinAlways == SpecWin => []SentInOrderWin
<1>1. WinInv => SentInOrderWin
  <2> SUFFICES ASSUME WinInv, op \in WinCalls
               PROVE  /\ Increasing(wire)
                      /\ error # "hidden" => wire = Bytes(0, Len(wire))
                      /\ pc = "idle" /\ error = "none" => Told(ret)
                      /\ error = "code" => wire = <<>>
    BY DEF SentInOrderWin, Increasing, Told
  <2>1. CASE pc = "idle"
    BY <2>1 DEF WinInv
  <2>2. CASE pc = "WSASend"
    <3>1. wire = <<>>
      BY <2>2 DEF WinInv
    <3> QED BY <2>2, <3>1, NothingSentYet, SentIdle DEF Sent
  <2>3. CASE pc = "walk"
    <3>1. Sent(wire, remainingOffset, error = "hidden") /\ error # "code"
      BY <2>3 DEF WinInv
    <3> QED BY <2>3, <3>1, SentIdle
  <2>4. CASE pc \in {"sendBlock", "select"}
    <3>1. Sent(wire, pDat, error = "hidden") /\ error # "code"
      BY <2>4 DEF WinInv
    <3> QED BY <2>4, <3>1, SentIdle
  <2> QED BY <2>1, <2>2, <2>3, <2>4 DEF WinInv
<1> QED BY <1>1, WinInvInit, WinInvNext, PTL DEF SpecWin
=============================================================================
