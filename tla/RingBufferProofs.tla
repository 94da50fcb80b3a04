-------------------------- MODULE RingBufferProofs --------------------------
(***************************************************************************)
(* Proofs about the ring of RingBuffer, for every size: what it holds, and *)
(* that it implements AppendLog for whoever writes and reads; and about    *)
(* those who read it in LogForward, the log forwarding and the requests.   *)
(***************************************************************************)
EXTENDS LogForward, SequenceTheorems, FiniteSetTheorems, TLAPS

(***************************************************************************)
(* Places in the ring.                                                     *)
(***************************************************************************)
LEMMA ModRange ==
  ASSUME NEW a \in Nat
  PROVE  /\ a % Size \in 0 .. Size - 1
         /\ a = Size * (a \div Size) + (a % Size)
         /\ a \div Size \in Nat
BY SizeAssumption DEF SizeAssumption

LEMMA ModIs ==
  ASSUME NEW a \in Nat, NEW q \in Int, NEW m \in 0 .. Size - 1, a = Size * q + m
  PROVE  a % Size = m
BY SizeAssumption DEF SizeAssumption

LEMMA ModAdd ==
  ASSUME NEW a \in Nat, NEW k \in 0 .. Size
  PROVE  (a + k) % Size = IF (a % Size) + k < Size THEN (a % Size) + k ELSE (a % Size) + k - Size
<1> DEFINE q == a \div Size
           m == a % Size
<1>1. m \in 0 .. Size - 1 /\ q \in Nat /\ a = Size * q + m /\ Size \in Nat /\ Size > 1
  BY ModRange, SizeAssumption DEF SizeAssumption
<1> HIDE DEF q, m
<1>2. CASE m + k < Size
  <2>1. m + k \in 0 .. Size - 1 /\ a + k = Size * q + (m + k) /\ a + k \in Nat
    BY <1>1, <1>2
  <2>2. (a + k) % Size = m + k
    BY <1>1, <2>1, ModIs
  <2> QED BY <1>2, <2>2 DEF m
<1>3. CASE m + k >= Size
  <2>1. m + k - Size \in 0 .. Size - 1 /\ a + k = Size * (q + 1) + (m + k - Size) /\ a + k \in Nat
    BY <1>1, <1>3
  <2>2. q + 1 \in Int
    BY <1>1
  <2>3. (a + k) % Size = m + k - Size
    BY <2>1, <2>2, ModIs
  <2> QED BY <1>1, <1>3, <2>3 DEF m
<1> QED BY <1>1, <1>2, <1>3

\* Positions that are less than a ring apart are at different places.
LEMMA ModDiffers ==
  ASSUME NEW a \in Nat, NEW b \in Nat, a < b, b - a < Size
  PROVE  a % Size # b % Size
<1>1. b - a \in 0 .. Size /\ b = a + (b - a)
  BY SizeAssumption DEF SizeAssumption
<1>2. b % Size = IF (a % Size) + (b - a) < Size THEN (a % Size) + (b - a)
                                                ELSE (a % Size) + (b - a) - Size
  BY <1>1, ModAdd
<1> QED BY <1>1, <1>2, ModRange, SizeAssumption DEF SizeAssumption

LEMMA SlotsAre ==
  ASSUME NEW a \in Nat, NEW n \in 1 .. Size
  PROVE  /\ Len(Slots(a, a + n)) = n
         /\ \A k \in 1 .. n : Slots(a, a + n)[k] = (a + k - 1) % Size
<1> DEFINE low == a % Size
           high == IF (a + n) % Size = 0 THEN Size ELSE (a + n) % Size
           Run(i, j) == [k \in 1 .. j - i |-> i + k - 1]
<1>1. Size \in Nat /\ Size > 1 /\ low \in 0 .. Size - 1
  BY SizeAssumption, ModRange DEF SizeAssumption
<1>2. Slots(a, a + n) = IF low < high THEN Run(low, high) ELSE Run(low, Size) \o Run(0, high)
  BY DEF Slots
<1>3. high = IF low + n <= Size THEN low + n ELSE low + n - Size
  <2>1. (a + n) % Size = IF low + n < Size THEN low + n ELSE low + n - Size
    <3>1. n \in 0 .. Size
      BY <1>1
    <3> QED BY <3>1, ModAdd
  <2> HIDE DEF low
  <2> QED BY <1>1, <2>1
<1>4. ASSUME NEW k \in 1 .. n
      PROVE  (a + k - 1) % Size = IF low + k - 1 < Size THEN low + k - 1 ELSE low + k - 1 - Size
  <2>1. k - 1 \in 0 .. Size /\ a + k - 1 = a + (k - 1)
    BY <1>1
  <2> QED BY <1>1, <2>1, ModAdd
<1> HIDE DEF low, high
<1>5. CASE low + n <= Size
  <2>1. low < high /\ high - low = n
    BY <1>1, <1>3, <1>5
  <2>2. Slots(a, a + n) = [k \in 1 .. n |-> low + k - 1]
    BY <1>2, <2>1
  <2> DEFINE run == [k \in 1 .. n |-> low + k - 1]
  <2>3. run \in Seq(Int) /\ Len(run) = n
    BY <1>1
  <2>4. \A k \in 1 .. n : low + k - 1 = (a + k - 1) % Size
    BY <1>1, <1>4, <1>5
  <2> QED BY <2>2, <2>3, <2>4
<1>6. CASE low + n > Size
  <2>1. ~(low < high) /\ high \in 1 .. Size /\ (Size - low) + high = n /\ Size - low \in Nat
    BY <1>1, <1>3, <1>6
  <2> DEFINE front == [k \in 1 .. Size - low |-> low + k - 1]
             back == [k \in 1 .. high - 0 |-> 0 + k - 1]
  <2>2. Slots(a, a + n) = front \o back
    BY <1>2, <2>1
  <2>3. front \in Seq(Int) /\ back \in Seq(Int) /\ Len(front) = Size - low /\ Len(back) = high
    BY <1>1, <2>1
  <2>4. Len(front \o back) = n
    BY <2>1, <2>3, ConcatProperties
  <2>5. \A k \in 1 .. n :
          (front \o back)[k] = IF k <= Len(front) THEN front[k] ELSE back[k - Len(front)]
    BY <2>1, <2>3, <2>4, ConcatProperties
  <2>6. ASSUME NEW k \in 1 .. n PROVE (front \o back)[k] = (a + k - 1) % Size
    BY <1>1, <1>4, <2>1, <2>3, <2>5
  <2> QED BY <2>2, <2>4, <2>6
<1> QED BY <1>1, <1>5, <1>6

(***************************************************************************)
(* What the ring holds, and where its iterators are.                       *)
(***************************************************************************)

\* Before the first write no byte of the ring ends a line, so that a scan for lines goes
\* back over all of it.
RingInv ==
  /\ \E S : written \in Seq(S)
  /\ readIndex \in Nat /\ writeIndex \in Nat
  /\ RingHoldsTail
  /\ writeIndex > 0 => readIndex < writeIndex
  /\ writeIndex = 0 => \A i \in Start : data[i] \notin Newline

Iterator ==
  [open : BOOLEAN, index : Int, trunc : BOOLEAN, truncWritten : BOOLEAN,
   next : BOOLEAN, listens : BOOLEAN, notify : BOOLEAN]

\* An iterator that has a gap to tell of, or has told of it last, is at the tail.
IterInv ==
  /\ iter \in [Reader -> Iterator] /\ DOMAIN given = Reader
  /\ \A r \in Reader : iter[r].trunc \/ iter[r].truncWritten => iter[r].index = TailPosition

BufferInv == RingInv /\ IterInv

LEMMA BufferStarts == BufferInit => BufferInv
<1> SUFFICES ASSUME BufferInit PROVE BufferInv
  OBVIOUS
<1>1. /\ written = <<>> /\ readIndex = 0 /\ writeIndex = 0
      /\ \A i \in Start : data[i] \notin Newline
  BY SizeAssumption DEF SizeAssumption, BufferInit
<1>2. written \in Seq(Int) /\ Len(written) = 0
  BY <1>1
<1>3. RingHoldsTail
  BY <1>1, <1>2, SizeAssumption DEF SizeAssumption, RingHoldsTail, Buffered
<1>4. RingInv
  BY <1>1, <1>2, <1>3 DEF RingInv
<1>5. IterInv
  BY DEF BufferInit, IterInv, Iterator, Closed, TailPosition
<1> QED BY <1>4, <1>5 DEF BufferInv

\* A read of bytes that the ring has returns that part of the log.
LEMMA BytesAreLog ==
  ASSUME RingInv, NEW a \in Nat, NEW n \in Nat, n > 0, readIndex <= a, a + n <= writeIndex
  PROVE  Bytes(a, a + n) = SubSeq(written, a + 1, a + n)
<1>1. PICK S : written \in Seq(S)
  BY DEF RingInv
<1>2. n \in 1 .. Size /\ Len(written) = writeIndex /\ readIndex \in Nat /\ writeIndex \in Nat
  BY SizeAssumption DEF SizeAssumption, RingInv, RingHoldsTail, Buffered
<1>3. /\ Len(Slots(a, a + n)) = n
      /\ \A k \in 1 .. n : Slots(a, a + n)[k] = (a + k - 1) % Size
  BY <1>2, SlotsAre
<1>4. ASSUME NEW k \in 1 .. n
      PROVE  data[Slots(a, a + n)[k]] = written[a + k]
  <2>1. a + k - 1 \in readIndex .. writeIndex - 1 /\ (a + k - 1) + 1 = a + k
    BY <1>2
  <2>2. data[(a + k - 1) % Size] = written[(a + k - 1) + 1]
    BY <2>1 DEF RingInv, RingHoldsTail
  <2> QED BY <1>3, <2>1, <2>2
<1>5. Bytes(a, a + n) = [k \in 1 .. n |-> written[a + k]]
  BY <1>3, <1>4 DEF Bytes
<1> DEFINE part == SubSeq(written, a + 1, a + n)
<1>6. \A i \in (a + 1) .. (a + n) : written[i] \in S
  BY <1>1, <1>2
<1>7. /\ part \in Seq(S) /\ Len(part) = n
      /\ \A k \in 1 .. n : part[k] = written[a + k]
  <2>1. a + 1 \in Int /\ a + n \in Int /\ (a + n) - (a + 1) + 1 = n /\ a + 1 <= a + n
    BY <1>2
  <2>2. /\ part \in Seq(S) /\ Len(part) = n
        /\ \A k \in 1 .. n : part[k] = written[(a + 1) + k - 1]
    BY <1>6, <2>1, SubSeqProperties
  <2>3. \A k \in 1 .. n : (a + 1) + k - 1 = a + k
    OBVIOUS
  <2> QED BY <2>2, <2>3
<1>8. part = [k \in 1 .. n |-> part[k]]
  BY <1>7
<1> QED BY <1>5, <1>7, <1>8

(***************************************************************************)
(* A write.                                                                *)
(***************************************************************************)
LEMMA WriteKeeps ==
  ASSUME RingInv, NEW T, NEW p \in Seq(T), WriteBytes(p)
  PROVE  /\ RingInv'
         /\ UNCHANGED <<iter, given>>
         /\ Len(written') > Len(written)
         /\ SubSeq(written', 1, Len(written)) = written
         /\ readIndex' \in readIndex .. Len(written')
<1> DEFINE n == WriteLength(p)
           at == Slots(writeIndex, writeIndex + n)
<1>1. PICK S : written \in Seq(S)
  BY DEF RingInv
<1>2. Len(p) \in Nat /\ Size \in Nat /\ Size > 1
  BY SizeAssumption DEF SizeAssumption
<1>3. n \in 1 .. Size /\ n <= Len(p)
  BY <1>2 DEF WriteBytes, Store, WriteLength, Smaller
<1>4. /\ readIndex \in Nat /\ writeIndex \in Nat /\ readIndex <= writeIndex
      /\ writeIndex - readIndex <= Size /\ Len(written) = writeIndex
  BY DEF RingInv, RingHoldsTail, Buffered
<1>5. /\ readIndex' = readIndex + (IF Available < n THEN n - Available ELSE 0)
      /\ writeIndex' = writeIndex + n
      /\ written' = written \o SubSeq(p, 1, n)
      /\ data' = [i \in Start |-> IF \E k \in 1 .. n : at[k] = i
                                  THEN p[CHOOSE k \in 1 .. n : at[k] = i]
                                  ELSE data[i]]
      /\ UNCHANGED <<iter, given>>
  BY DEF WriteBytes, Store
<1>6. \A k \in 1 .. n : at[k] = (writeIndex + k - 1) % Size
  BY <1>3, <1>4, SlotsAre
<1> HIDE DEF n, at
<1>7. readIndex <= readIndex' /\ readIndex' <= writeIndex' /\ readIndex' \in Nat
      /\ writeIndex' - readIndex' <= Size /\ readIndex' < writeIndex' /\ writeIndex' \in Nat
  BY <1>2, <1>3, <1>4, <1>5 DEF Available, Buffered
<1> DEFINE front == SubSeq(p, 1, n)
<1>8. front \in Seq(T) /\ Len(front) = n /\ \A k \in 1 .. n : front[k] = p[k]
  <2>1. \A i \in 1 .. n : p[i] \in T
    BY <1>3
  <2>2. 1 \in Int /\ n \in Int /\ 1 <= n
    BY <1>3
  <2>3. front \in Seq(T) /\ Len(front) = n - 1 + 1
          /\ \A k \in 1 .. n - 1 + 1 : front[k] = p[1 + k - 1]
    BY <2>1, <2>2, SubSeqProperties
  <2>4. n - 1 + 1 = n /\ \A k \in 1 .. n : 1 + k - 1 = k
    BY <2>2
  <2> QED BY <2>3, <2>4
<1> HIDE DEF front
<1>9. /\ written' \in Seq(S \cup T) /\ Len(written') = writeIndex + n
      /\ \A i \in 1 .. writeIndex + n :
           written'[i] = IF i <= writeIndex THEN written[i] ELSE front[i - writeIndex]
  <2>1. written \in Seq(S \cup T) /\ front \in Seq(S \cup T)
    BY <1>1, <1>8, SeqMonotonic
  <2>2. written' = written \o front
    BY <1>5 DEF front
  <2>3. /\ written \o front \in Seq(S \cup T) /\ Len(written \o front) = Len(written) + Len(front)
        /\ \A i \in 1 .. Len(written) + Len(front) :
             (written \o front)[i] = IF i <= Len(written) THEN written[i] ELSE front[i - Len(written)]
    BY <2>1, ConcatProperties
  <2>4. Len(written) = writeIndex /\ Len(front) = n
    BY <1>4, <1>8
  <2> QED BY <2>2, <2>3, <2>4
<1>10. \A q \in readIndex' .. writeIndex' - 1 : data'[q % Size] = written'[q + 1]
  <2> SUFFICES ASSUME NEW q \in readIndex' .. writeIndex' - 1
               PROVE  data'[q % Size] = written'[q + 1]
    OBVIOUS
  <2>1. q \in Nat /\ q < writeIndex + n /\ readIndex' <= q
    BY <1>5, <1>7
  <2>2. q % Size \in Start
    BY <2>1, ModRange DEF Start
  <2>3. CASE q >= writeIndex
    <3> DEFINE k == q - writeIndex + 1
    <3>1. k \in 1 .. n /\ writeIndex + k - 1 = q /\ q + 1 - writeIndex = k /\ ~(q + 1 <= writeIndex)
          /\ q + 1 \in 1 .. writeIndex + n
      BY <1>3, <1>4, <2>1, <2>3
    <3>2. at[k] = q % Size
      BY <1>6, <3>1
    <3>3. ASSUME NEW j \in 1 .. n, at[j] = q % Size PROVE j = k
      <4>1. writeIndex + j - 1 \in Nat /\ (writeIndex + j - 1) % Size = q % Size
        BY <1>3, <1>4, <1>6, <3>3
      <4>2. ~(writeIndex + j - 1 < q) /\ ~(q < writeIndex + j - 1)
        <5>1. /\ writeIndex + j - 1 < q => q - (writeIndex + j - 1) < Size
              /\ q < writeIndex + j - 1 => (writeIndex + j - 1) - q < Size
          BY <1>2, <1>3, <1>4, <2>1, <2>3
        <5> QED BY <2>1, <4>1, <5>1, ModDiffers
      <4> QED BY <1>4, <2>1, <4>1, <4>2
    <3>4. (CHOOSE j \in 1 .. n : at[j] = q % Size) = k
      BY <3>1, <3>2, <3>3
    <3> HIDE DEF k
    <3>5. data'[q % Size] = p[k]
      BY <1>5, <2>2, <3>1, <3>2, <3>4
    <3>6. written'[q + 1] = front[q + 1 - writeIndex]
      <4>1. ASSUME NEW i \in 1 .. writeIndex + n, ~(i <= writeIndex)
            PROVE  written'[i] = front[i - writeIndex]
        BY <1>9, <4>1
      <4> QED BY <1>3, <1>4, <2>1, <3>1, <4>1
    <3> QED BY <1>8, <3>1, <3>5, <3>6
  <2>4. CASE q < writeIndex
    <3>1. ASSUME NEW j \in 1 .. n PROVE at[j] # q % Size
      <4>1. writeIndex + j - 1 \in Nat /\ q < writeIndex + j - 1 /\ (writeIndex + j - 1) - q < Size
        BY <1>2, <1>3, <1>4, <1>5, <1>7, <2>1, <2>4
      <4> QED BY <1>6, <2>1, <4>1, ModDiffers
    <3>2. data'[q % Size] = data[q % Size]
      BY <1>5, <2>2, <3>1
    <3>3. q \in readIndex .. writeIndex - 1 /\ q + 1 <= writeIndex /\ q + 1 \in 1 .. writeIndex + n
      BY <1>3, <1>4, <1>7, <2>1, <2>4
    <3>4. data[q % Size] = written[q + 1]
      BY <3>3 DEF RingInv, RingHoldsTail
    <3> QED BY <1>9, <3>2, <3>3, <3>4
  <2> QED BY <1>4, <2>1, <2>3, <2>4
<1>11. RingInv'
  <2>1. RingHoldsTail'
    <3>1. writeIndex' = Len(written')
      BY <1>5, <1>9
    <3>2. 0 <= readIndex' /\ readIndex' <= writeIndex' /\ Buffered' <= Size
      BY <1>7 DEF Buffered
    <3> QED BY <1>10, <3>1, <3>2 DEF RingHoldsTail
  <2>2. writeIndex' > 0
    BY <1>7
  <2>3. \E R : written' \in Seq(R)
    BY <1>9
  <2> QED BY <1>7, <2>1, <2>2, <2>3 DEF RingInv
<1>12. SubSeq(written', 1, Len(written)) = written
  <2>1. \A i \in 1 .. writeIndex : written'[i] \in S \cup T
    BY <1>3, <1>4, <1>9
  <2>2. 1 \in Int /\ writeIndex \in Int
    BY <1>4
  <2> DEFINE part == SubSeq(written', 1, writeIndex)
  <2>3. /\ part \in Seq(S \cup T)
        /\ Len(part) = IF 1 <= writeIndex THEN writeIndex - 1 + 1 ELSE 0
        /\ \A i \in 1 .. writeIndex - 1 + 1 : part[i] = written'[1 + i - 1]
    BY <2>1, <2>2, SubSeqProperties
  <2>4. Len(part) = Len(written)
    BY <1>4, <2>3
  <2>5. \A i \in 1 .. Len(part) : part[i] = written[i]
    BY <1>3, <1>4, <1>9, <2>3, <2>4
  <2>6. written \in Seq(S \cup T)
    BY <1>1, SeqMonotonic
  <2> HIDE DEF part
  <2>7. part = written
    BY <2>3, <2>4, <2>5, <2>6, SeqEqual
  <2> QED BY <1>4, <2>7 DEF part
<1>13. readIndex' \in readIndex .. Len(written') /\ Len(written') > Len(written)
  BY <1>3, <1>4, <1>5, <1>7, <1>9
<1> QED BY <1>5, <1>11, <1>12, <1>13

(***************************************************************************)
(* Where an iterator starts that is to go back some lines.                 *)
(***************************************************************************)
LEMMA HeadPosition ==
  ASSUME RingInv, NEW n
  PROVE  /\ ReverseLinePosition(n) \in Int /\ ReverseLinePosition(n) <= writeIndex
         /\ ReverseLinePosition(n) # TailPosition
<1>1. /\ readIndex \in Nat /\ writeIndex \in Nat /\ readIndex <= writeIndex
      /\ writeIndex - readIndex <= Size /\ Size \in Nat /\ Size > 1
  BY SizeAssumption DEF SizeAssumption, RingInv, RingHoldsTail, Buffered
<1>2. CASE n <= 0
  BY <1>1, <1>2 DEF ReverseLinePosition, TailPosition
<1>3. CASE ~(n <= 0)
  <2> DEFINE all == Bytes(readIndex, writeIndex)
             Newlines(i) == Cardinality({k \in i .. Len(all) : all[k] \in Newline})
             found == {i \in 1 .. Len(all) : all[i] \in Newline /\ Newlines(i) = n + 1}
             p == IF found = {} THEN 1 ELSE Max(found)
  <2>1. ReverseLinePosition(n)
          = writeIndex - (Len(all) - p + 1) + (IF all[p] \in Newline THEN 1 ELSE 0)
    BY <1>3 DEF ReverseLinePosition, PositionAfterNewline
  <2>2. /\ writeIndex > 0 => Len(all) = writeIndex - readIndex /\ Len(all) \in Nat \ {0}
        /\ writeIndex = 0 => Len(all) = Size /\ \A k \in 1 .. Size : all[k] \notin Newline
    <3>1. CASE writeIndex > 0
      <4> DEFINE m == writeIndex - readIndex
      <4>1. m \in 1 .. Size /\ readIndex + m = writeIndex /\ m \in Nat \ {0}
        BY <1>1, <3>1 DEF RingInv
      <4>2. Len(Slots(readIndex, readIndex + m)) = m
        BY <1>1, <4>1, SlotsAre
      <4> HIDE DEF m
      <4>3. Len(all) = m
        <5>1. all = [k \in 1 .. m |-> data[Slots(readIndex, writeIndex)[k]]]
          BY <4>1, <4>2 DEF Bytes
        <5>2. m \in Nat
          BY <4>1
        <5> QED BY <5>1, <5>2
      <4> QED BY <3>1, <4>1, <4>3 DEF m
    <3>2. CASE writeIndex = 0
      <4>1. 0 % Size = 0
        BY <1>1, ModIs
      <4>2. readIndex = 0
        BY <1>1, <3>2
      <4> DEFINE run == [k \in 1 .. Size |-> k - 1]
      <4>3. Slots(readIndex, writeIndex) = run
        <5>1. Slots(0, 0) = [k \in 1 .. Size - 0 |-> 0 + k - 1]
          <6>1. Slots(0, 0) = LET high == IF 0 % Size = 0 THEN Size ELSE 0 % Size
                                  Run(i, j) == [k \in 1 .. j - i |-> i + k - 1]
                              IN IF 0 % Size < high THEN Run(0 % Size, high)
                                 ELSE Run(0 % Size, Size) \o Run(0, high)
            BY DEF Slots
          <6> QED BY <1>1, <4>1, <6>1
        <5>2. [k \in 1 .. Size - 0 |-> 0 + k - 1] = run
          BY <1>1
        <5> QED BY <3>2, <4>2, <5>1, <5>2
      <4>4. Len(run) = Size /\ run \in Seq(Int)
        BY <1>1
      <4> HIDE DEF run
      <4>5. all = [k \in 1 .. Size |-> data[run[k]]]
        BY <4>3, <4>4 DEF Bytes
      <4>6. Len(all) = Size
        BY <1>1, <4>5
      <4>7. ASSUME NEW k \in 1 .. Size PROVE all[k] \notin Newline
        <5>1. all[k] = data[k - 1] /\ k - 1 \in Start
          BY <1>1, <4>5 DEF run, Start
        <5> QED BY <3>2, <5>1 DEF RingInv
      <4> QED BY <1>1, <3>2, <4>6, <4>7
    <3> QED BY <1>1, <3>1, <3>2
  <2>3. Len(all) \in Nat \ {0} /\ (writeIndex > 0 => writeIndex - Len(all) >= 0)
    BY <1>1, <2>2
  <2>4. p \in 1 .. Len(all) /\ (found = {} => p = 1)
    <3>1. CASE found = {}
      BY <2>3, <3>1
    \* Each newline lowers the number of those that are left.
    <3>2. ASSUME NEW a \in found, NEW b \in found, a < b PROVE FALSE
      <4> DEFINE A == {k \in a .. Len(all) : all[k] \in Newline}
                 B == {k \in b .. Len(all) : all[k] \in Newline}
      <4>1. a \in 1 .. Len(all) /\ b \in 1 .. Len(all) /\ all[a] \in Newline
            /\ Cardinality(A) = n + 1 /\ Cardinality(B) = n + 1
        OBVIOUS
      <4>2. IsFiniteSet(A)
        <5>1. IsFiniteSet(a .. Len(all)) /\ A \in SUBSET (a .. Len(all))
          BY <2>3, <4>1, FS_Interval
        <5> QED BY <5>1, FS_Subset
      <4>3. B \in SUBSET A /\ a \in A /\ a \notin B
        BY <2>3, <3>2, <4>1
      <4> HIDE DEF A, B
      <4> QED BY <4>1, <4>2, <4>3, FS_Subset
    <3>3. CASE found # {}
      <4>1. PICK a \in found : TRUE
        BY <3>3
      <4>2. \A b \in found : b = a
        <5>1. \A b \in found : b \in Int /\ a \in Int
          OBVIOUS
        <5> QED BY <3>2, <5>1
      <4>3. a >= a /\ a \in 1 .. Len(all)
        OBVIOUS
      <4>4. Max(found) = a
        BY <4>1, <4>2, <4>3 DEF Max
      <4> QED BY <3>3, <4>3, <4>4
    <3> QED BY <3>1, <3>3
  <2>5. writeIndex = 0 => found = {}
    BY <2>2
  <2>6. writeIndex = 0 => p = 1 /\ all[p] \notin Newline /\ Len(all) = Size
    BY <1>1, <2>2, <2>4, <2>5
  <2> HIDE DEF all, found, p
  <2>7. ASSUME NEW e \in {0, 1}, ReverseLinePosition(n) = writeIndex - (Len(all) - p + 1) + e,
               writeIndex = 0 => e = 0
        PROVE  /\ ReverseLinePosition(n) \in Int /\ ReverseLinePosition(n) <= writeIndex
               /\ ReverseLinePosition(n) # TailPosition
    <3>1. CASE writeIndex = 0
      BY <1>1, <2>4, <2>6, <2>7, <3>1 DEF TailPosition
    <3>2. CASE writeIndex > 0
      BY <1>1, <2>3, <2>4, <2>7, <3>2 DEF TailPosition
    <3> QED BY <1>1, <3>1, <3>2
  <2> QED BY <2>1, <2>6, <2>7
<1> QED BY <1>2, <1>3

(***************************************************************************)
(* The buffer under any writer and any readers.                            *)
(***************************************************************************)
Reads(r) ==
  \/ \E listens \in BOOLEAN : OpenTail(r, listens) \/ \E lines : OpenHead(r, lines, listens)
  \/ CloseIterator(r) \/ Look(r)
  \/ ReadTrunc(r) \/ ReadOvertaken(r) \/ ReadNothing(r)
  \/ \E room \in Nat \ {0} : ReadBytes(r, room)
  \/ iter' = [iter EXCEPT ![r].notify = FALSE] /\ UNCHANGED given

BufferNext ==
  \/ \E T : \E p \in Seq(T) : WriteBytes(p)
  \/ SignalIterators
  \/ UNCHANGED ringVars /\ \E r \in Reader : Reads(r)

BufferSpec == BufferInit /\ [][BufferNext]_bufferVars

\* What AppendLog is told of the iterators.
Place == [r \in Reader |-> IF iter[r].index = TailPosition THEN Lost ELSE iter[r].index]
Owed == {r \in Reader : iter[r].trunc}

SameReading(i, j) ==
  i.index = j.index /\ i.trunc = j.trunc /\ i.truncWritten = j.truncWritten

LEMMA NobodyMoves ==
  ASSUME IterInv, iter' \in [Reader -> Iterator], UNCHANGED given,
         \A r \in Reader : SameReading(iter[r], iter'[r])
  PROVE  IterInv' /\ UNCHANGED <<Place, Owed>>
<1>1. IterInv'
  BY DEF IterInv, SameReading
<1>2. UNCHANGED Place
  BY DEF Place, SameReading
<1>3. UNCHANGED Owed
  BY DEF Owed, SameReading
<1> QED BY <1>1, <1>2, <1>3

LEMMA OneMoves ==
  ASSUME IterInv, NEW r \in Reader, NEW j \in Iterator, iter' = [iter EXCEPT ![r] = j],
         j.trunc \/ j.truncWritten => j.index = TailPosition,
         DOMAIN given' = Reader
  PROVE  /\ IterInv'
         /\ Place' = [Place EXCEPT ![r] = IF j.index = TailPosition THEN Lost ELSE j.index]
         /\ Owed' = IF j.trunc THEN Owed \cup {r} ELSE Owed \ {r}
<1>1. iter' \in [Reader -> Iterator] /\ \A q \in Reader : iter'[q] = IF q = r THEN j ELSE iter[q]
  BY DEF IterInv
<1>2. IterInv'
  BY <1>1 DEF IterInv
<1>3. Place' = [Place EXCEPT ![r] = IF j.index = TailPosition THEN Lost ELSE j.index]
  BY <1>1 DEF Place
<1>4. Owed' = IF j.trunc THEN Owed \cup {r} ELSE Owed \ {r}
  BY <1>1 DEF Owed
<1> QED BY <1>2, <1>3, <1>4

\* The iterators that the operations make.
LEMMA SignalSet ==
  ASSUME NEW i \in Iterator
  PROVE  LET j == [i EXCEPT !.next = @ \/ i.open, !.notify = i.listens]
         IN j \in Iterator /\ SameReading(i, j)
BY Zenon DEF Iterator, SameReading

LEMMA FieldSet ==
  ASSUME NEW i \in Iterator, NEW b \in BOOLEAN
  PROVE  /\ [i EXCEPT !.next = b] \in Iterator /\ SameReading(i, [i EXCEPT !.next = b])
         /\ [i EXCEPT !.notify = b] \in Iterator /\ SameReading(i, [i EXCEPT !.notify = b])
BY DEF Iterator, SameReading

LEMMA NewSet ==
  ASSUME NEW x \in Int, NEW b \in BOOLEAN
  PROVE  LET j == [NewIterator(x) EXCEPT !.listens = b]
         IN j \in Iterator /\ j.index = x /\ ~j.trunc /\ ~j.truncWritten
BY DEF NewIterator, Closed, Iterator

LEMMA TruncatedSet ==
  ASSUME NEW i \in Iterator
  PROVE  LET j == Truncated(i)
         IN /\ j \in Iterator /\ j.index = TailPosition /\ j.trunc = (i.trunc \/ ~i.truncWritten)
            /\ j.truncWritten = i.truncWritten
<1> DEFINE b == i.trunc \/ ~i.truncWritten
           j == [i EXCEPT !.index = TailPosition, !.trunc = b]
<1>1. b \in BOOLEAN /\ TailPosition \in Int
  BY DEF TailPosition
<1> HIDE DEF b
<1>2. j \in Iterator /\ j.index = TailPosition /\ j.trunc = b /\ j.truncWritten = i.truncWritten
  BY <1>1, Zenon DEF Iterator
<1>3. Truncated(i) = j
  BY DEF Truncated, b
<1> HIDE DEF j
<1> QED BY <1>2, <1>3, Zenon DEF b

LEMMA ToldSet ==
  ASSUME NEW i \in Iterator
  PROVE  LET j == [i EXCEPT !.trunc = FALSE, !.truncWritten = TRUE]
         IN j \in Iterator /\ j.index = i.index /\ ~j.trunc /\ j.truncWritten
BY DEF Iterator

LEMMA MovedSet ==
  ASSUME NEW i \in Iterator, NEW x \in Int
  PROVE  LET j == [i EXCEPT !.index = x, !.truncWritten = FALSE]
         IN j \in Iterator /\ j.index = x /\ j.trunc = i.trunc /\ ~j.truncWritten
BY DEF Iterator

LEMMA ClosedSet ==
  ASSUME NEW i \in Iterator
  PROVE  LET j == [i EXCEPT !.open = FALSE, !.next = FALSE, !.listens = FALSE, !.notify = FALSE]
         IN j \in Iterator /\ SameReading(i, j)
BY DEF Iterator, SameReading

(***************************************************************************)
(* A step of the buffer is a step of the log, or none.                     *)
(***************************************************************************)
LogStep == RingInv' /\ IterInv' /\ [Log!Next]_(Log!vars)

LEMMA Stutters ==
  ASSUME BufferInv, UNCHANGED ringVars, iter' \in [Reader -> Iterator], UNCHANGED given,
         \A r \in Reader : SameReading(iter[r], iter'[r])
  PROVE  LogStep
<1>1. RingInv'
  BY DEF BufferInv, RingInv, RingHoldsTail, Buffered, ringVars
<1>2. IterInv' /\ UNCHANGED <<Place, Owed>>
  BY NobodyMoves DEF BufferInv
<1>3. UNCHANGED Log!vars
  BY <1>2 DEF Log!vars, Place, Owed, ringVars
<1> QED BY <1>1, <1>2, <1>3 DEF LogStep

\* A reader does something that the log knows.
LEMMA ReaderMoves ==
  ASSUME BufferInv, UNCHANGED ringVars, NEW r \in Reader, IterInv',
         Log!Open(r) \/ Log!Lose(r) \/ Log!Announce(r) \/ Log!Take(r)
  PROVE  LogStep
<1>1. RingInv'
  BY DEF BufferInv, RingInv, RingHoldsTail, Buffered, ringVars
<1>2. Log!Next
  BY DEF Log!Next
<1> QED BY <1>1, <1>2 DEF LogStep

LEMMA WriteIsGrow ==
  ASSUME BufferInv, NEW T, NEW p \in Seq(T), WriteBytes(p)
  PROVE  LogStep
<1>1. /\ RingInv' /\ UNCHANGED <<iter, given>>
      /\ Len(written') > Len(written)
      /\ SubSeq(written', 1, Len(written)) = written
      /\ readIndex' \in readIndex .. Len(written')
  BY WriteKeeps DEF BufferInv
<1>2. IterInv'
  BY <1>1 DEF BufferInv, IterInv
<1>3. Len(written) \in Nat /\ Len(written') \in Nat
  BY <1>1 DEF BufferInv, RingInv, RingHoldsTail
<1>4. Len(written') - Len(written) \in 1 .. Len(written')
      /\ Len(written') = Len(written) + (Len(written') - Len(written))
  BY <1>1, <1>3
<1>5. Log!Grow
  BY <1>1, <1>4 DEF Log!Grow
<1> QED BY <1>1, <1>2, <1>5 DEF LogStep, Log!Next

LEMMA Opens ==
  ASSUME BufferInv, UNCHANGED ringVars, NEW r \in Reader, NEW x \in Int, NEW b \in BOOLEAN,
         x # TailPosition, x <= writeIndex,
         iter' = [iter EXCEPT ![r] = [NewIterator(x) EXCEPT !.listens = b]],
         given' = [given EXCEPT ![r] = <<>>]
  PROVE  LogStep
<1> DEFINE j == [NewIterator(x) EXCEPT !.listens = b]
<1>1. j \in Iterator /\ j.index = x /\ ~j.trunc /\ ~j.truncWritten
  BY NewSet
<1>2. iter' = [iter EXCEPT ![r] = j] /\ DOMAIN given' = Reader
  BY DEF BufferInv, IterInv
<1> HIDE DEF j
<1>3. /\ IterInv'
      /\ Place' = [Place EXCEPT ![r] = x]
      /\ Owed' = Owed \ {r}
  BY <1>1, <1>2, OneMoves DEF BufferInv
<1>4. Place'[r] = x /\ x <= Len(written)
  BY <1>3 DEF Place, BufferInv, RingInv, RingHoldsTail
<1>5. Log!Open(r)
  BY <1>3, <1>4 DEF Log!Open, Place, Owed, ringVars
<1> QED BY <1>3, <1>5, ReaderMoves

\* An iterator that was overtaken is lost, and has to tell.
LEMMA Loses ==
  ASSUME BufferInv, UNCHANGED ringVars, NEW r \in Reader, NEW i \in Iterator,
         SameReading(iter[r], i),
         i.index # TailPosition, i.index < readIndex,
         iter' = [iter EXCEPT ![r] = Truncated(i)], UNCHANGED given
  PROVE  LogStep
<1> DEFINE j == Truncated(i)
<1>1. /\ j \in Iterator /\ j.index = TailPosition /\ j.trunc = (i.trunc \/ ~i.truncWritten)
      /\ j.truncWritten = i.truncWritten
  BY TruncatedSet
<1>2. ~i.truncWritten
  BY DEF BufferInv, IterInv, SameReading
<1>3. j.trunc
  BY <1>1, <1>2
<1>4. iter' = [iter EXCEPT ![r] = j] /\ DOMAIN given' = Reader
  BY DEF BufferInv, IterInv
<1> HIDE DEF j
<1>5. IterInv' /\ Place' = [Place EXCEPT ![r] = Lost] /\ Owed' = Owed \cup {r}
  BY <1>1, <1>3, <1>4, OneMoves DEF BufferInv
<1>6. Place[r] = i.index /\ i.index \in Int /\ i.index # Lost
  BY LostAssumption DEF LostAssumption, Place, SameReading, Iterator
<1>7. Log!Lose(r)
  BY <1>5, <1>6 DEF Log!Lose, Place, Owed, ringVars
<1> QED BY <1>5, <1>7, ReaderMoves

LEMMA Looks ==
  ASSUME BufferInv, UNCHANGED ringVars, NEW r \in Reader, Look(r)
  PROVE  LogStep
<1> DEFINE i == [iter[r] EXCEPT !.next = FALSE]
<1>1. i \in Iterator /\ SameReading(iter[r], i) /\ iter \in [Reader -> Iterator]
  BY FieldSet DEF BufferInv, IterInv
<1>2. iter' = [iter EXCEPT ![r] = Checked(i)] /\ UNCHANGED given
  BY DEF Look
<1> HIDE DEF i
<1>3. CASE Overtaken(i)
  BY <1>1, <1>2, <1>3, Loses DEF Checked, Overtaken
<1>4. CASE ~Overtaken(i)
  <2>1. iter' = [iter EXCEPT ![r] = i]
    BY <1>2, <1>4 DEF Checked
  <2>2. iter' \in [Reader -> Iterator] /\ \A q \in Reader : SameReading(iter[q], iter'[q])
    BY <1>1, <2>1 DEF SameReading
  <2> QED BY <1>2, <2>2, Stutters
<1> QED BY <1>3, <1>4

LEMMA Announces ==
  ASSUME BufferInv, UNCHANGED ringVars, NEW r \in Reader, ReadTrunc(r)
  PROVE  LogStep
<1> DEFINE j == [iter[r] EXCEPT !.trunc = FALSE, !.truncWritten = TRUE]
<1>1. iter \in [Reader -> Iterator] /\ iter[r] \in Iterator /\ iter[r].trunc
      /\ iter[r].index = TailPosition
  BY DEF BufferInv, IterInv, ReadTrunc
<1>2. j \in Iterator /\ j.index = TailPosition /\ ~j.trunc /\ j.truncWritten
  BY <1>1, ToldSet
<1>3. iter' = [iter EXCEPT ![r] = j] /\ given' = [given EXCEPT ![r] = <<Gap>>]
  BY DEF ReadTrunc
<1> HIDE DEF j
<1>4. DOMAIN given' = Reader
  BY <1>3 DEF BufferInv, IterInv
<1>5. IterInv' /\ Place' = [Place EXCEPT ![r] = Lost] /\ Owed' = Owed \ {r}
  BY <1>2, <1>3, <1>4, OneMoves DEF BufferInv
<1>6. UNCHANGED Place
  BY <1>1, <1>5 DEF Place
<1>7. Log!Announce(r)
  BY <1>1, <1>3, <1>5, <1>6 DEF Log!Announce, Place, Owed, ringVars
<1> QED BY <1>5, <1>7, ReaderMoves

LEMMA Takes ==
  ASSUME BufferInv, UNCHANGED ringVars, NEW r \in Reader, NEW room \in Nat \ {0},
         ReadBytes(r, room)
  PROVE  LogStep
<1> DEFINE from == ReadFrom(iter[r])
           n == Smaller(writeIndex - from, room)
           j == [iter[r] EXCEPT !.index = from + n, !.truncWritten = FALSE]
<1>1. /\ iter[r] \in Iterator /\ readIndex \in Nat /\ writeIndex \in Nat
      /\ Len(written) = writeIndex
  BY DEF BufferInv, IterInv, RingInv, RingHoldsTail
<1>2. /\ ~iter[r].trunc /\ from >= readIndex /\ from < writeIndex
      /\ iter' = [iter EXCEPT ![r].index = from + n, ![r].truncWritten = FALSE]
      /\ given' = [given EXCEPT ![r] = Bytes(from, from + n)]
  BY DEF ReadBytes
<1>3. from \in Int
  BY <1>1 DEF ReadFrom, Iterator
<1> HIDE DEF from
<1>4. n \in Nat /\ n > 0 /\ from \in Nat /\ from + n <= writeIndex /\ n \in 1 .. Len(written) - from
  BY <1>1, <1>2, <1>3 DEF Smaller
<1> HIDE DEF n
<1>5. Bytes(from, from + n) = SubSeq(written, from + 1, from + n)
  BY <1>2, <1>4, BytesAreLog DEF BufferInv
<1>6. j \in Iterator /\ j.index = from + n /\ ~j.trunc /\ ~j.truncWritten
  <2>1. from + n \in Int
    BY <1>4
  <2>2. j \in Iterator /\ j.index = from + n /\ j.trunc = iter[r].trunc /\ ~j.truncWritten
    BY <1>1, <2>1, MovedSet
  <2> QED BY <1>2, <2>2
<1>7. iter' = [iter EXCEPT ![r] = j]
  BY <1>2
<1>8. DOMAIN given' = Reader
  BY <1>2 DEF BufferInv, IterInv
<1> HIDE DEF j
<1>9. from + n # TailPosition
  BY <1>4 DEF TailPosition
<1>10. IterInv' /\ Place' = [Place EXCEPT ![r] = from + n] /\ Owed' = Owed \ {r}
  BY <1>6, <1>7, <1>8, <1>9, OneMoves DEF BufferInv
<1>11. r \notin Owed /\ UNCHANGED Owed
  BY <1>2, <1>10 DEF Owed
<1>12. from = (IF Place[r] = Lost THEN readIndex ELSE Place[r])
       /\ (Place[r] = Lost \/ Place[r] >= readIndex)
  <2>1. iter[r].index \in Int
    BY <1>1 DEF Iterator
  <2>2. Place[r] = IF iter[r].index = TailPosition THEN Lost ELSE iter[r].index
    BY DEF Place
  <2> QED BY <1>2, <2>1, <2>2, LostAssumption DEF LostAssumption, from, ReadFrom
<1>13. Log!Take(r)
  BY <1>2, <1>4, <1>5, <1>10, <1>11, <1>12 DEF Log!Take, Place, Owed, ringVars
<1> QED BY <1>10, <1>13, ReaderMoves

LEMMA ReadsStep ==
  ASSUME BufferInv, UNCHANGED ringVars, NEW r \in Reader, Reads(r)
  PROVE  LogStep
<1>1. /\ iter \in [Reader -> Iterator] /\ iter[r] \in Iterator
      /\ readIndex \in Nat /\ writeIndex \in Nat /\ readIndex <= writeIndex
  BY DEF BufferInv, IterInv, RingInv, RingHoldsTail
<1>2. CASE \E listens \in BOOLEAN : OpenTail(r, listens)
  <2>1. readIndex \in Int /\ readIndex # TailPosition
    BY <1>1 DEF TailPosition
  <2> QED BY <1>1, <1>2, <2>1, Opens DEF OpenTail
<1>3. CASE \E listens \in BOOLEAN : \E lines : OpenHead(r, lines, listens)
  <2>1. PICK listens \in BOOLEAN : \E lines : OpenHead(r, lines, listens)
    BY <1>3
  <2>2. PICK lines : OpenHead(r, lines, listens)
    BY <2>1
  <2> DEFINE x == ReverseLinePosition(lines)
  <2>3. x \in Int /\ x <= writeIndex /\ x # TailPosition
    BY HeadPosition DEF BufferInv
  <2>4. /\ iter' = [iter EXCEPT ![r] = [NewIterator(x) EXCEPT !.listens = listens]]
        /\ given' = [given EXCEPT ![r] = <<>>]
    BY <2>2 DEF OpenHead
  <2> HIDE DEF x
  <2> QED BY <2>3, <2>4, Opens
<1>4. CASE CloseIterator(r)
  <2> DEFINE j == [iter[r] EXCEPT !.open = FALSE, !.next = FALSE, !.listens = FALSE,
                                  !.notify = FALSE]
  <2>1. j \in Iterator /\ SameReading(iter[r], j)
    BY <1>1, ClosedSet
  <2>2. iter' = [iter EXCEPT ![r] = j] /\ UNCHANGED given
    BY <1>4 DEF CloseIterator
  <2> HIDE DEF j
  <2> QED BY <1>1, <2>1, <2>2, Stutters DEF SameReading
<1>5. CASE Look(r)
  BY <1>5, Looks
<1>6. CASE ReadTrunc(r)
  BY <1>6, Announces
<1>7. CASE ReadOvertaken(r)
  <2>1. iter[r].index # TailPosition /\ iter[r].index < readIndex
    BY <1>1, <1>7 DEF ReadOvertaken, ReadFrom
  <2> QED BY <1>1, <1>7, <2>1, Loses DEF ReadOvertaken, SameReading
<1>8. CASE ReadNothing(r)
  BY <1>1, <1>8, Stutters DEF ReadNothing, SameReading
<1>9. CASE \E room \in Nat \ {0} : ReadBytes(r, room)
  BY <1>9, Takes
<1>10. CASE iter' = [iter EXCEPT ![r].notify = FALSE] /\ UNCHANGED given
  <2> DEFINE j == [iter[r] EXCEPT !.notify = FALSE]
  <2>1. j \in Iterator /\ SameReading(iter[r], j)
    BY <1>1, FieldSet
  <2>2. iter' = [iter EXCEPT ![r] = j]
    BY <1>10
  <2> HIDE DEF j
  <2> QED BY <1>1, <1>10, <2>1, <2>2, Stutters DEF SameReading
<1> QED BY <1>2, <1>3, <1>4, <1>5, <1>6, <1>7, <1>8, <1>9, <1>10 DEF Reads

LEMMA SignalStep ==
  ASSUME BufferInv, SignalIterators
  PROVE  LogStep
<1> DEFINE Signalled(i) == [i EXCEPT !.next = @ \/ i.open, !.notify = i.listens]
<1>1. iter \in [Reader -> Iterator] /\ iter' = [r \in Reader |-> Signalled(iter[r])]
  BY DEF BufferInv, IterInv, SignalIterators
<1>2. \A r \in Reader : Signalled(iter[r]) \in Iterator /\ SameReading(iter[r], Signalled(iter[r]))
  BY <1>1, SignalSet
<1> HIDE DEF Signalled
<1>3. iter' \in [Reader -> Iterator] /\ \A r \in Reader : SameReading(iter[r], iter'[r])
  BY <1>1, <1>2
<1>4. UNCHANGED <<data, readIndex, writeIndex, written, given>>
  BY DEF SignalIterators
<1>5. RingInv'
  BY <1>4 DEF BufferInv, RingInv, RingHoldsTail, Buffered
<1>6. IterInv' /\ UNCHANGED <<Place, Owed>>
  BY <1>3, <1>4, NobodyMoves DEF BufferInv
<1>7. UNCHANGED Log!vars
  BY <1>4, <1>6 DEF Log!vars, Place, Owed
<1> QED BY <1>5, <1>6, <1>7 DEF LogStep

LEMMA BufferStep == BufferInv /\ [BufferNext]_bufferVars => BufferInv' /\ [Log!Next]_(Log!vars)
<1> SUFFICES ASSUME BufferInv, [BufferNext]_bufferVars PROVE LogStep
  BY DEF LogStep, BufferInv
<1>1. CASE UNCHANGED bufferVars
  <2>1. UNCHANGED ringVars /\ UNCHANGED <<iter, given>>
    BY <1>1 DEF bufferVars, ringVars
  <2>2. iter' \in [Reader -> Iterator] /\ \A r \in Reader : SameReading(iter[r], iter'[r])
    BY <2>1 DEF BufferInv, IterInv, SameReading
  <2> QED BY <2>1, <2>2, Stutters
<1> QED BY <1>1, WriteIsGrow, SignalStep, ReadsStep DEF BufferNext

LEMMA LogStarts == BufferInit => Log!Init
<1> SUFFICES ASSUME BufferInit PROVE Log!Init
  OBVIOUS
<1>1. \A r \in Reader : iter[r].index = 0 /\ ~iter[r].trunc
  BY DEF BufferInit, Closed
<1>2. Place = [r \in Reader |-> 0]
  BY <1>1 DEF Place, TailPosition
<1>3. Owed = {}
  BY <1>1 DEF Owed
<1> QED BY <1>2, <1>3 DEF BufferInit, Log!Init, Place, Owed

\* Whoever writes and whoever reads, in any order, a reader gets the log in order and without a
\* hole, unless it is told, once, that it was overtaken (RingBuffer and iterator).
THEOREM BufferIsLog == BufferSpec => ReadsTheLog
<1> QED BY BufferStarts, LogStarts, BufferStep, PTL DEF BufferSpec, ReadsTheLog, Log!Spec

(***************************************************************************)
(* Each step of the forwarding and of the requests is one of the buffer.   *)
(***************************************************************************)
BufferStays == UNCHANGED bufferVars

LEMMA RestStays ==
  ASSUME UNCHANGED ringVars, UNCHANGED <<iter, given>>
  PROVE  BufferStays
BY DEF BufferStays, ringVars, bufferVars

LEMMA PullerReads ==
  ASSUME Pulls
  PROVE  [BufferNext]_bufferVars
<1>1. UNCHANGED ringVars
  BY DEF Pulls, PullerLooks, PullerWakes, PullerParses, PullerGivesUp, PullerEnds, RestOfPuller
<1>2. "puller" \in Reader
  BY ForwardAssumption DEF ForwardAssumption
<1>3. Reads("puller") \/ UNCHANGED <<iter, given>>
  <2>1. CASE PullerLooks \/ PullerWakes \/ PullerEnds \/ PullerGivesUp
    BY <2>1 DEF PullerLooks, PullerWakes, PullerEnds, PullerGivesUp, Reads
  <2>2. CASE PullerParses
    <3>1. ParserReads("puller") \/ UNCHANGED <<iter, given>>
      BY <2>2 DEF PullerParses, ParserSplits
    <3>2. ParserReads("puller") => Reads("puller")
      BY ForwardAssumption DEF ForwardAssumption, ParserReads, Reads
    <3> QED BY <3>1, <3>2
  <2> QED BY <2>1, <2>2 DEF Pulls
<1> QED BY <1>1, <1>2, <1>3, RestStays DEF BufferNext, BufferStays

LEMMA RequestReads ==
  ASSUME Streams \/ StreamEnds \/ \E n \in LogCount, follow \in BOOLEAN : AskForLogs(n, follow)
  PROVE  [BufferNext]_bufferVars
<1>1. UNCHANGED ringVars
  BY DEF Streams, StreamFetches, StreamLooks, LogArrives, NoMoreLogs, StreamNotified, StreamEnds,
         AskForLogs, RestOfRequest
<1>2. "request" \in Reader
  BY ForwardAssumption DEF ForwardAssumption
<1>3. Reads("request") \/ UNCHANGED <<iter, given>>
  <2>1. CASE StreamLooks \/ LogArrives \/ NoMoreLogs \/ StreamNotified \/ StreamEnds
    BY <2>1 DEF StreamLooks, LogArrives, NoMoreLogs, StreamNotified, StreamEnds, Reads
  <2>2. CASE StreamFetches
    <3>1. ParserReads("request") \/ UNCHANGED <<iter, given>>
      BY <2>2 DEF StreamFetches, ParserSplits
    <3>2. ParserReads("request") => Reads("request")
      BY ForwardAssumption DEF ForwardAssumption, ParserReads, Reads
    <3> QED BY <3>1, <3>2
  <2>3. CASE \E n \in LogCount, follow \in BOOLEAN : AskForLogs(n, follow)
    BY <2>3 DEF AskForLogs, Reads
  <2> QED BY <2>1, <2>2, <2>3 DEF Streams
<1> QED BY <1>1, <1>2, <1>3, RestStays DEF BufferNext, BufferStays

\* What the service does to the buffer: it writes, or the readers are signalled.
LEMMA WritesAre ==
  ASSUME Writes
  PROVE  (\E T : \E p \in Seq(T) : WriteBytes(p)) \/ SignalIterators
<1>1. CASE FormatStamp
  <2>1. <<Stamp(format.line)>> \in Seq({Stamp(format.line)})
    OBVIOUS
  <2> QED BY <1>1, <2>1 DEF FormatStamp
<1>2. CASE FormatText
  <2>1. PICK n \in 1 .. Len(format.rest) :
          WriteBytes([i \in 1 .. n |-> <<format.rest[i], format.line>>])
    BY <1>2 DEF FormatText
  <2> DEFINE p == [i \in 1 .. n |-> <<format.rest[i], format.line>>]
             T == {p[i] : i \in 1 .. n}
  <2>2. n \in Nat
    OBVIOUS
  <2>3. p \in [1 .. n -> T]
    OBVIOUS
  <2> HIDE DEF p, T
  <2>4. p \in Seq(T)
    BY <2>2, <2>3
  <2> QED BY <2>1, <2>4 DEF p
<1>3. CASE SignalReaders
  BY <1>3 DEF SignalReaders
<1> QED BY <1>1, <1>2, <1>3 DEF Writes

LEMMA ServiceOutput ==
  ASSUME Writes
  PROVE  BufferNext
BY WritesAre DEF BufferNext

LEMMA ManagerReads ==
  ASSUME Manages \/ ServiceKnown
  PROVE  [BufferNext]_bufferVars
<1>1. UNCHANGED ringVars
  BY DEF Manages, ServiceKnown, PullerRemoved, AddPuller, RestOfManager
<1>2. "puller" \in Reader
  BY ForwardAssumption DEF ForwardAssumption
<1>3. Reads("puller") \/ UNCHANGED <<iter, given>>
  <2>1. NewPuller => Reads("puller")
    BY DEF NewPuller, Reads
  <2> QED BY <2>1 DEF Manages, ServiceKnown, PullerRemoved, AddPuller
<1> QED BY <1>1, <1>2, <1>3, RestStays DEF BufferNext, BufferStays

LEMMA OthersStay ==
  ASSUME \/ StartService \/ (\E p \in Output : ServiceWrites(p))
         \/ Gathers \/ GathererStops \/ StopManager \/ Stops
         \/ \E target, logs \in BOOLEAN, labels \in Labels : PlanChanged(target, logs, labels)
         \/ UNCHANGED vars
  PROVE  BufferStays
<1>1. CASE StartService \/ (\E p \in Output : ServiceWrites(p)) \/ UNCHANGED vars
  BY <1>1 DEF StartService, ServiceWrites, vars, BufferStays
<1>2. CASE Gathers \/ GathererStops
  BY <1>2
  DEF Gathers, GathererStops, GathererReceives, FlushTimerFires, SendsLabels,
      GathererTakesLabels, FlushReturns, LokiFlushes, OpenTelemetryFlushes, SyslogStreamFlushes,
      SyslogDatagramsFlush, FlushSucceeds, FlushRefused, FlushFails, AfterFlush, RestOfGatherer,
      BufferStays
<1>3. CASE StopManager \/ Stops
           \/ \E target, logs \in BOOLEAN, labels \in Labels : PlanChanged(target, logs, labels)
  <2>1. UNCHANGED ringVars /\ UNCHANGED <<iter, given>>
    BY <1>3
    DEF StopManager, Stops, StopCancelsFlush, StopKillsPullers, StopKillsLoop, StopReturns,
        PlanChanged, RestOfManager
  <2> QED BY <2>1, RestStays
<1> QED BY <1>1, <1>2, <1>3

LEMMA ForwardStep == [Next]_vars => [BufferNext]_bufferVars
BY PullerReads, RequestReads, ServiceOutput, ManagerReads, OthersStay DEF Next, BufferStays

\* The forwarding of logs and the requests for them read the log of the service so, with plan
\* changes, failing flushes, stops and clients that leave at any moment (logPuller, Parser,
\* streamLogs).
THEOREM ForwardReadsTheLog == Spec => ReadsTheLog
<1>1. Init => BufferInit
  BY DEF Init
<1>2. Spec => BufferSpec
  BY <1>1, ForwardStep, PTL DEF Spec, BufferSpec
<1> QED BY <1>2, BufferIsLog

(***************************************************************************)
(* What the service writes and what its readers make of it.                *)
(***************************************************************************)
Cell == {"stamp", "text", "end", "gap"} \X Nat
LogEntry == [stamp : Nat, text : Seq(Cell) \ {<<>>}]
ParserState == [buf : Seq(Cell), eof : BOOLEAN, last : Nat, entry : LogEntry \cup {<<>>}]

RequestState ==
  [pc : {"off", "fetch", "more", "again", "entry", "nothing", "wait", "end", "done"},
   follow : BOOLEAN, n : LogCount \cup {DefaultLogs, 0}, fifo : Seq(LogEntry),
   shown : Seq(LogEntry), since : Nat, end : Nat]

OutputInv ==
  /\ written \in Seq(Cell)
  /\ format \in [fresh : BOOLEAN, line : Nat \ {0}, rest : Seq({"text", "end"})]

\* An entry that a request is about to look at is one.
RequestInv ==
  /\ parser \in [Reader -> ParserState]
  /\ request \in RequestState
  /\ request.pc = "entry" => parser["request"].entry # <<>>

(***************************************************************************)
(* The gatherer: what it counted is still there, and an entry that was     *)
(* collected under other labels than those of now had a flush that failed. *)
(***************************************************************************)
Item == [entry : LogEntry \cup {<<>>}, labels : Labels \cup {NoLabels}, failed : BOOLEAN]

Pending == {<<>>} \cup {<<l>> : l \in Labels \cup {NoLabels}}
GathererState ==
  [pc : {"select", "flush", "final", "dead"}, dying : BOOLEAN, cancelled : BOOLEAN,
   written : Nat, timer : BOOLEAN, labels : Pending]
PullerPoint == {"off", "look", "wait", "parse", "send", "end", "dead"}
PullerState == [pc : PullerPoint, dying : BOOLEAN, known : BOOLEAN]

GathererInv ==
  /\ gatherer \in GathererState
  /\ client \in [entries : Seq(Item), labels : Labels \cup {NoLabels}]
  /\ plan.labels \in Labels
  /\ puller \in PullerState
  /\ manager \in {"free", "remove", "unlabel", "label", "add", "stop"}
  /\ stop \in {"none", "begin", "cancelled", "killed", "last", "done"}
  /\ service \in {"new", "started", "known"}
  /\ failures \in 0 .. MaxFailures

CountInv ==
  /\ Len(client.entries) <= MaxEntries
  /\ ~Flushing => gatherer.written < MaxEntries /\ gatherer.written <= Len(client.entries)

LabelsInv ==
  /\ \A i \in 1 .. Len(client.entries) :
       client.entries[i].labels = client.labels \/ client.entries[i].failed
  /\ OwnLabels

(***************************************************************************)
(* Who waits.  A request that is about to wait has looked for more, or has *)
(* read to the end; since then a write has sent its token or will do so.   *)
(***************************************************************************)
AtEnd(i) == ~HasMore(Checked(i))

PullerInv ==
  /\ puller.pc \notin {"off", "dead"} => iter["puller"].open
  /\ puller.pc = "wait" => puller.dying \/ iter["puller"].next \/ signal \/ AtEnd(iter["puller"])

StreamInv ==
  /\ request.pc \notin {"off", "done"} => iter["request"].listens
  /\ request.pc = "more" => ~parser["request"].eof
  /\ \/ iter["request"].notify \/ signal
     \/ /\ request.pc \in {"nothing", "wait"} => AtEnd(iter["request"])
        /\ request.pc = "again" =>
             /\ ~Overtaken(iter["request"])
             /\ parser["request"].eof => AtEnd(iter["request"])

ForwardInv ==
  /\ BufferInv /\ OutputInv /\ RequestInv /\ GathererInv /\ CountInv /\ LabelsInv
  /\ PullerInv /\ StreamInv

(***************************************************************************)
(* What each part of the system leaves alone.                              *)
(***************************************************************************)
Serves == StartService \/ (\E p \in Output : ServiceWrites(p)) \/ Writes
Gathering == Gathers \/ GathererStops
Managing ==
  \/ \E target, logs \in BOOLEAN, labels \in Labels : PlanChanged(target, logs, labels)
  \/ ServiceKnown \/ Manages \/ StopManager \/ Stops
Asks == (\E n \in LogCount, follow \in BOOLEAN : AskForLogs(n, follow)) \/ Streams \/ StreamEnds

LEMMA ServesFrame == Serves => UNCHANGED <<consumer, parser, forwardVars, request>>
BY DEF Serves, StartService, ServiceWrites, Writes, FormatStamp, FormatText, SignalReaders

LEMMA PullsFrame ==
  ASSUME Pulls
  PROVE  UNCHANGED <<ringVars, format, service, consumer, gatherer, client, manager, stop, plan,
                     batch, failures, request>>
BY DEF Pulls, PullerLooks, PullerWakes, PullerParses, PullerGivesUp, PullerEnds, RestOfPuller

LEMMA GatheringFrame ==
  ASSUME Gathering
  PROVE  UNCHANGED <<bufferVars, format, service, consumer, stop, plan, request>>
BY DEF Gathering, Gathers, GathererStops, GathererReceives, FlushTimerFires, SendsLabels,
       GathererTakesLabels, FlushReturns, LokiFlushes, OpenTelemetryFlushes,
       SyslogStreamFlushes, SyslogDatagramsFlush, FlushSucceeds, FlushRefused, FlushFails,
       AfterFlush, RestOfGatherer

LEMMA ManagingFrame ==
  ASSUME Managing
  PROVE  UNCHANGED <<ringVars, format, consumer, client, batch, failures, request>>
BY DEF Managing, PlanChanged, ServiceKnown, Manages, PullerRemoved, AddPuller, StopManager, Stops,
       StopCancelsFlush, StopKillsPullers, StopKillsLoop, StopReturns, RestOfManager

LEMMA AsksFrame == Asks => UNCHANGED <<ringVars, format, service, consumer, forwardVars>>
BY DEF Asks, AskForLogs, Streams, StreamFetches, StreamLooks, LogArrives, NoMoreLogs,
       StreamNotified, StreamEnds, RestOfRequest

LEMMA Steps == [Next]_vars => Serves \/ Pulls \/ Gathering \/ Managing \/ Asks \/ UNCHANGED vars
BY DEF Next, Serves, Gathering, Managing, Asks

(***************************************************************************)
(* The output of the service.                                              *)
(***************************************************************************)
LEMMA WriteType ==
  ASSUME BufferInv, OutputInv, NEW p \in Seq(Cell), WriteBytes(p)
  PROVE  written' \in Seq(Cell)
<1>1. WriteLength(p) \in 0 .. Len(p)
  BY SizeAssumption DEF SizeAssumption, WriteLength, Smaller
<1>2. SubSeq(p, 1, WriteLength(p)) \in Seq(Cell)
  BY <1>1
<1>3. written' = written \o SubSeq(p, 1, WriteLength(p))
  BY DEF WriteBytes, Store
<1> QED BY <1>2, <1>3 DEF OutputInv

LEMMA OutputKept == ASSUME BufferInv, OutputInv, [Next]_vars PROVE OutputInv'
<1>1. CASE Pulls \/ Gathering \/ Managing \/ Asks \/ UNCHANGED vars
  <2>1. UNCHANGED <<written, format>>
    BY <1>1, PullsFrame, GatheringFrame, ManagingFrame, AsksFrame DEF vars, ringVars, bufferVars
  <2> QED BY <2>1 DEF OutputInv
<1>2. CASE StartService \/ SignalReaders
  BY <1>2 DEF StartService, SignalReaders, SignalIterators, bufferVars, OutputInv
<1>3. ASSUME NEW p \in Output, ServiceWrites(p) PROVE OutputInv'
  <2>1. p \in Seq({"text", "end"})
    BY ForwardAssumption DEF ForwardAssumption
  <2> QED BY <1>3, <2>1 DEF ServiceWrites, bufferVars, OutputInv
<1>4. CASE FormatStamp
  <2>1. <<Stamp(format.line)>> \in Seq(Cell)
    BY DEF OutputInv, Stamp, Cell
  <2>2. written' \in Seq(Cell)
    BY <1>4, <2>1, WriteType DEF FormatStamp
  <2> QED BY <1>4, <2>2 DEF FormatStamp, OutputInv
<1>5. CASE FormatText
  <2>1. PICK n \in 1 .. Len(format.rest) :
          /\ WriteBytes([i \in 1 .. n |-> <<format.rest[i], format.line>>])
          /\ format' = [fresh |-> format.rest[n] = "end",
                        line |-> format.line + (IF format.rest[n] = "end" THEN 1 ELSE 0),
                        rest |-> SubSeq(format.rest, n + 1, Len(format.rest))]
    BY <1>5 DEF FormatText
  <2>2. format.rest \in Seq({"text", "end"}) /\ format.line \in Nat \ {0} /\ n \in Nat
    BY DEF OutputInv
  <2>3. \A i \in 1 .. n : <<format.rest[i], format.line>> \in Cell
    BY <2>2 DEF Cell
  <2>4. [i \in 1 .. n |-> <<format.rest[i], format.line>>] \in Seq(Cell)
    BY <2>2, <2>3
  <2>5. written' \in Seq(Cell)
    BY <2>1, <2>4, WriteType
  <2>6. /\ SubSeq(format.rest, n + 1, Len(format.rest)) \in Seq({"text", "end"})
        /\ (format.line + (IF format.rest[n] = "end" THEN 1 ELSE 0)) \in Nat \ {0}
    BY <2>2
  <2> QED BY <2>1, <2>5, <2>6 DEF OutputInv
<1> QED BY <1>1, <1>2, <1>3, <1>4, <1>5, Steps DEF Serves, Writes

(***************************************************************************)
(* The parsers.                                                            *)
(***************************************************************************)
LEMMA MinIs ==
  ASSUME NEW S \in SUBSET Nat, S # {}
  PROVE  Min(S) \in S /\ \A y \in S : Min(S) <= y
<1>1. PICK x \in S : \A y \in S : ~(<<y, x>> \in OpToRel(<, Nat))
  BY NatLessThanWellFounded, WFMin, Zenon
<1>2. \A y \in S : x <= y
  <2> SUFFICES ASSUME NEW y \in S, ~(x <= y) PROVE FALSE
    OBVIOUS
  <2>1. x \in Nat /\ y \in Nat /\ y < x
    OBVIOUS
  <2> QED BY <1>1, <2>1 DEF OpToRel
<1>3. Min(S) = CHOOSE z \in S : \A y \in S : z <= y
  BY DEF Min
<1> QED BY <1>2, <1>3

LEMMA ReadsType ==
  ASSUME BufferInv, OutputInv, RequestInv, NEW r \in Reader, ParserReads(r)
  PROVE  \E cells \in Seq(Cell), eof \in BOOLEAN :
           parser' = [parser EXCEPT ![r].buf = @ \o cells, ![r].eof = eof]
<1> DEFINE Fed(cells, eof) == parser' = [parser EXCEPT ![r].buf = @ \o cells, ![r].eof = eof]
<1>1. CASE ReadTrunc(r) /\ Fed(<<End(0), Gap>>, FALSE)
  <2>1. <<End(0), Gap>> \in Seq(Cell)
    BY ForwardAssumption DEF ForwardAssumption, End, Cell
  <2> QED BY <1>1, <2>1
<1>2. CASE Fed(<<>>, TRUE)
  <2>1. <<>> \in Seq(Cell)
    OBVIOUS
  <2> QED BY <1>2, <2>1
<1>3. ASSUME NEW room \in Room, ReadBytes(r, room),
             Fed(given'[r], iter'[r].index = writeIndex)
      PROVE  \E cells \in Seq(Cell), eof \in BOOLEAN : Fed(cells, eof)
  <2> DEFINE from == ReadFrom(iter[r])
             n == Smaller(writeIndex - from, room)
  <2>1. /\ given' = [given EXCEPT ![r] = Bytes(from, from + n)]
        /\ from >= readIndex /\ from < writeIndex
    BY <1>3 DEF ReadBytes
  <2>2. from \in Nat /\ readIndex \in Nat /\ writeIndex \in Nat /\ room \in Nat \ {0}
        /\ writeIndex = Len(written)
    BY <2>1, ForwardAssumption
    DEF ForwardAssumption, BufferInv, IterInv, Iterator, RingInv, RingHoldsTail, ReadFrom
  <2>3. n \in Nat /\ n > 0 /\ from + n <= writeIndex
    BY <2>1, <2>2 DEF Smaller
  <2> HIDE DEF from, n
  <2>4. Bytes(from, from + n) = SubSeq(written, from + 1, from + n)
    BY <2>1, <2>2, <2>3, BytesAreLog DEF BufferInv
  <2>5. SubSeq(written, from + 1, from + n) \in Seq(Cell)
    BY <2>2, <2>3 DEF OutputInv
  <2>6. given'[r] \in Seq(Cell)
    BY <2>1, <2>4, <2>5 DEF BufferInv, IterInv
  <2> QED BY <1>3, <2>6
<1> QED BY <1>1, <1>2, <1>3 DEF ParserReads

LEMMA SplitsType ==
  ASSUME RequestInv, NEW r \in Reader, NEW found \in BOOLEAN, ParserSplits(r, found)
  PROVE  \E new \in ParserState :
           /\ parser' = [parser EXCEPT ![r] = new]
           /\ found => new.entry # <<>>
           /\ new.eof <=> HasLine(r) /\ parser[r].eof
<1> DEFINE buf == parser[r].buf
           line == NextLine(r)
           rest == SubSeq(buf, Len(line) + 1, Len(buf))
           stamped == line # <<>> /\ IsStamp(line[1])
           last == IF stamped THEN line[1][2] ELSE parser[r].last
           text == IF stamped THEN Tail(line) ELSE line
           entry == IF found THEN [stamp |-> last, text |-> text] ELSE <<>>
           eof == HasLine(r) /\ parser[r].eof
           new == [buf |-> rest, eof |-> eof, last |-> last, entry |-> entry]
<1>1. buf \in Seq(Cell) /\ parser[r].last \in Nat /\ parser[r].eof \in BOOLEAN
  BY DEF RequestInv, ParserState
<1>2. line \in Seq(Cell) /\ Len(line) <= Len(buf)
  <2> DEFINE ends == {i \in 1 .. Len(buf) : EndsLine(buf[i])}
  <2>1. CASE ends = {}
    BY <1>1, <2>1 DEF NextLine
  <2>2. CASE ends # {}
    <3>1. ends \in SUBSET Nat
      BY <1>1
    <3>2. Min(ends) \in ends
      BY <2>2, <3>1, MinIs
    <3>3. Min(ends) \in 1 .. Len(buf) /\ line = SubSeq(buf, 1, Min(ends))
      BY <2>2, <3>2 DEF NextLine
    <3> HIDE DEF ends, line, buf
    <3> QED BY <1>1, <3>3
  <2> QED BY <2>1, <2>2
<1> HIDE DEF line
<1>3. rest \in Seq(Cell)
  BY <1>1, <1>2
<1>4. last \in Nat
  BY <1>1, <1>2 DEF Cell
<1>5. text \in Seq(Cell)
  BY <1>2
<1>6. found => text # <<>>
  BY DEF ParserSplits, line
<1>7. parser' = [parser EXCEPT ![r] = new]
  BY DEF ParserSplits, line
<1> HIDE DEF rest, last, text, buf
<1>8. entry \in LogEntry \cup {<<>>} /\ (found => entry # <<>>)
  <2>1. CASE found
    <3>1. [stamp |-> last, text |-> text] \in LogEntry
      BY <1>4, <1>5, <1>6, <2>1 DEF LogEntry
    <3>2. [stamp |-> last, text |-> text] # <<>>
      OBVIOUS
    <3> QED BY <2>1, <3>1, <3>2
  <2>2. CASE ~found
    BY <2>2
  <2> QED BY <2>1, <2>2
<1>9. eof \in BOOLEAN
  OBVIOUS
<1> HIDE DEF entry, eof
<1>10. new \in ParserState /\ new.entry = entry /\ new.eof = eof
  BY <1>3, <1>4, <1>8, <1>9 DEF ParserState
<1> QED BY <1>7, <1>8, <1>10 DEF eof

(***************************************************************************)
(* The requests.                                                           *)
(***************************************************************************)
LEMMA ReaderNames == "puller" \in Reader /\ "request" \in Reader
BY ForwardAssumption DEF ForwardAssumption

LEMMA ParserKept ==
  ASSUME RequestInv, NEW new \in ParserState, UNCHANGED request,
         \/ parser' = [parser EXCEPT !["puller"] = new]
         \/ UNCHANGED parser
  PROVE  RequestInv' /\ parser'["request"] = parser["request"]
BY ReaderNames DEF RequestInv, RequestState

LEMMA FedType ==
  ASSUME NEW old \in ParserState, NEW cells \in Seq(Cell), NEW eof \in BOOLEAN
  PROVE  [old EXCEPT !.buf = @ \o cells, !.eof = eof] \in ParserState
<1>1. old.buf \o cells \in Seq(Cell)
  BY DEF ParserState
<1> QED BY <1>1 DEF ParserState

LEMMA PullsRequest == ASSUME BufferInv, OutputInv, RequestInv, Pulls PROVE
  RequestInv' /\ parser'["request"] = parser["request"]
<1>1. UNCHANGED request
  BY PullsFrame
<1>2. parser["puller"] \in ParserState
  BY ReaderNames DEF RequestInv, RequestState
<1>3. CASE PullerLooks \/ PullerWakes \/ PullerGivesUp
  BY <1>1, <1>2, <1>3, ParserKept DEF PullerLooks, PullerWakes, PullerGivesUp
<1>4. CASE ParserReads("puller")
  <2>1. PICK cells \in Seq(Cell), eof \in BOOLEAN :
          parser' = [parser EXCEPT !["puller"].buf = @ \o cells, !["puller"].eof = eof]
    BY <1>4, ReadsType, ReaderNames
  <2> DEFINE new == [parser["puller"] EXCEPT !.buf = @ \o cells, !.eof = eof]
  <2>2. parser' = [parser EXCEPT !["puller"] = new]
    BY <2>1, ReaderNames DEF RequestInv, RequestState
  <2>3. new \in ParserState
    BY <1>2, FedType
  <2> QED BY <1>1, <2>2, <2>3, ParserKept
<1>5. ASSUME NEW found \in BOOLEAN, ParserSplits("puller", found)
      PROVE  RequestInv' /\ parser'["request"] = parser["request"]
  BY <1>1, <1>5, SplitsType, ParserKept, ReaderNames
<1>6. CASE PullerEnds
  <2>1. NewParser \in ParserState
    BY DEF NewParser, ParserState
  <2> QED BY <1>1, <1>6, <2>1, ParserKept DEF PullerEnds
<1> QED BY <1>3, <1>4, <1>5, <1>6 DEF Pulls, PullerParses

LEMMA GatheringRequest == ASSUME RequestInv, Gathering PROVE
  RequestInv' /\ parser'["request"] = parser["request"]
<1>1. UNCHANGED request
  BY GatheringFrame
<1>2. parser["puller"] \in ParserState
  BY ReaderNames DEF RequestInv, RequestState
<1>3. CASE GathererReceives
  <2> DEFINE new == [parser["puller"] EXCEPT !.entry = <<>>]
  <2>1. new \in ParserState
    BY <1>2 DEF ParserState
  <2>2. parser' = [parser EXCEPT !["puller"] = new]
    BY <1>3, ReaderNames DEF GathererReceives, RequestInv
  <2> QED BY <1>1, <2>1, <2>2, ParserKept
<1>4. CASE ~GathererReceives
  <2>1. UNCHANGED parser
    BY <1>4
    DEF Gathering, Gathers, GathererStops, FlushTimerFires, SendsLabels,
        GathererTakesLabels, FlushReturns, LokiFlushes, OpenTelemetryFlushes,
        SyslogStreamFlushes, SyslogDatagramsFlush, FlushSucceeds, FlushRefused, FlushFails,
        AfterFlush
  <2> QED BY <1>1, <1>2, <2>1, ParserKept
<1> QED BY <1>3, <1>4

LEMMA ManagingRequest == ASSUME RequestInv, Managing PROVE
  RequestInv' /\ parser'["request"] = parser["request"]
<1>1. UNCHANGED request
  BY ManagingFrame
<1>2. NewParser \in ParserState
  BY DEF NewParser, ParserState
<1>3. UNCHANGED parser \/ parser' = [parser EXCEPT !["puller"] = NewParser]
  BY DEF Managing, PlanChanged, ServiceKnown, Manages, PullerRemoved, AddPuller, NewPuller,
         StopManager, Stops, StopCancelsFlush, StopKillsPullers, StopKillsLoop, StopReturns
<1> QED BY <1>1, <1>2, <1>3, ParserKept

\* What a step of a request does with its parser and with what it knows.
LEMMA RequestMoves ==
  ASSUME RequestInv, NEW new \in ParserState, parser' = [parser EXCEPT !["request"] = new],
         NEW pc \in {"fetch", "more", "again", "entry", "nothing"},
         request' = [request EXCEPT !.pc = pc], pc = "entry" => new.entry # <<>>
  PROVE  RequestInv'
BY ReaderNames DEF RequestInv, RequestState

LEMMA FetchesRequest == ASSUME BufferInv, OutputInv, RequestInv, StreamFetches PROVE RequestInv'
<1> DEFINE old == parser["request"]
<1>1. old \in ParserState /\ request.pc \in {"fetch", "again"}
  BY ReaderNames DEF RequestInv, StreamFetches
<1>2. CASE ParserReads("request") /\ UNCHANGED request
  <2>1. PICK cells \in Seq(Cell), eof \in BOOLEAN :
          parser' = [parser EXCEPT !["request"].buf = @ \o cells, !["request"].eof = eof]
    BY <1>2, ReadsType, ReaderNames
  <2> DEFINE new == [old EXCEPT !.buf = @ \o cells, !.eof = eof]
  <2>2. parser' = [parser EXCEPT !["request"] = new]
    BY <2>1, ReaderNames DEF RequestInv, RequestState
  <2>3. new \in ParserState
    BY <1>1, FedType
  <2>4. request' = [request EXCEPT !.pc = request.pc]
    BY <1>2 DEF RequestInv, RequestState
  <2> QED BY <1>1, <2>2, <2>3, <2>4, RequestMoves
<1>3. ASSUME NEW found \in BOOLEAN, ParserSplits("request", found),
             NEW pc \in {"fetch", "more", "again", "entry", "nothing"},
             request' = [request EXCEPT !.pc = pc], pc = "entry" => found
      PROVE  RequestInv'
  BY <1>3, SplitsType, ReaderNames, RequestMoves
<1>4. CASE ParserSplits("request", TRUE) /\ RequestGoes("entry")
  BY <1>3, <1>4 DEF RequestGoes
<1>5. CASE /\ ParserSplits("request", FALSE)
           /\ RequestGoes(IF Skips("request") THEN request.pc
                          ELSE IF request.pc = "fetch" THEN "more" ELSE "nothing")
  BY <1>1, <1>3, <1>5 DEF RequestGoes
<1> QED BY <1>2, <1>4, <1>5 DEF StreamFetches

LEMMA AsksRequest == ASSUME BufferInv, OutputInv, RequestInv, Asks PROVE RequestInv'
<1> DEFINE old == parser["request"]
<1>1. old \in ParserState
  BY ReaderNames DEF RequestInv, RequestState
<1>2. ASSUME NEW n \in LogCount, NEW follow \in BOOLEAN, AskForLogs(n, follow) PROVE RequestInv'
  <2>1. /\ UNCHANGED parser
        /\ request' = [NoRequest EXCEPT !.pc = "fetch", !.follow = follow,
                          !.n = Effective(n, follow), !.since = format.line, !.end = writeIndex]
    BY <1>2 DEF AskForLogs
  <2>2. format.line \in Nat /\ writeIndex \in Nat
    BY DEF OutputInv, BufferInv, RingInv
  <2>3. Effective(n, follow) \in LogCount \cup {DefaultLogs, 0}
    BY DEF Effective
  <2>4. <<>> \in Seq(LogEntry)
    OBVIOUS
  <2>5. request' = [pc |-> "fetch", follow |-> follow, n |-> Effective(n, follow),
                    fifo |-> <<>>, shown |-> <<>>, since |-> format.line, end |-> writeIndex]
    BY <2>1 DEF NoRequest
  <2> HIDE DEF old
  <2> DEFINE count == Effective(n, follow)
  <2>6. count \in LogCount \cup {DefaultLogs, 0}
    BY <2>3
  <2> HIDE DEF count
  <2>7. request' \in RequestState /\ request'.pc = "fetch"
    BY <2>2, <2>4, <2>5, <2>6 DEF RequestState, count
  <2> QED BY <2>1, <2>7 DEF RequestInv, RequestState
<1>3. CASE StreamLooks \/ StreamNotified \/ StreamEnds
  BY <1>3 DEF StreamLooks, StreamNotified, StreamEnds, RequestGoes, RequestInv, RequestState
<1>4. CASE LogArrives
  <2> DEFINE entry == old.entry
             fifo == IF Len(request.fifo) = request.n THEN Tail(request.fifo) ELSE request.fifo
             new == [old EXCEPT !.entry = <<>>]
  <2>1. entry \in LogEntry /\ new \in ParserState
    BY <1>1, <1>4 DEF LogArrives, RequestInv, RequestState, ParserState
  <2>2. parser' = [parser EXCEPT !["request"] = new]
    BY <1>4, ReaderNames DEF LogArrives, RequestInv
  <2>3. parser' \in [Reader -> ParserState]
    BY <2>1, <2>2 DEF RequestInv, RequestState
  <2>4. request.fifo \in Seq(LogEntry) /\ request.shown \in Seq(LogEntry)
    BY DEF RequestInv, RequestState
  <2>5. CASE request' = [request EXCEPT !.pc = "end", !.shown = @ \o request.fifo, !.fifo = <<>>]
    <3>1. request.shown \o request.fifo \in Seq(LogEntry) /\ <<>> \in Seq(LogEntry)
      BY <2>4
    <3> QED BY <2>3, <2>5, <3>1 DEF RequestInv, RequestState
  <2>6. CASE /\ request.n > 0
             /\ request' = [request EXCEPT !.pc = "fetch", !.fifo = Append(fifo, entry)]
    <3>1. fifo \in Seq(LogEntry)
      BY <2>4, <2>6
    <3>2. Append(fifo, entry) \in Seq(LogEntry)
      BY <2>1, <3>1
    <3> HIDE DEF fifo, entry
    <3> QED BY <2>3, <2>6, <3>2 DEF RequestInv, RequestState
  <2>7. CASE request' = [request EXCEPT !.pc = "fetch", !.shown = Append(@, entry)]
    <3>1. Append(request.shown, entry) \in Seq(LogEntry)
      BY <2>1, <2>4
    <3> HIDE DEF entry
    <3> QED BY <2>3, <2>7, <3>1 DEF RequestInv, RequestState
  <2> QED BY <1>4, <2>5, <2>6, <2>7 DEF LogArrives
<1>5. CASE NoMoreLogs
  <2> DEFINE all == request.shown \o request.fifo
  <2>1. all \in Seq(LogEntry) /\ <<>> \in Seq(LogEntry)
    BY DEF RequestInv, RequestState
  <2> HIDE DEF all
  <2>2. /\ UNCHANGED parser
        /\ request' = [request EXCEPT !.shown = all, !.fifo = <<>>,
                                      !.n = IF request.follow THEN 0 ELSE @,
                                      !.pc = IF request.follow THEN "wait" ELSE "end"]
    BY <1>5 DEF NoMoreLogs, all
  <2> QED BY <2>1, <2>2 DEF RequestInv, RequestState
<1> QED BY <1>2, <1>3, <1>4, <1>5, FetchesRequest DEF Asks, Streams

LEMMA RequestKept == ASSUME BufferInv, OutputInv, RequestInv, [Next]_vars PROVE RequestInv'
<1>1. CASE Serves \/ UNCHANGED vars
  <2>1. UNCHANGED <<parser, request>>
    BY <1>1, ServesFrame DEF vars
  <2> QED BY <2>1 DEF RequestInv, RequestState
<1> QED BY <1>1, PullsRequest, GatheringRequest, ManagingRequest, AsksRequest, Steps

(***************************************************************************)
(* The gatherer, its client and the log manager.                           *)
(***************************************************************************)
BatchInv == GathererInv /\ CountInv /\ LabelsInv

LEMMA BatchFrame ==
  ASSUME BatchInv, UNCHANGED <<client, batch, failures>>,
         gatherer' = gatherer \/ gatherer' = [gatherer EXCEPT !.dying = TRUE]
           \/ gatherer' = [gatherer EXCEPT !.cancelled = TRUE],
         GathererInv'
  PROVE  BatchInv'
<1>1. gatherer'.pc = gatherer.pc /\ gatherer'.written = gatherer.written
  BY DEF BatchInv, GathererInv, GathererState
<1>2. CountInv'
  BY <1>1 DEF BatchInv, CountInv, Flushing
<1>3. LabelsInv'
  BY DEF BatchInv, LabelsInv, OwnLabels
<1> QED BY <1>2, <1>3 DEF BatchInv

LEMMA ServesBatch == ASSUME BatchInv, Serves \/ Asks \/ UNCHANGED vars PROVE BatchInv'
<1>1. UNCHANGED forwardVars
  BY ServesFrame, AsksFrame DEF vars
<1>2. service' \in {"new", "started", "known"}
  BY AsksFrame
  DEF BatchInv, GathererInv, Serves, StartService, ServiceWrites, Writes, FormatStamp, FormatText,
      SignalReaders, vars
<1>3. GathererInv'
  BY <1>1, <1>2 DEF BatchInv, GathererInv, forwardVars
<1> QED BY <1>1, <1>3, BatchFrame DEF forwardVars

LEMMA PullsBatch == ASSUME BatchInv, Pulls PROVE BatchInv'
<1>1. UNCHANGED <<gatherer, client, manager, stop, plan, batch, failures, service>>
  BY PullsFrame
<1>2. puller' \in PullerState
  <2>1. ASSUME NEW pc \in PullerPoint, PullerGoes(pc) PROVE puller' \in PullerState
    BY <2>1 DEF PullerGoes, BatchInv, GathererInv, PullerState
  <2>2. {"look", "wait", "parse", "send", "end", "dead"} \subseteq PullerPoint
    BY DEF PullerPoint
  <2>3. CASE PullerLooks \/ PullerWakes \/ PullerGivesUp \/ PullerEnds
    BY <2>1, <2>2, <2>3 DEF PullerLooks, PullerWakes, PullerGivesUp, PullerEnds
  <2>4. CASE PullerParses
    BY <2>1, <2>2, <2>4 DEF PullerParses, BatchInv, GathererInv
  <2> QED BY <2>3, <2>4 DEF Pulls
<1>3. GathererInv'
  BY <1>1, <1>2 DEF BatchInv, GathererInv
<1> QED BY <1>1, <1>3, BatchFrame

LEMMA ManagingBatch == ASSUME BatchInv, Managing PROVE BatchInv'
<1>1. UNCHANGED <<client, batch, failures>>
  BY ManagingFrame
<1> DEFINE Parts ==
             /\ \/ gatherer' = gatherer
                \/ gatherer' = [gatherer EXCEPT !.dying = TRUE]
                \/ gatherer' = [gatherer EXCEPT !.cancelled = TRUE]
             /\ plan'.labels \in Labels
             /\ manager' \in {"free", "remove", "unlabel", "label", "add", "stop"}
             /\ stop' \in {"none", "begin", "cancelled", "killed", "last", "done"}
             /\ service' \in {"new", "started", "known"}
<1>2. Parts
  <2>1. ASSUME NEW target \in BOOLEAN, NEW logs \in BOOLEAN, NEW labels \in Labels,
               PlanChanged(target, logs, labels)
        PROVE  Parts
    BY <2>1 DEF PlanChanged, Updates, BatchInv, GathererInv
  <2>2. CASE ServiceKnown \/ Manages
    BY <2>2 DEF ServiceKnown, Manages, PullerRemoved, AddPuller, BatchInv, GathererInv
  <2>3. CASE StopManager \/ Stops
    BY <2>3
    DEF StopManager, Stops, StopCancelsFlush, StopKillsPullers, StopKillsLoop, StopReturns,
        BatchInv, GathererInv
  <2> QED BY <2>1, <2>2, <2>3 DEF Managing
<1>3. puller' \in PullerState
  <2>1. UNCHANGED puller \/ puller' = NoPuller
          \/ puller' = [pc |-> "look", dying |-> FALSE, known |-> TRUE]
          \/ \E b \in BOOLEAN : puller' = [puller EXCEPT !.dying = b]
    <3>1. ASSUME NEW target \in BOOLEAN, NEW logs \in BOOLEAN, NEW labels \in Labels,
                 PlanChanged(target, logs, labels)
          PROVE  UNCHANGED puller \/ \E b \in BOOLEAN : puller' = [puller EXCEPT !.dying = b]
      BY <3>1 DEF PlanChanged, BatchInv, GathererInv
    <3>2. CASE ServiceKnown \/ Manages \/ StopManager \/ Stops
      BY <3>2
      DEF ServiceKnown, Manages, PullerRemoved, AddPuller, NewPuller, StopManager, Stops,
          StopCancelsFlush, StopKillsPullers, StopKillsLoop, StopReturns
    <3> QED BY <3>1, <3>2 DEF Managing
  <2>2. puller \in PullerState
    BY DEF BatchInv, GathererInv
  <2>3. NoPuller \in PullerState
    BY DEF NoPuller, PullerState, PullerPoint
  <2>4. [pc |-> "look", dying |-> FALSE, known |-> TRUE] \in PullerState
    BY DEF PullerState, PullerPoint
  <2>5. \A b \in BOOLEAN : [puller EXCEPT !.dying = b] \in PullerState
    BY <2>2 DEF PullerState
  <2> QED BY <2>1, <2>2, <2>3, <2>4, <2>5
<1>4. GathererInv'
  <2>1. gatherer' \in GathererState
    BY <1>2 DEF BatchInv, GathererInv, GathererState
  <2> QED BY <1>1, <1>2, <1>3, <2>1 DEF BatchInv, GathererInv
<1> QED BY <1>1, <1>2, <1>4, BatchFrame

(***************************************************************************)
(* The main loop: what is collected, and the flush before other labels.    *)
(***************************************************************************)
LEMMA ReceivesBatch == ASSUME RequestInv, BatchInv, GathererReceives PROVE BatchInv'
<1> DEFINE n == gatherer.written + 1
           entry == parser["puller"].entry
           old == IF Len(client.entries) >= MaxEntries THEN Tail(client.entries)
                                                       ELSE client.entries
           item == [entry |-> entry, labels |-> client.labels, failed |-> FALSE]
           all == Append(old, item)
<1>1. /\ client' = [client EXCEPT !.entries = all]
      /\ puller' = [puller EXCEPT !.pc = "parse"]
      /\ gatherer' = [gatherer EXCEPT !.written = n,
                         !.pc = IF n >= MaxEntries THEN "flush" ELSE "select",
                         !.timer = n < MaxEntries]
      /\ UNCHANGED <<manager, batch, failures, service, plan, stop>>
      /\ gatherer.pc = "select"
  BY DEF GathererReceives, Added, PullerGoes, RestOfGatherer
<1>2. MaxEntries \in Nat \ {0}
  BY ForwardAssumption DEF ForwardAssumption
<1>3. client.entries \in Seq(Item) /\ client.labels \in Labels \cup {NoLabels}
  BY DEF BatchInv, GathererInv
<1>4. item \in Item
  BY <1>3, ReaderNames DEF RequestInv, ParserState, Item
<1>5. /\ old \in Seq(Item) /\ Len(old) < MaxEntries
      /\ Len(old) + 1 >= Len(client.entries) /\ Len(client.entries) \in Nat
      /\ Len(client.entries) < MaxEntries => Len(old) = Len(client.entries)
      /\ Len(client.entries) = MaxEntries => Len(old) + 1 = MaxEntries
      /\ \A i \in 1 .. Len(old) : \E j \in 1 .. Len(client.entries) : old[i] = client.entries[j]
  <2>1. Len(client.entries) \in Nat /\ Len(client.entries) <= MaxEntries
    BY <1>3 DEF BatchInv, CountInv
  <2>2. CASE Len(client.entries) >= MaxEntries
    <3>1. old = Tail(client.entries) /\ client.entries # <<>>
      BY <1>2, <1>3, <2>2
    <3> HIDE DEF old
    <3>2. Len(old) = Len(client.entries) - 1 /\ old \in Seq(Item)
      BY <1>3, <3>1
    <3>3. \A i \in 1 .. Len(old) : old[i] = client.entries[i + 1]
      BY <1>3, <3>1, <3>2
    <3> QED BY <1>2, <1>3, <2>1, <2>2, <3>2, <3>3
  <2>3. CASE Len(client.entries) < MaxEntries
    BY <1>2, <1>3, <2>1, <2>3
  <2> QED BY <1>2, <2>1, <2>2, <2>3
<1> HIDE DEF old
<1>6. /\ all \in Seq(Item) /\ Len(all) = Len(old) + 1 /\ all[Len(all)] = item
      /\ \A i \in 1 .. Len(old) : all[i] = old[i]
  BY <1>4, <1>5
<1> HIDE DEF all, item, entry
<1>7. n \in Nat /\ gatherer.written < MaxEntries /\ gatherer.written <= Len(client.entries)
  BY <1>1 DEF BatchInv, GathererInv, GathererState, CountInv, Flushing
<1>8. client' \in [entries : Seq(Item), labels : Labels \cup {NoLabels}]
      /\ client'.entries = all /\ client'.labels = client.labels
  BY <1>1, <1>6 DEF BatchInv, GathererInv
<1>9. GathererInv'
  <2>1. gatherer' \in GathererState
    <3>1. PICK pc \in {"flush", "select"}, timer \in BOOLEAN :
            gatherer' = [gatherer EXCEPT !.written = n, !.pc = pc, !.timer = timer]
      <4>1. CASE n < MaxEntries
        <5>1. ~(n >= MaxEntries) /\ (n < MaxEntries) = TRUE
          BY <1>2, <1>7, <4>1
        <5> HIDE DEF n
        <5>2. gatherer' = [gatherer EXCEPT !.written = n, !.pc = "select", !.timer = TRUE]
          BY <1>1, <5>1
        <5> QED BY <5>2
      <4>2. CASE n >= MaxEntries
        <5>1. (n < MaxEntries) = FALSE
          BY <1>2, <1>7, <4>2
        <5> HIDE DEF n
        <5>2. gatherer' = [gatherer EXCEPT !.written = n, !.pc = "flush", !.timer = FALSE]
          BY <1>1, <4>2, <5>1
        <5> QED BY <5>2
      <4>3. n < MaxEntries \/ n >= MaxEntries
        <5> HIDE DEF n
        <5> QED BY <1>2, <1>7
      <4> QED BY <4>1, <4>2, <4>3
    <3> QED BY <1>7, <3>1 DEF BatchInv, GathererInv, GathererState
  <2>2. puller' \in PullerState
    BY <1>1 DEF BatchInv, GathererInv, PullerState, PullerPoint
  <2>3. UNCHANGED <<plan, manager, stop, service, failures>>
    BY <1>1
  <2> QED BY <1>8, <2>1, <2>3, <2>2 DEF BatchInv, GathererInv
<1>10. CountInv'
  <2>1. Len(all) <= MaxEntries
    BY <1>2, <1>5, <1>6
  <2>2. n <= Len(all)
    <3>1. gatherer.written \in Nat
      BY DEF BatchInv, GathererInv, GathererState
    <3>2. CASE Len(client.entries) = MaxEntries
      BY <1>2, <1>5, <1>6, <1>7, <3>1, <3>2
    <3>3. CASE Len(client.entries) < MaxEntries
      BY <1>2, <1>5, <1>6, <1>7, <3>1, <3>3
    <3> QED BY <1>2, <1>3, <3>2, <3>3 DEF BatchInv, CountInv
  <2>3. ~Flushing' => n < MaxEntries /\ gatherer'.written = n
    BY <1>1, <1>2, <1>7 DEF BatchInv, GathererInv, GathererState, Flushing
  <2> QED BY <1>8, <2>1, <2>2, <2>3 DEF CountInv
<1>11. LabelsInv'
  <2>1. ASSUME NEW i \in 1 .. Len(all) PROVE all[i].labels = client.labels \/ all[i].failed
    <3>1. CASE i = Len(all)
      BY <1>6, <3>1 DEF item
    <3>2. CASE i # Len(all)
      <4>1. i \in 1 .. Len(old) /\ all[i] = old[i]
        BY <1>5, <1>6, <3>2
      <4> QED BY <1>5, <4>1 DEF BatchInv, LabelsInv
    <3> QED BY <3>1, <3>2
  <2>2. UNCHANGED batch
    BY <1>1
  <2> QED BY <1>8, <2>1, <2>2 DEF BatchInv, LabelsInv, OwnLabels
<1> QED BY <1>9, <1>10, <1>11 DEF BatchInv

\* A flush that sends what there is, and leaves entries behind only as failed ones.
LEMMA FlushBatch ==
  ASSUME BatchInv, Flushing, NEW c, AfterFlush(c), NEW sent \in 0 .. Len(client.entries),
         batch' = batch \/ batch' = Delivered(sent),
         c = [client EXCEPT !.entries = <<>>]
           \/ \E gone \in 0 .. Len(client.entries) : c = [client EXCEPT !.entries = Kept(gone)],
         failures' \in 0 .. MaxFailures
  PROVE  BatchInv'
<1>1. client.entries \in Seq(Item) /\ client.labels \in Labels \cup {NoLabels}
  BY DEF BatchInv, GathererInv
<1> DEFINE Leaves(rest) ==
             /\ c = [client EXCEPT !.entries = rest]
             /\ Len(rest) <= Len(client.entries) /\ Len(rest) \in Nat
             /\ \A i \in 1 .. Len(rest) : rest[i].failed
<1>2. PICK rest \in Seq(Item) : Leaves(rest)
  <2>1. CASE c = [client EXCEPT !.entries = <<>>]
    <3>1. <<>> \in Seq(Item) /\ Len(<<>>) = 0 /\ Len(client.entries) \in Nat
      BY <1>1
    <3>2. Leaves(<<>>)
      BY <2>1, <3>1
    <3> QED BY <3>1, <3>2
  <2>2. ASSUME NEW gone \in 0 .. Len(client.entries), c = [client EXCEPT !.entries = Kept(gone)]
        PROVE  Leaves(Kept(gone)) /\ Kept(gone) \in Seq(Item)
    <3> DEFINE m == Len(client.entries) - gone
    <3>1. m \in Nat /\ m <= Len(client.entries)
      BY <1>1
    <3>2. ASSUME NEW i \in 1 .. m
          PROVE  /\ [client.entries[gone + i] EXCEPT !.failed = TRUE] \in Item
                 /\ [client.entries[gone + i] EXCEPT !.failed = TRUE].failed
      <4>1. gone + i \in 1 .. Len(client.entries)
        BY <1>1
      <4>2. client.entries[gone + i] \in Item
        BY <1>1, <4>1
      <4> QED BY <4>2 DEF Item
    <3>3. Kept(gone) = [i \in 1 .. m |-> [client.entries[gone + i] EXCEPT !.failed = TRUE]]
      BY DEF Kept
    <3> HIDE DEF m
    <3>4. Kept(gone) \in Seq(Item) /\ Len(Kept(gone)) = m
      BY <3>1, <3>2, <3>3
    <3>5. \A i \in 1 .. m : Kept(gone)[i].failed
      BY <3>2, <3>3
    <3> QED BY <2>2, <3>1, <3>4, <3>5
  <2> QED BY <2>1, <2>2
<1>3. PICK l \in Labels \cup {NoLabels} : client' = [client EXCEPT !.entries = rest, !.labels = l]
  <2>1. client' = IF gatherer.labels = <<>> THEN c ELSE [c EXCEPT !.labels = gatherer.labels[1]]
    BY DEF AfterFlush
  <2>2. client \in [entries : Seq(Item), labels : Labels \cup {NoLabels}]
        /\ c = [client EXCEPT !.entries = rest]
    BY <1>2 DEF BatchInv, GathererInv
  <2>3. CASE gatherer.labels = <<>>
    <3>1. client' = [client EXCEPT !.entries = rest, !.labels = client.labels]
      BY <2>1, <2>2, <2>3
    <3> QED BY <1>1, <3>1
  <2>4. CASE gatherer.labels # <<>>
    <3>1. PICK l \in Labels \cup {NoLabels} : gatherer.labels = <<l>>
      BY <2>4 DEF BatchInv, GathererInv, GathererState, Pending
    <3>2. client' = [client EXCEPT !.entries = rest, !.labels = l]
      BY <2>1, <2>2, <2>4, <3>1
    <3> QED BY <3>2
  <2> QED BY <2>3, <2>4
<1>4. /\ gatherer' = [gatherer EXCEPT !.pc = IF @ = "final" THEN "dead" ELSE "select",
                                      !.written = 0, !.labels = <<>>]
      /\ UNCHANGED <<puller, manager, service, stop, plan>>
  BY DEF AfterFlush, RestOfGatherer
<1>5. client' \in [entries : Seq(Item), labels : Labels \cup {NoLabels}] /\ client'.entries = rest
  BY <1>2, <1>3 DEF BatchInv, GathererInv
<1>6. GathererInv'
  <2>1. gatherer' \in GathererState
    BY <1>4 DEF BatchInv, GathererInv, GathererState, Pending
  <2> QED BY <1>4, <1>5, <2>1 DEF BatchInv, GathererInv
<1>7. CountInv'
  <2>1. MaxEntries \in Nat \ {0} /\ gatherer'.written = 0
    BY <1>4, ForwardAssumption DEF ForwardAssumption, BatchInv, GathererInv, GathererState
  <2>2. Len(client.entries) \in Nat /\ Len(client.entries) <= MaxEntries
    BY <1>1 DEF BatchInv, CountInv
  <2> QED BY <1>2, <1>5, <2>1, <2>2 DEF CountInv
<1>8. LabelsInv'
  <2>1. \A i \in 1 .. Len(client'.entries) : client'.entries[i].failed
    BY <1>2, <1>5
  <2>2. CASE batch' = batch
    BY <2>1, <2>2 DEF BatchInv, LabelsInv, OwnLabels
  <2>3. CASE batch' = Delivered(sent)
    <3>1. Len(batch') = sent /\ sent <= Len(client.entries) /\ Len(client.entries) \in Nat
      BY <1>1, <2>3 DEF Delivered
    <3>2. ASSUME NEW i \in 1 .. sent
          PROVE  batch'[i].labels = batch'[i].item.labels \/ batch'[i].item.failed
      <4>1. batch'[i].labels = client.labels /\ batch'[i].item = client.entries[i]
        BY <2>3 DEF Delivered
      <4>2. i \in 1 .. Len(client.entries)
        BY <3>1
      <4> QED BY <4>1, <4>2 DEF BatchInv, LabelsInv
    <3> QED BY <2>1, <3>1, <3>2 DEF LabelsInv, OwnLabels
  <2> QED BY <2>2, <2>3
<1> QED BY <1>6, <1>7, <1>8 DEF BatchInv

LEMMA GatheringBatch == ASSUME RequestInv, BatchInv, Gathering PROVE BatchInv'
<1>1. Len(client.entries) \in Nat /\ MaxFailures \in Nat
  BY ForwardAssumption DEF ForwardAssumption, BatchInv, GathererInv
<1>2. CASE FlushTimerFires \/ GathererStops \/ SendsLabels
  <2>1. UNCHANGED <<puller, client, batch, failures, service, stop, plan>>
    BY <1>2 DEF FlushTimerFires, GathererStops, SendsLabels, GathererTakesLabels, RestOfGatherer
  <2>2. PICK pc \in {"flush", "final"}, ls \in Pending :
          gatherer' = [gatherer EXCEPT !.pc = pc, !.timer = FALSE, !.labels = ls]
    <3>1. gatherer \in GathererState
      BY DEF BatchInv, GathererInv
    <3>2. CASE FlushTimerFires \/ GathererStops
      <4>1. PICK pc \in {"flush", "final"} :
              gatherer' = [gatherer EXCEPT !.pc = pc, !.timer = FALSE]
        BY <3>2 DEF FlushTimerFires, GathererStops
      <4>2. gatherer.labels \in Pending
        BY <3>1 DEF GathererState
      <4>3. gatherer' = [gatherer EXCEPT !.pc = pc, !.timer = FALSE, !.labels = gatherer.labels]
        BY <3>1, <4>1 DEF GathererState
      <4> QED BY <4>2, <4>3
    <3>3. CASE SendsLabels
      <4>1. PICK l \in Labels \cup {NoLabels} :
              gatherer' = [gatherer EXCEPT !.pc = "flush", !.timer = FALSE, !.labels = <<l>>]
        BY <3>3 DEF SendsLabels, GathererTakesLabels, BatchInv, GathererInv
      <4> QED BY <4>1 DEF Pending
    <3> QED BY <1>2, <3>2, <3>3
  <2>3. manager' \in {"free", "remove", "unlabel", "label", "add", "stop"}
    BY <1>2
    DEF FlushTimerFires, GathererStops, SendsLabels, GathererTakesLabels, BatchInv, GathererInv
  <2>4. GathererInv' /\ gatherer'.pc = pc
    <3>1. gatherer' \in GathererState /\ gatherer'.pc = pc
      BY <2>2 DEF BatchInv, GathererInv, GathererState
    <3> QED BY <2>1, <2>3, <3>1 DEF BatchInv, GathererInv
  <2>5. Flushing'
    BY <2>4 DEF Flushing
  <2> QED BY <2>1, <2>4, <2>5 DEF BatchInv, CountInv, LabelsInv, OwnLabels
<1>3. CASE FlushSucceeds
  BY <1>1, <1>3, FlushBatch DEF FlushSucceeds, BatchInv, GathererInv
<1>4. CASE FlushRefused
  <2>1. failures' \in 0 .. MaxFailures
    BY <1>1, <1>4 DEF FlushRefused, BatchInv, GathererInv
  <2> QED BY <1>1, <1>4, <2>1, FlushBatch DEF FlushRefused
<1>5. ASSUME NEW sent \in 0 .. Len(client.entries), NEW gone \in 0 .. Len(client.entries),
             FlushFails(sent, gone)
      PROVE  BatchInv'
  <2>1. failures' \in 0 .. MaxFailures
    BY <1>1, <1>5 DEF FlushFails, BatchInv, GathererInv
  <2> QED BY <1>1, <1>5, <2>1, FlushBatch DEF FlushFails
<1>6. CASE FlushReturns
  <2>1. ASSUME NEW n \in 0 .. Len(client.entries) - 1 PROVE n \in 0 .. Len(client.entries)
    BY <1>1
  <2>2. 0 \in 0 .. Len(client.entries)
    BY <1>1
  <2> QED BY <1>3, <1>4, <1>5, <1>6, <2>1, <2>2
      DEF FlushReturns, LokiFlushes, OpenTelemetryFlushes, SyslogStreamFlushes, SyslogDatagramsFlush
<1> QED BY <1>2, <1>6, ReceivesBatch DEF Gathering, Gathers

LEMMA BatchKept == ASSUME RequestInv, BatchInv, [Next]_vars PROVE BatchInv'
BY ServesBatch, PullsBatch, GatheringBatch, ManagingBatch, Steps

(***************************************************************************)
(* Who waits, and who signals.                                             *)
(***************************************************************************)
\* A write leaves a token to send.
LEMMA ServesSignals ==
  ASSUME Serves
  PROVE  \/ UNCHANGED <<readIndex, writeIndex, signal, iter>>
         \/ signal' /\ UNCHANGED iter
         \/ SignalIterators
<1>1. CASE FormatStamp
  BY <1>1 DEF FormatStamp, WriteBytes, Store
<1>2. CASE FormatText
  BY <1>2 DEF FormatText, WriteBytes, Store
<1> QED BY <1>1, <1>2
        DEF Serves, StartService, ServiceWrites, Writes, SignalReaders, bufferVars

LEMMA SignalSets ==
  ASSUME SignalIterators, iter \in [Reader -> Iterator], NEW r \in Reader
  PROVE  /\ iter'[r] \in Iterator /\ UNCHANGED <<readIndex, writeIndex>>
         /\ iter'[r].open = iter[r].open /\ iter'[r].listens = iter[r].listens
         /\ iter'[r].next = (iter[r].next \/ iter[r].open) /\ iter'[r].notify = iter[r].listens
BY DEF SignalIterators, Iterator

LEMMA TruncatedKeeps ==
  ASSUME NEW i \in Iterator
  PROVE  /\ Truncated(i).open = i.open /\ Truncated(i).listens = i.listens
         /\ Truncated(i).notify = i.notify /\ Truncated(i).next = i.next
<1> DEFINE b == i.trunc \/ ~i.truncWritten
<1>1. Truncated(i) = [i EXCEPT !.index = TailPosition, !.trunc = b]
  BY DEF Truncated
<1> HIDE DEF b
<1> QED BY <1>1 DEF Iterator

\* Nothing changes for those at the end as long as nobody writes and their iterator stays.
LEMMA CheckedTwice ==
  ASSUME NEW i \in Iterator
  PROVE  /\ ~Overtaken(Checked(i)) /\ Checked(Checked(i)) = Checked(i)
         /\ Checked(i) \in Iterator
         /\ Checked(i).open = i.open /\ Checked(i).listens = i.listens
         /\ Checked(i).notify = i.notify /\ Checked(i).next = i.next
<1>1. CASE Overtaken(i)
  <2>1. Checked(i) = Truncated(i)
    BY <1>1 DEF Checked
  <2>2. /\ Truncated(i) \in Iterator /\ Truncated(i).index = TailPosition
        /\ Truncated(i).open = i.open /\ Truncated(i).listens = i.listens
        /\ Truncated(i).notify = i.notify /\ Truncated(i).next = i.next
    BY TruncatedKeeps, TruncatedSet
  <2>3. ~Overtaken(Truncated(i))
    BY <2>2 DEF Overtaken
  <2> QED BY <2>1, <2>2, <2>3 DEF Checked
<1>2. CASE ~Overtaken(i)
  BY <1>2 DEF Checked
<1> QED BY <1>1, <1>2

LEMMA LookSets ==
  ASSUME BufferInv, NEW r \in Reader, Look(r)
  PROVE  /\ iter'[r] \in Iterator /\ iter' = [iter EXCEPT ![r] = iter'[r]]
         /\ iter'[r].open = iter[r].open /\ iter'[r].listens = iter[r].listens
         /\ iter'[r].notify = iter[r].notify
         /\ ~Overtaken(iter'[r]) /\ (~HasMore(iter'[r]) => AtEnd(iter'[r]))
<1> DEFINE i == [iter[r] EXCEPT !.next = FALSE]
<1>1. iter' = [iter EXCEPT ![r] = Checked(i)] /\ iter \in [Reader -> Iterator]
  BY DEF Look, BufferInv, IterInv
<1>2. i \in Iterator /\ i.open = iter[r].open /\ i.listens = iter[r].listens
      /\ i.notify = iter[r].notify
  BY <1>1 DEF Iterator
<1>3. iter'[r] = Checked(i)
  BY <1>1
<1> HIDE DEF i
<1> QED BY <1>1, <1>2, <1>3, CheckedTwice DEF AtEnd

\* What a parser's read does with its iterator.
LEMMA ReadsIter ==
  ASSUME BufferInv, NEW r \in Reader, ParserReads(r)
  PROVE  /\ \A s \in Reader \ {r} : iter'[s] = iter[s]
         /\ iter'[r].open = iter[r].open /\ iter'[r].listens = iter[r].listens
         /\ iter'[r].notify = iter[r].notify
<1>1. iter \in [Reader -> Iterator]
  BY DEF BufferInv, IterInv
<1>2. iter[r] \in Iterator
  BY <1>1
<1>3. CASE ReadTrunc(r) \/ ReadNothing(r)
  <2>1. UNCHANGED iter \/ iter' = [iter EXCEPT ![r].trunc = FALSE, ![r].truncWritten = TRUE]
    BY <1>3 DEF ReadTrunc, ReadNothing
  <2> QED BY <1>1, <1>2, <2>1 DEF Iterator
<1>4. CASE ReadOvertaken(r)
  <2>1. iter' = [iter EXCEPT ![r] = Truncated(iter[r])]
    BY <1>4 DEF ReadOvertaken
  <2> QED BY <1>1, <1>2, <2>1, TruncatedKeeps
<1>5. ASSUME NEW room \in Room, ReadBytes(r, room)
      PROVE  \E to : iter' = [iter EXCEPT ![r].index = to, ![r].truncWritten = FALSE]
  BY <1>5 DEF ReadBytes
<1>6. ASSUME NEW to, iter' = [iter EXCEPT ![r].index = to, ![r].truncWritten = FALSE]
      PROVE  /\ \A s \in Reader \ {r} : iter'[s] = iter[s]
             /\ iter'[r].open = iter[r].open /\ iter'[r].listens = iter[r].listens
             /\ iter'[r].notify = iter[r].notify
  BY <1>1, <1>2, <1>6 DEF Iterator
<1> QED BY <1>3, <1>4, <1>5, <1>6 DEF ParserReads

\* Without an overtaking in between, the data ends where the buffer does.
LEMMA ReadsEnd ==
  ASSUME BufferInv, NEW r \in Reader, ParserReads(r), parser \in [Reader -> ParserState],
         ~Overtaken(iter[r])
  PROVE  ~Overtaken(iter'[r]) /\ (parser'[r].eof => AtEnd(iter'[r]))
<1>1. /\ iter \in [Reader -> Iterator] /\ readIndex \in Nat /\ writeIndex \in Nat
      /\ iter[r].index \in Int
      /\ writeIndex > 0 => readIndex < writeIndex
  BY DEF BufferInv, IterInv, RingInv, Iterator
<1> DEFINE Fed(cells, eof) == parser' = [parser EXCEPT ![r].buf = @ \o cells, ![r].eof = eof]
<1>2. \A cells, eof : Fed(cells, eof) => parser'[r].eof = eof
  BY DEF ParserState
<1>3. CASE ReadTrunc(r) /\ Fed(<<End(0), Gap>>, FALSE)
  <2>1. ~parser'[r].eof
    BY <1>2, <1>3
  <2>2. iter'[r].index = iter[r].index
    BY <1>1, <1>3 DEF ReadTrunc, Iterator
  <2> QED BY <2>1, <2>2 DEF Overtaken
<1>4. CASE ReadOvertaken(r)
  BY <1>1, <1>4 DEF ReadOvertaken, ReadFrom, Overtaken
<1>5. CASE ReadNothing(r)
  <2>1. iter' = iter /\ ~iter[r].trunc /\ ReadFrom(iter[r]) = writeIndex
    BY <1>5 DEF ReadNothing
  <2>2. ~(writeIndex # 0 /\ iter[r].index < writeIndex)
    <3>1. CASE iter[r].index = TailPosition
      BY <1>1, <2>1, <3>1 DEF ReadFrom
    <3>2. CASE iter[r].index # TailPosition
      BY <1>1, <2>1, <3>2 DEF ReadFrom
    <3> QED BY <3>1, <3>2
  <2>3. Checked(iter[r]) = iter[r]
    BY DEF Checked
  <2> QED BY <2>1, <2>2, <2>3 DEF AtEnd, HasMore
<1>6. ASSUME NEW room \in Room, ReadBytes(r, room),
             Fed(given'[r], iter'[r].index = writeIndex)
      PROVE  ~Overtaken(iter'[r]) /\ (parser'[r].eof => AtEnd(iter'[r]))
  <2> DEFINE from == ReadFrom(iter[r])
             to == from + Smaller(writeIndex - from, room)
  <2>1. /\ iter' = [iter EXCEPT ![r].index = to, ![r].truncWritten = FALSE]
        /\ ~iter[r].trunc /\ from >= readIndex
    BY <1>6 DEF ReadBytes
  <2>2. from \in Int /\ room \in Nat
    <3>1. room \in Nat
      BY ForwardAssumption DEF ForwardAssumption
    <3>2. from \in Int
      BY <1>1 DEF ReadFrom
    <3> QED BY <3>1, <3>2
  <2>3. to \in Int /\ to >= readIndex
    BY <1>1, <1>6, <2>1, <2>2 DEF ReadBytes, Smaller
  <2> HIDE DEF from, to
  <2>4. iter'[r].index = to /\ ~iter'[r].trunc
    BY <1>1, <2>1 DEF Iterator
  <2>5. ~Overtaken(iter'[r])
    BY <1>1, <2>3, <2>4 DEF Overtaken
  <2>6. parser'[r].eof = (iter'[r].index = writeIndex)
    BY <1>2, <1>6
  <2>7. Checked(iter'[r]) = iter'[r]
    BY <2>5 DEF Checked
  <2>8. ~(writeIndex < writeIndex)
    BY <1>1
  <2> QED BY <2>4, <2>5, <2>6, <2>7, <2>8 DEF AtEnd, HasMore
<1> QED BY <1>3, <1>4, <1>5, <1>6 DEF ParserReads

LEMMA EndPrimed ==
  ASSUME UNCHANGED <<readIndex, writeIndex>>, NEW r
  PROVE  /\ AtEnd(iter[r])' <=> AtEnd(iter'[r])
         /\ Overtaken(iter[r])' <=> Overtaken(iter'[r])
BY DEF AtEnd, HasMore, Checked, Truncated, Overtaken

LEMMA PullerWaits == ASSUME BufferInv, BufferInv', BatchInv, PullerInv, [Next]_vars PROVE PullerInv'
<1>1. iter \in [Reader -> Iterator] /\ iter' \in [Reader -> Iterator]
  BY DEF BufferInv, IterInv
<1>2. puller \in PullerState /\ "puller" \in Reader
  BY ReaderNames DEF BatchInv, GathererInv
<1>3. CASE Serves
  <2>1. UNCHANGED puller
    BY <1>3, ServesFrame DEF forwardVars
  <2>2. CASE UNCHANGED <<readIndex, writeIndex, signal, iter>>
    BY <2>1, <2>2, EndPrimed DEF PullerInv
  <2>3. CASE signal' /\ UNCHANGED iter
    BY <2>1, <2>3 DEF PullerInv
  <2>4. CASE SignalIterators
    <3>1. /\ iter'["puller"].open = iter["puller"].open
          /\ iter'["puller"].next = (iter["puller"].next \/ iter["puller"].open)
      BY <1>1, <1>2, <2>4, SignalSets
    <3> QED BY <2>1, <3>1 DEF PullerInv
  <2> QED BY <1>3, <2>2, <2>3, <2>4, ServesSignals
<1>4. CASE Pulls
  <2>1. UNCHANGED <<readIndex, writeIndex, signal>>
    BY <1>4, PullsFrame DEF ringVars
  <2>2. CASE PullerLooks \/ PullerWakes
    <3>1. /\ Look("puller") /\ puller.pc \in {"look", "wait"}
          /\ puller'.pc = "wait" => ~HasMore(iter'["puller"])
      BY <1>2, <2>2 DEF PullerLooks, PullerWakes, PullerGoes, PullerState
    <3>2. /\ iter'["puller"].open = iter["puller"].open
          /\ ~HasMore(iter'["puller"]) => AtEnd(iter'["puller"])
      BY <1>2, <3>1, LookSets
    <3> QED BY <2>1, <3>1, <3>2, EndPrimed DEF PullerInv
  <2>3. CASE PullerParses
    <3>1. puller.pc = "parse" /\ puller'.pc \in {"parse", "send", "look"}
      BY <1>2, <2>3 DEF PullerParses, PullerGoes, PullerState
    <3>2. ParserReads("puller") \/ UNCHANGED iter
      BY <2>3 DEF PullerParses, ParserSplits
    <3>3. iter'["puller"].open = iter["puller"].open
      BY <1>2, <3>2, ReadsIter
    <3> QED BY <3>1, <3>3 DEF PullerInv
  <2>4. CASE PullerGivesUp
    BY <1>2, <2>4 DEF PullerGivesUp, PullerGoes, PullerState, PullerInv
  <2>5. CASE PullerEnds
    BY <1>2, <2>5 DEF PullerEnds, PullerGoes, PullerState, PullerInv
  <2> QED BY <1>4, <2>2, <2>3, <2>4, <2>5 DEF Pulls
<1>5. CASE Gathering
  <2>1. UNCHANGED <<readIndex, writeIndex, signal, iter>>
    BY <1>5, GatheringFrame DEF bufferVars
  <2>2. UNCHANGED puller \/ (puller.pc = "send" /\ puller' = [puller EXCEPT !.pc = "parse"])
    BY <1>5
    DEF Gathering, Gathers, GathererStops, GathererReceives, FlushTimerFires, SendsLabels,
        GathererTakesLabels, FlushReturns, LokiFlushes, OpenTelemetryFlushes, PullerGoes,
        SyslogStreamFlushes, SyslogDatagramsFlush, FlushSucceeds, FlushRefused, FlushFails,
        AfterFlush
  <2>3. puller'.pc \in {puller.pc, "parse"} /\ puller'.dying = puller.dying
        /\ (puller'.pc # puller.pc => puller.pc = "send")
    BY <1>2, <2>2 DEF PullerState
  <2> QED BY <2>1, <2>3, EndPrimed DEF PullerInv
<1>6. CASE Managing
  <2>1. UNCHANGED <<readIndex, writeIndex, signal>>
    BY <1>6, ManagingFrame DEF ringVars
  <2>2. \/ UNCHANGED <<iter, puller>>
        \/ /\ UNCHANGED iter
           /\ \E b \in BOOLEAN : puller' = [puller EXCEPT !.dying = puller.dying \/ b]
        \/ UNCHANGED iter /\ puller' = NoPuller
        \/ NewPuller
    <3>1. ASSUME NEW target \in BOOLEAN, NEW logs \in BOOLEAN, NEW labels \in Labels,
                 PlanChanged(target, logs, labels)
          PROVE  UNCHANGED iter
                 /\ (UNCHANGED puller
                     \/ \E b \in BOOLEAN : puller' = [puller EXCEPT !.dying = puller.dying \/ b])
      BY <3>1 DEF PlanChanged
    <3>2. CASE ServiceKnown \/ Manages \/ StopManager \/ Stops
      <4>1. CASE StopKillsPullers
        BY <1>2, <4>1 DEF StopKillsPullers, PullerState
      <4>2. CASE AddPuller
        BY <1>2, <4>2 DEF AddPuller, PullerState
      <4>3. CASE ServiceKnown \/ PullerRemoved \/ StopManager \/ StopCancelsFlush \/ StopKillsLoop
                 \/ StopReturns
        BY <4>3
        DEF ServiceKnown, PullerRemoved, StopManager, StopCancelsFlush, StopKillsLoop, StopReturns
      <4> QED BY <3>2, <4>1, <4>2, <4>3 DEF Manages, Stops
    <3> QED BY <1>6, <3>1, <3>2 DEF Managing
  <2>3. CASE UNCHANGED <<iter, puller>>
    BY <2>1, <2>3, EndPrimed DEF PullerInv
  <2>4. ASSUME UNCHANGED iter, NEW b \in BOOLEAN,
               puller' = [puller EXCEPT !.dying = puller.dying \/ b]
        PROVE  PullerInv'
    <3>1. puller'.pc = puller.pc /\ (puller.dying => puller'.dying)
      BY <1>2, <2>4 DEF PullerState
    <3> QED BY <2>1, <2>4, <3>1, EndPrimed DEF PullerInv
  <2>5. CASE puller' = NoPuller
    BY <2>5 DEF NoPuller, PullerInv
  <2>6. CASE NewPuller
    <3>1. /\ puller'.pc = "look"
          /\ iter' = [iter EXCEPT !["puller"] = [NewIterator(readIndex) EXCEPT !.listens = FALSE]]
      BY <2>6 DEF NewPuller, OpenTail
    <3>2. iter'["puller"].open
      BY <1>1, <1>2, <3>1 DEF NewIterator, Closed
    <3> QED BY <3>1, <3>2 DEF PullerInv
  <2> QED BY <2>2, <2>3, <2>4, <2>5, <2>6
<1>7. CASE Asks
  <2>1. UNCHANGED <<readIndex, writeIndex, signal, puller>>
    BY <1>7, AsksFrame DEF ringVars, forwardVars
  <2>2. iter'["puller"] = iter["puller"]
    <3>1. CASE StreamFetches
      <4>1. ParserReads("request") \/ UNCHANGED iter
        BY <3>1 DEF StreamFetches, ParserSplits
      <4> QED BY <4>1, ReadsIter, ReaderNames
    <3>2. ASSUME NEW n \in LogCount, NEW follow \in BOOLEAN, AskForLogs(n, follow)
          PROVE  iter'["puller"] = iter["puller"]
      BY <1>1, <1>2, <3>2 DEF AskForLogs, OpenHead, OpenTail
    <3>3. CASE StreamLooks \/ LogArrives \/ NoMoreLogs \/ StreamNotified \/ StreamEnds
      BY <1>1, <1>2, <3>3
      DEF StreamLooks, Look, LogArrives, NoMoreLogs, StreamNotified, StreamEnds, CloseIterator
    <3> QED BY <1>7, <3>1, <3>2, <3>3 DEF Asks, Streams
  <2> QED BY <2>1, <2>2, EndPrimed DEF PullerInv
<1>8. CASE UNCHANGED vars
  <2>1. UNCHANGED <<readIndex, writeIndex, signal, iter, puller>>
    BY <1>8 DEF vars, bufferVars, forwardVars
  <2> QED BY <2>1, EndPrimed DEF PullerInv
<1> QED BY <1>3, <1>4, <1>5, <1>6, <1>7, <1>8, Steps

\* As long as its iterator, its parser and the buffer are left alone, a request waits as before.
LEMMA StreamStays ==
  ASSUME StreamInv, UNCHANGED <<readIndex, writeIndex, signal, request>>,
         iter'["request"] = iter["request"], parser'["request"] = parser["request"]
  PROVE  StreamInv'
BY EndPrimed DEF StreamInv

LEMMA ServesStream ==
  ASSUME BufferInv, StreamInv, Serves \/ UNCHANGED vars
  PROVE  StreamInv'
<1>1. UNCHANGED <<parser, request>>
  BY ServesFrame DEF vars
<1>2. CASE UNCHANGED <<readIndex, writeIndex, signal, iter>>
  BY <1>1, <1>2, StreamStays
<1>3. CASE signal' /\ UNCHANGED iter
  BY <1>1, <1>3 DEF StreamInv
<1>4. CASE SignalIterators
  <2>1. /\ iter'["request"].listens = iter["request"].listens
        /\ iter'["request"].notify = iter["request"].listens
    BY <1>4, SignalSets, ReaderNames DEF BufferInv, IterInv
  <2> QED BY <1>1, <2>1 DEF StreamInv
<1>5. UNCHANGED vars => UNCHANGED <<readIndex, writeIndex, signal, iter>>
  BY DEF vars, bufferVars
<1> QED BY <1>2, <1>3, <1>4, <1>5, ServesSignals

LEMMA OthersIter ==
  ASSUME BufferInv, Pulls \/ Gathering \/ Managing
  PROVE  iter'["request"] = iter["request"]
<1>1. iter \in [Reader -> Iterator] /\ "request" \in Reader \ {"puller"}
  BY ReaderNames DEF BufferInv, IterInv
<1>2. CASE Pulls
  <2>1. CASE PullerLooks \/ PullerWakes \/ PullerEnds \/ PullerGivesUp
    BY <1>1, <2>1 DEF PullerLooks, PullerWakes, PullerEnds, PullerGivesUp, Look, CloseIterator
  <2>2. CASE PullerParses
    <3>1. ParserReads("puller") \/ UNCHANGED iter
      BY <2>2 DEF PullerParses, ParserSplits
    <3> QED BY <1>1, <3>1, ReadsIter, ReaderNames
  <2> QED BY <1>2, <2>1, <2>2 DEF Pulls
<1>3. CASE Gathering
  BY <1>3, GatheringFrame DEF bufferVars
<1>4. CASE Managing
  <2>1. UNCHANGED iter \/ NewPuller
    BY <1>4
    DEF Managing, PlanChanged, ServiceKnown, Manages, PullerRemoved, AddPuller, StopManager,
        Stops, StopCancelsFlush, StopKillsPullers, StopKillsLoop, StopReturns
  <2> QED BY <1>1, <2>1 DEF NewPuller, OpenTail
<1> QED BY <1>2, <1>3, <1>4

LEMMA OthersStream ==
  ASSUME BufferInv, BufferInv', OutputInv, RequestInv, StreamInv, Pulls \/ Gathering \/ Managing
  PROVE  StreamInv'
<1>1. UNCHANGED <<readIndex, writeIndex, signal, request>>
  BY PullsFrame, GatheringFrame, ManagingFrame DEF ringVars, bufferVars
<1>2. parser'["request"] = parser["request"]
  BY PullsRequest, GatheringRequest, ManagingRequest
<1>3. iter'["request"] = iter["request"]
  BY OthersIter
<1> QED BY <1>1, <1>2, <1>3, StreamStays

\* A request that has read and split all there was knows that it is at the end.
LEMMA FetchesStream ==
  ASSUME BufferInv, RequestInv, StreamInv, StreamFetches
  PROVE  StreamInv'
<1>1. /\ parser \in [Reader -> ParserState] /\ request \in RequestState
      /\ "request" \in Reader /\ parser["request"] \in ParserState
  BY ReaderNames DEF RequestInv
<1>2. UNCHANGED <<readIndex, writeIndex, signal>> /\ request.pc \in {"fetch", "again"}
  BY DEF StreamFetches, RestOfRequest, ringVars
<1>3. CASE ParserReads("request") /\ UNCHANGED request
  <2>1. /\ iter'["request"].listens = iter["request"].listens
        /\ iter'["request"].notify = iter["request"].notify
    BY <1>1, <1>3, ReadsIter
  <2>2. ~Overtaken(iter["request"]) =>
          ~Overtaken(iter'["request"]) /\ (parser'["request"].eof => AtEnd(iter'["request"]))
    BY <1>1, <1>3, ReadsEnd
  <2> QED BY <1>2, <1>3, <2>1, <2>2, EndPrimed DEF StreamInv
<1>4. ASSUME NEW found \in BOOLEAN, ParserSplits("request", found),
             NEW pc \in {"fetch", "more", "again", "entry", "nothing"},
             request' = [request EXCEPT !.pc = pc],
             pc = "again" => request.pc = "again",
             pc = "nothing" => request.pc = "again" /\ ~Skips("request"),
             pc = "more" => ~Skips("request")
      PROVE  StreamInv'
  <2>1. PICK new \in ParserState :
          /\ parser' = [parser EXCEPT !["request"] = new]
          /\ new.eof <=> HasLine("request") /\ parser["request"].eof
    BY <1>1, <1>4, SplitsType
  <2>2. request'.pc = pc /\ parser'["request"] = new
    BY <1>1, <1>4, <2>1 DEF RequestState
  <2>3. UNCHANGED iter /\ (HasLine("request") \/ parser["request"].eof)
    BY <1>4 DEF ParserSplits
  <2>4. pc = "more" => ~new.eof
    BY <1>4, <2>1 DEF Skips
  <2>5. iter["request"].notify \/ signal \/
          /\ pc = "nothing" => AtEnd(iter["request"])
          /\ pc = "again" => /\ ~Overtaken(iter["request"])
                             /\ new.eof => AtEnd(iter["request"])
    BY <1>4, <2>1, <2>3 DEF StreamInv, Skips
  <2> QED BY <1>2, <1>4, <2>2, <2>3, <2>4, <2>5, EndPrimed DEF StreamInv
<1>5. CASE ParserSplits("request", TRUE) /\ RequestGoes("entry")
  BY <1>4, <1>5 DEF RequestGoes
<1>6. CASE /\ ParserSplits("request", FALSE)
           /\ RequestGoes(IF Skips("request") THEN request.pc
                          ELSE IF request.pc = "fetch" THEN "more" ELSE "nothing")
  BY <1>2, <1>4, <1>6 DEF RequestGoes
<1> QED BY <1>3, <1>5, <1>6 DEF StreamFetches

LEMMA AsksStream ==
  ASSUME BufferInv, BufferInv', OutputInv, RequestInv, StreamInv, Asks
  PROVE  StreamInv'
<1>1. /\ request \in RequestState /\ "request" \in Reader /\ iter \in [Reader -> Iterator]
      /\ iter["request"] \in Iterator
  BY ReaderNames DEF RequestInv, BufferInv, IterInv
<1>2. UNCHANGED <<readIndex, writeIndex, signal>>
  BY AsksFrame DEF ringVars
<1>3. ASSUME NEW n \in LogCount, NEW follow \in BOOLEAN, AskForLogs(n, follow) PROVE StreamInv'
  <2>1. request'.pc = "fetch"
    BY <1>3 DEF AskForLogs, NoRequest
  <2>2. \E i : iter' = [iter EXCEPT !["request"] = [NewIterator(i) EXCEPT !.listens = TRUE]]
    BY <1>3 DEF AskForLogs, OpenHead, OpenTail
  <2>3. iter'["request"].listens
    BY <1>1, <2>2 DEF NewIterator, Closed
  <2> QED BY <2>1, <2>3 DEF StreamInv
<1>4. CASE StreamLooks
  <2>1. /\ Look("request") /\ request.pc = "more" /\ UNCHANGED parser
        /\ request'.pc = IF HasMore(iter'["request"]) THEN "again" ELSE "nothing"
    BY <1>1, <1>4 DEF StreamLooks, RequestGoes, RequestState
  <2>2. /\ iter'["request"].listens = iter["request"].listens /\ ~Overtaken(iter'["request"])
        /\ ~HasMore(iter'["request"]) => AtEnd(iter'["request"])
    BY <1>1, <2>1, LookSets
  <2>3. iter["request"].listens /\ ~parser["request"].eof
    BY <2>1 DEF StreamInv
  <2> QED BY <1>2, <2>1, <2>2, <2>3, EndPrimed DEF StreamInv
<1>5. CASE LogArrives
  <2>1. request'.pc \in {"end", "fetch"} /\ request.pc = "entry" /\ UNCHANGED iter
    BY <1>1, <1>5 DEF LogArrives, RequestState
  <2> QED BY <2>1 DEF StreamInv
<1>6. CASE NoMoreLogs
  <2>1. request'.pc \in {"wait", "end"} /\ request.pc = "nothing" /\ UNCHANGED iter
    BY <1>1, <1>6 DEF NoMoreLogs, RequestState
  <2> QED BY <1>2, <2>1, EndPrimed DEF StreamInv
<1>7. CASE StreamNotified
  <2>1. /\ request'.pc = "fetch" /\ request.pc = "wait"
        /\ iter'["request"].listens = iter["request"].listens
    BY <1>1, <1>7 DEF StreamNotified, RequestGoes, RequestState, Iterator
  <2> QED BY <2>1 DEF StreamInv
<1>8. CASE StreamEnds
  <2>1. request'.pc = "done"
    BY <1>1, <1>8 DEF StreamEnds, RequestGoes, RequestState
  <2> QED BY <2>1 DEF StreamInv
<1> QED BY <1>3, <1>4, <1>5, <1>6, <1>7, <1>8, FetchesStream DEF Asks, Streams

(***************************************************************************)
(* The invariant, and what follows from it.                                *)
(***************************************************************************)
LEMMA ForwardStarts == Init => ForwardInv
<1> SUFFICES ASSUME Init PROVE ForwardInv
  OBVIOUS
<1>1. BufferInv
  BY BufferStarts DEF Init
<1>2. <<>> \in Seq(Cell) /\ <<>> \in Seq({"text", "end"}) /\ <<>> \in Seq(LogEntry)
      /\ <<>> \in Seq(Item) /\ Len(<<>>) = 0
  OBVIOUS
<1>3. OutputInv
  BY <1>2 DEF Init, BufferInit, OutputInv
<1>4. RequestInv
  <2>1. NewParser \in ParserState
    BY <1>2 DEF NewParser, ParserState
  <2>2. NoRequest \in RequestState /\ NoRequest.pc = "off"
    BY <1>2 DEF NoRequest, RequestState
  <2> QED BY <2>1, <2>2 DEF Init, RequestInv
<1>5. GathererInv
  <2>1. NewGatherer \in GathererState /\ NoPuller \in PullerState
    BY DEF NewGatherer, GathererState, Pending, NoPuller, PullerState, PullerPoint
  <2>2. client \in [entries : Seq(Item), labels : Labels \cup {NoLabels}]
    BY <1>2 DEF Init, Labels
  <2>3. plan.labels \in Labels /\ 0 \in 0 .. MaxFailures
    BY ForwardAssumption DEF ForwardAssumption, Init, Labels
  <2> QED BY <2>1, <2>2, <2>3 DEF Init, GathererInv
<1>6. CountInv /\ LabelsInv
  BY <1>2, ForwardAssumption
  DEF ForwardAssumption, Init, CountInv, LabelsInv, OwnLabels, Flushing, NewGatherer
<1>7. PullerInv
  BY DEF Init, PullerInv, NoPuller
<1>8. StreamInv
  BY DEF Init, StreamInv, NoRequest
<1> QED BY <1>1, <1>3, <1>4, <1>5, <1>6, <1>7, <1>8 DEF ForwardInv

LEMMA ForwardKept == ForwardInv /\ [Next]_vars => ForwardInv'
<1> SUFFICES ASSUME ForwardInv, [Next]_vars PROVE ForwardInv'
  OBVIOUS
<1>1. BufferInv /\ OutputInv /\ RequestInv /\ BatchInv /\ PullerInv /\ StreamInv
  BY DEF ForwardInv, BatchInv
<1>2. BufferInv'
  BY <1>1, ForwardStep, BufferStep
<1>3. OutputInv' /\ RequestInv' /\ BatchInv' /\ PullerInv'
  BY <1>1, <1>2, OutputKept, RequestKept, BatchKept, PullerWaits
<1>4. StreamInv'
  BY <1>1, <1>2, ServesStream, OthersStream, AsksStream, Steps
<1> QED BY <1>2, <1>3, <1>4 DEF ForwardInv, BatchInv

LEMMA ForwardTypes ==
  ASSUME ForwardInv
  PROVE  TypeOK
<1>1. /\ OutputInv /\ request \in RequestState /\ GathererInv /\ CountInv
      /\ gatherer \in GathererState /\ puller \in PullerState
  BY DEF ForwardInv, RequestInv, GathererInv
<1>2. Entries(request.fifo) /\ Entries(request.shown)
  <2>1. ASSUME NEW l \in Seq(LogEntry) PROVE Entries(l)
    <3>1. \A i \in 1 .. Len(l) : l[i] \in LogEntry
      OBVIOUS
    <3> QED BY <3>1 DEF Entries, LogEntry
  <2> QED BY <1>1, <2>1 DEF RequestState
<1>3. gatherer.written \in 0 .. MaxEntries - 1 \/ Flushing
  BY <1>1, ForwardAssumption DEF ForwardAssumption, GathererState, CountInv
<1>4. gatherer.pc \in {"select", "flush", "final", "dead"} /\ gatherer.timer \in BOOLEAN
      /\ puller.pc \in PullerPoint
  BY <1>1 DEF GathererState, PullerState
<1>5. request.pc \in {"off", "fetch", "more", "again", "entry", "nothing", "wait", "end", "done"}
  BY <1>1 DEF RequestState
<1>6. format.fresh \in BOOLEAN /\ format.line \in Nat \ {0}
  BY <1>1 DEF OutputInv
<1>7. client.labels \in Labels \cup {NoLabels} /\ Len(client.entries) <= MaxEntries
  BY <1>1 DEF GathererInv, CountInv
<1> QED BY <1>1, <1>2, <1>3, <1>4, <1>5, <1>6, <1>7 DEF TypeOK, GathererInv, PullerPoint

LEMMA ForwardSound == ForwardInv => BufferSound
<1>1. ForwardInv => TypeOK /\ RingHoldsTail /\ CountInv
  BY ForwardTypes DEF ForwardInv, BufferInv, RingInv
<1> QED BY <1>1 DEF BufferSound, Sound, CountInv

\* The buffer, the parsers and the gatherer stay in order for every size of the ring and every
\* plan: what the gatherer counted since its last flush is still there to be sent, although a
\* full client forgets its oldest entry (logGatherer.loop, Client.Add).
THEOREM NothingMiscounted == Spec => []BufferSound
<1> QED BY ForwardSound, ForwardStarts, ForwardKept, PTL DEF Spec

\* An entry is sent with the labels under which it was collected, whatever plan changes and flushes
\* come in between, unless a flush of it had failed (the flush before SetLabels).
THEOREM LabelsOwn == Spec => []OwnLabels
<1>1. ForwardInv => OwnLabels
  BY DEF ForwardInv, LabelsInv
<1> QED BY <1>1, ForwardStarts, ForwardKept, PTL DEF Spec

\* No puller and no request that follows the log waits while there is something to read, unless
\* the write is about to signal it (Write, Iterator.Next, streamLogs).
THEOREM WritesWake == Spec => []NobodySleepsThroughWrites
<1>1. ASSUME ForwardInv PROVE NobodySleepsThroughWrites
  <2> SUFFICES ASSUME NEW r \in Reader, Sleeps(r), HasMore(Checked(iter[r])) PROVE signal
    BY DEF NobodySleepsThroughWrites
  <2>1. CASE r = "puller"
    BY <1>1, <2>1 DEF Sleeps, ForwardInv, PullerInv, AtEnd
  <2>2. CASE r = "request"
    BY <1>1, <2>2 DEF Sleeps, ForwardInv, StreamInv, AtEnd
  <2> QED BY <2>1, <2>2, ForwardAssumption DEF ForwardAssumption
<1> QED BY <1>1, ForwardStarts, ForwardKept, PTL DEF Spec

(***************************************************************************)
(* The lines of a log: numbered in order, each starts with its stamp and   *)
(* goes on to its end, and a line starts where one ended.                  *)
(***************************************************************************)
LineCell == {"stamp", "text", "end"} \X (1 .. MaxBytes)
Ends(c) == c[1] = "end"

InLines(s) ==
  /\ s \in Seq(LineCell)
  /\ \A i, j \in 1 .. Len(s) : i < j =>
       s[i][2] < s[j][2] \/ (s[i][2] = s[j][2] /\ ~Ends(s[i]) /\ ~IsStamp(s[j]))
  /\ \A i \in 1 .. Len(s) : \E p \in 1 .. i : IsStamp(s[p]) /\ s[p][2] = s[i][2]
  /\ \A i \in 1 .. Len(s) : i > 1 => (IsStamp(s[i]) <=> Ends(s[i - 1]))

\* The formatter is between two lines, or in the one written last.
LinesInv ==
  /\ InLines(written)
  /\ Len(format.rest) <= Size /\ format.line + Len(format.rest) <= MaxBytes
  /\ format.line <= Len(written) + 1
  /\ Len(written) = 0 => format.fresh
  /\ Len(written) > 0 =>
       LET c == written[Len(written)]
       IN /\ format.fresh <=> Ends(c)
          /\ format.line = IF Ends(c) THEN c[2] + 1 ELSE c[2]

LEMMA LineStarts ==
  ASSUME NEW s, InLines(s), NEW l \in 1 .. MaxBytes,
         Len(s) > 0 => Ends(s[Len(s)]) /\ l = s[Len(s)][2] + 1
  PROVE  InLines(s \o <<Stamp(l)>>)
<1> DEFINE p == <<Stamp(l)>>
           t == s \o p
<1>1. s \in Seq(LineCell) /\ Len(s) \in Nat
  BY DEF InLines
<1>2. p \in Seq(LineCell) /\ Len(p) = 1 /\ p[1] = Stamp(l)
  BY DEF LineCell, Stamp
<1>3. Stamp(l)[2] = l /\ IsStamp(Stamp(l)) /\ ~Ends(Stamp(l))
  BY DEF Stamp, IsStamp, Ends
<1>4. /\ t \in Seq(LineCell) /\ Len(t) = Len(s) + 1 /\ t[Len(s) + 1] = Stamp(l)
      /\ \A i \in 1 .. Len(s) : t[i] = s[i]
  <2>1. /\ t \in Seq(LineCell) /\ Len(t) = Len(s) + Len(p)
        /\ \A i \in 1 .. Len(s) + Len(p) : t[i] = IF i <= Len(s) THEN s[i] ELSE p[i - Len(s)]
    BY <1>1, <1>2, ConcatProperties
  <2> HIDE DEF p, t
  <2>2. \A i \in 1 .. Len(s) : t[i] = s[i]
    BY <1>1, <1>2, <2>1
  <2>3. Len(s) + 1 \in 1 .. Len(s) + Len(p) /\ ~(Len(s) + 1 <= Len(s)) /\ Len(s) + 1 - Len(s) = 1
    BY <1>1, <1>2
  <2> QED BY <1>2, <2>1, <2>2, <2>3
<1> HIDE DEF p, t
<1>5. ASSUME NEW i \in 1 .. Len(s) PROVE s[i][2] < l /\ s[i][2] \in Nat
  <2>1. s[i] \in LineCell /\ s[Len(s)] \in LineCell
    BY <1>1
  <2>2. s[i][2] \in Nat /\ s[Len(s)][2] \in Nat
    BY <2>1 DEF LineCell
  <2>3. i < Len(s) => s[i][2] <= s[Len(s)][2]
    BY <1>1, <2>2 DEF InLines
  <2> QED BY <1>1, <2>2, <2>3
<1>6. \A i, j \in 1 .. Len(t) : i < j =>
        t[i][2] < t[j][2] \/ (t[i][2] = t[j][2] /\ ~Ends(t[i]) /\ ~IsStamp(t[j]))
  <2> SUFFICES ASSUME NEW i \in 1 .. Len(t), NEW j \in 1 .. Len(t), i < j
               PROVE  t[i][2] < t[j][2] \/ (t[i][2] = t[j][2] /\ ~Ends(t[i]) /\ ~IsStamp(t[j]))
    OBVIOUS
  <2>1. CASE j \in 1 .. Len(s)
    <3>1. i \in 1 .. Len(s) /\ t[i] = s[i] /\ t[j] = s[j]
      BY <1>1, <1>4, <2>1
    <3>2. s[i][2] < s[j][2] \/ (s[i][2] = s[j][2] /\ ~Ends(s[i]) /\ ~IsStamp(s[j]))
      BY <2>1, <3>1 DEF InLines
    <3> QED BY <3>1, <3>2
  <2>2. CASE j = Len(s) + 1
    BY <1>1, <1>3, <1>4, <1>5, <2>2
  <2> QED BY <1>1, <1>4, <2>1, <2>2
<1>7. \A i \in 1 .. Len(t) : \E q \in 1 .. i : IsStamp(t[q]) /\ t[q][2] = t[i][2]
  <2> SUFFICES ASSUME NEW i \in 1 .. Len(t)
               PROVE  \E q \in 1 .. i : IsStamp(t[q]) /\ t[q][2] = t[i][2]
    OBVIOUS
  <2>1. CASE i \in 1 .. Len(s)
    <3>1. PICK q \in 1 .. i : IsStamp(s[q]) /\ s[q][2] = s[i][2]
      BY <2>1 DEF InLines
    <3>2. q \in 1 .. Len(s)
      BY <1>1, <2>1
    <3> QED BY <1>4, <2>1, <3>1, <3>2
  <2>2. CASE i = Len(s) + 1
    BY <1>1, <1>3, <1>4, <2>2
  <2> QED BY <1>1, <1>4, <2>1, <2>2
<1>8. \A i \in 1 .. Len(t) : i > 1 => (IsStamp(t[i]) <=> Ends(t[i - 1]))
  <2> SUFFICES ASSUME NEW i \in 1 .. Len(t), i > 1 PROVE IsStamp(t[i]) <=> Ends(t[i - 1])
    OBVIOUS
  <2>1. CASE i \in 1 .. Len(s)
    <3>1. i - 1 \in 1 .. Len(s)
      BY <1>1, <2>1
    <3>2. t[i] = s[i] /\ t[i - 1] = s[i - 1]
      BY <1>4, <2>1, <3>1
    <3> QED BY <2>1, <3>2 DEF InLines
  <2>2. CASE i = Len(s) + 1
    <3>1. i - 1 = Len(s) /\ Len(s) \in 1 .. Len(s)
      BY <1>1, <2>2
    <3>2. t[i] = Stamp(l) /\ t[i - 1] = s[Len(s)] /\ Ends(s[Len(s)])
      BY <1>4, <2>2, <3>1
    <3> QED BY <1>3, <3>2
  <2> QED BY <1>1, <1>4, <2>1, <2>2
<1> QED BY <1>4, <1>6, <1>7, <1>8 DEF InLines, t, p

LEMMA LineContinues ==
  ASSUME NEW s, InLines(s), Len(s) > 0, ~Ends(s[Len(s)]),
         NEW p \in Seq(LineCell), Len(p) > 0,
         \A i \in 1 .. Len(p) : p[i][2] = s[Len(s)][2] /\ ~IsStamp(p[i]),
         \A i \in 1 .. Len(p) : i < Len(p) => ~Ends(p[i])
  PROVE  InLines(s \o p)
<1> DEFINE t == s \o p
           l == s[Len(s)][2]
<1>1. s \in Seq(LineCell) /\ Len(s) \in Nat /\ Len(p) \in Nat
  BY DEF InLines
<1>2. /\ t \in Seq(LineCell) /\ Len(t) = Len(s) + Len(p)
      /\ \A i \in 1 .. Len(s) : t[i] = s[i]
      /\ \A i \in 1 .. Len(t) : i > Len(s) => i - Len(s) \in 1 .. Len(p) /\ t[i] = p[i - Len(s)]
  <2>1. /\ t \in Seq(LineCell) /\ Len(t) = Len(s) + Len(p)
        /\ \A i \in 1 .. Len(s) + Len(p) : t[i] = IF i <= Len(s) THEN s[i] ELSE p[i - Len(s)]
    BY <1>1, ConcatProperties
  <2> HIDE DEF t
  <2> QED BY <1>1, <2>1
<1> HIDE DEF t
<1>3. ASSUME NEW i \in 1 .. Len(s)
      PROVE  s[i][2] \in Nat /\ l \in Nat /\ s[i][2] <= l /\ (s[i][2] = l => ~Ends(s[i]))
  <2>1. s[i] \in LineCell /\ s[Len(s)] \in LineCell
    BY <1>1
  <2>2. s[i][2] \in Nat /\ l \in Nat
    BY <2>1 DEF LineCell
  <2>3. i < Len(s) => s[i][2] < l \/ (s[i][2] = l /\ ~Ends(s[i]))
    BY <1>1 DEF InLines
  <2> QED BY <1>1, <2>2, <2>3
<1>4. ASSUME NEW i \in 1 .. Len(t), i > Len(s)
      PROVE  t[i][2] = l /\ ~IsStamp(t[i]) /\ (i < Len(t) => ~Ends(t[i]))
  BY <1>1, <1>2, <1>4
<1> HIDE DEF l
<1>5. \A i, j \in 1 .. Len(t) : i < j =>
        t[i][2] < t[j][2] \/ (t[i][2] = t[j][2] /\ ~Ends(t[i]) /\ ~IsStamp(t[j]))
  <2> SUFFICES ASSUME NEW i \in 1 .. Len(t), NEW j \in 1 .. Len(t), i < j
               PROVE  t[i][2] < t[j][2] \/ (t[i][2] = t[j][2] /\ ~Ends(t[i]) /\ ~IsStamp(t[j]))
    OBVIOUS
  <2>1. CASE j \in 1 .. Len(s)
    <3>1. i \in 1 .. Len(s) /\ t[i] = s[i] /\ t[j] = s[j]
      BY <1>1, <1>2, <2>1
    <3>2. s[i][2] < s[j][2] \/ (s[i][2] = s[j][2] /\ ~Ends(s[i]) /\ ~IsStamp(s[j]))
      BY <2>1, <3>1 DEF InLines
    <3> QED BY <3>1, <3>2
  <2>2. CASE i \in 1 .. Len(s) /\ j > Len(s)
    <3>1. t[i] = s[i] /\ t[j][2] = l /\ ~IsStamp(t[j])
      BY <1>2, <1>4, <2>2
    <3>2. s[i][2] \in Nat /\ l \in Nat /\ s[i][2] <= l /\ (s[i][2] = l => ~Ends(s[i]))
      BY <1>3, <2>2
    <3> QED BY <3>1, <3>2
  <2>3. CASE i > Len(s) /\ j > Len(s)
    BY <1>1, <1>2, <1>4, <2>3
  <2> QED BY <1>1, <1>2, <2>1, <2>2, <2>3
<1>6. \A i \in 1 .. Len(t) : \E q \in 1 .. i : IsStamp(t[q]) /\ t[q][2] = t[i][2]
  <2> SUFFICES ASSUME NEW i \in 1 .. Len(t)
               PROVE  \E q \in 1 .. i : IsStamp(t[q]) /\ t[q][2] = t[i][2]
    OBVIOUS
  <2>1. CASE i \in 1 .. Len(s)
    <3>1. PICK q \in 1 .. i : IsStamp(s[q]) /\ s[q][2] = s[i][2]
      BY <2>1 DEF InLines
    <3>2. q \in 1 .. Len(s)
      BY <1>1, <2>1
    <3> QED BY <1>2, <2>1, <3>1, <3>2
  <2>2. CASE i > Len(s)
    <3>1. Len(s) \in 1 .. Len(s)
      BY <1>1
    <3>2. PICK q \in 1 .. Len(s) : IsStamp(s[q]) /\ s[q][2] = l
      BY <3>1 DEF InLines, l
    <3>3. q \in 1 .. i /\ t[q] = s[q] /\ t[i][2] = l
      BY <1>1, <1>2, <1>4, <2>2
    <3> QED BY <3>2, <3>3
  <2> QED BY <1>1, <1>2, <2>1, <2>2
<1>7. \A i \in 1 .. Len(t) : i > 1 => (IsStamp(t[i]) <=> Ends(t[i - 1]))
  <2> SUFFICES ASSUME NEW i \in 1 .. Len(t), i > 1 PROVE IsStamp(t[i]) <=> Ends(t[i - 1])
    OBVIOUS
  <2>1. CASE i \in 1 .. Len(s)
    <3>1. i - 1 \in 1 .. Len(s)
      BY <1>1, <2>1
    <3>2. t[i] = s[i] /\ t[i - 1] = s[i - 1]
      BY <1>2, <2>1, <3>1
    <3> QED BY <2>1, <3>2 DEF InLines
  <2>2. CASE i > Len(s)
    <3>1. ~IsStamp(t[i])
      BY <1>4, <2>2
    <3>2. CASE i = Len(s) + 1
      <4>1. i - 1 = Len(s) /\ Len(s) \in 1 .. Len(s)
        BY <1>1, <3>2
      <4>2. t[i - 1] = s[Len(s)]
        BY <1>2, <4>1
      <4> QED BY <3>1, <4>2
    <3>3. CASE i > Len(s) + 1
      <4>1. i - 1 \in 1 .. Len(t) /\ i - 1 > Len(s) /\ i - 1 < Len(t)
        BY <1>1, <1>2, <3>3
      <4> QED BY <1>4, <3>1, <4>1
    <3> QED BY <1>1, <1>2, <2>2, <3>2, <3>3
  <2> QED BY <1>1, <1>2, <2>1, <2>2
<1> QED BY <1>2, <1>5, <1>6, <1>7 DEF InLines, t

\* Nothing of a write that fits in the ring is left out.
LEMMA WholeWrite ==
  ASSUME NEW T, NEW p \in Seq(T), Len(p) <= Size, WriteBytes(p)
  PROVE  written' = written \o p /\ Len(p) > 0
<1>1. Len(p) \in Nat /\ Size \in Nat
  BY SizeAssumption DEF SizeAssumption
<1>2. WriteLength(p) = Len(p) /\ Len(p) > 0
  BY <1>1 DEF WriteBytes, Store, WriteLength, Smaller
<1>3. SubSeq(p, 1, Len(p)) = p
  <2> DEFINE part == SubSeq(p, 1, Len(p))
  <2>1. part \in Seq(T) /\ Len(part) = Len(p) /\ \A i \in 1 .. Len(p) : part[i] = p[i]
    BY <1>1, <1>2
  <2> HIDE DEF part
  <2>2. part = p
    BY <2>1, SeqEqual
  <2> QED BY <2>2 DEF part
<1> QED BY <1>2, <1>3 DEF WriteBytes, Store

LEMMA LastCell ==
  ASSUME NEW S, NEW s \in Seq(S), NEW T, NEW p \in Seq(T), Len(p) > 0
  PROVE  /\ Len(s \o p) = Len(s) + Len(p) /\ Len(s \o p) > 0
         /\ (s \o p)[Len(s \o p)] = p[Len(p)]
<1>1. s \in Seq(S \cup T) /\ p \in Seq(S \cup T) /\ Len(s) \in Nat /\ Len(p) \in Nat
  BY SeqMonotonic
<1>2. /\ Len(s \o p) = Len(s) + Len(p)
      /\ \A i \in 1 .. Len(s) + Len(p) : (s \o p)[i] = IF i <= Len(s) THEN s[i] ELSE p[i - Len(s)]
  BY <1>1, ConcatProperties
<1>3. /\ Len(s) + Len(p) \in 1 .. Len(s) + Len(p) /\ ~(Len(s) + Len(p) <= Len(s))
      /\ Len(s) + Len(p) - Len(s) = Len(p)
  BY <1>1
<1> QED BY <1>1, <1>2, <1>3

LEMMA LinesKept == ASSUME OutputInv, LinesInv, [Next]_vars PROVE LinesInv'
<1>1. /\ format.fresh \in BOOLEAN /\ format.line \in Nat \ {0} /\ Size \in Nat /\ Size > 1
      /\ format.rest \in Seq({"text", "end"}) /\ Len(format.rest) \in Nat /\ MaxBytes \in Nat
      /\ written \in Seq(LineCell) /\ Len(written) \in Nat
  BY SizeAssumption, ForwardAssumption
  DEF SizeAssumption, ForwardAssumption, OutputInv, LinesInv, InLines
<1>2. CASE UNCHANGED <<written, format>>
  BY <1>2 DEF LinesInv, InLines
<1>3. ASSUME NEW p \in Output, ServiceWrites(p) PROVE LinesInv'
  <2>1. written' = written /\ format' = [format EXCEPT !.rest = p]
    BY <1>3 DEF ServiceWrites, bufferVars
  <2>2. Len(p) \in Nat /\ Len(p) <= Size /\ Len(written) + Len(p) + 1 <= MaxBytes
    BY <1>3, ForwardAssumption DEF ServiceWrites, ForwardAssumption
  <2>3. format.line <= Len(written) + 1
    BY DEF LinesInv
  <2> QED BY <1>1, <2>1, <2>2, <2>3 DEF LinesInv, InLines, OutputInv
<1>4. CASE FormatStamp
  <2> DEFINE p == <<Stamp(format.line)>>
  <2>1. format.rest # <<>> /\ format.fresh /\ WriteBytes(p) /\ format' = [format EXCEPT !.fresh = FALSE]
    BY <1>4 DEF FormatStamp
  <2>2. Len(format.rest) > 0
    BY <1>1, <2>1
  <2>3. format.line \in 1 .. MaxBytes
    BY <1>1, <2>2 DEF LinesInv
  <2>4. /\ p \in Seq(LineCell) /\ Len(p) = 1 /\ p[1] = Stamp(format.line)
        /\ Stamp(format.line)[2] = format.line /\ ~Ends(Stamp(format.line))
    BY <2>3 DEF Stamp, LineCell, Ends
  <2> HIDE DEF p
  <2>5. written' = written \o p
    <3>1. Len(p) <= Size
      BY <1>1, <2>4
    <3> QED BY <2>1, <2>4, <3>1, WholeWrite
  <2>6. Len(written) > 0 => Ends(written[Len(written)]) /\ format.line = written[Len(written)][2] + 1
    BY <2>1 DEF LinesInv
  <2>7. InLines(written')
    BY <2>3, <2>5, <2>6, LineStarts DEF LinesInv, p
  <2>8. Len(written') = Len(written) + 1 /\ Len(written') > 0
        /\ written'[Len(written')] = Stamp(format.line)
    <3>1. Len(p) > 0 /\ p[Len(p)] = Stamp(format.line)
      BY <2>4
    <3>2. /\ Len(written \o p) = Len(written) + Len(p) /\ Len(written \o p) > 0
          /\ (written \o p)[Len(written \o p)] = p[Len(p)]
      BY <1>1, <2>4, <3>1, LastCell
    <3> QED BY <2>4, <2>5, <3>1, <3>2
  <2>9. format'.fresh = FALSE /\ format'.line = format.line /\ format'.rest = format.rest
    BY <2>1 DEF OutputInv
  <2> QED BY <1>1, <2>4, <2>7, <2>8, <2>9 DEF LinesInv
<1>5. CASE FormatText
  <2>1. PICK n \in 1 .. Len(format.rest) :
          /\ ~format.fresh
          /\ format.rest[n] = "end" \/ n = Len(format.rest)
          /\ \A i \in 1 .. n - 1 : format.rest[i] # "end"
          /\ WriteBytes([i \in 1 .. n |-> <<format.rest[i], format.line>>])
          /\ format' = [fresh |-> format.rest[n] = "end",
                        line |-> format.line + (IF format.rest[n] = "end" THEN 1 ELSE 0),
                        rest |-> SubSeq(format.rest, n + 1, Len(format.rest))]
    BY <1>5 DEF FormatText
  <2> DEFINE p == [i \in 1 .. n |-> <<format.rest[i], format.line>>]
             c == written[Len(written)]
  <2>2. n \in Nat /\ n > 0 /\ n <= Len(format.rest) /\ format.line \in 1 .. MaxBytes
    BY <1>1 DEF LinesInv
  <2>3. ASSUME NEW i \in 1 .. n
        PROVE  /\ <<format.rest[i], format.line>> \in LineCell
               /\ <<format.rest[i], format.line>>[2] = format.line
               /\ ~IsStamp(<<format.rest[i], format.line>>)
               /\ Ends(<<format.rest[i], format.line>>) <=> format.rest[i] = "end"
    <3>1. format.rest[i] \in {"text", "end"}
      BY <1>1, <2>2
    <3> QED BY <2>2, <3>1 DEF LineCell, IsStamp, Ends
  <2>4. p \in Seq(LineCell) /\ Len(p) = n /\ \A i \in 1 .. n : p[i] = <<format.rest[i], format.line>>
    BY <2>2, <2>3
  <2> HIDE DEF p
  <2>5. written' = written \o p
    <3>1. Len(p) <= Size
      BY <1>1, <2>2, <2>4 DEF LinesInv
    <3> QED BY <2>1, <2>4, <3>1, WholeWrite DEF p
  <2>6. Len(written) > 0 /\ ~Ends(c) /\ format.line = c[2]
    BY <1>1, <2>1 DEF LinesInv
  <2>7. \A i \in 1 .. Len(p) : p[i][2] = c[2] /\ ~IsStamp(p[i])
    BY <2>3, <2>4, <2>6
  <2>8. \A i \in 1 .. Len(p) : i < Len(p) => ~Ends(p[i])
    <3>1. \A i \in 1 .. n : i < n => i \in 1 .. n - 1
      BY <2>2
    <3> QED BY <2>1, <2>3, <2>4, <3>1
  <2>9. InLines(written')
    BY <2>2, <2>4, <2>5, <2>6, <2>7, <2>8, LineContinues DEF LinesInv
  <2>10. Len(written') = Len(written) + n /\ Len(written') > 0 /\ written'[Len(written')] = p[n]
    BY <1>1, <2>2, <2>4, <2>5, LastCell
  <2>11. n \in 1 .. n
    BY <2>2
  <2>12. p[n][2] = format.line /\ (Ends(p[n]) <=> format.rest[n] = "end")
    BY <2>3, <2>4, <2>11
  <2>13. Len(format'.rest) = Len(format.rest) - n
    <3>1. format'.rest = SubSeq(format.rest, n + 1, Len(format.rest))
      BY <2>1
    <3> QED BY <1>1, <2>2, <3>1
  <2>14. /\ format'.fresh <=> format.rest[n] = "end"
         /\ format'.line = IF format.rest[n] = "end" THEN format.line + 1 ELSE format.line
    <3>1. format'.fresh = (format.rest[n] = "end")
      BY <2>1
    <3>2. format'.line = format.line + (IF format.rest[n] = "end" THEN 1 ELSE 0)
      BY <2>1
    <3>3. format'.line = IF format.rest[n] = "end" THEN format.line + 1 ELSE format.line
      BY <1>1, <3>2
    <3> QED BY <3>1, <3>3, Zenon
  <2> HIDE DEF c
  <2>15. Len(format'.rest) <= Size /\ format'.line + Len(format'.rest) <= MaxBytes
         /\ format'.line <= Len(written') + 1
    <3> DEFINE more == Len(format'.rest)
               line == format'.line
               len == Len(written')
               old == Len(format.rest)
               now == format.line
               end == Len(written)
    <3>1. /\ Len(format.rest) <= Size /\ format.line + Len(format.rest) <= MaxBytes
          /\ format.line <= Len(written) + 1
      BY DEF LinesInv
    <3>2. more = Len(format.rest) - n /\ len = Len(written) + n
          /\ (line = format.line \/ line = format.line + 1)
      BY <2>10, <2>13, <2>14
    <3>3. old \in Nat /\ now \in Int /\ end \in Nat /\ n \in Nat /\ n > 0
          /\ Size \in Int /\ MaxBytes \in Int
      BY <1>1, <2>2, SizeAssumption, ForwardAssumption DEF SizeAssumption, ForwardAssumption, LinesInv
    <3>4. /\ old <= Size /\ now + old <= MaxBytes /\ now <= end + 1
          /\ more = old - n /\ len = end + n /\ (line = now \/ line = now + 1)
      BY <3>1, <3>2
    <3> HIDE DEF more, line, len, old, now, end
    <3>5. more <= Size /\ line + more <= MaxBytes /\ line <= len + 1
      BY <3>3, <3>4
    <3> QED BY <3>5 DEF more, line, len
  <2>16. LET d == written'[Len(written')]
         IN /\ format'.fresh <=> Ends(d)
            /\ format'.line = IF Ends(d) THEN d[2] + 1 ELSE d[2]
    BY <2>10, <2>12, <2>14
  <2> QED BY <2>9, <2>10, <2>15, <2>16 DEF LinesInv
<1>6. CASE Pulls \/ Gathering \/ Managing \/ Asks \/ UNCHANGED vars
  <2>1. UNCHANGED <<written, format>>
    BY <1>6, PullsFrame, GatheringFrame, ManagingFrame, AsksFrame DEF vars, ringVars, bufferVars
  <2> QED BY <1>2, <2>1
<1>7. CASE StartService \/ SignalReaders
  <2>1. UNCHANGED <<written, format>>
    BY <1>7 DEF StartService, SignalReaders, SignalIterators, bufferVars
  <2> QED BY <1>2, <2>1
<1> QED BY <1>3, <1>4, <1>5, <1>6, <1>7, Steps DEF Serves, Writes
(***************************************************************************)
(* Where the last lines begin.                                             *)
(***************************************************************************)
LEMMA MaxIs ==
  ASSUME NEW S \in SUBSET Nat, S # {}, NEW n \in Nat, \A y \in S : y <= n
  PROVE  Max(S) \in S /\ \A y \in S : y <= Max(S)
<1> DEFINE T == {z \in Nat : n - z \in S}
<1>1. PICK y \in S : TRUE
  OBVIOUS
<1>2. n - y \in T
  <2>1. n - y \in Nat /\ n - (n - y) = y
    OBVIOUS
  <2> QED BY <2>1
<1>3. Min(T) \in T /\ \A z \in T : Min(T) <= z
  BY <1>2, MinIs
<1> DEFINE x == n - Min(T)
<1>4. x \in S /\ Min(T) \in Nat
  BY <1>3
<1>5. ASSUME NEW z \in S PROVE z <= x
  <2>1. n - z \in Nat /\ n - (n - z) = z
    OBVIOUS
  <2>2. n - z \in T
    BY <2>1
  <2>3. Min(T) <= n - z
    BY <1>3, <2>2
  <2> QED BY <1>4, <2>1, <2>3
<1> HIDE DEF x, T
<1>6. \A z \in S : z \in Nat
  OBVIOUS
<1> QED BY <1>4, <1>5, <1>6 DEF Max

LEMMA NewlineEnds ==
  ASSUME NEW c \in LineCell
  PROVE  c \in Newline <=> Ends(c)
<1>1. c = <<c[1], c[2]>> /\ c[1] \in {"stamp", "text", "end"} /\ c[2] \in 1 .. MaxBytes
  BY DEF LineCell
<1>2. /\ <<"end", c[2]>> \in Newline /\ <<"stamp", c[2]>> \notin Newline
      /\ <<"text", c[2]>> \notin Newline
  BY <1>1, ForwardAssumption DEF ForwardAssumption
<1>3. CASE c[1] = "end"
  BY <1>1, <1>2, <1>3 DEF Ends
<1>4. CASE c[1] = "text"
  BY <1>1, <1>2, <1>4 DEF Ends
<1>5. CASE c[1] = "stamp"
  BY <1>1, <1>2, <1>5 DEF Ends
<1> QED BY <1>1, <1>3, <1>4, <1>5

\* The scan for n lines stops at the start of a line with n ends of lines after it, or it has seen
\* all there is.
LEMMA HeadLines ==
  ASSUME RingInv, InLines(written), writeIndex > 0, NEW n \in Nat, n > 0
  PROVE  LET from == ReverseLinePosition(n)
         IN /\ from \in Nat /\ readIndex <= from /\ from <= writeIndex
            /\ \/ from = readIndex
               \/ from = readIndex + 1 /\ Ends(written[from])
               \/ /\ from > readIndex /\ Ends(written[from])
                  /\ \E A \in SUBSET Nat :
                       /\ IsFiniteSet(A) /\ Cardinality(A) = n
                       /\ \A k \in A : /\ readIndex + k > from /\ readIndex + k <= writeIndex
                                       /\ Ends(written[readIndex + k])
<1> DEFINE from == ReverseLinePosition(n)
           m == writeIndex - readIndex
           all == Bytes(readIndex, writeIndex)
           After(i) == {k \in i .. Len(all) : all[k] \in Newline}
           found == {i \in 1 .. Len(all) : all[i] \in Newline /\ Cardinality(After(i)) = n + 1}
           p == IF found = {} THEN 1 ELSE Max(found)
<1>1. /\ readIndex \in Nat /\ writeIndex \in Nat /\ readIndex < writeIndex
      /\ Len(written) = writeIndex /\ written \in Seq(LineCell)
  BY DEF RingInv, RingHoldsTail, InLines
<1>2. m \in Nat /\ m > 0 /\ readIndex + m = writeIndex
  BY <1>1
<1>3. Len(all) = m /\ \A k \in 1 .. m : all[k] = written[readIndex + k]
  <2>1. Bytes(readIndex, readIndex + m) = SubSeq(written, readIndex + 1, readIndex + m)
    <3> HIDE DEF m
    <3>1. readIndex <= readIndex /\ readIndex + m <= writeIndex
      BY <1>1, <1>2
    <3> QED BY <1>1, <1>2, <3>1, BytesAreLog
  <2>2. all = SubSeq(written, readIndex + 1, writeIndex)
    BY <1>2, <2>1
  <2> HIDE DEF all
  <2> QED BY <1>1, <1>2, <2>2
<1>4. ASSUME NEW k \in 1 .. m
      PROVE  /\ readIndex + k \in 1 .. Len(written)
             /\ all[k] \in Newline <=> Ends(written[readIndex + k])
  <2>1. readIndex + k \in 1 .. Len(written)
    BY <1>1, <1>2
  <2>2. written[readIndex + k] \in LineCell
    BY <1>1, <2>1
  <2> QED BY <1>3, <2>1, <2>2, NewlineEnds
<1>5. from = writeIndex - (Len(all) - p + 1) + (IF all[p] \in Newline THEN 1 ELSE 0)
  <2>1. ~(n <= 0)
    OBVIOUS
  <2>2. from = PositionAfterNewline(n + 1)
    BY <2>1 DEF ReverseLinePosition
  <2> HIDE DEF from
  <2> QED BY <2>2 DEF PositionAfterNewline
<1>6. found # {} => p \in found
  <2>1. found \in SUBSET Nat /\ \A y \in found : y <= m
    BY <1>2, <1>3
  <2> HIDE DEF found
  <2> QED BY <1>2, <2>1, MaxIs
<1> HIDE DEF from
<1>7. CASE found = {}
  <2>1. p = 1 /\ 1 \in 1 .. m
    BY <1>2, <1>7
  <2> HIDE DEF p, all, m, found
  <2>2. from = readIndex + (IF all[1] \in Newline THEN 1 ELSE 0)
    BY <1>1, <1>2, <1>3, <1>5, <2>1
  <2>3. CASE all[1] \in Newline
    <3>1. from = readIndex + 1 /\ Ends(written[readIndex + 1])
      BY <1>1, <1>4, <2>1, <2>2, <2>3
    <3> QED BY <1>1, <3>1 DEF from
  <2>4. CASE all[1] \notin Newline
    BY <1>1, <2>2, <2>4 DEF from
  <2> QED BY <2>3, <2>4
<1>8. CASE found # {}
  <2>1. p \in 1 .. m /\ all[p] \in Newline /\ Cardinality(After(p)) = n + 1
    BY <1>3, <1>6, <1>8
  <2> DEFINE A == After(p) \ {p}
  <2>2. IsFiniteSet(A) /\ Cardinality(A) = n
    <3>1. IsFiniteSet(After(p)) /\ p \in After(p)
      <4>1. IsFiniteSet(p .. Len(all)) /\ After(p) \in SUBSET (p .. Len(all))
        <5>1. Len(all) = m /\ p \in 1 .. m /\ m \in Nat
          BY <1>2, <1>3, <2>1
        <5> HIDE DEF p, all, m
        <5>2. p \in Int /\ Len(all) \in Int
          BY <5>1
        <5> QED BY <5>2, FS_Interval
      <4>2. p \in p .. Len(all)
        BY <1>2, <1>3, <2>1
      <4> QED BY <2>1, <4>1, <4>2, FS_Subset
    <3> DEFINE B == After(p)
    <3>2. IsFiniteSet(B) /\ p \in B /\ Cardinality(B) = n + 1 /\ A = B \ {p}
      BY <2>1, <3>1
    <3> HIDE DEF B, p, A
    <3>3. IsFiniteSet(B \ {p}) /\ Cardinality(B \ {p}) = (n + 1) - 1
      BY <3>2, FS_RemoveElement
    <3> QED BY <3>2, <3>3
  <2>3. A \in SUBSET Nat /\ \A k \in A : k \in 1 .. m /\ k > p /\ all[k] \in Newline
    <3> SUFFICES ASSUME NEW k \in A
                 PROVE  k \in Nat /\ k \in 1 .. m /\ k > p /\ all[k] \in Newline
      OBVIOUS
    <3>1. k \in p .. Len(all) /\ all[k] \in Newline /\ k # p
      OBVIOUS
    <3> HIDE DEF p, all, A
    <3> QED BY <1>2, <1>3, <2>1, <3>1
  <2> HIDE DEF p, all, m, found, A
  <2>4. from = readIndex + p /\ Ends(written[readIndex + p])
    BY <1>1, <1>2, <1>3, <1>4, <1>5, <2>1
  <2>5. \A k \in A : /\ readIndex + k > from /\ readIndex + k <= writeIndex
                     /\ Ends(written[readIndex + k])
    BY <1>1, <1>2, <1>4, <2>1, <2>3, <2>4
  <2>6. from \in Nat /\ readIndex < from /\ from <= writeIndex
    BY <1>1, <1>2, <2>1, <2>4
  <2>7. \E B \in SUBSET Nat :
          /\ IsFiniteSet(B) /\ Cardinality(B) = n
          /\ \A k \in B : /\ readIndex + k > from /\ readIndex + k <= writeIndex
                          /\ Ends(written[readIndex + k])
    BY <2>2, <2>3, <2>5
  <2>8. from > readIndex /\ Ends(written[from]) /\ readIndex <= from
    BY <1>1, <2>4, <2>6
  <2> QED BY <2>6, <2>7, <2>8 DEF from
<1> QED BY <1>7, <1>8
(***************************************************************************)
(* The lines that a request for the last ones has seen, and what it keeps  *)
(* of them.                                                                *)
(***************************************************************************)
\* The lines that start after position a, at b at the latest, and have more than a stamp.
Taken(a, b) ==
  {k \in 1 .. MaxBytes : HasText(k) /\ \E p \in (a + 1) .. b : IsStamp(written[p]) /\ written[p][2] = k}

\* The entries l are those of the last n lines of S, in order.
LastOf(l, n, S) ==
  /\ Len(l) <= n
  /\ \A i, j \in 1 .. Len(l) : i < j => l[i].stamp < l[j].stamp
  /\ \A i \in 1 .. Len(l) : l[i].stamp \in S /\ TimeOfLine(l[i])
  /\ \A k \in S : \/ \E i \in 1 .. Len(l) : l[i].stamp = k
                  \/ Len(l) = n /\ \A i \in 1 .. Len(l) : k < l[i].stamp

\* Where the parser p of the iterator i stands: what it has not split yet ends at i.
At(i, p) == i.index - Len(p.buf)

\* A request without -f for some number of lines, with nothing written since it came.
Asked(q) == q.pc \notin {"off", "done"} /\ ~q.follow /\ q.n > 0 /\ writeIndex = q.end

NothingYet(q, p) ==
  /\ q.pc # "entry" /\ q.fifo = <<>> /\ q.shown = <<>>
  /\ p.last = 0 /\ \A x \in 1 .. Len(p.buf) : ~IsStamp(p.buf[x])

\* What the parser has not split yet is the part of the log before the iterator, and starts
\* with a line, unless it is the first.
Follows(from, i, p) ==
  LET at == At(i, p)
  IN /\ ~i.trunc
     /\ from <= at /\ i.index <= writeIndex
     /\ \A x \in 1 .. Len(p.buf) : p.buf[x] = written[at + x]
     /\ at = from \/ at = writeIndex \/ Ends(written[at])
     /\ at = from => p.last = 0
     /\ p.eof => i.index = writeIndex

\* The last n of the lines that were split are kept, in the end they are shown.
Keeps(from, at, q, e) ==
  /\ q.pc \in {"more", "nothing"} => at = writeIndex
  /\ q.pc # "end" => q.shown = <<>>
  /\ q.pc \in {"fetch", "again", "more", "nothing"} => LastOf(q.fifo, q.n, Taken(from, at))
  /\ q.pc = "entry" =>
       /\ e.stamp \in Taken(from, at) /\ TimeOfLine(e)
       /\ \A k \in Taken(from, at) : k <= e.stamp
       /\ LastOf(q.fifo, q.n, Taken(from, at) \ {e.stamp})
  /\ q.pc = "end" => LastOf(q.shown, q.n, Taken(from, writeIndex))

Shows(q, i, p) ==
  LET from == ReverseLinePosition(q.n)
  IN /\ q.end <= writeIndex
     /\ q.pc = "wait" => q.follow
     /\ q.pc = "off" => p = NewParser
     /\ Asked(q) => \A x \in 1 .. Len(written) : written[x][2] <= q.since
     /\ Asked(q) /\ writeIndex = 0 => NothingYet(q, p)
     /\ Asked(q) /\ writeIndex > 0 => Follows(from, i, p) /\ Keeps(from, At(i, p), q, p.entry)

ShowInv == Shows(request, iter["request"], parser["request"])

\* Who keeps the last n lines keeps the last n when there is another one.
LEMMA NextKept ==
  ASSUME NEW l \in Seq(LogEntry), NEW n \in Nat, n > 0, NEW S \in SUBSET Nat, LastOf(l, n, S),
         NEW e \in LogEntry, TimeOfLine(e), \A k \in S : k < e.stamp
  PROVE  LastOf(Append(IF Len(l) = n THEN Tail(l) ELSE l, e), n, S \cup {e.stamp})
<1> DEFINE d == IF Len(l) = n THEN 1 ELSE 0
           m == IF Len(l) = n THEN Tail(l) ELSE l
           t == Append(m, e)
<1>1. Len(l) \in Nat /\ Len(l) <= n
  BY DEF LastOf
<1>2. d \in {0, 1} /\ (d = 1 <=> Len(l) = n) /\ d <= Len(l)
  BY <1>1
<1>3. /\ m \in Seq(LogEntry) /\ Len(m) = Len(l) - d
      /\ \A i \in 1 .. Len(m) : m[i] = l[i + d] /\ i + d \in 1 .. Len(l)
  <2>1. CASE Len(l) = n
    BY <1>1, <2>1
  <2>2. CASE Len(l) # n
    BY <1>1, <2>2
  <2> QED BY <2>1, <2>2
<1> HIDE DEF d, m
<1>4. /\ Len(t) = Len(m) + 1 /\ t[Len(m) + 1] = e
      /\ \A i \in 1 .. Len(m) : t[i] = l[i + d]
  BY <1>3
<1>5. Len(m) \in Nat /\ Len(t) <= n /\ (d = 1 => Len(t) = n)
  BY <1>1, <1>2, <1>3, <1>4
<1> HIDE DEF t
<1>6. e.stamp \in Nat
  BY DEF LogEntry
<1>7. ASSUME NEW i \in 1 .. Len(m)
      PROVE  i + d \in 1 .. Len(l) /\ t[i].stamp = l[i + d].stamp /\ t[i].stamp < e.stamp
             /\ t[i].stamp \in S /\ TimeOfLine(t[i])
  <2>1. i + d \in 1 .. Len(l) /\ t[i] = l[i + d]
    BY <1>3, <1>4
  <2>2. l[i + d].stamp \in S /\ TimeOfLine(l[i + d])
    BY <2>1 DEF LastOf
  <2> QED BY <2>1, <2>2
<1>8. \A i, j \in 1 .. Len(t) : i < j => t[i].stamp < t[j].stamp
  <2> SUFFICES ASSUME NEW i \in 1 .. Len(t), NEW j \in 1 .. Len(t), i < j
               PROVE  t[i].stamp < t[j].stamp
    OBVIOUS
  <2>1. i \in 1 .. Len(m)
    BY <1>4, <1>5
  <2>2. CASE j \in 1 .. Len(m)
    <3>1. l[i + d].stamp < l[j + d].stamp
      <4>1. i + d \in 1 .. Len(l) /\ j + d \in 1 .. Len(l) /\ i + d < j + d
        BY <1>2, <1>7, <2>1, <2>2
      <4> QED BY <4>1 DEF LastOf
    <3> QED BY <1>7, <2>1, <2>2, <3>1
  <2>3. CASE j = Len(m) + 1
    BY <1>4, <1>7, <2>1, <2>3
  <2> QED BY <1>4, <1>5, <2>2, <2>3
<1>9. \A i \in 1 .. Len(t) : t[i].stamp \in S \cup {e.stamp} /\ TimeOfLine(t[i])
  <2> SUFFICES ASSUME NEW i \in 1 .. Len(t)
               PROVE  t[i].stamp \in S \cup {e.stamp} /\ TimeOfLine(t[i])
    OBVIOUS
  <2>1. CASE i \in 1 .. Len(m)
    BY <1>7, <2>1
  <2>2. CASE i = Len(m) + 1
    BY <1>4, <2>2
  <2> QED BY <1>4, <1>5, <2>1, <2>2
\* A line that all that is left in the list comes after
<1>10. ASSUME NEW k \in S, d = 1, \A i \in 1 .. Len(m) : k < l[i + d].stamp
       PROVE  Len(t) = n /\ \A i \in 1 .. Len(t) : k < t[i].stamp
  <2>1. \A i \in 1 .. Len(t) : i \in 1 .. Len(m) \/ i = Len(m) + 1
    BY <1>4, <1>5
  <2> QED BY <1>4, <1>5, <1>10, <2>1
<1>11. \A k \in S \cup {e.stamp} : \/ \E i \in 1 .. Len(t) : t[i].stamp = k
                                   \/ Len(t) = n /\ \A i \in 1 .. Len(t) : k < t[i].stamp
  <2> SUFFICES ASSUME NEW k \in S \cup {e.stamp}
               PROVE  \/ \E i \in 1 .. Len(t) : t[i].stamp = k
                      \/ Len(t) = n /\ \A i \in 1 .. Len(t) : k < t[i].stamp
    OBVIOUS
  <2>1. CASE k = e.stamp
    <3>1. Len(m) + 1 \in 1 .. Len(t)
      BY <1>4, <1>5
    <3> QED BY <1>4, <2>1, <3>1
  <2>2. ASSUME k \in S, NEW i \in 1 .. Len(l), l[i].stamp = k
        PROVE  \/ \E j \in 1 .. Len(t) : t[j].stamp = k
               \/ Len(t) = n /\ \A j \in 1 .. Len(t) : k < t[j].stamp
    <3>1. CASE i > d
      <4>1. i - d \in 1 .. Len(m) /\ (i - d) + d = i
        BY <1>1, <1>2, <1>3, <3>1
      <4>2. i - d \in 1 .. Len(t) /\ t[i - d].stamp = k
        BY <1>4, <1>5, <1>7, <2>2, <4>1
      <4> QED BY <4>2
    <3>2. CASE ~(i > d)
      <4>1. d = 1 /\ i = 1
        BY <1>2, <3>2
      <4>2. ASSUME NEW j \in 1 .. Len(m) PROVE k < l[j + d].stamp
        <5>1. j + d \in 1 .. Len(l) /\ i < j + d
          BY <1>7, <4>1
        <5> QED BY <2>2, <5>1 DEF LastOf
      <4> QED BY <1>10, <2>2, <4>1, <4>2
    <3> QED BY <1>2, <3>1, <3>2
  <2>3. CASE k \in S /\ Len(l) = n /\ \A i \in 1 .. Len(l) : k < l[i].stamp
    <3>1. d = 1 /\ \A i \in 1 .. Len(m) : k < l[i + d].stamp
      BY <1>2, <1>7, <2>3
    <3> QED BY <1>10, <2>3, <3>1
  <2> QED BY <2>1, <2>2, <2>3 DEF LastOf
<1> QED BY <1>5, <1>8, <1>9, <1>11 DEF LastOf, t, m

(***************************************************************************)
(* A chunk of the log without the end of a line before its last cell.      *)
(***************************************************************************)
LEMMA NumbersGrow ==
  ASSUME InLines(written), NEW i \in 1 .. Len(written), NEW j \in 1 .. Len(written), i <= j
  PROVE  written[i][2] \in Nat /\ written[j][2] \in Nat /\ written[i][2] <= written[j][2]
<1>1. written \in Seq(LineCell) /\ Len(written) \in Nat
  BY DEF InLines
<1>2. written[i] \in LineCell /\ written[j] \in LineCell
  BY <1>1
<1>3. written[i][2] \in Nat /\ written[j][2] \in Nat
  BY <1>2 DEF LineCell
<1>4. i < j => written[i][2] < written[j][2] \/ written[i][2] = written[j][2]
  BY DEF InLines
<1>5. i < j \/ i = j
  BY <1>1
<1> QED BY <1>3, <1>4, <1>5

\* No line has a greater number than the one being written.
LEMMA NumbersBounded ==
  ASSUME BufferInv, LinesInv
  PROVE  \A x \in 1 .. Len(written) : written[x][2] \in Nat /\ written[x][2] <= format.line
<1> SUFFICES ASSUME NEW x \in 1 .. Len(written)
             PROVE  written[x][2] \in Nat /\ written[x][2] <= format.line
  OBVIOUS
<1> DEFINE m == Len(written)
           last == written[m]
<1>1. m \in Nat
  BY DEF BufferInv, RingInv, RingHoldsTail
<1>2. m > 0 /\ m \in 1 .. m /\ x <= m
  BY <1>1
<1>3. written[x][2] \in Nat /\ last[2] \in Nat /\ written[x][2] <= last[2]
  BY <1>2, NumbersGrow DEF LinesInv
<1>4. format.line = last[2] \/ format.line = last[2] + 1
  BY <1>2 DEF LinesInv
<1> HIDE DEF last
<1> QED BY <1>3, <1>4

LEMMA SameLine ==
  ASSUME InLines(written), NEW a \in Nat, NEW c \in Nat, a < c, c <= Len(written),
         \A i \in (a + 1) .. c : i < c => ~Ends(written[i])
  PROVE  \A i \in (a + 1) .. c : written[i][2] = written[a + 1][2]
                                 /\ (i > a + 1 => ~IsStamp(written[i]))
<1> SUFFICES ASSUME NEW i \in (a + 1) .. c, i > a + 1
             PROVE  written[i][2] = written[a + 1][2] /\ ~IsStamp(written[i])
  OBVIOUS
<1>1. written \in Seq(LineCell) /\ Len(written) \in Nat
  BY DEF InLines
<1>2. i \in 1 .. Len(written) /\ a + 1 \in 1 .. Len(written) /\ i \in Nat
  BY <1>1
<1>3. \A j \in 1 .. Len(written) : written[j][2] \in Nat
  <2>1. \A j \in 1 .. Len(written) : written[j] \in LineCell
    BY <1>1
  <2> QED BY <2>1 DEF LineCell
<1>4. ASSUME NEW j \in (a + 2) .. i PROVE ~IsStamp(written[j])
  <2>1. j \in 1 .. Len(written) /\ j > 1 /\ j - 1 \in (a + 1) .. c /\ j - 1 < c
    BY <1>1, <1>2
  <2>2. ~Ends(written[j - 1])
    BY <2>1
  <2> QED BY <2>1, <2>2 DEF InLines
<1>5. PICK p \in 1 .. i : IsStamp(written[p]) /\ written[p][2] = written[i][2]
  BY <1>2 DEF InLines
<1>6. p \in 1 .. (a + 1) /\ p \in 1 .. Len(written)
  <2>1. p \notin (a + 2) .. i
    BY <1>4, <1>5
  <2> QED BY <1>1, <1>2, <2>1
<1>7. p < a + 1 => written[p][2] <= written[a + 1][2]
  BY <1>2, <1>6, NumbersGrow
<1>8. written[a + 1][2] <= written[i][2]
  <2>1. a + 1 <= i
    BY <1>2
  <2> QED BY <1>2, <2>1, NumbersGrow
<1>9. written[i][2] = written[a + 1][2]
  <2> DEFINE x == written[p][2]
             y == written[a + 1][2]
             z == written[i][2]
  <2>1. x \in Nat /\ y \in Nat /\ z \in Nat /\ x = z /\ y <= z
    BY <1>2, <1>3, <1>5, <1>6, <1>8
  <2>2. p < a + 1 => x <= y
    BY <1>7
  <2>3. p = a + 1 => x = y
    OBVIOUS
  <2>4. p < a + 1 \/ p = a + 1
    BY <1>6
  <2> HIDE DEF x, y, z
  <2>5. z = y
    BY <2>1, <2>2, <2>3, <2>4
  <2> QED BY <2>5 DEF y, z
<1>10. i \in (a + 2) .. i
  BY <1>2
<1> QED BY <1>4, <1>9, <1>10

\* A chunk that starts in the middle of a line adds no line.
LEMMA NoneTaken ==
  ASSUME NEW f \in Nat, NEW a \in Nat, NEW c \in Nat, a <= c,
         \A i \in (a + 1) .. c : ~IsStamp(written[i])
  PROVE  Taken(f, c) = Taken(f, a)
<1>1. ASSUME NEW k
      PROVE  (\E p \in (f + 1) .. c : IsStamp(written[p]) /\ written[p][2] = k)
               <=> (\E p \in (f + 1) .. a : IsStamp(written[p]) /\ written[p][2] = k)
  <2>1. ASSUME NEW p \in (f + 1) .. c, IsStamp(written[p]) PROVE p \in (f + 1) .. a
    <3>1. p \notin (a + 1) .. c
      BY <2>1
    <3> QED BY <3>1
  <2>2. \A p \in (f + 1) .. a : p \in (f + 1) .. c
    OBVIOUS
  <2> QED BY <2>1, <2>2
<1> QED BY <1>1 DEF Taken

\* A line that starts after those that were taken has a greater number than they.
LEMMA NextNumber ==
  ASSUME InLines(written), NEW f \in Nat, NEW a \in Nat, a < Len(written), IsStamp(written[a + 1])
  PROVE  \A k \in Taken(f, a) : k < written[a + 1][2]
<1> SUFFICES ASSUME NEW k \in Taken(f, a) PROVE k < written[a + 1][2]
  OBVIOUS
<1>1. PICK p \in (f + 1) .. a : IsStamp(written[p]) /\ written[p][2] = k
  BY DEF Taken
<1>2. p \in 1 .. Len(written) /\ a + 1 \in 1 .. Len(written) /\ p < a + 1
  BY DEF InLines
<1>3. written[p][2] < written[a + 1][2]
  BY <1>2 DEF InLines
<1> QED BY <1>1, <1>3

\* A chunk that starts with a stamp adds its line, unless there is no text.
LEMMA LineTaken ==
  ASSUME InLines(written), NEW f \in Nat, NEW a \in Nat, NEW c \in Nat,
         f <= a, a < c, c <= Len(written),
         \A i \in (a + 1) .. c : i > a + 1 => ~IsStamp(written[i]),
         IsStamp(written[a + 1])
  PROVE  Taken(f, c) = Taken(f, a) \cup {k \in {written[a + 1][2]} : HasText(k)}
<1> DEFINE l == written[a + 1][2]
<1>1. written \in Seq(LineCell) /\ Len(written) \in Nat /\ a + 1 \in 1 .. Len(written)
  BY DEF InLines
<1>2. l \in 1 .. MaxBytes
  <2>1. written[a + 1] \in LineCell
    BY <1>1
  <2> QED BY <2>1 DEF LineCell
<1>3. ASSUME NEW k
      PROVE  (\E p \in (f + 1) .. c : IsStamp(written[p]) /\ written[p][2] = k)
               <=> (\E p \in (f + 1) .. a : IsStamp(written[p]) /\ written[p][2] = k) \/ k = l
  <2>1. ASSUME NEW p \in (f + 1) .. c, IsStamp(written[p]) PROVE p \in (f + 1) .. a \/ p = a + 1
    <3>1. p \in (a + 1) .. c => p = a + 1
      BY <2>1
    <3> QED BY <3>1
  <2>2. (\A p \in (f + 1) .. a : p \in (f + 1) .. c) /\ a + 1 \in (f + 1) .. c
    OBVIOUS
  <2> QED BY <2>1, <2>2
<1> HIDE DEF l
<1>4. \A k : k \in Taken(f, c) <=> k \in Taken(f, a) \/ (k = l /\ HasText(k))
  BY <1>2, <1>3 DEF Taken
<1>5. Taken(f, c) = Taken(f, a) \cup {k \in {l} : HasText(k)}
  BY <1>4
<1> QED BY <1>5 DEF l

\* What the parser takes next: up to the end of a line, or all it has.
LEMMA NextTaken ==
  ASSUME NEW r, NEW buf, buf = parser[r].buf, buf \in Seq(Cell)
  PROVE  LET line == NextLine(r)
         IN /\ line \in Seq(Cell) /\ Len(line) <= Len(buf)
            /\ \A i \in 1 .. Len(line) : line[i] = buf[i]
            /\ \A i \in 1 .. Len(line) : i < Len(line) => ~EndsLine(buf[i])
            /\ HasLine(r) => Len(line) > 0 /\ EndsLine(buf[Len(line)])
            /\ ~HasLine(r) => Len(line) = Len(buf)
<1> DEFINE ends == {i \in 1 .. Len(buf) : EndsLine(buf[i])}
<1>1. Len(buf) \in Nat
  OBVIOUS
<1>2. HasLine(r) <=> ends # {}
  BY DEF HasLine
<1>3. CASE ends = {}
  <2>1. NextLine(r) = buf
    BY <1>3 DEF NextLine
  <2>2. \A i \in 1 .. Len(buf) : ~EndsLine(buf[i])
    BY <1>3
  <2> HIDE DEF ends
  <2> QED BY <1>1, <1>2, <1>3, <2>1, <2>2
<1>4. CASE ends # {}
  <2>1. ends \in SUBSET Nat
    BY <1>1
  <2>2. Min(ends) \in ends /\ \A y \in ends : Min(ends) <= y
    BY <1>4, <2>1, MinIs
  <2> DEFINE m == Min(ends)
             line == SubSeq(buf, 1, m)
  <2>3. NextLine(r) = line
    BY <1>4 DEF NextLine
  <2>4. m \in 1 .. Len(buf) /\ EndsLine(buf[m])
    BY <2>2
  <2>5. \A i \in 1 .. Len(buf) : i < m => ~EndsLine(buf[i])
    <3> SUFFICES ASSUME NEW i \in 1 .. Len(buf), i < m, EndsLine(buf[i]) PROVE FALSE
      OBVIOUS
    <3>1. i \in ends
      OBVIOUS
    <3>2. m <= i
      BY <2>2, <3>1
    <3> HIDE DEF m, ends
    <3> QED BY <1>1, <2>4, <3>2
  <2> HIDE DEF m, ends
  <2>6. line \in Seq(Cell) /\ Len(line) = m /\ \A i \in 1 .. m : line[i] = buf[i]
    BY <1>1, <2>4
  <2> HIDE DEF line
  <2> QED BY <1>1, <1>2, <1>4, <2>3, <2>4, <2>5, <2>6
<1> QED BY <1>3, <1>4

LEMMA HeadIs ==
  ASSUME BufferInv, LinesInv, NEW n \in Int, n > 0, writeIndex > 0
  PROVE  LET from == ReverseLinePosition(n)
         IN /\ from \in Nat /\ readIndex <= from /\ from <= writeIndex
            /\ n \in Nat /\ writeIndex = Len(written) /\ written \in Seq(LineCell)
            /\ writeIndex \in Nat /\ readIndex \in Nat
<1> DEFINE from == ReverseLinePosition(n)
<1>1. n \in Nat
  OBVIOUS
<1>2. RingInv /\ InLines(written)
  BY DEF BufferInv, LinesInv
<1>3. from \in Nat /\ readIndex <= from /\ from <= writeIndex
  BY <1>1, <1>2, HeadLines
<1> HIDE DEF from
<1> QED BY <1>1, <1>2, <1>3 DEF RingInv, RingHoldsTail, InLines, from

LEMMA RequestCount ==
  ASSUME RequestInv
  PROVE  request.n \in Int
<1>1. request.n \in LogCount \cup {DefaultLogs, 0}
  BY DEF RequestInv, RequestState
<1>2. LogCount \subseteq Int /\ DefaultLogs \in Int /\ 0 \in Int
  BY ForwardAssumption DEF ForwardAssumption
<1> QED BY <1>1, <1>2, Zenon

\* A line of the log goes from the parser into an entry with its number, or adds nothing: it has
\* no text yet, or the first one has no stamp.
LEMMA SplitTakes ==
  ASSUME BufferInv, RequestInv, LinesInv, NEW n \in Int, n > 0, writeIndex > 0,
         NEW f, f = ReverseLinePosition(n), Follows(f, iter["request"], parser["request"]),
         NEW found \in BOOLEAN, ParserSplits("request", found)
  PROVE  LET i == iter["request"]
             new == parser'["request"]
             a == At(i, parser["request"])
             c == At(i, new)
         IN /\ c \in Nat /\ Follows(f, i, new)
            /\ ~HasLine("request") => c = writeIndex
            /\ ~found => Taken(f, c) = Taken(f, a)
            /\ found => /\ new.entry.stamp \in Taken(f, c) /\ TimeOfLine(new.entry)
                        /\ \A k \in Taken(f, c) : k <= new.entry.stamp
                        /\ Taken(f, c) \ {new.entry.stamp} = Taken(f, a)
<1> DEFINE old == parser["request"]
           buf == old.buf
           line == NextLine("request")
           m == Len(line)
           rest == SubSeq(buf, m + 1, Len(buf))
           stamped == line # <<>> /\ IsStamp(line[1])
           last == IF stamped THEN line[1][2] ELSE old.last
           text == IF stamped THEN Tail(line) ELSE line
           entry == IF found THEN [stamp |-> last, text |-> text] ELSE <<>>
           eof == HasLine("request") /\ old.eof
           new == [buf |-> rest, eof |-> eof, last |-> last, entry |-> entry]
           ix == iter["request"].index
           a == At(iter["request"], old)
           c == a + m
<1>1. /\ parser \in [Reader -> ParserState] /\ "request" \in Reader
      /\ buf \in Seq(Cell) /\ old.last \in Nat /\ old.eof \in BOOLEAN
  BY ReaderNames DEF RequestInv, ParserState
<1>2. /\ f \in Nat /\ readIndex <= f /\ f <= writeIndex
      /\ writeIndex = Len(written) /\ written \in Seq(LineCell)
      /\ writeIndex \in Nat /\ InLines(written)
  BY HeadIs DEF LinesInv
<1>3. parser'["request"] = new /\ found = (text # <<>> /\ last # 0)
      /\ (HasLine("request") \/ old.eof)
  BY <1>1 DEF ParserSplits
<1>4. /\ line \in Seq(Cell) /\ m <= Len(buf)
      /\ \A i \in 1 .. m : line[i] = buf[i]
      /\ \A i \in 1 .. m : i < m => ~EndsLine(buf[i])
      /\ HasLine("request") => m > 0 /\ EndsLine(buf[m])
      /\ ~HasLine("request") => m = Len(buf)
  BY <1>1, NextTaken
<1>5. m \in Nat /\ Len(buf) \in Nat /\ (line = <<>> <=> m = 0)
  BY <1>1, <1>4
<1>6. /\ a = ix - Len(buf) /\ f <= a /\ ix <= writeIndex
      /\ \A i \in 1 .. Len(buf) : buf[i] = written[a + i]
      /\ a = f \/ a = writeIndex \/ Ends(written[a])
      /\ a = f => old.last = 0
      /\ old.eof => ix = writeIndex
  BY DEF Follows, At
<1>7. ix \in Int
  BY <1>1 DEF BufferInv, IterInv, Iterator
<1>8. rest \in Seq(Cell) /\ Len(rest) = Len(buf) - m
      /\ \A i \in 1 .. Len(rest) : rest[i] = buf[m + i] /\ m + i \in 1 .. Len(buf)
  BY <1>1, <1>4, <1>5
<1> HIDE DEF buf, line, old, a, ix
<1>9. a \in Nat /\ c \in Nat /\ a <= c /\ c <= ix /\ c = ix - Len(rest)
  <2> DEFINE j == Len(buf)
             i == Len(line)
             h == Len(rest)
  <2>1. /\ a = ix - j /\ f <= a /\ i <= j /\ i \in Nat /\ j \in Nat /\ h = j - i
    BY <1>4, <1>5, <1>6, <1>8
  <2> HIDE DEF i, j, h
  <2>2. a \in Nat /\ a + i \in Nat /\ a <= a + i /\ a + i <= ix /\ a + i = ix - h
    BY <1>2, <1>7, <2>1
  <2> QED BY <2>2 DEF i, h
<1>10. \A i \in 1 .. Len(rest) : rest[i] = written[c + i]
  <2> SUFFICES ASSUME NEW i \in 1 .. Len(rest) PROVE rest[i] = written[c + i]
    OBVIOUS
  <2>1. rest[i] = buf[m + i] /\ m + i \in 1 .. Len(buf)
    BY <1>8
  <2>2. a + (m + i) = c + i
    BY <1>5, <1>9, <2>1
  <2>3. buf[m + i] = written[a + (m + i)]
    BY <1>6, <2>1
  <2> QED BY <2>1, <2>2, <2>3
<1>11. ASSUME NEW i \in 1 .. m
       PROVE  /\ line[i] = written[a + i] /\ a + i \in 1 .. Len(written) /\ a + i \in (a + 1) .. c
              /\ EndsLine(buf[i]) <=> Ends(written[a + i])
              /\ buf[i] = written[a + i]
  <2>1. i \in 1 .. Len(buf) /\ a + i \in 1 .. Len(written) /\ a + i \in (a + 1) .. c
    BY <1>2, <1>4, <1>5, <1>6, <1>7, <1>9
  <2>2. line[i] = buf[i] /\ buf[i] = written[a + i]
    BY <1>4, <1>6, <2>1
  <2>3. written[a + i] \in LineCell
    BY <1>2, <2>1
  <2>4. EndsLine(written[a + i]) <=> Ends(written[a + i])
    BY <2>3 DEF LineCell, EndsLine, Ends
  <2> QED BY <2>1, <2>2, <2>4
<1> HIDE DEF rest
<1>12. ~HasLine("request") => c = writeIndex
  BY <1>3, <1>4, <1>5, <1>6, <1>7, <1>9
<1>13. c = f \/ c = writeIndex \/ Ends(written[c])
  <2>1. CASE HasLine("request")
    <3>1. m \in 1 .. m /\ EndsLine(buf[m])
      BY <1>4, <1>5, <2>1
    <3> QED BY <1>11, <3>1
  <2> QED BY <1>12, <2>1
<1>14. c = f => m = 0 /\ last = 0
  <2> SUFFICES ASSUME c = f PROVE m = 0 /\ last = 0
    OBVIOUS
  <2>1. m = 0 /\ a = f
    BY <1>5, <1>6, <1>9
  <2> QED BY <1>5, <1>6, <2>1
<1>15. new.buf = rest /\ new.last = last /\ new.eof = eof /\ new.entry = entry
  OBVIOUS
<1>16. /\ ~found => Taken(f, c) = Taken(f, a)
       /\ found => /\ last \in Taken(f, c) /\ TimeOfLine(entry)
                   /\ \A k \in Taken(f, c) : k <= last
                   /\ Taken(f, c) \ {last} = Taken(f, a)
                   /\ entry.stamp = last
  <2>1. CASE m = 0
    <3>1. c = a /\ text = <<>>
      BY <1>5, <1>9, <2>1
    <3> QED BY <1>3, <3>1
  <2>2. CASE m > 0
    <3> DEFINE l == written[a + 1][2]
    <3>1. 1 \in 1 .. m /\ line # <<>>
      BY <1>5, <2>2
    <3>2. line[1] = written[a + 1] /\ a + 1 \in 1 .. Len(written)
      BY <1>11, <3>1
    <3>3. a < c /\ c <= Len(written) /\ a < Len(written)
      BY <1>2, <1>5, <1>6, <1>9, <2>2, <1>7
    <3>4. \A i \in (a + 1) .. c : i < c => ~Ends(written[i])
      <4> SUFFICES ASSUME NEW i \in (a + 1) .. c, i < c PROVE ~Ends(written[i])
        OBVIOUS
      <4>1. i - a \in 1 .. m /\ i - a < m /\ a + (i - a) = i
        BY <1>5, <1>9
      <4>2. ~EndsLine(buf[i - a])
        BY <1>4, <4>1
      <4> QED BY <1>11, <4>1, <4>2
    <3>5. \A i \in (a + 1) .. c : written[i][2] = l /\ (i > a + 1 => ~IsStamp(written[i]))
      BY <1>2, <1>9, <3>3, <3>4, SameLine
    <3>6. l \in Nat /\ l > 0
      <4>1. written[a + 1] \in LineCell
        BY <1>2, <3>2
      <4> QED BY <4>1 DEF LineCell
    <3> HIDE DEF l
    <3>7. CASE IsStamp(written[a + 1])
      <4>1. stamped /\ last = l /\ text = Tail(line)
        BY <3>1, <3>2, <3>7 DEF l
      <4> HIDE DEF text, last, stamped
      <4>2. Taken(f, c) = Taken(f, a) \cup {k \in {l} : HasText(k)}
        <5>1. \A i \in (a + 1) .. c : i > a + 1 => ~IsStamp(written[i])
          BY <3>5
        <5>2. f \in Nat /\ f <= a
          BY <1>2, <1>6
        <5> HIDE DEF c
        <5>3. Taken(f, c) = Taken(f, a) \cup {k \in {written[a + 1][2]} : HasText(k)}
          BY <1>2, <1>9, <3>3, <3>7, <5>1, <5>2, LineTaken
        <5> QED BY <5>3 DEF l
      <4>3. \A k \in Taken(f, a) : k < l
        BY <1>2, <1>9, <3>3, <3>7, NextNumber DEF l
      <4>4. CASE m = 1
        <5>1. text = <<>> /\ ~found
          <6>1. Tail(line) \in Seq(Cell) /\ Len(Tail(line)) = 0
            BY <1>4, <3>1, <4>4
          <6>2. text = <<>>
            BY <4>1, <6>1
          <6> QED BY <1>3, <6>2
        <5>2. ~HasText(l)
          <6> SUFFICES ASSUME HasText(l) PROVE FALSE
            OBVIOUS
          <6>1. PICK q \in 1 .. Len(written) : written[q][2] = l /\ ~IsStamp(written[q])
            BY DEF HasText
          <6>2. ~HasLine("request")
            <7>1. ~Ends(written[a + 1])
              BY <3>7 DEF IsStamp, Ends
            <7> QED BY <1>4, <1>11, <3>1, <4>4, <7>1
          <6>3. a + 1 = Len(written)
            BY <1>2, <1>9, <1>12, <4>4, <6>2
          <6>4. q < a + 1
            <7>1. q # a + 1
              BY <3>7, <6>1
            <7> QED BY <1>2, <6>3, <7>1
          <6>5. written[q][2] < l
            BY <1>2, <3>2, <3>7, <6>4 DEF InLines, l
          <6> QED BY <3>6, <6>1, <6>5
        <5> QED BY <4>2, <5>1, <5>2
      <4>5. CASE m > 1
        <5>1. text \in Seq(Cell) /\ Len(text) = m - 1 /\ \A i \in 1 .. Len(text) : text[i] = line[i + 1]
          BY <1>4, <1>5, <3>1, <4>1
        <5>2. found
          <6>1. Len(text) > 0
            BY <1>5, <4>5, <5>1
          <6>2. text # <<>>
            BY <5>1, <6>1
          <6>3. last # 0
            BY <3>6, <4>1
          <6> QED BY <1>3, <6>2, <6>3
        <5>3. HasText(l)
          <6>1. 2 \in 1 .. m /\ a + 2 \in 1 .. Len(written) /\ a + 2 \in (a + 1) .. c /\ a + 2 > a + 1
            BY <1>5, <1>9, <1>11, <4>5
          <6>2. written[a + 2][2] = l /\ ~IsStamp(written[a + 2])
            BY <3>5, <6>1
          <6> QED BY <6>1, <6>2 DEF HasText
        <5>4. Taken(f, c) = Taken(f, a) \cup {l}
          BY <4>2, <5>3
        <5>5. l \notin Taken(f, a)
          BY <3>6, <4>3
        <5>6. entry.stamp = last /\ entry.text = text
          BY <5>2
        <5>7. TimeOfLine(entry)
          <6> SUFFICES ASSUME NEW i \in 1 .. Len(text) PROVE text[i][2] = l
            BY <4>1, <5>6 DEF TimeOfLine
          <6>1. i + 1 \in 1 .. m /\ text[i] = line[i + 1]
            BY <1>5, <5>1
          <6>2. line[i + 1] = written[a + (i + 1)] /\ a + (i + 1) \in (a + 1) .. c
            BY <1>11, <6>1
          <6> QED BY <3>5, <6>1, <6>2
        <5> HIDE DEF entry
        <5>8. \A k \in Taken(f, c) : k <= l
          BY <3>6, <4>3, <5>4 DEF Taken
        <5> QED BY <4>1, <5>2, <5>4, <5>5, <5>6, <5>7, <5>8
      <4>6. m = 1 \/ m > 1
        <5>1. m \in Nat /\ m > 0
          BY <1>5, <2>2
        <5> HIDE DEF m
        <5> QED BY <5>1
      <4> QED BY <4>4, <4>5, <4>6, Zenon
    <3>8. CASE ~IsStamp(written[a + 1])
      <4>1. ~stamped /\ last = old.last
        BY <3>2, <3>8
      <4>2. a = f
        <5>1. a # writeIndex
          BY <1>2, <3>3
        <5>2. Ends(written[a]) /\ a > 0 => FALSE
          <6> SUFFICES ASSUME Ends(written[a]), a > 0 PROVE FALSE
            OBVIOUS
          <6>1. a + 1 > 1 /\ (a + 1) - 1 = a
            BY <1>9
          <6> QED BY <1>2, <3>2, <3>8, <6>1 DEF InLines
        <5>3. a = 0 => a = f
          BY <1>2, <1>6
        <5> QED BY <1>6, <1>9, <5>1, <5>2, <5>3
      <4>3. last = 0 /\ ~found
        BY <1>3, <1>6, <4>1, <4>2
      <4>4. \A i \in (a + 1) .. c : ~IsStamp(written[i])
        BY <1>9, <3>5, <3>8
      <4>5. Taken(f, c) = Taken(f, a)
        BY <1>2, <1>9, <4>4, NoneTaken
      <4> QED BY <4>3, <4>5
    <3> QED BY <3>7, <3>8
  <2>3. m = 0 \/ m > 0
    BY <1>5
  <2> HIDE DEF m
  <2> QED BY <2>1, <2>2, <2>3, Zenon
<1> HIDE DEF c, entry, last, text
<1>17. eof => ix = writeIndex
  BY <1>6
<1>18. c = At(iter["request"], new) /\ a = At(iter["request"], parser["request"])
  BY <1>9, <1>15 DEF At, a, ix, old
<1>19. Follows(f, iter["request"], new)
  <2>1. f <= c /\ ~iter["request"].trunc
    BY <1>2, <1>6, <1>9 DEF Follows
  <2> HIDE DEF new, eof
  <2> QED BY <1>6, <1>10, <1>13, <1>14, <1>15, <1>17, <1>18, <2>1 DEF Follows, ix
<1> HIDE DEF eof, new
<1> QED BY <1>3, <1>9, <1>12, <1>15, <1>16, <1>18, <1>19

\* Whether a request is in order depends on the ring, and on it and its reader.
LEMMA ShowsNext ==
  ASSUME UNCHANGED <<data, readIndex, writeIndex, written>>, NEW q, NEW i, NEW p, Shows(q, i, p),
         request' = q, iter'["request"] = i, parser'["request"] = p
  PROVE  ShowInv'
<1>1. UNCHANGED <<data, readIndex, writeIndex, written>>
  OBVIOUS
<1> DEFINE f == ReverseLinePosition(q.n)
<1>2. ReverseLinePosition(request.n)' = f
  BY <1>1 DEF ReverseLinePosition, PositionAfterNewline, Bytes, Slots
<1>3. ASSUME NEW a, NEW b PROVE Taken(a, b)' = Taken(a, b)
  BY <1>1 DEF Taken, HasText
<1>4. /\ Asked(request)' <=> Asked(q)
      /\ NothingYet(request, parser["request"])' <=> NothingYet(q, p)
      /\ At(iter["request"], parser["request"])' = At(i, p)
  BY <1>1 DEF Asked, NothingYet, At
<1>5. ASSUME NEW g PROVE Follows(g, iter["request"], parser["request"])' <=> Follows(g, i, p)
  BY <1>1, <1>4 DEF Follows
<1>6. ASSUME NEW g, NEW a
      PROVE  Keeps(g, a, request, parser["request"].entry)' <=> Keeps(g, a, q, p.entry)
  BY <1>1, <1>3 DEF Keeps
<1> QED BY <1>1, <1>2, <1>4, <1>5, <1>6 DEF ShowInv, Shows

LEMMA OtherPoint ==
  ASSUME RequestInv, NEW pc, request' = [request EXCEPT !.pc = pc]
  PROVE  /\ request'.pc = pc /\ request'.n = request.n /\ request'.follow = request.follow
         /\ request'.fifo = request.fifo /\ request'.shown = request.shown
         /\ request'.since = request.since /\ request'.end = request.end
BY DEF RequestInv, RequestState

\* On an empty ring the parser has nothing to split, but the text for a gap.
LEMMA NothingSplit ==
  ASSUME RequestInv, NothingYet(request, parser["request"]),
         NEW found \in BOOLEAN, ParserSplits("request", found)
  PROVE  /\ ~found /\ parser'["request"].last = 0
         /\ LET buf == parser'["request"].buf
            IN \A x \in 1 .. Len(buf) : ~IsStamp(buf[x])
<1> DEFINE buf == parser["request"].buf
           line == NextLine("request")
           m == Len(line)
           rest == SubSeq(buf, m + 1, Len(buf))
<1>1. /\ parser \in [Reader -> ParserState] /\ "request" \in Reader /\ buf \in Seq(Cell)
      /\ parser["request"].last = 0 /\ \A x \in 1 .. Len(buf) : ~IsStamp(buf[x])
  BY ReaderNames DEF RequestInv, ParserState, NothingYet
<1>2. /\ line \in Seq(Cell) /\ m <= Len(buf) /\ \A i \in 1 .. m : line[i] = buf[i]
  BY <1>1, NextTaken
<1>3. m \in Nat /\ Len(buf) \in Nat /\ (line # <<>> => m > 0)
  BY <1>1, <1>2
<1>4. ~(line # <<>> /\ IsStamp(line[1]))
  <2> SUFFICES ASSUME line # <<>>, IsStamp(line[1]) PROVE FALSE
    OBVIOUS
  <2> HIDE DEF line, buf
  <2>1. 1 \in 1 .. m /\ 1 \in 1 .. Len(buf)
    BY <1>2, <1>3
  <2> QED BY <1>1, <1>2, <2>1
<1>5. ~found /\ parser'["request"].last = 0 /\ parser'["request"].buf = rest
  BY <1>1, <1>4 DEF ParserSplits
<1>6. \A x \in 1 .. Len(rest) : ~IsStamp(rest[x])
  <2> HIDE DEF line, buf
  <2>1. \A x \in 1 .. Len(rest) : rest[x] = buf[m + x] /\ m + x \in 1 .. Len(buf)
    BY <1>1, <1>2, <1>3
  <2> HIDE DEF rest
  <2> QED BY <1>1, <2>1
<1> HIDE DEF rest
<1> QED BY <1>5, <1>6

LEMMA SplitsShow ==
  ASSUME BufferInv, RequestInv, LinesInv, ShowInv, UNCHANGED ringVars,
         request.pc \in {"fetch", "again"},
         NEW found \in BOOLEAN, ParserSplits("request", found),
         NEW pc, request' = [request EXCEPT !.pc = pc],
         found => pc = "entry",
         ~found => \/ HasLine("request") /\ pc = request.pc
                   \/ ~HasLine("request") /\ pc \in {"more", "nothing"}
  PROVE  ShowInv'
<1> DEFINE q == request'
           i == iter["request"]
           old == parser["request"]
           p == parser'["request"]
           f == ReverseLinePosition(request.n)
<1>1. UNCHANGED iter /\ request.n \in Int
  BY RequestCount DEF ParserSplits
<1>2. /\ q.pc = pc /\ q.n = request.n /\ q.follow = request.follow /\ q.fifo = request.fifo
      /\ q.shown = request.shown /\ q.since = request.since /\ q.end = request.end
  BY OtherPoint
<1>3. pc \in {"fetch", "again", "entry", "more", "nothing"}
  OBVIOUS
<1>4. Asked(q) => Asked(request)
  BY <1>2 DEF Asked
<1>5. /\ q.end <= writeIndex /\ pc # "wait" /\ pc # "off"
      /\ Asked(q) => \A x \in 1 .. Len(written) : written[x][2] <= q.since
  BY <1>2, <1>3, <1>4 DEF ShowInv, Shows
<1>6. Asked(q) /\ writeIndex = 0 => NothingYet(q, p)
  <2> SUFFICES ASSUME Asked(q), writeIndex = 0 PROVE NothingYet(q, p)
    OBVIOUS
  <2>1. NothingYet(request, old)
    BY <1>4 DEF ShowInv, Shows
  <2>2. ~found /\ p.last = 0 /\ \A x \in 1 .. Len(p.buf) : ~IsStamp(p.buf[x])
    BY <2>1, NothingSplit
  <2>3. pc # "entry"
    BY <2>2
  <2> QED BY <1>2, <2>1, <2>2, <2>3 DEF NothingYet
<1>7. Asked(q) /\ writeIndex > 0 => Follows(f, i, p) /\ Keeps(f, At(i, p), q, p.entry)
  <2> SUFFICES ASSUME Asked(q), writeIndex > 0
               PROVE  Follows(f, i, p) /\ Keeps(f, At(i, p), q, p.entry)
    OBVIOUS
  <2>1. /\ Follows(f, i, old) /\ Keeps(f, At(i, old), request, old.entry)
        /\ request.n > 0
    BY <1>4 DEF ShowInv, Shows, Asked
  <2>2. PICK g : g = f
    OBVIOUS
  <2>3. Follows(g, i, old) /\ Keeps(g, At(i, old), request, old.entry)
    BY <2>1, <2>2
  <2> DEFINE a == At(i, old)
             c == At(i, p)
  <2>4. /\ c \in Nat /\ Follows(g, i, p)
        /\ ~HasLine("request") => c = writeIndex
        /\ ~found => Taken(g, c) = Taken(g, a)
        /\ found => /\ p.entry.stamp \in Taken(g, c) /\ TimeOfLine(p.entry)
                    /\ \A k \in Taken(g, c) : k <= p.entry.stamp
                    /\ Taken(g, c) \ {p.entry.stamp} = Taken(g, a)
    BY <1>1, <2>1, <2>2, <2>3, SplitTakes
  <2>5. request.shown = <<>> /\ LastOf(request.fifo, request.n, Taken(g, a))
        /\ (pc = request.pc => pc \in {"fetch", "again"})
    BY <2>3 DEF Keeps
  <2> HIDE DEF a, c, q, i, p, old, f
  <2>6. ASSUME found PROVE Keeps(g, c, q, p.entry)
    BY <1>2, <2>4, <2>5, <2>6 DEF Keeps
  <2>7. ASSUME ~found PROVE Keeps(g, c, q, p.entry)
    BY <1>2, <1>3, <2>4, <2>5, <2>7 DEF Keeps
  <2> QED BY <2>2, <2>4, <2>6, <2>7 DEF c
<1>8. Shows(q, i, p)
  BY <1>2, <1>5, <1>6, <1>7 DEF Shows
<1>9. iter'["request"] = i
  BY <1>1
<1> HIDE DEF q, i, p
<1> QED BY <1>8, <1>9, ShowsNext DEF ringVars, q, i, p

LEMMA FedIs ==
  ASSUME RequestInv, NEW cells \in Seq(Cell), NEW eof \in BOOLEAN,
         parser' = [parser EXCEPT !["request"].buf = @ \o cells, !["request"].eof = eof]
  PROVE  LET old == parser["request"]
             p == parser'["request"]
         IN /\ p.last = old.last /\ p.entry = old.entry /\ p.eof = eof
            /\ Len(p.buf) = Len(old.buf) + Len(cells)
            /\ Len(old.buf) \in Nat /\ Len(cells) \in Nat
            /\ \A x \in 1 .. Len(old.buf) : p.buf[x] = old.buf[x]
            /\ \A x \in 1 .. Len(p.buf) : x > Len(old.buf) =>
                 x - Len(old.buf) \in 1 .. Len(cells) /\ p.buf[x] = cells[x - Len(old.buf)]
<1> DEFINE buf == parser["request"].buf
<1>1. parser \in [Reader -> ParserState] /\ "request" \in Reader /\ buf \in Seq(Cell)
  BY ReaderNames DEF RequestInv, ParserState
<1>2. /\ parser'["request"].last = parser["request"].last
      /\ parser'["request"].entry = parser["request"].entry
      /\ parser'["request"].eof = eof /\ parser'["request"].buf = buf \o cells
  BY <1>1 DEF ParserState
<1> DEFINE all == buf \o cells
<1>3. /\ Len(all) = Len(buf) + Len(cells)
      /\ \A x \in 1 .. Len(buf) + Len(cells) :
           all[x] = IF x <= Len(buf) THEN buf[x] ELSE cells[x - Len(buf)]
  BY <1>1, ConcatProperties
<1> HIDE DEF all, buf
<1>4. Len(buf) \in Nat /\ Len(cells) \in Nat
  BY <1>1
<1>5. \A x \in 1 .. Len(buf) : all[x] = buf[x]
  BY <1>3, <1>4
<1>6. \A x \in 1 .. Len(all) : x > Len(buf) =>
        x - Len(buf) \in 1 .. Len(cells) /\ all[x] = cells[x - Len(buf)]
  BY <1>3, <1>4
<1> QED BY <1>2, <1>3, <1>4, <1>5, <1>6 DEF all, buf

\* What comes from an empty ring is no stamp.
LEMMA EmptyReads ==
  ASSUME BufferInv, RequestInv, writeIndex = 0, NothingYet(request, parser["request"]),
         ParserReads("request"), UNCHANGED request
  PROVE  NothingYet(request, parser'["request"])
<1> DEFINE Fed(cells, eof) ==
             parser' = [parser EXCEPT !["request"].buf = @ \o cells, !["request"].eof = eof]
<1>1. ASSUME NEW cells \in Seq(Cell), NEW eof \in BOOLEAN, Fed(cells, eof),
             \A x \in 1 .. Len(cells) : ~IsStamp(cells[x])
      PROVE  NothingYet(request, parser'["request"])
  <2> DEFINE p == parser'["request"]
             old == parser["request"]
  <2>1. /\ p.last = old.last /\ Len(p.buf) = Len(old.buf) + Len(cells)
        /\ Len(old.buf) \in Nat /\ Len(cells) \in Nat
        /\ \A x \in 1 .. Len(old.buf) : p.buf[x] = old.buf[x]
        /\ \A x \in 1 .. Len(p.buf) : x > Len(old.buf) =>
             x - Len(old.buf) \in 1 .. Len(cells) /\ p.buf[x] = cells[x - Len(old.buf)]
    BY <1>1, FedIs
  <2>2. \A x \in 1 .. Len(old.buf) : ~IsStamp(old.buf[x])
    BY DEF NothingYet
  <2> HIDE DEF p, old
  <2>3. \A x \in 1 .. Len(p.buf) : ~IsStamp(p.buf[x])
    BY <1>1, <2>1, <2>2
  <2> QED BY <2>1, <2>3 DEF NothingYet, p, old
<1>2. CASE Fed(<<End(0), Gap>>, FALSE)
  <2>1. <<End(0), Gap>> \in Seq(Cell) /\ Len(<<End(0), Gap>>) = 2
        /\ <<End(0), Gap>>[1] = End(0) /\ <<End(0), Gap>>[2] = Gap
    BY ForwardAssumption DEF ForwardAssumption, End, Cell
  <2>2. ~IsStamp(End(0)) /\ ~IsStamp(Gap)
    BY ForwardAssumption DEF ForwardAssumption, End, IsStamp
  <2>3. \A x \in 1 .. 2 : x = 1 \/ x = 2
    OBVIOUS
  <2>4. \A x \in 1 .. Len(<<End(0), Gap>>) : ~IsStamp(<<End(0), Gap>>[x])
    BY <2>1, <2>2, <2>3
  <2> QED BY <1>1, <1>2, <2>1, <2>4
<1>3. CASE Fed(<<>>, TRUE)
  <2>1. <<>> \in Seq(Cell) /\ \A x \in 1 .. Len(<<>>) : ~IsStamp(<<>>[x])
    OBVIOUS
  <2> QED BY <1>1, <1>3, <2>1
<1>4. ASSUME NEW room \in Room, ReadBytes("request", room) PROVE FALSE
  <2> DEFINE from == ReadFrom(iter["request"])
  <2>1. readIndex \in Nat /\ readIndex <= 0 /\ from \in Int
    BY ReaderNames DEF BufferInv, RingInv, RingHoldsTail, IterInv, Iterator, ReadFrom
  <2>2. from >= readIndex /\ from < writeIndex
    BY <1>4 DEF ReadBytes
  <2> HIDE DEF from
  <2> QED BY <2>1, <2>2
<1> QED BY <1>2, <1>3, <1>4 DEF ParserReads

\* A read takes the next part of the log.
LEMMA ReadFollows ==
  ASSUME BufferInv, OutputInv, RequestInv, LinesInv, NEW n \in Int, n > 0, writeIndex > 0,
         NEW f, f = ReverseLinePosition(n), Follows(f, iter["request"], parser["request"]),
         ParserReads("request")
  PROVE  LET i == iter'["request"]
             p == parser'["request"]
         IN /\ Follows(f, i, p) /\ At(i, p) = At(iter["request"], parser["request"])
            /\ p.entry = parser["request"].entry
<1> DEFINE old == parser["request"]
           p == parser'["request"]
           j == iter["request"]
           i == iter'["request"]
           a == At(j, old)
           Fed(cells, eof) ==
             parser' = [parser EXCEPT !["request"].buf = @ \o cells, !["request"].eof = eof]
<1>1. /\ f \in Nat /\ readIndex <= f /\ f <= writeIndex /\ readIndex \in Nat /\ writeIndex \in Nat
      /\ writeIndex = Len(written) /\ written \in Seq(LineCell)
  BY HeadIs
<1>2. /\ a = j.index - Len(old.buf) /\ ~j.trunc
      /\ f <= a /\ j.index <= writeIndex
      /\ \A x \in 1 .. Len(old.buf) : old.buf[x] = written[a + x]
      /\ a = f \/ a = writeIndex \/ Ends(written[a])
      /\ a = f => old.last = 0
  BY DEF Follows, At
<1>3. /\ iter \in [Reader -> Iterator] /\ "request" \in Reader
      /\ j \in Iterator /\ j.index \in Int /\ Len(old.buf) \in Nat
  BY ReaderNames DEF BufferInv, IterInv, Iterator, RequestInv, ParserState
<1>4. a \in Nat /\ readIndex <= j.index /\ j.index \in Nat
  BY <1>1, <1>2, <1>3
<1>5. ReadFrom(j) = j.index
  BY <1>3, <1>4 DEF ReadFrom, TailPosition
\* With all that it reads the parser follows the log, too
<1>6. ASSUME NEW cells \in Seq(Cell), NEW eof \in BOOLEAN, Fed(cells, eof),
             i.index = j.index + Len(cells), i.index <= writeIndex, ~i.trunc,
             \A x \in 1 .. Len(cells) : cells[x] = written[j.index + x],
             eof => i.index = writeIndex
      PROVE  Follows(f, i, p) /\ At(i, p) = a /\ p.entry = old.entry
  <2>1. /\ p.last = old.last /\ p.entry = old.entry /\ p.eof = eof
        /\ Len(p.buf) = Len(old.buf) + Len(cells)
        /\ Len(old.buf) \in Nat /\ Len(cells) \in Nat
        /\ \A x \in 1 .. Len(old.buf) : p.buf[x] = old.buf[x]
        /\ \A x \in 1 .. Len(p.buf) : x > Len(old.buf) =>
             x - Len(old.buf) \in 1 .. Len(cells) /\ p.buf[x] = cells[x - Len(old.buf)]
    BY <1>6, FedIs
  <2>2. At(i, p) = a
    <3> DEFINE h == Len(p.buf)
               k == Len(old.buf)
               c == Len(cells)
               x == j.index
    <3>1. h = k + c /\ k \in Nat /\ c \in Nat /\ x \in Nat /\ i.index = x + c /\ a = x - k
      BY <1>2, <1>4, <1>6, <2>1
    <3> HIDE DEF h, k, c, x, i, a
    <3>2. i.index - h = a
      BY <3>1
    <3> QED BY <3>2 DEF h, At
  <2> HIDE DEF a, i, j, p, old
  <2>3. \A x \in 1 .. Len(p.buf) : p.buf[x] = written[a + x]
    <3> SUFFICES ASSUME NEW x \in 1 .. Len(p.buf) PROVE p.buf[x] = written[a + x]
      OBVIOUS
    <3>1. CASE x <= Len(old.buf)
      <4>1. x \in 1 .. Len(old.buf)
        BY <2>1, <3>1
      <4> QED BY <1>2, <2>1, <4>1
    <3>2. CASE x > Len(old.buf)
      <4>1. /\ x - Len(old.buf) \in 1 .. Len(cells) /\ p.buf[x] = cells[x - Len(old.buf)]
            /\ j.index + (x - Len(old.buf)) = a + x
        BY <1>2, <1>4, <2>1, <3>2
      <4>2. cells[x - Len(old.buf)] = written[j.index + (x - Len(old.buf))]
        BY <1>6, <4>1
      <4> QED BY <4>1, <4>2
    <3> QED BY <2>1, <3>1, <3>2
  <2> QED BY <1>2, <1>6, <2>1, <2>2, <2>3 DEF Follows
<1>7. CASE ReadTrunc("request") \/ ReadOvertaken("request")
  <2>1. ~(ReadFrom(j) < readIndex)
    BY <1>1, <1>4, <1>5
  <2>2. j.trunc \/ ReadFrom(j) < readIndex
    BY <1>7 DEF ReadTrunc, ReadOvertaken
  <2>3. FALSE
    BY <1>2, <2>1, <2>2
  <2> QED BY <2>3
<1>8. CASE ReadNothing("request") /\ Fed(<<>>, TRUE)
  <2>1. i = j /\ j.index = writeIndex
    BY <1>5, <1>8 DEF ReadNothing
  <2>2. <<>> \in Seq(Cell) /\ Len(<<>>) = 0
    OBVIOUS
  <2>3. i.index = j.index + Len(<<>>) /\ i.index <= writeIndex /\ ~i.trunc
        /\ \A x \in 1 .. Len(<<>>) : <<>>[x] = written[j.index + x]
    BY <1>2, <1>4, <2>1, <2>2
  <2>4. i.index = writeIndex /\ TRUE \in BOOLEAN
    BY <2>1
  <2>5. Fed(<<>>, TRUE)
    BY <1>8
  <2> HIDE DEF p, i, j, a, old, Fed
  <2>6. Follows(f, i, p) /\ At(i, p) = a /\ p.entry = old.entry
    BY <1>6, <2>2, <2>3, <2>4, <2>5
  <2> QED BY <2>6 DEF p, i, j, a, old
<1>9. ASSUME NEW room \in Room, ReadBytes("request", room),
             Fed(given'["request"], iter'["request"].index = writeIndex)
      PROVE  Follows(f, i, p) /\ At(i, p) = a /\ p.entry = old.entry
  <2> DEFINE from == j.index
             k == Smaller(writeIndex - from, room)
             cells == given'["request"]
  <2>1. /\ from < writeIndex
        /\ iter' = [iter EXCEPT !["request"].index = from + k, !["request"].truncWritten = FALSE]
        /\ given' = [given EXCEPT !["request"] = Bytes(from, from + k)]
    BY <1>5, <1>9 DEF ReadBytes
  <2>2. room \in Nat \ {0}
    BY ForwardAssumption DEF ForwardAssumption
  <2>3. k \in Nat /\ k > 0 /\ from + k <= writeIndex
    BY <1>1, <1>4, <2>1, <2>2 DEF Smaller
  <2>4. i.index = from + k /\ ~i.trunc
    BY <1>2, <1>3, <2>1 DEF Iterator
  <2>5. cells = Bytes(from, from + k)
    BY <1>3, <2>1 DEF BufferInv, IterInv
  <2> HIDE DEF k, i, cells, from
  <2>6. Bytes(from, from + k) = SubSeq(written, from + 1, from + k)
    BY <1>1, <1>4, <2>3, BytesAreLog DEF BufferInv, from
  <2>7. cells \in Seq(Cell) /\ Len(cells) = k /\ \A x \in 1 .. k : cells[x] = written[from + x]
    <3>1. from \in Nat /\ written \in Seq(Cell) /\ from + k <= Len(written)
      BY <1>1, <1>4, <2>3 DEF OutputInv, from
    <3> DEFINE part == SubSeq(written, from + 1, from + k)
    <3>2. part \in Seq(Cell) /\ Len(part) = k /\ \A x \in 1 .. k : part[x] = written[from + x]
      BY <2>3, <3>1
    <3> HIDE DEF part
    <3> QED BY <2>5, <2>6, <3>2 DEF part
  <2>8. Fed(cells, i.index = writeIndex)
    BY <1>9 DEF cells, i
  <2>9. (i.index = writeIndex) \in BOOLEAN
    OBVIOUS
  <2>10. i.index = j.index + Len(cells) /\ i.index <= writeIndex
         /\ \A x \in 1 .. Len(cells) : cells[x] = written[j.index + x]
    BY <2>3, <2>4, <2>7 DEF from
  <2> HIDE DEF p, a, old, j
  <2> QED BY <1>6, <2>4, <2>7, <2>8, <2>9, <2>10
<1> QED BY <1>7, <1>8, <1>9 DEF ParserReads

LEMMA ReadsShow ==
  ASSUME BufferInv, OutputInv, RequestInv, LinesInv, ShowInv, UNCHANGED <<ringVars, request>>,
         request.pc \in {"fetch", "again"}, ParserReads("request")
  PROVE  ShowInv'
<1> DEFINE q == request
           j == iter["request"]
           old == parser["request"]
           i == iter'["request"]
           p == parser'["request"]
           f == ReverseLinePosition(q.n)
<1>1. q.n \in Int
  BY RequestCount
<1>2. /\ q.end <= writeIndex
      /\ q.pc # "wait" /\ q.pc # "off"
      /\ Asked(q) => \A x \in 1 .. Len(written) : written[x][2] <= q.since
  BY DEF ShowInv, Shows
<1>3. Asked(q) /\ writeIndex = 0 => NothingYet(q, p)
  BY EmptyReads DEF ShowInv, Shows
<1>4. Asked(q) /\ writeIndex > 0 => Follows(f, i, p) /\ Keeps(f, At(i, p), q, p.entry)
  <2> SUFFICES ASSUME Asked(q), writeIndex > 0
               PROVE  Follows(f, i, p) /\ Keeps(f, At(i, p), q, p.entry)
    OBVIOUS
  <2>1. /\ Follows(f, j, old) /\ Keeps(f, At(j, old), q, old.entry) /\ q.n > 0
    BY DEF ShowInv, Shows, Asked
  <2>2. PICK g : g = f
    OBVIOUS
  <2>3. Follows(g, i, p) /\ At(i, p) = At(j, old) /\ p.entry = old.entry
    BY <1>1, <2>1, <2>2, ReadFollows
  <2> QED BY <2>1, <2>2, <2>3
<1>5. Shows(q, i, p)
  BY <1>2, <1>3, <1>4 DEF Shows
<1>6. request' = q
  OBVIOUS
<1> HIDE DEF q, i, p
<1> QED BY <1>5, <1>6, ShowsNext DEF ringVars, i, p

\* The lines that are taken start at the position where the scan for them stopped.
LEMMA AskShows ==
  ASSUME BufferInv, OutputInv, RequestInv, LinesInv, ShowInv,
         NEW n \in LogCount, NEW follow \in BOOLEAN, AskForLogs(n, follow)
  PROVE  ShowInv'
<1> DEFINE count == Effective(n, follow)
           q == request'
           i == iter'["request"]
           p == parser'["request"]
           f == ReverseLinePosition(count)
<1>1. /\ q = [NoRequest EXCEPT !.pc = "fetch", !.follow = follow, !.n = count,
                               !.since = format.line, !.end = writeIndex]
      /\ request.pc = "off" /\ UNCHANGED parser /\ UNCHANGED ringVars
      /\ count >= 0 => OpenHead("request", count, TRUE)
  BY DEF AskForLogs, RestOfRequest
<1>2. /\ q.pc = "fetch" /\ q.follow = follow /\ q.n = count /\ q.since = format.line
      /\ q.end = writeIndex /\ q.fifo = <<>> /\ q.shown = <<>>
  BY <1>1 DEF NoRequest
<1>3. p = NewParser /\ writeIndex \in Nat /\ writeIndex = Len(written)
  BY <1>1 DEF ShowInv, Shows, BufferInv, RingInv, RingHoldsTail
<1>4. p.buf = <<>> /\ p.last = 0 /\ ~p.eof /\ Len(p.buf) = 0
  BY <1>3 DEF NewParser
<1>5. count \in Int
  BY ForwardAssumption DEF ForwardAssumption, Effective
<1>6. count >= 0 => i.index = f /\ ~i.trunc
  BY <1>1, ReaderNames DEF OpenHead, NewIterator, Closed, BufferInv, IterInv
<1>7. \A x \in 1 .. Len(written) : written[x][2] <= format.line
  BY NumbersBounded
<1> HIDE DEF q, i, p, f, count
<1>8. Asked(q) /\ writeIndex = 0 => NothingYet(q, p)
  BY <1>2, <1>4 DEF NothingYet
<1>9. Asked(q) /\ writeIndex > 0 => Follows(f, i, p) /\ Keeps(f, At(i, p), q, p.entry)
  <2> SUFFICES ASSUME Asked(q), writeIndex > 0
               PROVE  Follows(f, i, p) /\ Keeps(f, At(i, p), q, p.entry)
    OBVIOUS
  <2>1. count > 0 /\ count >= 0
    BY <1>2, <1>5 DEF Asked
  <2>2. f \in Nat /\ f <= writeIndex /\ count \in Nat
    BY <1>5, <2>1, HeadIs DEF f
  <2>3. At(i, p) = f
    BY <1>4, <1>6, <2>1, <2>2 DEF At
  <2>4. Follows(f, i, p)
    BY <1>4, <1>6, <2>1, <2>2, <2>3 DEF Follows
  <2>5. Taken(f, f) = {}
    <3>1. \A x \in (f + 1) .. f : FALSE
      BY <2>2
    <3> QED BY <3>1 DEF Taken
  <2>6. LastOf(<<>>, count, {})
    BY <2>2 DEF LastOf
  <2> QED BY <1>2, <2>3, <2>4, <2>5, <2>6 DEF Keeps
<1>10. Shows(q, i, p)
  BY <1>2, <1>3, <1>7, <1>8, <1>9 DEF Shows, f
<1> QED BY <1>1, <1>10, ShowsNext DEF ringVars, q, i, p

\* A look for more, or a notice that was taken, leaves the iterator where it is.
LEMMA LooksShow ==
  ASSUME BufferInv, RequestInv, LinesInv, ShowInv, StreamLooks
  PROVE  ShowInv'
<1> DEFINE q == request'
           j == iter["request"]
           i == iter'["request"]
           p == parser["request"]
           pc == IF HasMore(i) THEN "again" ELSE "nothing"
           f == ReverseLinePosition(request.n)
<1>1. /\ request.pc = "more" /\ Look("request") /\ request' = [request EXCEPT !.pc = pc]
      /\ UNCHANGED parser /\ UNCHANGED ringVars
  BY DEF StreamLooks, RequestGoes, RestOfRequest
<1>2. /\ q.pc = pc /\ q.n = request.n /\ q.follow = request.follow /\ q.fifo = request.fifo
      /\ q.shown = request.shown /\ q.since = request.since /\ q.end = request.end
  BY <1>1, OtherPoint
<1>3. pc \in {"again", "nothing"}
  OBVIOUS
<1>4. Asked(q) => Asked(request)
  BY <1>1, <1>2 DEF Asked
<1>5. request.n \in Int
  BY RequestCount
<1>6. i = Checked([j EXCEPT !.next = FALSE]) /\ j \in Iterator
  BY <1>1, ReaderNames DEF Look, BufferInv, IterInv
<1> HIDE DEF q, j, i, p, pc
<1>7. Asked(q) /\ writeIndex = 0 => NothingYet(q, p)
  <2> SUFFICES ASSUME Asked(q), writeIndex = 0 PROVE NothingYet(q, p)
    OBVIOUS
  <2>1. NothingYet(request, p)
    BY <1>4 DEF ShowInv, Shows, p
  <2> QED BY <1>2, <1>3, <2>1 DEF NothingYet
<1>8. Asked(q) /\ writeIndex > 0 => Follows(f, i, p) /\ Keeps(f, At(i, p), q, p.entry)
  <2> SUFFICES ASSUME Asked(q), writeIndex > 0
               PROVE  Follows(f, i, p) /\ Keeps(f, At(i, p), q, p.entry)
    OBVIOUS
  <2>1. Follows(f, j, p) /\ Keeps(f, At(j, p), request, p.entry) /\ request.n > 0
    BY <1>4 DEF ShowInv, Shows, j, p, Asked
  <2>2. f \in Nat /\ readIndex <= f /\ readIndex \in Nat /\ writeIndex \in Nat
    BY <1>5, <2>1, HeadIs
  <2> HIDE DEF f
  <2>3. j.index >= readIndex
    <3>1. Len(p.buf) \in Nat /\ j.index \in Int
      BY <1>6, ReaderNames DEF RequestInv, ParserState, p, Iterator
    <3>2. f <= j.index - Len(p.buf)
      BY <2>1 DEF Follows, At
    <3> DEFINE h == Len(p.buf)
               x == j.index
    <3>3. h \in Nat /\ x \in Int /\ f <= x - h
      BY <3>1, <3>2
    <3> HIDE DEF h, x
    <3>4. x >= readIndex
      BY <2>2, <3>3
    <3> QED BY <3>4 DEF x
  <2>4. i.index = j.index /\ i.trunc = j.trunc
    <3> DEFINE k == [j EXCEPT !.next = FALSE]
    <3>1. k.index = j.index /\ k.trunc = j.trunc
      BY <1>6 DEF Iterator
    <3>2. ~Overtaken(k)
      BY <1>6, <2>2, <2>3, <3>1 DEF Overtaken, Iterator
    <3> QED BY <1>6, <3>1, <3>2 DEF Checked
  <2>5. At(i, p) = At(j, p)
    BY <2>4 DEF At
  <2>6. Follows(f, i, p)
    BY <2>1, <2>4, <2>5 DEF Follows
  <2>7. Keeps(f, At(j, p), q, p.entry)
    BY <1>1, <1>2, <1>3, <2>1 DEF Keeps
  <2> QED BY <2>5, <2>6, <2>7
<1>9. Shows(q, i, p)
  <2>1. /\ q.end <= writeIndex /\ q.pc # "wait" /\ q.pc # "off"
        /\ Asked(q) => \A x \in 1 .. Len(written) : written[x][2] <= q.since
    BY <1>2, <1>3, <1>4 DEF ShowInv, Shows
  <2> QED BY <1>2, <1>7, <1>8, <2>1 DEF Shows
<1>10. parser'["request"] = p
  BY <1>1 DEF p
<1> QED BY <1>1, <1>9, <1>10, ShowsNext DEF ringVars, q, i

\* An entry comes to the n that are kept; none is late.
LEMMA ArrivesShow ==
  ASSUME BufferInv, RequestInv, LinesInv, ShowInv, LogArrives
  PROVE  ShowInv'
<1> DEFINE e == parser["request"].entry
           fifo == IF Len(request.fifo) = request.n THEN Tail(request.fifo) ELSE request.fifo
           q == request'
           i == iter["request"]
           old == parser["request"]
           p == parser'["request"]
           f == ReverseLinePosition(request.n)
           late == ~request.follow /\ e.stamp > request.since
<1>1. /\ request.pc = "entry" /\ UNCHANGED iter /\ UNCHANGED ringVars
      /\ parser' = [parser EXCEPT !["request"].entry = <<>>]
      /\ request' =
           IF late THEN [request EXCEPT !.pc = "end", !.shown = @ \o request.fifo, !.fifo = <<>>]
           ELSE IF request.n > 0
                THEN [request EXCEPT !.pc = "fetch", !.fifo = Append(fifo, e)]
                ELSE [request EXCEPT !.pc = "fetch", !.shown = Append(@, e)]
  BY DEF LogArrives, RestOfRequest
<1>2. /\ q.n = request.n /\ q.follow = request.follow /\ q.since = request.since
      /\ q.end = request.end /\ q.pc \in {"end", "fetch"}
      /\ ~late /\ request.n > 0 =>
           q.pc = "fetch" /\ q.fifo = Append(fifo, e) /\ q.shown = request.shown
  <2>1. request \in RequestState
    BY DEF RequestInv
  <2> HIDE DEF fifo, e, late
  <2> QED BY <1>1, <2>1 DEF RequestState
<1>3. /\ p.buf = old.buf /\ p.last = old.last /\ p.eof = old.eof
      /\ e \in LogEntry /\ request.fifo \in Seq(LogEntry)
  <2>1. parser["request"] \in ParserState /\ parser \in [Reader -> ParserState] /\ "request" \in Reader
    BY ReaderNames DEF RequestInv
  <2>2. p = [old EXCEPT !.entry = <<>>]
    BY <1>1, <2>1
  <2>3. p.buf = old.buf /\ p.last = old.last /\ p.eof = old.eof
    BY <2>1, <2>2 DEF ParserState
  <2>4. e \in LogEntry
    BY <1>1, <2>1 DEF ParserState, RequestInv
  <2> QED BY <2>3, <2>4 DEF RequestInv, RequestState
<1>4. Asked(q) => Asked(request)
  BY <1>1, <1>2 DEF Asked
<1>5. request.n \in Int
  BY RequestCount
<1> HIDE DEF q, p, old, e
<1>6. ~(Asked(q) /\ writeIndex = 0)
  <2>1. Asked(request) /\ writeIndex = 0 => request.pc # "entry"
    BY DEF ShowInv, Shows, NothingYet
  <2> QED BY <1>1, <1>4, <2>1
<1>7. Asked(q) /\ writeIndex > 0 => Follows(f, i, p) /\ Keeps(f, At(i, p), q, p.entry)
  <2> SUFFICES ASSUME Asked(q), writeIndex > 0
               PROVE  Follows(f, i, p) /\ Keeps(f, At(i, p), q, p.entry)
    OBVIOUS
  <2>1. /\ Follows(f, i, old) /\ Keeps(f, At(i, old), request, e) /\ request.n > 0
        /\ \A x \in 1 .. Len(written) : written[x][2] <= request.since
    BY <1>4 DEF ShowInv, Shows, old, e, Asked
  <2>2. f \in Nat /\ request.n \in Nat
    BY <1>5, <2>1, HeadIs
  <2> HIDE DEF f, i
  <2>3. At(i, p) = At(i, old) /\ Follows(f, i, p)
    BY <1>3, <2>1 DEF Follows, At
  <2> DEFINE a == At(i, old)
             S == Taken(f, a)
  <2>4. /\ e.stamp \in S /\ TimeOfLine(e) /\ \A k \in S : k <= e.stamp
        /\ LastOf(request.fifo, request.n, S \ {e.stamp}) /\ request.shown = <<>>
    BY <1>1, <2>1 DEF Keeps
  <2>5. S \in SUBSET Nat
    BY DEF Taken
  <2>6. ~late
    <3>1. PICK x \in (f + 1) .. a : written[x][2] = e.stamp
      BY <2>4 DEF Taken
    <3>2. a <= writeIndex /\ writeIndex = Len(written) /\ a \in Int
      <4>1. a = i.index - Len(old.buf) /\ i.index <= writeIndex
        BY <2>1 DEF Follows, At
      <4>2. Len(old.buf) \in Nat /\ i.index \in Int /\ writeIndex \in Nat /\ writeIndex = Len(written)
        BY ReaderNames
        DEF RequestInv, ParserState, old, i, BufferInv, IterInv, Iterator, RingInv, RingHoldsTail
      <4> DEFINE h == Len(old.buf)
                 y == i.index
      <4>3. h \in Nat /\ y \in Int /\ a = y - h /\ y <= writeIndex
        BY <4>1, <4>2
      <4> HIDE DEF h, y, a
      <4>4. a <= writeIndex /\ a \in Int
        BY <4>2, <4>3
      <4> QED BY <4>2, <4>4
    <3> HIDE DEF a
    <3>3. x \in 1 .. Len(written)
      BY <2>2, <3>1, <3>2
    <3>4. e.stamp <= request.since
      BY <2>1, <3>1, <3>3
    <3>5. e.stamp \in Nat /\ request.since \in Nat
      BY <1>3 DEF LogEntry, RequestInv, RequestState
    <3> QED BY <3>4, <3>5
  <2>7. q.pc = "fetch" /\ q.fifo = Append(fifo, e) /\ q.shown = <<>>
    BY <1>2, <2>1, <2>4, <2>6
  <2> HIDE DEF S
  <2>8. \A k \in S \ {e.stamp} : k < e.stamp
    <3>1. e.stamp \in Nat
      BY <2>4, <2>5
    <3> QED BY <2>4, <2>5, <3>1
  <2>9. (S \ {e.stamp}) \cup {e.stamp} = S /\ S \ {e.stamp} \in SUBSET Nat
    BY <2>4, <2>5
  <2>10. LastOf(Append(fifo, e), request.n, (S \ {e.stamp}) \cup {e.stamp})
    BY <1>3, <2>1, <2>2, <2>4, <2>8, <2>9, NextKept
  <2> HIDE DEF fifo, a
  <2>11. LastOf(q.fifo, q.n, S)
    BY <1>2, <2>7, <2>9, <2>10
  <2>12. LastOf(q.fifo, q.n, Taken(f, At(i, p)))
    BY <2>3, <2>11 DEF S, a
  <2>13. Keeps(f, At(i, p), q, p.entry)
    BY <2>7, <2>12 DEF Keeps
  <2> QED BY <2>3, <2>13
<1>8. Shows(q, i, p)
  <2>1. /\ q.end <= writeIndex /\ q.pc # "wait" /\ q.pc # "off"
        /\ Asked(q) => \A x \in 1 .. Len(written) : written[x][2] <= q.since
    BY <1>2, <1>4 DEF ShowInv, Shows
  <2> QED BY <1>2, <1>6, <1>7, <2>1 DEF Shows
<1>9. iter'["request"] = i
  BY <1>1
<1> QED BY <1>1, <1>8, <1>9, ShowsNext DEF ringVars, q, p

\* What was kept is shown once all of the log was split.
LEMMA NoMoreShows ==
  ASSUME BufferInv, RequestInv, LinesInv, ShowInv, NoMoreLogs
  PROVE  ShowInv'
<1> DEFINE q == request'
           i == iter["request"]
           p == parser["request"]
           f == ReverseLinePosition(request.n)
<1>1. /\ request.pc = "nothing" /\ UNCHANGED <<iter, parser>> /\ UNCHANGED ringVars
      /\ request' = [request EXCEPT !.shown = @ \o request.fifo, !.fifo = <<>>,
                                    !.n = IF request.follow THEN 0 ELSE @,
                                    !.pc = IF request.follow THEN "wait" ELSE "end"]
  BY DEF NoMoreLogs, RestOfRequest
<1>2. /\ q.follow = request.follow /\ q.fifo = <<>> /\ q.shown = request.shown \o request.fifo
      /\ q.since = request.since /\ q.end = request.end
      /\ q.n = IF request.follow THEN 0 ELSE request.n
      /\ q.pc = IF request.follow THEN "wait" ELSE "end"
      /\ request.fifo \in Seq(LogEntry)
  BY <1>1 DEF RequestInv, RequestState
<1>3. /\ Asked(q) => Asked(request) /\ ~request.follow /\ q.n = request.n /\ q.pc = "end"
      /\ q.pc = "wait" => q.follow
  BY <1>1, <1>2 DEF Asked
<1>4. request.shown = <<>> => q.shown = request.fifo
  <2>1. <<>> \o request.fifo = request.fifo
    BY <1>2
  <2> QED BY <1>2, <2>1
<1> HIDE DEF q, i, p
<1>5. Asked(q) /\ writeIndex = 0 => NothingYet(q, p)
  <2> SUFFICES ASSUME Asked(q), writeIndex = 0 PROVE NothingYet(q, p)
    OBVIOUS
  <2>1. NothingYet(request, p)
    BY <1>3 DEF ShowInv, Shows, p
  <2> QED BY <1>2, <1>3, <1>4, <2>1 DEF NothingYet
<1>6. Asked(q) /\ writeIndex > 0 => Follows(f, i, p) /\ Keeps(f, At(i, p), q, p.entry)
  <2> SUFFICES ASSUME Asked(q), writeIndex > 0
               PROVE  Follows(f, i, p) /\ Keeps(f, At(i, p), q, p.entry)
    OBVIOUS
  <2>1. Follows(f, i, p) /\ Keeps(f, At(i, p), request, p.entry)
    BY <1>3 DEF ShowInv, Shows, i, p
  <2> HIDE DEF f
  <2>2. request.shown = <<>> /\ LastOf(request.fifo, request.n, Taken(f, writeIndex))
    BY <1>1, <2>1 DEF Keeps
  <2> QED BY <1>3, <1>4, <2>1, <2>2 DEF Keeps
<1>7. Shows(q, i, p)
  <2>1. /\ q.end <= writeIndex /\ q.pc # "off"
        /\ Asked(q) => \A x \in 1 .. Len(written) : written[x][2] <= q.since
    BY <1>2, <1>3 DEF ShowInv, Shows
  <2>2. Asked(q) => q.n = request.n
    BY <1>3
  <2> QED BY <1>3, <1>5, <1>6, <2>1, <2>2 DEF Shows
<1>8. iter'["request"] = i /\ parser'["request"] = p
  BY <1>1 DEF i, p
<1> QED BY <1>1, <1>7, <1>8, ShowsNext DEF ringVars, q

LEMMA AsksShow ==
  ASSUME BufferInv, OutputInv, RequestInv, LinesInv, ShowInv, Asks
  PROVE  ShowInv'
<1>1. UNCHANGED ringVars
  BY AsksFrame
<1>2. ASSUME NEW n \in LogCount, NEW follow \in BOOLEAN, AskForLogs(n, follow) PROVE ShowInv'
  BY <1>2, AskShows
<1>3. CASE StreamFetches
  <2>1. request.pc \in {"fetch", "again"}
    BY <1>3 DEF StreamFetches
  <2>2. CASE ParserReads("request") /\ UNCHANGED request
    BY <1>1, <2>1, <2>2, ReadsShow
  <2>3. CASE ParserSplits("request", TRUE) /\ RequestGoes("entry")
    BY <1>1, <2>1, <2>3, SplitsShow DEF RequestGoes
  <2>4. CASE /\ ParserSplits("request", FALSE)
             /\ RequestGoes(IF Skips("request") THEN request.pc
                            ELSE IF request.pc = "fetch" THEN "more" ELSE "nothing")
    <3> DEFINE pc == IF Skips("request") THEN request.pc
                     ELSE IF request.pc = "fetch" THEN "more" ELSE "nothing"
    <3>1. request' = [request EXCEPT !.pc = pc]
      BY <2>4 DEF RequestGoes
    <3>2. \/ HasLine("request") /\ pc = request.pc
          \/ ~HasLine("request") /\ pc \in {"more", "nothing"}
      BY DEF Skips
    <3> HIDE DEF pc
    <3> QED BY <1>1, <2>1, <2>4, <3>1, <3>2, SplitsShow
  <2> QED BY <1>3, <2>2, <2>3, <2>4 DEF StreamFetches
<1>4. CASE StreamNotified
  <2>1. /\ request.pc = "wait" /\ request' = [request EXCEPT !.pc = "fetch"]
        /\ UNCHANGED parser
    BY <1>4 DEF StreamNotified, RequestGoes
  <2>2. request'.pc = "fetch" /\ request'.follow = request.follow /\ request'.end = request.end
    BY <2>1, OtherPoint
  <2>3. request.follow /\ request.end <= writeIndex
    BY <2>1 DEF ShowInv, Shows
  <2>4. Shows(request', iter'["request"], parser'["request"])
    BY <2>2, <2>3 DEF Shows, Asked
  <2> QED BY <1>1, <2>4, ShowsNext DEF ringVars
<1>5. CASE StreamEnds
  <2>1. request' = [request EXCEPT !.pc = "done"]
    BY <1>5 DEF StreamEnds, RequestGoes
  <2>2. request'.pc = "done" /\ request'.end = request.end
    BY <2>1, OtherPoint
  <2>3. request.end <= writeIndex
    BY DEF ShowInv, Shows
  <2>4. Shows(request', iter'["request"], parser'["request"])
    BY <2>2, <2>3 DEF Shows, Asked
  <2> QED BY <1>1, <2>4, ShowsNext DEF ringVars
<1> QED BY <1>2, <1>3, <1>4, <1>5, LooksShow, ArrivesShow, NoMoreShows DEF Asks, Streams

\* What the others do, and the signals of a write, leaves a request in order; a write itself
\* comes after what was asked for.
LEMMA OthersShow ==
  ASSUME BufferInv, OutputInv, RequestInv, ShowInv, Pulls \/ Gathering \/ Managing
  PROVE  ShowInv'
<1>1. UNCHANGED ringVars /\ UNCHANGED request
  BY PullsFrame, GatheringFrame, ManagingFrame DEF ringVars, bufferVars
<1>2. parser'["request"] = parser["request"]
  BY PullsRequest, GatheringRequest, ManagingRequest
<1>3. iter'["request"] = iter["request"]
  BY OthersIter
<1> QED BY <1>1, <1>2, <1>3, ShowsNext DEF ringVars, ShowInv

LEMMA ServesShow ==
  ASSUME BufferInv, RequestInv, ShowInv, Serves
  PROVE  ShowInv'
<1>1. UNCHANGED <<parser, request>>
  BY ServesFrame
<1>2. CASE StartService \/ \E s \in Output : ServiceWrites(s)
  <2>1. UNCHANGED <<ringVars, iter>>
    BY <1>2 DEF StartService, ServiceWrites, bufferVars, ringVars
  <2> QED BY <1>1, <2>1, ShowsNext DEF ringVars, ShowInv
<1>3. CASE SignalIterators
  <2> DEFINE j == iter["request"]
             i == iter'["request"]
  <2>1. i = [j EXCEPT !.next = @ \/ j.open, !.notify = j.listens] /\ j \in Iterator
    BY <1>3, ReaderNames DEF SignalIterators, BufferInv, IterInv
  <2>2. i.index = j.index /\ i.trunc = j.trunc
    BY <2>1 DEF Iterator
  <2> HIDE DEF i, j
  <2>3. Shows(request, i, parser["request"])
    BY <2>2 DEF ShowInv, Shows, Follows, At, j
  <2>4. UNCHANGED <<data, readIndex, writeIndex, written>>
    BY <1>3 DEF SignalIterators
  <2> QED BY <1>1, <2>3, <2>4, ShowsNext DEF ringVars, i
<1>4. ASSUME NEW T, NEW s \in Seq(T), WriteBytes(s) PROVE ShowInv'
  <2>1. RingInv' /\ Len(written') > Len(written) /\ UNCHANGED iter
    BY <1>4, WriteKeeps DEF BufferInv
  <2>2. writeIndex' > writeIndex /\ writeIndex \in Nat /\ writeIndex' \in Nat
    BY <2>1 DEF BufferInv, RingInv, RingHoldsTail
  <2>3. request.end <= writeIndex
    BY DEF ShowInv, Shows
  <2>4. request.end \in Nat
    BY DEF RequestInv, RequestState
  <2>5. request.end <= writeIndex' /\ writeIndex' # request.end
    <3> DEFINE x == request.end
               y == writeIndex
               z == writeIndex'
    <3>1. x \in Nat /\ y \in Nat /\ z \in Nat /\ x <= y /\ y < z
      BY <2>2, <2>3, <2>4
    <3> HIDE DEF x, y, z
    <3>2. x <= z /\ z # x
      BY <3>1
    <3> QED BY <3>2 DEF x, z
  <2>6. ~Asked(request)'
    BY <1>1, <2>5 DEF Asked
  <2>7. /\ request'.end <= writeIndex'
        /\ request'.pc = "wait" => request'.follow
        /\ request'.pc = "off" => parser'["request"] = NewParser
    BY <1>1, <2>5 DEF ShowInv, Shows
  <2> QED BY <2>6, <2>7 DEF ShowInv, Shows
<1> QED BY <1>2, <1>3, <1>4, WritesAre DEF Serves

\* The last n of a set are as many as a list has that keeps the last n.
LEMMA StampsCounted ==
  ASSUME NEW l \in Seq(LogEntry), \A i, j \in 1 .. Len(l) : i < j => l[i].stamp < l[j].stamp
  PROVE  LET L == {l[i].stamp : i \in 1 .. Len(l)}
         IN IsFiniteSet(L) /\ Cardinality(L) = Len(l)
<1> DEFINE L == {l[i].stamp : i \in 1 .. Len(l)}
           m == Len(l)
           f == [i \in 1 .. m |-> l[i].stamp]
<1>1. m \in Nat /\ \A i \in 1 .. m : l[i].stamp \in Nat
  <2>1. m \in Nat
    OBVIOUS
  <2>2. ASSUME NEW i \in 1 .. m PROVE l[i].stamp \in Nat
    <3>1. l[i] \in LogEntry
      OBVIOUS
    <3> QED BY <3>1 DEF LogEntry
  <2> QED BY <2>1, <2>2
<1>2. f \in [1 .. m -> L] /\ \A i \in 1 .. m : f[i] = l[i].stamp
  OBVIOUS
<1>3. f \in Surjection(1 .. m, L)
  BY <1>2 DEF Surjection
<1>4. \A i, j \in 1 .. m : f[i] = f[j] => i = j
  <2> SUFFICES ASSUME NEW i \in 1 .. m, NEW j \in 1 .. m, f[i] = f[j], i # j PROVE FALSE
    OBVIOUS
  <2>1. l[i].stamp = l[j].stamp /\ l[i].stamp \in Nat
    BY <1>1, <1>2
  <2>2. i < j \/ j < i
    BY <1>1
  <2>3. l[i].stamp < l[j].stamp \/ l[j].stamp < l[i].stamp
    BY <2>2
  <2> QED BY <2>1, <2>3
<1> HIDE DEF f
<1>5. f \in Injection(1 .. m, L)
  BY <1>2, <1>4 DEF Injection, IsInjective
<1>6. IsFiniteSet(1 .. m) /\ Cardinality(1 .. m) = m
  <2>1. 1 \in Int /\ m \in Int /\ (1 > m <=> m = 0)
    BY <1>1
  <2> HIDE DEF m
  <2>2. IsFiniteSet(1 .. m) /\ Cardinality(1 .. m) = IF 1 > m THEN 0 ELSE m - 1 + 1
    BY <2>1, FS_Interval
  <2> QED BY <2>1, <2>2
<1> HIDE DEF L, m
<1>7. IsFiniteSet(L) /\ Cardinality(L) = Cardinality(1 .. m)
  BY <1>3, <1>5, <1>6, FS_Surjection
<1> QED BY <1>6, <1>7 DEF L, m

LEMMA LastCounted ==
  ASSUME NEW l \in Seq(LogEntry), NEW n \in Nat, NEW U \in SUBSET Nat, IsFiniteSet(U),
         LastOf(l, n, U)
  PROVE  LET last == {k \in U : Cardinality({j \in U : j >= k}) <= n}
         IN Len(l) = Cardinality(last) /\ \A i \in 1 .. Len(l) : l[i].stamp \in last
<1> DEFINE L == {l[i].stamp : i \in 1 .. Len(l)}
           from(k) == {j \in U : j >= k}
           last == {k \in U : Cardinality(from(k)) <= n}
<1>1. IsFiniteSet(L) /\ Cardinality(L) = Len(l) /\ Len(l) \in Nat /\ Len(l) <= n
  <2>1. Len(l) <= n /\ \A i, j \in 1 .. Len(l) : i < j => l[i].stamp < l[j].stamp
    BY DEF LastOf
  <2>2. IsFiniteSet(L) /\ Cardinality(L) = Len(l)
    BY <2>1, StampsCounted
  <2>3. Len(l) \in Nat
    OBVIOUS
  <2> QED BY <2>1, <2>2, <2>3
<1>2. L \in SUBSET U
  BY DEF LastOf
<1>3. \A k \in U : k \in L \/ (Len(l) = n /\ \A j \in L : k < j)
  BY DEF LastOf
<1>4. \A i \in 1 .. Len(l) : l[i].stamp \in L
  OBVIOUS
<1> HIDE DEF L
<1>5. ASSUME NEW k \in L PROVE k \in last
  <2>1. from(k) \in SUBSET L
    <3> SUFFICES ASSUME NEW j \in U, j >= k, j \notin L PROVE FALSE
      OBVIOUS
    <3>1. j < k /\ j \in Nat /\ k \in Nat
      BY <1>2, <1>3
    <3> QED BY <3>1
  <2> HIDE DEF from
  <2>2. Cardinality(from(k)) <= Cardinality(L) /\ IsFiniteSet(from(k))
    BY <1>1, <2>1, FS_Subset
  <2>3. Cardinality(from(k)) \in Nat
    BY <2>2, FS_CardinalityType
  <2>4. Cardinality(from(k)) <= n
    BY <1>1, <2>2, <2>3
  <2> QED BY <1>2, <2>4
<1>6. ASSUME NEW k \in last PROVE k \in L
  <2> SUFFICES ASSUME k \notin L PROVE FALSE
    OBVIOUS
  <2>1. k \in U /\ Cardinality(from(k)) <= n
    BY <1>6
  <2>2. Len(l) = n /\ \A j \in L : k < j
    BY <1>3, <2>1
  <2>3. L \cup {k} \in SUBSET from(k)
    <3>1. \A j \in L : j \in U /\ j >= k
      <4> TAKE j \in L
      <4>1. j \in Nat /\ k \in Nat /\ k < j
        BY <1>2, <2>1, <2>2
      <4> QED BY <1>2, <4>1
    <3>2. k \in U /\ k >= k
      BY <2>1
    <3> QED BY <3>1, <3>2
  <2>4. IsFiniteSet(from(k))
    <3>1. from(k) \in SUBSET U
      OBVIOUS
    <3> QED BY <3>1, FS_Subset
  <2>5. Cardinality(L \cup {k}) = Cardinality(L) + 1
    BY <1>1, FS_AddElement
  <2> HIDE DEF from
  <2>6. Cardinality(L \cup {k}) <= Cardinality(from(k)) /\ Cardinality(from(k)) \in Nat
    BY <2>3, <2>4, FS_Subset, FS_CardinalityType
  <2> QED BY <1>1, <2>1, <2>2, <2>5, <2>6
<1> HIDE DEF last
<1>7. L = last
  <2>1. \A k \in last : k \in L
    BY <1>6
  <2>2. \A k \in L : k \in last
    BY <1>5
  <2> QED BY <2>1, <2>2
<1> QED BY <1>1, <1>4, <1>7 DEF last

\* A line has one stamp, and a later line a later one.
LEMMA StampsGrow ==
  ASSUME InLines(written), NEW x \in 1 .. Len(written), NEW y \in 1 .. Len(written),
         x < y, IsStamp(written[y])
  PROVE  /\ written[x][2] \in Nat /\ written[y][2] \in Nat
         /\ written[x][2] < written[y][2]
<1>1. x <= y
  OBVIOUS
<1>2. written[x][2] \in Nat /\ written[y][2] \in Nat
  BY <1>1, NumbersGrow
<1>3. written[x][2] < written[y][2]
  BY DEF InLines
<1> QED BY <1>2, <1>3

\* A line that is whole but was not taken starts before the position where the scan stopped.
LEMMA TakenAreWhole ==
  ASSUME BufferInv, OutputInv, LinesInv, writeIndex > 0, NEW n \in Nat, n > 0,
         NEW f, f = ReverseLinePosition(n)
  PROVE  LET E == Taken(f, writeIndex)
         IN /\ E \in SUBSET Whole
            /\ Whole \in SUBSET Nat /\ IsFiniteSet(Whole)
            /\ \A k \in Whole \ E : \A j \in E : k < j
            /\ \A k \in Whole \ E : \E p \in (readIndex + 1) .. f : IsStamp(written[p])
<1> DEFINE E == Taken(f, writeIndex)
           s == written
<1>1. /\ f \in Nat /\ readIndex <= f /\ f <= writeIndex /\ readIndex \in Nat /\ writeIndex \in Nat
      /\ writeIndex = Len(s) /\ s \in Seq(LineCell) /\ InLines(s)
  BY HeadIs DEF LinesInv
<1>2. format.line \in Nat
  BY DEF OutputInv
<1>3. Lines \in SUBSET Nat /\ IsFiniteSet(Lines)
  <2>1. IsFiniteSet(1 .. format.line)
    <3>1. 1 \in Int /\ format.line \in Int
      BY <1>2
    <3> QED BY <3>1, FS_Interval
  <2>2. Lines \in SUBSET (1 .. format.line)
    BY DEF Lines
  <2>3. Lines \in SUBSET Nat
    BY <1>2, <2>2
  <2> QED BY <2>1, <2>2, <2>3, FS_Subset
<1>4. Whole \in SUBSET Nat /\ IsFiniteSet(Whole)
  <2>1. Whole \in SUBSET Lines
    BY DEF Whole
  <2> QED BY <1>3, <2>1, FS_Subset
<1>5. ASSUME NEW x \in 1 .. Len(s), NEW k
      PROVE  s[x] = Stamp(k) <=> IsStamp(s[x]) /\ s[x][2] = k
  <2>1. s[x] \in LineCell
    BY <1>1
  <2> QED BY <2>1 DEF LineCell, Stamp, IsStamp
<1>6. ASSUME NEW k \in E PROVE k \in Whole
  <2>1. HasText(k) /\ k \in 1 .. MaxBytes
    BY DEF Taken
  <2>2. PICK p \in (f + 1) .. writeIndex : IsStamp(s[p]) /\ s[p][2] = k
    BY DEF Taken
  <2>3. p \in 1 .. Len(s) /\ p > readIndex /\ s[p] = Stamp(k)
    BY <1>1, <1>5, <2>2
  <2>4. k \in Lines
    <3>1. k <= format.line
      BY <2>2, <2>3, NumbersBounded
    <3>2. k \in 1 .. format.line
      BY <1>2, <2>1, <3>1, ForwardAssumption DEF ForwardAssumption
    <3> QED BY <2>3, <3>2 DEF Lines
  <2>5. \A x \in 1 .. Len(s) : s[x] = Stamp(k) => x > readIndex
    <3> SUFFICES ASSUME NEW x \in 1 .. Len(s), s[x] = Stamp(k), x <= readIndex PROVE FALSE
      BY <1>1
    <3>1. x < p
      BY <1>1, <2>3
    <3>2. s[x][2] < s[p][2] /\ s[x][2] \in Nat
      BY <1>1, <2>2, <2>3, <3>1, StampsGrow
    <3>3. s[x][2] = k
      BY <1>5
    <3> QED BY <2>2, <3>2, <3>3
  <2> QED BY <2>1, <2>4, <2>5 DEF Whole
<1>7. ASSUME NEW k \in Whole \ E
      PROVE  \E p \in (readIndex + 1) .. f : IsStamp(s[p]) /\ s[p][2] = k
  <2>1. k \in Lines /\ HasText(k) /\ \A p \in 1 .. Len(s) : s[p] = Stamp(k) => p > readIndex
    BY DEF Whole
  <2>2. PICK p \in 1 .. Len(s) : s[p] = Stamp(k)
    BY <2>1 DEF Lines
  <2>3. p > readIndex /\ IsStamp(s[p]) /\ s[p][2] = k
    BY <1>5, <2>1, <2>2
  <2>4. k \in 1 .. MaxBytes
    <3>1. s[p] \in LineCell
      BY <1>1
    <3> QED BY <2>3, <3>1 DEF LineCell
  <2>5. p \notin (f + 1) .. writeIndex
    BY <2>1, <2>3, <2>4 DEF Taken
  <2>6. p \in (readIndex + 1) .. f
    BY <1>1, <2>3, <2>5
  <2> QED BY <2>3, <2>6
<1>8. ASSUME NEW k \in Whole \ E, NEW j \in E PROVE k < j
  <2>1. PICK p \in (readIndex + 1) .. f : IsStamp(s[p]) /\ s[p][2] = k
    BY <1>7
  <2>2. PICK q \in (f + 1) .. writeIndex : IsStamp(s[q]) /\ s[q][2] = j
    BY DEF Taken
  <2>3. p \in 1 .. Len(s) /\ q \in 1 .. Len(s) /\ p < q
    BY <1>1
  <2> QED BY <1>1, <2>1, <2>2, <2>3, StampsGrow
<1> QED BY <1>4, <1>6, <1>7, <1>8

\* If the scan left a line out, it found n others.
LEMMA EnoughTaken ==
  ASSUME BufferInv, LinesInv, writeIndex > 0, NEW n \in Nat, n > 0,
         NEW f, f = ReverseLinePosition(n), IsFiniteSet(Taken(f, writeIndex)),
         NEW p \in (readIndex + 1) .. f, IsStamp(written[p])
  PROVE  n <= Cardinality(Taken(f, writeIndex))
<1> DEFINE E == Taken(f, writeIndex)
           s == written
<1>1. /\ f \in Nat /\ readIndex <= f /\ f <= writeIndex /\ readIndex \in Nat /\ writeIndex \in Nat
      /\ writeIndex = Len(s) /\ s \in Seq(LineCell) /\ InLines(s)
  BY HeadIs DEF LinesInv
<1>2. p \in 1 .. Len(s) /\ f > readIndex /\ f > 0 /\ f \in 1 .. Len(s)
  BY <1>1
<1>3. \/ f = readIndex + 1 /\ Ends(s[f])
      \/ /\ Ends(s[f])
         /\ \E A \in SUBSET Nat :
              /\ IsFiniteSet(A) /\ Cardinality(A) = n
              /\ \A k \in A : /\ readIndex + k > f /\ readIndex + k <= writeIndex
                              /\ Ends(s[readIndex + k])
  <2>1. RingInv
    BY DEF BufferInv
  <2>2. \/ f = readIndex
        \/ f = readIndex + 1 /\ Ends(s[f])
        \/ /\ f > readIndex /\ Ends(s[f])
           /\ \E A \in SUBSET Nat :
                /\ IsFiniteSet(A) /\ Cardinality(A) = n
                /\ \A k \in A : /\ readIndex + k > f /\ readIndex + k <= writeIndex
                                /\ Ends(s[readIndex + k])
    BY <1>1, <2>1, HeadLines
  <2>3. f # readIndex
    BY <1>1, <1>2
  <2> QED BY <2>2, <2>3
<1>4. f # readIndex + 1
  <2> SUFFICES ASSUME f = readIndex + 1 PROVE FALSE
    OBVIOUS
  <2>1. p = f /\ Ends(s[f])
    BY <1>1, <1>3
  <2> QED BY <2>1 DEF Ends, IsStamp
<1>5. PICK A \in SUBSET Nat :
         /\ IsFiniteSet(A) /\ Cardinality(A) = n
         /\ \A k \in A : /\ readIndex + k > f /\ readIndex + k <= writeIndex
                         /\ Ends(s[readIndex + k])
  BY <1>3, <1>4
<1>6. Ends(s[f])
  BY <1>3
<1> DEFINE line == [k \in A |-> s[readIndex + k][2]]
<1>7. ASSUME NEW k \in A
      PROVE  readIndex + k \in 1 .. Len(s) /\ readIndex + k > f /\ Ends(s[readIndex + k])
  BY <1>1, <1>5
<1>8. ASSUME NEW k \in A PROVE line[k] \in E
  <2> DEFINE x == readIndex + k
             l == s[x][2]
  <2>1. x \in 1 .. Len(s) /\ x > f /\ Ends(s[x]) /\ line[k] = l
    BY <1>7
  <2> HIDE DEF x, line
  <2>2. s[x] \in LineCell
    BY <1>1, <2>1
  <2>3. l \in 1 .. MaxBytes /\ ~IsStamp(s[x])
    BY <2>1, <2>2 DEF LineCell, Ends, IsStamp
  <2>4. HasText(l)
    BY <2>1, <2>3 DEF HasText
  <2>5. PICK q \in 1 .. x : IsStamp(s[q]) /\ s[q][2] = l
    BY <1>1, <2>1 DEF InLines
  <2>6. q \in 1 .. Len(s)
    BY <1>1, <2>1
  <2>7. q > f
    <3> SUFFICES ASSUME ~(q > f) PROVE FALSE
      OBVIOUS
    <3>1. q <= f
      BY <1>1, <2>6
    <3>2. s[q][2] \in Nat /\ s[f][2] \in Nat /\ s[q][2] <= s[f][2]
      BY <1>1, <1>2, <2>6, <3>1, NumbersGrow
    <3>3. s[f][2] < s[x][2]
      BY <1>1, <1>2, <1>6, <2>1 DEF InLines
    <3> HIDE DEF l
    <3>4. s[x][2] = l /\ l \in Nat
      BY <2>3 DEF l
    <3> QED BY <2>5, <3>2, <3>3, <3>4
  <2>8. q \in (f + 1) .. writeIndex
    BY <1>1, <2>6, <2>7
  <2> HIDE DEF l
  <2>9. l \in E
    BY <2>3, <2>4, <2>5, <2>8 DEF Taken
  <2> QED BY <2>1, <2>9
<1>9. ASSUME NEW j \in A, NEW k \in A, line[j] = line[k] PROVE j = k
  <2> DEFINE x == readIndex + j
             y == readIndex + k
  <2>1. x \in 1 .. Len(s) /\ y \in 1 .. Len(s) /\ Ends(s[x]) /\ Ends(s[y])
    BY <1>7
  <2>2. s[x][2] = s[y][2]
    BY <1>9
  <2>3. j \in Nat /\ k \in Nat
    OBVIOUS
  <2>4. ASSUME NEW u \in 1 .. Len(s), NEW v \in 1 .. Len(s), Ends(s[u]), u < v
        PROVE  s[u][2] # s[v][2]
    <3>1. u <= v
      BY <2>4
    <3>2. s[u][2] \in Nat /\ s[v][2] \in Nat
      BY <1>1, <3>1, NumbersGrow
    <3>3. s[u][2] < s[v][2]
      BY <1>1, <2>4 DEF InLines
    <3> QED BY <3>2, <3>3
  <2> HIDE DEF line
  <2>5. ~(x < y) /\ ~(y < x)
    BY <2>1, <2>2, <2>4
  <2> QED BY <1>1, <2>3, <2>5
<1>10. line \in Injection(A, E)
  <2>1. line \in [A -> E]
    BY <1>8
  <2> QED BY <1>9, <2>1 DEF Injection, IsInjective
<1> HIDE DEF line, E
<1>11. IsFiniteSet(E)
  BY DEF E
<1> QED BY <1>5, <1>10, <1>11, FS_Injection DEF E

\* A request that ended has the last n of the lines that are whole.
LEMMA ShownAreLast ==
  ASSUME BufferInv, OutputInv, RequestInv, LinesInv, ShowInv
  PROVE  ShowsLastLines
<1> SUFFICES ASSUME request.pc = "end", ~request.follow, writeIndex = request.end, request.n > 0
             PROVE  LET last == {k \in Whole : Cardinality({j \in Whole : j >= k}) <= request.n}
                    IN /\ Len(request.shown) = Cardinality(last)
                       /\ \A i, j \in DOMAIN Shown : i < j => Shown[i] < Shown[j]
                       /\ \A i \in DOMAIN Shown : Shown[i] \in last /\ TimeOfLine(request.shown[i])
  BY DEF ShowsLastLines
<1> DEFINE l == request.shown
           n == request.n
           last == {k \in Whole : Cardinality({j \in Whole : j >= k}) <= n}
<1>1. Asked(request) /\ l \in Seq(LogEntry) /\ writeIndex \in Nat /\ n \in Nat
  BY RequestCount DEF Asked, RequestInv, RequestState, BufferInv, RingInv
<1>2. LastOf(l, n, Whole) /\ Whole \in SUBSET Nat /\ IsFiniteSet(Whole)
  <2>1. CASE writeIndex = 0
    <3>1. l = <<>>
      BY <1>1, <2>1 DEF ShowInv, Shows, NothingYet
    <3>2. Whole = {}
      <4>1. Len(written) = 0
        BY <2>1 DEF BufferInv, RingInv, RingHoldsTail
      <4> QED BY <4>1 DEF Whole, Lines
    <3>3. IsFiniteSet({})
      BY FS_EmptySet
    <3>4. Len(l) = 0
      BY <3>1
    <3> HIDE DEF l, n
    <3>5. LastOf(l, n, {})
      BY <1>1, <3>4 DEF LastOf
    <3> QED BY <3>2, <3>3, <3>5
  <2>2. CASE writeIndex > 0
    <3> DEFINE f == ReverseLinePosition(n)
               E == Taken(f, writeIndex)
    <3>1. LastOf(l, n, E)
      BY <1>1, <2>2 DEF ShowInv, Shows, Keeps
    <3>2. /\ E \in SUBSET Whole
          /\ Whole \in SUBSET Nat /\ IsFiniteSet(Whole)
          /\ \A k \in Whole \ E : \A j \in E : k < j
          /\ \A k \in Whole \ E : \E p \in (readIndex + 1) .. f : IsStamp(written[p])
      BY <1>1, <2>2, TakenAreWhole
    <3>3. IsFiniteSet(E)
      BY <3>2, FS_Subset
    <3>4. ASSUME NEW k \in Whole \ E PROVE Len(l) = n
      <4>1. PICK p \in (readIndex + 1) .. f : IsStamp(written[p])
        BY <3>2
      <4>2. n <= Cardinality(E)
        BY <1>1, <2>2, <3>3, <4>1, EnoughTaken
      <4> HIDE DEF l, n, f, E
      <4>3. Len(l) \in Nat /\ Len(l) <= n
        BY <1>1, <3>1 DEF LastOf
      <4> DEFINE L == {l[i].stamp : i \in 1 .. Len(l)}
      <4>4. IsFiniteSet(L) /\ Cardinality(L) = Len(l)
        BY <1>1, <3>1, StampsCounted DEF LastOf
      <4>5. Len(l) < n => E \in SUBSET L
        BY <1>1, <3>1, <4>3 DEF LastOf
      <4> HIDE DEF L
      <4>6. Len(l) < n => Cardinality(E) <= Len(l)
        BY <4>4, <4>5, FS_Subset
      <4>7. Cardinality(E) \in Nat
        BY <3>3, FS_CardinalityType
      <4> QED BY <1>1, <4>2, <4>3, <4>6, <4>7
    <3> HIDE DEF l, n, f, E
    <3>5. ASSUME NEW k \in Whole
          PROVE  \/ \E i \in 1 .. Len(l) : l[i].stamp = k
                 \/ Len(l) = n /\ \A i \in 1 .. Len(l) : k < l[i].stamp
      <4>1. CASE k \in E
        BY <3>1, <4>1 DEF LastOf
      <4>2. CASE k \notin E
        <5>1. \A i \in 1 .. Len(l) : l[i].stamp \in E
          BY <3>1 DEF LastOf
        <5> QED BY <3>2, <3>4, <4>2, <5>1
      <4> QED BY <4>1, <4>2
    <3>6. LastOf(l, n, Whole)
      BY <3>1, <3>2, <3>5 DEF LastOf
    <3> QED BY <3>2, <3>6
  <2> QED BY <1>1, <2>1, <2>2
<1> HIDE DEF l, n
<1>3. Len(l) = Cardinality(last) /\ \A i \in 1 .. Len(l) : l[i].stamp \in last
  BY <1>1, <1>2, LastCounted
<1> HIDE DEF last
<1>4. /\ \A i, j \in 1 .. Len(l) : i < j => l[i].stamp < l[j].stamp
      /\ \A i \in 1 .. Len(l) : TimeOfLine(l[i])
  BY <1>2 DEF LastOf
<1>5. DOMAIN Shown = 1 .. Len(l) /\ \A i \in 1 .. Len(l) : Shown[i] = l[i].stamp
  BY DEF Shown, l
<1>6. /\ \A i, j \in DOMAIN Shown : i < j => Shown[i] < Shown[j]
      /\ \A i \in DOMAIN Shown : Shown[i] \in last /\ TimeOfLine(l[i])
  BY <1>3, <1>4, <1>5
<1> QED BY <1>3, <1>6 DEF last, l, n

ShownInv == ForwardInv /\ LinesInv /\ ShowInv

LEMMA ShownStarts == Init => ShownInv
<1> SUFFICES ASSUME Init PROVE ShownInv
  OBVIOUS
<1>1. ForwardInv
  BY ForwardStarts
<1>2. written = <<>> /\ writeIndex = 0 /\ format = [fresh |-> TRUE, line |-> 1, rest |-> <<>>]
  BY DEF Init, BufferInit
<1>3. <<>> \in Seq(LineCell) /\ Len(<<>>) = 0
  OBVIOUS
<1>4. LinesInv
  <2>1. InLines(written)
    BY <1>2, <1>3 DEF InLines
  <2>2. Size \in Nat /\ 1 <= MaxBytes
    BY SizeAssumption, ForwardAssumption DEF SizeAssumption, ForwardAssumption
  <2> QED BY <1>2, <1>3, <2>1, <2>2 DEF LinesInv
<1>5. ShowInv
  <2>1. request = NoRequest /\ parser["request"] = NewParser
    BY ReaderNames DEF Init
  <2>2. request.pc = "off" /\ request.end = 0
    BY <2>1 DEF NoRequest
  <2> QED BY <1>2, <2>1, <2>2 DEF ShowInv, Shows, Asked
<1> QED BY <1>1, <1>4, <1>5 DEF ShownInv

LEMMA ShownKept == ShownInv /\ [Next]_vars => ShownInv'
<1> SUFFICES ASSUME ShownInv, [Next]_vars PROVE ShownInv'
  OBVIOUS
<1>1. ForwardInv' /\ BufferInv /\ OutputInv /\ RequestInv /\ LinesInv /\ ShowInv
  BY ForwardKept DEF ShownInv, ForwardInv
<1>2. LinesInv'
  BY <1>1, LinesKept
<1>3. ShowInv'
  <2>1. CASE UNCHANGED vars
    <3>1. UNCHANGED <<data, readIndex, writeIndex, written, iter, parser, request>>
      BY <2>1 DEF vars, bufferVars
    <3> QED BY <1>1, <3>1, ShowsNext DEF ShowInv
  <2> QED BY <1>1, <2>1, ServesShow, OthersShow, AsksShow, Steps
<1> QED BY <1>1, <1>2, <1>3 DEF ShownInv

\* "logs -n n" shows the last n lines that are wholly in the buffer, each with its own time, for
\* every size of the buffer, every n and every way in which the reads cut the lines
\* (ReverseLinePosition, HeadIterator, Parser, the FIFO of logsResponse).
THEOREM LinesShown == Spec => []LogsSound
<1>1. ShownInv => ShowsLastLines
  BY ShownAreLast DEF ShownInv, ForwardInv
<1>2. ShownInv => BufferSound
  BY ForwardSound DEF ShownInv
<1>3. ShownInv => LogsSound
  BY <1>1, <1>2 DEF LogsSound
<1> QED BY <1>3, ShownStarts, ShownKept, PTL DEF Spec
=============================================================================
