------------------------- MODULE RudpTransferProofs -------------------------
(***************************************************************************)
(* The safety of data transfer for every number of bytes, every size of    *)
(* segments, buffers and windows and every path: RudpTransfer keeps IInv,  *)
(* and with it implements a pair of FIFO byte streams.                     *)
(***************************************************************************)
EXTENDS RudpTransfer, SequenceTheorems, FiniteSetTheorems, TLAPS

-----------------------------------------------------------------------------
(* Operators.                                                              *)

\* Cutting r bytes every M bytes: pieces i and j of the `more' pieces differ by
\* at least j - i bytes and successive ones by at most M.
LEMMA Pieces ==
  ASSUME NEW M \in Nat \ {0}, NEW r \in Nat
  PROVE  LET more == (r + M - 1) \div M
         IN /\ more \in Nat
            /\ r <= more * M
            /\ more > 0 => (more - 1) * M < r
            /\ more = 0 <=> r = 0
<1> DEFINE more == (r + M - 1) \div M
           rem == (r + M - 1) % M
<1>1. /\ more \in Int /\ rem \in 0..(M - 1)
      /\ r + M - 1 = M * more + rem
  OBVIOUS
<1>2. more \in Nat
  <2>1. SUFFICES ASSUME more <= -1 PROVE FALSE
    BY <1>1
  <2>2. M * more <= M * (-1)
    BY <2>1, <1>1
  <2>3. QED
    BY <1>1, <2>2
<1>3. QED
  BY <1>1, <1>2

\* Another piece of at least one byte costs at least one byte more: products
\* grow with their factor.
LEMMA Multiples ==
  ASSUME NEW M \in Nat \ {0}, NEW i \in Nat, NEW j \in Nat, i <= j
  PROVE  i * M + (j - i) <= j * M /\ i * M \in Nat /\ j * M \in Nat
<1>1. PICK d \in Nat : j = i + d
  BY SMT
<1>2. j * M = i * M + d * M
  BY <1>1
<1>3. d <= d * M
  BY SMT
<1>4. i * M \in Nat /\ j * M \in Nat
  BY SMT
<1>5. QED
  BY <1>1, <1>2, <1>3, <1>4

\* The concatenation of two sequences of numbers is one.
LEMMA ConcatNat ==
  ASSUME NEW s1 \in Seq(Nat), NEW s2 \in Seq(Nat)
  PROVE  /\ s1 \o s2 \in Seq(Nat)
         /\ Len(s1 \o s2) = Len(s1) + Len(s2)
         /\ \A i \in 1..Len(s1) : (s1 \o s2)[i] = s1[i]
         /\ \A i \in (Len(s1) + 1)..(Len(s1) + Len(s2)) : (s1 \o s2)[i] = s2[i - Len(s1)]
<1>1. Len(s1) \in Nat /\ Len(s2) \in Nat
  OBVIOUS
<1>2. QED
  BY <1>1, ConcatProperties, Z3

\* What send() does to the cutting of the stream: the segments already sent
\* stay as they are, k bytes are added, and no segment is empty or too long.
LEMMA ExtendCuts ==
  ASSUME NEW c \in Seq(Nat), SegmentsOK(c),
         NEW s \in 0..Len(c), NEW k \in Nat \ {0}
  PROVE  LET e == Extend(c, s, k)
         IN /\ e \in Seq(Nat)
            /\ SegmentsOK(e)
            /\ Len(c) <= Len(e)
            /\ \A i \in 1..s : e[i] = c[i]
            /\ Total(e) = Total(c) + k
<1> DEFINE room  == IF Len(c) > s THEN MaxSegment - (c[Len(c)] - Offset(c, Len(c) - 1)) ELSE 0
           fill  == MinOf(room, k)
           grown == [i \in 1..Len(c) |-> IF i = Len(c) THEN c[i] + fill ELSE c[i]]
           base  == Total(c) + fill
           more  == (k - fill + MaxSegment - 1) \div MaxSegment
           tail  == [i \in 1..more |-> MinOf(base + i * MaxSegment, Total(c) + k)]
           e     == Extend(c, s, k)
           n     == Len(c)
           r     == k - fill
<1>0. MaxSegment \in Nat \ {0}
  BY SizeAssumption
<1>1. n \in Nat /\ \A i \in 1..n : c[i] \in Nat
  OBVIOUS
<1>2. \A i \in 0..n : Offset(c, i) \in Nat
  BY <1>1 DEF Offset
<1>3. Total(c) \in Nat /\ Total(c) = Offset(c, n)
  BY <1>1, <1>2 DEF Total
<1>4. n > s => room \in Nat
  <2>1. SUFFICES ASSUME n > s PROVE MaxSegment - (c[n] - Offset(c, n - 1)) \in Nat
    OBVIOUS
  <2>2. n \in 1..n /\ c[n] - Offset(c, n - 1) <= MaxSegment
    BY <1>1, <2>1 DEF SegmentsOK
  <2>3. c[n] \in Nat /\ Offset(c, n - 1) \in Nat
    BY <1>1, <1>2, <2>2
  <2>4. QED
    BY <1>0, <2>2, <2>3
<1>5. fill \in Nat /\ fill <= k /\ fill <= room /\ room \in Nat /\ (fill > 0 => n > s)
  BY <1>4 DEF MinOf
<1>6. r \in Nat /\ base \in Nat /\ base + r = Total(c) + k
  BY <1>3, <1>5, SMTT(60)
<1>7. /\ more \in Nat /\ r <= more * MaxSegment
      /\ more > 0 => (more - 1) * MaxSegment < r
      /\ more = 0 <=> r = 0
  BY <1>0, <1>6, Pieces
<1>8. \A i \in 0..more : i * MaxSegment \in Nat
  BY <1>0, <1>7, Multiples
<1>9. grown \in Seq(Nat) /\ Len(grown) = n /\ \A i \in 1..n : grown[i] = IF i = n THEN c[i] + fill ELSE c[i]
  <2>1. \A i \in 1..n : (IF i = n THEN c[i] + fill ELSE c[i]) \in Nat
    BY <1>1, <1>5
  <2>2. QED
    BY <1>1, <2>1, IsASeq
<1>10. /\ tail \in Seq(Nat) /\ Len(tail) = more
       /\ \A i \in 1..more : tail[i] = MinOf(base + i * MaxSegment, base + r)
  <2>1. \A i \in 1..more : MinOf(base + i * MaxSegment, Total(c) + k) \in Nat
    BY <1>3, <1>6, <1>8, SMTT(60) DEF MinOf
  <2>2. tail \in [1..more -> Nat]
    BY <2>1
  <2>3. \A i \in 1..more : tail[i] = MinOf(base + i * MaxSegment, base + r)
    BY <1>6
  <2> HIDE DEF tail, more
  <2>4. tail \in Seq(Nat) /\ Len(tail) = more
    BY <1>7, <2>2
  <2>5. QED
    BY <2>3, <2>4
<1>11. e = grown \o tail
  BY DEF Extend
<1> HIDE DEF room, fill, grown, base, more, tail, e, r
<1>12. /\ e \in Seq(Nat) /\ Len(e) = n + more
       /\ \A i \in 1..n : e[i] = grown[i]
       /\ \A i \in (n + 1)..(n + more) : e[i] = tail[i - n]
  <2>1. /\ grown \o tail \in Seq(Nat)
        /\ Len(grown \o tail) = Len(grown) + Len(tail)
        /\ \A i \in 1..Len(grown) : (grown \o tail)[i] = grown[i]
        /\ \A i \in (Len(grown) + 1)..(Len(grown) + Len(tail)) :
             (grown \o tail)[i] = tail[i - Len(grown)]
    <3> grown \in Seq(Nat) /\ tail \in Seq(Nat)
      BY <1>9, <1>10
    <3> QED
      BY ConcatNat
  <2>2. Len(grown) = n /\ Len(tail) = more
    BY <1>9, <1>10
  <2>3. QED
    BY <1>11, <2>1, <2>2
<1>13. Offset(e, 0) = 0 /\ \A i \in 0..n : Offset(e, i) = IF i = n THEN base ELSE Offset(c, i)
  <2>1. fill > 0 => n > 0
    BY <1>1, <1>5
  <2>2. base = Total(c) + fill
    BY DEF base
  <2>3. QED
    BY <1>1, <1>3, <1>5, <1>9, <1>12, <2>1, <2>2 DEF Offset
<1>14. \A i \in 1..more : Offset(e, n + i) = MinOf(base + i * MaxSegment, base + r)
  BY <1>1, <1>7, <1>10, <1>12 DEF Offset
<1>15. base = Total(c) + fill /\ r = k - fill
  BY DEF base, r
<1>16. \A i \in 0..n : Offset(e, n) - Offset(e, i) >= n - i
  <2>1. SUFFICES ASSUME NEW i \in 0..n, i < n PROVE Offset(e, n) - Offset(e, i) >= n - i
    BY <1>1, <1>3, <1>5, <1>13, <1>15
  <2>2. Offset(c, n) - Offset(c, i) >= n - i
    BY <1>1, <2>1 DEF SegmentsOK
  <2>3. Offset(e, n) = base /\ Offset(e, i) = Offset(c, i)
    BY <1>1, <1>13, <2>1
  <2>4. Offset(c, n) \in Nat /\ Offset(c, i) \in Nat
    BY <1>1, <1>2
  <2>5. QED
    BY <1>1, <1>3, <1>5, <1>15, <2>2, <2>3, <2>4
<1>17. \A i, j \in 0..n : i < j => Offset(e, j) - Offset(e, i) >= j - i
  <2>1. SUFFICES ASSUME NEW i \in 0..n, NEW j \in 0..n, i < j, j < n
                 PROVE Offset(e, j) - Offset(e, i) >= j - i
    BY <1>1, <1>16
  <2>2. Offset(c, j) - Offset(c, i) >= j - i
    BY <2>1 DEF SegmentsOK
  <2>3. Offset(e, j) = Offset(c, j) /\ Offset(e, i) = Offset(c, i)
    BY <1>1, <1>13, <2>1
  <2>4. QED
    BY <2>2, <2>3
<1>18. \A i \in 1..more : Offset(e, n + i) - Offset(e, n) >= i
  <2>1. SUFFICES ASSUME NEW i \in 1..more PROVE MinOf(base + i * MaxSegment, base + r) - base >= i
    BY <1>1, <1>13, <1>14
  <2>2. i * MaxSegment \in Nat /\ i <= i * MaxSegment
    BY <1>0, <1>7, Multiples, 0 * MaxSegment = 0
  <2>3. i <= r
    <3>1. i - 1 <= (more - 1) * MaxSegment
      BY <1>0, <1>7, <2>1, Multiples, 0 * MaxSegment = 0
    <3>2. (more - 1) * MaxSegment < r /\ (more - 1) * MaxSegment \in Nat
      BY <1>0, <1>7, <2>1, Multiples
    <3>3. QED
      BY <1>6, <1>7, <3>1, <3>2
  <2>4. QED
    BY <1>6, <2>2, <2>3 DEF MinOf
<1>19. \A i, j \in 1..more : i < j => Offset(e, n + j) - Offset(e, n + i) >= j - i
  <2>1. SUFFICES ASSUME NEW i \in 1..more, NEW j \in 1..more, i < j
                 PROVE MinOf(base + j * MaxSegment, base + r)
                         - MinOf(base + i * MaxSegment, base + r) >= j - i
    BY <1>14
  <2>2. /\ i * MaxSegment \in Nat /\ j * MaxSegment \in Nat
        /\ i * MaxSegment + (j - i) <= j * MaxSegment
    BY <1>0, <1>7, <2>1, Multiples
  <2>3. i * MaxSegment + (more - 1 - i) <= (more - 1) * MaxSegment /\ (more - 1) * MaxSegment \in Nat
    BY <1>0, <1>7, <2>1, Multiples
  <2>4. (more - 1) * MaxSegment < r
    BY <1>7, <2>1
  <2>5. i * MaxSegment + (j - i) <= r
    BY <1>6, <1>7, <2>1, <2>2, <2>3, <2>4
  <2>6. QED
    BY <1>6, <2>2, <2>5 DEF MinOf
<1>20. \A s1 \in 1..n : e[s1] - Offset(e, s1 - 1) <= MaxSegment
  <2>1. SUFFICES ASSUME NEW s1 \in 1..n
                 PROVE Offset(e, s1) - Offset(e, s1 - 1) <= MaxSegment
    BY DEF Offset
  <2>2. Offset(c, s1) - Offset(c, s1 - 1) <= MaxSegment
    BY <1>1 DEF SegmentsOK, Offset
  <2>3. CASE s1 < n
    BY <1>1, <1>13, <2>2, <2>3
  <2>4. CASE s1 = n
    <3>1. n > 0 /\ Offset(c, n) = c[n] /\ Offset(c, n) \in Nat /\ Offset(c, n - 1) \in Nat
      BY <1>1, <1>2, <2>4 DEF Offset
    <3>2. fill <= MaxSegment - (Offset(c, n) - Offset(c, n - 1))
      <4>1. CASE n > s
        BY <1>0, <1>5, <3>1, <4>1 DEF room
      <4>2. CASE n <= s
        BY <1>0, <1>1, <1>5, <2>2, <2>4, <3>1, <4>2 DEF room
      <4>3. QED
        BY <1>1, <4>1, <4>2
    <3>3. Offset(e, n) = Offset(c, n) + fill /\ Offset(e, n - 1) = Offset(c, n - 1)
      BY <1>1, <1>3, <1>13, <1>15, <3>1
    <3>4. QED
      BY <1>0, <1>5, <2>4, <3>1, <3>2, <3>3
  <2>5. QED
    BY <1>1, <2>3, <2>4
<1>21. \A i \in 1..more : Offset(e, n + i) - Offset(e, n + i - 1) <= MaxSegment
  <2>1. SUFFICES ASSUME NEW i \in 1..more
                 PROVE Offset(e, n + i) - Offset(e, n + (i - 1)) <= MaxSegment
    BY <1>1, <1>7
  <2>2. i * MaxSegment = (i - 1) * MaxSegment + MaxSegment
    BY <1>0, <1>7
  <2>3. i * MaxSegment \in Nat /\ (i - 1) * MaxSegment \in Nat
    BY <1>0, <1>7, Multiples
  <2>a. Offset(e, n + i) = MinOf(base + i * MaxSegment, base + r)
    BY <1>14
  <2>b. MinOf(base + i * MaxSegment, base + r) <= base + i * MaxSegment
    BY <1>6, <2>3 DEF MinOf
  <2>4. CASE i = 1
    <3>1. Offset(e, n + (i - 1)) = base
      BY <1>1, <1>13, <2>4
    <3>2. i * MaxSegment = MaxSegment
      BY <1>0, <2>4
    <3>3. QED
      BY <1>0, <1>6, <2>a, <3>1, <3>2 DEF MinOf
  <2>5. CASE i > 1
    <3>1. i - 1 \in 1..more
      BY <1>7, <2>5
    <3>2. Offset(e, n + (i - 1)) = MinOf(base + (i - 1) * MaxSegment, base + r)
      BY <1>14, <3>1
    <3>3. QED
      BY <1>0, <1>6, <2>2, <2>3, <2>a, <3>2 DEF MinOf
  <2>6. QED
    BY <1>7, <2>4, <2>5
<1>22. \A i \in 0..Len(e) : Offset(e, i) \in Nat
  BY <1>1, <1>12 DEF Offset
<1>23. SegmentsOK(e)
  <2>1. \A i, j \in 0..Len(e) : i < j => Offset(e, j) - Offset(e, i) >= j - i
    <3>1. SUFFICES ASSUME NEW i \in 0..Len(e), NEW j \in 0..Len(e), i < j
                   PROVE Offset(e, j) - Offset(e, i) >= j - i
      OBVIOUS
    <3>2. CASE j <= n
      BY <1>1, <1>17, <3>1, <3>2
    <3>3. CASE j > n /\ i <= n
      <4>1. j - n \in 1..more /\ n + (j - n) = j
        BY <1>1, <1>7, <1>12, <3>3
      <4>2. Offset(e, j) - Offset(e, n) >= j - n
        BY <1>18, <4>1
      <4>3. Offset(e, n) - Offset(e, i) >= n - i
        BY <1>1, <1>16, <3>1, <3>3
      <4>4. /\ Offset(e, i) \in Nat /\ Offset(e, j) \in Nat /\ Offset(e, n) \in Nat
            /\ i \in Nat /\ j \in Nat
        BY <1>1, <1>7, <1>12, <1>22, <3>1
      <4>5. QED
        BY <1>1, <4>2, <4>3, <4>4
    <3>4. CASE i > n
      <4>1. /\ j - n \in 1..more /\ n + (j - n) = j
            /\ i - n \in 1..more /\ n + (i - n) = i
        BY <1>1, <1>7, <1>12, <3>1, <3>4
      <4>2. Offset(e, n + (j - n)) - Offset(e, n + (i - n)) >= (j - n) - (i - n)
        BY <1>1, <1>19, <3>1, <4>1
      <4>3. QED
        BY <1>1, <3>1, <4>1, <4>2
    <3>5. QED
      BY <1>1, <3>2, <3>3, <3>4
  <2>2. \A s1 \in 1..Len(e) : e[s1] - Offset(e, s1 - 1) <= MaxSegment
    <3>1. SUFFICES ASSUME NEW s1 \in 1..Len(e), s1 > n
                   PROVE Offset(e, s1) - Offset(e, s1 - 1) <= MaxSegment
      BY <1>1, <1>20 DEF Offset
    <3>2. s1 - n \in 1..more /\ n + (s1 - n) = s1 /\ n + (s1 - n) - 1 = s1 - 1
      BY <1>1, <1>7, <1>12, <3>1
    <3>3. QED
      BY <1>21, <3>2
  <2>3. QED
    BY <2>1, <2>2 DEF SegmentsOK
<1>24. \A i \in 1..s : e[i] = c[i]
  BY <1>1, <1>5, <1>9, <1>12
<1>25. Total(e) = Total(c) + k
  <2>1. CASE more = 0
    BY <1>1, <1>3, <1>6, <1>7, <1>12, <1>13, <1>15, <2>1 DEF Total
  <2>2. CASE more > 0
    <3>1. more \in 1..more /\ more * MaxSegment \in Nat
      BY <1>7, <1>8, <2>2
    <3>2. Offset(e, n + more) = MinOf(base + more * MaxSegment, base + r)
      BY <1>14, <3>1
    <3>3. Offset(e, n + more) = base + r
      BY <1>0, <1>6, <1>7, <3>1, <3>2 DEF MinOf
    <3>4. QED
      BY <1>6, <1>12, <3>3 DEF Total
  <2>3. QED
    BY <1>7, <2>1, <2>2
<1>26. QED
  BY <1>1, <1>7, <1>12, <1>23, <1>24, <1>25 DEF e

\* A run of segments holds the bytes from its first to its last.
LEMMA RunSize ==
  ASSUME NEW c, NEW lo \in Nat, NEW hi \in Nat, lo <= hi
  PROVE  Size(c, lo..hi) = c[hi] - Offset(c, lo - 1)
<1> DEFINE W == lo..hi
           top == CHOOSE s \in W : \A t \in W : t <= s
           bot == CHOOSE s \in W : \A t \in W : s <= t
<1>1. W # {} /\ lo \in W /\ hi \in W
  OBVIOUS
<1>2. top \in W /\ \A t \in W : t <= top
  <2>1. \E s \in W : \A t \in W : t <= s
    BY <1>1
  <2>2. QED
    BY <2>1
<1>3. bot \in W /\ \A t \in W : bot <= t
  <2>1. \E s \in W : \A t \in W : s <= t
    BY <1>1
  <2>2. QED
    BY <2>1
<1>4. top = hi /\ bot = lo
  <2> HIDE DEF top, bot
  <2>1. QED
    BY <1>1, <1>2, <1>3
<1>5. QED
  BY <1>1, <1>4 DEF Size

\* The smaller and the larger of two numbers.
LEMMA MinMax ==
  ASSUME NEW x \in Int, NEW y \in Int
  PROVE  /\ MinOf(x, y) \in {x, y} /\ MinOf(x, y) <= x /\ MinOf(x, y) <= y
         /\ MaxOf(x, y) \in {x, y} /\ MaxOf(x, y) >= x /\ MaxOf(x, y) >= y
BY DEF MinOf, MaxOf

-----------------------------------------------------------------------------
(* Frames: what one end does, seen from the other.                         *)

\* The stream p writes is extended, never changed where it was sent.
Grows(p) == /\ sent'[p] \in sent[p]..Len(cut'[p])
            /\ \A i \in 1..sent[p] : cut'[p][i] = cut[p][i]

\* The state of q, its incoming path aside.
SameAt(q) == /\ cut'[q] = cut[q] /\ sent'[q] = sent[q] /\ cwndMax'[q] = cwndMax[q]
             /\ sendWindow'[q] = sendWindow[q] /\ bufferData'[q] = bufferData[q]
             /\ firstSeq'[q] = firstSeq[q] /\ maxSeq'[q] = maxSeq[q]
             /\ recvWindow'[q] = recvWindow[q] /\ lossMap'[q] = lossMap[q]
             /\ recvData'[q] = recvData[q] /\ consumed'[q] = consumed[q]

\* A datagram that p may put on the path in the next state.
GoodFrom(p, m) ==
  /\ AckOf(m) <= firstSeq'[p]
  /\ m.type = "DATA" => m.seq \in 1..sent'[p] /\ m.bytes = Bytes(cut'[p], m.seq)

\* The segments already sent keep their bounds when send() extends the stream.
LEMMA OffsetsKept ==
  ASSUME NEW p \in Endpoint, Grows(p), sent[p] \in Nat,
         NEW s \in 0..sent[p]
  PROVE  /\ Offset(cut'[p], s) = Offset(cut[p], s)
         /\ s > 0 => cut'[p][s] = cut[p][s] /\ Bytes(cut'[p], s) = Bytes(cut[p], s)
<1>1. Offset(cut'[p], s) = Offset(cut[p], s)
  BY DEF Grows, Offset
<1>2. s > 0 => cut'[p][s] = cut[p][s] /\ Offset(cut'[p], s - 1) = Offset(cut[p], s - 1)
  BY DEF Grows, Offset
<1>3. QED
  BY <1>1, <1>2 DEF Bytes

\* The types of the variables of one endpoint.
LEMMA TypeAt ==
  ASSUME TypeOK, NEW p \in Endpoint
  PROVE  /\ cut[p] \in Seq(Nat) /\ sent[p] \in Nat /\ cwndMax[p] \in Nat
         /\ sendWindow[p] \in SUBSET Nat /\ lossSet[p] \in SUBSET Nat /\ bufferData[p] \in Nat
         /\ firstSeq[p] \in Nat /\ maxSeq[p] \in Nat
         /\ DOMAIN recvWindow[p] \subseteq Nat
         /\ recvWindow[p] \in [DOMAIN recvWindow[p] -> Payload]
         /\ lossMap[p] \in SUBSET Nat
         /\ recvData[p] \in Seq(Payload) /\ Len(recvData[p]) \in Nat
         /\ consumed[p] \in Seq(Nat) /\ Len(consumed[p]) \in Nat
         /\ net[p] \in SUBSET Packet
<1>1. recvData[p] \in Seq(Payload) /\ consumed[p] \in Seq(Nat)
  BY DEF TypeOK
<1>2. QED
  BY <1>1 DEF TypeOK

\* The bounds of the receiver's state.
LEMMA ReceiverBounds ==
  ASSUME TypeOK, NEW p \in Endpoint, Peer[p] \in Endpoint, ReceiverOK(p)
  PROVE  /\ firstSeq[p] - Len(recvData[p]) \in Nat
         /\ firstSeq[p] <= maxSeq[p] /\ maxSeq[p] <= sent[Peer[p]]
<1>1. /\ firstSeq[p] \in Nat /\ Len(recvData[p]) \in Nat
  BY TypeAt
<1>2. firstSeq[p] - Len(recvData[p]) >= 0
  BY DEF ReceiverOK
<1>3. QED
  BY <1>1, <1>2 DEF ReceiverOK

\* The receiver at p does not notice that its peer extends its stream.
LEMMA ReceiverFrame ==
  ASSUME TypeOK, NEW p \in Endpoint, Peer[p] \in Endpoint,
         ReceiverOK(p), SenderOK(Peer[p]), Grows(Peer[p]),
         firstSeq'[p] = firstSeq[p], maxSeq'[p] = maxSeq[p],
         recvWindow'[p] = recvWindow[p], recvData'[p] = recvData[p],
         consumed'[p] = consumed[p], lossMap'[p] \subseteq lossMap[p]
  PROVE  ReceiverOK(p)'
<1> DEFINE q == Peer[p]
           c == cut[q]
           d == cut'[q]
           done == firstSeq[p] - Len(recvData[p])
           L == Len(recvData[p])
<1>1. /\ firstSeq[p] \in Nat /\ maxSeq[p] \in Nat /\ sent[q] \in Nat /\ L \in Nat
      /\ done \in Nat /\ done + L = firstSeq[p]
      /\ firstSeq[p] <= maxSeq[p] /\ maxSeq[p] <= sent[q]
      /\ DOMAIN recvWindow[p] \subseteq Nat
  <2>1. /\ firstSeq[p] \in Nat /\ maxSeq[p] \in Nat /\ sent[q] \in Nat /\ L \in Nat
        /\ DOMAIN recvWindow[p] \subseteq Nat
    BY TypeAt
  <2>2. QED
    BY <2>1, ReceiverBounds
<1>2. \A s \in 0..sent[q] : /\ Offset(d, s) = Offset(c, s)
                            /\ s > 0 => d[s] = c[s] /\ Bytes(d, s) = Bytes(c, s)
  BY <1>1, OffsetsKept
<1>3. firstSeq[p] <= maxSeq[p] /\ maxSeq[p] <= sent'[q]
  BY <1>1 DEF Grows
<1>4. \A s \in DOMAIN recvWindow[p] :
        firstSeq[p] + 1 < s /\ s <= maxSeq[p] /\ recvWindow[p][s] = Bytes(d, s)
  <2>1. TAKE s \in DOMAIN recvWindow[p]
  <2>2. firstSeq[p] + 1 < s /\ s <= maxSeq[p] /\ recvWindow[p][s] = Bytes(c, s)
    BY DEF ReceiverOK
  <2>3. QED
    BY <1>1, <1>2, <2>2
<1>5. \A i \in 1..L : /\ recvData[p][i].hi = d[done + i]
                      /\ recvData[p][i].lo = 1 + (IF i = 1 THEN Len(consumed[p]) ELSE d[done + i - 1])
  <2>1. TAKE i \in 1..L
  <2>2. /\ recvData[p][i].hi = c[done + i]
        /\ recvData[p][i].lo = 1 + (IF i = 1 THEN Len(consumed[p]) ELSE c[done + i - 1])
    BY DEF ReceiverOK
  <2>3. done + i \in 1..sent[q] /\ (i # 1 => done + i - 1 \in 1..sent[q])
    <3> HIDE DEF done, L
    <3> QED
      BY <1>1
  <2>4. QED
    BY <1>2, <2>2, <2>3
<1>6. Offset(d, done) = Offset(c, done) /\ (L > 0 => d[done + 1] = c[done + 1])
  <2>1. done \in 0..sent[q] /\ (L > 0 => done + 1 \in 0..sent[q] /\ done + 1 > 0)
    <3> HIDE DEF done, L
    <3> QED
      BY <1>1
  <2> HIDE DEF c, d, done, L, q
  <2>2. QED
    BY <1>2, <2>1
<1>7. recvData[p] # <<>> => L > 0
  BY DEF TypeOK
<1>8. QED
  BY <1>1, <1>3, <1>4, <1>5, <1>6, <1>7 DEF ReceiverOK

\* A step of p alone keeps the invariant when it extends p's stream, keeps p's
\* two buffers well formed and puts nothing wrong on the path.
LEMMA Preserve ==
  ASSUME IInv, TypeOK', NEW p \in Endpoint,
         \A q \in Endpoint \ {p} : SameAt(q),
         \A q \in Endpoint \ {p, Peer[p]} : net'[q] = net[q],
         net'[p] \subseteq net[p],
         \A m \in net'[Peer[p]] : m \in net[Peer[p]] \/ GoodFrom(p, m),
         SegmentsOK(cut'[p]), Grows(p), SenderOK(p)', ReceiverOK(p)',
         firstSeq[p] <= firstSeq'[p]
  PROVE  IInv'
<1>1. Peer[p] \in Endpoint /\ Peer[p] # p /\ Peer[Peer[p]] = p
  BY EndpointAssumption
<1>2. SUFFICES ASSUME NEW q \in Endpoint
               PROVE (SegmentsOK(cut[q]) /\ SenderOK(q) /\ ReceiverOK(q) /\ PathOK(q))'
  BY DEF IInv
<1>3. SegmentsOK(cut[q]) /\ SenderOK(q) /\ ReceiverOK(q) /\ PathOK(q)
  BY DEF IInv
<1>4. Peer[q] \in Endpoint /\ Peer[q] # q /\ Peer[Peer[q]] = q
  BY EndpointAssumption
<1>5. CASE q = p
  <2>1. PathOK(p)'
    <3>1. SameAt(Peer[p])
      BY <1>1
    <3>2. QED
      BY <1>3, <1>5, <3>1 DEF PathOK, SameAt
  <2>2. QED
    BY <1>5, <2>1
<1>6. CASE q # p
  <2>1. SameAt(q)
    BY <1>6
  <2>2. SegmentsOK(cut[q])'
    BY <1>3, <2>1 DEF SameAt
  <2>3. SenderOK(q)'
    <3>1. CASE Peer[q] = p
      <4>1. /\ firstSeq'[p] <= sent[q] /\ firstSeq[p] \in Nat /\ firstSeq'[p] \in Nat
        <5>1. Peer[p] = q /\ sent'[q] = sent[q]
          BY <1>4, <2>1, <3>1 DEF SameAt
        <5>2. /\ firstSeq'[p] <= maxSeq'[p] /\ maxSeq'[p] <= sent'[q]
          BY <5>1 DEF ReceiverOK
        <5>3. /\ firstSeq'[p] \in Nat /\ maxSeq'[p] \in Nat /\ sent[q] \in Nat
              /\ firstSeq[p] \in Nat
          BY DEF TypeOK, IInv
        <5>4. QED
          BY <5>1, <5>2, <5>3
      <4>2. PICK base \in 0..firstSeq[p] :
              /\ sendWindow[q] = (base + 1)..sent[q]
              /\ bufferData[q] = Total(cut[q]) - Offset(cut[q], base)
        BY <1>3, <3>1 DEF SenderOK
      <4>3. base \in 0..firstSeq'[p]
        BY <4>1
      <4>4. QED
        BY <1>3, <2>1, <3>1, <4>1, <4>2, <4>3 DEF SenderOK, SameAt
    <3>2. CASE Peer[q] # p
      <4>1. SameAt(Peer[q])
        BY <1>4, <3>2
      <4>2. QED
        BY <1>3, <2>1, <4>1 DEF SenderOK, SameAt
    <3>3. QED
      BY <3>1, <3>2
  <2>4. ReceiverOK(q)'
    <3>1. SenderOK(Peer[q])
      BY <1>4 DEF IInv
    <3>2. Grows(Peer[q])
      <4>1. CASE Peer[q] = p
        BY <4>1
      <4>2. CASE Peer[q] # p
        <5>1. SameAt(Peer[q])
          BY <1>4, <4>2
        <5>2. sent[Peer[q]] \in Nat /\ Len(cut[Peer[q]]) \in Nat
          BY <1>4, TypeAt, LenProperties DEF IInv
        <5>3. QED
          BY <3>1, <5>1, <5>2 DEF Grows, SameAt, SenderOK
      <4>3. QED
        BY <4>1, <4>2
    <3>3. QED
      BY <1>3, <1>4, <2>1, <3>1, <3>2, ReceiverFrame DEF IInv, SameAt
  <2>5. PathOK(q)'
    <3>1. CASE Peer[q] # p
      <4>1. SameAt(Peer[q]) /\ q # Peer[p]
        BY <1>1, <1>4, <3>1
      <4>2. net'[q] = net[q]
        BY <1>6, <4>1
      <4>3. QED
        BY <1>3, <4>1, <4>2 DEF PathOK, SameAt
    <3>2. CASE Peer[q] = p
      <4>1. Peer[p] = q
        BY <1>4, <3>2
      <4>2. SUFFICES ASSUME NEW m \in net'[q] PROVE GoodFrom(p, m)
        BY <3>2 DEF PathOK, GoodFrom
      <4>3. CASE m \in net[q]
        <5>1. /\ AckOf(m) <= firstSeq[p]
              /\ m.type = "DATA" => m.seq \in 1..sent[p] /\ m.bytes = Bytes(cut[p], m.seq)
          BY <1>3, <3>2, <4>3 DEF PathOK
        <5>2. firstSeq[p] \in Nat /\ firstSeq'[p] \in Nat /\ sent[p] \in Nat
          BY DEF IInv, TypeOK
        <5>3. AckOf(m) \in Nat
          <6>1. m \in Packet
            BY <4>3 DEF IInv, TypeOK
          <6>2. QED
            BY <6>1 DEF Packet, AckOf
        <5>4. AckOf(m) <= firstSeq'[p]
          BY <5>1, <5>2, <5>3
        <5>5. ASSUME m.type = "DATA"
              PROVE  m.seq \in 1..sent'[p] /\ m.bytes = Bytes(cut'[p], m.seq)
          <6>1. m.seq \in 1..sent[p]
            BY <5>1, <5>5
          <6>2. Bytes(cut'[p], m.seq) = Bytes(cut[p], m.seq)
            BY <5>2, <6>1, OffsetsKept
          <6>3. QED
            BY <5>1, <5>2, <5>5, <6>1, <6>2 DEF Grows
        <5>6. QED
          BY <5>4, <5>5 DEF GoodFrom
      <4>4. QED
        BY <4>1, <4>3
    <3>3. QED
      BY <3>1, <3>2
  <2>6. QED
    BY <2>2, <2>3, <2>4, <2>5
<1>7. QED
  BY <1>5, <1>6

-----------------------------------------------------------------------------
(* What attempt_send() and on_ack() do.                                    *)

\* attempt_send() moved p from segment sent[p] to segment `last'; it left the
\* window from base + 1 on and sent copies of what is in the window.
Sends(p, base, L, out, last) ==
  /\ last \in sent[p]..Len(cut'[p])
  /\ sent' = [sent EXCEPT ![p] = last]
  /\ cwndMax' = [cwndMax EXCEPT ![p] = MaxOf(1, last)]
  /\ sendWindow' = [sendWindow EXCEPT ![p] = (base + 1)..last]
  /\ \E X \in SUBSET L : lossSet' = [lossSet EXCEPT ![p] = X]
  /\ \E gone \in SUBSET net[p],
        kept \in SUBSET (out \cup {Data(s, firstSeq[p], cut'[p]) : s \in 1..last}) :
       net' = [net EXCEPT ![p] = @ \ gone, ![Peer[p]] = @ \cup kept]

\* The path towards the peer gains some of the datagrams sent and the path
\* towards p loses at most those just taken from it.
LEMMA TransmitDoes ==
  ASSUME NEW p, NEW in \in SUBSET net[p], NEW out, Transmit(p, in, out)
  PROVE  \E gone \in SUBSET net[p], kept \in SUBSET out :
           net' = [net EXCEPT ![p] = @ \ gone, ![Peer[p]] = @ \cup kept]
<1>1. PICK kept \in SUBSET out, gone \in (IF Duplicates THEN {{}, in} ELSE {in}) :
        net' = [net EXCEPT ![p] = @ \ gone, ![Peer[p]] = @ \cup kept]
  BY DEF Transmit
<1>2. gone \in SUBSET net[p]
  BY <1>1
<1>3. QED
  BY <1>1, <1>2

\* attempt_send(): segments leave send_data_ in order and enter the window, and
\* what it puts on the path are copies of segments of the window.
LEMMA AttemptSendDoes ==
  ASSUME TypeOK, NEW p \in Endpoint, cut'[p] \in Seq(Nat), sent[p] <= Len(cut'[p]),
         cwndMax[p] = MaxOf(1, sent[p]),
         NEW base \in 0..sent[p], NEW L \in SUBSET Nat,
         NEW in \in SUBSET net[p], NEW out,
         AttemptSend(p, (base + 1)..sent[p], L, in, out)
  PROVE  \E last \in Nat : Sends(p, base, L, out, last)
<1> DEFINE W == (base + 1)..sent[p]
           copies(n) == {Data(s, firstSeq[p], cut'[p]) : s \in 1..n}
<1>1. sent[p] \in Nat /\ Len(cut'[p]) \in Nat /\ base \in Nat
  BY TypeAt, LenProperties
<1>2. CASE /\ sendWindow' = [sendWindow EXCEPT ![p] = W]
           /\ lossSet' = [lossSet EXCEPT ![p] = L]
           /\ UNCHANGED <<sent, cwndMax>>
           /\ Transmit(p, in, out)
  <2>1. PICK gone \in SUBSET net[p], kept \in SUBSET out :
          net' = [net EXCEPT ![p] = @ \ gone, ![Peer[p]] = @ \cup kept]
    BY <1>2, TransmitDoes
  <2>2. kept \in SUBSET (out \cup copies(sent[p]))
    OBVIOUS
  <2>3. /\ sent' = [sent EXCEPT ![p] = sent[p]]
        /\ cwndMax' = [cwndMax EXCEPT ![p] = MaxOf(1, sent[p])]
    BY <1>2 DEF TypeOK
  <2>4. sent[p] \in sent[p]..Len(cut'[p])
    BY <1>1
  <2>5. Sends(p, base, L, out, sent[p])
    BY <1>2, <2>1, <2>2, <2>3, <2>4 DEF Sends
  <2>6. QED
    BY <1>1, <2>5
<1>3. ASSUME NEW w \in Cwnds, NEW again \in SUBSET Resendable(W, L), NEW fit,
             fit = (IF Cardinality(again) >= w THEN 0
                    ELSE MaxOf(0, MinOf(Len(cut'[p]) - sent[p], w - Cardinality(W)))),
             NEW fresh \in 0..fit, NEW last, last = sent[p] + fresh,
             sendWindow' = [sendWindow EXCEPT ![p] = W \cup (sent[p] + 1)..last],
             lossSet' = [lossSet EXCEPT ![p] = L \ again],
             sent' = [sent EXCEPT ![p] = last],
             cwndMax' = [cwndMax EXCEPT ![p] = MaxOf(@, last)],
             Transmit(p, in, out \cup
               {Data(s, firstSeq[p], cut'[p]) : s \in again \cup (sent[p] + 1)..last})
      PROVE  \E l \in Nat : Sends(p, base, L, out, l)
  <2>1. fit \in 0..(Len(cut'[p]) - sent[p])
    <3>1. w \in Nat
      BY SizeAssumption
    <3>2. Cardinality(W) \in Nat
      <4>1. base + 1 \in Int /\ sent[p] \in Int
        BY <1>1
      <4>2. IsFiniteSet(W)
        BY <4>1, FS_Interval
      <4>3. QED
        BY <4>2, FS_CardinalityType
    <3>3. Len(cut'[p]) - sent[p] \in Nat /\ w - Cardinality(W) \in Int
      BY <1>1, <3>1, <3>2
    <3>4. MaxOf(0, MinOf(Len(cut'[p]) - sent[p], w - Cardinality(W))) \in 0..(Len(cut'[p]) - sent[p])
      <4> HIDE DEF W
      <4> QED
        BY <3>3 DEF MinOf, MaxOf
    <3>5. fit = 0 \/ fit = MaxOf(0, MinOf(Len(cut'[p]) - sent[p], w - Cardinality(W)))
      BY <1>3
    <3>6. QED
      BY <3>3, <3>4, <3>5
  <2>2. last \in sent[p]..Len(cut'[p])
    BY SMTT(30), <1>1, <1>3, <2>1
  <2>3. W \cup (sent[p] + 1)..last = (base + 1)..last
    BY <1>1, <2>2
  <2>4. MaxOf(cwndMax[p], last) = MaxOf(1, last)
    BY <1>1, <2>2 DEF MaxOf
  <2>5. again \cup (sent[p] + 1)..last \subseteq 1..last
    <3>1. again \subseteq W
      BY DEF Resendable
    <3>2. W \subseteq 1..last /\ (sent[p] + 1)..last \subseteq 1..last
      BY <1>1, <2>2
    <3>3. QED
      BY <3>1, <3>2
  <2>6. PICK gone \in SUBSET net[p],
             kept \in SUBSET (out \cup {Data(s, firstSeq[p], cut'[p]) :
                                          s \in again \cup (sent[p] + 1)..last}) :
          net' = [net EXCEPT ![p] = @ \ gone, ![Peer[p]] = @ \cup kept]
    <3> DEFINE all == out \cup {Data(s, firstSeq[p], cut'[p]) :
                                  s \in again \cup (sent[p] + 1)..last}
    <3>1. Transmit(p, in, all)
      BY <1>3
    <3> HIDE DEF all
    <3>2. \E gone \in SUBSET net[p], kept \in SUBSET all :
            net' = [net EXCEPT ![p] = @ \ gone, ![Peer[p]] = @ \cup kept]
      BY <3>1, TransmitDoes
    <3>3. QED
      BY <3>2 DEF all
  <2>7. kept \in SUBSET (out \cup copies(last))
    BY <2>5
  <2>8. cwndMax' = [cwndMax EXCEPT ![p] = MaxOf(1, last)]
    BY <1>3, <2>4
  <2>9. sendWindow' = [sendWindow EXCEPT ![p] = (base + 1)..last]
    BY <1>3, <2>3
  <2>10. L \ again \in SUBSET L
    OBVIOUS
  <2>11. Sends(p, base, L, out, last)
    BY <1>3, <2>2, <2>6, <2>7, <2>8, <2>9, <2>10 DEF Sends
  <2>12. last \in Nat
    BY <1>1, <2>2
  <2>13. QED
    BY <2>11, <2>12
<1>4. QED
  BY <1>2, <1>3 DEF AttemptSend

\* The send buffer of p is in order after attempt_send(), whatever its caller
\* cut from the stream (cut') and freed (base, bufferData').
LEMMA SendsKeeps ==
  ASSUME IInv, NEW p \in Endpoint,
         cut' = [cut EXCEPT ![p] = cut'[p]], cut'[p] \in Seq(Nat), SegmentsOK(cut'[p]),
         \A i \in 1..sent[p] : cut'[p][i] = cut[p][i],
         NEW base \in 0..firstSeq[Peer[p]], NEW L \in SUBSET Nat,
         NEW out \in SUBSET Packet, \A m \in out : m.type # "DATA" /\ AckOf(m) <= firstSeq[p],
         NEW last \in Nat, Sends(p, base, L, out, last),
         bufferData' = [bufferData EXCEPT ![p] = Total(cut'[p]) - Offset(cut'[p], base)],
         Total(cut'[p]) - Offset(cut'[p], base) < BufferSize + MaxWrite,
         firstSeq'[p] \in Nat, firstSeq[p] <= firstSeq'[p],
         firstSeq'[Peer[p]] = firstSeq[Peer[p]]
  PROVE  /\ cut' \in [Endpoint -> Seq(Nat)] /\ sent' \in [Endpoint -> Nat]
         /\ cwndMax' \in [Endpoint -> Nat] /\ sendWindow' \in [Endpoint -> SUBSET Nat]
         /\ lossSet' \in [Endpoint -> SUBSET Nat] /\ bufferData' \in [Endpoint -> Nat]
         /\ net' \in [Endpoint -> SUBSET Packet]
         /\ \A q \in Endpoint \ {p} :
              /\ cut'[q] = cut[q] /\ sent'[q] = sent[q] /\ cwndMax'[q] = cwndMax[q]
              /\ sendWindow'[q] = sendWindow[q] /\ bufferData'[q] = bufferData[q]
         /\ \A q \in Endpoint \ {p, Peer[p]} : net'[q] = net[q]
         /\ net'[p] \subseteq net[p]
         /\ \A m \in net'[Peer[p]] : m \in net[Peer[p]] \/ GoodFrom(p, m)
         /\ Grows(p)
         /\ SenderOK(p)'
<1> DEFINE c == cut'[p]
<1>1. /\ Peer[p] \in Endpoint /\ Peer[p] # p /\ TypeOK /\ SenderOK(p)
  BY EndpointAssumption DEF IInv
<1>2. /\ sent[p] \in Nat /\ Len(c) \in Nat /\ firstSeq[p] \in Nat
      /\ firstSeq[Peer[p]] \in Nat /\ firstSeq[Peer[p]] <= sent[p]
  BY <1>1, TypeAt, LenProperties DEF SenderOK
<1>3. /\ last \in sent[p]..Len(c) /\ base \in 0..last
  BY <1>2 DEF Sends
<1>4. \A i \in 0..Len(c) : Offset(c, i) \in Nat
  BY <1>2 DEF Offset
<1>5. Total(c) - Offset(c, base) \in Nat
  <2>1. base \in 0..Len(c) /\ Len(c) \in 0..Len(c)
    BY <1>2, <1>3
  <2>2. base < Len(c) => Offset(c, Len(c)) - Offset(c, base) >= Len(c) - base
    BY <2>1 DEF SegmentsOK
  <2>3. Offset(c, base) \in Nat /\ Offset(c, Len(c)) \in Nat
    BY <1>4, <2>1
  <2>4. QED
    BY <1>2, <2>1, <2>2, <2>3 DEF Total
<1>6. /\ sent' = [sent EXCEPT ![p] = last]
      /\ cwndMax' = [cwndMax EXCEPT ![p] = MaxOf(1, last)]
      /\ sendWindow' = [sendWindow EXCEPT ![p] = (base + 1)..last]
  BY DEF Sends
<1>7. PICK gone \in SUBSET net[p],
           kept \in SUBSET (out \cup {Data(s, firstSeq[p], c) : s \in 1..last}) :
        net' = [net EXCEPT ![p] = @ \ gone, ![Peer[p]] = @ \cup kept]
  BY DEF Sends
<1>8. \A s \in 1..last : Data(s, firstSeq[p], c) \in Packet
  <2>1. TAKE s \in 1..last
  <2>2. c[s] \in Nat /\ Offset(c, s - 1) \in Nat
    <3>1. s \in 1..Len(c) /\ s - 1 \in 0..Len(c)
      BY <1>2, <1>3
    <3>2. QED
      BY <1>4, <3>1, ElementOfSeq
  <2>3. Bytes(c, s) \in Payload
    BY <2>2 DEF Bytes, Payload
  <2>4. QED
    BY <1>2, <2>3 DEF Data, Packet
<1>9. kept \in SUBSET Packet
  BY <1>7, <1>8
<1>10. net' \in [Endpoint -> SUBSET Packet]
  BY <1>1, <1>7, <1>9 DEF TypeOK
<1>11. /\ \A q \in Endpoint \ {p, Peer[p]} : net'[q] = net[q]
       /\ net'[p] = net[p] \ gone
       /\ net'[Peer[p]] = net[Peer[p]] \cup kept
  BY <1>1, <1>7 DEF TypeOK
<1>12. sent'[p] = last /\ sendWindow'[p] = (base + 1)..last /\ cwndMax'[p] = MaxOf(1, last)
  BY <1>1, <1>6 DEF TypeOK
<1>13. \A m \in kept : GoodFrom(p, m)
  <2>1. TAKE m \in kept
  <2>2. CASE m \in out
    <3>1. m.type # "DATA" /\ AckOf(m) <= firstSeq[p] /\ m \in Packet
      BY <2>2
    <3>2. AckOf(m) \in Nat
      BY <3>1 DEF Packet, AckOf
    <3>3. QED
      BY <1>2, <3>1, <3>2 DEF GoodFrom
  <2>3. CASE m \in {Data(s, firstSeq[p], c) : s \in 1..last}
    <3>1. PICK s \in 1..last : m = Data(s, firstSeq[p], c)
      BY <2>3
    <3>2. AckOf(m) = firstSeq[p] /\ m.seq = s /\ m.bytes = Bytes(c, s)
      BY <3>1 DEF Data, AckOf
    <3>3. QED
      BY <1>2, <1>12, <3>1, <3>2 DEF GoodFrom
  <2>4. QED
    BY <1>7, <2>2, <2>3
<1>14. Grows(p)
  BY <1>3, <1>12 DEF Grows
<1>15. SenderOK(p)'
  <2>1. firstSeq[Peer[p]] <= last
    BY <1>2, <1>3
  <2>2. bufferData'[p] = Total(c) - Offset(c, base)
    BY <1>1 DEF TypeOK
  <2>3. last <= Len(c)
    BY <1>3
  <2>4. QED
    BY <1>12, <2>1, <2>2, <2>3 DEF SenderOK
<1>16. /\ cut' \in [Endpoint -> Seq(Nat)] /\ sent' \in [Endpoint -> Nat]
       /\ bufferData' \in [Endpoint -> Nat]
  <2>1. cut \in [Endpoint -> Seq(Nat)] /\ sent \in [Endpoint -> Nat]
        /\ bufferData \in [Endpoint -> Nat]
    BY <1>1 DEF TypeOK
  <2>2. cut' \in [Endpoint -> Seq(Nat)]
    BY <2>1
  <2>3. QED
    BY <1>5, <1>6, <2>1, <2>2
<1>17. cwndMax' \in [Endpoint -> Nat]
  <2>1. MaxOf(1, last) \in Nat
    BY DEF MaxOf
  <2>2. QED
    BY <1>1, <1>6, <2>1 DEF TypeOK
<1>18. /\ sendWindow' \in [Endpoint -> SUBSET Nat]
       /\ lossSet' \in [Endpoint -> SUBSET Nat]
  <2>1. (base + 1)..last \in SUBSET Nat
    BY <1>3
  <2>2. sendWindow' \in [Endpoint -> SUBSET Nat]
    BY <1>1, <1>6, <2>1 DEF TypeOK
  <2>3. PICK X \in SUBSET L : lossSet' = [lossSet EXCEPT ![p] = X]
    BY DEF Sends
  <2>4. QED
    BY <1>1, <2>2, <2>3 DEF TypeOK
<1>19. \A q \in Endpoint \ {p} :
         /\ cut'[q] = cut[q] /\ sent'[q] = sent[q] /\ cwndMax'[q] = cwndMax[q]
         /\ sendWindow'[q] = sendWindow[q] /\ bufferData'[q] = bufferData[q]
  BY <1>1, <1>6 DEF TypeOK
<1>20. QED
  BY <1>10, <1>11, <1>13, <1>14, <1>15, <1>16, <1>17, <1>18, <1>19

\* An honest acknowledgement moves the start of the window to some segment
\* that the peer has in order, and frees exactly the bytes before it.
LEMMA OnAckDoes ==
  ASSUME IInv, NEW p \in Endpoint, cut' = cut,
         NEW seq \in Nat, seq <= firstSeq[Peer[p]],
         NEW L \in SUBSET Nat, NEW in \in SUBSET net[p], OnAck(p, seq, L, in)
  PROVE  \E base \in 0..firstSeq[Peer[p]], X \in SUBSET Nat, last \in Nat :
           /\ Sends(p, base, X, {}, last)
           /\ bufferData' = [bufferData EXCEPT ![p] = Total(cut'[p]) - Offset(cut'[p], base)]
           /\ Total(cut'[p]) - Offset(cut'[p], base) < BufferSize + MaxWrite
<1> DEFINE c == cut[p]
           f == firstSeq[Peer[p]]
           acked == {s \in sendWindow[p] : s <= seq}
<1>1. /\ Peer[p] \in Endpoint /\ TypeOK /\ SenderOK(p) /\ SegmentsOK(c)
  BY EndpointAssumption DEF IInv
<1>2. /\ sent[p] \in Nat /\ c \in Seq(Nat) /\ Len(c) \in Nat /\ f \in Nat
      /\ f <= sent[p] /\ sent[p] <= Len(c) /\ bufferData[p] \in Nat
      /\ cwndMax[p] = MaxOf(1, sent[p]) /\ bufferData[p] < BufferSize + MaxWrite
  BY <1>1, TypeAt, LenProperties DEF SenderOK
<1>3. PICK old \in 0..f : /\ sendWindow[p] = (old + 1)..sent[p]
                          /\ bufferData[p] = Total(c) - Offset(c, old)
  BY <1>1 DEF SenderOK
<1>4. /\ bufferData' = [bufferData EXCEPT ![p] = MaxOf(0, @ - Size(c, acked))]
      /\ AttemptSend(p, sendWindow[p] \ acked, L \ acked, in, {})
  <2>1. ~(cwndMax[p] < seq)
    BY <1>2 DEF MaxOf
  <2>2. QED
    BY <2>1 DEF OnAck
<1>5. \A i \in 0..Len(c) : Offset(c, i) \in Nat
  BY <1>2 DEF Offset
<1>6. \E base \in 0..f : /\ sendWindow[p] \ acked = (base + 1)..sent[p]
                         /\ old <= base
                         /\ MaxOf(0, bufferData[p] - Size(c, acked)) = Total(c) - Offset(c, base)
  <2>1. CASE seq <= old
    <3>1. acked = {} /\ Size(c, acked) = 0
      BY <1>2, <1>3, <2>1 DEF Size
    <3>2. MaxOf(0, bufferData[p] - Size(c, acked)) = bufferData[p]
      BY <1>2, <3>1 DEF MaxOf
    <3>3. sendWindow[p] \ acked = (old + 1)..sent[p] /\ old <= old
      BY <1>3, <3>1
    <3> HIDE DEF acked, f, c
    <3>4. QED
      BY <1>3, <3>2, <3>3
  <2>2. CASE seq > old
    <3>1. acked = (old + 1)..seq /\ sendWindow[p] \ acked = (seq + 1)..sent[p]
      BY SMTT(30), <1>2, <1>3, <2>2
    <3>2. Size(c, acked) = c[seq] - Offset(c, (old + 1) - 1)
      <4>1. old + 1 \in Nat /\ old + 1 <= seq
        BY <1>2, <1>3, <2>2
      <4>2. Size(c, (old + 1)..seq) = c[seq] - Offset(c, (old + 1) - 1)
        BY <4>1, RunSize
      <4>3. QED
        BY <3>1, <4>2
    <3>3. /\ (old + 1) - 1 = old /\ c[seq] = Offset(c, seq)
          /\ seq \in 0..Len(c) /\ old \in 0..Len(c) /\ Len(c) \in 0..Len(c)
      BY <1>2, <1>3, <2>2 DEF Offset
    <3>4. Offset(c, seq) \in Nat /\ Offset(c, old) \in Nat /\ Offset(c, Len(c)) \in Nat
      BY <1>5, <3>3
    <3>5. Offset(c, Len(c)) >= Offset(c, seq)
      <4>1. seq < Len(c) => Offset(c, Len(c)) - Offset(c, seq) >= Len(c) - seq
        BY <1>1, <3>3 DEF SegmentsOK
      <4>2. QED
        BY <1>2, <3>3, <3>4, <4>1
    <3>6. bufferData[p] - Size(c, acked) = Offset(c, Len(c)) - Offset(c, seq)
      BY <1>3, <3>2, <3>3, <3>4 DEF Total
    <3>7. MaxOf(0, bufferData[p] - Size(c, acked)) = Total(c) - Offset(c, seq)
      BY <3>4, <3>5, <3>6 DEF MaxOf, Total
    <3>8. seq \in 0..f /\ old <= seq
      BY <1>2, <1>3, <2>2
    <3> HIDE DEF acked, f, c
    <3>9. QED
      BY <3>1, <3>7, <3>8
  <2>3. QED
    <3>1. seq <= old \/ seq > old
      BY <1>2, <1>3
    <3>2. QED
      BY <2>1, <2>2, <3>1
<1>7. PICK base \in 0..f : /\ sendWindow[p] \ acked = (base + 1)..sent[p]
                           /\ old <= base
                           /\ MaxOf(0, bufferData[p] - Size(c, acked)) = Total(c) - Offset(c, base)
  BY <1>6
<1>8. L \ acked \in SUBSET Nat /\ base \in 0..sent[p]
  <2>1. L \ acked \in SUBSET Nat
    OBVIOUS
  <2>2. base \in 0..sent[p]
    BY <1>2, <1>7
  <2>3. QED
    BY <2>1, <2>2
<1>9. AttemptSend(p, (base + 1)..sent[p], L \ acked, in, {})
  BY <1>4, <1>7
<1>10. /\ cut'[p] \in Seq(Nat) /\ sent[p] <= Len(cut'[p])
       /\ cwndMax[p] = MaxOf(1, sent[p])
  BY <1>2
<1>11. \E last \in Nat : Sends(p, base, L \ acked, {}, last)
  BY <1>1, <1>8, <1>9, <1>10, AttemptSendDoes
<1>12. bufferData' = [bufferData EXCEPT ![p] = Total(cut'[p]) - Offset(cut'[p], base)]
  BY <1>4, <1>7
<1>13. Total(cut'[p]) - Offset(cut'[p], base) < BufferSize + MaxWrite
  <2>1. /\ old \in 0..Len(c) /\ base \in 0..Len(c) /\ Len(c) \in 0..Len(c)
    BY <1>2, <1>3, <1>7
  <2>2. old < base => Offset(c, base) - Offset(c, old) >= base - old
    BY <1>1, <2>1 DEF SegmentsOK
  <2>3. Offset(c, old) \in Nat /\ Offset(c, base) \in Nat /\ Offset(c, Len(c)) \in Nat
    BY <1>5, <2>1
  <2>4. Offset(c, old) <= Offset(c, base)
    BY <1>2, <1>3, <1>7, <2>2, <2>3
  <2>5. BufferSize + MaxWrite \in Nat
    BY SizeAssumption
  <2>6. QED
    BY <1>2, <1>3, <2>3, <2>4, <2>5 DEF Total
<1>14. QED
  BY <1>8, <1>11, <1>12, <1>13

-----------------------------------------------------------------------------
(* Every action keeps the invariant.                                       *)

\* The receive buffer of p stays in order when p does not touch it and its peer
\* does not move.
LEMMA QuietReceiver ==
  ASSUME IInv, NEW p \in Endpoint,
         cut'[Peer[p]] = cut[Peer[p]], sent'[Peer[p]] = sent[Peer[p]],
         firstSeq'[p] = firstSeq[p], maxSeq'[p] = maxSeq[p],
         recvWindow'[p] = recvWindow[p], recvData'[p] = recvData[p],
         consumed'[p] = consumed[p], lossMap'[p] \subseteq lossMap[p]
  PROVE  ReceiverOK(p)'
<1>1. Peer[p] \in Endpoint /\ TypeOK /\ ReceiverOK(p) /\ SenderOK(Peer[p])
  BY EndpointAssumption DEF IInv
<1>2. Grows(Peer[p])
  <2>1. sent[Peer[p]] \in Nat /\ Len(cut[Peer[p]]) \in Nat
    BY <1>1, TypeAt, LenProperties
  <2>2. QED
    BY <1>1, <2>1 DEF Grows, SenderOK
<1>3. QED
  BY <1>1, <1>2, ReceiverFrame

\* A step that leaves the receive buffer and the application alone.
LEMMA SenderStep ==
  ASSUME IInv, NEW p \in Endpoint,
         cut' = [cut EXCEPT ![p] = cut'[p]], cut'[p] \in Seq(Nat), SegmentsOK(cut'[p]),
         \A i \in 1..sent[p] : cut'[p][i] = cut[p][i],
         NEW base \in 0..firstSeq[Peer[p]], NEW L \in SUBSET Nat,
         NEW out \in SUBSET Packet, \A m \in out : m.type # "DATA" /\ AckOf(m) <= firstSeq[p],
         NEW last \in Nat, Sends(p, base, L, out, last),
         bufferData' = [bufferData EXCEPT ![p] = Total(cut'[p]) - Offset(cut'[p], base)],
         Total(cut'[p]) - Offset(cut'[p], base) < BufferSize + MaxWrite,
         UNCHANGED <<firstSeq, maxSeq, recvWindow, recvData, consumed>>,
         NEW X \in SUBSET lossMap[p], lossMap' = [lossMap EXCEPT ![p] = X]
  PROVE  IInv'
<1>1. Peer[p] \in Endpoint /\ Peer[p] # p /\ TypeOK
  BY EndpointAssumption DEF IInv
<1>2. firstSeq'[p] \in Nat /\ firstSeq[p] <= firstSeq'[p] /\ firstSeq'[Peer[p]] = firstSeq[Peer[p]]
  BY <1>1, TypeAt
<1>3. /\ cut' \in [Endpoint -> Seq(Nat)] /\ sent' \in [Endpoint -> Nat]
      /\ cwndMax' \in [Endpoint -> Nat] /\ sendWindow' \in [Endpoint -> SUBSET Nat]
      /\ lossSet' \in [Endpoint -> SUBSET Nat] /\ bufferData' \in [Endpoint -> Nat]
      /\ net' \in [Endpoint -> SUBSET Packet]
      /\ \A q \in Endpoint \ {p} :
           /\ cut'[q] = cut[q] /\ sent'[q] = sent[q] /\ cwndMax'[q] = cwndMax[q]
           /\ sendWindow'[q] = sendWindow[q] /\ bufferData'[q] = bufferData[q]
      /\ \A q \in Endpoint \ {p, Peer[p]} : net'[q] = net[q]
      /\ net'[p] \subseteq net[p]
      /\ \A m \in net'[Peer[p]] : m \in net[Peer[p]] \/ GoodFrom(p, m)
      /\ Grows(p)
      /\ SenderOK(p)'
  BY <1>2, SendsKeeps
<1>4. lossMap' \in [Endpoint -> SUBSET Nat] /\ lossMap'[p] = X
      /\ \A q \in Endpoint \ {p} : lossMap'[q] = lossMap[q]
  BY <1>1 DEF TypeOK
<1>5. TypeOK'
  BY <1>1, <1>3, <1>4 DEF TypeOK
<1>6. \A q \in Endpoint \ {p} : SameAt(q)
  BY <1>3, <1>4 DEF SameAt
<1>7. ReceiverOK(p)'
  BY <1>1, <1>3, <1>4, QuietReceiver
<1>8. QED
  BY <1>2, <1>3, <1>5, <1>6, <1>7, Preserve

\* send() keeps the invariant.
LEMMA WriteKeeps ==
  ASSUME IInv, NEW p \in Endpoint, Write(p)
  PROVE  IInv'
<1> DEFINE c == cut[p]
           d == cut'[p]
<1>1. /\ Peer[p] \in Endpoint /\ TypeOK /\ SenderOK(p) /\ SegmentsOK(c)
  BY EndpointAssumption DEF IInv
<1>2. /\ sent[p] \in Nat /\ c \in Seq(Nat) /\ Len(c) \in Nat /\ sent[p] <= Len(c)
      /\ cwndMax[p] = MaxOf(1, sent[p]) /\ firstSeq[Peer[p]] \in Nat
      /\ firstSeq[Peer[p]] <= sent[p] /\ lossSet[p] \in SUBSET Nat /\ bufferData[p] \in Nat
  BY <1>1, TypeAt, LenProperties DEF SenderOK
<1>3. PICK base \in 0..firstSeq[Peer[p]] :
        /\ sendWindow[p] = (base + 1)..sent[p]
        /\ bufferData[p] = Total(c) - Offset(c, base)
  BY <1>1 DEF SenderOK
<1>4. PICK k \in 1..MaxWrite :
        /\ cut' = [cut EXCEPT ![p] = Extend(@, sent[p], k)]
        /\ bufferData' = [bufferData EXCEPT ![p] = @ + k]
  BY DEF Write
<1>5. /\ bufferData[p] < BufferSize
      /\ AttemptSend(p, sendWindow[p], lossSet[p], {}, {})
      /\ UNCHANGED <<recvVars, consumed>>
  BY DEF Write
<1>6. MaxWrite \in Nat /\ BufferSize \in Nat /\ k \in Nat \ {0} /\ k <= MaxWrite
  BY SizeAssumption
<1>7. d = Extend(c, sent[p], k) /\ cut' = [cut EXCEPT ![p] = d]
  BY <1>1, <1>4 DEF TypeOK
<1>8. /\ d \in Seq(Nat) /\ SegmentsOK(d) /\ Len(c) <= Len(d)
      /\ \A i \in 1..sent[p] : d[i] = c[i]
      /\ Total(d) = Total(c) + k
  <2>1. sent[p] \in 0..Len(c)
    BY <1>2
  <2>2. c \in Seq(Nat) /\ SegmentsOK(c) /\ k \in Nat \ {0}
    BY <1>1, <1>2, <1>6
  <2> HIDE DEF c, d
  <2>3. QED
    BY <1>7, <2>1, <2>2, ExtendCuts
<1>9. base \in 0..sent[p] /\ Offset(d, base) = Offset(c, base)
  <2>1. base \in 0..sent[p]
    BY <1>2
  <2>2. base > 0 => d[base] = c[base]
    BY <1>2, <1>8, <2>1
  <2>3. QED
    BY <1>2, <2>1, <2>2 DEF Offset
<1>10. sent[p] <= Len(d)
  BY <1>2, <1>8, LenProperties
<1>11. PICK last \in Nat : Sends(p, base, lossSet[p], {}, last)
  BY <1>1, <1>2, <1>3, <1>5, <1>8, <1>9, <1>10, AttemptSendDoes
<1>12. bufferData[p] + k = Total(d) - Offset(d, base)
  <2>1. Total(c) \in Nat /\ Offset(c, base) \in Nat
    BY SMTT(30), <1>2, <1>9 DEF Total, Offset
  <2>2. QED
    BY <1>3, <1>6, <1>8, <1>9, <2>1
<1>13. bufferData' = [bufferData EXCEPT ![p] = Total(d) - Offset(d, base)]
  BY <1>4, <1>12
<1>14. Total(d) - Offset(d, base) < BufferSize + MaxWrite
  BY <1>2, <1>5, <1>6, <1>12
<1>15. /\ UNCHANGED <<firstSeq, maxSeq, recvWindow, recvData, consumed>>
       /\ lossMap[p] \in SUBSET lossMap[p]
       /\ lossMap' = [lossMap EXCEPT ![p] = lossMap[p]]
  BY <1>1, <1>5 DEF recvVars, TypeOK
<1>16. QED
  BY <1>2, <1>7, <1>8, <1>11, <1>13, <1>14, <1>15, SenderStep

\* What is known of a datagram that reaches p.
LEMMA Arrived ==
  ASSUME IInv, NEW p \in Endpoint, NEW m \in net[p]
  PROVE  /\ m \in Packet /\ AckOf(m) \in Nat /\ AckOf(m) <= firstSeq[Peer[p]]
         /\ m.type = "DATA" => /\ m.seq \in 1..sent[Peer[p]]
                               /\ m.bytes = Bytes(cut[Peer[p]], m.seq)
<1>1. m \in Packet
  BY DEF IInv, TypeOK
<1>2. AckOf(m) \in Nat
  BY <1>1 DEF Packet, AckOf
<1>3. QED
  BY <1>1, <1>2 DEF IInv, PathOK

\* The acknowledgement of a datagram without data.
LEMMA AckKeeps ==
  ASSUME IInv, NEW p \in Endpoint, NEW m \in net[p], NEW L \in SUBSET Nat,
         UNCHANGED <<cut, recvVars, consumed>>, OnAck(p, AckOf(m), L, {m})
  PROVE  IInv'
<1>1. /\ AckOf(m) \in Nat /\ AckOf(m) <= firstSeq[Peer[p]] /\ {m} \in SUBSET net[p]
      /\ cut' = cut
  BY Arrived
<1>2. PICK base \in 0..firstSeq[Peer[p]], X \in SUBSET Nat, last \in Nat :
        /\ Sends(p, base, X, {}, last)
        /\ bufferData' = [bufferData EXCEPT ![p] = Total(cut'[p]) - Offset(cut'[p], base)]
        /\ Total(cut'[p]) - Offset(cut'[p], base) < BufferSize + MaxWrite
  BY <1>1, OnAckDoes
<1>3. /\ cut' = [cut EXCEPT ![p] = cut'[p]] /\ cut'[p] \in Seq(Nat) /\ SegmentsOK(cut'[p])
      /\ \A i \in 1..sent[p] : cut'[p][i] = cut[p][i]
  BY <1>1 DEF IInv, TypeOK
<1>4. /\ UNCHANGED <<firstSeq, maxSeq, recvWindow, recvData, consumed>>
      /\ lossMap[p] \in SUBSET lossMap[p]
      /\ lossMap' = [lossMap EXCEPT ![p] = lossMap[p]]
  BY DEF recvVars, IInv, TypeOK
<1>5. QED
  BY <1>2, <1>3, <1>4, SenderStep

\* process_data_ack() keeps the invariant.
LEMMA ReceiveAckKeeps ==
  ASSUME IInv, NEW p \in Endpoint, NEW m \in net[p], ReceiveAck(p, m)
  PROVE  IInv'
<1>1. AckOf(m) = m.ack /\ lossSet[p] \in SUBSET Nat
  BY DEF ReceiveAck, AckOf, IInv, TypeOK
<1>2. QED
  BY <1>1, AckKeeps DEF ReceiveAck

\* process_data_nack() keeps the invariant.
LEMMA ReceiveNackKeeps ==
  ASSUME IInv, NEW p \in Endpoint, NEW m \in net[p], ReceiveNack(p, m)
  PROVE  IInv'
<1>1. m.type = "NACK" /\ AckOf(m) = m.base
  BY DEF ReceiveNack, AckOf
<1>2. m.lost \in SUBSET Nat
  BY <1>1, Arrived DEF Packet
<1>3. lossSet[p] \cup {s \in m.lost : s < cwndMax[p]} \in SUBSET Nat
  BY <1>2 DEF IInv, TypeOK
<1>4. QED
  BY <1>1, <1>3, AckKeeps DEF ReceiveNack

\* The timers of both buffers keep the invariant: they acknowledge and report
\* only what is true at that moment.
LEMMA HeartbeatKeeps ==
  ASSUME IInv, NEW p \in Endpoint, Heartbeat(p)
  PROVE  IInv'
<1> DEFINE c == cut[p]
<1>1. /\ Peer[p] \in Endpoint /\ TypeOK /\ SenderOK(p) /\ SegmentsOK(c)
  BY EndpointAssumption DEF IInv
<1>2. /\ UNCHANGED <<cut, bufferData, firstSeq, maxSeq, recvWindow, recvData, consumed>>
  BY DEF Heartbeat
<1>3. PICK late \in SUBSET lossMap[p], X \in SUBSET lossMap[p], ackDue \in BOOLEAN :
        /\ lossMap' = [lossMap EXCEPT ![p] = X]
        /\ AttemptSend(p, sendWindow[p], lossSet[p], {},
             (IF late # {} THEN {Nack(firstSeq[p], late)} ELSE {})
               \cup (IF ackDue THEN {Ack(firstSeq[p])} ELSE {}))
  <2> DEFINE live == {s \in lossMap[p] : s > firstSeq[p]}
  <2>1. PICK late \in SUBSET live, ackDue \in BOOLEAN :
          /\ lossMap' = [lossMap EXCEPT ![p] = live \ late]
          /\ AttemptSend(p, sendWindow[p], lossSet[p], {},
               (IF late # {} THEN {Nack(firstSeq[p], late)} ELSE {})
                 \cup (IF ackDue THEN {Ack(firstSeq[p])} ELSE {}))
    BY DEF Heartbeat
  <2>2. late \in SUBSET lossMap[p] /\ live \ late \in SUBSET lossMap[p]
    OBVIOUS
  <2>3. QED
    BY <2>1, <2>2
<1> DEFINE out == (IF late # {} THEN {Nack(firstSeq[p], late)} ELSE {})
                    \cup (IF ackDue THEN {Ack(firstSeq[p])} ELSE {})
<1>4. out \in SUBSET Packet /\ \A m \in out : m.type # "DATA" /\ AckOf(m) <= firstSeq[p]
  <2>1. firstSeq[p] \in Nat /\ late \in SUBSET Nat
    BY <1>1, <1>3, TypeAt
  <2>2. Nack(firstSeq[p], late) \in Packet /\ Ack(firstSeq[p]) \in Packet
    BY <2>1 DEF Nack, Ack, Packet
  <2>3. /\ Nack(firstSeq[p], late).type # "DATA" /\ AckOf(Nack(firstSeq[p], late)) <= firstSeq[p]
        /\ Ack(firstSeq[p]).type # "DATA" /\ AckOf(Ack(firstSeq[p])) <= firstSeq[p]
    BY <2>1 DEF Nack, Ack, AckOf
  <2>4. QED
    BY <2>2, <2>3
<1>5. /\ sent[p] \in Nat /\ c \in Seq(Nat) /\ Len(c) \in Nat /\ sent[p] <= Len(c)
      /\ cwndMax[p] = MaxOf(1, sent[p]) /\ firstSeq[Peer[p]] \in Nat
      /\ firstSeq[Peer[p]] <= sent[p] /\ lossSet[p] \in SUBSET Nat
      /\ bufferData[p] < BufferSize + MaxWrite
  BY <1>1, TypeAt, LenProperties DEF SenderOK
<1>6. PICK base \in 0..firstSeq[Peer[p]] :
        /\ sendWindow[p] = (base + 1)..sent[p]
        /\ bufferData[p] = Total(c) - Offset(c, base)
  BY <1>1 DEF SenderOK
<1>7. base \in 0..sent[p] /\ AttemptSend(p, (base + 1)..sent[p], lossSet[p], {}, out)
  BY <1>3, <1>5, <1>6
<1> HIDE DEF out
<1>8. PICK last \in Nat : Sends(p, base, lossSet[p], out, last)
  BY <1>1, <1>2, <1>5, <1>7, AttemptSendDoes
<1>9. /\ cut' = [cut EXCEPT ![p] = cut'[p]] /\ cut'[p] \in Seq(Nat) /\ SegmentsOK(cut'[p])
      /\ \A i \in 1..sent[p] : cut'[p][i] = cut[p][i]
  BY <1>1, <1>2 DEF TypeOK
<1>10. /\ bufferData' = [bufferData EXCEPT ![p] = Total(cut'[p]) - Offset(cut'[p], base)]
       /\ Total(cut'[p]) - Offset(cut'[p], base) < BufferSize + MaxWrite
  BY <1>1, <1>2, <1>5, <1>6 DEF TypeOK
<1>11. QED
  BY <1>2, <1>3, <1>4, <1>5, <1>8, <1>9, <1>10, SenderStep

\* The receive buffer of p is well formed in the next state, the others as before.
Receives(p) ==
  /\ firstSeq' \in [Endpoint -> Nat] /\ maxSeq' \in [Endpoint -> Nat]
  /\ recvWindow' = [q \in Endpoint |-> recvWindow'[q]]
  /\ \A q \in Endpoint : /\ DOMAIN recvWindow'[q] \subseteq Nat
                         /\ recvWindow'[q] \in [DOMAIN recvWindow'[q] -> Payload]
  /\ lossMap' \in [Endpoint -> SUBSET Nat] /\ recvData' \in [Endpoint -> Seq(Payload)]
  /\ \A q \in Endpoint \ {p} :
       /\ firstSeq'[q] = firstSeq[q] /\ maxSeq'[q] = maxSeq[q]
       /\ recvWindow'[q] = recvWindow[q] /\ lossMap'[q] = lossMap[q]
       /\ recvData'[q] = recvData[q]
  /\ firstSeq[p] <= firstSeq'[p]
  /\ ReceiverOK(p)'

\* on_data(): what the receiver holds remains a part of the stream as it was
\* cut, with the next bytes to read at its head.
LEMMA OnDataDoes ==
  ASSUME IInv, NEW p \in Endpoint, NEW m \in net[p], m.type = "DATA",
         OnData(p, m.seq, m.bytes),
         cut'[Peer[p]] = cut[Peer[p]], sent'[Peer[p]] = sent[Peer[p]], consumed' = consumed
  PROVE  Receives(p)
<1> DEFINE c == cut[Peer[p]]
           S == sent[Peer[p]]
           seq == m.seq
           f == firstSeq[p]
           W == recvWindow[p]
           n == Len(consumed[p])
           L == Len(recvData[p])
           done == f - L
<1>1. /\ Peer[p] \in Endpoint /\ Peer[p] # p /\ TypeOK /\ ReceiverOK(p)
      /\ SenderOK(Peer[p]) /\ SegmentsOK(c)
  BY EndpointAssumption DEF IInv
<1>2. /\ f \in Nat /\ maxSeq[p] \in Nat /\ S \in Nat /\ n \in Nat /\ L \in Nat
      /\ c \in Seq(Nat) /\ Len(c) \in Nat /\ S <= Len(c)
      /\ DOMAIN W \subseteq Nat /\ W \in [DOMAIN W -> Payload]
      /\ lossMap[p] \in SUBSET Nat /\ recvData[p] \in Seq(Payload)
      /\ SeqInterval \in Nat
  BY <1>1, TypeAt, LenProperties, IntervalAssumption DEF SenderOK
<1>3. done \in Nat /\ done + L = f /\ f <= maxSeq[p] /\ maxSeq[p] <= S
  BY <1>1, <1>2, ReceiverBounds
<1>4. seq \in 1..S /\ m.bytes = Bytes(c, seq) /\ seq \in Nat
  BY Arrived, <1>2
<1>5. \A s \in 1..S : c[s] \in Nat /\ Offset(c, s - 1) \in Nat /\ Bytes(c, s) \in Payload
  <2>1. TAKE s \in 1..S
  <2>2. s \in 1..Len(c) /\ (s # 1 => s - 1 \in 1..Len(c))
    BY <1>2
  <2>3. c[s] \in Nat /\ (s # 1 => c[s - 1] \in Nat)
    BY <1>2, <2>2, ElementOfSeq
  <2>4. Offset(c, s - 1) \in Nat
    BY <2>2, <2>3 DEF Offset
  <2>5. QED
    BY <2>3, <2>4 DEF Bytes, Payload
<1>6. \A s \in DOMAIN W : f + 1 < s /\ s <= maxSeq[p] /\ W[s] = Bytes(c, s)
  BY <1>1 DEF ReceiverOK
<1>7. \A s \in lossMap[p] : f < s /\ s < maxSeq[p] /\ s \notin DOMAIN W
  BY <1>1 DEF ReceiverOK
<1>8. CASE UNCHANGED recvVars
  <2>1. UNCHANGED <<firstSeq, maxSeq, recvWindow, lossMap, recvData>>
    BY <1>8 DEF recvVars
  <2>2. ReceiverOK(p)'
    BY <2>1, QuietReceiver
  <2>3. /\ firstSeq' \in [Endpoint -> Nat] /\ maxSeq' \in [Endpoint -> Nat]
        /\ recvWindow' = [q \in Endpoint |-> recvWindow'[q]]
        /\ \A q \in Endpoint : /\ DOMAIN recvWindow'[q] \subseteq Nat
                               /\ recvWindow'[q] \in [DOMAIN recvWindow'[q] -> Payload]
        /\ lossMap' \in [Endpoint -> SUBSET Nat] /\ recvData' \in [Endpoint -> Seq(Payload)]
    BY <1>1, <2>1 DEF TypeOK
  <2>4. firstSeq[p] <= firstSeq'[p]
    BY <1>2, <2>1
  <2>5. QED
    BY <2>1, <2>2, <2>3, <2>4 DEF Receives
<1>9. CASE seq = f + 1 /\ ~(seq > f + SeqInterval)
  <2>1. PICK last \in {seq} \cup DOMAIN W :
          /\ IsRunEnd(W, seq, last)
          /\ firstSeq' = [firstSeq EXCEPT ![p] = last]
          /\ recvData' = [recvData EXCEPT ![p] =
               Append(@, m.bytes) \o [i \in 1..(last - seq) |-> recvWindow[p][seq + i]]]
          /\ recvWindow' = [recvWindow EXCEPT ![p] =
               [s \in DOMAIN @ \ (seq + 1)..last |-> @[s]]]
          /\ lossMap' = [lossMap EXCEPT ![p] = @ \ {seq}]
          /\ maxSeq' = [maxSeq EXCEPT ![p] = MaxOf(@, seq)]
    <3>1. /\ m.seq = firstSeq[p] + 1 /\ ~(m.seq > firstSeq[p] + SeqInterval)
          /\ ~(m.seq > firstSeq[p] + 1)
      BY <1>2, <1>9
    <3>2. QED
      BY <3>1 DEF OnData, Missed
  <2> DEFINE more == [i \in 1..(last - seq) |-> W[seq + i]]
             R == Append(recvData[p], m.bytes) \o more
             V == [s \in DOMAIN W \ (seq + 1)..last |-> W[s]]
             top == MaxOf(maxSeq[p], seq)
  <2>2. /\ firstSeq' = [firstSeq EXCEPT ![p] = last] /\ recvData' = [recvData EXCEPT ![p] = R]
        /\ recvWindow' = [recvWindow EXCEPT ![p] = V]
        /\ lossMap' = [lossMap EXCEPT ![p] = lossMap[p] \ {seq}]
        /\ maxSeq' = [maxSeq EXCEPT ![p] = top]
    BY <2>1
  <2>3. /\ last \in Nat /\ last >= seq /\ (seq + 1)..last \subseteq DOMAIN W
        /\ last + 1 \notin DOMAIN W
    BY <1>2, <1>4, <2>1 DEF IsRunEnd
  <2>4. last = seq \/ last \in DOMAIN W
    BY <2>1
  <2> HIDE DEF c, S, seq, f, W, n, L, done
  <2>5. last <= top /\ top <= S /\ top \in Nat /\ last <= S /\ seq <= top /\ maxSeq[p] <= top
    <3>1. last = seq \/ last <= maxSeq[p]
      BY <1>6, <2>4
    <3>2. /\ last \in Nat /\ seq \in Nat /\ maxSeq[p] \in Nat /\ S \in Nat
          /\ seq <= last /\ seq <= S /\ maxSeq[p] <= S
      BY <1>2, <1>3, <1>4, <2>3
    <3>3. QED
      BY <3>1, <3>2 DEF MaxOf
  <2>a. /\ f \in Nat /\ seq \in Nat /\ last \in Nat /\ S \in Nat /\ L \in Nat /\ done \in Nat
        /\ n \in Nat /\ top \in Nat /\ Len(c) \in Nat
        /\ seq = f + 1 /\ seq <= last /\ last <= top /\ top <= S /\ S <= Len(c)
        /\ done + L = f /\ maxSeq[p] <= top /\ seq <= top /\ maxSeq[p] \in Nat
    BY <1>2, <1>3, <1>4, <1>9, <2>3, <2>5
  <2>6. \A i \in 1..(last - seq) : W[seq + i] = Bytes(c, seq + i) /\ seq + i \in 1..S
    <3>1. TAKE i \in 1..(last - seq)
    <3>2. seq + i \in (seq + 1)..last /\ seq + i \in 1..S
      BY <2>a
    <3>3. QED
      BY <1>6, <2>3, <3>2
  <2>7. /\ more \in Seq(Payload) /\ Len(more) = last - seq
        /\ \A i \in 1..(last - seq) : more[i] = Bytes(c, seq + i)
    <3>1. last - seq \in Nat
      BY <1>4, <2>3
    <3>2. more \in [1..(last - seq) -> Payload]
      BY <1>5, <2>6
    <3>3. \A i \in 1..(last - seq) : more[i] = Bytes(c, seq + i)
      BY <2>6
    <3> HIDE DEF more
    <3>4. QED
      BY <3>1, <3>2, <3>3
  <2>8. last - seq \in Nat /\ last - f = 1 + (last - seq) /\ f + 1 = seq
    BY <2>a
  <2>9. recvData[p] \in Seq(Payload) /\ Len(recvData[p]) = L
    BY <1>2 DEF L
  <2> HIDE DEF more, top
  <2>10. /\ R \in Seq(Payload) /\ Len(R) = L + (last - f)
         /\ \A i \in 1..L : R[i] = recvData[p][i]
         /\ \A i \in 1..(last - f) : R[L + i] = Bytes(c, f + i)
    <3> DEFINE A == Append(recvData[p], m.bytes)
    <3>1. /\ A \in Seq(Payload) /\ Len(A) = L + 1 /\ A[L + 1] = Bytes(c, seq)
          /\ \A i \in 1..L : A[i] = recvData[p][i]
      BY <1>4, <1>5, <2>9, AppendProperties
    <3> HIDE DEF A
    <3>2. /\ A \o more \in Seq(Payload)
          /\ Len(A \o more) = Len(A) + Len(more)
          /\ \A i \in 1..(Len(A) + Len(more)) :
               (A \o more)[i] = IF i <= Len(A) THEN A[i] ELSE more[i - Len(A)]
      BY <2>7, <3>1, ConcatProperties
    <3>3. ASSUME NEW i \in 1..L PROVE (A \o more)[i] = recvData[p][i]
      BY <1>2, <2>7, <2>8, <3>1, <3>2
    <3>4. ASSUME NEW i \in 1..(last - f) PROVE (A \o more)[L + i] = Bytes(c, f + i)
      <4>1. CASE i = 1
        <5>1. L + 1 \in 1..(Len(A) + Len(more)) /\ L + 1 <= Len(A)
          BY <1>2, <2>7, <2>8, <3>1
        <5>2. QED
          BY <2>8, <3>1, <3>2, <4>1, <5>1
      <4>2. CASE i > 1
        <5>1. i - 1 \in 1..(last - seq) /\ seq + (i - 1) = f + i /\ (L + i) - (L + 1) = i - 1
          BY <2>a, <4>2
        <5>2. L + i \in 1..(Len(A) + Len(more)) /\ ~(L + i <= Len(A))
          <6>1. Len(A) = L + 1 /\ Len(more) = last - seq
            BY <2>7, <3>1
          <6>2. L + i \in 1..(L + 1 + (last - seq)) /\ ~(L + i <= L + 1)
            BY <2>a, <4>2
          <6>3. QED
            BY <6>1, <6>2
        <5>3. (A \o more)[L + i] = more[i - 1]
          BY <3>1, <3>2, <5>1, <5>2
        <5>4. QED
          BY <2>7, <5>1, <5>3
      <4>3. i = 1 \/ i > 1
        BY <2>a, <3>4
      <4>4. QED
        BY <4>1, <4>2, <4>3
    <3>5. Len(A \o more) = L + (last - f)
      BY <1>2, <2>7, <2>8, <3>1, <3>2
    <3>6. QED
      BY <3>2, <3>3, <3>4, <3>5 DEF A
  <2> HIDE DEF R, V
  <2>11. /\ firstSeq'[p] = last /\ recvData'[p] = R /\ recvWindow'[p] = V
         /\ lossMap'[p] = lossMap[p] \ {seq} /\ maxSeq'[p] = top
         /\ \A q \in Endpoint \ {p} :
              /\ firstSeq'[q] = firstSeq[q] /\ maxSeq'[q] = maxSeq[q]
              /\ recvWindow'[q] = recvWindow[q] /\ lossMap'[q] = lossMap[q]
              /\ recvData'[q] = recvData[q]
    BY <1>1, <2>2 DEF TypeOK
  <2>12. DOMAIN V \subseteq DOMAIN W /\ V \in [DOMAIN V -> Payload]
         /\ \A s \in DOMAIN V : s \in DOMAIN W /\ s \notin (seq + 1)..last /\ V[s] = W[s]
    BY <1>2 DEF V
  <2>13. /\ firstSeq' \in [Endpoint -> Nat] /\ maxSeq' \in [Endpoint -> Nat]
         /\ lossMap' \in [Endpoint -> SUBSET Nat] /\ recvData' \in [Endpoint -> Seq(Payload)]
    BY <1>1, <2>2, <2>3, <2>5, <2>10 DEF TypeOK
  <2>14. /\ recvWindow' = [q \in Endpoint |-> recvWindow'[q]]
         /\ \A q \in Endpoint : /\ DOMAIN recvWindow'[q] \subseteq Nat
                                /\ recvWindow'[q] \in [DOMAIN recvWindow'[q] -> Payload]
    <3>1. recvWindow' = [q \in Endpoint |-> recvWindow'[q]]
      BY <1>1, <2>2 DEF TypeOK
    <3>2. ASSUME NEW q \in Endpoint
          PROVE  /\ DOMAIN recvWindow'[q] \subseteq Nat
                 /\ recvWindow'[q] \in [DOMAIN recvWindow'[q] -> Payload]
      <4>1. CASE q = p
        BY <1>2, <2>11, <2>12, <4>1
      <4>2. CASE q # p
        BY <1>1, <2>11, <4>2, TypeAt
      <4>3. QED
        BY <4>1, <4>2
    <3>3. QED
      BY <3>1, <3>2
  <2>15. last - Len(R) = done /\ done + (L + (last - f)) = last
    BY <2>a, <2>10
  <2>16. \A s \in DOMAIN V : last + 1 < s /\ s <= top /\ V[s] = Bytes(c, s)
    <3>1. TAKE s \in DOMAIN V
    <3>2. /\ s \in DOMAIN W /\ s \notin (seq + 1)..last /\ V[s] = W[s] /\ s \in Nat
      BY <1>2, <2>12
    <3>3. f + 1 < s /\ s <= maxSeq[p] /\ W[s] = Bytes(c, s)
      BY <1>6, <3>2
    <3>4. s # last + 1
      BY <2>3, <3>2
    <3>5. last + 1 < s
      BY <2>a, <3>2, <3>3, <3>4
    <3>6. QED
      BY <1>2, <2>5, <3>2, <3>3, <3>5
  <2>17. \A i \in 1..Len(R) : /\ R[i].hi = c[done + i]
                              /\ R[i].lo = 1 + (IF i = 1 THEN n ELSE c[done + i - 1])
    <3>1. TAKE i \in 1..Len(R)
    <3>2. CASE i <= L
      <4>1. i \in 1..L /\ R[i] = recvData[p][i]
        BY <1>2, <2>10, <3>2
      <4>2. /\ recvData[p][i].hi = c[done + i]
            /\ recvData[p][i].lo = 1 + (IF i = 1 THEN n ELSE c[done + i - 1])
        BY <1>1, <4>1 DEF ReceiverOK, L, done, n, c, f
      <4>3. QED
        BY <4>1, <4>2
    <3>3. CASE i > L
      <4>1. PICK j \in Nat : j = done + i
        BY <2>a, <2>10
      <4>2. /\ i - L \in 1..(last - f) /\ L + (i - L) = i /\ f + (i - L) = j
            /\ j \in 1..S /\ (i = 1 => L = 0 /\ j - 1 = done) /\ (i # 1 => j - 1 # 0)
        <5>1. i \in 1..(L + (last - f))
          BY <2>10
        <5>2. QED
          BY <2>a, <3>3, <4>1, <5>1
      <4>3. R[i] = Bytes(c, j)
        BY <2>10, <4>2
      <4>4. R[i].hi = c[j] /\ R[i].lo = Offset(c, j - 1) + 1
        BY <4>3 DEF Bytes
      <4>5. Offset(c, j - 1) \in Nat
        BY <1>5, <4>2
      <4>6. Offset(c, j - 1) = IF i = 1 THEN n ELSE c[j - 1]
        <5>1. CASE i = 1
          <6>1. recvData[p] = <<>>
            BY <2>9, <4>2, <5>1
          <6>2. n = Offset(c, done)
            BY <1>1, <6>1 DEF ReceiverOK, n, c, f, done, L
          <6>3. QED
            BY <4>2, <5>1, <6>2
        <5>2. CASE i # 1
          BY <4>2, <5>2 DEF Offset
        <5>3. QED
          BY <5>1, <5>2
      <4>7. R[i].lo = 1 + (IF i = 1 THEN n ELSE c[j - 1])
        BY <4>4, <4>5, <4>6
      <4>8. c[done + i] = c[j] /\ c[done + i - 1] = c[j - 1]
        <5>1. done + i - 1 = j - 1
          BY <2>a, <4>1, <4>2
        <5>2. QED
          BY ONLY <4>1, <5>1
      <4>9. QED
        BY <4>4, <4>7, <4>8
    <3>4. QED
      BY <1>2, <2>8, <2>10, <3>2, <3>3
  <2>18. Offset(c, done) <= n /\ consumed[p] = [i \in 1..n |-> i]
    BY <1>1 DEF ReceiverOK, n, c, f, done, L
  <2>19. R # <<>> /\ n < c[done + 1]
    <3>1. R # <<>>
      <4>1. Len(R) > 0
        BY <2>a, <2>10
      <4>2. QED
        BY <2>10, <4>1, EmptySeq
    <3>2. CASE L > 0
      <4>1. recvData[p] # <<>>
        BY <2>9, <3>2
      <4>2. n < c[done + 1]
        BY <1>1, <4>1 DEF ReceiverOK, n, c, f, done, L
      <4>3. QED
        BY <3>1, <4>2
    <3>3. CASE L = 0
      <4>1. n = Offset(c, done)
        <5>1. recvData[p] = <<>>
          BY <2>9, <3>3
        <5>2. QED
          BY <1>1, <5>1 DEF ReceiverOK, n, c, f, done, L
      <4>2. done \in 0..Len(c) /\ done + 1 \in 0..Len(c) /\ done < done + 1 /\ done + 1 \in 1..S
        BY <2>a, <3>3
      <4>3. Offset(c, done + 1) - Offset(c, done) >= (done + 1) - done
        BY <1>1, <4>2 DEF SegmentsOK, c
      <4>4. Offset(c, done + 1) = c[done + 1] /\ c[done + 1] \in Nat
        BY <2>a, <1>5, <4>2 DEF Offset
      <4>5. Offset(c, done) \in Nat
        BY <2>a, <4>1
      <4>6. QED
        BY SMTT(30), <2>a, <3>1, <4>1, <4>3, <4>4, <4>5
    <3>4. QED
      BY <2>a, <3>1, <3>2, <3>3
  <2>20. \A s \in lossMap'[p] : last < s /\ s < top /\ s \notin DOMAIN V
    <3>1. TAKE s \in lossMap'[p]
    <3>2. s \in lossMap[p] /\ s # seq /\ s \in Nat
      BY <1>2, <2>11
    <3>3. f < s /\ s < maxSeq[p] /\ s \notin DOMAIN W
      BY <1>7, <3>2
    <3>4. s \notin (seq + 1)..last
      BY <2>3, <3>3
    <3>5. QED
      <4>1. last < s
        BY <2>a, <3>2, <3>3, <3>4
      <4>2. s < top
        BY <2>a, <3>2, <3>3
      <4>3. QED
        BY <2>12, <3>3, <4>1, <4>2
  <2>21. ReceiverOK(p)'
    <3>1. Len(consumed'[p]) = n /\ consumed'[p] = consumed[p] /\ cut'[Peer[p]] = c
          /\ sent'[Peer[p]] = S
      BY DEF n, c, S
    <3>2. /\ firstSeq'[p] <= maxSeq'[p] /\ maxSeq'[p] <= sent'[Peer[p]]
          /\ firstSeq'[p] - Len(recvData'[p]) = done /\ done >= 0
      BY <1>3, <2>5, <2>11, <2>15, <3>1
    <3>3. QED
      BY <2>11, <2>16, <2>17, <2>18, <2>19, <2>20, <3>1, <3>2 DEF ReceiverOK
  <2>22. firstSeq[p] <= firstSeq'[p]
    BY <1>2, <1>4, <2>3, <2>8, <2>11, SMTT(60) DEF f
  <2>23. QED
    BY <2>11, <2>13, <2>14, <2>21, <2>22 DEF Receives
<1>10. CASE seq > f + 1 /\ seq <= f + SeqInterval
  <2> DEFINE V == [s \in DOMAIN W \cup {seq} |-> IF s \in DOMAIN W THEN W[s] ELSE m.bytes]
             top == MaxOf(maxSeq[p], seq)
             lost == IF seq > maxSeq[p] + 1 THEN lossMap[p] \cup (maxSeq[p] + 1)..(seq - 1)
                     ELSE lossMap[p] \ {seq}
  <2>1. /\ recvWindow' = [recvWindow EXCEPT ![p] = V]
        /\ lossMap' = [lossMap EXCEPT ![p] = lost]
        /\ maxSeq' = [maxSeq EXCEPT ![p] = top]
        /\ UNCHANGED <<firstSeq, recvData>>
    <3>1. /\ m.seq > firstSeq[p] + 1 /\ m.seq <= firstSeq[p] + SeqInterval
          /\ ~(m.seq > firstSeq[p] + SeqInterval) /\ m.seq # firstSeq[p] + 1
      BY <1>2, <1>4, <1>10
    <3>2. QED
      BY <3>1 DEF OnData, Missed
  <2> HIDE DEF c, S, seq, f, W, n, L, done
  <2>2. /\ DOMAIN V = DOMAIN W \cup {seq} /\ V \in [DOMAIN V -> Payload]
        /\ \A s \in DOMAIN V : V[s] = Bytes(c, s)
    BY <1>2, <1>4, <1>5, <1>6
  <2>3. /\ top \in Nat /\ maxSeq[p] <= top /\ seq <= top /\ top <= S
    BY <1>2, <1>3, <1>4 DEF MaxOf
  <2>4. \A s \in lost : s \in Nat /\ f < s /\ s < top /\ s \notin DOMAIN V
    <3>1. TAKE s \in lost
    <3>2. CASE s \in lossMap[p] /\ s # seq
      <4>1. f < s /\ s < maxSeq[p] /\ s \notin DOMAIN W /\ s \in Nat
        BY <1>2, <1>7, <3>2
      <4>2. s < top
        BY <1>2, <2>3, <4>1
      <4>3. QED
        BY <2>2, <3>2, <4>1, <4>2
    <3>3. CASE seq > maxSeq[p] + 1 /\ s \in (maxSeq[p] + 1)..(seq - 1)
      <4>1. s \in Nat /\ maxSeq[p] < s /\ s < seq
        BY SMTT(30), <1>2, <1>4, <3>3
      <4>2. s \notin DOMAIN W
        BY <1>2, <1>6, <4>1
      <4>3. f < s /\ s < top /\ s # seq
        <5>1. f <= maxSeq[p] /\ f \in Nat /\ maxSeq[p] \in Nat /\ seq \in Nat /\ top \in Nat
              /\ seq <= top
          BY <1>2, <1>3, <1>4, <2>3
        <5> HIDE DEF top
        <5>2. QED
          BY <4>1, <5>1
      <4>4. QED
        BY <2>2, <4>1, <4>2, <4>3
    <3>4. seq > maxSeq[p] + 1 => seq \notin lossMap[p]
      BY SMTT(30), <1>2, <1>4, <1>7
    <3>5. QED
      BY <3>1, <3>2, <3>3, <3>4
  <2> HIDE DEF V, top, lost
  <2>5. /\ firstSeq'[p] = f /\ recvData'[p] = recvData[p] /\ recvWindow'[p] = V
        /\ lossMap'[p] = lost /\ maxSeq'[p] = top
        /\ \A q \in Endpoint \ {p} :
             /\ firstSeq'[q] = firstSeq[q] /\ maxSeq'[q] = maxSeq[q]
             /\ recvWindow'[q] = recvWindow[q] /\ lossMap'[q] = lossMap[q]
             /\ recvData'[q] = recvData[q]
    BY <1>1, <2>1 DEF TypeOK, f
  <2>6. /\ firstSeq' \in [Endpoint -> Nat] /\ maxSeq' \in [Endpoint -> Nat]
        /\ lossMap' \in [Endpoint -> SUBSET Nat] /\ recvData' \in [Endpoint -> Seq(Payload)]
    <3>1. lost \in SUBSET Nat
      BY <2>4
    <3>2. QED
      BY <1>1, <2>1, <2>3, <3>1 DEF TypeOK
  <2>7. /\ recvWindow' = [q \in Endpoint |-> recvWindow'[q]]
        /\ \A q \in Endpoint : /\ DOMAIN recvWindow'[q] \subseteq Nat
                               /\ recvWindow'[q] \in [DOMAIN recvWindow'[q] -> Payload]
    <3>1. recvWindow' = [q \in Endpoint |-> recvWindow'[q]]
      BY <1>1, <2>1 DEF TypeOK
    <3>2. ASSUME NEW q \in Endpoint
          PROVE  /\ DOMAIN recvWindow'[q] \subseteq Nat
                 /\ recvWindow'[q] \in [DOMAIN recvWindow'[q] -> Payload]
      <4>1. CASE q = p
        BY <1>2, <1>4, <2>2, <2>5, <4>1
      <4>2. CASE q # p
        BY <1>1, <2>5, <4>2, TypeAt
      <4>3. QED
        BY <4>1, <4>2
    <3>3. QED
      BY <3>1, <3>2
  <2>8. \A s \in DOMAIN V : f + 1 < s /\ s <= top
    <3>1. TAKE s \in DOMAIN V
    <3>2. CASE s = seq
      BY <1>10, <2>3, <3>2
    <3>3. CASE s \in DOMAIN W
      BY <1>2, <1>6, <2>3, <3>3
    <3>4. QED
      BY <2>2, <3>2, <3>3
  <2>9. ReceiverOK(p)'
    <3>1. /\ Len(consumed'[p]) = n /\ consumed'[p] = consumed[p] /\ cut'[Peer[p]] = c
          /\ sent'[Peer[p]] = S
      BY DEF n, c, S
    <3>2. /\ firstSeq'[p] <= maxSeq'[p] /\ maxSeq'[p] <= sent'[Peer[p]]
          /\ firstSeq'[p] - Len(recvData'[p]) = done /\ done >= 0
      <4>1. f <= top
        BY <1>2, <1>3, <2>3
      <4>2. QED
        BY <1>3, <2>3, <2>5, <3>1, <4>1 DEF done, L
    <3>3. /\ \A i \in 1..L :
               /\ recvData[p][i].hi = c[done + i]
               /\ recvData[p][i].lo = 1 + (IF i = 1 THEN n ELSE c[done + i - 1])
          /\ Offset(c, done) <= n
          /\ IF recvData[p] = <<>> THEN n = Offset(c, done) ELSE n < c[done + 1]
          /\ consumed[p] = [i \in 1..n |-> i]
          /\ Len(recvData[p]) = L
      BY <1>1 DEF ReceiverOK, n, c, f, done, L
    <3>4. QED
      BY <2>2, <2>4, <2>5, <2>8, <3>1, <3>2, <3>3 DEF ReceiverOK
  <2>10. firstSeq[p] <= firstSeq'[p]
    BY <1>2, <2>5 DEF f
  <2>11. QED
    BY <2>5, <2>6, <2>7, <2>9, <2>10 DEF Receives
<1>11. QED
  <2>1. \/ seq > f + SeqInterval
        \/ seq = f + 1 /\ ~(seq > f + SeqInterval)
        \/ ~(seq > f + SeqInterval) /\ seq <= f
        \/ seq > f + 1 /\ seq <= f + SeqInterval
    <3>1. f \in Nat /\ seq \in Nat /\ SeqInterval \in Nat
      BY <1>2, <1>4
    <3> HIDE DEF f, seq
    <3>2. QED
      BY <3>1
  <2>2. CASE seq > f + SeqInterval
    <3>1. SeqInterval >= 1
      BY SizeAssumption, IntervalAssumption
    <3>2. /\ m.seq > firstSeq[p] + SeqInterval /\ m.seq # firstSeq[p] + 1
          /\ ~(m.seq <= firstSeq[p] + SeqInterval)
      BY <1>2, <1>4, <2>2, <3>1
    <3>3. QED
      BY <1>8, <3>2 DEF OnData, Missed
  <2>3. CASE ~(seq > f + SeqInterval) /\ seq <= f
    <3>1. /\ ~(m.seq > firstSeq[p] + SeqInterval) /\ m.seq # firstSeq[p] + 1
          /\ ~(m.seq > firstSeq[p] + 1)
      BY <1>2, <1>4, <2>3
    <3>2. QED
      BY <1>8, <3>1 DEF OnData, Missed
  <2>4. f \in Nat /\ seq \in Nat /\ SeqInterval \in Nat
    BY <1>2, <1>4
  <2> HIDE DEF f, seq
  <2>5. QED
    BY <1>9, <1>10, <2>1, <2>2, <2>3, <2>4

\* process_data() keeps the invariant.
LEMMA ReceiveDataKeeps ==
  ASSUME IInv, NEW p \in Endpoint, NEW m \in net[p], ReceiveData(p, m)
  PROVE  IInv'
<1>1. /\ m.type = "DATA" /\ cut' = cut /\ consumed' = consumed
      /\ OnAck(p, m.ack, lossSet[p], {m}) /\ OnData(p, m.seq, m.bytes)
  BY DEF ReceiveData
<1>2. /\ Peer[p] \in Endpoint /\ Peer[p] # p /\ TypeOK /\ AckOf(m) = m.ack
  BY <1>1, EndpointAssumption DEF IInv, AckOf
<1>3. /\ m.ack \in Nat /\ m.ack <= firstSeq[Peer[p]] /\ {m} \in SUBSET net[p]
      /\ lossSet[p] \in SUBSET Nat
  BY <1>2, Arrived, TypeAt
<1>4. PICK base \in 0..firstSeq[Peer[p]], X \in SUBSET Nat, last \in Nat :
        /\ Sends(p, base, X, {}, last)
        /\ bufferData' = [bufferData EXCEPT ![p] = Total(cut'[p]) - Offset(cut'[p], base)]
        /\ Total(cut'[p]) - Offset(cut'[p], base) < BufferSize + MaxWrite
  BY <1>1, <1>3, OnAckDoes
<1>5. sent'[Peer[p]] = sent[Peer[p]]
  BY <1>2, <1>4 DEF Sends, TypeOK
<1>6. Receives(p)
  BY <1>1, <1>5, OnDataDoes
<1>7. firstSeq'[p] \in Nat /\ firstSeq[p] <= firstSeq'[p] /\ firstSeq'[Peer[p]] = firstSeq[Peer[p]]
  BY <1>2, <1>6 DEF Receives
<1>8. /\ cut' = [cut EXCEPT ![p] = cut'[p]] /\ cut'[p] \in Seq(Nat) /\ SegmentsOK(cut'[p])
      /\ \A i \in 1..sent[p] : cut'[p][i] = cut[p][i]
  BY <1>1 DEF IInv, TypeOK
<1>9. /\ cut' \in [Endpoint -> Seq(Nat)] /\ sent' \in [Endpoint -> Nat]
      /\ cwndMax' \in [Endpoint -> Nat] /\ sendWindow' \in [Endpoint -> SUBSET Nat]
      /\ lossSet' \in [Endpoint -> SUBSET Nat] /\ bufferData' \in [Endpoint -> Nat]
      /\ net' \in [Endpoint -> SUBSET Packet]
      /\ \A q \in Endpoint \ {p} :
           /\ cut'[q] = cut[q] /\ sent'[q] = sent[q] /\ cwndMax'[q] = cwndMax[q]
           /\ sendWindow'[q] = sendWindow[q] /\ bufferData'[q] = bufferData[q]
      /\ \A q \in Endpoint \ {p, Peer[p]} : net'[q] = net[q]
      /\ net'[p] \subseteq net[p]
      /\ \A m1 \in net'[Peer[p]] : m1 \in net[Peer[p]] \/ GoodFrom(p, m1)
      /\ Grows(p)
      /\ SenderOK(p)'
  <2>1. {} \in SUBSET Packet /\ \A m1 \in {} : m1.type # "DATA" /\ AckOf(m1) <= firstSeq[p]
    OBVIOUS
  <2>2. QED
    BY <1>4, <1>7, <1>8, <2>1, SendsKeeps
<1>10. TypeOK'
  BY <1>1, <1>2, <1>6, <1>9 DEF TypeOK, Receives
<1>11. \A q \in Endpoint \ {p} : SameAt(q)
  BY <1>1, <1>6, <1>9 DEF SameAt, Receives
<1>12. ReceiverOK(p)' /\ SegmentsOK(cut'[p])
  BY <1>6, <1>8 DEF Receives
<1>13. QED
  BY <1>7, <1>9, <1>10, <1>11, <1>12, Preserve

\* The numbers 1..n followed by the next k numbers are the numbers 1..n + k.
LEMMA RunAppend ==
  ASSUME NEW n \in Nat, NEW last \in Nat, n <= last
  PROVE  [i \in 1..n |-> i] \o [i \in 1..(last - n) |-> n + i] = [i \in 1..last |-> i]
<1> DEFINE A == [i \in 1..n |-> i]
           B == [i \in 1..(last - n) |-> n + i]
           C == [i \in 1..last |-> i]
<1>1. A \in Seq(Nat) /\ Len(A) = n /\ \A i \in 1..n : A[i] = i
  OBVIOUS
<1>2. B \in Seq(Nat) /\ Len(B) = last - n /\ \A i \in 1..(last - n) : B[i] = n + i
  <2>1. last - n \in Nat
    OBVIOUS
  <2>2. B \in [1..(last - n) -> Nat] /\ \A i \in 1..(last - n) : B[i] = n + i
    OBVIOUS
  <2> HIDE DEF B
  <2>3. QED
    BY <2>1, <2>2
<1>3. C \in Seq(Nat) /\ Len(C) = last /\ \A i \in 1..last : C[i] = i
  OBVIOUS
<1> HIDE DEF A, B, C
<1>4. /\ A \o B \in Seq(Nat) /\ Len(A \o B) = Len(A) + Len(B)
      /\ \A i \in 1..Len(A) : (A \o B)[i] = A[i]
      /\ \A i \in (Len(A) + 1)..(Len(A) + Len(B)) : (A \o B)[i] = B[i - Len(A)]
  <2>1. A \in Seq(Nat) /\ B \in Seq(Nat)
    BY <1>1, <1>2
  <2>2. QED
    BY <2>1, ConcatNat
<1>5. \A i \in 1..last : (A \o B)[i] = C[i]
  <2>1. TAKE i \in 1..last
  <2>2. CASE i <= n
    <3>1. i \in 1..n
      BY <2>2
    <3>2. QED
      BY <1>1, <1>3, <1>4, <3>1
  <2>3. CASE i > n
    <3>1. i - n \in 1..(last - n) /\ i \in (n + 1)..(n + (last - n)) /\ n + (i - n) = i
      BY <2>3
    <3>2. (A \o B)[i] = B[i - n]
      BY <1>1, <1>2, <1>4, <3>1
    <3>3. B[i - n] = i /\ C[i] = i
      BY <1>2, <1>3, <3>1
    <3>4. QED
      BY <3>2, <3>3
  <2>4. i \in Nat /\ (i <= n \/ i > n)
    BY <2>1
  <2>5. QED
    BY <2>2, <2>3, <2>4
<1>6. Len(A \o B) = Len(C) /\ Len(C) = last
  BY <1>1, <1>2, <1>3, <1>4
<1>7. A \o B = C
  BY <1>3, <1>4, <1>5, <1>6, SeqEqual
<1>8. QED
  BY <1>7 DEF A, B, C

\* One turn of read() takes the next bytes of the stream, up to byte `last' of
\* a segment that was sent.
LEMMA ReadDoes ==
  ASSUME IInv, NEW p \in Endpoint, Read(p)
  PROVE  \E last \in (Len(consumed[p]) + 1)..Total(cut[Peer[p]]) :
           /\ consumed' = [consumed EXCEPT ![p] =
                             @ \o [i \in 1..(last - Len(@)) |-> Len(@) + i]]
           /\ recvData' \in [Endpoint -> Seq(Payload)]
           /\ \A q \in Endpoint \ {p} : recvData'[q] = recvData[q]
           /\ ReceiverOK(p)'
<1> DEFINE c == cut[Peer[p]]
           S == sent[Peer[p]]
           f == firstSeq[p]
           n == Len(consumed[p])
           Q == recvData[p]
           L == Len(Q)
           done == f - L
<1>1. /\ Peer[p] \in Endpoint /\ TypeOK /\ ReceiverOK(p) /\ SenderOK(Peer[p]) /\ SegmentsOK(c)
  BY EndpointAssumption DEF IInv
<1>2. /\ f \in Nat /\ maxSeq[p] \in Nat /\ S \in Nat /\ n \in Nat /\ L \in Nat
      /\ c \in Seq(Nat) /\ Len(c) \in Nat /\ S <= Len(c) /\ Q \in Seq(Payload)
  BY <1>1, TypeAt, LenProperties DEF SenderOK
<1>3. done \in Nat /\ done + L = f /\ f <= maxSeq[p] /\ maxSeq[p] <= S
  BY <1>1, <1>2, ReceiverBounds
<1>4. \A s \in 0..Len(c) : Offset(c, s) \in Nat /\ (s > 0 => c[s] = Offset(c, s))
  <2>1. TAKE s \in 0..Len(c)
  <2>2. s > 0 => c[s] \in Nat
    BY <1>2, ElementOfSeq
  <2>3. QED
    BY <2>2 DEF Offset
<1>5. /\ Q # <<>> /\ L > 0
      /\ UNCHANGED <<sendVars, firstSeq, maxSeq, recvWindow, lossMap, net>>
  <2>1. Q # <<>>
    BY DEF Read
  <2>2. QED
    BY <1>2, <2>1, EmptySeq DEF Read
<1> DEFINE Turn(size, to) ==
        /\ to = MinOf(Head(Q).hi, Head(Q).lo + size - 1)
        /\ consumed' = [consumed EXCEPT ![p] =
             @ \o [i \in 1..(to - Head(Q).lo + 1) |-> Head(Q).lo + i - 1]]
        /\ recvData' = [recvData EXCEPT ![p] =
             IF to = Head(Q).hi THEN Tail(@)
             ELSE <<[Head(Q) EXCEPT !.lo = to + 1]>> \o Tail(@)]
<1>0. PICK k \in ReadSizes : \E last : Turn(k, last)
  BY DEF Read
<1>6. PICK last : Turn(k, last)
  BY <1>0
<1>7. k \in Nat \ {0}
  BY SizeAssumption
<1>8. /\ \A i \in 1..L : /\ Q[i].hi = c[done + i]
                         /\ Q[i].lo = 1 + (IF i = 1 THEN n ELSE c[done + i - 1])
      /\ Offset(c, done) <= n /\ n < c[done + 1]
      /\ consumed[p] = [i \in 1..n |-> i]
  BY <1>1, <1>5 DEF ReceiverOK
<1>9. Head(Q) = Q[1] /\ Q[1] \in Payload
  BY <1>2, <1>5, ElementOfSeq
<1>10. Head(Q).lo = n + 1 /\ Head(Q).hi = c[done + 1]
  <2>1. 1 \in 1..L
    BY <1>2, <1>5
  <2>2. Q[1].lo = 1 + n
    BY <1>8, <2>1
  <2>3. QED
    BY <1>2, <1>8, <1>9, <2>1, <2>2
<1> DEFINE R == IF last = c[done + 1] THEN Tail(Q)
                ELSE <<[lo |-> last + 1, hi |-> c[done + 1]]>> \o Tail(Q)
<1> HIDE DEF c, S, f, n, Q, L, done, R
<1>11. /\ done + 1 \in 1..Len(c) /\ c[done + 1] \in Nat /\ c[done + 1] = Offset(c, done + 1)
  <2>1. done + 1 \in 1..Len(c)
    BY <1>2, <1>3, <1>5
  <2>2. QED
    BY <1>4, <2>1
<1>12. last \in (n + 1)..c[done + 1] /\ last \in Nat
  <2>1. Head(Q).lo + k - 1 = n + k
    BY <1>2, <1>7, <1>10
  <2>2. last = MinOf(c[done + 1], n + k)
    BY <1>6, <1>10, <2>1
  <2>3. QED
    BY <1>2, <1>7, <1>8, <1>11, <2>2 DEF MinOf
<1>13. consumed' = [consumed EXCEPT ![p] = @ \o [i \in 1..(last - Len(@)) |-> Len(@) + i]]
  <2>1. last - Head(Q).lo + 1 = last - n
    <3>1. Head(Q).lo = n + 1 /\ n \in Nat /\ last \in Nat
      BY <1>2, <1>10, <1>12
    <3>2. last - (n + 1) + 1 = last - n
      BY <3>1
    <3>3. QED
      BY <3>1, <3>2
  <2>2. \A i \in 1..(last - n) : Head(Q).lo + i - 1 = n + i
    BY <1>2, <1>10
  <2>3. [i \in 1..(last - Head(Q).lo + 1) |-> Head(Q).lo + i - 1] = [i \in 1..(last - n) |-> n + i]
    BY <2>1, <2>2
  <2>4. QED
    BY <1>6, <2>3 DEF n
<1>14. consumed'[p] = [i \in 1..last |-> i] /\ Len(consumed'[p]) = last
  <2>1. consumed'[p] = consumed[p] \o [i \in 1..(last - n) |-> n + i]
    BY <1>1, <1>13 DEF TypeOK, n
  <2>2. n <= last
    BY <1>2, <1>12
  <2>3. consumed'[p] = [i \in 1..last |-> i]
    BY <1>2, <1>8, <1>12, <2>1, <2>2, RunAppend
  <2>4. QED
    BY <1>12, <2>3
<1>15. last \in (n + 1)..Total(c)
  <2>1. done + 1 < Len(c) => Offset(c, Len(c)) - Offset(c, done + 1) >= Len(c) - (done + 1)
    BY <1>1, <1>2, <1>11 DEF SegmentsOK, c
  <2>2. Offset(c, Len(c)) \in Nat
    BY <1>2, <1>4
  <2>3. c[done + 1] <= Total(c)
    BY <1>2, <1>3, <1>11, <2>1, <2>2 DEF Total
  <2>4. Total(c) \in Nat
    BY <2>2 DEF Total
  <2>5. QED
    BY <1>2, <1>11, <1>12, <2>3, <2>4
<1>16. recvData' = [recvData EXCEPT ![p] = R]
  <2>1. [Head(Q) EXCEPT !.lo = last + 1] = [lo |-> last + 1, hi |-> c[done + 1]]
    BY <1>9, <1>10 DEF Payload
  <2>2. QED
    BY <1>6, <1>10, <2>1 DEF R, Q
<1>17. /\ Tail(Q) \in Seq(Payload) /\ Len(Tail(Q)) = L - 1
       /\ \A i \in 1..(L - 1) : Tail(Q)[i] = Q[i + 1]
  BY <1>2, <1>5, HeadTailProperties DEF L
<1> DEFINE gone == IF last = c[done + 1] THEN 1 ELSE 0
<1>18. /\ R \in Seq(Payload) /\ Len(R) = L - gone /\ gone \in 0..1
       /\ \A i \in 1..(L - gone) : R[i] = IF i = 1 /\ gone = 0
                                          THEN [lo |-> last + 1, hi |-> c[done + 1]]
                                          ELSE Q[i + gone]
  <2>1. CASE last = c[done + 1]
    BY <1>17, <2>1 DEF R
  <2>2. CASE last # c[done + 1]
    <3> DEFINE first == [lo |-> last + 1, hi |-> c[done + 1]]
    <3>1. first \in Payload
      BY <1>11, <1>12 DEF Payload
    <3>2. <<first>> \in Seq(Payload) /\ Len(<<first>>) = 1 /\ <<first>>[1] = first
      BY <3>1
    <3> HIDE DEF first
    <3>3. /\ <<first>> \o Tail(Q) \in Seq(Payload)
          /\ Len(<<first>> \o Tail(Q)) = Len(<<first>>) + Len(Tail(Q))
          /\ \A i \in 1..(Len(<<first>>) + Len(Tail(Q))) : (<<first>> \o Tail(Q))[i] =
               IF i <= Len(<<first>>) THEN <<first>>[i] ELSE Tail(Q)[i - Len(<<first>>)]
      BY <1>17, <3>2, ConcatProperties
    <3>4. Len(<<first>> \o Tail(Q)) = L
      BY <1>2, <1>5, <1>17, <3>2, <3>3
    <3>5. ASSUME NEW i \in 1..L
          PROVE  (<<first>> \o Tail(Q))[i] = IF i = 1 THEN first ELSE Q[i]
      <4>1. CASE i = 1
        BY <1>2, <1>5, <1>17, <3>2, <3>3, <4>1
      <4>2. CASE i # 1
        <5>1. i - 1 \in 1..(L - 1) /\ ~(i <= 1) /\ (i - 1) + 1 = i /\ i \in 1..(1 + (L - 1))
          BY <1>2, <4>2
        <5>2. (<<first>> \o Tail(Q))[i] = Tail(Q)[i - 1]
          BY <1>17, <3>2, <3>3, <5>1
        <5>3. QED
          BY <1>17, <4>2, <5>1, <5>2
      <4>3. QED
        BY <4>1, <4>2
    <3>6. R = <<first>> \o Tail(Q) /\ gone = 0 /\ L - gone = L
      BY <1>2, <2>2 DEF R, first
    <3>7. QED
      BY <3>3, <3>4, <3>5, <3>6 DEF first
  <2>3. QED
    BY <2>1, <2>2
<1>19. /\ recvData' \in [Endpoint -> Seq(Payload)] /\ recvData'[p] = R
       /\ \A q \in Endpoint \ {p} : recvData'[q] = recvData[q]
  BY <1>1, <1>16, <1>18 DEF TypeOK
<1> DEFINE left == done + gone
<1>20. /\ f - Len(R) = left /\ left \in Nat /\ left + (L - gone) = f
       /\ (left + 1 \in 1..Len(c) \/ L - gone = 0)
  <2>1. gone \in 0..1 /\ Len(R) = L - gone
    BY <1>18
  <2> HIDE DEF gone
  <2>2. QED
    BY <1>2, <1>3, <1>5, <2>1
<1>21. \A i \in 1..Len(R) : /\ R[i].hi = c[left + i]
                            /\ R[i].lo = 1 + (IF i = 1 THEN last ELSE c[left + i - 1])
  <2>1. TAKE i \in 1..Len(R)
  <2>2. CASE gone = 1
    <3>1. R[i] = Q[i + 1] /\ i + 1 \in 1..L /\ i \in Nat /\ i + 1 # 1
      BY <1>2, <1>18, <2>2
    <3>2. Q[i + 1].hi = c[done + (i + 1)] /\ Q[i + 1].lo = 1 + c[done + (i + 1) - 1]
      BY <1>8, <3>1
    <3>3. done + (i + 1) = left + i /\ done + (i + 1) - 1 = left + i - 1
      BY <1>3, <2>2, <3>1
    <3>4. i = 1 => left + i - 1 = done + 1 /\ last = c[done + 1]
      BY <1>3, <2>2
    <3>5. QED
      BY <3>1, <3>2, <3>3, <3>4
  <2>3. CASE gone = 0
    <3>1. i \in 1..L /\ left + i = done + i /\ left + i - 1 = done + i - 1
      BY <1>2, <1>3, <1>18, <2>3
    <3>2. CASE i = 1
      <4>1. R[i].lo = last + 1 /\ R[i].hi = c[done + 1]
        BY <1>18, <2>3, <3>2
      <4>2. last + 1 = 1 + last
        BY <1>12
      <4>3. QED
        BY <3>1, <3>2, <4>1, <4>2
    <3>3. CASE i # 1
      <4>1. R[i] = Q[i]
        BY <1>2, <1>18, <2>3, <3>1, <3>3
      <4>2. QED
        BY <1>8, <3>1, <3>3, <4>1
    <3>4. QED
      BY <3>2, <3>3
  <2>4. QED
    BY <2>2, <2>3
<1>22. /\ Offset(c, left) <= last
       /\ R = <<>> => last = Offset(c, left)
       /\ R # <<>> => last < c[left + 1]
  <2>1. CASE gone = 1
    <3>1. left = done + 1 /\ last = Offset(c, left) /\ last = c[left]
      BY <1>3, <1>11, <2>1
    <3>2. ASSUME R # <<>> PROVE last < c[left + 1]
      <4>1. Len(R) > 0
        BY <1>18, <3>2, EmptySeq
      <4>2. left + 1 \in 0..Len(c) /\ left \in 0..Len(c) /\ left < left + 1
        <5>1. L - gone # 0
          BY <1>18, <4>1
        <5>2. left + 1 \in 1..Len(c)
          BY <1>20, <5>1
        <5>3. QED
          BY SMTT(30), <1>2, <1>11, <1>20, <3>1, <5>2
      <4>3. Offset(c, left + 1) - Offset(c, left) >= (left + 1) - left
        BY <1>1, <4>2 DEF SegmentsOK, c
      <4>4. /\ c[left + 1] = Offset(c, left + 1) /\ c[left + 1] \in Nat
            /\ (left + 1) - left = 1
        BY <1>4, <1>20, <4>2
      <4>5. QED
        BY <1>12, <3>1, <4>3, <4>4
    <3>3. QED
      BY <1>12, <3>1, <3>2
  <2>2. CASE gone = 0
    <3>1. left = done /\ Offset(c, done) \in Nat /\ Offset(c, done) <= n
      <4>1. done \in 0..Len(c)
        BY <1>2, <1>3, <1>11
      <4>2. QED
        BY <1>3, <1>4, <1>8, <2>2, <4>1
    <3>2. last < c[done + 1]
      BY <1>11, <1>12, <2>2
    <3>3. R # <<>>
      BY <1>2, <1>5, <1>18, <2>2
    <3>4. QED
      BY <1>2, <1>12, <3>1, <3>2, <3>3
  <2>3. QED
    BY <2>1, <2>2
<1> HIDE DEF gone, left
<1>23. ReceiverOK(p)'
  <2>1. /\ firstSeq'[p] = f /\ maxSeq'[p] = maxSeq[p] /\ recvWindow'[p] = recvWindow[p]
        /\ lossMap'[p] = lossMap[p] /\ cut'[Peer[p]] = c /\ sent'[Peer[p]] = S
    BY <1>5 DEF sendVars, f, c, S
  <2>2. /\ f <= maxSeq[p] /\ maxSeq[p] <= S
        /\ \A s \in DOMAIN recvWindow[p] :
             f + 1 < s /\ s <= maxSeq[p] /\ recvWindow[p][s] = Bytes(c, s)
        /\ \A s \in lossMap[p] : f < s /\ s < maxSeq[p] /\ s \notin DOMAIN recvWindow[p]
    BY <1>1, <1>3 DEF ReceiverOK, f, c
  <2>3. left >= 0 /\ f - Len(R) = left
    BY <1>20
  <2>4. QED
    BY ZenonT(30), <1>14, <1>19, <1>21, <1>22, <2>1, <2>2, <2>3 DEF ReceiverOK
<1>24. QED
  BY <1>13, <1>15, <1>19, <1>23 DEF n, c

\* read() keeps the invariant.
LEMMA ReadKeeps ==
  ASSUME IInv, NEW p \in Endpoint, Read(p)
  PROVE  IInv'
<1>1. PICK last \in (Len(consumed[p]) + 1)..Total(cut[Peer[p]]) :
        /\ consumed' = [consumed EXCEPT ![p] =
                          @ \o [i \in 1..(last - Len(@)) |-> Len(@) + i]]
        /\ recvData' \in [Endpoint -> Seq(Payload)]
        /\ \A q \in Endpoint \ {p} : recvData'[q] = recvData[q]
        /\ ReceiverOK(p)'
  BY ReadDoes
<1>2. /\ Peer[p] \in Endpoint /\ Peer[p] # p /\ TypeOK /\ SenderOK(p) /\ SegmentsOK(cut[p])
  BY EndpointAssumption DEF IInv
<1>3. UNCHANGED <<sendVars, firstSeq, maxSeq, recvWindow, lossMap, net>>
  BY DEF Read
<1>4. Len(consumed'[p]) \in Nat /\ consumed'[p] \in Seq(Nat)
  <2>1. consumed[p] \in Seq(Nat) /\ Len(consumed[p]) \in Nat
    BY <1>2, TypeAt
  <2> DEFINE n == Len(consumed[p])
             B == [i \in 1..(last - n) |-> n + i]
  <2>2. last - n \in Nat
    BY <1>1, <2>1
  <2>3. B \in [1..(last - n) -> Nat]
    BY <2>1
  <2>4. consumed'[p] = consumed[p] \o B
    BY <1>1, <1>2 DEF TypeOK
  <2> HIDE DEF B, n
  <2>5. B \in Seq(Nat)
    BY <2>2, <2>3
  <2>6. consumed[p] \o B \in Seq(Nat)
    BY <2>1, <2>5, ConcatNat
  <2>7. QED
    BY <2>4, <2>6, LenProperties
<1>5. consumed' \in [Endpoint -> Seq(Nat)] /\ \A q \in Endpoint \ {p} : consumed'[q] = consumed[q]
  BY <1>1, <1>2, <1>4 DEF TypeOK
<1>6. TypeOK'
  BY <1>1, <1>2, <1>3, <1>5 DEF TypeOK, sendVars
<1>7. \A q \in Endpoint \ {p} : SameAt(q)
  BY <1>1, <1>3, <1>5 DEF SameAt, sendVars
<1>8. SegmentsOK(cut'[p]) /\ SenderOK(p)'
  BY <1>2, <1>3 DEF sendVars, SenderOK
<1>9. Grows(p)
  <2>1. sent[p] \in Nat /\ Len(cut[p]) \in Nat /\ sent[p] <= Len(cut[p])
    BY <1>2, TypeAt, LenProperties DEF SenderOK
  <2>2. QED
    BY <1>3, <2>1 DEF Grows, sendVars
<1>10. firstSeq[p] <= firstSeq'[p] /\ net' = net
  BY <1>2, <1>3, TypeAt
<1>11. QED
  BY <1>1, <1>6, <1>7, <1>8, <1>9, <1>10, Preserve

-----------------------------------------------------------------------------
(* The invariant, and the properties it implies.                           *)

\* Two sockets that just became connected satisfy the invariant.
LEMMA InitKeeps == Init => IInv
<1>1. SUFFICES ASSUME Init PROVE IInv
  OBVIOUS
<1>2. TypeOK
  BY <1>1 DEF Init, TypeOK
<1>3. ASSUME NEW p \in Endpoint
      PROVE  SegmentsOK(cut[p]) /\ SenderOK(p) /\ ReceiverOK(p) /\ PathOK(p)
  <2>1. Peer[p] \in Endpoint
    BY EndpointAssumption
  <2>2. /\ cut[p] = <<>> /\ cut[Peer[p]] = <<>> /\ sent[p] = 0 /\ sent[Peer[p]] = 0
        /\ cwndMax[p] = 1 /\ sendWindow[p] = {} /\ bufferData[p] = 0
        /\ firstSeq[p] = 0 /\ firstSeq[Peer[p]] = 0 /\ maxSeq[p] = 0
        /\ recvWindow[p] = <<>> /\ lossMap[p] = {} /\ recvData[p] = <<>>
        /\ consumed[p] = <<>> /\ net[p] = {}
    BY <1>1, <2>1 DEF Init
  <2>3. SegmentsOK(cut[p])
    BY <2>2 DEF SegmentsOK
  <2>4. SenderOK(p)
    <3>1. 0 \in 0..firstSeq[Peer[p]] /\ sendWindow[p] = (0 + 1)..sent[p]
      BY <2>2
    <3>2. bufferData[p] = Total(cut[p]) - Offset(cut[p], 0)
      BY <2>2 DEF Total, Offset
    <3>3. bufferData[p] < BufferSize + MaxWrite
      BY <2>2, SizeAssumption
    <3>4. QED
      BY <2>2, <3>1, <3>2, <3>3 DEF SenderOK, MaxOf
  <2>5. ReceiverOK(p)
    <3>1. DOMAIN recvWindow[p] = {} /\ Len(recvData[p]) = 0 /\ Len(consumed[p]) = 0
      BY <2>2
    <3>2. Offset(cut[Peer[p]], 0) = 0
      BY DEF Offset
    <3>3. consumed[p] = [i \in 1..0 |-> i]
      BY <2>2
    <3>4. QED
      BY <2>2, <3>1, <3>2, <3>3 DEF ReceiverOK
  <2>6. PathOK(p)
    BY <2>2 DEF PathOK
  <2>7. QED
    BY <2>3, <2>4, <2>5, <2>6
<1>4. QED
  BY <1>2, <1>3 DEF IInv

\* The invariant is inductive.
LEMMA NextKeeps == IInv /\ [Next]_vars => IInv'
<1>1. SUFFICES ASSUME IInv, [Next]_vars PROVE IInv'
  OBVIOUS
<1>2. CASE UNCHANGED vars
  BY <1>1, <1>2 DEF vars, sendVars, recvVars, IInv, TypeOK, SegmentsOK, SenderOK, ReceiverOK, PathOK
<1>3. ASSUME NEW p \in Endpoint, Write(p) PROVE IInv'
  BY <1>1, <1>3, WriteKeeps
<1>4. ASSUME NEW p \in Endpoint, Read(p) PROVE IInv'
  BY <1>1, <1>4, ReadKeeps
<1>5. ASSUME NEW p \in Endpoint, Heartbeat(p) PROVE IInv'
  BY <1>1, <1>5, HeartbeatKeeps
<1>6. ASSUME NEW p \in Endpoint, NEW m \in net[p], Receive(p, m) PROVE IInv'
  BY <1>1, <1>6, ReceiveDataKeeps, ReceiveAckKeeps, ReceiveNackKeeps DEF Receive
<1>7. QED
  BY <1>1, <1>2, <1>3, <1>4, <1>5, <1>6 DEF Next

\* The state of a connection is consistent between its two ends after any
\* number of sends, receives, losses, repetitions and reorderings.
THEOREM Invariance == Spec => []IInv
<1>1. Init => IInv
  BY InitKeeps
<1>2. IInv /\ [Next]_vars => IInv'
  BY NextKeeps
<1>3. QED
  BY <1>1, <1>2, PTL DEF Spec

\* The variables hold values of their types.
THEOREM TypeCorrect == Spec => []TypeOK
<1>1. IInv => TypeOK
  BY DEF IInv
<1>2. QED
  BY <1>1, Invariance, PTL

\* What was sent and is not received in order is still in the send window.
THEOREM NoLoss == Spec => []NothingLost
<1>1. IInv => NothingLost
  <2>1. SUFFICES ASSUME IInv, NEW p \in Endpoint, NEW s \in 1..sent[p], s > firstSeq[Peer[p]]
                 PROVE  s \in sendWindow[p]
    BY DEF NothingLost
  <2>2. PICK base \in 0..firstSeq[Peer[p]] : sendWindow[p] = (base + 1)..sent[p]
    BY <2>1 DEF IInv, SenderOK
  <2>3. Peer[p] \in Endpoint /\ firstSeq[Peer[p]] \in Nat /\ sent[p] \in Nat
    BY <2>1, EndpointAssumption DEF IInv, TypeOK
  <2>4. QED
    BY <2>1, <2>2, <2>3
<1>2. QED
  BY <1>1, Invariance, PTL

\* No datagram acknowledges what its sender does not have in order.
THEOREM HonestAcks == Spec => []AckHonest
<1>1. IInv => AckHonest
  BY DEF IInv, SenderOK, PathOK, AckHonest
<1>2. QED
  BY <1>1, Invariance, PTL

\* The send window never has a hole.
THEOREM WindowWithoutHoles == Spec => []WindowIsRun
<1>1. IInv => WindowIsRun
  <2>1. SUFFICES ASSUME IInv, NEW p \in Endpoint, NEW s \in sendWindow[p], NEW t \in s..sent[p]
                 PROVE  s <= sent[p] /\ t \in sendWindow[p]
    <3>1. IInv => \A p \in Endpoint : \A s \in sendWindow[p] : s <= sent[p]
      <4>1. SUFFICES ASSUME IInv, NEW p \in Endpoint, NEW s \in sendWindow[p]
                     PROVE  s <= sent[p]
        OBVIOUS
      <4>2. PICK base \in 0..firstSeq[Peer[p]] : sendWindow[p] = (base + 1)..sent[p]
        BY <4>1 DEF IInv, SenderOK
      <4>3. QED
        BY <4>2
    <3>2. QED
      BY <3>1 DEF WindowIsRun
  <2>2. PICK base \in 0..firstSeq[Peer[p]] : sendWindow[p] = (base + 1)..sent[p]
    BY <2>1 DEF IInv, SenderOK
  <2>3. Peer[p] \in Endpoint /\ firstSeq[Peer[p]] \in Nat /\ sent[p] \in Nat
    BY <2>1, EndpointAssumption DEF IInv, TypeOK
  <2>4. QED
    BY <2>1, <2>2, <2>3
<1>2. QED
  BY <1>1, Invariance, PTL

\* buffer_data_size_ never drifts from what the two send buffers hold.
THEOREM SizesAccounted == Spec => []BufferAccounted
<1>1. IInv => BufferAccounted
  <2>1. SUFFICES ASSUME IInv, NEW p \in Endpoint
                 PROVE  bufferData[p] =
                          Size(cut[p], sendWindow[p] \cup (sent[p] + 1)..Len(cut[p]))
    BY DEF BufferAccounted
  <2>2. PICK base \in 0..firstSeq[Peer[p]] :
          /\ sendWindow[p] = (base + 1)..sent[p]
          /\ bufferData[p] = Total(cut[p]) - Offset(cut[p], base)
    BY <2>1 DEF IInv, SenderOK
  <2>3. /\ Peer[p] \in Endpoint /\ TypeOK /\ SenderOK(p)
    BY <2>1, EndpointAssumption DEF IInv
  <2>4. /\ firstSeq[Peer[p]] \in Nat /\ sent[p] \in Nat /\ Len(cut[p]) \in Nat
        /\ firstSeq[Peer[p]] <= sent[p] /\ sent[p] <= Len(cut[p]) /\ bufferData[p] \in Nat
    BY <2>3, TypeAt, LenProperties DEF SenderOK
  <2>5. sendWindow[p] \cup (sent[p] + 1)..Len(cut[p]) = (base + 1)..Len(cut[p])
    BY <2>2, <2>4
  <2>6. CASE base = Len(cut[p])
    <3>1. (base + 1)..Len(cut[p]) = {}
      BY <2>4, <2>6
    <3>2. Offset(cut[p], base) \in Nat
      BY <2>3, <2>4, <2>6, TypeAt, ElementOfSeq DEF Offset
    <3>3. bufferData[p] = 0
      BY <2>2, <2>6, <3>2 DEF Total
    <3>4. QED
      BY <2>5, <3>1, <3>3 DEF Size
  <2>7. CASE base < Len(cut[p])
    <3>1. base + 1 \in Nat /\ base + 1 <= Len(cut[p]) /\ (base + 1) - 1 = base
      BY <2>4, <2>7
    <3>2. Size(cut[p], (base + 1)..Len(cut[p])) = cut[p][Len(cut[p])] - Offset(cut[p], (base + 1) - 1)
      BY <2>4, <3>1, RunSize
    <3>3. Total(cut[p]) = cut[p][Len(cut[p])]
      BY <2>4, <3>1 DEF Total, Offset
    <3>4. QED
      BY <2>2, <2>5, <3>1, <3>2, <3>3
  <2>8. QED
    BY <2>4, <2>6, <2>7
<1>2. QED
  BY <1>1, Invariance, PTL

\* Nothing that could be read waits in recv_window_.
THEOREM NoBlocking == Spec => []HeadOfLine
<1>1. IInv => HeadOfLine
  <2>1. SUFFICES ASSUME IInv, NEW p \in Endpoint, NEW s \in DOMAIN recvWindow[p]
                 PROVE  s > firstSeq[p] + 1
    BY DEF HeadOfLine
  <2>2. firstSeq[p] + 1 < s
    BY <2>1 DEF IInv, ReceiverOK
  <2>3. QED
    BY <2>2
<1>2. QED
  BY <1>1, Invariance, PTL

\* A NACK reports what the receiver lacks, nothing else.
THEOREM TrueReports == Spec => []OnlyMissingReported
<1>1. IInv => OnlyMissingReported
  BY DEF IInv, ReceiverOK, OnlyMissingReported
<1>2. QED
  BY <1>1, Invariance, PTL

-----------------------------------------------------------------------------
(* The send window.                                                        *)

\* The window holds no more than the controller has granted at some time.
WindowGranted ==
  \A p \in Endpoint : /\ IsFiniteSet(sendWindow[p])
                      /\ \E w \in Cwnds : Cardinality(sendWindow[p]) <= w

\* attempt_send() fills the window up to the size granted.
LEMMA AttemptSendFits ==
  ASSUME TypeOK, TypeOK', NEW p \in Endpoint, NEW W, IsFiniteSet(W),
         \E w \in Cwnds : Cardinality(W) <= w,
         NEW L, NEW in, NEW out, AttemptSend(p, W, L, in, out)
  PROVE  /\ IsFiniteSet(sendWindow'[p])
         /\ \E w \in Cwnds : Cardinality(sendWindow'[p]) <= w
         /\ \A q \in Endpoint \ {p} : sendWindow'[q] = sendWindow[q]
<1>1. CASE sendWindow' = [sendWindow EXCEPT ![p] = W]
  BY <1>1 DEF TypeOK
<1>2. ASSUME NEW w \in Cwnds, NEW again, NEW fit,
             fit = (IF Cardinality(again) >= w THEN 0
                    ELSE MaxOf(0, MinOf(Len(cut'[p]) - sent[p], w - Cardinality(W)))),
             NEW fresh \in 0..fit,
             sendWindow' = [sendWindow EXCEPT ![p] = W \cup (sent[p] + 1)..(sent[p] + fresh)]
      PROVE  /\ IsFiniteSet(sendWindow'[p])
             /\ \E v \in Cwnds : Cardinality(sendWindow'[p]) <= v
             /\ \A q \in Endpoint \ {p} : sendWindow'[q] = sendWindow[q]
  <2> DEFINE F == (sent[p] + 1)..(sent[p] + fresh)
  <2>1. w \in Nat /\ sent[p] \in Nat /\ Len(cut'[p]) \in Nat /\ Cardinality(W) \in Nat
    BY SizeAssumption, LenProperties, FS_CardinalityType DEF TypeOK
  <2>2. fresh = 0 \/ fresh \in 0..(w - Cardinality(W))
    <3>1. CASE Cardinality(again) >= w
      BY <1>2, <3>1
    <3>2. CASE ~(Cardinality(again) >= w)
      <4>1. fresh \in 0..MaxOf(0, MinOf(Len(cut'[p]) - sent[p], w - Cardinality(W)))
        BY <1>2, <3>2
      <4>2. QED
        BY <2>1, <4>1 DEF MinOf, MaxOf
    <3>3. QED
      BY <3>1, <3>2
  <2>3. fresh \in Nat
    BY <2>2
  <2>4. IsFiniteSet(F) /\ Cardinality(F) = fresh
    <3>1. sent[p] + 1 \in Int /\ sent[p] + fresh \in Int
      BY <2>1, <2>3
    <3>2. /\ IsFiniteSet(F)
          /\ Cardinality(F) = IF sent[p] + 1 > sent[p] + fresh THEN 0
                              ELSE (sent[p] + fresh) - (sent[p] + 1) + 1
      BY <3>1, FS_Interval
    <3>3. QED
      BY <2>1, <2>3, <3>2
  <2> HIDE DEF F
  <2>5. IsFiniteSet(W \cup F) /\ Cardinality(W \cup F) <= Cardinality(W) + fresh
    <3>1. IsFiniteSet(W \cap F)
      BY <2>4, FS_Intersection
    <3>2. Cardinality(W \cap F) \in Nat
      BY <3>1, FS_CardinalityType
    <3>3. /\ IsFiniteSet(W \cup F)
          /\ Cardinality(W \cup F) = Cardinality(W) + Cardinality(F) - Cardinality(W \cap F)
      BY <2>4, FS_Union
    <3>4. QED
      BY <2>1, <2>3, <2>4, <3>2, <3>3
  <2>6. Cardinality(W \cup F) \in Nat
    BY <2>5, FS_CardinalityType
  <2>7. \E v \in Cwnds : Cardinality(W \cup F) <= v
    <3>1. CASE fresh = 0
      <4>1. PICK v \in Cwnds : Cardinality(W) <= v
        OBVIOUS
      <4>2. v \in Nat
        BY SizeAssumption
      <4>3. Cardinality(W \cup F) <= v
        BY <2>1, <2>5, <2>6, <3>1, <4>1, <4>2
      <4>4. QED
        BY <4>3
    <3>2. CASE fresh \in 0..(w - Cardinality(W))
      <4>1. Cardinality(W \cup F) <= w
        BY <2>1, <2>5, <2>6, <3>2
      <4>2. QED
        BY <4>1
    <3>3. QED
      BY <2>2, <3>1, <3>2
  <2>8. sendWindow'[p] = W \cup F /\ \A q \in Endpoint \ {p} : sendWindow'[q] = sendWindow[q]
    BY <1>2 DEF TypeOK, F
  <2>9. QED
    BY <2>5, <2>7, <2>8
<1>3. QED
  BY <1>1, <1>2 DEF AttemptSend

\* on_ack() shrinks the window before attempt_send() fills it.
LEMMA OnAckFits ==
  ASSUME TypeOK, TypeOK', WindowGranted, NEW p \in Endpoint, NEW seq, NEW L, NEW in,
         OnAck(p, seq, L, in)
  PROVE  WindowGranted'
<1> DEFINE acked == {s \in sendWindow[p] : s <= seq}
           W == sendWindow[p] \ acked
<1>1. CASE cwndMax[p] < seq
  BY <1>1 DEF OnAck, WindowGranted
<1>2. CASE ~(cwndMax[p] < seq)
  <2>1. AttemptSend(p, W, L \ acked, in, {})
    BY <1>2 DEF OnAck
  <2>2. IsFiniteSet(W) /\ \E w \in Cwnds : Cardinality(W) <= w
    <3>1. PICK w \in Cwnds : Cardinality(sendWindow[p]) <= w
      BY DEF WindowGranted
    <3>2. W \in SUBSET sendWindow[p] /\ IsFiniteSet(sendWindow[p]) /\ w \in Nat
      BY SizeAssumption DEF WindowGranted
    <3>3. IsFiniteSet(W) /\ Cardinality(W) <= Cardinality(sendWindow[p])
      BY <3>2, FS_Subset
    <3>4. Cardinality(W) \in Nat /\ Cardinality(sendWindow[p]) \in Nat
      BY <3>2, <3>3, FS_CardinalityType
    <3> HIDE DEF W
    <3>5. Cardinality(W) <= w
      BY <3>1, <3>2, <3>3, <3>4
    <3>6. QED
      BY <3>3, <3>5
  <2> HIDE DEF W, acked
  <2>3. /\ IsFiniteSet(sendWindow'[p])
        /\ \E w \in Cwnds : Cardinality(sendWindow'[p]) <= w
        /\ \A q \in Endpoint \ {p} : sendWindow'[q] = sendWindow[q]
    BY <2>1, <2>2, AttemptSendFits
  <2>4. QED
    BY <2>3 DEF WindowGranted
<1>3. QED
  BY <1>1, <1>2

\* No step puts more into the window than was granted.
LEMMA NextGranted ==
  ASSUME TypeOK, TypeOK', WindowGranted, [Next]_vars
  PROVE  WindowGranted'
<1>1. ASSUME NEW p \in Endpoint, NEW out, AttemptSend(p, sendWindow[p], lossSet[p], {}, out)
      PROVE  WindowGranted'
  <2>1. IsFiniteSet(sendWindow[p]) /\ \E w \in Cwnds : Cardinality(sendWindow[p]) <= w
    BY DEF WindowGranted
  <2>2. /\ IsFiniteSet(sendWindow'[p])
        /\ \E w \in Cwnds : Cardinality(sendWindow'[p]) <= w
        /\ \A q \in Endpoint \ {p} : sendWindow'[q] = sendWindow[q]
    BY <1>1, <2>1, AttemptSendFits
  <2>3. QED
    BY <2>2 DEF WindowGranted
<1>2. CASE UNCHANGED vars
  BY <1>2 DEF vars, sendVars, WindowGranted
<1>3. ASSUME NEW p \in Endpoint, Write(p) PROVE WindowGranted'
  BY <1>1, <1>3 DEF Write
<1>4. ASSUME NEW p \in Endpoint, Read(p) PROVE WindowGranted'
  BY <1>4 DEF Read, sendVars, WindowGranted
<1>5. ASSUME NEW p \in Endpoint, Heartbeat(p) PROVE WindowGranted'
  BY <1>1, <1>5 DEF Heartbeat
<1>6. ASSUME NEW p \in Endpoint, NEW m \in net[p], Receive(p, m) PROVE WindowGranted'
  <2>1. PICK seq, L : OnAck(p, seq, L, {m})
    BY <1>6 DEF Receive, ReceiveData, ReceiveAck, ReceiveNack
  <2>2. QED
    BY <2>1, OnAckFits
<1>7. QED
  BY <1>2, <1>3, <1>4, <1>5, <1>6 DEF Next

\* A segment on the path is at most a send window ahead of its receiver, for
\* every size of the buffers and every MAX_SEQ_INTNAL: on_data() closes the
\* connection of a correct peer only when a window exceeds the interval.
THEOREM NoFurtherThanWindow == Spec => []AheadWithinWindow
<1>1. Init => WindowGranted
  <2>1. SUFFICES ASSUME Init, NEW p \in Endpoint
                 PROVE  IsFiniteSet(sendWindow[p]) /\ \E w \in Cwnds : Cardinality(sendWindow[p]) <= w
    BY DEF WindowGranted
  <2>2. sendWindow[p] = {}
    BY <2>1 DEF Init
  <2>3. PICK w \in Cwnds : w \in Nat
    BY SizeAssumption
  <2>4. QED
    BY <2>2, <2>3, FS_EmptySet
<1>2. IInv /\ IInv' /\ WindowGranted /\ [Next]_vars => WindowGranted'
  BY NextGranted DEF IInv
<1>3. IInv /\ WindowGranted => AheadWithinWindow
  <2>1. SUFFICES ASSUME IInv, WindowGranted, NEW p \in Endpoint, NEW m \in net[p], m.type = "DATA"
                 PROVE  \E w \in Cwnds : m.seq <= firstSeq[p] + w
    BY DEF AheadWithinWindow
  <2> DEFINE q == Peer[p]
  <2>2. q \in Endpoint /\ Peer[q] = p /\ TypeOK /\ SenderOK(q)
    BY <2>1, EndpointAssumption DEF IInv
  <2>3. firstSeq[p] \in Nat /\ sent[q] \in Nat
    BY <2>2, TypeAt
  <2>4. m.seq \in 1..sent[q]
    BY <2>1, Arrived
  <2> HIDE DEF q
  <2>5. PICK base \in 0..firstSeq[p] : sendWindow[q] = (base + 1)..sent[q]
    BY <2>2 DEF SenderOK
  <2>6. PICK w \in Cwnds : Cardinality(sendWindow[q]) <= w
    BY <2>1, <2>2 DEF WindowGranted
  <2>7. Cardinality(sendWindow[q]) = IF base + 1 > sent[q] THEN 0 ELSE sent[q] - (base + 1) + 1
    <3>1. base + 1 \in Int /\ sent[q] \in Int
      BY <2>3
    <3>2. Cardinality((base + 1)..sent[q]) =
            IF base + 1 > sent[q] THEN 0 ELSE sent[q] - (base + 1) + 1
      BY <3>1, FS_Interval
    <3>3. QED
      BY <2>5, <3>2
  <2>8. w \in Nat
    BY SizeAssumption
  <2>9. m.seq <= firstSeq[p] + w
    BY <2>3, <2>4, <2>5, <2>6, <2>7, <2>8
  <2>10. QED
    BY <2>9
<1>4. QED
  BY <1>1, <1>2, <1>3, Invariance, PTL DEF Spec

-----------------------------------------------------------------------------
(* Refinement: the connection implements a pair of FIFO byte streams.      *)

\* send() is a write to the abstract stream.
LEMMA WriteRefines ==
  ASSUME IInv, NEW p \in Endpoint, Write(p)
  PROVE  Stream!Write(p)
<1> DEFINE c == cut[p]
<1>1. PICK k \in 1..MaxWrite : cut' = [cut EXCEPT ![p] = Extend(@, sent[p], k)]
  BY DEF Write
<1>2. /\ TypeOK /\ SegmentsOK(c) /\ SenderOK(p) /\ c \in Seq(Nat) /\ Len(c) \in Nat
      /\ sent[p] \in 0..Len(c) /\ k \in Nat \ {0}
  BY TypeAt, LenProperties, SizeAssumption DEF IInv, SenderOK
<1>3. Total(Extend(c, sent[p], k)) = Total(c) + k
  BY <1>2, ExtendCuts
<1>4. \A q \in Endpoint : cut'[q] = IF q = p THEN Extend(c, sent[p], k) ELSE cut[q]
  BY <1>1, <1>2 DEF TypeOK
<1>5. [q \in Endpoint |-> Total(cut'[q])] =
        [[q \in Endpoint |-> Total(cut[q])] EXCEPT ![p] = @ + k]
  BY <1>3, <1>4
<1>6. [q \in Endpoint |-> Total(cut[q])]' = [q \in Endpoint |-> Total(cut'[q])]
  BY DEF Total, Offset
<1>7. UNCHANGED consumed
  BY DEF Write
<1>8. QED
  BY <1>5, <1>6, <1>7 DEF Stream!Write

\* One turn of read() is a read of the next bytes of the abstract stream.
LEMMA ReadRefines ==
  ASSUME IInv, NEW p \in Endpoint, Read(p)
  PROVE  Stream!Read(p)
<1>1. PICK last \in (Len(consumed[p]) + 1)..Total(cut[Peer[p]]) :
        consumed' = [consumed EXCEPT ![p] = @ \o [i \in 1..(last - Len(@)) |-> Len(@) + i]]
  BY ReadDoes
<1>2. Peer[p] \in Endpoint /\ cut' = cut
  BY EndpointAssumption DEF Read, sendVars
<1>3. UNCHANGED [q \in Endpoint |-> Total(cut[q])]
  BY <1>2 DEF Total, Offset
<1>4. QED
  BY <1>1, <1>2, <1>3 DEF Stream!Read, Stream!Run

\* Every byte is read once, in the order it was written: loss, repetition and
\* reordering on the path are invisible to the applications.
THEOREM Refinement == Spec => StreamSpec
<1>1. Init => Stream!Init
  BY DEF Init, Stream!Init, Total, Offset
<1>2. IInv /\ [Next]_vars => [Stream!Next]_(Stream!vars)
  <2>1. SUFFICES ASSUME IInv, [Next]_vars PROVE [Stream!Next]_(Stream!vars)
    OBVIOUS
  <2>2. ASSUME cut' = cut, consumed' = consumed PROVE UNCHANGED Stream!vars
    BY <2>2 DEF Stream!vars, Total, Offset
  <2>3. CASE UNCHANGED vars
    BY <2>2, <2>3 DEF vars, sendVars
  <2>4. ASSUME NEW p \in Endpoint, Write(p) PROVE Stream!Next
    BY <2>1, <2>4, WriteRefines DEF Stream!Next
  <2>5. ASSUME NEW p \in Endpoint, Read(p) PROVE Stream!Next
    BY <2>1, <2>5, ReadRefines DEF Stream!Next
  <2>6. ASSUME NEW p \in Endpoint, Heartbeat(p) PROVE UNCHANGED Stream!vars
    BY <2>2, <2>6 DEF Heartbeat
  <2>7. ASSUME NEW p \in Endpoint, NEW m \in net[p], Receive(p, m)
        PROVE  UNCHANGED Stream!vars
    BY <2>2, <2>7 DEF Receive, ReceiveData, ReceiveAck, ReceiveNack
  <2>8. QED
    BY <2>1, <2>3, <2>4, <2>5, <2>6, <2>7 DEF Next
<1>3. QED
  BY <1>1, <1>2, Invariance, PTL DEF Spec, StreamSpec, Stream!Spec

-----------------------------------------------------------------------------
(* loss_set_ and the send window.                                          *)

\* attempt_send() takes from the loss set and adds to the window.
LEMMA AttemptSendLoss ==
  ASSUME TypeOK, NEW p \in Endpoint, NEW W, NEW L, NEW in, NEW out,
         AttemptSend(p, W, L, in, out)
  PROVE  /\ lossSet'[p] \subseteq L /\ W \subseteq sendWindow'[p]
         /\ \A q \in Endpoint \ {p} : /\ lossSet'[q] = lossSet[q]
                                      /\ sendWindow'[q] = sendWindow[q]
<1>1. CASE /\ sendWindow' = [sendWindow EXCEPT ![p] = W]
           /\ lossSet' = [lossSet EXCEPT ![p] = L]
  BY <1>1 DEF TypeOK
<1>2. ASSUME NEW again, NEW more,
             sendWindow' = [sendWindow EXCEPT ![p] = W \cup more],
             lossSet' = [lossSet EXCEPT ![p] = L \ again]
      PROVE  /\ lossSet'[p] \subseteq L /\ W \subseteq sendWindow'[p]
             /\ \A q \in Endpoint \ {p} : /\ lossSet'[q] = lossSet[q]
                                          /\ sendWindow'[q] = sendWindow[q]
  BY <1>2 DEF TypeOK
<1>3. QED
  BY <1>1, <1>2 DEF AttemptSend

\* on_ack() takes the same segments from both.
LEMMA OnAckLoss ==
  ASSUME TypeOK, NEW p \in Endpoint, NEW seq, NEW L, NEW in,
         OnAck(p, seq, L, in)
  PROVE  /\ Orphans(p)' \subseteq L \ sendWindow[p]
         /\ \A q \in Endpoint \ {p} : Orphans(q)' = Orphans(q)
<1>1. CASE cwndMax[p] < seq
  BY <1>1 DEF OnAck, Orphans, TypeOK
<1>2. CASE ~(cwndMax[p] < seq)
  <2> DEFINE acked == {s \in sendWindow[p] : s <= seq}
  <2>1. AttemptSend(p, sendWindow[p] \ acked, L \ acked, in, {})
    BY <1>2 DEF OnAck
  <2> HIDE DEF acked
  <2>2. /\ lossSet'[p] \subseteq L \ acked /\ sendWindow[p] \ acked \subseteq sendWindow'[p]
        /\ \A q \in Endpoint \ {p} : /\ lossSet'[q] = lossSet[q]
                                     /\ sendWindow'[q] = sendWindow[q]
    BY <2>1, AttemptSendLoss
  <2>3. QED
    BY <2>2 DEF Orphans
<1>3. QED
  BY <1>1, <1>2

\* A step that adds a segment to the orphans takes a stale NACK.
LEMMA StepOrphans ==
  ASSUME IInv, [Next]_vars, NEW q \in Endpoint, NEW s \in Orphans(q)', s \notin Orphans(q)
  PROVE  \E m \in net[q] : ReceiveNack(q, m) /\ Stale(q, m, s)
<1> USE DEF IInv
<1>1. ASSUME NEW p \in Endpoint, NEW out, AttemptSend(p, sendWindow[p], lossSet[p], {}, out)
      PROVE  FALSE
  <2>1. /\ lossSet'[p] \subseteq lossSet[p] /\ sendWindow[p] \subseteq sendWindow'[p]
        /\ \A r \in Endpoint \ {p} : /\ lossSet'[r] = lossSet[r]
                                     /\ sendWindow'[r] = sendWindow[r]
    BY <1>1, AttemptSendLoss
  <2>2. QED
    BY <2>1 DEF Orphans
<1>2. ASSUME NEW p \in Endpoint, NEW seq, NEW in, OnAck(p, seq, lossSet[p], in) PROVE FALSE
  BY <1>2, OnAckLoss DEF Orphans
<1>3. CASE UNCHANGED vars
  BY <1>3 DEF vars, sendVars, Orphans
<1>4. ASSUME NEW p \in Endpoint, Write(p) PROVE FALSE
  BY <1>1, <1>4 DEF Write
<1>5. ASSUME NEW p \in Endpoint, Read(p) PROVE FALSE
  BY <1>5 DEF Read, sendVars, Orphans
<1>6. ASSUME NEW p \in Endpoint, Heartbeat(p) PROVE FALSE
  BY <1>1, <1>6 DEF Heartbeat
<1>7. ASSUME NEW p \in Endpoint, NEW m \in net[p], ReceiveData(p, m) \/ ReceiveAck(p, m)
      PROVE  FALSE
  BY <1>2, <1>7 DEF ReceiveData, ReceiveAck
<1>8. ASSUME NEW p \in Endpoint, NEW m \in net[p], ReceiveNack(p, m)
      PROVE  \E n \in net[q] : ReceiveNack(q, n) /\ Stale(q, n, s)
  <2>1. OnAck(p, m.base, lossSet[p] \cup {t \in m.lost : t < cwndMax[p]}, {m})
    BY <1>8 DEF ReceiveNack
  <2>2. /\ Orphans(p)' \subseteq (lossSet[p] \cup {t \in m.lost : t < cwndMax[p]}) \ sendWindow[p]
        /\ \A r \in Endpoint \ {p} : Orphans(r)' = Orphans(r)
    BY <2>1, OnAckLoss
  <2>3. p = q /\ s \in m.lost /\ s < cwndMax[q] /\ s \notin sendWindow[q]
    BY <2>2 DEF Orphans
  <2>4. /\ m.type = "NACK" /\ m.lost \subseteq Nat
    BY <1>8, Arrived DEF ReceiveNack, Packet
  <2>5. Peer[q] \in Endpoint /\ TypeOK /\ SenderOK(q)
    BY EndpointAssumption
  <2>6. /\ sent[q] \in Nat /\ firstSeq[Peer[q]] \in Nat /\ s \in Nat
        /\ cwndMax[q] = MaxOf(1, sent[q]) /\ firstSeq[Peer[q]] <= sent[q]
    BY <2>3, <2>4, <2>5, TypeAt DEF SenderOK
  <2>7. PICK base \in 0..firstSeq[Peer[q]] : sendWindow[q] = (base + 1)..sent[q]
    BY <2>5 DEF SenderOK
  <2>8. s <= firstSeq[Peer[q]]
    BY <2>3, <2>6, <2>7 DEF MaxOf
  <2>9. QED
    BY <1>8, <2>3, <2>4, <2>8 DEF Stale
<1>9. QED
  BY <1>3, <1>4, <1>5, <1>6, <1>7, <1>8 DEF Next, Receive

\* The one cause of a stalled sender, on any path.
THEOREM StaleNackOnly == Spec => LossNeedsStaleNack
<1>1. IInv /\ [Next]_vars =>
        [ \A p \in Endpoint : \A s \in Orphans(p)' :
            \/ s \in Orphans(p)
            \/ \E m \in net[p] : ReceiveNack(p, m) /\ Stale(p, m, s) ]_vars
  BY StepOrphans
<1>2. QED
  BY <1>1, Invariance, PTL DEF Spec, LossNeedsStaleNack
=============================================================================
