------------------------ MODULE RudpCongestionProofs ------------------------
(***************************************************************************)
(* Proofs about the congestion controller, for every choice of its limits. *)
(* The window's invariant and the estimate's are independent: an action    *)
(* changes the one or the other.                                           *)
(***************************************************************************)
EXTENDS RudpCongestion, TLAPS

\* A number reduced modulo M is a number below M.
LEMMA Residue == \A n \in Nat, M \in Nat \ {0} : n % M \in 0..(M - 1)
  OBVIOUS

\* Half of a natural number is one.
LEMMA Half == \A n \in Nat : n \div 2 \in Nat
  OBVIOUS

\* What holds of the window, in every reachable state.
WindowInv == TypeOK /\ WindowNeverCloses /\ SlowStartBelowHalf

\* on_ack() started with a window that is at least the minimum, and with a
\* loss flag that excludes slow start, keeps the window's part of the invariant.
LEMMA OnAckKeeps ==
  ASSUME TypeOK, maxCwnd' \in Nat,
         NEW seq \in Nat, NEW w \in Nat, NEW slow \in BOOLEAN, NEW lost \in BOOLEAN,
         w >= MinCwnd,
         slow => ~lost /\ w <= Greater(MinCwnd, maxCwnd' \div 2),
         OnAck(seq, w, slow, lost)
  PROVE  /\ sndCwnd' \in Nat /\ slowStart' \in BOOLEAN /\ lossFlag' \in BOOLEAN
         /\ lastAck' \in Nat
         /\ sndCwnd' >= MinCwnd
         /\ slowStart' => ~lossFlag' /\ sndCwnd' <= Greater(MinCwnd, maxCwnd' \div 2)
         /\ ~lost => sndCwnd' >= w
<1>1. MinCwnd \in Nat \ {0} /\ lastAck \in Nat
  BY CwndAssumption DEF TypeOK
<1>2. CASE seq <= lastAck
  <2>1. sndCwnd' = w /\ slowStart' = slow /\ lossFlag' = lost /\ lastAck' = lastAck
    BY <1>2 DEF OnAck
  <2>2. slowStart' => ~lossFlag' /\ sndCwnd' <= Greater(MinCwnd, maxCwnd' \div 2)
    BY <2>1, Zenon
  <2>3. slowStart' \in BOOLEAN /\ lossFlag' \in BOOLEAN
    BY <2>1, Zenon
  <2>4. sndCwnd' \in Nat /\ lastAck' \in Nat /\ sndCwnd' >= MinCwnd /\ sndCwnd' >= w
    BY <1>1, <2>1
  <2>5. QED
    BY <2>2, <2>3, <2>4
<1>3. CASE seq > lastAck /\ slow
  <2> DEFINE half == maxCwnd' \div 2
             full == 2 * w >= half
  <2>1. /\ lastAck' = seq /\ slowStart' = ~full /\ lossFlag' = lost
        /\ sndCwnd' = IF full THEN Greater(MinCwnd, half) ELSE 2 * w
    <3>1. ~(seq <= lastAck) /\ slow
      BY <1>1, <1>3
    <3>2. QED
      BY <3>1, Zenon DEF OnAck
  <2>2. half \in Nat
    BY Half
  <2>3. ~lost /\ w <= Greater(MinCwnd, half)
    BY <1>3, Zenon
  <2> HIDE DEF half
  <2>4. CASE full
    <3>1. ~slowStart' /\ slowStart' \in BOOLEAN /\ lossFlag' \in BOOLEAN
      BY <2>1, <2>4, Zenon
    <3>2. sndCwnd' = Greater(MinCwnd, half)
      BY <2>1, <2>4
    <3>3. sndCwnd' \in Nat /\ sndCwnd' >= MinCwnd /\ sndCwnd' >= w /\ lastAck' \in Nat
      BY <1>1, <2>1, <2>2, <2>3, <3>2 DEF Greater
    <3>4. QED
      BY <3>1, <3>3
  <2>5. CASE ~full
    <3>1. ~lossFlag' /\ slowStart' \in BOOLEAN /\ lossFlag' \in BOOLEAN
      BY <2>1, <2>3, Zenon
    <3>2. sndCwnd' = 2 * w
      BY <2>1, <2>5
    <3>3. /\ sndCwnd' \in Nat /\ sndCwnd' >= MinCwnd /\ sndCwnd' >= w /\ lastAck' \in Nat
          /\ sndCwnd' <= Greater(MinCwnd, half)
      BY <1>1, <2>1, <2>2, <2>5, <3>2 DEF Greater
    <3>4. QED
      BY <3>1, <3>3 DEF half
  <2>6. QED
    BY <2>4, <2>5
<1>4. CASE seq > lastAck /\ ~slow
  <2> DEFINE half == maxCwnd' \div 2
  <2>1. /\ lastAck' = seq /\ lossFlag' = FALSE
        /\ sndCwnd' = IF lost THEN w ELSE w + 1
        /\ slowStart' = (~lost /\ w + 1 < half)
    <3>1. ~(seq <= lastAck) /\ ~slow
      BY <1>1, <1>4
    <3>2. QED
      BY <3>1, Zenon DEF OnAck
  <2>2. half \in Nat
    BY Half
  <2> HIDE DEF half
  <2>3. ~lossFlag' /\ slowStart' \in BOOLEAN /\ lossFlag' \in BOOLEAN
    BY <2>1, Zenon
  <2>4. /\ sndCwnd' \in Nat /\ sndCwnd' >= MinCwnd /\ lastAck' \in Nat
        /\ ~lost => sndCwnd' >= w
    BY <1>1, <2>1
  <2>5. slowStart' => sndCwnd' <= Greater(MinCwnd, half)
    <3> SUFFICES ASSUME slowStart' PROVE sndCwnd' <= Greater(MinCwnd, half)
      OBVIOUS
    <3>1. ~lost /\ w + 1 < half
      BY <2>1, Zenon
    <3>2. sndCwnd' = w + 1
      BY <2>1, <3>1
    <3>3. QED
      BY <1>1, <2>2, <3>1, <3>2 DEF Greater
  <2>6. QED
    BY <2>3, <2>4, <2>5 DEF half
<1>5. QED
  BY <1>1, <1>2, <1>3, <1>4

\* An acknowledgement keeps the invariant; it lets the window grow or stay,
\* and stay only while a loss is unresolved.
LEMMA AcknowledgedKeeps ==
  ASSUME WindowInv, NEW seq \in Nat, Acknowledged(seq)
  PROVE  WindowInv' /\ (~lossFlag => sndCwnd' >= sndCwnd)
                    /\ (lossFlag => sndCwnd' <= sndCwnd)
<1>1. /\ sndCwnd \in Nat /\ maxCwnd \in Nat /\ maxCwnd' = maxCwnd
      /\ slowStart \in BOOLEAN /\ lossFlag \in BOOLEAN
  BY CwndAssumption DEF WindowInv, TypeOK, Acknowledged
<1>2. OnAck(seq, sndCwnd, slowStart, lossFlag)
  BY DEF Acknowledged
<1>3. /\ sndCwnd' \in Nat /\ slowStart' \in BOOLEAN /\ lossFlag' \in BOOLEAN
      /\ lastAck' \in Nat
      /\ sndCwnd' >= MinCwnd
      /\ slowStart' => ~lossFlag' /\ sndCwnd' <= Greater(MinCwnd, maxCwnd' \div 2)
      /\ ~lossFlag => sndCwnd' >= sndCwnd
  <2>1. slowStart => ~lossFlag /\ sndCwnd <= Greater(MinCwnd, maxCwnd' \div 2)
    BY <1>1, Zenon DEF WindowInv, SlowStartBelowHalf
  <2>2. TypeOK /\ sndCwnd >= MinCwnd /\ maxCwnd' \in Nat
    BY <1>1 DEF WindowInv, WindowNeverCloses
  <2>3. QED
    BY <1>1, <1>2, <2>1, <2>2, OnAckKeeps, Zenon
<1>4. lossFlag => sndCwnd' <= sndCwnd
  <2> SUFFICES ASSUME lossFlag PROVE sndCwnd' <= sndCwnd
    OBVIOUS
  <2>1. ~slowStart
    BY Zenon DEF WindowInv, SlowStartBelowHalf
  <2>2. sndCwnd' = sndCwnd
    BY <1>2, <2>1, Zenon DEF OnAck
  <2>3. QED
    BY <1>1, <2>2
<1>5. WindowInv'
  BY <1>1, <1>3 DEF WindowInv, TypeOK, WindowNeverCloses, SlowStartBelowHalf,
                   Acknowledged, rttVars
<1>6. QED
  BY <1>3, <1>4, <1>5

\* A loss report keeps the invariant and does not let the window grow.
LEMMA LossReportedKeeps ==
  ASSUME WindowInv, NEW base \in Nat, NEW last \in Nat, LossReported(base, last)
  PROVE  WindowInv' /\ (lossFlag => sndCwnd' <= sndCwnd)
<1> DEFINE counts == lastAck < last
           w == IF counts THEN Greater(MinCwnd, TwoThirds(sndCwnd)) ELSE sndCwnd
<1>1. /\ sndCwnd \in Nat /\ sndCwnd >= MinCwnd /\ maxCwnd \in 0..(CwndModulus - 1)
      /\ MinCwnd \in Nat \ {0} /\ CwndModulus \in Nat \ {0}
  BY CwndAssumption DEF WindowInv, TypeOK, WindowNeverCloses
<1>2. maxCwnd' \in 0..(CwndModulus - 1)
  <2>1. (3 * maxCwnd + sndCwnd) \div 4 \in Nat
    BY <1>1
  <2>2. ((3 * maxCwnd + sndCwnd) \div 4) % CwndModulus \in 0..(CwndModulus - 1)
    BY <1>1, <2>1, Residue
  <2>3. maxCwnd' = maxCwnd \/ maxCwnd' = ((3 * maxCwnd + sndCwnd) \div 4) % CwndModulus
    BY Zenon DEF LossReported
  <2>4. QED
    BY <1>1, <2>2, <2>3
<1>3. w \in Nat /\ w >= MinCwnd /\ w <= sndCwnd
  BY <1>1 DEF Greater, TwoThirds
<1>4. OnAck(base, w, FALSE, TRUE)
  BY DEF LossReported
<1> HIDE DEF w
<1>5. /\ sndCwnd' \in Nat /\ slowStart' \in BOOLEAN /\ lossFlag' \in BOOLEAN
      /\ lastAck' \in Nat
      /\ sndCwnd' >= MinCwnd
      /\ slowStart' => ~lossFlag' /\ sndCwnd' <= Greater(MinCwnd, maxCwnd' \div 2)
  <2>1. TypeOK /\ maxCwnd' \in Nat /\ FALSE \in BOOLEAN /\ TRUE \in BOOLEAN
    BY <1>1, <1>2 DEF WindowInv
  <2>2. FALSE => ~TRUE /\ w <= Greater(MinCwnd, maxCwnd' \div 2)
    OBVIOUS
  <2>3. QED
    BY <1>3, <1>4, <2>1, <2>2, OnAckKeeps, Zenon
<1>6. sndCwnd' = w
  BY <1>4, Zenon DEF OnAck
<1>7. WindowInv'
  BY <1>2, <1>5 DEF WindowInv, TypeOK, WindowNeverCloses, SlowStartBelowHalf,
                   LossReported, rttVars
<1>8. QED
  BY <1>1, <1>3, <1>6, <1>7

\* The timer's decision keeps the invariant and does not let the window grow.
LEMMA DecideKeeps ==
  ASSUME WindowInv, Decide
  PROVE  WindowInv' /\ sndCwnd' <= sndCwnd
<1>1. sndCwnd \in Nat /\ sndCwnd >= MinCwnd /\ MinCwnd \in Nat \ {0}
  BY CwndAssumption DEF WindowInv, TypeOK, WindowNeverCloses
<1>2. sndCwnd' = sndCwnd \/ sndCwnd' = Greater(MinCwnd, EightNinths(sndCwnd))
  BY Zenon DEF Decide
<1>3. sndCwnd' \in Nat /\ sndCwnd' >= MinCwnd /\ sndCwnd' <= sndCwnd
  BY <1>1, <1>2 DEF Greater, EightNinths
<1>4. ~slowStart' /\ slowStart' = slowStart
  BY Zenon DEF Decide
<1>5. TypeOK'
  BY <1>3 DEF WindowInv, TypeOK, Decide, rttVars
<1>6. QED
  BY <1>3, <1>4, <1>5 DEF WindowInv, WindowNeverCloses, SlowStartBelowHalf

\* A round trip sample keeps the estimates in their limits.
LEMMA SetRttKeeps ==
  ASSUME WindowInv, NEW sample \in Nat, SetRtt(sample)
  PROVE  WindowInv' /\ RttWithinLimits' /\ sndCwnd' = sndCwnd
<1>1. UNCHANGED windowVars /\ path' = path
  BY Zenon DEF SetRtt
<1>2. rtt \in Nat /\ rttVar \in Nat /\ MinRtt \in Nat /\ MaxRtt \in Nat /\ MinRtt <= MaxRtt
  BY RttAssumption DEF WindowInv, TypeOK
<1>3. \E r \in Nat, v \in Nat :
        /\ rtt' = Lesser(MaxRtt, Greater(MinRtt, r))
        /\ rttVar' = Lesser(MaxRtt \div 2, Greater(MinRtt \div 2, v))
  <2> DEFINE r == IF rttFirst THEN sample ELSE (7 * rtt + sample) \div 8
             v == IF rttFirst THEN sample \div 2
                  ELSE (3 * rttVar + Distance(rtt, sample)) \div 4
  <2>1. r \in Nat /\ v \in Nat
    BY <1>2 DEF Distance
  <2>2. /\ rtt' = Lesser(MaxRtt, Greater(MinRtt, r))
        /\ rttVar' = Lesser(MaxRtt \div 2, Greater(MinRtt \div 2, v))
    BY DEF SetRtt
  <2>3. QED
    BY <2>1, <2>2, Zenon
<1>4. rtt' \in Nat /\ rttVar' \in Nat /\ RttWithinLimits'
  BY <1>2, <1>3 DEF RttWithinLimits, Lesser, Greater
<1>5. rttFirst' \in BOOLEAN
  BY DEF SetRtt
<1>6. QED
  BY <1>1, <1>4, <1>5 DEF WindowInv, TypeOK, WindowNeverCloses, SlowStartBelowHalf, windowVars

-----------------------------------------------------------------------------
\* The inductive invariant.
IInv == WindowInv /\ RttWithinLimits

\* The controller starts in the invariant.
LEMMA InitKeeps == Init => IInv
<1> SUFFICES ASSUME Init PROVE IInv
  OBVIOUS
<1>1. TypeOK
  <2>1. DefaultRtt \div 2 \in Nat
    BY RttAssumption, Half
  <2>2. slowStart \in BOOLEAN /\ lossFlag \in BOOLEAN /\ rttFirst \in BOOLEAN
    BY Zenon DEF Init
  <2>3. /\ sndCwnd \in Nat /\ maxCwnd \in 0..(CwndModulus - 1) /\ lastAck \in Nat
        /\ resendCount \in Nat /\ rtt \in Nat /\ rttVar \in Nat /\ path \in Nat
    BY <2>1, CwndAssumption, RttAssumption DEF Init
  <2>4. QED
    BY <2>2, <2>3 DEF TypeOK
<1>2. WindowNeverCloses /\ RttWithinLimits
  BY CwndAssumption, RttAssumption DEF Init, WindowNeverCloses, RttWithinLimits, Greater
<1>3. SlowStartBelowHalf
  BY CwndAssumption DEF Init, SlowStartBelowHalf, Greater
<1>4. QED
  BY <1>1, <1>2, <1>3 DEF IInv, WindowInv

\* Every step keeps both invariants.
LEMMA NextKeeps ==
  ASSUME IInv, [Next]_vars
  PROVE  IInv' /\ (lossFlag => sndCwnd' <= sndCwnd)
<1>1. ASSUME UNCHANGED rttVars, WindowInv' PROVE IInv'
  BY <1>1 DEF IInv, RttWithinLimits, rttVars
<1>2. CASE \E seq \in 0..MaxSeq : Acknowledged(seq)
  <2>1. PICK seq \in 0..MaxSeq : Acknowledged(seq)
    BY <1>2
  <2>2. seq \in Nat /\ WindowInv /\ UNCHANGED rttVars
    BY <2>1, CwndAssumption DEF IInv, Acknowledged
  <2>3. WindowInv' /\ (lossFlag => sndCwnd' <= sndCwnd)
    BY <2>1, <2>2, AcknowledgedKeeps, Zenon
  <2>4. QED
    BY <1>1, <2>2, <2>3, Zenon
<1>3. CASE \E base \in 0..MaxSeq, last \in 1..MaxSeq :
             base < last /\ LossReported(base, last)
  <2>1. PICK base \in 0..MaxSeq, last \in 1..MaxSeq : base < last /\ LossReported(base, last)
    BY <1>3
  <2>2. base \in Nat /\ last \in Nat /\ WindowInv /\ UNCHANGED rttVars
    BY <2>1, CwndAssumption DEF IInv, LossReported
  <2>3. WindowInv' /\ (lossFlag => sndCwnd' <= sndCwnd)
    BY <2>1, <2>2, LossReportedKeeps, Zenon
  <2>4. QED
    BY <1>1, <2>2, <2>3, Zenon
<1>4. CASE Resent
  <2>1. sndCwnd' = sndCwnd /\ UNCHANGED rttVars
    BY <1>4 DEF Resent
  <2>2. sndCwnd \in Nat
    BY DEF IInv, WindowInv, TypeOK
  <2>3. WindowInv'
    BY <1>4 DEF IInv, WindowInv, TypeOK, WindowNeverCloses, SlowStartBelowHalf, Resent, rttVars
  <2>4. QED
    BY <1>1, <2>1, <2>2, <2>3
<1>5. CASE Decide
  BY <1>1, <1>5, DecideKeeps DEF IInv, Decide
<1>6. CASE SetRtt(path)
  <2>1. path \in Nat /\ sndCwnd \in Nat
    BY DEF IInv, WindowInv, TypeOK
  <2>2. WindowInv' /\ RttWithinLimits' /\ sndCwnd' = sndCwnd
    BY <1>6, <2>1, SetRttKeeps DEF IInv
  <2>3. QED
    BY <2>1, <2>2 DEF IInv
<1>7. CASE Delay
  <2>1. path' \in Nat
    BY <1>7, RttAssumption DEF Delay
  <2>2. UNCHANGED <<windowVars, rtt, rttVar, rttFirst>> /\ sndCwnd \in Nat
    BY <1>7 DEF Delay, IInv, WindowInv, TypeOK
  <2>3. WindowInv' /\ RttWithinLimits'
    BY <2>1, <2>2 DEF IInv, WindowInv, TypeOK, WindowNeverCloses, SlowStartBelowHalf,
                      RttWithinLimits, windowVars
  <2>4. QED
    BY <2>2, <2>3 DEF IInv, windowVars
<1>8. CASE UNCHANGED vars
  <2>1. sndCwnd' = sndCwnd /\ UNCHANGED windowVars /\ UNCHANGED rttVars
    BY <1>8 DEF vars, windowVars, rttVars
  <2>2. WindowInv' /\ sndCwnd \in Nat
    BY <2>1 DEF IInv, WindowInv, TypeOK, WindowNeverCloses, SlowStartBelowHalf,
                windowVars, rttVars
  <2>3. QED
    BY <1>1, <2>1, <2>2
<1>9. QED
  BY <1>2, <1>3, <1>4, <1>5, <1>6, <1>7, <1>8 DEF Next

\* The inductive invariant: the window's, and the estimates' limits.
LEMMA Invariance == Spec => []IInv
<1>1. IInv /\ [Next]_vars => IInv'
  BY NextKeeps
<1>2. QED
  BY InitKeeps, <1>1, PTL DEF Spec

\* The variables hold values of their types.
THEOREM TypeCorrect == Spec => []TypeOK
<1>1. IInv => TypeOK
  BY DEF IInv, WindowInv
<1>2. QED
  BY Invariance, <1>1, PTL

\* The sender may always send at least MIN_CWND_SIZE segments.
THEOREM NeverCloses == Spec => []WindowNeverCloses
<1>1. IInv => WindowNeverCloses
  BY DEF IInv, WindowInv
<1>2. QED
  BY Invariance, <1>1, PTL

\* Slow start stays below half the ceiling, and no loss is known during it.
THEOREM SlowStartBounded == Spec => []SlowStartBelowHalf
<1>1. IInv => SlowStartBelowHalf
  BY DEF IInv, WindowInv
<1>2. QED
  BY Invariance, <1>1, PTL

\* The round trip estimates never leave their limits.
THEOREM RttBounded == Spec => []RttWithinLimits
<1>1. IInv => RttWithinLimits
  BY DEF IInv
<1>2. QED
  BY Invariance, <1>1, PTL

\* No acknowledgement shrinks the window.
THEOREM AckMonotone == Spec => AckNeverShrinks
<1>1. ASSUME IInv, [Next]_vars
      PROVE  [\A seq \in 0..MaxSeq : Acknowledged(seq) => sndCwnd' >= sndCwnd]_vars
  <2>1. ASSUME NEW seq \in 0..MaxSeq, Acknowledged(seq) PROVE sndCwnd' >= sndCwnd
    <3>1. seq \in Nat /\ WindowInv /\ sndCwnd \in Nat
      <4>1. WindowInv
        BY <1>1 DEF IInv
      <4>2. sndCwnd \in Nat
        BY <4>1 DEF WindowInv, TypeOK
      <4>3. seq \in Nat
        BY CwndAssumption
      <4>4. QED
        BY <4>1, <4>2, <4>3
    <3>2. CASE ~lossFlag
      BY <2>1, <3>1, <3>2, AcknowledgedKeeps
    <3>3. CASE lossFlag
      <4>1. ~slowStart /\ OnAck(seq, sndCwnd, slowStart, lossFlag)
        BY <2>1, <3>1, <3>3, Zenon DEF WindowInv, SlowStartBelowHalf, Acknowledged
      <4>2. sndCwnd' = sndCwnd
        BY <3>3, <4>1, Zenon DEF OnAck
      <4>3. QED
        BY <3>1, <4>2
    <3>4. QED
      BY <3>2, <3>3
  <2>2. QED
    BY <2>1
<1>2. QED
  BY Invariance, <1>1, PTL DEF Spec, AckNeverShrinks

\* The window does not grow while a loss is unresolved.
THEOREM NoGrowth == Spec => NoGrowthWhileLossy
<1>1. IInv /\ [Next]_vars => [lossFlag => sndCwnd' <= sndCwnd]_vars
  BY NextKeeps
<1>2. QED
  BY Invariance, <1>1, PTL DEF Spec, NoGrowthWhileLossy
=============================================================================
