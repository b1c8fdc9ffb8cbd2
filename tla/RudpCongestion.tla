--------------------------- MODULE RudpCongestion ---------------------------
(***************************************************************************)
(* RUDPCCCObject, the congestion controller of one RUDP socket: the send   *)
(* window that attempt_send() may fill, and the round trip estimate that   *)
(* decides when a segment has timed out.  Its inputs are what the path and *)
(* the peer can produce: acknowledgements and loss reports that are new,   *)
(* late or repeated, round trip samples of any length, resends between two *)
(* decisions of the timer.  The clock is abstracted: whether ten round     *)
(* trips have passed is a choice.                                          *)
(***************************************************************************)
EXTENDS Integers

CONSTANTS MinCwnd,        \* MIN_CWND_SIZE
          DefaultCwnd,    \* DEFAULT_CWND_SIZE
          ResendFloor,    \* resends in a period that are always tolerated (8)
          CwndModulus,    \* max_cwnd_ is a uint16_t: 2^16
          MinRtt, DefaultRtt, MaxRtt,   \* MIN_RTT, DEFAULT_RTT, MAX_RTT
          Samples,        \* round trip times of the path, in milliseconds
          MaxSeq,         \* bound: the last sequence number acknowledged
          MaxResend       \* bound: resends counted between two decisions

ASSUME CwndAssumption ==
         /\ MinCwnd \in Nat \ {0}
         /\ DefaultCwnd \in Nat /\ DefaultCwnd >= MinCwnd
         /\ ResendFloor \in Nat
         /\ CwndModulus \in Nat /\ CwndModulus > DefaultCwnd
         /\ MaxSeq \in Nat /\ MaxResend \in Nat
ASSUME RttAssumption ==
         /\ MinRtt \in Nat \ {0} /\ DefaultRtt \in Nat /\ MaxRtt \in Nat
         /\ MinRtt <= DefaultRtt /\ DefaultRtt <= MaxRtt
         /\ Samples \subseteq Nat

VARIABLES sndCwnd,      \* snd_cwnd_
          maxCwnd,      \* max_cwnd_
          slowStart,    \* slow_start_
          lossFlag,     \* loss_flag_
          lastAck,      \* last_ack_id_
          resendCount,  \* resend_count_
          rtt,          \* rtt_
          rttVar,       \* rtt_var_
          rttFirst,     \* rtt_first_
          path          \* the round trip time of the path, which samples measure

windowVars == <<sndCwnd, maxCwnd, slowStart, lossFlag, lastAck, resendCount>>
rttVars == <<rtt, rttVar, rttFirst, path>>
vars == <<windowVars, rttVars>>

Greater(a, b) == IF a > b THEN a ELSE b
Lesser(a, b)  == IF a > b THEN b ELSE a
Distance(a, b) == IF a > b THEN a - b ELSE b - a

\* ceil(w / 1.5) and ceil(w / 1.125)
TwoThirds(w)   == (2 * w + 2) \div 3
EightNinths(w) == (8 * w + 8) \div 9

TypeOK == /\ sndCwnd \in Nat
          /\ maxCwnd \in 0..(CwndModulus - 1)
          /\ slowStart \in BOOLEAN /\ lossFlag \in BOOLEAN
          /\ lastAck \in Nat /\ resendCount \in Nat
          /\ rtt \in Nat /\ rttVar \in Nat /\ rttFirst \in BOOLEAN
          /\ path \in Nat

\* reset() and init(), with sequence numbers that start at 1.
Init == /\ sndCwnd = MinCwnd
        /\ maxCwnd = DefaultCwnd
        /\ slowStart = TRUE
        /\ lossFlag = FALSE
        /\ lastAck = 0
        /\ resendCount = 0
        /\ rtt = DefaultRtt
        /\ rttVar = DefaultRtt \div 2
        /\ rttFirst = TRUE
        /\ path = MaxRtt + 1        \* no answer has arrived yet

-----------------------------------------------------------------------------
\* The mutants in this module are plausible slips in the definition that
\* follows; the runs show that a property notices each of them.
\* Mutant: slow start compares with the whole ceiling and stops at half of it.
OnAckWholeCeiling(seq, w, slow, lost) ==
  IF seq <= lastAck
  THEN sndCwnd' = w /\ slowStart' = slow /\ lossFlag' = lost /\ UNCHANGED lastAck
  ELSE /\ lastAck' = seq
       /\ IF slow
          THEN LET full == 2 * w >= maxCwnd'
               IN /\ sndCwnd' = IF full THEN Greater(MinCwnd, maxCwnd' \div 2) ELSE 2 * w
                  /\ slowStart' = ~full
                  /\ lossFlag' = lost
          ELSE /\ lossFlag' = FALSE
               /\ sndCwnd' = IF lost THEN w ELSE w + 1
               /\ slowStart' = (~lost /\ w + 1 < maxCwnd' \div 2)

\* Mutant: the loss flag is cleared and the window grows all the same.
OnAckGrows(seq, w, slow, lost) ==
  IF seq <= lastAck
  THEN sndCwnd' = w /\ slowStart' = slow /\ lossFlag' = lost /\ UNCHANGED lastAck
  ELSE /\ lastAck' = seq
       /\ sndCwnd' = w + 1
       /\ lossFlag' = FALSE
       /\ slowStart' = (w + 1 < maxCwnd' \div 2)

\* on_ack(seq) for a controller whose window, slow start and loss flag are
\* w, slow and lost when it is called.
OnAck(seq, w, slow, lost) ==
  IF seq <= lastAck
  THEN sndCwnd' = w /\ slowStart' = slow /\ lossFlag' = lost /\ UNCHANGED lastAck
  ELSE /\ lastAck' = seq
       /\ IF slow
          THEN LET full == 2 * w >= maxCwnd' \div 2
               IN /\ sndCwnd' = IF full THEN Greater(MinCwnd, maxCwnd' \div 2) ELSE 2 * w
                  /\ slowStart' = ~full
                  /\ lossFlag' = lost
          ELSE /\ lossFlag' = FALSE
               /\ sndCwnd' = IF lost THEN w ELSE w + 1
               /\ slowStart' = (~lost /\ w + 1 < maxCwnd' \div 2)

\* process_data() and process_data_ack()
Acknowledged(seq) ==
  /\ UNCHANGED <<maxCwnd, resendCount, rttVars>>
  /\ OnAck(seq, sndCwnd, slowStart, lossFlag)

\* Mutant: the reduced window is not kept above MIN_CWND_SIZE.
LossUnbounded(base, lastLost) ==
  LET counts == lastAck < lastLost
  IN /\ maxCwnd' = IF counts /\ ~lossFlag
                   THEN ((3 * maxCwnd + sndCwnd) \div 4) % CwndModulus ELSE maxCwnd
     /\ OnAck(base, IF counts THEN TwoThirds(sndCwnd) ELSE sndCwnd, FALSE, TRUE)
     /\ UNCHANGED <<resendCount, rttVars>>

\* Mutant: a loss does not end slow start.
LossKeepsSlowStart(base, lastLost) ==
  LET counts == lastAck < lastLost
  IN /\ maxCwnd' = IF counts /\ ~lossFlag
                   THEN ((3 * maxCwnd + sndCwnd) \div 4) % CwndModulus ELSE maxCwnd
     /\ OnAck(base,
              IF counts THEN Greater(MinCwnd, TwoThirds(sndCwnd)) ELSE sndCwnd,
              slowStart, TRUE)
     /\ UNCHANGED <<resendCount, rttVars>>

\* process_data_nack(): on_loss(base, ..) with lastLost the last segment that
\* is reported lost, then on_ack(base).
LossReported(base, lastLost) ==
  LET counts == lastAck < lastLost
  IN /\ maxCwnd' = IF counts /\ ~lossFlag
                   THEN ((3 * maxCwnd + sndCwnd) \div 4) % CwndModulus ELSE maxCwnd
     /\ OnAck(base,
              IF counts THEN Greater(MinCwnd, TwoThirds(sndCwnd)) ELSE sndCwnd,
              FALSE, TRUE)
     /\ UNCHANGED <<resendCount, rttVars>>

\* add_resend()
Resent == /\ resendCount < MaxResend
          /\ resendCount' = resendCount + 1
          /\ UNCHANGED <<sndCwnd, maxCwnd, slowStart, lossFlag, lastAck, rttVars>>

\* Mutant: the tolerated resends are taken off the count, which is not reset.
DecideSubtracts ==
  /\ ~slowStart
  /\ sndCwnd' = IF resendCount > Greater(sndCwnd \div 2, ResendFloor)
                THEN Greater(MinCwnd, EightNinths(sndCwnd)) ELSE sndCwnd
  /\ resendCount' = resendCount - Greater(sndCwnd \div 2, ResendFloor)
  /\ UNCHANGED <<maxCwnd, slowStart, lossFlag, lastAck, rttVars>>

\* on_timer(), every ten round trips
Decide == /\ ~slowStart
          /\ sndCwnd' = IF resendCount > Greater(sndCwnd \div 2, ResendFloor)
                        THEN Greater(MinCwnd, EightNinths(sndCwnd)) ELSE sndCwnd
          /\ resendCount' = 0
          /\ UNCHANGED <<maxCwnd, slowStart, lossFlag, lastAck, rttVars>>

\* Mutant: the estimate is not kept above MIN_RTT.
SetRttUnbounded(sample) ==
  /\ sample <= MaxRtt
  /\ rtt' = IF rttFirst THEN sample ELSE (7 * rtt + sample) \div 8
  /\ rttVar' = Greater(MinRtt \div 2,
                       IF rttFirst THEN sample \div 2
                       ELSE (3 * rttVar + Distance(rtt, sample)) \div 4)
  /\ rttFirst' = FALSE
  /\ UNCHANGED <<windowVars, path>>

\* Mutant: the two terms of the average are divided one by one.
SetRttTruncated(sample) ==
  /\ sample <= MaxRtt
  /\ LET r == IF rttFirst THEN sample ELSE 7 * (rtt \div 8) + sample \div 8
         v == IF rttFirst THEN sample \div 2
              ELSE (3 * rttVar + Distance(rtt, sample)) \div 4
     IN /\ rtt' = Lesser(MaxRtt, Greater(MinRtt, r))
        /\ rttVar' = Lesser(MaxRtt \div 2, Greater(MinRtt \div 2, v))
  /\ rttFirst' = FALSE
  /\ UNCHANGED <<windowVars, path>>

\* set_rtt(sample), on SYN2, SYN_ACK and KEEPALIVE_ACK
SetRtt(sample) ==
  /\ sample <= MaxRtt
  /\ LET r == IF rttFirst THEN sample ELSE (7 * rtt + sample) \div 8
         v == IF rttFirst THEN sample \div 2
              ELSE (3 * rttVar + Distance(rtt, sample)) \div 4
     IN /\ rtt' = Lesser(MaxRtt, Greater(MinRtt, r))
        /\ rttVar' = Lesser(MaxRtt \div 2, Greater(MinRtt \div 2, v))
  /\ rttFirst' = FALSE
  /\ UNCHANGED <<windowVars, path>>

\* The path changes.
Delay == /\ path' \in Samples
         /\ UNCHANGED <<windowVars, rtt, rttVar, rttFirst>>

Next == \/ \E seq \in 0..MaxSeq : Acknowledged(seq)
        \/ \E base \in 0..MaxSeq, last \in 1..MaxSeq :
             base < last /\ LossReported(base, last)
        \/ Resent
        \/ Decide
        \/ SetRtt(path)
        \/ Delay

Spec == Init /\ [][Next]_vars

\* Answers to SYN and KEEPALIVE keep arriving.
FairSpec == Spec /\ WF_vars(SetRtt(path))

-----------------------------------------------------------------------------
\* The window never closes: whatever is reported lost, the sender may send
\* MIN_CWND_SIZE segments.  RudpTransfer relies on it (SizeAssumption).
WindowNeverCloses == sndCwnd >= MinCwnd

\* Slow start stops at half the ceiling and is over once a loss is known.
SlowStartBelowHalf ==
  slowStart => ~lossFlag /\ sndCwnd <= Greater(MinCwnd, maxCwnd \div 2)

\* An acknowledgement alone never shrinks the window, although leaving slow
\* start sets it to half the ceiling and the ceiling is lowered by losses.
AckNeverShrinks ==
  [][\A seq \in 0..MaxSeq : Acknowledged(seq) => sndCwnd' >= sndCwnd]_vars

\* After a loss the window does not grow until a later acknowledgement has
\* cleared the flag ("loss: do not accelerate").
NoGrowthWhileLossy == [][lossFlag => sndCwnd' <= sndCwnd]_vars

\* The estimates stay within the limits the timeouts are computed from.
RttWithinLimits == /\ MinRtt <= rtt /\ rtt <= MaxRtt
                   /\ MinRtt \div 2 <= rttVar
                   /\ rttVar <= Greater(MaxRtt \div 2, MinRtt \div 2)

\* When the round trip of the path stops changing, the estimate settles on it,
\* up to what the integer division loses: less than eight milliseconds below,
\* none above.
RttSettles ==
  \A sample \in Samples \cap MinRtt..MaxRtt :
    <>[](path = sample) => <>[](rtt <= sample /\ sample - rtt < 8)
=============================================================================
