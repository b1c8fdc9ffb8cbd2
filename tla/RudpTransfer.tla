---------------------------- MODULE RudpTransfer ----------------------------
(***************************************************************************)
(* Data transfer between two connected RUDP sockets: the send buffer, the  *)
(* receive buffer and the datagrams between them.                          *)
(*                                                                         *)
(* Sequence numbers start at 1 (the code starts them at rand() + 1 and     *)
(* tells the peer in SYN / SYN2).  The bytes written at an endpoint are    *)
(* numbered 1, 2, ...: a segment is the interval of bytes it carries.      *)
(* Time stamps are abstracted: which segments have timed out, whether an   *)
(* acknowledgement is due and whether attempt_send is rate limited are     *)
(* choices.  The window that the congestion controller grants is a choice  *)
(* from Cwnds each time it is asked for (RudpCongestion models the         *)
(* controller itself).                                                     *)
(***************************************************************************)
EXTENDS Integers, Sequences, FiniteSets

CONSTANTS Endpoint,      \* the two ends of the connection
          Peer,          \* Peer[p] is the other end
          MaxSegment,    \* MAX_SEGMENT_SIZE, in bytes
          BufferSize,    \* buffer_size_: above it send() accepts nothing
          MaxWrite,      \* the largest data_size of one send()
          SeqInterval,   \* MAX_SEQ_INTNAL
          Cwnds,         \* the send windows the congestion controller grants
          Nagle,         \* nagle_
          NagleSlack,    \* a segment this much short of full waits (256)
          ReadSizes,     \* the data_size of a recv()
          Budget,        \* Budget[p]: bytes the application at p writes
          NetCap,        \* datagrams the path holds in one direction
          Duplicates     \* whether the path may deliver a datagram twice

ASSUME EndpointAssumption ==
         /\ Peer \in [Endpoint -> Endpoint]
         /\ \A p \in Endpoint : Peer[p] # p /\ Peer[Peer[p]] = p
ASSUME SizeAssumption ==
         /\ MaxSegment \in Nat \ {0}
         /\ BufferSize \in Nat \ {0}
         /\ MaxWrite \in Nat \ {0}
         /\ NagleSlack \in Nat
         /\ ReadSizes \subseteq Nat \ {0}
         /\ Cwnds \subseteq Nat \ {0} /\ Cwnds # {}
         /\ Budget \in [Endpoint -> Nat]
         /\ NetCap \in Nat \ {0}
         /\ Nagle \in BOOLEAN /\ Duplicates \in BOOLEAN
\* No relation to the sizes above: the buffers hold 2 MiB (RUDP_SEND_BUFFER),
\* which may be cut into far more than MAX_SEQ_INTNAL segments.
ASSUME IntervalAssumption == SeqInterval \in Nat \ {0}

VARIABLES
  \* send buffer
  cut,          \* cut[p][s]: the last byte of segment s; 1..Len(cut[p]) are made
  sent,         \* send_data_ holds the segments sent[p]+1 .. Len(cut[p])
  cwndMax,      \* cwnd_max_seq_
  sendWindow,   \* the keys of send_window_
  lossSet,      \* loss_set_
  bufferData,   \* buffer_data_size_
  \* receive buffer
  firstSeq,     \* first_seq_
  maxSeq,       \* max_seq_
  recvWindow,   \* recv_window_: out of order segments, seq |-> bytes
  lossMap,      \* the keys of loss_map_
  recvData,     \* recv_data_: what recv() can take
  \* the application and the path
  consumed,     \* the bytes the application at p has read
  net           \* net[p]: the datagrams on their way to p

sendVars == <<cut, sent, cwndMax, sendWindow, lossSet, bufferData>>
recvVars == <<firstSeq, maxSeq, recvWindow, lossMap, recvData>>
vars == <<sendVars, recvVars, consumed, net>>

MinOf(a, b) == IF a <= b THEN a ELSE b
MaxOf(a, b) == IF a >= b THEN a ELSE b

\* The last byte of segment s of a stream cut at c.
Offset(c, s) == IF s = 0 THEN 0 ELSE c[s]
Total(c) == Offset(c, Len(c))

Payload == [lo : Nat, hi : Nat]
Bytes(c, s)   == [lo |-> Offset(c, s - 1) + 1, hi |-> c[s]]
\* The mutants in this module are plausible slips in the definition that
\* follows; the runs show that a property notices each of them.
\* Mutant: the piggybacked acknowledgement is one too high.
DataAcksNext(s, a, c) == [type |-> "DATA", seq |-> s, ack |-> a + 1, bytes |-> Bytes(c, s)]
Data(s, a, c) == [type |-> "DATA", seq |-> s, ack |-> a, bytes |-> Bytes(c, s)]
\* Mutants: the next segment, or the one before the last, is acknowledged.
AckPrevious(a) == [type |-> "ACK", ack |-> a - 1]
Ack(a)        == [type |-> "ACK", ack |-> a]
\* Mutant: base_seq_ is the first segment missing.
NackMissing(b, lost) == [type |-> "NACK", base |-> b + 1, lost |-> lost]
Nack(b, lost) == [type |-> "NACK", base |-> b, lost |-> lost]

Packet == [type : {"DATA"}, seq : Nat, ack : Nat, bytes : Payload]
            \cup [type : {"ACK"}, ack : Nat]
            \cup [type : {"NACK"}, base : Nat, lost : SUBSET Nat]

TypeOK ==
  /\ cut \in [Endpoint -> Seq(Nat)]
  /\ sent \in [Endpoint -> Nat]
  /\ cwndMax \in [Endpoint -> Nat]
  /\ sendWindow \in [Endpoint -> SUBSET Nat]
  /\ lossSet \in [Endpoint -> SUBSET Nat]
  /\ bufferData \in [Endpoint -> Nat]
  /\ firstSeq \in [Endpoint -> Nat]
  /\ maxSeq \in [Endpoint -> Nat]
  /\ recvWindow = [p \in Endpoint |-> recvWindow[p]]
  /\ \A p \in Endpoint : /\ DOMAIN recvWindow[p] \subseteq Nat
                         /\ recvWindow[p] \in [DOMAIN recvWindow[p] -> Payload]
  /\ lossMap \in [Endpoint -> SUBSET Nat]
  /\ recvData \in [Endpoint -> Seq(Payload)]
  /\ consumed \in [Endpoint -> Seq(Nat)]
  /\ net \in [Endpoint -> SUBSET Packet]

\* Both sockets are CONNECTED and know where the other's numbers start.
Init ==
  /\ cut = [p \in Endpoint |-> <<>>]
  /\ sent = [p \in Endpoint |-> 0]
  /\ cwndMax = [p \in Endpoint |-> 1]
  /\ sendWindow = [p \in Endpoint |-> {}]
  /\ lossSet = [p \in Endpoint |-> {}]
  /\ bufferData = [p \in Endpoint |-> 0]
  /\ firstSeq = [p \in Endpoint |-> 0]
  /\ maxSeq = [p \in Endpoint |-> 0]
  /\ recvWindow = [p \in Endpoint |-> <<>>]
  /\ lossMap = [p \in Endpoint |-> {}]
  /\ recvData = [p \in Endpoint |-> <<>>]
  /\ consumed = [p \in Endpoint |-> <<>>]
  /\ net = [p \in Endpoint |-> {}]

-----------------------------------------------------------------------------
(* The path.  p sends the datagrams of out to its peer; any of them may be *)
(* lost, and they are when the path is full.  `in' are those that p has    *)
(* just taken from the path.                                               *)

Transmit(p, in, out) ==
  \E kept \in SUBSET out, gone \in (IF Duplicates THEN {{}, in} ELSE {in}) :
    /\ kept \subseteq net[Peer[p]] \/ Cardinality(net[Peer[p]] \cup kept) <= NetCap
    /\ net' = [net EXCEPT ![p] = @ \ gone, ![Peer[p]] = @ \cup kept]

(* attempt_send(): with send window W and loss set L it resends the        *)
(* segments of `again' (those that timed out), then moves `fresh' segments *)
(* from send_data_ to the window.  It does nothing within 100 ms of the    *)
(* last call.  `in' was received and `out' already sent by the caller.     *)

\* Mutant: only reported losses are sent again.
ResendableLost(W, L) == L \cap W
Resendable(W, L) == IF L # {} THEN L \cap W ELSE W

\* A segment NAGLE keeps back while the window is not empty.
Small(c, s) == c[s] - Offset(c, s - 1) < MaxSegment - NagleSlack

\* Mutant: a segment is sent when the window is full.
AttemptSendOver(p, W, L, in, out) ==
  \/ /\ sendWindow' = [sendWindow EXCEPT ![p] = W]
     /\ lossSet' = [lossSet EXCEPT ![p] = L]
     /\ UNCHANGED <<sent, cwndMax>>
     /\ Transmit(p, in, out)
  \/ \E w \in Cwnds, again \in SUBSET Resendable(W, L) :
       LET fit == IF Cardinality(again) >= w THEN 0
                  ELSE MaxOf(0, MinOf(Len(cut'[p]) - sent[p], w + 1 - Cardinality(W)))
       IN \E fresh \in 0..fit :
            LET last == sent[p] + fresh
            IN /\ Cardinality(again) <= w
               /\ sendWindow' = [sendWindow EXCEPT ![p] = W \cup (sent[p] + 1)..last]
               /\ lossSet' = [lossSet EXCEPT ![p] = L \ again]
               /\ sent' = [sent EXCEPT ![p] = last]
               /\ cwndMax' = [cwndMax EXCEPT ![p] = MaxOf(@, last)]
               /\ Transmit(p, in, out \cup
                     {Data(s, firstSeq[p], cut'[p]) : s \in again \cup (sent[p] + 1)..last})

AttemptSend(p, W, L, in, out) ==
  \/ /\ sendWindow' = [sendWindow EXCEPT ![p] = W]
     /\ lossSet' = [lossSet EXCEPT ![p] = L]
     /\ UNCHANGED <<sent, cwndMax>>
     /\ Transmit(p, in, out)
  \/ \E w \in Cwnds, again \in SUBSET Resendable(W, L) :
       LET fit == IF Cardinality(again) >= w THEN 0
                  ELSE MaxOf(0, MinOf(Len(cut'[p]) - sent[p], w - Cardinality(W)))
       IN \E fresh \in 0..fit :
            LET last == sent[p] + fresh
            IN /\ Cardinality(again) <= w
               /\ fresh < fit => /\ Nagle /\ Cardinality(W) + fresh > 0
                                 /\ Small(cut'[p], last + 1)
               /\ sendWindow' = [sendWindow EXCEPT ![p] = W \cup (sent[p] + 1)..last]
               /\ lossSet' = [lossSet EXCEPT ![p] = L \ again]
               /\ sent' = [sent EXCEPT ![p] = last]
               /\ cwndMax' = [cwndMax EXCEPT ![p] = MaxOf(@, last)]
               /\ Transmit(p, in, out \cup
                     {Data(s, firstSeq[p], cut'[p]) : s \in again \cup (sent[p] + 1)..last})

-----------------------------------------------------------------------------
(* The application.                                                        *)

\* A write of k bytes: fill the last unsent segment, then cut the rest into
\* segments of MaxSegment bytes.
Extend(c, s, k) ==
  LET room  == IF Len(c) > s THEN MaxSegment - (c[Len(c)] - Offset(c, Len(c) - 1)) ELSE 0
      fill  == MinOf(room, k)
      grown == [i \in 1..Len(c) |-> IF i = Len(c) THEN c[i] + fill ELSE c[i]]
      base  == Total(c) + fill
      more  == (k - fill + MaxSegment - 1) \div MaxSegment
  IN grown \o [i \in 1..more |-> MinOf(base + i * MaxSegment, Total(c) + k)]

\* Mutant: bytes that go into the last segment are not counted.
WriteUncounted(p) ==
  /\ bufferData[p] < BufferSize
  /\ \E k \in 1..MaxWrite :
       /\ Total(cut[p]) + k <= Budget[p]
       /\ cut' = [cut EXCEPT ![p] = Extend(@, sent[p], k)]
       /\ bufferData' = [bufferData EXCEPT ![p] =
                           IF Len(cut'[p]) = Len(cut[p]) THEN @ ELSE @ + k]
  /\ AttemptSend(p, sendWindow[p], lossSet[p], {}, {})
  /\ UNCHANGED <<recvVars, consumed>>

\* send()
Write(p) ==
  /\ bufferData[p] < BufferSize
  /\ \E k \in 1..MaxWrite :
       /\ Total(cut[p]) + k <= Budget[p]
       /\ cut' = [cut EXCEPT ![p] = Extend(@, sent[p], k)]
       /\ bufferData' = [bufferData EXCEPT ![p] = @ + k]
  /\ AttemptSend(p, sendWindow[p], lossSet[p], {}, {})
  /\ UNCHANGED <<recvVars, consumed>>

\* Mutant: a partial read leaves its last byte in the segment.
ReadAgain(p) ==
  /\ recvData[p] # <<>>
  /\ \E n \in ReadSizes :
       LET front == Head(recvData[p])
           last  == MinOf(front.hi, front.lo + n - 1)
       IN /\ consumed' = [consumed EXCEPT ![p] =
                            @ \o [i \in 1..(last - front.lo + 1) |-> front.lo + i - 1]]
          /\ recvData' = [recvData EXCEPT ![p] =
                            IF last = front.hi THEN Tail(@)
                            ELSE <<[front EXCEPT !.lo = last]>> \o Tail(@)]
  /\ UNCHANGED <<sendVars, firstSeq, maxSeq, recvWindow, lossMap, net>>

\* One turn of the loop in read(): a recv() that spans several segments takes
\* such turns back to back.
Read(p) ==
  /\ recvData[p] # <<>>
  /\ \E n \in ReadSizes :
       LET front == Head(recvData[p])
           last  == MinOf(front.hi, front.lo + n - 1)
       IN /\ consumed' = [consumed EXCEPT ![p] =
                            @ \o [i \in 1..(last - front.lo + 1) |-> front.lo + i - 1]]
          /\ recvData' = [recvData EXCEPT ![p] =
                            IF last = front.hi THEN Tail(@)
                            ELSE <<[front EXCEPT !.lo = last + 1]>> \o Tail(@)]
  /\ UNCHANGED <<sendVars, firstSeq, maxSeq, recvWindow, lossMap, net>>

-----------------------------------------------------------------------------
(* Datagrams.                                                              *)

\* The bytes of the segments of the window W; W is a run of segments.
Size(c, W) == IF W = {} THEN 0
              ELSE LET hi == CHOOSE s \in W : \A t \in W : t <= s
                       lo == CHOOSE s \in W : \A t \in W : s <= t
                   IN c[hi] - Offset(c, lo - 1)

\* Mutant: an acknowledgement frees one segment, not all up to it.
OnAckSingle(p, seq, L, in) ==
  LET acked == sendWindow[p] \cap {seq}
  IN /\ bufferData' = [bufferData EXCEPT ![p] = MaxOf(0, @ - Size(cut[p], acked))]
     /\ AttemptSend(p, sendWindow[p] \ acked, L \ acked, in, {})

\* Mutant: loss_set_ keeps the segments that are acknowledged.
OnAckKeepsLoss(p, seq, L, in) ==
  LET acked == {s \in sendWindow[p] : s <= seq}
  IN /\ bufferData' = [bufferData EXCEPT ![p] = MaxOf(0, @ - Size(cut[p], acked))]
     /\ AttemptSend(p, sendWindow[p] \ acked, L, in, {})

\* on_ack(seq), with L the loss set it starts from.
OnAck(p, seq, L, in) ==
  IF cwndMax[p] < seq
  THEN /\ lossSet' = [lossSet EXCEPT ![p] = L]
       /\ UNCHANGED <<bufferData, sendWindow, sent, cwndMax>>
       /\ Transmit(p, in, {})
  ELSE LET acked == {s \in sendWindow[p] : s <= seq}
       IN /\ bufferData' = [bufferData EXCEPT ![p] = MaxOf(0, @ - Size(cut[p], acked))]
          /\ AttemptSend(p, sendWindow[p] \ acked, L \ acked, in, {})

\* Mutant: what waits in recv_window_ is not looked at.
IsRunEndNone(W, s, e) == e = s

\* check_recv_window(): the segments of W that follow s without a gap end at e.
IsRunEnd(W, s, e) == /\ e >= s
                     /\ (s + 1)..e \subseteq DOMAIN W
                     /\ e + 1 \notin DOMAIN W

\* Mutant: the segment that reveals a gap is recorded as lost with it.
MissedAndSeq(L, max, seq) == IF seq > max + 1 THEN L \cup (max + 1)..seq ELSE L \ {seq}

\* What loss_map_ becomes when seq arrives out of order.
Missed(L, max, seq) == IF seq > max + 1 THEN L \cup (max + 1)..(seq - 1) ELSE L \ {seq}

\* on_data(seq, data).  For a segment too far ahead it returns -1 with the
\* buffers as they are; on_exception() tells the event handler, and closing the
\* socket is a step of RudpConnection.
OnData(p, seq, data) ==
  CASE seq > firstSeq[p] + SeqInterval ->      \* on_exception()
         UNCHANGED recvVars
    [] seq = firstSeq[p] + 1 ->
         \E last \in {seq} \cup DOMAIN recvWindow[p] :
           /\ IsRunEnd(recvWindow[p], seq, last)
           /\ firstSeq' = [firstSeq EXCEPT ![p] = last]
           /\ recvData' = [recvData EXCEPT ![p] =
                Append(@, data) \o [i \in 1..(last - seq) |-> recvWindow[p][seq + i]]]
           /\ recvWindow' = [recvWindow EXCEPT ![p] =
                [s \in DOMAIN @ \ (seq + 1)..last |-> @[s]]]
           /\ lossMap' = [lossMap EXCEPT ![p] = @ \ {seq}]
           /\ maxSeq' = [maxSeq EXCEPT ![p] = MaxOf(@, seq)]
    [] seq > firstSeq[p] + 1 /\ seq <= firstSeq[p] + SeqInterval ->
         /\ recvWindow' = [recvWindow EXCEPT ![p] =
                             [s \in DOMAIN @ \cup {seq} |->
                                IF s \in DOMAIN @ THEN @[s] ELSE data]]
         /\ lossMap' = [lossMap EXCEPT ![p] = Missed(@, maxSeq[p], seq)]
         /\ maxSeq' = [maxSeq EXCEPT ![p] = MaxOf(@, seq)]
         /\ UNCHANGED <<firstSeq, recvData>>
    [] OTHER ->                                \* a segment it already has
         UNCHANGED recvVars

\* process_data(): the piggybacked acknowledgement, then the segment.
ReceiveData(p, m) ==
  /\ m.type = "DATA"
  /\ UNCHANGED <<cut, consumed>>
  /\ OnAck(p, m.ack, lossSet[p], {m})
  /\ OnData(p, m.seq, m.bytes)

\* process_data_ack()
ReceiveAck(p, m) ==
  /\ m.type = "ACK"
  /\ UNCHANGED <<cut, recvVars, consumed>>
  /\ OnAck(p, m.ack, lossSet[p], {m})

\* process_data_nack(): on_nack(); its second on_ack(base) finds nothing
\* left to acknowledge and an attempt_send() that is rate limited.
ReceiveNack(p, m) ==
  /\ m.type = "NACK"
  /\ UNCHANGED <<cut, recvVars, consumed>>
  /\ OnAck(p, m.base, lossSet[p] \cup {s \in m.lost : s < cwndMax[p]}, {m})

\* heartbeat() of a connected socket: recv_buffer_.on_timer(), which reports
\* the losses `late' that are old enough and may acknowledge, then
\* send_buffer_.on_timer().
Heartbeat(p) ==
  /\ UNCHANGED <<cut, bufferData, firstSeq, maxSeq, recvWindow, recvData, consumed>>
  /\ LET live == {s \in lossMap[p] : s > firstSeq[p]}
     IN \E late \in SUBSET live, ackDue \in BOOLEAN :
          /\ lossMap' = [lossMap EXCEPT ![p] = live \ late]
          /\ AttemptSend(p, sendWindow[p], lossSet[p], {},
               (IF late # {} THEN {Nack(firstSeq[p], late)} ELSE {})
                 \cup (IF ackDue THEN {Ack(firstSeq[p])} ELSE {}))

Receive(p, m) == ReceiveData(p, m) \/ ReceiveAck(p, m) \/ ReceiveNack(p, m)

Next == \E p \in Endpoint : \/ Write(p)
                            \/ Read(p)
                            \/ Heartbeat(p)
                            \/ \E m \in net[p] : Receive(p, m)

Spec == Init /\ [][Next]_vars

-----------------------------------------------------------------------------
(* Safety.                                                                 *)

\* The acknowledgement a datagram carries.
AckOf(m) == IF m.type = "NACK" THEN m.base ELSE m.ack

\* on_ack() frees a segment for good: a segment that was sent and that the peer
\* does not yet have in order is still in the send window, whatever old or
\* repeated acknowledgements arrive.
NothingLost ==
  \A p \in Endpoint : \A s \in 1..sent[p] :
    s > firstSeq[Peer[p]] => s \in sendWindow[p]

\* No datagram acknowledges more than its sender has received in order, and
\* nobody receives what was not sent: the guard of on_ack() never fires.
AckHonest ==
  \A p \in Endpoint :
    /\ firstSeq[Peer[p]] <= sent[p]
    /\ \A m \in net[p] : AckOf(m) <= firstSeq[Peer[p]]

\* The send window is a run of segments that ends with the last one sent:
\* on_ack() leaves no hole in it and no segment behind.
WindowIsRun ==
  \A p \in Endpoint : \A s \in sendWindow[p] :
    s <= sent[p] /\ \A t \in s..sent[p] : t \in sendWindow[p]

\* buffer_data_size_ is the number of bytes in send_window_ and send_data_,
\* so that the check in send() neither blocks for ever nor admits too much.
BufferAccounted ==
  \A p \in Endpoint :
    bufferData[p] = Size(cut[p], sendWindow[p] \cup (sent[p] + 1)..Len(cut[p]))

\* However full the send buffer is and however late acknowledgements come, a
\* segment on the path is at most a send window ahead of what its receiver has
\* in order.  The sequence check of on_data(), which closes the connection, is
\* therefore tripped by a window above MAX_SEQ_INTNAL only: it is the
\* congestion controller that has to keep it, not buffer_size_.
AheadWithinWindow ==
  \A p \in Endpoint : \A m \in net[p] :
    m.type = "DATA" => \E w \in Cwnds : m.seq <= firstSeq[p] + w

\* check_recv_window() leaves nothing in recv_window_ that could be read.
HeadOfLine ==
  \A p \in Endpoint : \A s \in DOMAIN recvWindow[p] : s > firstSeq[p] + 1

\* A segment recorded in loss_map_, hence reported in a NACK, is one the
\* receiver really lacks.
OnlyMissingReported ==
  \A p \in Endpoint : \A s \in lossMap[p] :
    firstSeq[p] < s /\ s < maxSeq[p] /\ s \notin DOMAIN recvWindow[p]

\* loss_set_ is "the loss set of the packets being sent": a segment in it that
\* is no longer in the send window stays there for good, and attempt_send()
\* waits for it instead of sending anything again.
Orphans(p) == lossSet[p] \ sendWindow[p]

\* A NACK overtaken by the news it lacks: it names s, which the peer has in
\* order by now and which was acknowledged.
Stale(p, m, s) == /\ m.type = "NACK"
                  /\ s \in m.lost
                  /\ s \notin sendWindow[p]
                  /\ s <= firstSeq[Peer[p]]

\* A NACK that was overtaken is the only way into that state: neither
\* acknowledgements nor timeouts leave a segment behind in loss_set_.
LossNeedsStaleNack ==
  [][ \A p \in Endpoint : \A s \in Orphans(p)' :
        \/ s \in Orphans(p)
        \/ \E m \in net[p] : ReceiveNack(p, m) /\ Stale(p, m, s) ]_vars

-----------------------------------------------------------------------------
(* The inductive invariant behind the safety properties, for the stream    *)
(* that p receives: its peer cut it into segments (SegmentsOK), holds what *)
(* is not acknowledged (SenderOK), p holds a part of what was sent         *)
(* (ReceiverOK), and the path carries copies of both sides' past           *)
(* (PathOK).                                                               *)

\* Segments are not empty and not longer than MaxSegment.
SegmentsOK(c) ==
  /\ \A i, j \in 0..Len(c) : i < j => Offset(c, j) - Offset(c, i) >= j - i
  /\ \A s \in 1..Len(c) : c[s] - Offset(c, s - 1) <= MaxSegment

SenderOK(p) ==
  /\ sent[p] <= Len(cut[p])
  /\ cwndMax[p] = MaxOf(1, sent[p])
  /\ firstSeq[Peer[p]] <= sent[p]
  /\ bufferData[p] < BufferSize + MaxWrite
  /\ \E base \in 0..firstSeq[Peer[p]] :
       /\ sendWindow[p] = (base + 1)..sent[p]
       /\ bufferData[p] = Total(cut[p]) - Offset(cut[p], base)

\* What recv_data_ holds is the stream from the last byte read up to the end
\* of segment first_seq_; recv_window_ holds later segments as they were cut.
ReceiverOK(p) ==
  LET c    == cut[Peer[p]]
      n    == Len(consumed[p])
      done == firstSeq[p] - Len(recvData[p])
  IN /\ firstSeq[p] <= maxSeq[p] /\ maxSeq[p] <= sent[Peer[p]]
     /\ \A s \in DOMAIN recvWindow[p] :
          firstSeq[p] + 1 < s /\ s <= maxSeq[p] /\ recvWindow[p][s] = Bytes(c, s)
     /\ done >= 0
     /\ \A i \in 1..Len(recvData[p]) :
          /\ recvData[p][i].hi = c[done + i]
          /\ recvData[p][i].lo = 1 + (IF i = 1 THEN n ELSE c[done + i - 1])
     /\ Offset(c, done) <= n
     /\ IF recvData[p] = <<>> THEN n = Offset(c, done) ELSE n < c[done + 1]
     /\ consumed[p] = [i \in 1..n |-> i]
     /\ \A s \in lossMap[p] :
          firstSeq[p] < s /\ s < maxSeq[p] /\ s \notin DOMAIN recvWindow[p]

PathOK(p) ==
  \A m \in net[p] :
    /\ AckOf(m) <= firstSeq[Peer[p]]
    /\ m.type = "DATA" => /\ m.seq \in 1..sent[Peer[p]]
                          /\ m.bytes = Bytes(cut[Peer[p]], m.seq)

\* The state of the connection seen from both ends.
IInv == /\ TypeOK
        /\ \A p \in Endpoint : /\ SegmentsOK(cut[p])
                               /\ SenderOK(p)
                               /\ ReceiverOK(p)
                               /\ PathOK(p)

-----------------------------------------------------------------------------
(* Refinement and liveness.                                                *)

\* The connection is a pair of FIFO byte streams.
Stream == INSTANCE ReliableStream
            WITH written <- [p \in Endpoint |-> Total(cut[p])]
StreamSpec == Stream!Spec

\* The heartbeat keeps running, every segment times out in the end, and the
\* path does not lose every copy of a segment or every acknowledgement.
Resend(p, s) == /\ Heartbeat(p)
                /\ \E m \in net'[Peer[p]] : m.type = "DATA" /\ m.seq = s
Acknowledge(p) == /\ Heartbeat(p)
                  /\ \E m \in net'[Peer[p]] : m.type = "ACK" /\ m.ack = firstSeq[p]
Arrive(p, M) == \E m \in net[p] \cap M : Receive(p, m) /\ m \notin net'[p]
DataOf(p, s) == {m \in net[p] : m.type = "DATA" /\ m.seq = s}
AckTo(p, n)  == {m \in net[p] : m.type = "ACK" /\ m.ack = n}

FairSpec ==
  /\ Spec
  /\ \A p \in Endpoint :
       /\ WF_vars(Read(p))
       /\ WF_vars(Arrive(p, net[p]))
       /\ SF_vars(Acknowledge(p))
       /\ \A s \in 1..Budget[p] : /\ SF_vars(Resend(p, s))
                                  /\ SF_vars(Arrive(Peer[p], DataOf(Peer[p], s)))
                                  /\ SF_vars(Arrive(p, AckTo(p, s)))

\* Every byte written is read in the end.
Delivered ==
  \A p \in Endpoint : \A n \in 1..Budget[p] :
    Total(cut[p]) >= n ~> Len(consumed[Peer[p]]) >= n
=============================================================================
