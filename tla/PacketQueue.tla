----------------------------- MODULE PacketQueue -----------------------------
(***************************************************************************)
(* The packets a Repeater keeps and what it sends to a RepeaterNode below. *)
(* The receive thread of the viewer connection that is the source puts     *)
(* every packet into the queue of its payload and passes it on to those    *)
(* that stream; a thread that has passed the test of currentSourceIndex    *)
(* goes on when the source changes.  The IPC thread starts a stream with   *)
(* the packets of the queues from the numbers that AV_START asks for on,   *)
(* so that the peer misses none.  arrayCriticalSec[payload] guards a queue *)
(* in every step, not from one step to the next.                           *)
(*                                                                         *)
(* A packet is its place in the stream of its payload; its wSeqNum is that *)
(* modulo Modulus.  Audio and video of the same place are of the same time.*)
(***************************************************************************)
EXTENDS Integers, Sequences, FiniteSets

CONSTANTS Reader,     \* receive threads
          Modulus,    \* 65536
          Margin,     \* 0x400
          Capacity,   \* MAX_AUDIO_RECV_QUEUE_SIZE and MAX_VIDEO_RECV_QUEUE_SIZE
          First, Last,\* bounds: the packets there are of each payload
          Jump,       \* bound: packets a new source skips
          Switches,   \* bound: changes of the source
          Key         \* the video packets with an SPS

Payload == {"audio", "video"}

VARIABLES queue,      \* arrayRecvQueue[payload]
          source,     \* the thread of viewerArray[currentSourceIndex]
          next,       \* next[payload]: the next packet of the source
          switches,
          reader,     \* reader[r]: where r is, and with what
          avStarted,  \* m_bAVStarted
          ipc,        \* where the IPC thread is
          found,      \* found_audio_item, found_video_item
          missing,    \* queued packets the peer is to get and has not been sent
          spoilt,     \* an item was not found, or was freed while it was pointed to
          wrapped     \* a packet was put in so late that one behind the wrap, or one
                      \* Margin or more away, was there already

peer == <<avStarted, ipc, found, missing, spoilt>>
stream == <<source, next, switches>>
vars == <<queue, stream, reader, peer, wrapped>>

Packet(p) == First..Last[p]
None == 0
Idle == [at |-> "idle", payload |-> "audio", packet |-> None]

\* The packets that threads have in hand and will still pass on.
InHand(p) == {reader[r].packet : r \in {s \in Reader : reader[s].payload = p}}

Init == /\ queue = [p \in Payload |-> <<>>]
        /\ source \in Reader
        /\ next = [p \in Payload |-> First]
        /\ switches = 0
        /\ reader = [r \in Reader |-> Idle]
        /\ avStarted = FALSE /\ ipc = "idle"
        /\ found = [p \in Payload |-> None]
        /\ missing = [p \in Payload |-> {}]
        /\ spoilt = FALSE /\ wrapped = FALSE

-----------------------------------------------------------------------------
(* The queue.                                                              *)

SeqNum(packet) == packet % Modulus

\* Mutant: without the case of the wrap.
FollowsPlain(s, t) == t < s

\* s comes behind t: "wSeqNum: 0xffff -> 0".
Follows(s, t) == t < s \/ (t > Modulus - Margin /\ s < Margin)

InsertAfter(q, i, packet) == SubSeq(q, 1, i) \o <<packet>> \o SubSeq(q, i + 1, Len(q))

\* What the case of the wrap does not cover: the packets are too far apart, or it is
\* the later one that is there.
Misled(packet, other) == \/ packet \div Modulus < other \div Modulus
                         \/ packet - other \notin -Margin + 1..Margin - 1

\* PutIntoRecvPacketQueue(): from the tail to the first packet that the new one
\* follows, or is equal to.
Inserted(q, packet) ==
  LET Stops(i) == Follows(SeqNum(packet), SeqNum(q[i])) \/ SeqNum(packet) = SeqNum(q[i])
      i == CHOOSE n \in 0..Len(q) : /\ n = 0 \/ Stops(n)
                                    /\ \A m \in n + 1..Len(q) : ~Stops(m)
  IN IF i > 0 /\ ~Follows(SeqNum(packet), SeqNum(q[i])) THEN q ELSE InsertAfter(q, i, packet)

Contains(q, packet) == \E i \in DOMAIN q : q[i] = packet

-----------------------------------------------------------------------------
(* The receive threads.                                                    *)

\* A packet of the source has been received.
Take(r, p) == /\ r = source /\ reader[r].at = "idle" /\ next[p] \in Packet(p)
              /\ reader' = [reader EXCEPT ![r] = [at |-> "count", payload |-> p,
                                                  packet |-> next[p]]]
              /\ next' = [next EXCEPT ![p] = @ + 1]
              /\ UNCHANGED <<queue, source, switches, peer, wrapped>>

Goto(r, at) == reader' = [reader EXCEPT ![r].at = at]

Count(r) == /\ reader[r].at = "count"
            /\ Goto(r, IF Len(queue[reader[r].payload]) >= Capacity THEN "evict" ELSE "put")
            /\ UNCHANGED <<queue, stream, peer, wrapped>>

\* The head is freed.  If the queue has been emptied since it was counted, a null
\* pointer is followed: nothing comes after that.
Evict(r) == LET p == reader[r].payload
            IN /\ reader[r].at = "evict" /\ queue[p] # <<>>
               /\ queue' = [queue EXCEPT ![p] = Tail(@)]
               /\ spoilt' = (spoilt \/ found[p] = Head(queue[p]))
               /\ Goto(r, "put")
               /\ UNCHANGED <<stream, avStarted, ipc, found, missing, wrapped>>

Put(r) == LET p == reader[r].payload
              packet == reader[r].packet
          IN /\ reader[r].at = "put"
             /\ queue' = [queue EXCEPT ![p] = Inserted(@, packet)]
             /\ missing' = IF avStarted THEN [missing EXCEPT ![p] = @ \cup {packet}]
                                        ELSE missing
             /\ wrapped' = (wrapped \/ \E i \in DOMAIN queue[p] : Misled(packet, queue[p][i]))
             /\ Goto(r, "forward")
             /\ UNCHANGED <<stream, avStarted, ipc, found, spoilt>>

\* CtrlCmd_Send_FAKERTP_RESP() to the peer if it streams.
Forward(r) == LET p == reader[r].payload
              IN /\ reader[r].at = "forward"
                 /\ missing' = IF avStarted
                               THEN [missing EXCEPT ![p] = @ \ {reader[r].packet}]
                               ELSE missing
                 /\ reader' = [reader EXCEPT ![r] = Idle]
                 /\ UNCHANGED <<queue, stream, avStarted, ipc, found, spoilt, wrapped>>

\* CMD_CODE_END, of any connection.
End(r) == /\ reader[r].at = "idle" /\ \E p \in Payload : queue[p] # <<>>
          /\ queue' = [p \in Payload |-> <<>>]
          /\ spoilt' = (spoilt \/ \E p \in Payload : found[p] # None)
          /\ UNCHANGED <<stream, reader, avStarted, ipc, found, missing, wrapped>>

\* The source changes.  The new one has been asked for what follows the last
\* packets, which may be some time ago; what it sent before the change is
\* dropped.
Switch(r) == /\ r # source /\ switches < Switches
             /\ source' = r /\ switches' = switches + 1
             /\ \E n \in [Payload -> First..Last["video"] + 1] :
                  /\ \A p \in Payload : n[p] <= next[p] + Jump /\ n[p] <= Last[p] + 1
                  /\ next' = n
             /\ UNCHANGED <<queue, reader, peer, wrapped>>

-----------------------------------------------------------------------------
(* The IPC thread.                                                         *)

\* CMD_CODE_AV_START_REQ up to SendPacketsInQueue().
AvStart == /\ ipc = "idle"
           /\ avStarted' = TRUE /\ ipc' = "find" /\ spoilt' = FALSE
           /\ missing' = [p \in Payload |-> {}]
           /\ UNCHANGED <<queue, stream, reader, found, wrapped>>

\* The last video packet with an SPS, and the last audio packet not after it.
LastIn(q, S) ==
  {q[i] : i \in {j \in DOMAIN q : q[j] \in S /\ \A k \in j + 1..Len(q) : q[k] \notin S}}

Items(asked) ==
  IF asked = [p \in Payload |-> None]
  THEN LET keys == LastIn(queue["video"], Key)
       IN [p \in Payload |-> IF p = "video" \/ keys = {} THEN keys
                             ELSE LastIn(queue["audio"], {a \in Packet("audio") :
                                                            \A v \in keys : a <= v})]
  ELSE [p \in Payload |-> IF Contains(queue[p], asked[p]) THEN {asked[p]} ELSE {}]

\* SendPacketsInQueue() up to its loop; None in asked is 0xffffffff.  A burst takes
\* place only if a packet of each payload was found.
Find(asked) ==
  LET items == Items(asked)
      both == \A p \in Payload : items[p] # {}
  IN /\ ipc = "find"
     /\ IF both
        THEN /\ found' = [p \in Payload |-> CHOOSE q \in items[p] : TRUE]
             /\ missing' = [p \in Payload |-> missing[p] \cup
                              {q \in Packet(p) : Contains(queue[p], q) /\ q >= found'[p]}]
             /\ ipc' = "burst" /\ UNCHANGED spoilt
        ELSE ipc' = "idle" /\ spoilt' = TRUE /\ UNCHANGED <<found, missing>>
     /\ UNCHANGED <<queue, stream, reader, avStarted, wrapped>>

\* Mutant: the last packet is taken for the end.
SuccessorButLast(q, packet) ==
  LET i == CHOOSE n \in DOMAIN q : q[n] = packet
  IN IF i + 1 < Len(q) THEN q[i + 1] ELSE None

\* q_forw
Successor(q, packet) ==
  LET i == CHOOSE n \in DOMAIN q : q[n] = packet
  IN IF i < Len(q) THEN q[i + 1] ELSE None

\* DoSendAvPacket(); a packet that has been freed may still be sent, and what
\* follows it may be anything, also the end.
SendItem(p) ==
  /\ ipc = "burst" /\ found[p] # None
  /\ IF Contains(queue[p], found[p])
     THEN /\ found' = [found EXCEPT ![p] = Successor(queue[p], @)]
          /\ missing' = [missing EXCEPT ![p] = @ \ {found[p]}]
     ELSE \E n \in {None} \cup {queue[p][i] : i \in DOMAIN queue[p]} :
            /\ found' = [found EXCEPT ![p] = n]
            /\ UNCHANGED missing
  /\ UNCHANGED <<queue, stream, reader, avStarted, ipc, spoilt, wrapped>>

BurstOver == /\ ipc = "burst" /\ \A p \in Payload : found[p] = None
             /\ ipc' = "idle"
             /\ UNCHANGED <<queue, stream, reader, avStarted, found, missing, spoilt, wrapped>>

AvStop == /\ ipc = "idle" /\ avStarted
          /\ avStarted' = FALSE /\ spoilt' = FALSE
          /\ missing' = [p \in Payload |-> {}]
          /\ UNCHANGED <<queue, stream, reader, ipc, found, wrapped>>

Next == \/ \E r \in Reader : \/ \E p \in Payload : Take(r, p)
                             \/ Count(r) \/ Evict(r) \/ Put(r) \/ Forward(r)
                             \/ End(r) \/ Switch(r)
        \/ AvStart \/ AvStop \/ BurstOver
        \/ \E asked \in [Payload -> (First..Last["video"]) \cup {None}] : Find(asked)
        \/ \E p \in Payload : SendItem(p)

Spec == Init /\ [][Next]_vars

-----------------------------------------------------------------------------
\* However two receive threads, an old one and a new one, mix old packets and new,
\* a queue is in the order of the stream, without repetition, and holds at most
\* one packet more than its size for each thread but one.  The exception: a
\* packet from before the wrap of the numbers that comes after one behind it, or
\* Margin or more away from one that is queued.
QueueInOrder ==
  ~wrapped => \A p \in Payload :
    /\ Len(queue[p]) < Capacity + Cardinality(Reader)
    /\ \A i, j \in DOMAIN queue[p] : i < j => queue[p][i] < queue[p][j]

\* When a stream has been started, the peer has been sent every packet that was
\* queued behind the one it started with, in the burst or as it came, unless one
\* was freed under the burst or only one of the two numbers was found.
NothingSkipped ==
  (ipc = "idle" /\ avStarted /\ ~spoilt /\ ~wrapped) =>
    \A p \in Payload : missing[p] \subseteq InHand(p)
=============================================================================
