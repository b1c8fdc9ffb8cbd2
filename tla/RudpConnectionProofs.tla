------------------------ MODULE RudpConnectionProofs ------------------------
(***************************************************************************)
(* The index of half open connections, the handles of the applications and *)
(* the FINs, for every number of ids, repetitions and datagrams.  IInv is  *)
(* inductive; FinInv and OneInv are inductive beside it.                   *)
(***************************************************************************)
EXTENDS RudpConnection, SequenceTheorems, TLAPS

\* What every socket is like.  Only a listening connection has check sum 0.
Proper(h, s) ==
  /\ s \in Socket
  /\ s.state \in {"FREE", "FIN"} => ~s.handler
  /\ s.sum = 0 <=> s.state \in {"FREE", "IDLE"}
  /\ h = Server => s.state # "CONNECTING"

\* No datagram is of a listening connection.
Sent == {m \in Message : m.sum # 0}

SocketsOK == /\ sock \in [Host -> [Id -> Socket]]
             /\ \A h \in Host, i \in Id : Proper(h, sock[h][i])

NetOK == net \in [Host -> Seq(Sent)]

RestOK == /\ peerIndex \in [Id -> 0..MaxId]
          /\ listener \in 0..MaxId /\ listening \in BOOLEAN
          /\ held \in [Host -> SUBSET Handle] /\ early \in [Host -> SUBSET Handle]
          /\ connects \in 0..Connects /\ accepts \in 0..Accepts
          /\ opened \in [1..Connects -> Nat]

IInv == SocketsOK /\ NetOK /\ RestOK /\ IndexSound /\ HandlesTrue

-----------------------------------------------------------------------------
(* The path.                                                               *)

\* Copies of a datagram are a sequence of datagrams.
LEMMA AfterDoes ==
  ASSUME NEW S, NEW q \in Seq(S), NEW m \in S, NEW n \in Nat, NEW r \in After(q, m, n)
  PROVE  r \in Seq(S)
<1>1. PICK j \in 0..n : r = q \o [k \in 1..j |-> m]
  BY DEF After
<1>2. [k \in 1..j |-> m] \in Seq(S)
  OBVIOUS
<1>3. QED
  BY <1>1, <1>2

\* What is left when a datagram is taken is a sequence of datagrams.
LEMMA RestDoes ==
  ASSUME NEW S, NEW q \in Seq(S), NEW k \in 1..Len(q)
  PROVE  SubSeq(q, 1, k - 1) \o SubSeq(q, k + 1, Len(q)) \in Seq(S)
<1>1. SubSeq(q, 1, k - 1) \in Seq(S)
  OBVIOUS
<1>2. SubSeq(q, k + 1, Len(q)) \in Seq(S)
  OBVIOUS
<1>3. QED
  BY <1>1, <1>2

LEMMA SendDoes ==
  ASSUME NetOK, NEW h \in Host, NEW rest \in Seq(Sent), NEW m \in Sent, NEW n \in Nat,
         Send(h, rest, m, n)
  PROVE  NetOK'
<1>1. PICK q \in After(net[Other(h)], m, n) :
        net' = [net EXCEPT ![h] = rest, ![Other(h)] = q]
  BY DEF Send
<1>2. q \in Seq(Sent)
  BY AfterDoes DEF NetOK, Other, Host
<1>3. QED
  BY <1>1, <1>2 DEF NetOK

LEMMA QuietDoes ==
  ASSUME NetOK, NEW h \in Host, NEW rest \in Seq(Sent), Quiet(h, rest)
  PROVE  NetOK'
BY DEF NetOK, Quiet

\* Every datagram the code makes is one.
LEMMA ToDoes ==
  ASSUME NEW s \in Socket, s.sum # 0,
         NEW t \in {"SYN_ACK", "FIN", "FIN2", "KEEPALIVE", "KEEPALIVE_ACK"}
  PROVE  To(t, s) \in Sent
BY DEF To, Sent, Message, Socket

LEMMA SynDoes ==
  ASSUME NEW s \in Socket, s.sum # 0, NEW i \in Id
  PROVE  /\ Syn(i, s) \in Sent
         /\ \A ok \in BOOLEAN : Syn2(i, s, ok) \in Sent
BY DEF Syn, Syn2, Sent, Message, Socket

-----------------------------------------------------------------------------
(* What happens to a socket.                                               *)

LEMMA FreeIsProper == \A h : Proper(h, Free)
BY ConnectionAssumption DEF Proper, Free, Socket, State

LEMMA ConstantsAreNumbers ==
  /\ MaxId \in Nat /\ SynMax \in Nat /\ FinMax \in Nat /\ TimeoutCount \in Nat
  /\ Copies \in Nat /\ Connects \in Nat /\ Accepts \in Nat /\ 1 \in Nat
  /\ SynMax # 0 /\ FinMax # 0 /\ Client # Server
BY ConnectionAssumption

\* A field of a socket may take every value of its type.
LEMMA FieldsKeep ==
  ASSUME NEW s \in Socket
  PROVE  /\ \A v \in State : [s EXCEPT !.state = v] \in Socket
         /\ \A v \in 0..MaxId : [s EXCEPT !.remote = v] \in Socket
         /\ \A v \in 0..Connects : [s EXCEPT !.sum = v] \in Socket
         /\ \A v \in BOOLEAN : [s EXCEPT !.handler = v] \in Socket
         /\ \A v \in BOOLEAN : [s EXCEPT !.broken = v] \in Socket
         /\ \A v \in 0..SynMax + FinMax : [s EXCEPT !.tries = v] \in Socket
         /\ \A v \in 0..TimeoutCount : [s EXCEPT !.silent = v] \in Socket
BY DEF Socket

\* The parts of IInv that a change of a socket may disturb.
Core == SocketsOK /\ IndexSound /\ HandlesTrue /\ peerIndex \in [Id -> 0..MaxId]

\* The applications' handles stay true when a socket changes, unless it is given
\* back under one of them.
LEMMA HandlesStay ==
  ASSUME IInv, NEW h \in Host, NEW i \in Id,
         \A x \in Host, j \in Id : x # h \/ j # i => sock'[x][j] = sock[x][j],
         sock[h][i].handler =>
           \/ HandlesOf(h, i) \subseteq early'[h]
           \/ sock'[h][i].handler /\ sock'[h][i].sum = sock[h][i].sum,
         held' = held, \A x \in Host : early[x] \subseteq early'[x]
  PROVE  HandlesTrue'
<1> SUFFICES ASSUME NEW x \in Host, NEW c \in held'[x] \ early'[x]
             PROVE  sock'[x][c.id].handler /\ sock'[x][c.id].sum = c.sum
  BY DEF HandlesTrue
<1>1. c \in held[x] \ early[x] /\ c.id \in Id
  BY DEF IInv, RestOK, Handle
<1>2. sock[x][c.id].handler /\ sock[x][c.id].sum = c.sum
  BY <1>1 DEF IInv, HandlesTrue
<1>3. CASE x = h /\ c.id = i
  BY <1>1, <1>2, <1>3 DEF HandlesOf
<1>4. CASE x # h \/ c.id # i
  BY <1>1, <1>2, <1>4
<1>5. QED
  BY <1>3, <1>4

\* The index stays sound when a socket stays; it may lose entries.
LEMMA ChangeKeeps ==
  ASSUME IInv, NEW h \in Host, NEW i \in Id, NEW s, Proper(h, s),
         sock' = [sock EXCEPT ![h][i] = s],
         peerIndex' \in [Id -> 0..MaxId],
         \A k \in Id : peerIndex'[k] \in {0, peerIndex[k]},
         h = Server => s.remote = sock[h][i].remote,
         s.state # "FREE", s.state = "IDLE" => sock[h][i].state \in {"FREE", "IDLE"}
  PROVE  SocketsOK' /\ IndexSound'
<1>1. /\ sock'[h][i] = s
      /\ \A x \in Host, j \in Id : x # h \/ j # i => sock'[x][j] = sock[x][j]
  BY DEF IInv, SocketsOK
<1>2. SocketsOK'
  BY <1>1 DEF IInv, SocketsOK, Proper
<1>3. IndexSound'
  <2> SUFFICES ASSUME NEW k \in Id, peerIndex'[k] # 0
               PROVE  /\ sock'[Server][peerIndex'[k]].state \notin {"FREE", "IDLE"}
                      /\ sock'[Server][peerIndex'[k]].remote = k
    BY DEF IndexSound
  <2>1. peerIndex'[k] = peerIndex[k] /\ peerIndex[k] \in Id /\ Server \in Host
    BY ConstantsAreNumbers DEF IInv, RestOK, Id, Host
  <2>2. /\ sock[Server][peerIndex[k]].state \notin {"FREE", "IDLE"}
        /\ sock[Server][peerIndex[k]].remote = k
    BY <2>1 DEF IInv, IndexSound
  <2>3. QED
    BY <1>1, <2>1, <2>2
<1>4. QED
  BY <1>2, <1>3

\* A socket of a connection stays one of it.
LEMMA StayKeeps ==
  ASSUME IInv, NEW h \in Host, NEW i \in Id, NEW s, Proper(h, s),
         Become(h, i, s), s.state # "FREE", s.state = "IDLE" => sock[h][i].state = "IDLE",
         h = Server => s.remote = sock[h][i].remote,
         s.sum = sock[h][i].sum, s.handler = sock[h][i].handler,
         held' = held, \A x \in Host : early[x] \subseteq early'[x]
  PROVE  Core'
<1>1. sock' = [sock EXCEPT ![h][i] = s] /\ peerIndex' = peerIndex
  BY DEF Become, Free
<1>2. SocketsOK' /\ IndexSound'
  BY <1>1, ChangeKeeps DEF IInv, RestOK
<1>3. HandlesTrue'
  <2>1. /\ sock'[h][i] = s
        /\ \A x \in Host, j \in Id : x # h \/ j # i => sock'[x][j] = sock[x][j]
    BY <1>1 DEF IInv, SocketsOK
  <2>2. QED
    BY <2>1, HandlesStay
<1>4. QED
  BY <1>1, <1>2, <1>3 DEF Core, IInv, RestOK

\* A socket is given back, and its index entry erased.
LEMMA FreeIndex ==
  ASSUME IInv, NEW h \in Host, NEW i \in Id, Become(h, i, Free)
  PROVE  /\ SocketsOK' /\ IndexSound' /\ peerIndex' \in [Id -> 0..MaxId]
         /\ \A x \in Host, j \in Id : x # h \/ j # i => sock'[x][j] = sock[x][j]
<1>1. /\ sock'[h][i] = Free
      /\ \A x \in Host, j \in Id : x # h \/ j # i => sock'[x][j] = sock[x][j]
      /\ sock' \in [Host -> [Id -> Socket]]
  BY FreeIsProper DEF IInv, SocketsOK, Become, Proper
<1>2. SocketsOK'
  BY <1>1, FreeIsProper DEF IInv, SocketsOK
<1>3. peerIndex' \in [Id -> 0..MaxId]
  BY ConstantsAreNumbers DEF IInv, RestOK, Become, Unindexed
<1>4. IndexSound'
  <2> SUFFICES ASSUME NEW k \in Id, peerIndex'[k] # 0
               PROVE  /\ sock'[Server][peerIndex'[k]].state \notin {"FREE", "IDLE"}
                      /\ sock'[Server][peerIndex'[k]].remote = k
    BY DEF IndexSound
  <2>1. peerIndex'[k] = peerIndex[k] /\ peerIndex[k] \in Id /\ Server \in Host
    BY <1>3, ConstantsAreNumbers DEF IInv, RestOK, Id, Host, Become, Unindexed
  <2>2. /\ sock[Server][peerIndex[k]].state \notin {"FREE", "IDLE"}
        /\ sock[Server][peerIndex[k]].remote = k
    BY <2>1 DEF IInv, IndexSound
  <2>3. h # Server \/ i # peerIndex[k]
    BY <2>1, <2>2 DEF Become, Unindexed
  <2>4. QED
    BY <1>1, <2>1, <2>2, <2>3
<1>5. QED
  BY <1>1, <1>2, <1>3, <1>4

LEMMA FreeKeeps ==
  ASSUME IInv, NEW h \in Host, NEW i \in Id, Become(h, i, Free),
         sock[h][i].handler => HandlesOf(h, i) \subseteq early'[h],
         held' = held, \A x \in Host : early[x] \subseteq early'[x]
  PROVE  Core'
BY FreeIndex, HandlesStay DEF Core

\* A connection is over: its socket waits for the application or is given back.
LEMMA EndedKeeps ==
  ASSUME IInv, NEW h \in Host, NEW i \in Id, NEW s, Proper(h, s),
         s.state \in {"CONNECTING", "CONNECTED"}, s.remote = sock[h][i].remote,
         s.sum = sock[h][i].sum, s.handler = sock[h][i].handler, Become(h, i, Ended(s)),
         held' = held, \A x \in Host : early[x] \subseteq early'[x]
  PROVE  Core'
<1>1. CASE s.handler
  <2> DEFINE e == [s EXCEPT !.state = "FIN2", !.tries = 0, !.broken = TRUE]
  <2>1. Proper(h, e) /\ e.state = "FIN2" /\ e.remote = s.remote /\ e.sum = s.sum
        /\ e.handler = s.handler
    <3>1. s \in Socket /\ "FIN2" \in State /\ 0 \in 0..SynMax + FinMax /\ TRUE \in BOOLEAN
      BY ConstantsAreNumbers DEF Proper, State
    <3>2. [[[s EXCEPT !.state = "FIN2"] EXCEPT !.tries = 0] EXCEPT !.broken = TRUE] \in Socket
      BY <3>1, FieldsKeep, Zenon
    <3>3. e.state = "FIN2" /\ e.remote = s.remote /\ e.sum = s.sum /\ e.handler = s.handler
      BY <3>1 DEF Socket
    <3>4. e \in Socket
      BY <3>2
    <3> HIDE DEF e
    <3>5. QED
      BY <3>3, <3>4 DEF Proper
  <2>2. Become(h, i, e)
    BY <1>1 DEF Ended
  <2> HIDE DEF e
  <2>3. QED
    BY <2>1, <2>2, StayKeeps
<1>2. CASE ~s.handler
  BY <1>2, FreeKeeps DEF Ended
<1>3. QED
  BY <1>1, <1>2

\* A free socket is taken for a connection, or to listen.
LEMMA CreateKeeps ==
  ASSUME IInv, NEW h \in Host, NEW i \in Id, IsNextId(h, i),
         NEW s, Proper(h, s), s.state # "FREE", sock' = [sock EXCEPT ![h][i] = s],
         \/ held' = held
         \/ s.handler /\ held' = [held EXCEPT ![h] = @ \cup {[id |-> i, sum |-> s.sum]}],
         \A x \in Host : early[x] \subseteq early'[x]
  PROVE  SocketsOK' /\ HandlesTrue'
<1>1. /\ sock'[h][i] = s
      /\ \A x \in Host, j \in Id : x # h \/ j # i => sock'[x][j] = sock[x][j]
  BY DEF IInv, SocketsOK
<1>2. SocketsOK'
  BY <1>1 DEF IInv, SocketsOK, Proper
<1>3. HandlesTrue'
  <2> SUFFICES ASSUME NEW x \in Host, NEW c \in held'[x] \ early'[x]
               PROVE  sock'[x][c.id].handler /\ sock'[x][c.id].sum = c.sum
    BY DEF HandlesTrue
  <2>1. CASE c \in held[x]
    <3>1. c \notin early[x] /\ c.id \in Id
      BY <2>1 DEF IInv, RestOK, Handle
    <3>2. sock[x][c.id].handler /\ sock[x][c.id].sum = c.sum
      BY <2>1, <3>1 DEF IInv, HandlesTrue
    <3>3. x # h \/ c.id # i
      BY <3>2 DEF IInv, SocketsOK, Proper, IsNextId
    <3>4. QED
      BY <1>1, <3>1, <3>2, <3>3
  <2>2. CASE c \notin held[x]
    <3>1. x = h /\ s.handler /\ c = [id |-> i, sum |-> s.sum]
      BY <2>2 DEF IInv, RestOK
    <3>2. QED
      BY <1>1, <3>1
  <2>3. QED
    BY <2>1, <2>2
<1>4. QED
  BY <1>2, <1>3

-----------------------------------------------------------------------------
(* The application and the timers.                                         *)

LEMMA ConnectKeeps ==
  ASSUME IInv, NEW i \in Id, Connect(i)
  PROVE  IInv'
<1> DEFINE s == [Free EXCEPT !.state = "CONNECTING", !.sum = connects + 1,
                             !.handler = TRUE, !.tries = 1]
<1>1. /\ Proper(Client, s) /\ s \in Socket /\ s.state = "CONNECTING"
      /\ s.sum = connects + 1 /\ s.sum # 0 /\ s.handler
  <2>1. /\ connects + 1 \in 0..Connects /\ connects + 1 # 0 /\ 1 \in 0..SynMax + FinMax
        /\ "CONNECTING" \in State /\ TRUE \in BOOLEAN /\ Free \in Socket
    BY ConstantsAreNumbers, FreeIsProper DEF Connect, IInv, RestOK, State, Proper
  <2>2. [[[[Free EXCEPT !.state = "CONNECTING"] EXCEPT !.sum = connects + 1]
            EXCEPT !.handler = TRUE] EXCEPT !.tries = 1] \in Socket
    BY <2>1, FieldsKeep, Zenon
  <2>3. s.state = "CONNECTING" /\ s.sum = connects + 1 /\ s.handler
    BY <2>1 DEF Socket
  <2>4. s \in Socket
    BY <2>2
  <2> HIDE DEF s
  <2>5. QED
    BY <2>1, <2>3, <2>4, ConstantsAreNumbers DEF Proper
<1>2. /\ Become(Client, i, s) /\ Send(Client, net[Client], Syn(i, s), 1)
      /\ IsNextId(Client, i)
      /\ held' = [held EXCEPT ![Client] = @ \cup {[id |-> i, sum |-> connects + 1]}]
  BY DEF Connect
<1>3. connects' \in 0..Connects /\ UNCHANGED <<listener, listening, early, accepts, opened>>
  BY ConstantsAreNumbers DEF Connect, IInv, RestOK
<1> HIDE DEF s
<1>4. sock' = [sock EXCEPT ![Client][i] = s] /\ peerIndex' = peerIndex
  BY <1>1, <1>2, ConstantsAreNumbers DEF Become
<1>5. SocketsOK' /\ HandlesTrue'
  BY <1>1, <1>2, <1>3, <1>4, CreateKeeps DEF Host
<1>6. IndexSound'
  BY <1>4, ConstantsAreNumbers DEF IInv, SocketsOK, RestOK, IndexSound, Host, Id
<1>7. NetOK'
  BY <1>1, <1>2, SynDoes, SendDoes, ConstantsAreNumbers DEF IInv, NetOK, Host
<1>8. RestOK'
  BY <1>1, <1>2, <1>3, <1>4 DEF IInv, RestOK, Handle, Host, Socket
<1>9. QED
  BY <1>5, <1>6, <1>7, <1>8 DEF IInv

LEMMA ListenKeeps ==
  ASSUME IInv, NEW i \in Id, Listen(i)
  PROVE  IInv'
<1> DEFINE s == [Free EXCEPT !.state = "IDLE", !.handler = TRUE]
<1>1. Proper(Server, s) /\ s \in Socket /\ s.state = "IDLE" /\ s.sum = 0 /\ s.handler
  <2>1. "IDLE" \in State /\ TRUE \in BOOLEAN /\ Free \in Socket /\ Free.sum = 0
    BY FreeIsProper DEF State, Proper, Free
  <2>2. [[Free EXCEPT !.state = "IDLE"] EXCEPT !.handler = TRUE] \in Socket
    BY <2>1, FieldsKeep, Zenon
  <2>3. s.state = "IDLE" /\ s.sum = 0 /\ s.handler
    BY <2>1 DEF Socket
  <2>4. s \in Socket
    BY <2>2
  <2> HIDE DEF s
  <2>5. QED
    BY <2>3, <2>4 DEF Proper
<1>2. /\ Become(Server, i, s) /\ IsNextId(Server, i)
      /\ held' = [held EXCEPT ![Server] = @ \cup {[id |-> i, sum |-> 0]}]
  BY DEF Listen
<1>3. /\ accepts' \in 0..Accepts /\ listener' = i /\ listening' = TRUE
      /\ UNCHANGED <<early, net, connects, opened>>
  BY ConstantsAreNumbers DEF Listen, IInv, RestOK
<1> HIDE DEF s
<1>4. sock' = [sock EXCEPT ![Server][i] = s] /\ peerIndex' = peerIndex
  BY <1>1, <1>2 DEF Become, Free
<1>5. SocketsOK' /\ HandlesTrue'
  BY <1>1, <1>2, <1>3, <1>4, CreateKeeps DEF Host
<1>6. IndexSound'
  <2>1. \A k \in Id : peerIndex[k] # i
    BY <1>2 DEF IInv, IndexSound, IsNextId, Id
  <2>2. QED
    BY <1>4, <2>1 DEF IInv, SocketsOK, RestOK, IndexSound, Host, Id
<1>7. NetOK'
  BY <1>3 DEF IInv, NetOK
<1>8. RestOK'
  <2>1. [id |-> i, sum |-> 0] \in Handle /\ i \in 0..MaxId
    BY ConstantsAreNumbers DEF Handle, Id
  <2>2. held' \in [Host -> SUBSET Handle]
    BY <1>2, <2>1 DEF IInv, RestOK
  <2>3. QED
    BY <1>3, <1>4, <2>1, <2>2 DEF IInv, RestOK
<1>9. QED
  BY <1>5, <1>6, <1>7, <1>8 DEF IInv

\* A handle that is closed was the only true one of its socket.
LEMMA CloseHandles ==
  ASSUME IInv, NEW h \in Host, NEW c \in held[h],
         held' = [held EXCEPT ![h] = @ \ {c}],
         early' = [early EXCEPT ![h] = (IF c \in @ THEN @ \cup HandlesOf(h, c.id) ELSE @) \ {c}],
         \A x \in Host, j \in Id : x # h \/ j # c.id => sock'[x][j] = sock[x][j]
  PROVE  HandlesTrue'
<1> SUFFICES ASSUME NEW x \in Host, NEW d \in held'[x] \ early'[x]
             PROVE  sock'[x][d.id].handler /\ sock'[x][d.id].sum = d.sum
  BY DEF HandlesTrue
<1>1. d \in held[x] \ early[x] /\ d \in Handle /\ d.id \in Id /\ (x = h => d # c)
  BY DEF IInv, RestOK, Handle
<1>2. sock[x][d.id].handler /\ sock[x][d.id].sum = d.sum
  BY <1>1 DEF IInv, HandlesTrue
<1>3. x # h \/ d.id # c.id
  <2> SUFFICES ASSUME x = h, d.id = c.id PROVE FALSE
    OBVIOUS
  <2>1. CASE c \in early[h]
    BY <1>1, <1>2, <2>1 DEF HandlesOf, IInv, RestOK
  <2>2. CASE c \notin early[h]
    <3>1. sock[h][c.id].sum = c.sum /\ c \in Handle
      BY <2>2 DEF IInv, HandlesTrue, RestOK
    <3>2. QED
      BY <1>1, <1>2, <3>1 DEF Handle
  <2>3. QED
    BY <2>1, <2>2
<1>4. QED
  BY <1>1, <1>2, <1>3

LEMMA AppCloseKeeps ==
  ASSUME IInv, NEW h \in Host, NEW c \in held[h], AppClose(h, c)
  PROVE  IInv'
<1> DEFINE i == c.id
           s == sock[h][i]
           gone == [s EXCEPT !.handler = FALSE]
           fin == [gone EXCEPT !.state = "FIN", !.tries = 1, !.broken = TRUE]
<1>1. i \in Id /\ c \in Handle /\ s \in Socket /\ Proper(h, s)
  BY DEF IInv, RestOK, SocketsOK, Handle
<1>2. /\ held' = [held EXCEPT ![h] = @ \ {c}]
      /\ early' = [early EXCEPT ![h] = (IF c \in @ THEN @ \cup HandlesOf(h, i) ELSE @) \ {c}]
      /\ UNCHANGED <<connects, accepts, opened>>
      /\ listener' \in {0, listener} /\ listening' \in {FALSE, listening}
  BY DEF AppClose
<1>3. \/ UNCHANGED <<sock, peerIndex, net>>
      \/ s.state = "IDLE" /\ Become(h, i, gone) /\ UNCHANGED net
      \/ s.state \in {"CONNECTING", "CONNECTED"} /\ Become(h, i, fin)
         /\ Send(h, net[h], To("FIN", s), 1)
      \/ Become(h, i, Free) /\ UNCHANGED net
  BY DEF AppClose
<1>4. /\ SocketsOK' /\ IndexSound' /\ peerIndex' \in [Id -> 0..MaxId] /\ NetOK'
      /\ \A x \in Host, j \in Id : x # h \/ j # i => sock'[x][j] = sock[x][j]
  <2>1. CASE UNCHANGED <<sock, peerIndex, net>>
    BY <2>1 DEF IInv, SocketsOK, IndexSound, RestOK, NetOK
  <2>2. CASE s.state = "IDLE" /\ Become(h, i, gone) /\ UNCHANGED net
    <3>1. Proper(h, gone) /\ gone.state = "IDLE" /\ gone.remote = s.remote
      BY <1>1, <2>2 DEF Proper, Socket
    <3>2. sock' = [sock EXCEPT ![h][i] = gone] /\ peerIndex' = peerIndex
      BY <2>2, <3>1 DEF Become, Free
    <3> HIDE DEF gone
    <3>3. SocketsOK' /\ IndexSound'
      BY <1>1, <2>2, <3>1, <3>2, ChangeKeeps DEF IInv, RestOK
    <3>4. QED
      BY <2>2, <3>2, <3>3 DEF IInv, RestOK, NetOK, SocketsOK
  <2>3. CASE s.state \in {"CONNECTING", "CONNECTED"} /\ Become(h, i, fin)
             /\ Send(h, net[h], To("FIN", s), 1)
    <3>1. Proper(h, fin) /\ fin.state = "FIN" /\ fin.remote = s.remote
      <4>1. "FIN" \in State /\ TRUE \in BOOLEAN /\ FALSE \in BOOLEAN /\ 1 \in 0..SynMax + FinMax
        BY ConstantsAreNumbers DEF State
      <4>2. [[[[s EXCEPT !.handler = FALSE] EXCEPT !.state = "FIN"] EXCEPT !.tries = 1]
               EXCEPT !.broken = TRUE] \in Socket
        BY <1>1, <4>1, FieldsKeep, Zenon
      <4>3. gone \in Socket /\ gone.remote = s.remote /\ gone.sum = s.sum /\ ~gone.handler
        BY <1>1, <4>1 DEF Socket
      <4>4. fin \in Socket
        BY <4>2
      <4> HIDE DEF gone
      <4>5. fin.state = "FIN" /\ fin.remote = s.remote /\ fin.sum = s.sum /\ ~fin.handler
        BY <4>3 DEF Socket
      <4> HIDE DEF fin
      <4>6. QED
        BY <1>1, <2>3, <4>4, <4>5 DEF Proper
    <3>2. sock' = [sock EXCEPT ![h][i] = fin] /\ peerIndex' = peerIndex
      BY <2>3, <3>1 DEF Become, Free
    <3> HIDE DEF fin
    <3>3. SocketsOK' /\ IndexSound'
      BY <1>1, <2>3, <3>1, <3>2, ChangeKeeps DEF IInv, RestOK
    <3>4. NetOK'
      BY <1>1, <2>3, ToDoes, SendDoes, ConstantsAreNumbers DEF IInv, NetOK, Proper
    <3>5. QED
      BY <3>2, <3>3, <3>4 DEF IInv, RestOK, SocketsOK
  <2>4. CASE Become(h, i, Free) /\ UNCHANGED net
    BY <1>1, <2>4, FreeIndex DEF IInv, NetOK
  <2>5. QED
    BY <1>3, <2>1, <2>2, <2>3, <2>4
<1>5. HandlesTrue'
  BY <1>2, <1>4, CloseHandles
<1>6. RestOK'
  <2>1. held' \in [Host -> SUBSET Handle]
    BY <1>2 DEF IInv, RestOK
  <2>2. early' \in [Host -> SUBSET Handle]
    BY <1>2 DEF IInv, RestOK, HandlesOf
  <2>3. listener' \in 0..MaxId
    BY <1>2, ConstantsAreNumbers DEF IInv, RestOK
  <2>4. QED
    BY <1>2, <1>4, <2>1, <2>2, <2>3 DEF IInv, RestOK
<1>7. QED
  BY <1>4, <1>5, <1>6 DEF IInv

LEMMA TimeoutKeeps ==
  ASSUME IInv, NEW h \in Host, NEW i \in Id, Timeout(h, i)
  PROVE  IInv'
<1> DEFINE s == sock[h][i]
           again == [s EXCEPT !.tries = @ + 1]
<1>1. s \in Socket /\ Proper(h, s)
  BY DEF IInv, SocketsOK
<1>2. UNCHANGED <<listener, listening, early, held, connects, accepts, opened>>
  BY DEF Timeout, app
<1>3. Core' /\ NetOK'
  <2>1. ASSUME s.state \in {"CONNECTING", "FIN"}, s.tries + 1 \in 0..(SynMax + FinMax),
               Become(h, i, again)
        PROVE  Core'
    <3>1. /\ Proper(h, again) /\ again.state = s.state /\ again.remote = s.remote
          /\ again.sum = s.sum /\ again.handler = s.handler
      BY <1>1, <2>1 DEF Proper, Socket
    <3> HIDE DEF again
    <3>2. QED
      BY <1>2, <2>1, <3>1, StayKeeps
  <2>2. CASE s.state = "CONNECTING" /\ s.tries < SynMax
             /\ Become(h, i, again) /\ Send(h, net[h], Syn(i, s), 1)
    <3>1. Core'
      BY <1>1, <2>1, <2>2, ConstantsAreNumbers DEF Socket
    <3>2. NetOK'
      BY <1>1, <2>2, SynDoes, SendDoes, ConstantsAreNumbers DEF IInv, NetOK, Proper
    <3>3. QED
      BY <3>1, <3>2
  <2>3. CASE s.state = "CONNECTING" /\ Become(h, i, Ended(s)) /\ UNCHANGED net
    BY <1>1, <1>2, <2>3, EndedKeeps DEF IInv, NetOK
  <2>4. CASE s.state = "FIN" /\ s.tries < FinMax
             /\ Become(h, i, again) /\ Send(h, net[h], To("FIN", s), 1)
    <3>1. Core'
      BY <1>1, <2>1, <2>4, ConstantsAreNumbers DEF Socket
    <3>2. NetOK'
      BY <1>1, <2>4, ToDoes, SendDoes, ConstantsAreNumbers DEF IInv, NetOK, Proper
    <3>3. QED
      BY <3>1, <3>2
  <2>5. CASE s.state = "FIN" /\ Become(h, i, Free) /\ UNCHANGED net
    BY <1>1, <1>2, <2>5, FreeKeeps DEF IInv, NetOK, Proper
  <2>6. QED
    BY <2>2, <2>3, <2>4, <2>5 DEF Timeout
<1>4. QED
  BY <1>2, <1>3 DEF IInv, RestOK, Core

LEMMA KeepAliveKeeps ==
  ASSUME IInv, NEW h \in Host, NEW i \in Id, KeepAlive(h, i)
  PROVE  IInv'
<1> DEFINE s == sock[h][i]
           quieter == [s EXCEPT !.silent = @ + 1]
<1>1. s \in Socket /\ Proper(h, s) /\ s.state = "CONNECTED"
  BY DEF IInv, SocketsOK, KeepAlive
<1>2. UNCHANGED <<listener, listening, early, held, connects, accepts, opened>>
  BY DEF KeepAlive, app
<1>3. Core' /\ NetOK'
  <2>1. CASE s.silent + 1 > TimeoutCount /\ Become(h, i, Ended(s)) /\ UNCHANGED net
    BY <1>1, <1>2, <2>1, EndedKeeps DEF IInv, NetOK
  <2>2. CASE ~(s.silent + 1 > TimeoutCount) /\ Become(h, i, quieter)
             /\ Send(h, net[h], To("KEEPALIVE", s), 1)
    <3>1. /\ Proper(h, quieter) /\ quieter.state = s.state /\ quieter.remote = s.remote
          /\ quieter.sum = s.sum /\ quieter.handler = s.handler
      BY <1>1, <2>2, ConstantsAreNumbers DEF Proper, Socket
    <3> HIDE DEF quieter
    <3>2. Core'
      BY <1>1, <1>2, <2>2, <3>1, StayKeeps
    <3>3. NetOK'
      BY <1>1, <2>2, ToDoes, SendDoes, ConstantsAreNumbers DEF IInv, NetOK, Proper
    <3>4. QED
      BY <3>2, <3>3
  <2>3. QED
    BY <2>1, <2>2 DEF KeepAlive
<1>4. QED
  BY <1>2, <1>3 DEF IInv, RestOK, Core

-----------------------------------------------------------------------------
(* Datagrams.                                                              *)

\* What Receive says of early: it only grows, and takes in the handles of a socket
\* that is given back while it waits for the application.
Noted(h) ==
  /\ \A x \in Host : early[x] \subseteq early'[x]
  /\ \A j \in Id : sock[h][j].state = "FIN2" /\ sock'[h][j] = Free
                     => HandlesOf(h, j) \subseteq early'[h]

\* A socket of a connection that has ended is given back by a datagram.
LEMMA FreedByDatagram ==
  ASSUME IInv, NEW h \in Host, NEW i \in Id, Noted(h), held' = held,
         sock[h][i].state \notin {"FREE", "IDLE", "CONNECTING", "CONNECTED"},
         Become(h, i, Free)
  PROVE  Core'
<1>1. sock[h][i].state \in State /\ (sock[h][i].state = "FIN" => ~sock[h][i].handler)
  BY DEF IInv, SocketsOK, Proper, Socket
<1>2. sock[h][i].handler => sock[h][i].state = "FIN2"
  BY <1>1 DEF State
<1>3. sock'[h][i] = Free
  BY DEF Become, IInv, SocketsOK
<1>4. sock[h][i].handler => HandlesOf(h, i) \subseteq early'[h]
  BY <1>2, <1>3 DEF Noted
<1>5. QED
  BY <1>4, FreeKeeps DEF Noted

\* A datagram that changes nothing.
LEMMA NothingKeeps ==
  ASSUME IInv, UNCHANGED <<sock, peerIndex, held>>, \A x \in Host : early[x] \subseteq early'[x]
  PROVE  Core'
BY DEF IInv, Core, SocketsOK, IndexSound, HandlesTrue, RestOK

LEMMA ProcessKeeps ==
  ASSUME IInv, NEW h \in Host, NEW i \in Id, NEW m \in Sent, NEW rest \in Seq(Sent),
         Noted(h), Process(h, i, m, rest)
  PROVE  Core' /\ NetOK'
<1>1. held' = held /\ NetOK /\ \A x \in Host : early[x] \subseteq early'[x]
  BY DEF Process, IInv, Noted
<1>2. CASE sock[h][i].sum # m.sum
  BY <1>1, <1>2, NothingKeeps, QuietDoes DEF Process
<1>3. CASE sock[h][i].sum = m.sum
  <2> DEFINE s == [sock[h][i] EXCEPT !.silent = 0]
  <2>1. /\ s.state = sock[h][i].state /\ s.remote = sock[h][i].remote
        /\ s.sum = sock[h][i].sum /\ s.handler = sock[h][i].handler
        /\ s \in Socket
    <3>1. sock[h][i] \in Socket /\ 0 \in 0..TimeoutCount
      BY ConstantsAreNumbers DEF IInv, SocketsOK
    <3>2. s \in Socket
      BY <3>1, FieldsKeep
    <3>3. QED
      BY <3>1, <3>2 DEF Socket
  <2>2. \/ ProcessSyn2(h, i, s, m, rest) \/ ProcessSynAck(h, i, s, m, rest)
        \/ ProcessFin(h, i, s, m, rest) \/ ProcessFin2(h, i, s, m, rest)
        \/ ProcessKeepAlive(h, i, s, m, rest)
    BY <1>3 DEF Process
  <2> HIDE DEF s
  <2>3. Proper(h, s) /\ s.sum # 0 /\ s.state \notin {"FREE", "IDLE"}
    BY <1>3, <2>1 DEF IInv, SocketsOK, Proper, Sent
  <2>4. \A t \in {"SYN_ACK", "FIN2", "KEEPALIVE_ACK"}, n \in {1, Copies} :
          Send(h, rest, To(t, s), n) => NetOK'
    BY <1>1, <2>1, <2>3, ToDoes, SendDoes, ConstantsAreNumbers
  <2>5. Quiet(h, rest) => NetOK'
    BY <1>1, QuietDoes
  <2>6. Become(h, i, s) => Core'
    BY <1>1, <2>1, <2>3, StayKeeps
  <2>7. s.state \in {"CONNECTING", "CONNECTED"} /\ Become(h, i, Ended(s)) => Core'
    BY <1>1, <2>1, <2>3, EndedKeeps
  <2>8. CASE ProcessSyn2(h, i, s, m, rest)
    <3> DEFINE c == [s EXCEPT !.state = "CONNECTED", !.remote = m.from, !.tries = 0]
    <3>1. CASE s.state = "CONNECTING" /\ m.ok
      <4>1. m.from \in 0..MaxId /\ "CONNECTED" \in State /\ 0 \in 0..SynMax + FinMax
        BY <2>8, ConstantsAreNumbers DEF ProcessSyn2, Sent, Message, Id, State
      <4>2. [[[s EXCEPT !.state = "CONNECTED"] EXCEPT !.remote = m.from] EXCEPT !.tries = 0]
              \in Socket
        BY <2>1, <4>1, FieldsKeep, Zenon
      <4>3. c.state = "CONNECTED" /\ c.sum = s.sum /\ c.handler = s.handler
        BY <2>1 DEF Socket
      <4>4. c \in Socket
        BY <4>2
      <4>5. Become(h, i, c) /\ Send(h, rest, To("SYN_ACK", c), 1)
        BY <2>8, <3>1 DEF ProcessSyn2
      <4> HIDE DEF c
      <4>6. Proper(h, c) /\ h # Server /\ c.sum # 0
        BY <2>3, <3>1, <4>3, <4>4 DEF Proper
      <4>7. Core'
        BY <1>1, <2>1, <4>3, <4>5, <4>6, StayKeeps
      <4>8. NetOK'
        BY <1>1, <4>4, <4>5, <4>6, ToDoes, SendDoes, ConstantsAreNumbers
      <4>9. QED
        BY <4>7, <4>8
    <3>2. CASE s.state = "CONNECTING" /\ ~m.ok
      BY <2>5, <2>7, <2>8, <3>2 DEF ProcessSyn2
    <3>3. CASE s.state = "CONNECTED"
      BY <2>4, <2>6, <2>8, <3>3 DEF ProcessSyn2
    <3>4. CASE s.state \notin {"CONNECTING", "CONNECTED"}
      BY <2>5, <2>6, <2>8, <3>4 DEF ProcessSyn2
    <3>5. QED
      BY <3>1, <3>2, <3>3, <3>4
  <2>9. CASE ProcessSynAck(h, i, s, m, rest)
    <3>1. /\ sock' = [sock EXCEPT ![h][i] = s] /\ NetOK'
          /\ peerIndex' = IF h = Server THEN Unindexed(s) ELSE peerIndex
      BY <2>5, <2>9 DEF ProcessSynAck
    <3>2. /\ peerIndex' \in [Id -> 0..MaxId]
          /\ \A k \in Id : peerIndex'[k] \in {0, peerIndex[k]}
      BY <3>1, ConstantsAreNumbers DEF IInv, RestOK, Unindexed
    <3>3. SocketsOK' /\ IndexSound'
      BY <2>1, <2>3, <3>1, <3>2, ChangeKeeps
    <3>4. /\ sock'[h][i] = s
          /\ \A x \in Host, j \in Id : x # h \/ j # i => sock'[x][j] = sock[x][j]
      BY <3>1 DEF IInv, SocketsOK
    <3>5. HandlesTrue'
      BY <1>1, <2>1, <3>4, HandlesStay
    <3>6. QED
      BY <3>1, <3>2, <3>3, <3>5 DEF Core
  <2>10. CASE ProcessFin(h, i, s, m, rest)
    <3>1. NetOK'
      BY <2>4, <2>10 DEF ProcessFin
    <3>2. CASE s.state \in {"CONNECTING", "CONNECTED"}
      BY <2>7, <2>10, <3>1, <3>2 DEF ProcessFin
    <3>3. CASE s.state \notin {"CONNECTING", "CONNECTED"}
      BY <1>1, <2>1, <2>3, <2>10, <3>1, <3>3, FreedByDatagram DEF ProcessFin
    <3>4. QED
      BY <3>2, <3>3
  <2>11. CASE ProcessFin2(h, i, s, m, rest)
    <3>1. NetOK'
      BY <2>5, <2>11 DEF ProcessFin2
    <3>2. CASE s.handler
      <4> DEFINE b == [s EXCEPT !.broken = TRUE]
      <4>1. /\ b \in Socket /\ b.state = s.state /\ b.remote = s.remote
            /\ b.sum = s.sum /\ b.handler = s.handler
        BY <2>1 DEF Socket
      <4>2. Become(h, i, b)
        BY <2>11, <3>2 DEF ProcessFin2
      <4> HIDE DEF b
      <4>3. Proper(h, b)
        BY <2>3, <4>1 DEF Proper
      <4>4. QED
        BY <1>1, <2>1, <2>3, <3>1, <4>1, <4>2, <4>3, StayKeeps
    <3>3. CASE ~s.handler
      BY <1>1, <2>1, <2>11, <3>1, <3>3, FreeKeeps DEF ProcessFin2
    <3>4. QED
      BY <3>2, <3>3
  <2>12. CASE ProcessKeepAlive(h, i, s, m, rest)
    BY <2>4, <2>5, <2>6, <2>12 DEF ProcessKeepAlive
  <2>13. QED
    BY <2>2, <2>8, <2>9, <2>10, <2>11, <2>12
<1>4. QED
  BY <1>2, <1>3

LEMMA RepeatedSynKeeps ==
  ASSUME IInv, NEW m \in Sent, m.type = "SYN", NEW rest \in Seq(Sent), Noted(Server),
         RepeatedSyn(m, rest)
  PROVE  Core' /\ NetOK'
<1> DEFINE j == peerIndex[m.from]
           s == sock[Server][j]
<1>1. /\ held' = held /\ NetOK /\ Server \in Host
      /\ \A x \in Host : early[x] \subseteq early'[x]
  BY DEF RepeatedSyn, IInv, Noted, Host
<1>2. m.from \in Id /\ j \in Id
  BY ConstantsAreNumbers DEF Sent, Message, RepeatedSyn, IInv, RestOK, Id
<1>3. s \in Socket /\ s.sum # 0 /\ s.state \notin {"FREE", "IDLE"}
  BY <1>1, <1>2 DEF IInv, IndexSound, SocketsOK, Proper, RepeatedSyn
<1>4. NetOK'
  <2>1. PICK ok \in BOOLEAN : Send(Server, rest, Syn2(j, s, ok), Copies)
    BY DEF RepeatedSyn
  <2>2. QED
    BY <1>1, <1>2, <1>3, <2>1, SynDoes, SendDoes, ConstantsAreNumbers
<1>5. CASE s.state \in {"CONNECTING", "CONNECTED"}
  BY <1>1, <1>4, <1>5, NothingKeeps DEF RepeatedSyn
<1>6. CASE s.state \notin {"CONNECTING", "CONNECTED"}
  BY <1>1, <1>2, <1>3, <1>4, <1>6, FreedByDatagram DEF RepeatedSyn
<1>7. QED
  BY <1>5, <1>6

LEMMA NewSynKeeps ==
  ASSUME IInv, NEW m \in Sent, m.type = "SYN", NEW rest \in Seq(Sent), Noted(Server),
         NewSyn(m, rest)
  PROVE  Core' /\ NetOK' /\ held' \in [Host -> SUBSET Handle] /\ UNCHANGED listener
         /\ listening' \in BOOLEAN /\ opened' \in [1..Connects -> Nat]
<1> DEFINE new == [Free EXCEPT !.state = "CONNECTED", !.remote = m.from,
                               !.sum = m.sum, !.handler = listening]
<1>1. PICK j \in Id :
        /\ peerIndex[m.from] = 0 /\ IsNextId(Server, j)
        /\ sock' = [sock EXCEPT ![Server][j] = new]
        /\ peerIndex' = [peerIndex EXCEPT ![m.from] = j]
        /\ listening' = FALSE /\ Accepted(j, m) /\ UNCHANGED listener
        /\ \E q \in After(net[Client], Syn2(j, new, TRUE), Copies) :
             \E r \in After(q, To("KEEPALIVE", new), 1) :
               net' = [net EXCEPT ![Server] = rest, ![Client] = r]
  BY DEF NewSyn
<1>2. m.from \in Id /\ m.from \in 0..MaxId /\ m.sum \in 0..Connects /\ m.sum # 0
  BY ConstantsAreNumbers DEF Sent, Message, Id
<1>3. new \in Socket /\ new.state = "CONNECTED" /\ new.remote = m.from /\ new.sum = m.sum
      /\ new.handler = listening
  <2>1. "CONNECTED" \in State /\ Free \in Socket /\ listening \in BOOLEAN
    BY FreeIsProper DEF State, Proper, IInv, RestOK
  <2>2. [[[[Free EXCEPT !.state = "CONNECTED"] EXCEPT !.remote = m.from]
            EXCEPT !.sum = m.sum] EXCEPT !.handler = listening] \in Socket
    BY <1>2, <2>1, FieldsKeep, Zenon
  <2>3. QED
    BY <2>1, <2>2 DEF Socket
<1> HIDE DEF new
<1>4. Proper(Server, new)
  BY <1>2, <1>3 DEF Proper
<1>5. Server \in Host /\ Client \in Host
  BY DEF Host
<1>6. SocketsOK' /\ HandlesTrue'
  BY <1>1, <1>3, <1>4, <1>5, CreateKeeps DEF Accepted, Noted
<1>7. peerIndex' \in [Id -> 0..MaxId]
  BY <1>1, <1>2, ConstantsAreNumbers DEF IInv, RestOK, Id
<1>8. IndexSound'
  <2> SUFFICES ASSUME NEW k \in Id, peerIndex'[k] # 0
               PROVE  /\ sock'[Server][peerIndex'[k]].state \notin {"FREE", "IDLE"}
                      /\ sock'[Server][peerIndex'[k]].remote = k
    BY DEF IndexSound
  <2>1. /\ sock'[Server][j] = new
        /\ \A i \in Id : i # j => sock'[Server][i] = sock[Server][i]
    BY <1>1, <1>5 DEF IInv, SocketsOK
  <2>2. CASE k = m.from
    BY <1>1, <1>2, <1>3, <2>1, <2>2 DEF IInv, RestOK
  <2>3. CASE k # m.from
    <3>1. peerIndex'[k] = peerIndex[k] /\ peerIndex[k] \in Id
      BY <1>1, <2>3, ConstantsAreNumbers DEF IInv, RestOK, Id
    <3>2. /\ sock[Server][peerIndex[k]].state \notin {"FREE", "IDLE"}
          /\ sock[Server][peerIndex[k]].remote = k
      BY <3>1 DEF IInv, IndexSound
    <3>3. peerIndex[k] # j
      BY <1>1, <3>2 DEF IsNextId
    <3>4. QED
      BY <2>1, <3>1, <3>2, <3>3
  <2>4. QED
    BY <2>2, <2>3
<1>9. NetOK'
  <2>1. Syn2(j, new, TRUE) \in Sent /\ To("KEEPALIVE", new) \in Sent
    BY <1>2, <1>3, SynDoes, ToDoes
  <2>2. PICK q \in After(net[Client], Syn2(j, new, TRUE), Copies) :
          \E r \in After(q, To("KEEPALIVE", new), 1) :
            net' = [net EXCEPT ![Server] = rest, ![Client] = r]
    BY <1>1
  <2>3. PICK r \in After(q, To("KEEPALIVE", new), 1) :
          net' = [net EXCEPT ![Server] = rest, ![Client] = r]
    BY <2>2
  <2>4. q \in Seq(Sent)
    BY <1>5, <2>1, AfterDoes, ConstantsAreNumbers DEF IInv, NetOK
  <2>5. r \in Seq(Sent)
    BY <2>1, <2>4, AfterDoes, ConstantsAreNumbers
  <2>6. QED
    BY <2>3, <2>5 DEF IInv, NetOK
<1>10. held' \in [Host -> SUBSET Handle]
  <2>1. [id |-> j, sum |-> m.sum] \in Handle
    BY <1>2 DEF Handle
  <2>2. QED
    BY <1>1, <2>1 DEF Accepted, IInv, RestOK
<1>11. opened' \in [1..Connects -> Nat]
  <2>1. m.sum \in 1..Connects
    BY <1>2, ConstantsAreNumbers
  <2>2. opened \in [1..Connects -> Nat]
    BY DEF IInv, RestOK
  <2>3. opened' = [opened EXCEPT ![m.sum] = @ + 1] \/ opened' = opened
    BY <1>1 DEF Accepted
  <2>4. opened[m.sum] + 1 \in Nat
    BY <2>1, <2>2
  <2>5. CASE opened' = [opened EXCEPT ![m.sum] = @ + 1]
    BY <2>2, <2>4, <2>5
  <2>6. QED
    BY <2>2, <2>3, <2>5
<1>12. QED
  BY <1>1, <1>6, <1>7, <1>8, <1>9, <1>10, <1>11 DEF Core

LEMMA ReceiveKeeps ==
  ASSUME IInv, NEW h \in Host, Receive(h)
  PROVE  IInv'
<1>1. PICK k \in 1..Len(net[h]) :
        LET m    == net[h][k]
            rest == SubSeq(net[h], 1, k - 1) \o SubSeq(net[h], k + 1, Len(net[h]))
        IN \/ Alive(h, m.to) /\ Process(h, m.to, m, rest)
           \/ h = Server /\ AcceptSyn(m, rest)
           \/ /\ Quiet(h, rest)
              /\ UNCHANGED <<sock, peerIndex, listener, listening, held, opened>>
  BY DEF Receive
<1> DEFINE m    == net[h][k]
           rest == SubSeq(net[h], 1, k - 1) \o SubSeq(net[h], k + 1, Len(net[h]))
<1>2. m \in Sent /\ rest \in Seq(Sent)
  <2>1. net[h] \in Seq(Sent)
    BY DEF IInv, NetOK
  <2>2. QED
    BY <2>1, RestDoes
<1>3. m.to \in 0..MaxId
  BY <1>2, ConstantsAreNumbers DEF Sent, Message
<1>4. /\ early' = [early EXCEPT ![h] = @ \cup
                     UNION {HandlesOf(h, i) : i \in {j \in Id : sock[h][j].state = "FIN2"
                                                                /\ sock'[h][j] = Free}}]
      /\ UNCHANGED <<connects, accepts>>
  BY DEF Receive
<1>5. Noted(h)
  BY <1>4 DEF Noted, IInv, RestOK
<1>6. early' \in [Host -> SUBSET Handle]
  <2>1. \A i \in Id : HandlesOf(h, i) \subseteq Handle
    BY DEF HandlesOf, IInv, RestOK
  <2>2. UNION {HandlesOf(h, i) : i \in {j \in Id : sock[h][j].state = "FIN2"
                                                   /\ sock'[h][j] = Free}} \subseteq Handle
    BY <2>1
  <2>3. QED
    BY <1>4, <2>2 DEF IInv, RestOK
<1>7. /\ Core' /\ NetOK' /\ held' \in [Host -> SUBSET Handle]
      /\ UNCHANGED listener /\ listening' \in BOOLEAN /\ opened' \in [1..Connects -> Nat]
  <2> HIDE DEF m, rest
  <2>1. CASE Alive(h, m.to) /\ Process(h, m.to, m, rest)
    <3>1. m.to \in Id
      BY <1>3, <2>1, ConstantsAreNumbers DEF Alive, Id
    <3>2. UNCHANGED <<listener, listening, held, opened>>
      BY <2>1 DEF Process
    <3>3. QED
      BY <1>2, <1>5, <2>1, <3>1, <3>2, ProcessKeeps DEF IInv, RestOK
  <2>2. CASE h = Server /\ AcceptSyn(m, rest)
    <3>1. CASE RepeatedSyn(m, rest)
      <4>1. UNCHANGED <<listener, listening, held, opened>>
        BY <3>1 DEF RepeatedSyn
      <4>2. QED
        BY <1>2, <1>5, <2>2, <3>1, <4>1, RepeatedSynKeeps DEF IInv, RestOK, AcceptSyn
    <3>2. CASE NewSyn(m, rest)
      BY <1>2, <1>5, <2>2, <3>2, NewSynKeeps DEF AcceptSyn
    <3>3. QED
      BY <2>2, <3>1, <3>2 DEF AcceptSyn
  <2>3. CASE Quiet(h, rest) /\ UNCHANGED <<sock, peerIndex, listener, listening, held, opened>>
    BY <1>2, <1>5, <2>3, NothingKeeps, QuietDoes DEF IInv, RestOK, Noted
  <2>4. QED
    BY <1>1, <2>1, <2>2, <2>3 DEF m, rest
<1>8. QED
  BY <1>4, <1>6, <1>7 DEF IInv, RestOK, Core

-----------------------------------------------------------------------------
\* Initially all sockets are free and nothing is under way.
LEMMA InitIInv == Init => IInv
<1> SUFFICES ASSUME Init PROVE IInv
  OBVIOUS
<1>1. SocketsOK
  BY FreeIsProper DEF Init, SocketsOK, Proper
<1>2. NetOK
  BY DEF Init, NetOK
<1>3. RestOK
  <2>1. 0 \in 0..MaxId /\ 0 \in 0..Connects /\ 0 \in 0..Accepts
    BY ConstantsAreNumbers
  <2>2. held \in [Host -> SUBSET Handle] /\ early \in [Host -> SUBSET Handle]
    BY DEF Init
  <2>3. peerIndex \in [Id -> 0..MaxId]
    BY <2>1 DEF Init
  <2>4. QED
    BY <2>1, <2>2, <2>3 DEF Init, RestOK
<1>4. IndexSound /\ HandlesTrue
  BY DEF Init, IndexSound, HandlesTrue
<1>5. QED
  BY <1>1, <1>2, <1>3, <1>4 DEF IInv

\* Every step keeps the invariant.
LEMMA StepKeepsIInv == IInv /\ [Next]_vars => IInv'
<1> SUFFICES ASSUME IInv, [Next]_vars PROVE IInv'
  OBVIOUS
<1>1. CASE UNCHANGED vars
  BY <1>1 DEF vars, app, IInv, SocketsOK, NetOK, RestOK, IndexSound, HandlesTrue
<1>2. CASE \E i \in Id : Connect(i) \/ Listen(i)
  BY <1>2, ConnectKeeps, ListenKeeps
<1>3. CASE \E h \in Host : \E c \in held[h] : AppClose(h, c)
  BY <1>3, AppCloseKeeps
<1>4. CASE \E h \in Host, i \in Id : Timeout(h, i) \/ KeepAlive(h, i)
  BY <1>4, TimeoutKeeps, KeepAliveKeeps
<1>5. CASE \E h \in Host : Receive(h)
  BY <1>5, ReceiveKeeps
<1>6. QED
  BY <1>1, <1>2, <1>3, <1>4, <1>5 DEF Next

LEMMA IInvTypes == IInv => TypeOK
<1> SUFFICES ASSUME IInv PROVE TypeOK
  OBVIOUS
<1>1. Seq(Sent) \subseteq Seq(Message)
  BY DEF Sent
<1>2. net \in [Host -> Seq(Message)]
  BY <1>1 DEF IInv, NetOK
<1>3. QED
  BY <1>2 DEF IInv, SocketsOK, RestOK, TypeOK

\* The tables, handles and datagrams keep their types.
THEOREM TypeCorrect == Spec => []TypeOK
BY InitIInv, StepKeepsIInv, IInvTypes, PTL DEF Spec

\* Whatever a path loses, repeats or reorders: process() never finds a socket in
\* the index of half open connections that was closed, or is another peer's.
THEOREM AlwaysIndexSound == Spec => []IndexSound
<1>1. IInv => IndexSound
  BY DEF IInv
<1>2. QED
  BY InitIInv, StepKeepsIInv, <1>1, PTL DEF Spec

\* And an application that closes by its handle closes its own connection, unless
\* a FIN or SYN of the peer has given back the socket under it.
THEOREM AlwaysHandlesTrue == Spec => []HandlesTrue
<1>1. IInv => HandlesTrue
  BY DEF IInv
<1>2. QED
  BY InitIInv, StepKeepsIInv, <1>1, PTL DEF Spec
-----------------------------------------------------------------------------
(* What a step does to the sockets and to the path, in terms of the kinds   *)
(* of datagrams that the next property is about.                            *)

Others(h, i) == \A x \in Host, j \in Id : x # h \/ j # i => sock'[x][j] = sock[x][j]

\* Socket i of h stays with its connection.
Stays(h, i) ==
  LET s == sock[h][i]
      t == sock'[h][i]
  IN /\ Others(h, i)
     /\ t.sum = s.sum /\ (t.handler => s.handler)
     /\ h = Server => t.remote = s.remote
     /\ t.state = "FIN" => s.state = "FIN" \/ (s.handler /\ ~t.handler /\ s.sum # 0)
     /\ t.state = "CONNECTING" => s.state = "CONNECTING"
     /\ s.state = "FREE" => t.state = "FREE"

\* It is given back.
GivenBack(h, i) ==
  /\ Others(h, i)
  /\ sock'[h][i] = Free /\ sock[h][i].sum # 0
  /\ peerIndex' = IF h = Server THEN Unindexed(sock[h][i]) ELSE peerIndex

\* What h sends says how one of its sockets is left.
Says(h, m) ==
  m.type = "FIN" => \E i \in Id : sock'[h][i].state = "FIN" /\ sock'[h][i].sum = m.sum

Sends(h) ==
  LET q == net[Other(h)]
      r == net'[Other(h)]
  IN /\ Len(r) >= Len(q)
     /\ \A k \in 1..Len(r) : IF k <= Len(q) THEN r[k] = q[k] ELSE Says(h, r[k])

Without(q, k) == SubSeq(q, 1, k - 1) \o SubSeq(q, k + 1, Len(q))

\* h takes datagram k.
Takes(h, k) == /\ k \in 1..Len(net[h]) /\ (k = 1 \/ Reordering)
               /\ net'[h] = Without(net[h], k)

PathStep(h) == Sends(h) /\ (net'[h] = net[h] \/ \E k \in 1..Len(net[h]) : Takes(h, k))

\* A step that changes at most one socket of h, and makes none.
Moves(h) ==
  /\ PathStep(h)
  /\ \E i \in Id : GivenBack(h, i) \/ Stays(h, i)
  /\ UNCHANGED <<connects, opened>>

\* A step that makes a socket for a SYN.
TakesSyn ==
  /\ PathStep(Server) /\ UNCHANGED connects
  /\ \E k \in 1..Len(net[Server]), j \in Id :
       LET m == net[Server][k]
           t == sock'[Server][j]
       IN /\ Takes(Server, k) /\ m.type = "SYN"
          /\ Others(Server, j) /\ sock[Server][j].state = "FREE"
          /\ t.state = "CONNECTED" /\ t.remote = m.from /\ t.sum = m.sum
          /\ t.handler = listening
          /\ opened' = IF listening THEN [opened EXCEPT ![m.sum] = @ + 1] ELSE opened

\* The path r is q with copies of m after it.
Extends(q, r, m) ==
  /\ Len(r) >= Len(q)
  /\ \A k \in 1..Len(r) : r[k] = IF k <= Len(q) THEN q[k] ELSE m

LEMMA AfterExtends ==
  ASSUME NEW q \in Seq(Sent), NEW m \in Sent, NEW n \in Nat, NEW r \in After(q, m, n)
  PROVE  Extends(q, r, m)
<1>1. PICK j \in 0..n : r = q \o [k \in 1..j |-> m]
  BY DEF After
<1> DEFINE copies == [k \in 1..j |-> m]
<1>2. copies \in Seq(Sent) /\ Len(copies) = j /\ \A k \in 1..j : copies[k] = m
  OBVIOUS
<1>3. r = q \o copies
  BY <1>1
<1> HIDE DEF copies
<1>4. /\ Len(r) = Len(q) + j
      /\ \A k \in 1..Len(r) : r[k] = IF k <= Len(q) THEN q[k] ELSE copies[k - Len(q)]
  BY <1>2, <1>3, ConcatProperties
<1>5. Len(q) \in Nat
  OBVIOUS
<1>6. QED
  BY <1>2, <1>4, <1>5 DEF Extends

LEMMA SendSays ==
  ASSUME IInv, NEW h \in Host, NEW rest, NEW m \in Sent, NEW n \in Nat,
         Send(h, rest, m, n), Says(h, m)
  PROVE  net'[h] = rest /\ Sends(h)
<1>1. PICK r \in After(net[Other(h)], m, n) :
        net' = [net EXCEPT ![h] = rest, ![Other(h)] = r]
  BY DEF Send
<1>2. Other(h) \in Host /\ Other(h) # h
  BY ConstantsAreNumbers DEF Other, Host
<1>3. net'[h] = rest /\ net'[Other(h)] = r /\ net[Other(h)] \in Seq(Sent)
  BY <1>1, <1>2 DEF IInv, NetOK
<1>4. Extends(net[Other(h)], r, m)
  BY <1>1, <1>3, AfterExtends
<1>5. QED
  BY <1>3, <1>4 DEF Sends, Extends

LEMMA QuietSays ==
  ASSUME IInv, NEW h \in Host, NEW rest, Quiet(h, rest)
  PROVE  net'[h] = rest /\ Sends(h)
<1>1. Other(h) \in Host /\ Other(h) # h
  BY ConstantsAreNumbers DEF Other, Host
<1>2. net'[h] = rest /\ net'[Other(h)] = net[Other(h)] /\ net[Other(h)] \in Seq(Sent)
  BY <1>1 DEF IInv, NetOK, Quiet
<1>3. QED
  BY <1>2 DEF Sends

LEMMA SilentSays ==
  ASSUME IInv, NEW h \in Host, UNCHANGED net
  PROVE  net'[h] = net[h] /\ Sends(h)
<1>1. net[Other(h)] \in Seq(Sent)
  BY DEF IInv, NetOK, Other, Host
<1>2. QED
  BY <1>1 DEF Sends

\* Nothing happens to the sockets.
LEMMA SameStays ==
  ASSUME NEW h \in Host, NEW i \in Id, UNCHANGED sock
  PROVE  Stays(h, i)
BY DEF Stays, Others

LEMMA BecomeStays ==
  ASSUME IInv, NEW h \in Host, NEW i \in Id, NEW t \in Socket, Become(h, i, t),
         t.state # "FREE", sock[h][i].state # "FREE",
         t.sum = sock[h][i].sum, t.handler => sock[h][i].handler,
         h = Server => t.remote = sock[h][i].remote,
         t.state = "FIN" => \/ sock[h][i].state = "FIN"
                            \/ sock[h][i].handler /\ ~t.handler /\ sock[h][i].sum # 0,
         t.state = "CONNECTING" => sock[h][i].state = "CONNECTING"
  PROVE  Stays(h, i) /\ peerIndex' = peerIndex /\ sock'[h][i] = t
<1>1. t # Free
  BY DEF Free
<1>2. sock' = [sock EXCEPT ![h][i] = t] /\ peerIndex' = peerIndex
  BY <1>1 DEF Become
<1>3. Others(h, i) /\ sock'[h][i] = t
  BY <1>2 DEF Others, IInv, SocketsOK
<1>4. QED
  BY <1>2, <1>3 DEF Stays

LEMMA BecomeFreed ==
  ASSUME IInv, NEW h \in Host, NEW i \in Id, Become(h, i, Free), sock[h][i].sum # 0
  PROVE  GivenBack(h, i)
<1>1. sock' = [sock EXCEPT ![h][i] = Free]
  BY DEF Become
<1>2. Others(h, i) /\ sock'[h][i] = Free
  BY <1>1 DEF Others, IInv, SocketsOK
<1>3. QED
  BY <1>2 DEF GivenBack, Become

LEMMA BecomeEnded ==
  ASSUME IInv, NEW h \in Host, NEW i \in Id, NEW s \in Socket, Become(h, i, Ended(s)),
         sock[h][i].state \in {"CONNECTING", "CONNECTED"}, sock[h][i].sum # 0,
         s.sum = sock[h][i].sum, s.handler = sock[h][i].handler,
         s.remote = sock[h][i].remote
  PROVE  GivenBack(h, i) \/ (Stays(h, i) /\ peerIndex' = peerIndex)
<1>1. CASE s.handler
  <2> DEFINE e == [s EXCEPT !.state = "FIN2", !.tries = 0, !.broken = TRUE]
  <2>1. e \in Socket /\ e.state = "FIN2" /\ e.remote = s.remote /\ e.sum = s.sum
        /\ e.handler = s.handler
    <3>1. "FIN2" \in State /\ 0 \in 0..SynMax + FinMax /\ TRUE \in BOOLEAN
      BY ConstantsAreNumbers DEF State
    <3>2. [[[s EXCEPT !.state = "FIN2"] EXCEPT !.tries = 0] EXCEPT !.broken = TRUE] \in Socket
      BY <3>1, FieldsKeep, Zenon
    <3>3. e.state = "FIN2" /\ e.remote = s.remote /\ e.sum = s.sum /\ e.handler = s.handler
      BY <3>1 DEF Socket
    <3>4. e \in Socket
      BY <3>2
    <3>5. QED
      BY <3>3, <3>4
  <2>2. Become(h, i, e)
    BY <1>1 DEF Ended
  <2> HIDE DEF e
  <2>3. QED
    BY <2>1, <2>2, BecomeStays
<1>2. CASE ~s.handler
  BY <1>2, BecomeFreed DEF Ended
<1>3. QED
  BY <1>1, <1>2

\* What is left of a path when its datagram k is taken.
LEMMA WithoutDoes ==
  ASSUME NEW q \in Seq(Sent), NEW k \in 1..Len(q)
  PROVE  /\ Without(q, k) \in Seq(Sent) /\ Len(Without(q, k)) = Len(q) - 1
         /\ \A l \in 1..Len(Without(q, k)) :
              /\ \E n \in 1..Len(q) : Without(q, k)[l] = q[n]
              /\ k = 1 => l + 1 \in 1..Len(q) /\ Without(q, k)[l] = q[l + 1]
<1> DEFINE a == SubSeq(q, 1, k - 1)
           b == SubSeq(q, k + 1, Len(q))
<1>1. Len(q) \in Nat /\ k \in Int /\ \A i \in 1..Len(q) : q[i] \in Sent
  OBVIOUS
<1>2. /\ a \in Seq(Sent) /\ Len(a) = (IF 1 <= k - 1 THEN k - 1 ELSE 0)
      /\ \A i \in 1..k - 1 : a[i] = q[i]
  <2>1. 1 \in Int /\ k - 1 \in Int /\ \A i \in 1..k - 1 : q[i] \in Sent
    BY <1>1
  <2>2. /\ a \in Seq(Sent) /\ Len(a) = (IF 1 <= k - 1 THEN (k - 1) - 1 + 1 ELSE 0)
        /\ \A i \in 1..(k - 1) - 1 + 1 : a[i] = q[1 + i - 1]
    BY <2>1, SubSeqProperties
  <2> HIDE DEF a
  <2>3. QED
    BY <1>1, <2>2
<1>3. /\ b \in Seq(Sent) /\ Len(b) = (IF k + 1 <= Len(q) THEN Len(q) - k ELSE 0)
      /\ \A i \in 1..Len(q) - k : b[i] = q[k + i]
  <2>1. k + 1 \in Int /\ Len(q) \in Int /\ \A i \in (k + 1)..Len(q) : q[i] \in Sent
    BY <1>1
  <2>2. /\ b \in Seq(Sent) /\ Len(b) = (IF k + 1 <= Len(q) THEN Len(q) - (k + 1) + 1 ELSE 0)
        /\ \A i \in 1..Len(q) - (k + 1) + 1 : b[i] = q[(k + 1) + i - 1]
    BY <2>1, SubSeqProperties
  <2> HIDE DEF b
  <2>3. QED
    BY <1>1, <2>2
<1> HIDE DEF a, b
<1>4. /\ a \o b \in Seq(Sent) /\ Len(a \o b) = Len(a) + Len(b)
      /\ \A i \in 1..Len(a) + Len(b) : (a \o b)[i] = IF i <= Len(a) THEN a[i] ELSE b[i - Len(a)]
  BY <1>2, <1>3, ConcatProperties
<1>5. Len(a) = k - 1 /\ Len(b) = Len(q) - k
  BY <1>1, <1>2, <1>3
<1>6. Without(q, k) = a \o b
  BY DEF Without, a, b
<1>7. ASSUME NEW l \in 1..Len(a \o b)
      PROVE  /\ \E n \in 1..Len(q) : (a \o b)[l] = q[n]
             /\ k = 1 => l + 1 \in 1..Len(q) /\ (a \o b)[l] = q[l + 1]
  <2>1. l \in 1..Len(q) - 1
    BY <1>1, <1>4, <1>5
  <2>2. CASE l <= k - 1
    BY <1>1, <1>2, <1>4, <1>5, <2>1, <2>2
  <2>3. CASE ~(l <= k - 1)
    <3>1. (a \o b)[l] = b[l - (k - 1)] /\ l - (k - 1) \in 1..Len(q) - k
      BY <1>1, <1>4, <1>5, <2>1, <2>3
    <3>2. (a \o b)[l] = q[k + (l - (k - 1))] /\ k + (l - (k - 1)) = l + 1
      BY <1>1, <1>3, <2>1, <3>1
    <3>3. QED
      BY <1>1, <2>1, <3>2
  <2>4. QED
    BY <2>2, <2>3
<1>8. Len(a \o b) = Len(q) - 1
  BY <1>1, <1>4, <1>5
<1>9. QED
  BY <1>4, <1>6, <1>7, <1>8

-----------------------------------------------------------------------------
(* Every step but connect(), listen() and the SYN of a new connection moves.*)

LEMMA AppCloseMoves ==
  ASSUME IInv, NEW h \in Host, NEW c \in held[h], AppClose(h, c)
  PROVE  Moves(h)
<1> DEFINE i == c.id
           s == sock[h][i]
           gone == [s EXCEPT !.handler = FALSE]
           fin == [gone EXCEPT !.state = "FIN", !.tries = 1, !.broken = TRUE]
<1>1. i \in Id /\ s \in Socket /\ Proper(h, s)
  BY DEF IInv, RestOK, SocketsOK, Handle
<1>2. UNCHANGED <<connects, opened>>
  BY DEF AppClose
<1>3. \/ UNCHANGED <<sock, peerIndex, net>>
      \/ s.handler /\ s.state = "IDLE" /\ Become(h, i, gone) /\ UNCHANGED net
      \/ s.handler /\ s.state \in {"CONNECTING", "CONNECTED"} /\ Become(h, i, fin)
         /\ Send(h, net[h], To("FIN", s), 1)
      \/ s.state = "FIN2" /\ Become(h, i, Free) /\ UNCHANGED net
  BY DEF AppClose
<1>4. PathStep(h) /\ (GivenBack(h, i) \/ Stays(h, i))
  <2>1. CASE UNCHANGED <<sock, peerIndex, net>>
    BY <1>1, <2>1, SameStays, SilentSays DEF PathStep
  <2>2. CASE s.handler /\ s.state = "IDLE" /\ Become(h, i, gone) /\ UNCHANGED net
    <3>1. gone \in Socket /\ gone.state = "IDLE" /\ gone.remote = s.remote
          /\ gone.sum = s.sum /\ ~gone.handler
      BY <1>1, <2>2 DEF Socket
    <3> HIDE DEF gone
    <3>2. QED
      BY <1>1, <2>2, <3>1, BecomeStays, SilentSays DEF PathStep
  <2>3. CASE s.handler /\ s.state \in {"CONNECTING", "CONNECTED"} /\ Become(h, i, fin)
             /\ Send(h, net[h], To("FIN", s), 1)
    <3>1. fin \in Socket /\ fin.state = "FIN" /\ fin.remote = s.remote
          /\ fin.sum = s.sum /\ ~fin.handler
      <4>1. "FIN" \in State /\ TRUE \in BOOLEAN /\ FALSE \in BOOLEAN /\ 1 \in 0..SynMax + FinMax
        BY ConstantsAreNumbers DEF State
      <4>2. [[[[s EXCEPT !.handler = FALSE] EXCEPT !.state = "FIN"] EXCEPT !.tries = 1]
               EXCEPT !.broken = TRUE] \in Socket
        BY <1>1, <4>1, FieldsKeep, Zenon
      <4>3. gone \in Socket /\ gone.remote = s.remote /\ gone.sum = s.sum /\ ~gone.handler
        BY <1>1, <4>1 DEF Socket
      <4>4. fin \in Socket
        BY <4>2
      <4> HIDE DEF gone
      <4>5. fin.state = "FIN" /\ fin.remote = s.remote /\ fin.sum = s.sum /\ ~fin.handler
        BY <4>3 DEF Socket
      <4>6. QED
        BY <4>4, <4>5
    <3> HIDE DEF fin
    <3>2. s.sum # 0
      BY <1>1, <2>3 DEF Proper
    <3>3. Stays(h, i) /\ peerIndex' = peerIndex /\ sock'[h][i] = fin
      BY <1>1, <2>3, <3>1, <3>2, BecomeStays
    <3>4. To("FIN", s) \in Sent /\ To("FIN", s).type = "FIN" /\ To("FIN", s).sum = s.sum
      BY <1>1, <3>2, ToDoes DEF To
    <3>5. Says(h, To("FIN", s))
      BY <1>1, <3>1, <3>3, <3>4 DEF Says
    <3>6. net'[h] = net[h] /\ Sends(h)
      BY <2>3, <3>4, <3>5, SendSays, ConstantsAreNumbers
    <3>7. QED
      BY <3>3, <3>6 DEF PathStep
  <2>4. CASE s.state = "FIN2" /\ Become(h, i, Free) /\ UNCHANGED net
    BY <1>1, <2>4, BecomeFreed, SilentSays DEF PathStep, Proper
  <2>5. QED
    BY <1>3, <2>1, <2>2, <2>3, <2>4
<1>5. QED
  BY <1>1, <1>2, <1>4 DEF Moves

LEMMA TimeoutMoves ==
  ASSUME IInv, NEW h \in Host, NEW i \in Id, Timeout(h, i)
  PROVE  Moves(h)
<1> DEFINE s == sock[h][i]
           again == [s EXCEPT !.tries = @ + 1]
<1>1. s \in Socket /\ Proper(h, s)
  BY DEF IInv, SocketsOK
<1>2. UNCHANGED <<connects, opened>>
  BY DEF Timeout, app
<1>3. PathStep(h) /\ (GivenBack(h, i) \/ Stays(h, i))
  <2>1. ASSUME s.state \in {"CONNECTING", "FIN"}, s.tries + 1 \in 0..(SynMax + FinMax),
               Become(h, i, again)
        PROVE  /\ Stays(h, i) /\ peerIndex' = peerIndex
               /\ sock'[h][i].state = s.state /\ sock'[h][i].sum = s.sum
    <3>1. /\ again \in Socket /\ again.state = s.state /\ again.remote = s.remote
          /\ again.sum = s.sum /\ again.handler = s.handler
      BY <1>1, <2>1 DEF Socket
    <3> HIDE DEF again
    <3>2. QED
      BY <1>1, <2>1, <3>1, BecomeStays
  <2>2. CASE s.state = "CONNECTING" /\ s.tries < SynMax
             /\ Become(h, i, again) /\ Send(h, net[h], Syn(i, s), 1)
    <3>1. /\ Stays(h, i) /\ peerIndex' = peerIndex
          /\ sock'[h][i].state = "CONNECTING" /\ s.sum # 0
      BY <1>1, <2>1, <2>2, ConstantsAreNumbers DEF Socket, Proper
    <3>2. /\ Syn(i, s) \in Sent /\ Syn(i, s).type = "SYN" /\ Syn(i, s).from = i
      BY <1>1, <3>1, SynDoes DEF Syn
    <3>3. Says(h, Syn(i, s))
      BY <3>1, <3>2 DEF Says
    <3>4. QED
      BY <2>2, <3>1, <3>2, <3>3, SendSays, ConstantsAreNumbers DEF PathStep
  <2>3. CASE s.state = "CONNECTING" /\ Become(h, i, Ended(s)) /\ UNCHANGED net
    BY <1>1, <2>3, BecomeEnded, SilentSays DEF PathStep, Proper
  <2>4. CASE s.state = "FIN" /\ s.tries < FinMax
             /\ Become(h, i, again) /\ Send(h, net[h], To("FIN", s), 1)
    <3>1. /\ Stays(h, i) /\ peerIndex' = peerIndex /\ sock'[h][i].state = "FIN"
          /\ sock'[h][i].sum = s.sum /\ s.sum # 0
      BY <1>1, <2>1, <2>4, ConstantsAreNumbers DEF Socket, Proper
    <3>2. To("FIN", s) \in Sent /\ To("FIN", s).type = "FIN" /\ To("FIN", s).sum = s.sum
      BY <1>1, <3>1, ToDoes DEF To
    <3>3. Says(h, To("FIN", s))
      BY <3>1, <3>2 DEF Says
    <3>4. QED
      BY <2>4, <3>1, <3>2, <3>3, SendSays, ConstantsAreNumbers DEF PathStep
  <2>5. CASE s.state = "FIN" /\ Become(h, i, Free) /\ UNCHANGED net
    BY <1>1, <2>5, BecomeFreed, SilentSays DEF PathStep, Proper
  <2>6. QED
    BY <2>2, <2>3, <2>4, <2>5 DEF Timeout
<1>4. QED
  BY <1>2, <1>3 DEF Moves

\* Whatever a datagram of the other kinds is, its sender's sockets are as they were.
LEMMA OtherKindSays ==
  ASSUME NEW h, NEW m, m.type \notin {"FIN", "SYN", "SYN_ACK"}
  PROVE  Says(h, m)
BY DEF Says

LEMMA KeepAliveMoves ==
  ASSUME IInv, NEW h \in Host, NEW i \in Id, KeepAlive(h, i)
  PROVE  Moves(h)
<1> DEFINE s == sock[h][i]
           quieter == [s EXCEPT !.silent = @ + 1]
<1>1. s \in Socket /\ Proper(h, s) /\ s.state = "CONNECTED" /\ s.sum # 0
  BY DEF IInv, SocketsOK, KeepAlive, Proper
<1>2. UNCHANGED <<connects, opened>>
  BY DEF KeepAlive, app
<1>3. PathStep(h) /\ (GivenBack(h, i) \/ Stays(h, i))
  <2>1. CASE s.silent + 1 > TimeoutCount /\ Become(h, i, Ended(s)) /\ UNCHANGED net
    BY <1>1, <2>1, BecomeEnded, SilentSays DEF PathStep
  <2>2. CASE ~(s.silent + 1 > TimeoutCount) /\ Become(h, i, quieter)
             /\ Send(h, net[h], To("KEEPALIVE", s), 1)
    <3>1. /\ quieter \in Socket /\ quieter.state = s.state /\ quieter.remote = s.remote
          /\ quieter.sum = s.sum /\ quieter.handler = s.handler
      BY <1>1, <2>2, ConstantsAreNumbers DEF Socket
    <3> HIDE DEF quieter
    <3>2. Stays(h, i) /\ peerIndex' = peerIndex
      BY <1>1, <2>2, <3>1, BecomeStays
    <3>3. To("KEEPALIVE", s) \in Sent /\ To("KEEPALIVE", s).type = "KEEPALIVE"
      BY <1>1, ToDoes DEF To
    <3>4. QED
      BY <2>2, <3>2, <3>3, OtherKindSays, SendSays, ConstantsAreNumbers DEF PathStep
  <2>3. QED
    BY <2>1, <2>2 DEF KeepAlive
<1>4. QED
  BY <1>2, <1>3 DEF Moves

LEMMA ProcessMoves ==
  ASSUME IInv, NEW h \in Host, NEW i \in Id, sock[h][i].state # "FREE",
         NEW k \in 1..Len(net[h]), k = 1 \/ Reordering,
         Process(h, i, net[h][k], Without(net[h], k)), UNCHANGED connects
  PROVE  Moves(h)
<1> DEFINE m    == net[h][k]
           rest == Without(net[h], k)
           Kept == Stays(h, i)
<1>1. m \in Sent /\ opened' = opened
  BY DEF IInv, NetOK, Process
<1>2. Sends(h) /\ net'[h] = rest => PathStep(h)
  BY DEF PathStep, Takes
<1>3. (PathStep(h) /\ (GivenBack(h, i) \/ Kept)) => Moves(h)
  BY <1>1 DEF Moves
<1>4. CASE sock[h][i].sum # m.sum
  BY <1>2, <1>3, <1>4, SameStays, QuietSays DEF Process
<1>5. CASE sock[h][i].sum = m.sum
  <2> DEFINE s == [sock[h][i] EXCEPT !.silent = 0]
  <2>1. /\ s.state = sock[h][i].state /\ s.remote = sock[h][i].remote
        /\ s.sum = sock[h][i].sum /\ s.handler = sock[h][i].handler
        /\ s \in Socket
    <3>1. sock[h][i] \in Socket /\ 0 \in 0..TimeoutCount
      BY ConstantsAreNumbers DEF IInv, SocketsOK
    <3>2. s \in Socket
      BY <3>1, FieldsKeep
    <3>3. QED
      BY <3>1, <3>2 DEF Socket
  <2>2. \/ ProcessSyn2(h, i, s, m, rest) \/ ProcessSynAck(h, i, s, m, rest)
        \/ ProcessFin(h, i, s, m, rest) \/ ProcessFin2(h, i, s, m, rest)
        \/ ProcessKeepAlive(h, i, s, m, rest)
    BY <1>5 DEF Process
  <2> HIDE DEF s, m, rest
  <2>3. s.sum # 0 /\ s.state \notin {"FREE", "IDLE"} /\ (s.state = "FIN" => ~s.handler)
        /\ (h = Server => s.state # "CONNECTING")
    BY <1>1, <1>5, <2>1 DEF IInv, SocketsOK, Proper, Sent
  <2>4. \A t \in {"FIN2", "KEEPALIVE_ACK"}, n \in {1, Copies} :
          Send(h, rest, To(t, s), n) => Sends(h) /\ net'[h] = rest
    <3> SUFFICES ASSUME NEW t \in {"FIN2", "KEEPALIVE_ACK"}, NEW n \in {1, Copies},
                        Send(h, rest, To(t, s), n)
                 PROVE  Sends(h) /\ net'[h] = rest
      OBVIOUS
    <3>1. To(t, s) \in Sent /\ To(t, s).type = t
      BY <2>1, <2>3, ToDoes DEF To
    <3>2. Says(h, To(t, s))
      BY <3>1, OtherKindSays
    <3>3. QED
      BY <3>1, <3>2, SendSays, ConstantsAreNumbers
  <2>5. Quiet(h, rest) => Sends(h) /\ net'[h] = rest
    BY QuietSays
  <2>6. Become(h, i, s) => Kept /\ sock'[h][i] = s
    BY <2>1, <2>3, BecomeStays
  <2>7. s.state \in {"CONNECTING", "CONNECTED"} /\ Become(h, i, Ended(s))
          => GivenBack(h, i) \/ Kept
    BY <2>1, <2>3, BecomeEnded
  <2>8. Become(h, i, Free) => GivenBack(h, i)
    BY <2>1, <2>3, BecomeFreed
  <2>9. ASSUME NEW c \in Socket, c.sum # 0, c.state = "CONNECTED", sock'[h][i] = c,
               Send(h, rest, To("SYN_ACK", c), 1)
        PROVE  Sends(h) /\ net'[h] = rest
    <3>1. To("SYN_ACK", c) \in Sent /\ To("SYN_ACK", c).type = "SYN_ACK"
      BY <2>9, ToDoes DEF To
    <3>2. Says(h, To("SYN_ACK", c))
      BY <2>9, <3>1 DEF Says
    <3>3. QED
      BY <2>9, <3>1, <3>2, SendSays, ConstantsAreNumbers
  <2>10. CASE ProcessSyn2(h, i, s, m, rest)
    <3> DEFINE c == [s EXCEPT !.state = "CONNECTED", !.remote = m.from, !.tries = 0]
    <3>1. CASE s.state = "CONNECTING" /\ m.ok
      <4>1. m.from \in 0..MaxId /\ "CONNECTED" \in State /\ 0 \in 0..SynMax + FinMax
        <5>1. m.type = "SYN2" /\ m \in Message
          BY <1>1, <2>10 DEF ProcessSyn2, Sent
        <5>2. m.from \in 0..MaxId
          BY <5>1, ConstantsAreNumbers DEF Message, Id
        <5>3. QED
          BY <5>2, ConstantsAreNumbers DEF State
      <4>2. [[[s EXCEPT !.state = "CONNECTED"] EXCEPT !.remote = m.from] EXCEPT !.tries = 0]
              \in Socket
        BY <2>1, <4>1, FieldsKeep, Zenon
      <4>3. c.state = "CONNECTED" /\ c.sum = s.sum /\ c.handler = s.handler
        BY <2>1 DEF Socket
      <4>4. c \in Socket
        BY <4>2
      <4>5. Become(h, i, c) /\ Send(h, rest, To("SYN_ACK", c), 1)
        BY <2>10, <3>1 DEF ProcessSyn2
      <4> HIDE DEF c
      <4>6. Kept /\ sock'[h][i] = c
        <5>1. h # Server /\ c.state # "FREE" /\ c.state # "FIN" /\ c.state # "CONNECTING"
          BY <2>3, <3>1, <4>3
        <5>2. c.sum = sock[h][i].sum /\ (c.handler => sock[h][i].handler)
          BY <2>1, <4>3
        <5>3. Stays(h, i) /\ peerIndex' = peerIndex /\ sock'[h][i] = c
          BY <4>4, <4>5, <5>1, <5>2, BecomeStays
        <5>4. QED
          BY <5>3
      <4>7. QED
        BY <1>2, <1>3, <2>3, <2>9, <4>3, <4>4, <4>5, <4>6
    <3>2. CASE s.state = "CONNECTING" /\ ~m.ok
      BY <1>2, <1>3, <2>5, <2>7, <2>10, <3>2 DEF ProcessSyn2
    <3>3. CASE s.state = "CONNECTED"
      BY <1>2, <1>3, <2>1, <2>3, <2>6, <2>9, <2>10, <3>3 DEF ProcessSyn2
    <3>4. CASE s.state \notin {"CONNECTING", "CONNECTED"}
      BY <1>2, <1>3, <2>5, <2>6, <2>10, <3>4 DEF ProcessSyn2
    <3>5. QED
      BY <3>1, <3>2, <3>3, <3>4
  <2>11. CASE ProcessSynAck(h, i, s, m, rest)
    <3>1. /\ sock' = [sock EXCEPT ![h][i] = s] /\ Sends(h) /\ net'[h] = rest
      BY <2>5, <2>11 DEF ProcessSynAck
    <3>2. Others(h, i) /\ sock'[h][i] = s
      BY <3>1 DEF Others, IInv, SocketsOK
    <3>3. Stays(h, i)
      BY <2>1, <2>3, <3>2 DEF Stays
    <3>4. QED
      BY <1>2, <1>3, <3>1, <3>3
  <2>12. CASE ProcessFin(h, i, s, m, rest)
    BY <1>2, <1>3, <2>4, <2>7, <2>8, <2>12 DEF ProcessFin
  <2>13. CASE ProcessFin2(h, i, s, m, rest)
    <3>1. CASE s.handler
      <4> DEFINE b == [s EXCEPT !.broken = TRUE]
      <4>1. /\ b \in Socket /\ b.state = s.state /\ b.remote = s.remote
            /\ b.sum = s.sum /\ b.handler = s.handler
        BY <2>1 DEF Socket
      <4>2. Become(h, i, b)
        BY <2>13, <3>1 DEF ProcessFin2
      <4> HIDE DEF b
      <4>3. Kept
        BY <2>1, <2>3, <4>1, <4>2, BecomeStays
      <4>4. QED
        BY <1>2, <1>3, <2>5, <2>13, <4>3 DEF ProcessFin2
    <3>2. CASE ~s.handler
      BY <1>2, <1>3, <2>5, <2>8, <2>13, <3>2 DEF ProcessFin2
    <3>3. QED
      BY <3>1, <3>2
  <2>14. CASE ProcessKeepAlive(h, i, s, m, rest)
    BY <1>2, <1>3, <2>4, <2>5, <2>6, <2>14 DEF ProcessKeepAlive
  <2>15. QED
    BY <2>2, <2>10, <2>11, <2>12, <2>13, <2>14
<1>6. QED
  BY <1>4, <1>5

LEMMA RepeatedSynMoves ==
  ASSUME IInv, NEW k \in 1..Len(net[Server]), k = 1 \/ Reordering,
         net[Server][k].type = "SYN",
         RepeatedSyn(net[Server][k], Without(net[Server], k)), UNCHANGED connects
  PROVE  Moves(Server)
<1> DEFINE m    == net[Server][k]
           rest == Without(net[Server], k)
           j    == peerIndex[m.from]
           s    == sock[Server][j]
<1>1. m \in Sent /\ opened' = opened /\ Server \in Host
  BY DEF IInv, NetOK, RepeatedSyn, Host
<1>2. j \in Id
  BY <1>1, ConstantsAreNumbers DEF Sent, Message, RepeatedSyn, IInv, RestOK, Id
<1>3. s \in Socket /\ s.sum # 0
  BY <1>1, <1>2 DEF IInv, IndexSound, SocketsOK, Proper, RepeatedSyn, Sent, Message
<1>4. /\ \/ GivenBack(Server, j)
         \/ UNCHANGED <<sock, peerIndex>>
      /\ \E ok \in BOOLEAN : Send(Server, rest, Syn2(j, s, ok), Copies)
  BY <1>1, <1>2, <1>3, BecomeFreed DEF RepeatedSyn
<1>5. PICK ok \in BOOLEAN : Send(Server, rest, Syn2(j, s, ok), Copies)
  BY <1>4
<1>6. Syn2(j, s, ok) \in Sent /\ Syn2(j, s, ok).type = "SYN2"
  BY <1>2, <1>3, SynDoes DEF Syn2
<1>7. Sends(Server) /\ net'[Server] = rest
  BY <1>1, <1>5, <1>6, OtherKindSays, SendSays, ConstantsAreNumbers
<1>8. PathStep(Server)
  BY <1>7 DEF PathStep, Takes
<1>9. GivenBack(Server, j) \/ Stays(Server, j)
  BY <1>1, <1>2, <1>4, SameStays
<1> HIDE DEF j
<1>10. QED
  BY <1>1, <1>2, <1>8, <1>9 DEF Moves

LEMMA NewSynTaken ==
  ASSUME IInv, NEW k \in 1..Len(net[Server]), k = 1 \/ Reordering,
         net[Server][k].type = "SYN",
         NewSyn(net[Server][k], Without(net[Server], k)), UNCHANGED connects
  PROVE  TakesSyn
<1> DEFINE m    == net[Server][k]
           rest == Without(net[Server], k)
           new  == [Free EXCEPT !.state = "CONNECTED", !.remote = m.from,
                                !.sum = m.sum, !.handler = listening]
<1>1. PICK j \in Id :
        /\ peerIndex[m.from] = 0 /\ IsNextId(Server, j)
        /\ sock' = [sock EXCEPT ![Server][j] = new]
        /\ peerIndex' = [peerIndex EXCEPT ![m.from] = j]
        /\ Accepted(j, m)
        /\ \E q \in After(net[Client], Syn2(j, new, TRUE), Copies) :
             \E r \in After(q, To("KEEPALIVE", new), 1) :
               net' = [net EXCEPT ![Server] = rest, ![Client] = r]
  BY DEF NewSyn
<1>2. /\ m \in Sent /\ m.from \in Id /\ m.from \in 0..MaxId /\ m.sum \in 0..Connects /\ m.sum # 0
  BY ConstantsAreNumbers DEF Sent, Message, Id, IInv, NetOK, Host
<1>3. new \in Socket /\ new.state = "CONNECTED" /\ new.remote = m.from /\ new.sum = m.sum
      /\ new.handler = listening
  <2>1. "CONNECTED" \in State /\ Free \in Socket /\ listening \in BOOLEAN
    BY FreeIsProper DEF State, Proper, IInv, RestOK
  <2>2. [[[[Free EXCEPT !.state = "CONNECTED"] EXCEPT !.remote = m.from]
            EXCEPT !.sum = m.sum] EXCEPT !.handler = listening] \in Socket
    BY <1>2, <2>1, FieldsKeep, Zenon
  <2>3. QED
    BY <2>1, <2>2 DEF Socket
<1> HIDE DEF new, m, rest
<1>4. Server \in Host /\ Client \in Host /\ Client # Server /\ Other(Server) = Client
  BY ConstantsAreNumbers DEF Host, Other
<1>5. Others(Server, j) /\ sock'[Server][j] = new
  BY <1>1, <1>4 DEF Others, IInv, SocketsOK
<1>6. net'[Server] = rest /\ Sends(Server)
  <2>1. Syn2(j, new, TRUE) \in Sent /\ To("KEEPALIVE", new) \in Sent
    BY <1>2, <1>3, SynDoes, ToDoes
  <2>2. PICK q \in After(net[Client], Syn2(j, new, TRUE), Copies) :
          \E r \in After(q, To("KEEPALIVE", new), 1) :
            net' = [net EXCEPT ![Server] = rest, ![Client] = r]
    BY <1>1
  <2>3. PICK r \in After(q, To("KEEPALIVE", new), 1) :
          net' = [net EXCEPT ![Server] = rest, ![Client] = r]
    BY <2>2
  <2>4. net[Client] \in Seq(Sent) /\ net'[Server] = rest /\ net'[Client] = r
    BY <1>4, <2>3 DEF IInv, NetOK
  <2>5. Extends(net[Client], q, Syn2(j, new, TRUE)) /\ q \in Seq(Sent)
    BY <2>1, <2>4, AfterExtends, AfterDoes, ConstantsAreNumbers
  <2>6. Extends(q, r, To("KEEPALIVE", new)) /\ r \in Seq(Sent)
    BY <2>1, <2>5, AfterExtends, AfterDoes, ConstantsAreNumbers
  <2>7. Says(Server, Syn2(j, new, TRUE)) /\ Says(Server, To("KEEPALIVE", new))
    BY DEF Says, Syn2, To
  <2>8. Len(net[Client]) \in Nat /\ Len(q) \in Nat /\ Len(r) \in Nat
    BY <2>4, <2>5, <2>6
  <2>9. /\ Len(r) >= Len(net[Client])
        /\ \A l \in 1..Len(r) : IF l <= Len(net[Client]) THEN r[l] = net[Client][l]
                                                        ELSE Says(Server, r[l])
    <3>1. /\ Len(r) >= Len(q) /\ Len(q) >= Len(net[Client])
          /\ \A l \in 1..Len(r) : r[l] = IF l <= Len(q) THEN q[l] ELSE To("KEEPALIVE", new)
          /\ \A l \in 1..Len(q) : q[l] = IF l <= Len(net[Client]) THEN net[Client][l]
                                           ELSE Syn2(j, new, TRUE)
      BY <2>5, <2>6 DEF Extends
    <3>2. ASSUME NEW l \in 1..Len(r)
          PROVE  IF l <= Len(net[Client]) THEN r[l] = net[Client][l] ELSE Says(Server, r[l])
      <4>1. CASE l <= Len(q)
        <5>1. r[l] = q[l] /\ l \in 1..Len(q)
          BY <2>8, <3>1, <4>1
        <5>2. QED
          BY <2>7, <3>1, <5>1
      <4>2. CASE ~(l <= Len(q))
        <5>1. r[l] = To("KEEPALIVE", new) /\ ~(l <= Len(net[Client]))
          BY <2>8, <3>1, <4>2
        <5>2. QED
          BY <2>7, <5>1
      <4>3. QED
        BY <4>1, <4>2
    <3>3. Len(r) >= Len(net[Client])
      BY <2>8, <3>1
    <3>4. QED
      BY <3>2, <3>3
  <2>10. QED
    BY <1>4, <2>4, <2>9 DEF Sends
<1>7. Takes(Server, k)
  BY <1>6 DEF Takes, rest
<1>8. PathStep(Server)
  BY <1>6, <1>7 DEF PathStep
<1>9. m.type = "SYN" /\ sock[Server][j].state = "FREE"
  BY <1>1 DEF m, IsNextId
<1>10. QED
  BY <1>1, <1>2, <1>3, <1>5, <1>7, <1>8, <1>9 DEF TakesSyn, Accepted, m

\* A datagram that arrives.
LEMMA ReceiveMoves ==
  ASSUME IInv, NEW h \in Host, Receive(h)
  PROVE  Moves(h) \/ (h = Server /\ TakesSyn)
<1>1. PICK k \in 1..Len(net[h]) :
        LET m    == net[h][k]
            rest == SubSeq(net[h], 1, k - 1) \o SubSeq(net[h], k + 1, Len(net[h]))
        IN /\ k = 1 \/ Reordering
           /\ \/ Alive(h, m.to) /\ Process(h, m.to, m, rest)
              \/ h = Server /\ AcceptSyn(m, rest)
              \/ /\ Quiet(h, rest)
                 /\ UNCHANGED <<sock, peerIndex, listener, listening, held, opened>>
  BY DEF Receive
<1> DEFINE m    == net[h][k]
           rest == Without(net[h], k)
<1>2. /\ k = 1 \/ Reordering
      /\ \/ Alive(h, m.to) /\ Process(h, m.to, m, rest)
         \/ h = Server /\ AcceptSyn(m, rest)
         \/ /\ Quiet(h, rest)
            /\ UNCHANGED <<sock, peerIndex, listener, listening, held, opened>>
  BY <1>1 DEF Without
<1>3. m \in Sent /\ m.to \in 0..MaxId
  <2>1. m \in Sent
    BY DEF IInv, NetOK
  <2> HIDE DEF m
  <2>2. QED
    BY <2>1, ConstantsAreNumbers DEF Sent, Message
<1>4. UNCHANGED connects
  BY DEF Receive
<1>5. CASE Alive(h, m.to) /\ Process(h, m.to, m, rest)
  <2>1. m.to \in Id /\ sock[h][m.to].state # "FREE"
    BY <1>3, <1>5, ConstantsAreNumbers DEF Alive, Id
  <2>2. QED
    BY <1>2, <1>4, <1>5, <2>1, ProcessMoves
<1>6. CASE h = Server /\ AcceptSyn(m, rest)
  BY <1>2, <1>4, <1>6, RepeatedSynMoves, NewSynTaken DEF AcceptSyn
<1>7. CASE Quiet(h, rest) /\ UNCHANGED <<sock, peerIndex, listener, listening, held, opened>>
  <2>1. PathStep(h)
    BY <1>2, <1>7, QuietSays DEF PathStep, Takes
  <2>2. 1 \in Id
    BY ConnectionAssumption DEF Id
  <2>3. QED
    BY <1>4, <1>7, <2>1, <2>2, SameStays DEF Moves
<1>8. QED
  BY <1>2, <1>5, <1>6, <1>7

LEMMA ConnectDoes ==
  ASSUME IInv, NEW i \in Id, Connect(i)
  PROVE  /\ PathStep(Client) /\ net'[Client] = net[Client]
         /\ Others(Client, i) /\ sock'[Client][i].state = "CONNECTING"
         /\ sock'[Client][i].sum = connects + 1 /\ peerIndex' = peerIndex
         /\ connects < Connects /\ connects' = connects + 1 /\ IsNextId(Client, i)
         /\ UNCHANGED opened
<1> DEFINE s == [Free EXCEPT !.state = "CONNECTING", !.sum = connects + 1,
                             !.handler = TRUE, !.tries = 1]
<1>1. /\ s \in Socket /\ s.state = "CONNECTING" /\ s.sum = connects + 1 /\ s.sum # 0
  <2>1. /\ connects + 1 \in 0..Connects /\ connects + 1 # 0 /\ 1 \in 0..SynMax + FinMax
        /\ "CONNECTING" \in State /\ TRUE \in BOOLEAN /\ Free \in Socket
    BY ConstantsAreNumbers, FreeIsProper DEF Connect, IInv, RestOK, State, Proper
  <2>2. [[[[Free EXCEPT !.state = "CONNECTING"] EXCEPT !.sum = connects + 1]
            EXCEPT !.handler = TRUE] EXCEPT !.tries = 1] \in Socket
    BY <2>1, FieldsKeep, Zenon
  <2>3. s.state = "CONNECTING" /\ s.sum = connects + 1
    BY <2>1 DEF Socket
  <2>4. s \in Socket
    BY <2>2
  <2> HIDE DEF s
  <2>5. QED
    BY <2>1, <2>3, <2>4
<1>2. /\ Become(Client, i, s) /\ Send(Client, net[Client], Syn(i, s), 1)
      /\ IsNextId(Client, i) /\ connects < Connects /\ connects' = connects + 1
      /\ UNCHANGED opened
  BY DEF Connect
<1> HIDE DEF s
<1>3. sock' = [sock EXCEPT ![Client][i] = s] /\ peerIndex' = peerIndex /\ Client \in Host
  BY <1>2, ConstantsAreNumbers DEF Become, Host
<1>4. Others(Client, i) /\ sock'[Client][i] = s
  BY <1>3 DEF Others, IInv, SocketsOK
<1>5. Syn(i, s) \in Sent /\ Syn(i, s).type = "SYN" /\ Syn(i, s).from = i
  BY <1>1, SynDoes DEF Syn
<1>6. Says(Client, Syn(i, s))
  BY <1>1, <1>4, <1>5 DEF Says
<1>7. net'[Client] = net[Client] /\ Sends(Client)
  BY <1>2, <1>3, <1>5, <1>6, SendSays, ConstantsAreNumbers
<1>8. QED
  BY <1>1, <1>2, <1>3, <1>4, <1>7 DEF PathStep

LEMMA ListenDoes ==
  ASSUME IInv, NEW i \in Id, Listen(i)
  PROVE  /\ PathStep(Server) /\ UNCHANGED net
         /\ Others(Server, i) /\ sock[Server][i].state = "FREE"
         /\ sock'[Server][i].state = "IDLE" /\ sock'[Server][i].sum = 0
         /\ UNCHANGED <<peerIndex, connects, opened>>
<1> DEFINE s == [Free EXCEPT !.state = "IDLE", !.handler = TRUE]
<1>1. s.state = "IDLE" /\ s.sum = 0
  BY DEF Free
<1>2. /\ Become(Server, i, s) /\ IsNextId(Server, i) /\ UNCHANGED <<net, connects, opened>>
  BY DEF Listen
<1> HIDE DEF s
<1>3. sock' = [sock EXCEPT ![Server][i] = s] /\ peerIndex' = peerIndex /\ Server \in Host
  BY <1>1, <1>2 DEF Become, Free, Host
<1>4. Others(Server, i) /\ sock'[Server][i] = s
  BY <1>3 DEF Others, IInv, SocketsOK
<1>5. PathStep(Server)
  BY <1>2, <1>3, SilentSays DEF PathStep
<1>6. QED
  BY <1>1, <1>2, <1>3, <1>4, <1>5 DEF IsNextId

\* What every step is.
LEMMA StepIs ==
  ASSUME IInv, Next
  PROVE  \/ \E h \in Host : Moves(h)
         \/ TakesSyn
         \/ \E i \in Id : Connect(i) \/ Listen(i)
BY AppCloseMoves, TimeoutMoves, KeepAliveMoves, ReceiveMoves DEF Next

\* A datagram that is on its way after a step was before, or is one that h sent.
LEMMA PathDoes ==
  ASSUME IInv, NEW h \in Host, PathStep(h)
  PROVE  /\ \A k \in 1..Len(net'[h]) : \E n \in 1..Len(net[h]) : net'[h][k] = net[h][n]
         /\ \A k \in 1..Len(net'[Other(h)]) :
              IF k <= Len(net[Other(h)]) THEN net'[Other(h)][k] = net[Other(h)][k]
                                         ELSE Says(h, net'[Other(h)][k])
<1>1. net[h] \in Seq(Sent)
  BY DEF IInv, NetOK
<1>2. CASE net'[h] = net[h]
  BY <1>2 DEF PathStep, Sends
<1>3. ASSUME NEW k \in 1..Len(net[h]), Takes(h, k)
      PROVE  \A l \in 1..Len(net'[h]) : \E n \in 1..Len(net[h]) : net'[h][l] = net[h][n]
  <2>1. net'[h] = Without(net[h], k)
    BY <1>3 DEF Takes
  <2>2. \A l \in 1..Len(Without(net[h], k)) :
          \E n \in 1..Len(net[h]) : Without(net[h], k)[l] = net[h][n]
    BY <1>1, WithoutDoes
  <2>3. QED
    BY <2>1, <2>2
<1>4. QED
  BY <1>2, <1>3 DEF PathStep, Sends

-----------------------------------------------------------------------------
(* A FIN says the truth, unless the connection was accepted a second time.  *)

\* A connection of number n may still come to have a first socket of an application.
MayOpen(h, n) == IF h = Client THEN n > connects ELSE opened[n] = 0

\* The server's application was given a second socket of it.
Again(h, n) == h = Server /\ opened[n] > 1

\* The application of h has no socket of connection n, and never will, unless it
\* accepts it a second time.
Over(h, n) == \/ Again(h, n)
              \/ /\ ~MayOpen(h, n)
                 /\ \A i \in Id : sock[h][i].sum = n => ~sock[h][i].handler

\* The inductive invariant behind FinHonest.
FinInv ==
  /\ \A h \in Host, i \in Id :
       sock[h][i].sum # 0 /\ sock[h][i].handler => ~MayOpen(h, sock[h][i].sum)
  /\ \A h \in Host, i, j \in Id :
       (/\ sock[h][i].sum # 0 /\ sock[h][i].sum = sock[h][j].sum
        /\ sock[h][i].handler /\ sock[h][j].handler
        /\ ~Again(h, sock[h][i].sum)) => i = j
  /\ \A h \in Host, i \in Id : sock[h][i].state = "FIN" => Over(h, sock[h][i].sum)
  /\ \A h \in Host : \A k \in 1..Len(net[h]) :
       net[h][k].type = "FIN" => Over(Other(h), net[h][k].sum)

\* The same after the step.
MayOpenNext(h, n) == IF h = Client THEN n > connects' ELSE opened'[n] = 0
AgainNext(h, n) == h = Server /\ opened'[n] > 1
OverNext(h, n) == \/ AgainNext(h, n)
                  \/ /\ ~MayOpenNext(h, n)
                     /\ \A i \in Id : sock'[h][i].sum = n => ~sock'[h][i].handler

\* A step keeps it when it gives an application a socket only of a connection that
\* may be opened, and none comes to be of that kind.
LEMMA FinKeeps ==
  ASSUME IInv, FinInv, NEW h \in Host, NEW i \in Id, PathStep(h), Others(h, i),
         \A x \in Host : \A n \in 1..Connects :
           /\ MayOpenNext(x, n) => MayOpen(x, n)
           /\ Again(x, n) => AgainNext(x, n)
           /\ AgainNext(x, n) => ~MayOpenNext(x, n),
         sock' \in [Host -> [Id -> Socket]],
         sock'[h][i].handler /\ sock'[h][i].sum # 0 =>
           \/ sock[h][i].handler /\ sock[h][i].sum = sock'[h][i].sum
           \/ AgainNext(h, sock'[h][i].sum)
           \/ MayOpen(h, sock'[h][i].sum) /\ ~MayOpenNext(h, sock'[h][i].sum),
         sock'[h][i].state = "FIN" =>
           /\ sock'[h][i].sum = sock[h][i].sum
           /\ \/ sock[h][i].state = "FIN"
              \/ sock[h][i].handler /\ ~sock'[h][i].handler /\ sock[h][i].sum # 0
  PROVE  FinInv'
<1>1. /\ \A x \in Host, j \in Id : /\ sock[x][j].sum # 0 => sock[x][j].sum \in 1..Connects
                                   /\ sock'[x][j].sum # 0 => sock'[x][j].sum \in 1..Connects
      /\ \A x \in Host, j \in Id : sock[x][j].state = "FIN" => sock[x][j].sum # 0
  <2>1. \A x \in Host, j \in Id : sock[x][j] \in Socket /\ Proper(x, sock[x][j])
    BY DEF IInv, SocketsOK
  <2>2. \A x \in Host, j \in Id : sock'[x][j] \in Socket
    OBVIOUS
  <2>3. \A s \in Socket : s.sum # 0 => s.sum \in 1..Connects
    BY ConstantsAreNumbers DEF Socket
  <2>4. QED
    BY <2>1, <2>2, <2>3 DEF Proper
\* A socket of an application is an old one, or it is i and new.
<1>2. ASSUME NEW x \in Host, NEW j \in Id, sock'[x][j].handler, sock'[x][j].sum # 0
      PROVE  \/ sock[x][j].handler /\ sock[x][j].sum = sock'[x][j].sum
             \/ AgainNext(x, sock'[x][j].sum)
             \/ x = h /\ j = i /\ MayOpen(x, sock'[x][j].sum) /\ ~MayOpenNext(x, sock'[x][j].sum)
  BY <1>2 DEF Others
<1>3. ASSUME NEW x \in Host, NEW n \in 1..Connects, Over(x, n)
      PROVE  OverNext(x, n)
  <2>1. CASE Again(x, n)
    BY <2>1 DEF OverNext
  <2>2. CASE ~MayOpen(x, n) /\ \A j \in Id : sock[x][j].sum = n => ~sock[x][j].handler
    <3>1. ~MayOpenNext(x, n)
      BY <2>2
    <3>2. n # 0
      BY ConstantsAreNumbers
    <3>3. ASSUME NEW j \in Id, sock'[x][j].sum = n, sock'[x][j].handler
          PROVE  AgainNext(x, n)
      BY <1>2, <2>2, <3>2, <3>3
    <3>4. QED
      BY <3>1, <3>3 DEF OverNext
  <2>3. QED
    BY <1>3, <2>1, <2>2 DEF Over
<1>4. ASSUME NEW x \in Host, NEW j \in Id, sock'[x][j].handler, sock'[x][j].sum # 0
      PROVE  ~MayOpenNext(x, sock'[x][j].sum)
  <2>1. sock'[x][j].sum \in 1..Connects
    BY <1>1, <1>4
  <2>2. CASE sock[x][j].handler /\ sock[x][j].sum = sock'[x][j].sum
    <3>1. ~MayOpen(x, sock'[x][j].sum)
      BY <1>4, <2>2 DEF FinInv
    <3>2. QED
      BY <2>1, <3>1
  <2>3. CASE AgainNext(x, sock'[x][j].sum)
    BY <2>1, <2>3
  <2>4. QED
    BY <1>2, <1>4, <2>2, <2>3
<1>5. ASSUME NEW x \in Host, NEW j \in Id, NEW k \in Id, j # k,
             sock'[x][j].handler, sock'[x][k].handler, sock'[x][j].sum # 0,
             sock'[x][j].sum = sock'[x][k].sum, ~AgainNext(x, sock'[x][j].sum)
      PROVE  FALSE
  <2>1. sock'[x][j].sum \in 1..Connects
    BY <1>1, <1>5
  <2>2. ~Again(x, sock'[x][j].sum)
    BY <1>5, <2>1
  <2>3. CASE /\ sock[x][j].handler /\ sock[x][j].sum = sock'[x][j].sum
             /\ sock[x][k].handler /\ sock[x][k].sum = sock'[x][k].sum
    BY <1>5, <2>2, <2>3 DEF FinInv
  <2>4. ASSUME NEW l \in Id, sock[x][l].handler, sock[x][l].sum = sock'[x][l].sum,
               sock'[x][l].sum # 0, MayOpen(x, sock'[x][l].sum)
        PROVE  FALSE
    BY <2>4 DEF FinInv
  <2>5. QED
    BY <1>2, <1>5, <2>3, <2>4
<1>6. ASSUME NEW x \in Host, NEW j \in Id, sock'[x][j].state = "FIN"
      PROVE  OverNext(x, sock'[x][j].sum)
  <2>1. CASE sock[x][j].state = "FIN" /\ sock'[x][j].sum = sock[x][j].sum
    <3>1. Over(x, sock[x][j].sum) /\ sock[x][j].sum \in 1..Connects
      BY <1>1, <2>1 DEF FinInv
    <3>2. OverNext(x, sock[x][j].sum)
      BY <1>3, <3>1
    <3>3. QED
      BY <2>1, <3>2
  <2>2. CASE x = h /\ j = i /\ sock[x][j].handler /\ ~sock'[x][j].handler
             /\ sock[x][j].sum # 0 /\ sock'[x][j].sum = sock[x][j].sum
    <3>1. ~MayOpen(x, sock'[x][j].sum) /\ sock'[x][j].sum \in 1..Connects
      BY <1>1, <2>2 DEF FinInv
    <3>2. ~MayOpenNext(x, sock'[x][j].sum)
      BY <3>1
    <3>3. CASE Again(x, sock'[x][j].sum)
      BY <3>1, <3>3 DEF OverNext
    <3>4. CASE ~Again(x, sock'[x][j].sum)
      <4>1. ASSUME NEW k \in Id, sock'[x][k].sum = sock'[x][j].sum, sock'[x][k].handler
            PROVE  FALSE
        <5>1. k # j /\ sock'[x][k] = sock[x][k]
          BY <2>2, <4>1 DEF Others
        <5>2. QED
          BY <2>2, <3>4, <4>1, <5>1 DEF FinInv
      <4>2. QED
        BY <3>2, <4>1 DEF OverNext
    <3>5. QED
      BY <3>3, <3>4
  <2>3. QED
    BY <1>6, <2>1, <2>2 DEF Others
<1>7. ASSUME NEW x \in Host, NEW k \in 1..Len(net'[x]), net'[x][k].type = "FIN"
      PROVE  OverNext(Other(x), net'[x][k].sum)
  <2>1. /\ Other(x) \in Host /\ Other(Other(x)) = x /\ (x = h \/ x = Other(h))
        /\ Other(h) \in Host /\ Other(Other(h)) = h
    BY ConstantsAreNumbers DEF Other, Host
  <2>2. ASSUME NEW n \in 1..Len(net[x]), net'[x][k] = net[x][n]
        PROVE  OverNext(Other(x), net'[x][k].sum)
    <3>1. net[x][n] \in Sent /\ Over(Other(x), net[x][n].sum)
      BY <1>7, <2>2 DEF FinInv, IInv, NetOK
    <3>2. \A m \in Sent : m.sum \in 1..Connects
      <4>1. \A m \in Message : m.sum \in 0..Connects
        BY DEF Message
      <4>2. QED
        BY <4>1, ConstantsAreNumbers DEF Sent
    <3>3. OverNext(Other(x), net[x][n].sum)
      BY <1>3, <2>1, <3>1, <3>2
    <3>4. QED
      BY <2>2, <3>3
  <2>3. CASE x = h
    BY <2>2, <2>3, PathDoes
  <2>4. CASE x = Other(h) /\ k <= Len(net[x])
    <3>1. net[x] \in Seq(Sent)
      BY DEF IInv, NetOK
    <3>2. net'[x][k] = net[x][k] /\ k \in 1..Len(net[x])
      BY <2>4, <3>1, PathDoes
    <3>3. QED
      BY <2>2, <3>2
  <2>5. CASE x = Other(h) /\ ~(k <= Len(net[x]))
    <3>1. Says(h, net'[x][k])
      BY <2>5, PathDoes
    <3>2. PICK j \in Id : sock'[h][j].state = "FIN" /\ sock'[h][j].sum = net'[x][k].sum
      BY <1>7, <3>1 DEF Says
    <3>3. OverNext(h, sock'[h][j].sum)
      BY <1>6, <3>2
    <3>4. QED
      BY <2>1, <2>5, <3>2, <3>3
  <2>6. QED
    BY <2>1, <2>3, <2>4, <2>5
<1>8. /\ \A x \in Host, j \in Id :
           sock'[x][j].sum # 0 /\ sock'[x][j].handler => ~MayOpenNext(x, sock'[x][j].sum)
      /\ \A x \in Host, j, k \in Id :
           (/\ sock'[x][j].sum # 0 /\ sock'[x][j].sum = sock'[x][k].sum
            /\ sock'[x][j].handler /\ sock'[x][k].handler
            /\ ~AgainNext(x, sock'[x][j].sum)) => j = k
      /\ \A x \in Host, j \in Id : sock'[x][j].state = "FIN" => OverNext(x, sock'[x][j].sum)
      /\ \A x \in Host : \A k \in 1..Len(net'[x]) :
           net'[x][k].type = "FIN" => OverNext(Other(x), net'[x][k].sum)
  BY <1>4, <1>5, <1>6, <1>7
<1>9. QED
  BY <1>8 DEF FinInv, MayOpen, Again, Over, MayOpenNext, AgainNext, OverNext

LEMMA NextKeepsFin == IInv /\ FinInv /\ [Next]_vars => FinInv'
<1> SUFFICES ASSUME IInv, FinInv, [Next]_vars PROVE FinInv'
  OBVIOUS
<1>1. /\ sock' \in [Host -> [Id -> Socket]] /\ Client \in Host /\ Server \in Host
      /\ connects \in Nat /\ Connects \in Nat /\ Client # Server
      /\ opened \in [1..Connects -> Nat]
  BY StepKeepsIInv, ConstantsAreNumbers DEF IInv, SocketsOK, RestOK, Host
<1>2. CASE UNCHANGED vars
  BY <1>2 DEF vars, app, FinInv, MayOpen, Again, Over
<1>3. ASSUME UNCHANGED opened, connects' \in {connects, connects + 1}
      PROVE  \A x \in Host : \A n \in 1..Connects :
               /\ MayOpenNext(x, n) => MayOpen(x, n)
               /\ Again(x, n) => AgainNext(x, n)
               /\ AgainNext(x, n) => ~MayOpenNext(x, n)
  BY <1>1, <1>3 DEF MayOpen, MayOpenNext, Again, AgainNext
<1>4. ASSUME NEW h \in Host, Moves(h) PROVE FinInv'
  <2>1. \A x \in Host : \A n \in 1..Connects :
          /\ MayOpenNext(x, n) => MayOpen(x, n)
          /\ Again(x, n) => AgainNext(x, n)
          /\ AgainNext(x, n) => ~MayOpenNext(x, n)
    BY <1>3, <1>4 DEF Moves
  <2>2. PICK i \in Id : GivenBack(h, i) \/ Stays(h, i)
    BY <1>4 DEF Moves
  <2>3. PathStep(h)
    BY <1>4 DEF Moves
  <2>4. CASE GivenBack(h, i)
    <3>1. Others(h, i) /\ ~sock'[h][i].handler /\ sock'[h][i].state = "FREE"
      BY <2>4 DEF GivenBack, Free
    <3>2. QED
      BY <1>1, <2>1, <2>3, <3>1, FinKeeps
  <2>5. CASE Stays(h, i)
    <3>1. /\ Others(h, i) /\ sock'[h][i].sum = sock[h][i].sum
          /\ sock'[h][i].handler => sock[h][i].handler
          /\ sock'[h][i].state = "FIN" =>
               \/ sock[h][i].state = "FIN"
               \/ sock[h][i].handler /\ ~sock'[h][i].handler /\ sock[h][i].sum # 0
      BY <2>5 DEF Stays
    <3>2. QED
      BY <1>1, <2>1, <2>3, <3>1, FinKeeps
  <2>6. QED
    BY <2>2, <2>4, <2>5
<1>5. CASE TakesSyn
  <2>1. PICK k \in 1..Len(net[Server]), j \in Id :
          /\ Others(Server, j) /\ sock'[Server][j].state = "CONNECTED"
          /\ sock'[Server][j].sum = net[Server][k].sum
          /\ sock'[Server][j].handler = listening
          /\ opened' = IF listening THEN [opened EXCEPT ![net[Server][k].sum] = @ + 1] ELSE opened
    BY <1>5 DEF TakesSyn
  <2>2. PathStep(Server) /\ connects' = connects
    BY <1>5 DEF TakesSyn
  <2>3. net[Server][k].sum \in 1..Connects
    <3>1. net[Server][k] \in Sent
      BY <1>1 DEF IInv, NetOK
    <3>2. \A m \in Message : m.sum \in 0..Connects
      BY DEF Message
    <3>3. QED
      BY <3>1, <3>2, ConstantsAreNumbers DEF Sent
  <2>4. \A n \in 1..Connects : opened[n] \in Nat /\ opened'[n] \in {opened[n], opened[n] + 1}
    BY <1>1, <2>1, <2>3
  <2>5. \A x \in Host : \A n \in 1..Connects :
          /\ MayOpenNext(x, n) => MayOpen(x, n)
          /\ Again(x, n) => AgainNext(x, n)
          /\ AgainNext(x, n) => ~MayOpenNext(x, n)
    BY <1>1, <2>2, <2>4 DEF MayOpen, MayOpenNext, Again, AgainNext
  <2>6. sock'[Server][j].handler =>
          \/ AgainNext(Server, sock'[Server][j].sum)
          \/ /\ MayOpen(Server, sock'[Server][j].sum)
             /\ ~MayOpenNext(Server, sock'[Server][j].sum)
    <3>1. SUFFICES ASSUME listening
                   PROVE  \/ AgainNext(Server, net[Server][k].sum)
                          \/ /\ MayOpen(Server, net[Server][k].sum)
                             /\ ~MayOpenNext(Server, net[Server][k].sum)
      BY <2>1
    <3>2. opened'[net[Server][k].sum] = opened[net[Server][k].sum] + 1
          /\ opened[net[Server][k].sum] \in Nat
      BY <1>1, <2>1, <2>3, <3>1
    <3>3. QED
      BY <1>1, <3>2 DEF MayOpen, MayOpenNext, AgainNext
  <2>7. QED
    BY <1>1, <2>1, <2>2, <2>5, <2>6, FinKeeps
<1>6. ASSUME NEW i \in Id, Connect(i) PROVE FinInv'
  <2>1. /\ PathStep(Client) /\ Others(Client, i) /\ sock'[Client][i].state = "CONNECTING"
        /\ sock'[Client][i].sum = connects + 1 /\ connects' = connects + 1
        /\ opened' = opened
    BY <1>6, ConnectDoes
  <2>2. \A x \in Host : \A n \in 1..Connects :
          /\ MayOpenNext(x, n) => MayOpen(x, n)
          /\ Again(x, n) => AgainNext(x, n)
          /\ AgainNext(x, n) => ~MayOpenNext(x, n)
    BY <1>3, <2>1
  <2>3. MayOpen(Client, sock'[Client][i].sum) /\ ~MayOpenNext(Client, sock'[Client][i].sum)
    BY <1>1, <2>1 DEF MayOpen, MayOpenNext
  <2>4. QED
    BY <1>1, <2>1, <2>2, <2>3, FinKeeps
<1>7. ASSUME NEW i \in Id, Listen(i) PROVE FinInv'
  <2>1. /\ PathStep(Server) /\ Others(Server, i) /\ sock'[Server][i].state = "IDLE"
        /\ sock'[Server][i].sum = 0 /\ connects' = connects /\ opened' = opened
    BY <1>7, ListenDoes
  <2>2. \A x \in Host : \A n \in 1..Connects :
          /\ MayOpenNext(x, n) => MayOpen(x, n)
          /\ Again(x, n) => AgainNext(x, n)
          /\ AgainNext(x, n) => ~MayOpenNext(x, n)
    BY <1>3, <2>1
  <2>3. QED
    BY <1>1, <2>1, <2>2, FinKeeps
<1>8. QED
  BY <1>2, <1>4, <1>5, <1>6, <1>7, StepIs

\* Whatever is lost, repeated or reordered, and however often either side connects
\* and listens: a FIN never ends a connection that the application at the other end
\* still holds, unless the server accepted that connection twice.
THEOREM FinsHonest == Spec => []FinHonest
<1>1. Init => FinInv
  BY DEF Init, FinInv, Free
<1>2. IInv /\ FinInv => FinHonest
  <2> SUFFICES ASSUME IInv, FinInv, NEW h \in Host, NEW k \in 1..Len(net[h]),
                      net[h][k].type = "FIN", net[h][k].to # 0,
                      sock[h][net[h][k].to].sum = net[h][k].sum,
                      sock[h][net[h][k].to].remote # 0,
                      opened[sock[h][net[h][k].to].sum] <= 1
               PROVE  LET p == sock[Other(h)][sock[h][net[h][k].to].remote]
                      IN ~(p.sum = sock[h][net[h][k].to].sum /\ p.handler)
    BY DEF FinHonest
  <2>1. net[h][k] \in Sent
    BY DEF IInv, NetOK
  <2>2. net[h][k].to \in Id
    BY <2>1, ConstantsAreNumbers DEF Sent, Message, Id
  <2>3. sock[h][net[h][k].to] \in Socket
    BY <2>2 DEF IInv, SocketsOK
  <2>4. sock[h][net[h][k].to].remote \in Id
    <3>1. ASSUME NEW s \in Socket, s.remote # 0 PROVE s.remote \in Id
      BY <3>1, ConstantsAreNumbers DEF Socket, Id
    <3>2. QED
      BY <2>3, <3>1
  <2>5. Over(Other(h), net[h][k].sum)
    BY DEF FinInv
  <2>6. ~Again(Other(h), net[h][k].sum)
    <3>1. net[h][k].sum \in 1..Connects
      <4>1. \A m \in Message : m.sum \in 0..Connects
        BY DEF Message
      <4>2. QED
        BY <2>1, <4>1, ConstantsAreNumbers DEF Sent
    <3>2. opened[net[h][k].sum] \in Nat
      BY <3>1 DEF IInv, RestOK
    <3>3. QED
      BY <3>2 DEF Again
  <2>7. QED
    BY <2>4, <2>5, <2>6 DEF Over
<1>3. QED
  BY InitIInv, StepKeepsIInv, NextKeepsFin, <1>1, <1>2, PTL DEF Spec
=============================================================================
