--------------------------- MODULE RudpConnection ---------------------------
(***************************************************************************)
(* The life of RUDP sockets: RUDPObject (the table of sockets, the index   *)
(* of half open connections, the listener) and the state machine of        *)
(* RUDPSocket, on a host that connects and a host that listens, with the   *)
(* datagrams between them and the application above (UserConnection binds  *)
(* itself to a socket in open() or in rudp_accept_event(), and closes it   *)
(* from its reactor timer).                                                *)
(*                                                                         *)
(* Every handler runs on the reactor thread, so it is one step.  Each host *)
(* keeps one address, so the address learning of process() is not here;    *)
(* data segments are in RudpTransfer.  0 stands for INVALID_RUDP_HANDLE.   *)
(* Time is abstracted: a timer that is armed may fire.                     *)
(***************************************************************************)
EXTENDS Integers, Sequences

CONSTANTS Client, Server,  \* the two hosts
          MaxId,           \* bound: socket ids 1..MaxId on a host
          SynMax,          \* SYN_MAX_COUNT
          FinMax,          \* FIN_MAX_COUNT
          TimeoutCount,    \* timeout_count_
          Copies,          \* SYN2 and FIN2 are sent this many times (3)
          Connects,        \* bound: calls of connect()
          Accepts,         \* bound: calls of listen()
          NetCap,          \* bound: datagrams the path holds in one direction
          Reordering       \* whether the path reorders datagrams

ASSUME ConnectionAssumption ==
         /\ Client # Server
         /\ {MaxId, SynMax, FinMax, TimeoutCount, Copies, NetCap} \subseteq Nat \ {0}
         /\ Connects \in Nat /\ Accepts \in Nat /\ Reordering \in BOOLEAN

VARIABLES sock,       \* sock[h][i]: socket_array_[i] of host h
          peerIndex,  \* peer_socket_ids_ of the server: client id |-> socket id
          listener,   \* the socket id of the UserConnection in listener_, or 0
          listening,  \* whether its state_ is RUDP_CONN_LISTENING
          held,       \* held[h]: the handles that the applications of h have not
                      \* closed, each with the number of its connection
          early,      \* history: the handles whose socket a datagram of the peer
                      \* has given back under the application, and those of
                      \* connections that were closed through such a handle
          net,        \* net[h]: the datagrams on their way to h
          connects,   \* connect() calls so far
          accepts,    \* listen() calls so far
          opened      \* history: opened[n] is how often accept() has returned a
                      \* socket of the connection with number n

app == <<held, connects, accepts, opened>>
vars == <<sock, peerIndex, listener, listening, early, net, app>>

Host == {Client, Server}
Id == 1..MaxId
Other(h) == IF h = Client THEN Server ELSE Client

State == {"FREE", "IDLE", "CONNECTING", "CONNECTED", "FIN", "FIN2"}

\* handler: event_handler_ is bound.  broken: the application has been told
\* that the connection is over.  FREE: reset() and given back to the pool.
Socket == [state   : State,
           remote  : 0..MaxId,         \* remote_rudp_id_
           sum     : 0..Connects,      \* check_sum_: a number for each connect()
           handler : BOOLEAN,
           broken  : BOOLEAN,
           tries   : 0..(SynMax + FinMax),     \* send_count_
           silent  : 0..TimeoutCount]          \* keeplive_count_

\* A handle of UDT is the id of the RUDP socket; the application knows which
\* connection it means by it, which the number says.
Handle == [id : Id, sum : 0..Connects]

Free == [state |-> "FREE", remote |-> 0, sum |-> 0, handler |-> FALSE,
         broken |-> FALSE, tries |-> 0, silent |-> 0]

\* The datagrams, all with the head <msg_id, remote_rudp_id, check_sum>.
To(type, s)   == [type |-> type, to |-> s.remote, sum |-> s.sum]
Syn(i, s)     == [type |-> "SYN", to |-> 0, sum |-> s.sum, from |-> i]
Syn2(i, s, ok) == [type |-> "SYN2", to |-> s.remote, sum |-> s.sum, from |-> i, ok |-> ok]

Message ==
  [type : {"SYN_ACK", "FIN", "FIN2", "KEEPALIVE", "KEEPALIVE_ACK"},
   to : 0..MaxId, sum : 0..Connects]
    \cup [type : {"SYN"}, to : {0}, sum : 0..Connects, from : Id]
    \cup [type : {"SYN2"}, to : 0..MaxId, sum : 0..Connects, from : Id, ok : BOOLEAN]

TypeOK == /\ sock \in [Host -> [Id -> Socket]]
          /\ peerIndex \in [Id -> 0..MaxId]
          /\ listener \in 0..MaxId /\ listening \in BOOLEAN
          /\ held \in [Host -> SUBSET Handle] /\ early \in [Host -> SUBSET Handle]
          /\ net \in [Host -> Seq(Message)]
          /\ connects \in 0..Connects /\ accepts \in 0..Accepts
          /\ opened \in [1..Connects -> Nat]

Init == /\ sock = [h \in Host |-> [i \in Id |-> Free]]
        /\ peerIndex = [i \in Id |-> 0]
        /\ listener = 0 /\ listening = FALSE
        /\ held = [h \in Host |-> {}] /\ early = [h \in Host |-> {}]
        /\ net = [h \in Host |-> <<>>]
        /\ connects = 0 /\ accepts = 0
        /\ opened = [n \in 1..Connects |-> 0]

-----------------------------------------------------------------------------
\* The path q after n copies of m are sent on it: each may be lost, and all
\* that do not fit are.
After(q, m, n) == {q \o [k \in 1..j |-> m] :
                     j \in {c \in 0..n : c = 0 \/ Len(q) + c <= NetCap}}

\* h, having taken the rest from the path, sends n copies of m.
Send(h, rest, m, n) ==
  \E q \in After(net[Other(h)], m, n) :
    net' = [net EXCEPT ![h] = rest, ![Other(h)] = q]

Quiet(h, rest) == net' = [net EXCEPT ![h] = rest]

\* free_sockets() erases what the peer index holds for the socket's peer.
Unindexed(s) == [i \in Id |-> IF i = s.remote THEN 0 ELSE peerIndex[i]]

\* The mutants in this module are plausible slips in the definition that
\* follows; the runs show that a property notices each of them.
\* Mutant: a socket that is given back stays in the peer index.
BecomeIndexed(h, i, s) ==
  /\ sock' = [sock EXCEPT ![h][i] = s]
  /\ UNCHANGED peerIndex

\* Socket i of h becomes s.  When s is Free, set_state(RUDP_CLOSE) gave the
\* socket back.
Become(h, i, s) ==
  /\ sock' = [sock EXCEPT ![h][i] = s]
  /\ peerIndex' = IF h = Server /\ s = Free THEN Unindexed(sock[h][i]) ELSE peerIndex

\* Mutant: the socket does not wait for the application.
EndedFreed(s) == Free

\* The connection is over: the application is told and must close the socket;
\* without one the socket is given back at once.
Ended(s) == IF s.handler THEN [s EXCEPT !.state = "FIN2", !.tries = 0, !.broken = TRUE]
            ELSE Free

\* The application's handle of the connection that has socket i.
HandlesOf(h, i) == {c \in held[h] : c.id = i /\ c.sum = sock[h][i].sum}

-----------------------------------------------------------------------------
(* The application.                                                        *)

\* create_socket() takes the lowest free id.
IsNextId(h, i) == /\ sock[h][i].state = "FREE"
                  /\ \A j \in Id : j < i => sock[h][j].state # "FREE"

\* UserConnection::open() and connect() on the connecting host.
Connect(i) ==
  /\ connects < Connects /\ IsNextId(Client, i)
  /\ connects' = connects + 1
  /\ held' = [held EXCEPT ![Client] = @ \cup {[id |-> i, sum |-> connects + 1]}]
  /\ LET s == [Free EXCEPT !.state = "CONNECTING", !.sum = connects + 1,
                           !.handler = TRUE, !.tries = 1]
     IN /\ Become(Client, i, s)
        /\ Send(Client, net[Client], Syn(i, s), 1)
  /\ UNCHANGED <<listener, listening, early, accepts, opened>>

\* UserConnection::open() and listen(): the socket of the listening connection
\* stays RUDP_IDLE.
Listen(i) ==
  /\ accepts < Accepts /\ listener = 0 /\ IsNextId(Server, i)
  /\ accepts' = accepts + 1
  /\ listener' = i /\ listening' = TRUE
  /\ held' = [held EXCEPT ![Server] = @ \cup {[id |-> i, sum |-> 0]}]
  /\ Become(Server, i, [Free EXCEPT !.state = "IDLE", !.handler = TRUE])
  /\ UNCHANGED <<early, net, connects, opened>>

\* UDT::close(), and UserConnection::handle_timeout() after it: rudp close(),
\* unbind the event handler, detach the listener.  It closes the connection that
\* is found at the id now, if there is one.
AppClose(h, c) ==
  LET i    == c.id
      s    == sock[h][i]
      gone == [s EXCEPT !.handler = FALSE]
      fin  == [gone EXCEPT !.state = "FIN", !.tries = 1, !.broken = TRUE]
  IN /\ c \in held[h] /\ held' = [held EXCEPT ![h] = @ \ {c}]
     /\ early' = [early EXCEPT ![h] = (IF c \in @ THEN @ \cup HandlesOf(h, i) ELSE @) \ {c}]
     /\ \/ /\ ~s.handler
           /\ UNCHANGED <<sock, peerIndex, net>>
        \/ /\ s.handler /\ s.state = "IDLE"         \* close() has no case for it
           /\ Become(h, i, gone)
           /\ UNCHANGED net
        \/ /\ s.handler /\ s.state \in {"CONNECTING", "CONNECTED"}
           /\ Become(h, i, fin)
           /\ Send(h, net[h], To("FIN", s), 1)
        \/ /\ s.handler /\ s.state = "FIN2"
           /\ Become(h, i, Free)
           /\ UNCHANGED net
     /\ IF s.handler /\ h = Server /\ i = listener
        THEN listener' = 0 /\ listening' = FALSE
        ELSE UNCHANGED <<listener, listening>>
     /\ UNCHANGED <<connects, accepts, opened>>

-----------------------------------------------------------------------------
(* Timers.                                                                 *)

\* Mutant: send_count_ is not increased.
TimeoutUncounted(h, i) ==
  LET s == sock[h][i]
  IN /\ \/ /\ s.state = "CONNECTING" /\ s.tries < SynMax
           /\ UNCHANGED <<sock, peerIndex>>
           /\ Send(h, net[h], Syn(i, s), 1)
        \/ /\ s.state = "CONNECTING" /\ s.tries >= SynMax
           /\ Become(h, i, Ended(s))
           /\ UNCHANGED net
        \/ /\ s.state = "FIN" /\ s.tries < FinMax
           /\ UNCHANGED <<sock, peerIndex>>
           /\ Send(h, net[h], To("FIN", s), 1)
        \/ /\ s.state = "FIN" /\ s.tries >= FinMax
           /\ Become(h, i, Free)
           /\ UNCHANGED net
     /\ UNCHANGED <<listener, listening, early, app>>

\* RUDPSocket::handle_timeout()
Timeout(h, i) ==
  LET s     == sock[h][i]
      again == [s EXCEPT !.tries = @ + 1]
  IN /\ \/ /\ s.state = "CONNECTING" /\ s.tries < SynMax
           /\ Become(h, i, again)
           /\ Send(h, net[h], Syn(i, s), 1)
        \/ /\ s.state = "CONNECTING" /\ s.tries >= SynMax
           /\ Become(h, i, Ended(s))
           /\ UNCHANGED net
        \/ /\ s.state = "FIN" /\ s.tries < FinMax
           /\ Become(h, i, again)
           /\ Send(h, net[h], To("FIN", s), 1)
        \/ /\ s.state = "FIN" /\ s.tries >= FinMax
           /\ Become(h, i, Free)
           /\ UNCHANGED net
     /\ UNCHANGED <<listener, listening, early, app>>

\* Mutant: unanswered KEEPALIVEs are not counted.
KeepAliveUncounted(h, i) ==
  /\ sock[h][i].state = "CONNECTED"
  /\ Send(h, net[h], To("KEEPALIVE", sock[h][i]), 1)
  /\ UNCHANGED <<sock, peerIndex, listener, listening, early, app>>

\* heartbeat() when keeplive_intnal_ has passed since the last one
KeepAlive(h, i) ==
  LET s == sock[h][i]
  IN /\ s.state = "CONNECTED"
     /\ IF s.silent + 1 > TimeoutCount
        THEN /\ Become(h, i, Ended(s))
             /\ UNCHANGED net
        ELSE /\ Become(h, i, [s EXCEPT !.silent = @ + 1])
             /\ Send(h, net[h], To("KEEPALIVE", s), 1)
     /\ UNCHANGED <<listener, listening, early, app>>

-----------------------------------------------------------------------------
(* Datagrams for a socket: process(), with s the socket once it has noted  *)
(* that its peer is not silent.                                            *)

ProcessSyn2(h, i, s, m, rest) ==
  /\ m.type = "SYN2"
  /\ CASE s.state = "CONNECTING" /\ ~m.ok -> Become(h, i, Ended(s)) /\ Quiet(h, rest)
       [] s.state = "CONNECTING" /\ m.ok ->
            LET c == [s EXCEPT !.state = "CONNECTED", !.remote = m.from, !.tries = 0]
            IN Become(h, i, c) /\ Send(h, rest, To("SYN_ACK", c), 1)
       [] s.state = "CONNECTED" -> Become(h, i, s) /\ Send(h, rest, To("SYN_ACK", s), 1)
       [] OTHER -> Become(h, i, s) /\ Quiet(h, rest)

\* The connection is no longer half open.
ProcessSynAck(h, i, s, m, rest) ==
  /\ m.type = "SYN_ACK"
  /\ sock' = [sock EXCEPT ![h][i] = s]
  /\ peerIndex' = IF h = Server THEN Unindexed(s) ELSE peerIndex
  /\ Quiet(h, rest)

ProcessFin(h, i, s, m, rest) ==
  /\ m.type = "FIN"
  /\ Become(h, i, IF s.state \in {"CONNECTING", "CONNECTED"} THEN Ended(s) ELSE Free)
  /\ Send(h, rest, To("FIN2", s), Copies)

ProcessFin2(h, i, s, m, rest) ==
  /\ m.type = "FIN2"
  /\ Become(h, i, IF s.handler THEN [s EXCEPT !.broken = TRUE] ELSE Free)
  /\ Quiet(h, rest)

ProcessKeepAlive(h, i, s, m, rest) ==
  /\ m.type \in {"KEEPALIVE", "KEEPALIVE_ACK"}
  /\ Become(h, i, s)
  /\ IF m.type = "KEEPALIVE" /\ s.state = "CONNECTED"
     THEN Send(h, rest, To("KEEPALIVE_ACK", s), 1)
     ELSE Quiet(h, rest)

Process(h, i, m, rest) ==
  /\ IF sock[h][i].sum # m.sum
     THEN UNCHANGED <<sock, peerIndex>> /\ Quiet(h, rest)
     ELSE LET s == [sock[h][i] EXCEPT !.silent = 0]
          IN \/ ProcessSyn2(h, i, s, m, rest)
             \/ ProcessSynAck(h, i, s, m, rest)
             \/ ProcessFin(h, i, s, m, rest)
             \/ ProcessFin2(h, i, s, m, rest)
             \/ ProcessKeepAlive(h, i, s, m, rest)
  /\ UNCHANGED <<listener, listening, held, opened>>

-----------------------------------------------------------------------------
(* A SYN to a host that listens: RUDPObject::process() and process_syn().  *)

\* A SYN of a half open connection finds its socket; check_sum_ is not looked at.
RepeatedSyn(m, rest) ==
  LET j == peerIndex[m.from]
      s == sock[Server][j]
  IN /\ j # 0
     /\ IF s.state \in {"CONNECTING", "CONNECTED"}
        THEN /\ Send(Server, rest, Syn2(j, s, TRUE), Copies)
             /\ UNCHANGED <<sock, peerIndex>>
        ELSE /\ Send(Server, rest, Syn2(j, s, FALSE), Copies)
             /\ Become(Server, j, Free)
     /\ UNCHANGED <<listener, listening, held, opened>>

\* accept() returns the handle of the socket that a UserConnection was bound to.
Accepted(j, m) ==
  IF listening
  THEN /\ held' = [held EXCEPT ![Server] = @ \cup {[id |-> j, sum |-> m.sum]}]
       /\ opened' = [opened EXCEPT ![m.sum] = @ + 1]
  ELSE UNCHANGED <<held, opened>>

\* Mutant: the new socket is not entered in the index.
NewSynUnindexed(m, rest) ==
  \E j \in Id :
    LET s == [Free EXCEPT !.state = "CONNECTED", !.remote = m.from,
                          !.sum = m.sum, !.handler = listening]
    IN /\ IsNextId(Server, j)
       /\ sock' = [sock EXCEPT ![Server][j] = s]
       /\ listening' = FALSE /\ Accepted(j, m)
       /\ \E q \in After(net[Client], Syn2(j, s, TRUE), Copies) :
            \E r \in After(q, To("KEEPALIVE", s), 1) :
              net' = [net EXCEPT ![Server] = rest, ![Client] = r]
       /\ UNCHANGED <<peerIndex, listener>>

\* Mutant: rudp_accept_event() accepts although it is not LISTENING any more.
NewSynAlways(m, rest) ==
  \E j \in Id :
    LET s == [Free EXCEPT !.state = "CONNECTED", !.remote = m.from,
                          !.sum = m.sum, !.handler = TRUE]
    IN /\ peerIndex[m.from] = 0
       /\ IsNextId(Server, j)
       /\ sock' = [sock EXCEPT ![Server][j] = s]
       /\ peerIndex' = [peerIndex EXCEPT ![m.from] = j]
       /\ listening' = FALSE /\ Accepted(j, m)
       /\ \E q \in After(net[Client], Syn2(j, s, TRUE), Copies) :
            \E r \in After(q, To("KEEPALIVE", s), 1) :
              net' = [net EXCEPT ![Server] = rest, ![Client] = r]
       /\ UNCHANGED listener

\* A new socket: rudp_accept_event() binds a UserConnection to it only if the
\* listening one still waits.  process_syn() then sends SYN2 and a KEEPALIVE.
NewSyn(m, rest) ==
  \E j \in Id :
    LET s == [Free EXCEPT !.state = "CONNECTED", !.remote = m.from,
                          !.sum = m.sum, !.handler = listening]
    IN /\ peerIndex[m.from] = 0
       /\ IsNextId(Server, j)
       /\ sock' = [sock EXCEPT ![Server][j] = s]
       /\ peerIndex' = [peerIndex EXCEPT ![m.from] = j]
       /\ listening' = FALSE /\ Accepted(j, m)
       /\ \E q \in After(net[Client], Syn2(j, s, TRUE), Copies) :
            \E r \in After(q, To("KEEPALIVE", s), 1) :
              net' = [net EXCEPT ![Server] = rest, ![Client] = r]
       /\ UNCHANGED listener

AcceptSyn(m, rest) ==
  /\ m.type = "SYN" /\ listener # 0
  /\ RepeatedSyn(m, rest) \/ NewSyn(m, rest)

\* get_socket(i) finds a socket.
Alive(h, i) == i # 0 /\ sock[h][i].state # "FREE"

\* A datagram for nobody.  A SYN that finds every id of the model taken counts
\* as lost.
Ignored(h, m) ==
  IF h = Server /\ m.type = "SYN" /\ listener # 0
  THEN peerIndex[m.from] = 0 /\ \A j \in Id : sock[Server][j].state # "FREE"
  ELSE ~Alive(h, m.to)

Receive(h) ==
  /\ \E k \in 1..Len(net[h]) :
       LET m    == net[h][k]
           rest == SubSeq(net[h], 1, k - 1) \o SubSeq(net[h], k + 1, Len(net[h]))
       IN /\ k = 1 \/ Reordering
          /\ \/ /\ Alive(h, m.to)
                /\ Process(h, m.to, m, rest)
             \/ /\ h = Server
                /\ AcceptSyn(m, rest)
             \/ /\ Ignored(h, m)
                /\ Quiet(h, rest)
                /\ UNCHANGED <<sock, peerIndex, listener, listening, held, opened>>
  /\ early' = [early EXCEPT ![h] = @ \cup
                 UNION {HandlesOf(h, i) : i \in {j \in Id : sock[h][j].state = "FIN2"
                                                            /\ sock'[h][j] = Free}}]
  /\ UNCHANGED <<connects, accepts>>

Next == \/ \E i \in Id : Connect(i) \/ Listen(i)
        \/ \E h \in Host : \/ \E c \in held[h] : AppClose(h, c)
                           \/ \E i \in Id : Timeout(h, i) \/ KeepAlive(h, i)
                           \/ Receive(h)

Spec == Init /\ [][Next]_vars

\* Timers fire, datagrams arrive or are lost, and the application closes a
\* connection that it was told is over.
FairSpec ==
  /\ Spec
  /\ \A h \in Host :
       /\ WF_vars(Receive(h))
       /\ \A i \in Id : /\ WF_vars(Timeout(h, i))
                        /\ WF_vars(KeepAlive(h, i))
                        /\ WF_vars(sock[h][i].broken /\ \E c \in held[h] : c.id = i /\ AppClose(h, c))

-----------------------------------------------------------------------------
\* Every entry of the index of half open connections refers to a socket that
\* lives and talks to that peer, so that process() never answers for a socket
\* that was closed, or reused.
IndexSound ==
  \A i \in Id : peerIndex[i] # 0 =>
    LET s == sock[Server][peerIndex[i]]
    IN s.state \notin {"FREE", "IDLE"} /\ s.remote = i

\* The index "prevents establishing a connection twice": one connect() of the
\* client never has two sockets at the server.
OneSocketPerConnect ==
  \A i, j \in Id :
    (/\ sock[Server][i].sum # 0
     /\ sock[Server][i].sum = sock[Server][j].sum) => i = j

\* A FIN on its way to a connected socket says the truth: no application at the
\* other end still holds the connection.  The exception: a server that listens
\* again takes a late copy of a SYN for a new connection, while the FIN of the
\* first one is on its way.
FinHonest ==
  \A h \in Host : \A k \in 1..Len(net[h]) :
    LET m == net[h][k] IN
    (m.type = "FIN" /\ m.to # 0) =>
      LET s == sock[h][m.to]
      IN (/\ s.state = "CONNECTED" /\ s.sum = m.sum /\ s.remote # 0
          /\ s.sum # 0 /\ opened[s.sum] <= 1) =>
           LET p == sock[Other(h)][s.remote]
           IN ~(p.state = "CONNECTED" /\ p.sum = s.sum /\ p.handler)

\* UDT::close() and the rest of the API find the application's own connection by
\* its handle.  The exception: a FIN or SYN of the peer that finds the socket in
\* RUDP_FIN2_STATE gives it back, although the application has not closed it.
HandlesTrue ==
  \A h \in Host : \A c \in held[h] \ early[h] :
    sock[h][c.id].handler /\ sock[h][c.id].sum = c.sum

\* A connection attempt ends: connected, refused or timed out.
ConnectSettles ==
  \A i \in Id : sock[Client][i].state = "CONNECTING"
                  ~> sock[Client][i].state # "CONNECTING"

\* A socket of a connection that is over is given back to the pool.
SocketsReturned ==
  \A h \in Host, i \in Id :
    sock[h][i].state \in {"FIN", "FIN2"} ~> sock[h][i].state = "FREE"

\* The other end of s lives.
HasPeer(h, s) == \E j \in Id : /\ sock[Other(h)][j].sum = s.sum
                               /\ sock[Other(h)][j].state \in {"CONNECTING", "CONNECTED"}

\* A connected socket whose peer is gone does not stay connected, whether or not
\* the FIN reached it.
OrphansEnd ==
  \A h \in Host, i \in Id :
    (sock[h][i].state = "CONNECTED" /\ ~HasPeer(h, sock[h][i]))
      ~> (sock[h][i].state # "CONNECTED" \/ HasPeer(h, sock[h][i]))
=============================================================================
