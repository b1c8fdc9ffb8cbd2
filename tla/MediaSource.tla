----------------------------- MODULE MediaSource -----------------------------
(***************************************************************************)
(* Which of its viewer connections feeds a Repeater.  All of them lead     *)
(* upwards; one, viewerArray[currentSourceIndex], is the primary one and   *)
(* is to stream.  A connection has a thread that connects, says HELLO,     *)
(* receives and ends; the event loop thread and the receive loops handle   *)
(* events that connect, disconnect and switch viewers, their own or those  *)
(* of others.  No lock guards any of this.                                 *)
(*                                                                         *)
(* This is a node below the first level (FIRST_LEVEL_REPEATER is 0) that   *)
(* is not the root of its tree.  Plain assignments that follow each other  *)
(* are one step; calls that talk to a peer or the server lie between.      *)
(***************************************************************************)
EXTENDS Naturals

CONSTANT Viewers     \* MAX_VIEWER_NUM, at least 1

VARIABLES conn,      \* conn[v]: where the thread of viewer v is; "off": bUsing
                     \* is FALSE
          connected, \* bConnected
          primary,   \* bTopoPrimary
          started,   \* bAvStarted
          quit,      \* bQuitRecvSocketLoop
          source,    \* currentSourceIndex
          media,     \* currentLastMediaTime > 0
          job,       \* job[t]: where thread t is in SwitchMediaSource() or
                     \* DisconnectNode()
          rushed,    \* histories: see below
          late, absent, crossed, missed

flags == <<connected, primary, started, quit>>
history == <<rushed, late, absent, crossed, missed>>
vars == <<conn, flags, source, media, job, history>>

Viewer == 1..Viewers
None == 0              \* the -1 of the code
Eloop == 0             \* the event loop thread; the others are the viewers'
Thread == Viewer \cup {Eloop}

\* "switch": between AV_START to new and the rest; then: what comes after it.
\* "stop": between the scan that found no connection to switch to and the reset
\* of the source old.  "close": the 2 s before DisconnectNode() closes the sockets.
NoJob == [at |-> "none", old |-> None, new |-> None, then |-> "none"]

TypeOK ==
  /\ conn \in [Viewer -> {"off", "connecting", "hello", "begin", "loop", "ended", "bye"}]
  /\ connected \in [Viewer -> BOOLEAN] /\ primary \in [Viewer -> BOOLEAN]
  /\ started \in [Viewer -> BOOLEAN] /\ quit \in [Viewer -> BOOLEAN]
  /\ source \in Viewer \cup {None}
  /\ media \in BOOLEAN
  /\ job \in [Thread -> [at : {"none", "switch", "stop", "close"}, old : Viewer \cup {None},
                         new : Viewer \cup {None},
                         then : {"none", "bye", "quit", "disconnect"}]]
  /\ rushed \in BOOLEAN /\ late \in BOOLEAN /\ absent \in BOOLEAN /\ crossed \in BOOLEAN
  /\ missed \in BOOLEAN

\* InitVar()
Init == /\ conn = [v \in Viewer |-> "off"]
        /\ connected = [v \in Viewer |-> FALSE] /\ primary = connected
        /\ started = connected /\ quit = [v \in Viewer |-> TRUE]
        /\ source = None /\ media = FALSE
        /\ job = [t \in Thread |-> NoJob]
        /\ rushed = FALSE /\ late = FALSE /\ absent = FALSE /\ crossed = FALSE
        /\ missed = FALSE

Using(v) == conn[v] # "off"
Goto(v, to) == conn' = [conn EXCEPT ![v] = to]

\* Thread t handles a message or an event.
Serves(t) == job[t] = NoJob /\ (t # Eloop => conn[t] = "loop")

-----------------------------------------------------------------------------
(* SwitchMediaSource() and DisconnectNode().                               *)

\* The first connection that is neither primary nor the source.
CanTakeOver(i) == Using(i) /\ connected[i] /\ ~primary[i] /\ source # i
TakesOver(i) == CanTakeOver(i) /\ \A j \in Viewer : j < i => ~CanTakeOver(j)
NobodyTakesOver == \A i \in Viewer : ~CanTakeOver(i)

\* SwitchMediaSource() up to its end, or nothing: AV_START is sent to the new
\* source, and EvaluateFlow() may talk to the server.
StartSwitch(t, new, then) ==
  /\ media' = FALSE
  /\ started' = [started EXCEPT ![new] = TRUE]
  /\ job' = [job EXCEPT ![t] = [at |-> "switch", old |-> source, new |-> new, then |-> then]]
  /\ absent' = (absent \/ ~connected[new])
  /\ crossed' = (crossed \/ \E u \in Thread : u # t /\ job[u].at = "switch")
  /\ UNCHANGED <<connected, primary, quit, source, rushed, late, missed>>

\* Mutant: the old source stays primary.
EndSwitchPrimary(t) ==
  LET j == job[t]
  IN /\ j.at = "switch"
     /\ started' = [started EXCEPT ![j.old] = FALSE]
     /\ primary' = [primary EXCEPT ![j.new] = TRUE]
     /\ source' = j.new
     /\ LET drops == j.then = "quit" \/ (j.then = "disconnect" /\ Using(j.old))
        IN /\ quit' = IF drops THEN [quit EXCEPT ![j.old] = TRUE] ELSE quit
           /\ job' = [job EXCEPT ![t] = IF drops THEN [NoJob EXCEPT !.at = "close"] ELSE NoJob]
     /\ IF j.then = "bye" THEN Goto(t, "bye") ELSE UNCHANGED conn
     /\ UNCHANGED <<connected, media, history>>

\* AV_STOP is sent to the old source, and the flags change.  What comes next:
\* the rest of DisconnectNode() for the old source, or all of it (which finds
\* that it is the source no more), or the end of the connection's thread.
EndSwitch(t) ==
  LET j == job[t]
  IN /\ j.at = "switch"
     /\ started' = [started EXCEPT ![j.old] = FALSE]
     /\ primary' = [primary EXCEPT ![j.old] = FALSE, ![j.new] = TRUE]
     /\ source' = j.new
     /\ LET drops == j.then = "quit" \/ (j.then = "disconnect" /\ Using(j.old))
        IN /\ quit' = IF drops THEN [quit EXCEPT ![j.old] = TRUE] ELSE quit
           /\ job' = [job EXCEPT ![t] = IF drops THEN [NoJob EXCEPT !.at = "close"] ELSE NoJob]
     /\ IF j.then = "bye" THEN Goto(t, "bye") ELSE UNCHANGED conn
     /\ UNCHANGED <<connected, media, history>>

\* The sockets are closed; the receive loop that waits for them ends (EndLoop).
Closed(t) == /\ job[t].at = "close"
             /\ job' = [job EXCEPT ![t] = NoJob]
             /\ UNCHANGED <<conn, flags, source, media, history>>

\* The scan has found no connection that can take over from v.
Scanned(t, v) == /\ job' = [job EXCEPT ![t] = [NoJob EXCEPT !.at = "stop", !.old = v]]
                 /\ UNCHANGED <<flags, source, media, history>>

\* The source is reset without a second look at it or at the other connections.
ResetSource(v) == /\ source' = None
                  /\ missed' = (\/ missed
                                \/ source \notin {v, None}
                                \/ source = v /\ ~NobodyTakesOver)

\* quit and then close
Drop(t, v) == /\ quit' = [quit EXCEPT ![v] = TRUE]
              /\ job' = [job EXCEPT ![t] = [NoJob EXCEPT !.at = "close"]]

-----------------------------------------------------------------------------
(* Events and the check of the stream.                                     *)

\* ConnectNode() and ConnectRevNode()
ConnectNode(t, v) ==
  /\ Serves(t) /\ ~Using(v)
  /\ Goto(v, "connecting")
  /\ connected' = [connected EXCEPT ![v] = FALSE]
  /\ primary' = [primary EXCEPT ![v] = FALSE]
  /\ started' = [started EXCEPT ![v] = FALSE]
  /\ quit' = [quit EXCEPT ![v] = TRUE]
  /\ UNCHANGED <<source, media, job, history>>

\* DisconnectNode(); AV_STOP is sent to the source when no connection can take
\* over.
DisconnectNode(t, v) ==
  /\ Serves(t) /\ Using(v) /\ (t = Eloop => connected[v])
  /\ \/ /\ source = v /\ \E i \in Viewer : TakesOver(i) /\ StartSwitch(t, i, "quit")
     \/ source = v /\ NobodyTakesOver /\ Scanned(t, v)
     \/ /\ source # v
        /\ Drop(t, v)
        /\ UNCHANGED <<connected, primary, started, source, media, history>>
  /\ UNCHANGED conn

\* The rest of DisconnectNode() when AV_STOP has been sent.
StopSource(t) ==
  LET v == job[t].old
  IN /\ job[t].at = "stop" /\ (t # Eloop => conn[t] = "loop")
     /\ started' = [started EXCEPT ![v] = FALSE]
     /\ ResetSource(v)
     /\ late' = (late \/ conn[v] \in {"hello", "begin"})
     /\ Drop(t, v)
     /\ UNCHANGED <<conn, connected, primary, media, rushed, absent, crossed>>

\* CMD_CODE_TOPO_EVENT "Switch"; nothing happens when there is no source.
SwitchEvent(t, v) ==
  /\ t # Eloop /\ Serves(t) /\ source \notin {v, None}
  /\ StartSwitch(t, v, "none")
  /\ UNCHANGED conn

\* HandleMediaStreamingChech(): no packet for some time.
Timeout == /\ Serves(Eloop) /\ media /\ source # None
           /\ \E i \in Viewer : TakesOver(i) /\ StartSwitch(Eloop, i, "disconnect")
           /\ UNCHANGED conn

-----------------------------------------------------------------------------
(* The thread of a viewer connection.                                      *)

\* ReturnViewerNode()
Return(v) == /\ Goto(v, "off")
             /\ primary' = [primary EXCEPT ![v] = FALSE]
             /\ started' = [started EXCEPT ![v] = FALSE]
             /\ connected' = [connected EXCEPT ![v] = FALSE]
             /\ UNCHANGED <<quit, source, media, job, history>>

ConnectFails(v) == conn[v] = "connecting" /\ Return(v)

\* CheckPassword() before HELLO: the first connection becomes the source.
CheckPassword(v) ==
  LET hasConnection == \E i \in Viewer : Using(i) /\ connected[i]
  IN /\ conn[v] = "connecting"
     /\ primary' = [primary EXCEPT ![v] = ~hasConnection]
     /\ source' = IF hasConnection THEN source ELSE v
     /\ rushed' = (rushed \/ (~hasConnection /\ \E w \in Viewer : conn[w] = "hello"))
     /\ Goto(v, "hello")
     /\ UNCHANGED <<connected, started, quit, media, job, late, absent, crossed, missed>>

\* The answer to HELLO; DoInConnection() is entered.
HelloAnswered(v) ==
  /\ conn[v] = "hello"
  /\ Goto(v, "begin")
  /\ connected' = [connected EXCEPT ![v] = TRUE]
  /\ late' = (late \/ (IF primary[v] THEN source # v ELSE source = None))
  /\ UNCHANGED <<primary, started, quit, source, media, job, rushed, absent, crossed, missed>>

HelloFails(v) == /\ conn[v] = "hello"
                 /\ Goto(v, "bye")
                 /\ UNCHANGED <<flags, source, media, job, history>>

\* A primary connection is told to stream.
Begin(v) == /\ conn[v] = "begin"
            /\ Goto(v, "loop")
            /\ started' = [started EXCEPT ![v] = @ \/ primary[v]]
            /\ quit' = [quit EXCEPT ![v] = FALSE]
            /\ UNCHANGED <<connected, primary, source, media, job, history>>

\* A packet, which may have been sent before AV_STOP, or CMD_CODE_END.
Packet(v) == /\ conn[v] = "loop" /\ job[v] = NoJob
             /\ media' \in BOOLEAN
             /\ UNCHANGED <<conn, flags, source, job, history>>

\* The connection breaks or is closed, or bQuitRecvSocketLoop is seen.
EndLoop(v) == /\ conn[v] = "loop" /\ job[v] = NoJob
              /\ Goto(v, "ended")
              /\ connected' = [connected EXCEPT ![v] = FALSE]
              /\ crossed' = (crossed \/ \E t \in Thread :
                               job[t].at = "switch" /\ job[t].new = v)
              /\ UNCHANGED <<primary, started, quit, source, media, job, rushed, late, absent,
                             missed>>

\* The rest of DoInConnection(): when no connection can take over, the flow may
\* be reported to the server.
Ended(v) ==
  /\ conn[v] = "ended" /\ job[v] = NoJob
  /\ \/ /\ source = v /\ \E i \in Viewer : TakesOver(i) /\ StartSwitch(v, i, "bye")
        /\ UNCHANGED conn
     \/ source = v /\ NobodyTakesOver /\ Scanned(v, v) /\ UNCHANGED conn
     \/ /\ source # v /\ Goto(v, "bye")
        /\ UNCHANGED <<flags, source, media, job, history>>

\* ... and then the source is reset.
ForgetSource(v) ==
  /\ job[v].at = "stop" /\ conn[v] = "ended"
  /\ ResetSource(v)
  /\ job' = [job EXCEPT ![v] = NoJob]
  /\ Goto(v, "bye")
  /\ UNCHANGED <<flags, media, rushed, late, absent, crossed>>

\* BYE, 3 s, the sockets are closed.
Bye(v) == conn[v] = "bye" /\ Return(v)

-----------------------------------------------------------------------------
Next == \/ Timeout
        \/ \E t \in Thread : EndSwitch(t) \/ StopSource(t) \/ Closed(t)
        \/ \E t \in Thread, v \in Viewer :
             ConnectNode(t, v) \/ DisconnectNode(t, v) \/ SwitchEvent(t, v)
        \/ \E v \in Viewer : \/ ConnectFails(v) \/ CheckPassword(v)
                             \/ HelloAnswered(v) \/ HelloFails(v) \/ Begin(v)
                             \/ Packet(v) \/ EndLoop(v) \/ Ended(v) \/ ForgetSource(v)
                             \/ Bye(v)

Spec == Init /\ [][Next]_vars

-----------------------------------------------------------------------------
(* What the lack of a lock may spoil, for good:                            *)
(*   rushed   two connections said HELLO at once while none was up;        *)
(*   late     the source a connection had found went, or the connection    *)
(*            was told to disconnect, before HELLO was answered;           *)
(*   absent   "Switch" came for a connection that was not up;              *)
(*   crossed  two threads switched at once, or the new source broke before *)
(*            the switch was over;                                         *)
(*   missed   the source was reset for want of a connection to take over,  *)
(*            and one had come up, or become the source, in the meantime.  *)
Spoiled == rushed \/ late \/ absent \/ crossed \/ missed

\* No thread is about to change the source.
Settled == /\ \A t \in Thread : job[t].at # "switch"
           /\ \A v \in Viewer : conn[v] \notin {"begin", "ended"}

\* While a connection is up that nobody wants to end, exactly one streams and is
\* the primary one, and it is the source: packets from another one are dropped.
\* The five cases above are all the exceptions there are.
SourceServes ==
  (Settled /\ ~Spoiled /\ \E v \in Viewer : conn[v] = "loop" /\ ~quit[v]) =>
     /\ source # None
     /\ \A v \in Viewer : conn[v] = "loop" => /\ started[v] <=> v = source
                                              /\ primary[v] <=> v = source
     /\ conn[source] = "loop"
=============================================================================
