-------------------------- MODULE MediaSourceProofs --------------------------
(***************************************************************************)
(* SourceServes for every number of viewer connections: IInv is inductive. *)
(* Its parts hold as long as none of the five cases of Spoiled has come.   *)
(***************************************************************************)
EXTENDS MediaSource, TLAPS

\* The connection is up.
Streams(v) == conn[v] \in {"begin", "loop"}

\* The thread that is within SwitchMediaSource() knows the source, and where it is
\* itself.
SwitchOK ==
  \A t \in Thread : job[t].at = "switch" =>
    /\ job[t].old = source /\ source \in Viewer
    /\ job[t].new \in Viewer /\ job[t].new # source /\ Streams(job[t].new)
    /\ job[t].then = "bye" => t \in Viewer /\ conn[t] = "ended"
    /\ started[job[t].new]
    /\ \A u \in Thread : job[u].at = "switch" => u = t

\* bConnected says that a connection is up; the other flags are not up before.
FlagsOK ==
  \A v \in Viewer :
    /\ connected[v] <=> Streams(v)
    /\ conn[v] \in {"off", "connecting", "hello"} => ~started[v]
    /\ conn[v] \in {"off", "connecting"} => ~primary[v]

\* While a connection is up, or about to be one of several, there is no source or
\* one that is up or will name its successor.
SourceAlive ==
  (\E v \in Viewer : Streams(v) \/ (conn[v] = "hello" /\ ~primary[v])) =>
     source = None \/ conn[source] \in {"begin", "loop", "ended"}

\* Without a source there are only connections that are told to end.
NoSourceOK == source = None => \A v \in Viewer : Streams(v) => conn[v] = "loop" /\ quit[v]

\* The first connection is alone until its HELLO is answered.
FirstOK == \A v \in Viewer : (conn[v] = "hello" /\ primary[v]) =>
             /\ source = v
             /\ \A w \in Viewer : w # v => conn[w] # "hello" /\ ~Streams(w)

\* Of the connections that are up, only the source is primary.
PrimaryOK == \A v \in Viewer : Streams(v) =>
               /\ primary[v] => source \in {v, None}
               /\ v = source => primary[v]

\* Of the connections that are up, the source streams, and nobody else but the one
\* that is about to become the source.
StartedOK == \A v \in Viewer :
  /\ Streams(v) /\ started[v] => v = source \/ \E t \in Thread : job[t].at = "switch"
                                                                   /\ job[t].new = v
  /\ conn[v] = "loop" /\ v = source => started[v]

Parts == SwitchOK /\ FlagsOK /\ SourceAlive /\ NoSourceOK /\ FirstOK /\ PrimaryOK /\ StartedOK
IInv == TypeOK /\ (~Spoiled => Parts)

-----------------------------------------------------------------------------
\* -1 is no index and the event loop thread no viewer's thread.
LEMMA NoneIsNoViewer == None \notin Viewer /\ Eloop \notin Viewer
BY DEF None, Eloop, Viewer

-----------------------------------------------------------------------------
(* SwitchMediaSource() and DisconnectNode() keep the invariant.             *)

\* A switch begins: its thread is the only one, and the new source is up.
LEMMA StartSwitchKeeps ==
  ASSUME IInv, NEW t \in Thread, NEW new \in Viewer,
         NEW then \in {"none", "bye", "quit", "disconnect"},
         job[t] = NoJob, source \notin {None, new},
         then = "bye" => t \in Viewer /\ conn[t] = "ended",
         StartSwitch(t, new, then), UNCHANGED conn
  PROVE  IInv'
<1> USE NoneIsNoViewer DEF IInv, StartSwitch, NoJob
<1>1. TypeOK'
  BY DEF TypeOK, Thread
<1>2. ASSUME ~Spoiled' PROVE Parts'
  <2>1. ~Spoiled /\ Parts /\ TypeOK
    BY <1>2 DEF Spoiled
  <2>2. SwitchOK'
    <3>1. Streams(new) /\ \A u \in Thread : job[u].at = "switch" => u = t
      BY <1>2, <2>1 DEF Parts, FlagsOK, Spoiled
    <3>2. job'[t] = [at |-> "switch", old |-> source, new |-> new, then |-> then]
      BY <2>1 DEF TypeOK
    <3>3. \A u \in Thread : job'[u].at = "switch" => u = t
      BY <2>1, <3>1 DEF TypeOK
    <3>4. started'[new] /\ source \in Viewer /\ UNCHANGED <<conn, source>>
      BY <2>1 DEF TypeOK
    <3>5. QED
      BY <3>1, <3>2, <3>3, <3>4 DEF SwitchOK, Streams
  <2>3. FlagsOK'
    <3>1. Streams(new) /\ \A v \in Viewer : v # new => started'[v] = started[v]
      BY <1>2, <2>1 DEF Parts, FlagsOK, Spoiled, TypeOK
    <3>2. QED
      BY <2>1, <3>1 DEF Parts, FlagsOK, Streams, TypeOK
  <2>4. SourceAlive'
    BY <1>2, <2>1
       DEF Parts, TypeOK, Thread, Spoiled, Streams, SourceAlive, SwitchOK, FlagsOK, FirstOK, PrimaryOK, NoSourceOK
  <2>5. NoSourceOK'
    BY <1>2, <2>1
       DEF Parts, TypeOK, Thread, Spoiled, Streams, NoSourceOK, SwitchOK, FlagsOK, PrimaryOK, SourceAlive, FirstOK
  <2>6. FirstOK'
    BY <1>2, <2>1
       DEF Parts, TypeOK, Thread, Spoiled, Streams, FirstOK, SwitchOK, FlagsOK
  <2>7. PrimaryOK'
    BY <1>2, <2>1
       DEF Parts, TypeOK, Thread, Spoiled, Streams, PrimaryOK, SwitchOK, FlagsOK, FirstOK, SourceAlive
  <2>8. StartedOK'
    BY <1>2, <2>1
       DEF Parts, TypeOK, Thread, Spoiled, Streams, StartedOK, SwitchOK, FlagsOK, PrimaryOK, NoSourceOK
  <2>9. QED
    BY <2>2, <2>3, <2>4, <2>5, <2>6, <2>7, <2>8 DEF Parts
<1>3. QED
  BY <1>1, <1>2

\* The source is reset and its connection told to end, when nobody was found to take
\* over and nobody can now; or there has been no source any more.
LEMMA StopSourceKeeps ==
  ASSUME IInv, NEW t \in Thread, StopSource(t)
  PROVE  IInv'
<1> DEFINE v == job[t].old
<1> USE NoneIsNoViewer DEF IInv, StopSource, ResetSource, NobodyTakesOver, CanTakeOver, Using, Drop,
        NoJob
<1>1. TypeOK'
  BY DEF TypeOK, Thread
<1>2. ASSUME ~Spoiled' PROVE Parts'
  <2>1. ~Spoiled /\ Parts /\ TypeOK
    BY <1>2 DEF Spoiled
  <2>2. SwitchOK'
    BY <1>2, <2>1
       DEF Parts, TypeOK, Thread, Spoiled, Streams, SwitchOK, FlagsOK, PrimaryOK, NoSourceOK, StartedOK, FirstOK
  <2>3. FlagsOK'
    BY <1>2, <2>1 DEF Parts, TypeOK, Thread, Spoiled, Streams, FlagsOK, SwitchOK
  <2>4. SourceAlive'
    BY <1>2, <2>1
       DEF Parts, TypeOK, Thread, Spoiled, Streams, SourceAlive, SwitchOK, FlagsOK, FirstOK, PrimaryOK, NoSourceOK
  <2>5. NoSourceOK'
    BY <1>2, <2>1
       DEF Parts, TypeOK, Thread, Spoiled, Streams, NoSourceOK, SwitchOK, FlagsOK, PrimaryOK, SourceAlive, FirstOK
  <2>6. FirstOK'
    BY <1>2, <2>1
       DEF Parts, TypeOK, Thread, Spoiled, Streams, FirstOK, SwitchOK, FlagsOK
  <2>7. PrimaryOK'
    BY <1>2, <2>1
       DEF Parts, TypeOK, Thread, Spoiled, Streams, PrimaryOK, SwitchOK, FlagsOK, FirstOK, SourceAlive
  <2>8. StartedOK'
    BY <1>2, <2>1
       DEF Parts, TypeOK, Thread, Spoiled, Streams, StartedOK, SwitchOK, FlagsOK, PrimaryOK, NoSourceOK
  <2>9. QED
    BY <2>2, <2>3, <2>4, <2>5, <2>6, <2>7, <2>8 DEF Parts
<1>3. QED
  BY <1>1, <1>2

\* A connection that is not the source is disconnected.
LEMMA DropKeeps ==
  ASSUME IInv, NEW t \in Thread, NEW v \in Viewer, Serves(t), Drop(t, v),
         UNCHANGED <<conn, connected, primary, started, source, media, history>>
  PROVE  IInv'
<1> USE NoneIsNoViewer DEF IInv, Serves, Drop, NoJob, history
<1>1. TypeOK'
  BY DEF TypeOK, Thread
<1>2. ASSUME ~Spoiled' PROVE Parts'
  <2>1. ~Spoiled /\ Parts /\ TypeOK
    BY <1>2 DEF Spoiled
  <2>2. SwitchOK'
    BY <1>2, <2>1
       DEF Parts, TypeOK, Thread, Spoiled, Streams, SwitchOK, FlagsOK, PrimaryOK, NoSourceOK, StartedOK, FirstOK
  <2>3. FlagsOK'
    BY <1>2, <2>1 DEF Parts, TypeOK, Thread, Spoiled, Streams, FlagsOK, SwitchOK
  <2>4. SourceAlive'
    BY <1>2, <2>1
       DEF Parts, TypeOK, Thread, Spoiled, Streams, SourceAlive, SwitchOK, FlagsOK, FirstOK, PrimaryOK, NoSourceOK
  <2>5. NoSourceOK'
    BY <1>2, <2>1
       DEF Parts, TypeOK, Thread, Spoiled, Streams, NoSourceOK, SwitchOK, FlagsOK, PrimaryOK, SourceAlive, FirstOK
  <2>6. FirstOK'
    BY <1>2, <2>1
       DEF Parts, TypeOK, Thread, Spoiled, Streams, FirstOK, SwitchOK, FlagsOK
  <2>7. PrimaryOK'
    BY <1>2, <2>1
       DEF Parts, TypeOK, Thread, Spoiled, Streams, PrimaryOK, SwitchOK, FlagsOK, FirstOK, SourceAlive
  <2>8. StartedOK'
    BY <1>2, <2>1
       DEF Parts, TypeOK, Thread, Spoiled, Streams, StartedOK, SwitchOK, FlagsOK, PrimaryOK, NoSourceOK
  <2>9. QED
    BY <2>2, <2>3, <2>4, <2>5, <2>6, <2>7, <2>8 DEF Parts
<1>3. QED
  BY <1>1, <1>2

\* Nobody is found to take over from the source.
LEMMA ScannedKeeps ==
  ASSUME IInv, NEW t \in Thread, NEW v \in Viewer, job[t] = NoJob, Scanned(t, v),
         UNCHANGED conn
  PROVE  IInv'
<1> USE NoneIsNoViewer DEF IInv, Scanned, NoJob, flags, history
<1>1. TypeOK'
  BY DEF TypeOK, Thread
<1>2. ASSUME ~Spoiled' PROVE Parts'
  <2>1. ~Spoiled /\ Parts /\ TypeOK
    BY <1>2 DEF Spoiled
  <2>2. SwitchOK'
    BY <1>2, <2>1
       DEF Parts, TypeOK, Thread, Spoiled, Streams, SwitchOK, FlagsOK, PrimaryOK, NoSourceOK, StartedOK, FirstOK
  <2>3. FlagsOK'
    BY <1>2, <2>1 DEF Parts, TypeOK, Thread, Spoiled, Streams, FlagsOK, SwitchOK
  <2>4. SourceAlive'
    BY <1>2, <2>1
       DEF Parts, TypeOK, Thread, Spoiled, Streams, SourceAlive, SwitchOK, FlagsOK, FirstOK, PrimaryOK, NoSourceOK
  <2>5. NoSourceOK'
    BY <1>2, <2>1
       DEF Parts, TypeOK, Thread, Spoiled, Streams, NoSourceOK, SwitchOK, FlagsOK, PrimaryOK, SourceAlive, FirstOK
  <2>6. FirstOK'
    BY <1>2, <2>1
       DEF Parts, TypeOK, Thread, Spoiled, Streams, FirstOK, SwitchOK, FlagsOK
  <2>7. PrimaryOK'
    BY <1>2, <2>1
       DEF Parts, TypeOK, Thread, Spoiled, Streams, PrimaryOK, SwitchOK, FlagsOK, FirstOK, SourceAlive
  <2>8. StartedOK'
    BY <1>2, <2>1
       DEF Parts, TypeOK, Thread, Spoiled, Streams, StartedOK, SwitchOK, FlagsOK, PrimaryOK, NoSourceOK
  <2>9. QED
    BY <2>2, <2>3, <2>4, <2>5, <2>6, <2>7, <2>8 DEF Parts
<1>3. QED
  BY <1>1, <1>2

LEMMA DisconnectNodeKeeps ==
  ASSUME IInv, NEW t \in Thread, NEW v \in Viewer, DisconnectNode(t, v)
  PROVE  IInv'
<1>1. Serves(t) /\ job[t] = NoJob /\ v # None /\ (t = Eloop => connected[v]) /\ UNCHANGED conn
  BY NoneIsNoViewer DEF DisconnectNode, Serves
<1>2. CASE source = v /\ \E i \in Viewer : TakesOver(i) /\ StartSwitch(t, i, "quit")
  <2>1. PICK i \in Viewer : TakesOver(i) /\ StartSwitch(t, i, "quit")
    BY <1>2
  <2>2. source \notin {None, i}
    BY <1>1, <1>2, <2>1 DEF TakesOver, CanTakeOver
  <2>3. QED
    BY <1>1, <2>1, <2>2, StartSwitchKeeps
<1>3. CASE source = v /\ NobodyTakesOver /\ Scanned(t, v)
  BY <1>1, <1>3, ScannedKeeps
<1>4. CASE /\ source # v
           /\ Drop(t, v)
           /\ UNCHANGED <<connected, primary, started, source, media, history>>
  BY <1>1, <1>4, DropKeeps
<1>5. QED
  BY <1>2, <1>3, <1>4 DEF DisconnectNode

LEMMA SwitchEventKeeps ==
  ASSUME IInv, NEW t \in Thread, NEW v \in Viewer, SwitchEvent(t, v)
  PROVE  IInv'
BY StartSwitchKeeps DEF SwitchEvent, Serves

LEMMA TimeoutKeeps ==
  ASSUME IInv, Timeout
  PROVE  IInv'
<1>1. PICK i \in Viewer : TakesOver(i) /\ StartSwitch(Eloop, i, "disconnect")
  BY DEF Timeout
<1>2. job[Eloop] = NoJob /\ source \notin {None, i} /\ UNCHANGED conn
  BY <1>1 DEF Timeout, Serves, TakesOver, CanTakeOver
<1>3. QED
  BY <1>1, <1>2, StartSwitchKeeps DEF Thread

\* A thread ends whose connection is not the source, or has no successor.
LEMMA LeaveKeeps ==
  ASSUME IInv, NEW v \in Viewer, conn[v] = "ended", job[v].at # "switch",
         Goto(v, "bye"), UNCHANGED <<flags, media>>, job' = [job EXCEPT ![v] = NoJob],
         UNCHANGED <<rushed, late, absent, crossed>>,
         missed' \in BOOLEAN, missed => missed',
         \/ missed' /\ source' \in {source, None}
         \/ source # v /\ UNCHANGED source
         \/ source = v /\ NobodyTakesOver /\ source' = None
  PROVE  IInv'
<1> USE NoneIsNoViewer DEF IInv, NobodyTakesOver, CanTakeOver, Using, Goto, NoJob, flags
<1>1. TypeOK'
  BY DEF TypeOK, Thread
<1>2. ASSUME ~Spoiled' PROVE Parts'
  <2>1. ~Spoiled /\ Parts /\ TypeOK
    BY <1>2 DEF Spoiled
  <2>2. SwitchOK'
    BY <1>2, <2>1
       DEF Parts, TypeOK, Thread, Spoiled, Streams, SwitchOK, FlagsOK, PrimaryOK, NoSourceOK, StartedOK, FirstOK
  <2>3. FlagsOK'
    BY <1>2, <2>1 DEF Parts, TypeOK, Thread, Spoiled, Streams, FlagsOK, SwitchOK
  <2>4. SourceAlive'
    BY <1>2, <2>1
       DEF Parts, TypeOK, Thread, Spoiled, Streams, SourceAlive, SwitchOK, FlagsOK, FirstOK, PrimaryOK, NoSourceOK
  <2>5. NoSourceOK'
    BY <1>2, <2>1
       DEF Parts, TypeOK, Thread, Spoiled, Streams, NoSourceOK, SwitchOK, FlagsOK, PrimaryOK, SourceAlive, FirstOK
  <2>6. FirstOK'
    BY <1>2, <2>1
       DEF Parts, TypeOK, Thread, Spoiled, Streams, FirstOK, SwitchOK, FlagsOK
  <2>7. PrimaryOK'
    BY <1>2, <2>1
       DEF Parts, TypeOK, Thread, Spoiled, Streams, PrimaryOK, SwitchOK, FlagsOK, FirstOK, SourceAlive
  <2>8. StartedOK'
    BY <1>2, <2>1
       DEF Parts, TypeOK, Thread, Spoiled, Streams, StartedOK, SwitchOK, FlagsOK, PrimaryOK, NoSourceOK
  <2>9. QED
    BY <2>2, <2>3, <2>4, <2>5, <2>6, <2>7, <2>8 DEF Parts
<1>3. QED
  BY <1>1, <1>2

LEMMA EndedKeeps ==
  ASSUME IInv, NEW v \in Viewer, Ended(v)
  PROVE  IInv'
<1>1. conn[v] = "ended" /\ job[v] = NoJob /\ v # None
  BY NoneIsNoViewer DEF Ended
<1>2. CASE /\ source = v /\ \E i \in Viewer : TakesOver(i) /\ StartSwitch(v, i, "bye")
           /\ UNCHANGED conn
  <2>1. PICK i \in Viewer : TakesOver(i) /\ StartSwitch(v, i, "bye")
    BY <1>2
  <2>2. source \notin {None, i}
    BY <1>1, <1>2, <2>1 DEF TakesOver, CanTakeOver
  <2>3. QED
    BY <1>1, <1>2, <2>1, <2>2, StartSwitchKeeps DEF Thread
<1>3. CASE source = v /\ NobodyTakesOver /\ Scanned(v, v) /\ UNCHANGED conn
  BY <1>1, <1>3, ScannedKeeps DEF Thread
<1>4. CASE /\ source # v /\ Goto(v, "bye")
           /\ UNCHANGED <<flags, source, media, job, history>>
  <2>1. job[v].at # "switch" /\ job' = [job EXCEPT ![v] = NoJob] /\ missed \in BOOLEAN
    BY <1>1, <1>4 DEF NoJob, IInv, TypeOK, Thread
  <2>2. QED
    BY <1>1, <1>4, <2>1, LeaveKeeps DEF history
<1>5. QED
  BY <1>2, <1>3, <1>4 DEF Ended

LEMMA ForgetSourceKeeps ==
  ASSUME IInv, NEW v \in Viewer, ForgetSource(v)
  PROVE  IInv'
<1>1. missed' = (\/ missed
                 \/ source \notin {v, None}
                 \/ source = v /\ ~NobodyTakesOver) /\ missed \in BOOLEAN
  BY DEF ForgetSource, ResetSource, IInv, TypeOK
<1>2. CASE missed'
  BY <1>1, <1>2, LeaveKeeps DEF ForgetSource, ResetSource
<1>3. CASE ~missed' /\ source = None
  BY <1>1, <1>3, NoneIsNoViewer, LeaveKeeps DEF ForgetSource, ResetSource
<1>4. CASE ~missed' /\ source # None
  BY <1>1, <1>4, LeaveKeeps DEF ForgetSource, ResetSource
<1>5. QED
  BY <1>2, <1>3, <1>4

-----------------------------------------------------------------------------
(* The other actions.                                                      *)

LEMMA EndSwitchKeeps ==
  ASSUME IInv, NEW t \in Thread, EndSwitch(t)
  PROVE  IInv'
<1> USE NoneIsNoViewer DEF IInv, EndSwitch, Goto, NoJob, history, Using
<1>1. TypeOK'
  BY DEF TypeOK, Thread
<1>2. ASSUME ~Spoiled' PROVE Parts'
  <2>1. ~Spoiled /\ Parts /\ TypeOK
    BY <1>2 DEF Spoiled
  <2>2. SwitchOK'
    BY <1>2, <2>1
       DEF Parts, TypeOK, Thread, Spoiled, Streams, SwitchOK, FlagsOK, PrimaryOK, NoSourceOK, StartedOK, FirstOK
  <2>3. FlagsOK'
    BY <1>2, <2>1 DEF Parts, TypeOK, Thread, Spoiled, Streams, FlagsOK, SwitchOK
  <2>4. SourceAlive'
    BY <1>2, <2>1
       DEF Parts, TypeOK, Thread, Spoiled, Streams, SourceAlive, SwitchOK, FlagsOK, FirstOK, PrimaryOK, NoSourceOK
  <2>5. NoSourceOK'
    <3>1. source' # None
      BY <2>1 DEF Parts, SwitchOK
    <3>2. QED
      BY <3>1 DEF NoSourceOK
  <2>6. FirstOK'
    BY <1>2, <2>1
       DEF Parts, TypeOK, Thread, Spoiled, Streams, FirstOK, SwitchOK, FlagsOK
  <2>7. PrimaryOK'
    BY <1>2, <2>1
       DEF Parts, TypeOK, Thread, Spoiled, Streams, PrimaryOK, SwitchOK, FlagsOK, FirstOK, SourceAlive
  <2>8. StartedOK'
    BY <1>2, <2>1
       DEF Parts, TypeOK, Thread, Spoiled, Streams, StartedOK, SwitchOK, FlagsOK, PrimaryOK, NoSourceOK
  <2>9. QED
    BY <2>2, <2>3, <2>4, <2>5, <2>6, <2>7, <2>8 DEF Parts
<1>3. QED
  BY <1>1, <1>2

LEMMA ClosedKeeps ==
  ASSUME IInv, NEW t \in Thread, Closed(t)
  PROVE  IInv'
<1> USE NoneIsNoViewer DEF IInv, Closed, NoJob, flags, history
<1>1. TypeOK'
  BY DEF TypeOK, Thread
<1>2. ASSUME ~Spoiled' PROVE Parts'
  <2>1. ~Spoiled /\ Parts /\ TypeOK
    BY <1>2 DEF Spoiled
  <2>2. SwitchOK'
    BY <1>2, <2>1
       DEF Parts, TypeOK, Thread, Spoiled, Streams, SwitchOK, FlagsOK, PrimaryOK, NoSourceOK, StartedOK, FirstOK
  <2>3. FlagsOK'
    BY <1>2, <2>1 DEF Parts, TypeOK, Thread, Spoiled, Streams, FlagsOK, SwitchOK
  <2>4. SourceAlive'
    BY <1>2, <2>1
       DEF Parts, TypeOK, Thread, Spoiled, Streams, SourceAlive, SwitchOK, FlagsOK, FirstOK, PrimaryOK, NoSourceOK
  <2>5. NoSourceOK'
    BY <1>2, <2>1
       DEF Parts, TypeOK, Thread, Spoiled, Streams, NoSourceOK, SwitchOK, FlagsOK, PrimaryOK, SourceAlive, FirstOK
  <2>6. FirstOK'
    BY <1>2, <2>1
       DEF Parts, TypeOK, Thread, Spoiled, Streams, FirstOK, SwitchOK, FlagsOK
  <2>7. PrimaryOK'
    BY <1>2, <2>1
       DEF Parts, TypeOK, Thread, Spoiled, Streams, PrimaryOK, SwitchOK, FlagsOK, FirstOK, SourceAlive
  <2>8. StartedOK'
    BY <1>2, <2>1
       DEF Parts, TypeOK, Thread, Spoiled, Streams, StartedOK, SwitchOK, FlagsOK, PrimaryOK, NoSourceOK
  <2>9. QED
    BY <2>2, <2>3, <2>4, <2>5, <2>6, <2>7, <2>8 DEF Parts
<1>3. QED
  BY <1>1, <1>2

LEMMA ConnectNodeKeeps ==
  ASSUME IInv, NEW t \in Thread, NEW v \in Viewer, ConnectNode(t, v)
  PROVE  IInv'
<1> USE NoneIsNoViewer DEF IInv, ConnectNode, Serves, Using, Goto, NoJob, history
<1>1. TypeOK'
  BY DEF TypeOK, Thread
<1>2. ASSUME ~Spoiled' PROVE Parts'
  <2>1. ~Spoiled /\ Parts /\ TypeOK
    BY <1>2 DEF Spoiled
  <2>2. SwitchOK'
    BY <1>2, <2>1
       DEF Parts, TypeOK, Thread, Spoiled, Streams, SwitchOK, FlagsOK, PrimaryOK, NoSourceOK, StartedOK, FirstOK
  <2>3. FlagsOK'
    BY <1>2, <2>1 DEF Parts, TypeOK, Thread, Spoiled, Streams, FlagsOK, SwitchOK
  <2>4. SourceAlive'
    BY <1>2, <2>1
       DEF Parts, TypeOK, Thread, Spoiled, Streams, SourceAlive, SwitchOK, FlagsOK, FirstOK, PrimaryOK, NoSourceOK
  <2>5. NoSourceOK'
    BY <1>2, <2>1
       DEF Parts, TypeOK, Thread, Spoiled, Streams, NoSourceOK, SwitchOK, FlagsOK, PrimaryOK, SourceAlive, FirstOK
  <2>6. FirstOK'
    BY <1>2, <2>1
       DEF Parts, TypeOK, Thread, Spoiled, Streams, FirstOK, SwitchOK, FlagsOK
  <2>7. PrimaryOK'
    BY <1>2, <2>1
       DEF Parts, TypeOK, Thread, Spoiled, Streams, PrimaryOK, SwitchOK, FlagsOK, FirstOK, SourceAlive
  <2>8. StartedOK'
    BY <1>2, <2>1
       DEF Parts, TypeOK, Thread, Spoiled, Streams, StartedOK, SwitchOK, FlagsOK, PrimaryOK, NoSourceOK
  <2>9. QED
    BY <2>2, <2>3, <2>4, <2>5, <2>6, <2>7, <2>8 DEF Parts
<1>3. QED
  BY <1>1, <1>2

LEMMA ConnectFailsKeeps ==
  ASSUME IInv, NEW v \in Viewer, ConnectFails(v)
  PROVE  IInv'
<1> USE NoneIsNoViewer DEF IInv, ConnectFails, Return, Goto, history
<1>1. TypeOK'
  BY DEF TypeOK, Thread
<1>2. ASSUME ~Spoiled' PROVE Parts'
  <2>1. ~Spoiled /\ Parts /\ TypeOK
    BY <1>2 DEF Spoiled
  <2>2. SwitchOK'
    BY <1>2, <2>1
       DEF Parts, TypeOK, Thread, Spoiled, Streams, SwitchOK, FlagsOK, PrimaryOK, NoSourceOK, StartedOK, FirstOK
  <2>3. FlagsOK'
    BY <1>2, <2>1 DEF Parts, TypeOK, Thread, Spoiled, Streams, FlagsOK, SwitchOK
  <2>4. SourceAlive'
    BY <1>2, <2>1
       DEF Parts, TypeOK, Thread, Spoiled, Streams, SourceAlive, SwitchOK, FlagsOK, FirstOK, PrimaryOK, NoSourceOK
  <2>5. NoSourceOK'
    BY <1>2, <2>1
       DEF Parts, TypeOK, Thread, Spoiled, Streams, NoSourceOK, SwitchOK, FlagsOK, PrimaryOK, SourceAlive, FirstOK
  <2>6. FirstOK'
    BY <1>2, <2>1
       DEF Parts, TypeOK, Thread, Spoiled, Streams, FirstOK, SwitchOK, FlagsOK
  <2>7. PrimaryOK'
    BY <1>2, <2>1
       DEF Parts, TypeOK, Thread, Spoiled, Streams, PrimaryOK, SwitchOK, FlagsOK, FirstOK, SourceAlive
  <2>8. StartedOK'
    BY <1>2, <2>1
       DEF Parts, TypeOK, Thread, Spoiled, Streams, StartedOK, SwitchOK, FlagsOK, PrimaryOK, NoSourceOK
  <2>9. QED
    BY <2>2, <2>3, <2>4, <2>5, <2>6, <2>7, <2>8 DEF Parts
<1>3. QED
  BY <1>1, <1>2

LEMMA CheckPasswordKeeps ==
  ASSUME IInv, NEW v \in Viewer, CheckPassword(v)
  PROVE  IInv'
<1> USE NoneIsNoViewer DEF IInv, CheckPassword, Goto, Using
<1>1. TypeOK'
  BY DEF TypeOK, Thread
<1>2. ASSUME ~Spoiled' PROVE Parts'
  <2>1. ~Spoiled /\ Parts /\ TypeOK
    BY <1>2 DEF Spoiled
  <2>2. SwitchOK'
    BY <1>2, <2>1
       DEF Parts, TypeOK, Thread, Spoiled, Streams, SwitchOK, FlagsOK, PrimaryOK, NoSourceOK, StartedOK, FirstOK
  <2>3. FlagsOK'
    BY <1>2, <2>1 DEF Parts, TypeOK, Thread, Spoiled, Streams, FlagsOK, SwitchOK
  <2>4. SourceAlive'
    <3>1. CASE \E i \in Viewer : Using(i) /\ connected[i]
      <4>1. source' = source /\ (source = None \/ conn[source] \in {"begin", "loop", "ended"})
        BY <2>1, <3>1 DEF Parts, FlagsOK, SourceAlive, TypeOK
      <4>2. QED
        BY <2>1, <4>1 DEF SourceAlive, TypeOK
    <3>2. CASE ~\E i \in Viewer : Using(i) /\ connected[i]
      <4>1. \A w \in Viewer : conn[w] # "hello" /\ ~Streams(w)
        BY <1>2, <2>1, <3>2 DEF Parts, FlagsOK, Streams, Spoiled
      <4>2. primary'[v] /\ conn'[v] = "hello" /\ \A w \in Viewer : w # v => conn'[w] = conn[w]
        BY <2>1, <3>2 DEF TypeOK
      <4>3. QED
        BY <4>1, <4>2 DEF SourceAlive, Streams
    <3>3. QED
      BY <3>1, <3>2
  <2>5. NoSourceOK'
    BY <1>2, <2>1
       DEF Parts, TypeOK, Thread, Spoiled, Streams, NoSourceOK, SwitchOK, FlagsOK, PrimaryOK, SourceAlive, FirstOK
  <2>6. FirstOK'
    BY <1>2, <2>1
       DEF Parts, TypeOK, Thread, Spoiled, Streams, FirstOK, SwitchOK, FlagsOK
  <2>7. PrimaryOK'
    BY <1>2, <2>1
       DEF Parts, TypeOK, Thread, Spoiled, Streams, PrimaryOK, SwitchOK, FlagsOK, FirstOK, SourceAlive
  <2>8. StartedOK'
    BY <1>2, <2>1
       DEF Parts, TypeOK, Thread, Spoiled, Streams, StartedOK, SwitchOK, FlagsOK, PrimaryOK, NoSourceOK
  <2>9. QED
    BY <2>2, <2>3, <2>4, <2>5, <2>6, <2>7, <2>8 DEF Parts
<1>3. QED
  BY <1>1, <1>2

LEMMA HelloAnsweredKeeps ==
  ASSUME IInv, NEW v \in Viewer, HelloAnswered(v)
  PROVE  IInv'
<1> USE NoneIsNoViewer DEF IInv, HelloAnswered, Goto
<1>1. TypeOK'
  BY DEF TypeOK, Thread
<1>2. ASSUME ~Spoiled' PROVE Parts'
  <2>1. ~Spoiled /\ Parts /\ TypeOK
    BY <1>2 DEF Spoiled
  <2>2. SwitchOK'
    BY <1>2, <2>1
       DEF Parts, TypeOK, Thread, Spoiled, Streams, SwitchOK, FlagsOK, PrimaryOK, NoSourceOK, StartedOK, FirstOK
  <2>3. FlagsOK'
    BY <1>2, <2>1 DEF Parts, TypeOK, Thread, Spoiled, Streams, FlagsOK, SwitchOK
  <2>4. SourceAlive'
    BY <1>2, <2>1
       DEF Parts, TypeOK, Thread, Spoiled, Streams, SourceAlive, SwitchOK, FlagsOK, FirstOK, PrimaryOK, NoSourceOK
  <2>5. NoSourceOK'
    <3>1. source # None
      BY <1>2, <2>1 DEF Parts, FirstOK, Spoiled
    <3>2. QED
      BY <3>1 DEF NoSourceOK
  <2>6. FirstOK'
    BY <1>2, <2>1
       DEF Parts, TypeOK, Thread, Spoiled, Streams, FirstOK, SwitchOK, FlagsOK
  <2>7. PrimaryOK'
    BY <1>2, <2>1
       DEF Parts, TypeOK, Thread, Spoiled, Streams, PrimaryOK, SwitchOK, FlagsOK, FirstOK, SourceAlive
  <2>8. StartedOK'
    BY <1>2, <2>1
       DEF Parts, TypeOK, Thread, Spoiled, Streams, StartedOK, SwitchOK, FlagsOK, PrimaryOK, NoSourceOK
  <2>9. QED
    BY <2>2, <2>3, <2>4, <2>5, <2>6, <2>7, <2>8 DEF Parts
<1>3. QED
  BY <1>1, <1>2

LEMMA HelloFailsKeeps ==
  ASSUME IInv, NEW v \in Viewer, HelloFails(v)
  PROVE  IInv'
<1> USE NoneIsNoViewer DEF IInv, HelloFails, Goto, flags, history
<1>1. TypeOK'
  BY DEF TypeOK, Thread
<1>2. ASSUME ~Spoiled' PROVE Parts'
  <2>1. ~Spoiled /\ Parts /\ TypeOK
    BY <1>2 DEF Spoiled
  <2>2. SwitchOK'
    BY <1>2, <2>1
       DEF Parts, TypeOK, Thread, Spoiled, Streams, SwitchOK, FlagsOK, PrimaryOK, NoSourceOK, StartedOK, FirstOK
  <2>3. FlagsOK'
    BY <1>2, <2>1 DEF Parts, TypeOK, Thread, Spoiled, Streams, FlagsOK, SwitchOK
  <2>4. SourceAlive'
    BY <1>2, <2>1
       DEF Parts, TypeOK, Thread, Spoiled, Streams, SourceAlive, SwitchOK, FlagsOK, FirstOK, PrimaryOK, NoSourceOK
  <2>5. NoSourceOK'
    BY <1>2, <2>1
       DEF Parts, TypeOK, Thread, Spoiled, Streams, NoSourceOK, SwitchOK, FlagsOK, PrimaryOK, SourceAlive, FirstOK
  <2>6. FirstOK'
    BY <1>2, <2>1
       DEF Parts, TypeOK, Thread, Spoiled, Streams, FirstOK, SwitchOK, FlagsOK
  <2>7. PrimaryOK'
    BY <1>2, <2>1
       DEF Parts, TypeOK, Thread, Spoiled, Streams, PrimaryOK, SwitchOK, FlagsOK, FirstOK, SourceAlive
  <2>8. StartedOK'
    BY <1>2, <2>1
       DEF Parts, TypeOK, Thread, Spoiled, Streams, StartedOK, SwitchOK, FlagsOK, PrimaryOK, NoSourceOK
  <2>9. QED
    BY <2>2, <2>3, <2>4, <2>5, <2>6, <2>7, <2>8 DEF Parts
<1>3. QED
  BY <1>1, <1>2

LEMMA BeginKeeps ==
  ASSUME IInv, NEW v \in Viewer, Begin(v)
  PROVE  IInv'
<1> USE NoneIsNoViewer DEF IInv, Begin, Goto, history
<1>1. TypeOK'
  BY DEF TypeOK, Thread
<1>2. ASSUME ~Spoiled' PROVE Parts'
  <2>1. ~Spoiled /\ Parts /\ TypeOK
    BY <1>2 DEF Spoiled
  <2>2. SwitchOK'
    BY <1>2, <2>1
       DEF Parts, TypeOK, Thread, Spoiled, Streams, SwitchOK, FlagsOK, PrimaryOK, NoSourceOK, StartedOK, FirstOK
  <2>3. FlagsOK'
    BY <1>2, <2>1 DEF Parts, TypeOK, Thread, Spoiled, Streams, FlagsOK, SwitchOK
  <2>4. SourceAlive'
    BY <1>2, <2>1
       DEF Parts, TypeOK, Thread, Spoiled, Streams, SourceAlive, SwitchOK, FlagsOK, FirstOK, PrimaryOK, NoSourceOK
  <2>5. NoSourceOK'
    BY <1>2, <2>1
       DEF Parts, TypeOK, Thread, Spoiled, Streams, NoSourceOK, SwitchOK, FlagsOK, PrimaryOK, SourceAlive, FirstOK
  <2>6. FirstOK'
    BY <1>2, <2>1
       DEF Parts, TypeOK, Thread, Spoiled, Streams, FirstOK, SwitchOK, FlagsOK
  <2>7. PrimaryOK'
    BY <1>2, <2>1
       DEF Parts, TypeOK, Thread, Spoiled, Streams, PrimaryOK, SwitchOK, FlagsOK, FirstOK, SourceAlive
  <2>8. StartedOK'
    BY <1>2, <2>1
       DEF Parts, TypeOK, Thread, Spoiled, Streams, StartedOK, SwitchOK, FlagsOK, PrimaryOK, NoSourceOK
  <2>9. QED
    BY <2>2, <2>3, <2>4, <2>5, <2>6, <2>7, <2>8 DEF Parts
<1>3. QED
  BY <1>1, <1>2

LEMMA PacketKeeps ==
  ASSUME IInv, NEW v \in Viewer, Packet(v)
  PROVE  IInv'
<1> USE NoneIsNoViewer DEF IInv, Packet, flags, history
<1>1. TypeOK'
  BY DEF TypeOK, Thread
<1>2. ASSUME ~Spoiled' PROVE Parts'
  <2>1. ~Spoiled /\ Parts /\ TypeOK
    BY <1>2 DEF Spoiled
  <2>2. SwitchOK'
    BY <1>2, <2>1
       DEF Parts, TypeOK, Thread, Spoiled, Streams, SwitchOK, FlagsOK, PrimaryOK, NoSourceOK, StartedOK, FirstOK
  <2>3. FlagsOK'
    BY <1>2, <2>1 DEF Parts, TypeOK, Thread, Spoiled, Streams, FlagsOK, SwitchOK
  <2>4. SourceAlive'
    BY <1>2, <2>1
       DEF Parts, TypeOK, Thread, Spoiled, Streams, SourceAlive, SwitchOK, FlagsOK, FirstOK, PrimaryOK, NoSourceOK
  <2>5. NoSourceOK'
    BY <1>2, <2>1
       DEF Parts, TypeOK, Thread, Spoiled, Streams, NoSourceOK, SwitchOK, FlagsOK, PrimaryOK, SourceAlive, FirstOK
  <2>6. FirstOK'
    BY <1>2, <2>1
       DEF Parts, TypeOK, Thread, Spoiled, Streams, FirstOK, SwitchOK, FlagsOK
  <2>7. PrimaryOK'
    BY <1>2, <2>1
       DEF Parts, TypeOK, Thread, Spoiled, Streams, PrimaryOK, SwitchOK, FlagsOK, FirstOK, SourceAlive
  <2>8. StartedOK'
    BY <1>2, <2>1
       DEF Parts, TypeOK, Thread, Spoiled, Streams, StartedOK, SwitchOK, FlagsOK, PrimaryOK, NoSourceOK
  <2>9. QED
    BY <2>2, <2>3, <2>4, <2>5, <2>6, <2>7, <2>8 DEF Parts
<1>3. QED
  BY <1>1, <1>2

LEMMA EndLoopKeeps ==
  ASSUME IInv, NEW v \in Viewer, EndLoop(v)
  PROVE  IInv'
<1> USE NoneIsNoViewer DEF IInv, EndLoop, Goto, NoJob
<1>1. TypeOK'
  BY DEF TypeOK, Thread
<1>2. ASSUME ~Spoiled' PROVE Parts'
  <2>1. ~Spoiled /\ Parts /\ TypeOK
    BY <1>2 DEF Spoiled
  <2>2. SwitchOK'
    BY <1>2, <2>1
       DEF Parts, TypeOK, Thread, Spoiled, Streams, SwitchOK, FlagsOK, PrimaryOK, NoSourceOK, StartedOK, FirstOK
  <2>3. FlagsOK'
    BY <1>2, <2>1 DEF Parts, TypeOK, Thread, Spoiled, Streams, FlagsOK, SwitchOK
  <2>4. SourceAlive'
    BY <1>2, <2>1
       DEF Parts, TypeOK, Thread, Spoiled, Streams, SourceAlive, SwitchOK, FlagsOK, FirstOK, PrimaryOK, NoSourceOK
  <2>5. NoSourceOK'
    BY <1>2, <2>1
       DEF Parts, TypeOK, Thread, Spoiled, Streams, NoSourceOK, SwitchOK, FlagsOK, PrimaryOK, SourceAlive, FirstOK
  <2>6. FirstOK'
    BY <1>2, <2>1
       DEF Parts, TypeOK, Thread, Spoiled, Streams, FirstOK, SwitchOK, FlagsOK
  <2>7. PrimaryOK'
    BY <1>2, <2>1
       DEF Parts, TypeOK, Thread, Spoiled, Streams, PrimaryOK, SwitchOK, FlagsOK, FirstOK, SourceAlive
  <2>8. StartedOK'
    BY <1>2, <2>1
       DEF Parts, TypeOK, Thread, Spoiled, Streams, StartedOK, SwitchOK, FlagsOK, PrimaryOK, NoSourceOK
  <2>9. QED
    BY <2>2, <2>3, <2>4, <2>5, <2>6, <2>7, <2>8 DEF Parts
<1>3. QED
  BY <1>1, <1>2

LEMMA ByeKeeps ==
  ASSUME IInv, NEW v \in Viewer, Bye(v)
  PROVE  IInv'
<1> USE NoneIsNoViewer DEF IInv, Bye, Return, Goto, history
<1>1. TypeOK'
  BY DEF TypeOK, Thread
<1>2. ASSUME ~Spoiled' PROVE Parts'
  <2>1. ~Spoiled /\ Parts /\ TypeOK
    BY <1>2 DEF Spoiled
  <2>2. SwitchOK'
    BY <1>2, <2>1
       DEF Parts, TypeOK, Thread, Spoiled, Streams, SwitchOK, FlagsOK, PrimaryOK, NoSourceOK, StartedOK, FirstOK
  <2>3. FlagsOK'
    BY <1>2, <2>1 DEF Parts, TypeOK, Thread, Spoiled, Streams, FlagsOK, SwitchOK
  <2>4. SourceAlive'
    BY <1>2, <2>1
       DEF Parts, TypeOK, Thread, Spoiled, Streams, SourceAlive, SwitchOK, FlagsOK, FirstOK, PrimaryOK, NoSourceOK
  <2>5. NoSourceOK'
    BY <1>2, <2>1
       DEF Parts, TypeOK, Thread, Spoiled, Streams, NoSourceOK, SwitchOK, FlagsOK, PrimaryOK, SourceAlive, FirstOK
  <2>6. FirstOK'
    BY <1>2, <2>1
       DEF Parts, TypeOK, Thread, Spoiled, Streams, FirstOK, SwitchOK, FlagsOK
  <2>7. PrimaryOK'
    BY <1>2, <2>1
       DEF Parts, TypeOK, Thread, Spoiled, Streams, PrimaryOK, SwitchOK, FlagsOK, FirstOK, SourceAlive
  <2>8. StartedOK'
    BY <1>2, <2>1
       DEF Parts, TypeOK, Thread, Spoiled, Streams, StartedOK, SwitchOK, FlagsOK, PrimaryOK, NoSourceOK
  <2>9. QED
    BY <2>2, <2>3, <2>4, <2>5, <2>6, <2>7, <2>8 DEF Parts
<1>3. QED
  BY <1>1, <1>2

-----------------------------------------------------------------------------
\* Initially no connection is in use.
LEMMA InitIInv == Init => IInv
<1> SUFFICES ASSUME Init PROVE IInv
  OBVIOUS
<1> USE NoneIsNoViewer DEF Init
<1>1. TypeOK
  BY DEF TypeOK, NoJob
<1>2. Parts
  <2>1. \A t \in Thread : job[t].at # "switch"
    BY DEF NoJob
  <2>2. \A v \in Viewer : conn[v] = "off" /\ ~connected[v] /\ ~primary[v] /\ ~started[v]
    OBVIOUS
  <2>3. QED
    BY <2>1, <2>2 DEF Parts, SwitchOK, FlagsOK, SourceAlive, NoSourceOK, FirstOK, PrimaryOK, StartedOK, Streams
<1>3. QED
  BY <1>1, <1>2 DEF IInv

\* Every step keeps the invariant.
LEMMA StepKeepsIInv == IInv /\ [Next]_vars => IInv'
<1> SUFFICES ASSUME IInv, [Next]_vars PROVE IInv'
  OBVIOUS
<1>1. CASE UNCHANGED vars
  BY <1>1 DEF IInv, vars, flags, history, TypeOK, Spoiled, Parts, SwitchOK, FlagsOK, SourceAlive,
       NoSourceOK, FirstOK, PrimaryOK, StartedOK, Streams
<1>2. CASE Timeout
  BY <1>2, TimeoutKeeps
<1>3. CASE \E t \in Thread : EndSwitch(t) \/ StopSource(t) \/ Closed(t)
  BY <1>3, EndSwitchKeeps, StopSourceKeeps, ClosedKeeps
<1>4. CASE \E t \in Thread, v \in Viewer :
             ConnectNode(t, v) \/ DisconnectNode(t, v) \/ SwitchEvent(t, v)
  BY <1>4, ConnectNodeKeeps, DisconnectNodeKeeps, SwitchEventKeeps
<1>5. CASE \E v \in Viewer : \/ ConnectFails(v) \/ CheckPassword(v)
                             \/ HelloAnswered(v) \/ HelloFails(v) \/ Begin(v)
                             \/ Packet(v) \/ EndLoop(v) \/ Ended(v) \/ ForgetSource(v)
                             \/ Bye(v)
  BY <1>5, ConnectFailsKeeps, CheckPasswordKeeps, HelloAnsweredKeeps, HelloFailsKeeps, BeginKeeps,
     PacketKeeps, EndLoopKeeps, EndedKeeps, ForgetSourceKeeps, ByeKeeps
<1>6. QED
  BY <1>1, <1>2, <1>3, <1>4, <1>5 DEF Next

\* The invariant implies the property once nobody is about to change the source.
LEMMA IInvServes == IInv => SourceServes
<1> SUFFICES ASSUME IInv, Settled, ~Spoiled, NEW w \in Viewer, conn[w] = "loop", ~quit[w]
             PROVE  /\ source # None
                    /\ \A v \in Viewer : conn[v] = "loop" => /\ started[v] <=> v = source
                                                             /\ primary[v] <=> v = source
                    /\ conn[source] = "loop"
  BY DEF SourceServes
<1>1. Parts /\ TypeOK
  BY DEF IInv
<1>2. source # None
  BY <1>1 DEF Parts, NoSourceOK, Streams
<1>3. conn[source] = "loop"
  BY <1>1, <1>2 DEF Parts, SourceAlive, Streams, Settled, TypeOK
<1>4. ASSUME NEW v \in Viewer, conn[v] = "loop"
      PROVE  (started[v] <=> v = source) /\ (primary[v] <=> v = source)
  BY <1>1, <1>2, <1>4 DEF Parts, PrimaryOK, StartedOK, Streams, Settled, TypeOK
<1>5. QED
  BY <1>2, <1>3, <1>4

\* viewerArray, currentSourceIndex and what the threads are at keep their types.
THEOREM TypeCorrect == Spec => []TypeOK
<1>1. IInv => TypeOK
  BY DEF IInv
<1>2. QED
  BY InitIInv, StepKeepsIInv, <1>1, PTL DEF Spec

\* However the threads of a Repeater interleave without a lock: while a connection
\* is up that nobody ends, exactly one streams, and it is the source.
THEOREM AlwaysSourceServes == Spec => []SourceServes
BY InitIInv, StepKeepsIInv, IInvServes, PTL DEF Spec
=============================================================================
