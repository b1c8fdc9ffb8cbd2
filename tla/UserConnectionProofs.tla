------------------------ MODULE UserConnectionProofs ------------------------
(***************************************************************************)
(* A UserConnection under any number of threads: IInv is inductive, and    *)
(* with it the RUDP code of a connection is never run by the reactor and   *)
(* by a thread at once, no thread waits in vain but for the three cases    *)
(* that NobodyForgotten names, and the connection is deleted unused.       *)
(***************************************************************************)
EXTENDS UserConnection, TLAPS

\* Where the reactor is fits the state of the socket.
SocketOK ==
  /\ main = "connect" <=> sock = "IDLE"
  /\ rpc \in {"heartbeat", "output", "message", "writable", "data"} => sock = "CONNECTED"
  /\ rpc = "lost" => sock = "FIN2"
  /\ rpc \in {"close", "fin"} => sock \in {"CONNECTING", "CONNECTED"}
  /\ rpc = "unbind" => sock \in {"FIN", "CLOSE"}
  /\ rpc \in {"close", "fin", "unbind"} => bound
  /\ (bound /\ sock = "FIN") => rpc = "unbind"
  /\ ~bound => sock \in {"FIN", "CLOSE"}
  /\ rpc \in {"message", "data"} => avail < Segments

\* What the application has done to the connection.
MainOK ==
  /\ closing # "off" => main = "closed"
  /\ main \in {"closing", "closed"} => broken
  /\ main \in {"connect", "down"} => state = "IDLE"
  /\ closing = "fired" => rpc \in {"close", "fin", "unbind"} \/ sock \in {"FIN", "CLOSE"}
  /\ gone => closing = "fired"
  /\ Past => broken

\* How often the reactor has acquired the mutexes: at least once from its first
\* timer on, except in a pause and until it is over, and a second time only if it
\* did so before that timer.
HoldOK ==
  /\ first = "taken" => \A m \in Mutex : m \in relock \/ hold[m] > 0
  /\ \A m \in relock : hold[m] <= 1
  /\ first # "taken" => \A m \in Mutex : hold[m] <= 1 /\ (m \in relock => hold[m] = 0)
  /\ \A m \in Mutex : hold[m] = 2 => m \in doubled
  /\ paused => \A m \in relock : hold[m] > 0 => m \in doubled
  /\ paused => relock # {}
  /\ paused => relock = Mutex \/ (sock = "CONNECTED" /\ rpc # "fin")
  /\ (paused /\ relock = Mutex) => broken

\* Threads that are inside, wait, or are on their way when it is too late.
ThreadsOK ==
  \A t \in Thread :
    /\ pc[t] = "inside" => hold[MutexOf(t)] = 0
    /\ pc[t] = "wait" => need[MutexOf(t)] \/ t \in wiped
    /\ (Past /\ pc[t] \in {"passed", "wait"}) => TooLate(t)

IInv == TypeOK /\ SocketOK /\ MainOK /\ HoldOK /\ ThreadsOK /\ FreedUnused

\* Initially nobody has a mutex and nobody wants one.
LEMMA InitIInv == Init => IInv
<1> SUFFICES ASSUME Init
             PROVE  IInv
  OBVIOUS
<1> USE ThreadAssumption DEF Init
<1>1. TypeOK
  <2>1. hold \in [Mutex -> 0..2] /\ need \in [Mutex -> BOOLEAN]
    OBVIOUS
  <2>2. pc \in [Thread -> {"out", "test", "passed", "wait", "inside", "again", "done"}]
    OBVIOUS
  <2>3. avail \in 0..Segments /\ room \in 0..Room
    OBVIOUS
  <2>4. QED
    BY <2>1, <2>2, <2>3 DEF TypeOK, Stage
<1>2. SocketOK /\ MainOK
  BY DEF SocketOK, MainOK, Past
<1>3. HoldOK
  BY DEF HoldOK, Mutex
<1>4. ThreadsOK /\ FreedUnused
  BY DEF ThreadsOK, FreedUnused, Past, TooLate, Mutex, MutexOf, Thread
<1>5. QED
  BY <1>1, <1>2, <1>3, <1>4 DEF IInv

-----------------------------------------------------------------------------
(* Each action keeps the invariant.                                        *)

LEMMA InputKeeps ==
  ASSUME IInv, Input
  PROVE  IInv'
<1> USE ThreadAssumption
    DEF IInv, Input, Goes, Busy, Told, Offer, Release, conn, timers, reactor, rudp, history, Mutex, MutexOf, Thread
<1>1. TypeOK'
  <2>1. hold' \in [Mutex -> 0..2]
    BY DEF TypeOK
  <2>2. relock' \subseteq Mutex /\ paused' \in BOOLEAN
    BY DEF TypeOK
  <2>3. QED
    BY <2>1, <2>2 DEF TypeOK, Stage, SocketOK
<1>2. SocketOK'
  BY DEF TypeOK, SocketOK
<1>3. MainOK'
  BY DEF TypeOK, SocketOK, MainOK, Past, HoldOK
<1>4. HoldOK'
  <2>1. CASE UNCHANGED <<hold, paused, relock>>
    BY <2>1 DEF SocketOK, HoldOK
  <2>2. ASSUME NEW m \in {"read", "write"}, Release({m})
        PROVE  HoldOK'
    <3>1. \A k \in {"read", "write"} : /\ hold[k] \in 0..2
                                       /\ hold'[k] = IF k = m /\ hold[k] > 0 THEN hold[k] - 1 ELSE hold[k]
      BY <2>2 DEF TypeOK
    <3>2. relock = {} /\ relock' = {m} /\ paused' /\ sock' = "CONNECTED"
      BY <2>2 DEF SocketOK
    <3>3. QED
      BY <3>1, <3>2 DEF HoldOK
  <2>3. QED
    BY <2>1, <2>2
<1>5. ThreadsOK'
  BY DEF TypeOK, SocketOK, MainOK, HoldOK, ThreadsOK, Past, TooLate, Inside
<1>6. FreedUnused'
  BY DEF TypeOK, MainOK, SocketOK, ThreadsOK, FreedUnused, Past, TooLate
<1>7. QED
  BY <1>1, <1>2, <1>3, <1>4, <1>5, <1>6

LEMMA OutputKeeps ==
  ASSUME IInv, Output
  PROVE  IInv'
<1> USE ThreadAssumption
    DEF IInv, Output, Goes, Busy, Told, Offer, Release, conn, timers, reactor, rudp, history, Mutex, MutexOf, Thread
<1>1. TypeOK'
  <2>1. hold' \in [Mutex -> 0..2]
    BY DEF TypeOK
  <2>2. relock' \subseteq Mutex /\ paused' \in BOOLEAN
    BY DEF TypeOK
  <2>3. QED
    BY <2>1, <2>2 DEF TypeOK, Stage
<1>2. SocketOK'
  BY DEF TypeOK, SocketOK
<1>3. MainOK'
  BY DEF TypeOK, SocketOK, MainOK, Past, HoldOK
<1>4. HoldOK'
  <2>1. CASE UNCHANGED <<hold, paused, relock>>
    BY <2>1 DEF SocketOK, HoldOK
  <2>2. ASSUME NEW m \in {"read", "write"}, Release({m})
        PROVE  HoldOK'
    <3>1. \A k \in {"read", "write"} : /\ hold[k] \in 0..2
                                       /\ hold'[k] = IF k = m /\ hold[k] > 0 THEN hold[k] - 1 ELSE hold[k]
      BY <2>2 DEF TypeOK
    <3>2. relock = {} /\ relock' = {m} /\ paused' /\ sock' = "CONNECTED"
      BY <2>2 DEF SocketOK
    <3>3. QED
      BY <3>1, <3>2 DEF HoldOK
  <2>3. QED
    BY <2>1, <2>2
<1>5. ThreadsOK'
  BY DEF TypeOK, SocketOK, MainOK, HoldOK, ThreadsOK, Past, TooLate, Inside
<1>6. FreedUnused'
  BY DEF TypeOK, MainOK, SocketOK, ThreadsOK, FreedUnused, Past, TooLate
<1>7. QED
  BY <1>1, <1>2, <1>3, <1>4, <1>5, <1>6

LEMMA NoOutputKeeps ==
  ASSUME IInv, NoOutput
  PROVE  IInv'
<1> USE ThreadAssumption
    DEF IInv, NoOutput, Goes, Busy, Told, conn, timers, reactor, rudp, history, Mutex, MutexOf, Thread
<1>1. TypeOK'
  BY DEF TypeOK, Stage
<1>2. SocketOK'
  BY DEF TypeOK, SocketOK
<1>3. MainOK'
  BY DEF TypeOK, SocketOK, MainOK, Past, HoldOK
<1>4. HoldOK'
  BY DEF TypeOK, SocketOK, HoldOK, Inside
<1>5. ThreadsOK'
  BY DEF TypeOK, SocketOK, MainOK, HoldOK, ThreadsOK, Past, TooLate, Inside
<1>6. FreedUnused'
  BY DEF TypeOK, MainOK, SocketOK, ThreadsOK, FreedUnused, Past, TooLate
<1>7. QED
  BY <1>1, <1>2, <1>3, <1>4, <1>5, <1>6

LEMMA BrokenKeeps ==
  ASSUME IInv, Broken
  PROVE  IInv'
<1> USE ThreadAssumption
    DEF IInv, Broken, Goes, Busy, Release, conn, timers, reactor, rudp, history, Mutex, MutexOf, Thread
<1>1. TypeOK'
  BY DEF TypeOK, Stage
<1>2. SocketOK'
  BY DEF TypeOK, SocketOK
<1>3. MainOK'
  BY DEF TypeOK, SocketOK, MainOK, Past, HoldOK
<1>4. HoldOK'
  BY DEF TypeOK, SocketOK, HoldOK, Inside
<1>5. ThreadsOK'
  BY DEF TypeOK, SocketOK, MainOK, HoldOK, ThreadsOK, Past, TooLate, Inside
<1>6. FreedUnused'
  BY DEF TypeOK, MainOK, SocketOK, ThreadsOK, FreedUnused, Past, TooLate
<1>7. QED
  BY <1>1, <1>2, <1>3, <1>4, <1>5, <1>6

LEMMA ResumeKeeps ==
  ASSUME IInv, Resume
  PROVE  IInv'
<1> USE ThreadAssumption
    DEF IInv, Resume, Free, Inside, Waiting, conn, timers, reactor, rudp, history, Mutex, MutexOf, Thread
<1>1. TypeOK'
  <2>1. late' \subseteq Thread
    BY DEF TypeOK
  <2>2. paused' \in BOOLEAN
    BY Zenon
  <2>3. QED
    BY <2>1, <2>2 DEF TypeOK, Stage
<1>2. SocketOK'
  BY DEF TypeOK, SocketOK
<1>3. MainOK'
  BY DEF TypeOK, SocketOK, MainOK, Past, HoldOK
<1>4. HoldOK'
  BY DEF TypeOK, SocketOK, HoldOK, Inside
<1>5. ThreadsOK'
  <2>1. CASE relock # Mutex
    BY <2>1 DEF HoldOK, ThreadsOK, Past, TooLate
  <2>2. ASSUME relock = Mutex, NEW t \in Thread, pc[t] = "passed"
        PROVE  t \in late'
    BY <2>2
  <2>3. ASSUME relock = Mutex, NEW t \in Thread, pc[t] = "wait"
        PROVE  t \in late' \/ MutexOf(t) \in doubled
    <3>1. MutexOf(t) \in relock /\ hold[MutexOf(t)] \in 0..2
      BY <2>3 DEF TypeOK
    <3>2. CASE Inside(MutexOf(t))
      BY <2>3, <3>2
    <3>3. CASE ~Inside(MutexOf(t))
      BY <2>3, <3>1, <3>3 DEF HoldOK
    <3>4. QED
      BY <3>2, <3>3
  <2>4. QED
    BY <2>1, <2>2, <2>3 DEF ThreadsOK, TooLate
<1>6. FreedUnused'
  BY DEF TypeOK, MainOK, SocketOK, ThreadsOK, FreedUnused, Past, TooLate
<1>7. QED
  BY <1>1, <1>2, <1>3, <1>4, <1>5, <1>6

LEMMA FirstTimerKeeps ==
  ASSUME IInv, FirstTimer
  PROVE  IInv'
<1> USE ThreadAssumption
    DEF IInv, FirstTimer, Idle, CloseSocket, TakeMutexes, conn, timers, reactor, rudp, history, Mutex, MutexOf, Thread
<1>1. TypeOK'
  BY DEF TypeOK, Stage
<1>2. SocketOK'
  BY DEF TypeOK, SocketOK, MainOK, Stage
<1>3. MainOK'
  BY DEF TypeOK, SocketOK, MainOK, Past, HoldOK
<1>4. HoldOK'
  BY DEF TypeOK, SocketOK, HoldOK, Inside
<1>5. ThreadsOK'
  BY DEF TypeOK, SocketOK, MainOK, HoldOK, ThreadsOK, Past, TooLate, Inside
<1>6. FreedUnused'
  BY DEF TypeOK, MainOK, SocketOK, ThreadsOK, FreedUnused, Past, TooLate
<1>7. QED
  BY <1>1, <1>2, <1>3, <1>4, <1>5, <1>6

LEMMA CloseTimerKeeps ==
  ASSUME IInv, CloseTimer
  PROVE  IInv'
<1> USE ThreadAssumption
    DEF IInv, CloseTimer, Idle, CloseSocket, conn, timers, reactor, rudp, history, Mutex, MutexOf, Thread
<1>1. TypeOK'
  BY DEF TypeOK, Stage
<1>2. SocketOK'
  BY DEF TypeOK, SocketOK, MainOK, Stage
<1>3. MainOK'
  BY DEF TypeOK, SocketOK, MainOK, Past, HoldOK
<1>4. HoldOK'
  BY DEF TypeOK, SocketOK, HoldOK, Inside
<1>5. ThreadsOK'
  BY DEF TypeOK, SocketOK, MainOK, HoldOK, ThreadsOK, Past, TooLate, Inside
<1>6. FreedUnused'
  BY DEF TypeOK, MainOK, SocketOK, ThreadsOK, FreedUnused, Past, TooLate
<1>7. QED
  BY <1>1, <1>2, <1>3, <1>4, <1>5, <1>6

LEMMA FinKeeps ==
  ASSUME IInv, Fin
  PROVE  IInv'
<1> USE ThreadAssumption
    DEF IInv, Fin, Goes, Busy, conn, timers, reactor, rudp, history, Mutex, MutexOf, Thread
<1>1. TypeOK'
  BY DEF TypeOK, Stage
<1>2. SocketOK'
  BY DEF TypeOK, SocketOK
<1>3. MainOK'
  BY DEF TypeOK, SocketOK, MainOK, Past, HoldOK
<1>4. HoldOK'
  BY DEF TypeOK, SocketOK, HoldOK, Inside
<1>5. ThreadsOK'
  BY DEF TypeOK, SocketOK, MainOK, HoldOK, ThreadsOK, Past, TooLate, Inside
<1>6. FreedUnused'
  BY DEF TypeOK, MainOK, SocketOK, ThreadsOK, FreedUnused, Past, TooLate
<1>7. QED
  BY <1>1, <1>2, <1>3, <1>4, <1>5, <1>6

LEMMA UnbindKeeps ==
  ASSUME IInv, Unbind
  PROVE  IInv'
<1> USE ThreadAssumption
    DEF IInv, Unbind, Goes, Busy, conn, timers, reactor, rudp, history, Mutex, MutexOf, Thread
<1>1. TypeOK'
  <2>1. bound' \in BOOLEAN
    BY Zenon
  <2>2. QED
    BY <2>1 DEF TypeOK, Stage
<1>2. SocketOK'
  BY DEF TypeOK, SocketOK
<1>3. MainOK'
  BY DEF TypeOK, SocketOK, MainOK, Past, HoldOK
<1>4. HoldOK'
  BY DEF TypeOK, SocketOK, HoldOK, Inside
<1>5. ThreadsOK'
  BY DEF TypeOK, SocketOK, MainOK, HoldOK, ThreadsOK, Past, TooLate, Inside
<1>6. FreedUnused'
  BY DEF TypeOK, MainOK, SocketOK, ThreadsOK, FreedUnused, Past, TooLate
<1>7. QED
  BY <1>1, <1>2, <1>3, <1>4, <1>5, <1>6

LEMMA HeartbeatKeeps ==
  ASSUME IInv, Heartbeat
  PROVE  IInv'
<1> USE ThreadAssumption
    DEF IInv, Heartbeat, Idle, conn, timers, reactor, rudp, history, Mutex, MutexOf, Thread
<1>1. TypeOK'
  BY DEF TypeOK, Stage
<1>2. SocketOK'
  BY DEF TypeOK, SocketOK
<1>3. MainOK'
  BY DEF TypeOK, SocketOK, MainOK, Past, HoldOK
<1>4. HoldOK'
  BY DEF TypeOK, SocketOK, HoldOK, Inside
<1>5. ThreadsOK'
  BY DEF TypeOK, SocketOK, MainOK, HoldOK, ThreadsOK, Past, TooLate, Inside
<1>6. FreedUnused'
  BY DEF TypeOK, MainOK, SocketOK, ThreadsOK, FreedUnused, Past, TooLate
<1>7. QED
  BY <1>1, <1>2, <1>3, <1>4, <1>5, <1>6

LEMMA DatagramKeeps ==
  ASSUME IInv, Datagram
  PROVE  IInv'
<1> USE ThreadAssumption
    DEF IInv, Datagram, Idle, conn, timers, reactor, rudp, history, Mutex, MutexOf, Thread
<1>1. TypeOK'
  BY DEF TypeOK, Stage
<1>2. SocketOK'
  BY DEF TypeOK, SocketOK
<1>3. MainOK'
  BY DEF TypeOK, SocketOK, MainOK, Past, HoldOK
<1>4. HoldOK'
  BY DEF TypeOK, SocketOK, HoldOK, Inside
<1>5. ThreadsOK'
  BY DEF TypeOK, SocketOK, MainOK, HoldOK, ThreadsOK, Past, TooLate, Inside
<1>6. FreedUnused'
  BY DEF TypeOK, MainOK, SocketOK, ThreadsOK, FreedUnused, Past, TooLate
<1>7. QED
  BY <1>1, <1>2, <1>3, <1>4, <1>5, <1>6

LEMMA ConnectedKeeps ==
  ASSUME IInv, Connected
  PROVE  IInv'
<1> USE ThreadAssumption
    DEF IInv, Connected, Idle, conn, timers, reactor, rudp, history, Mutex, MutexOf, Thread
<1>1. TypeOK'
  BY DEF TypeOK, Stage
<1>2. SocketOK'
  BY DEF TypeOK, SocketOK
<1>3. MainOK'
  BY DEF TypeOK, SocketOK, MainOK, Past, HoldOK
<1>4. HoldOK'
  BY DEF TypeOK, SocketOK, HoldOK, Inside
<1>5. ThreadsOK'
  BY DEF TypeOK, SocketOK, MainOK, HoldOK, ThreadsOK, Past, TooLate, Inside
<1>6. FreedUnused'
  BY DEF TypeOK, MainOK, SocketOK, ThreadsOK, FreedUnused, Past, TooLate
<1>7. QED
  BY <1>1, <1>2, <1>3, <1>4, <1>5, <1>6

LEMMA LostKeeps ==
  ASSUME IInv, Lost
  PROVE  IInv'
<1> USE ThreadAssumption
    DEF IInv, Lost, Idle, conn, timers, reactor, rudp, history, Mutex, MutexOf, Thread
<1>1. TypeOK'
  BY DEF TypeOK, Stage
<1>2. SocketOK'
  BY DEF TypeOK, SocketOK
<1>3. MainOK'
  BY DEF TypeOK, SocketOK, MainOK, Past, HoldOK
<1>4. HoldOK'
  BY DEF TypeOK, SocketOK, HoldOK, Inside
<1>5. ThreadsOK'
  BY DEF TypeOK, SocketOK, MainOK, HoldOK, ThreadsOK, Past, TooLate, Inside
<1>6. FreedUnused'
  BY DEF TypeOK, MainOK, SocketOK, ThreadsOK, FreedUnused, Past, TooLate
<1>7. QED
  BY <1>1, <1>2, <1>3, <1>4, <1>5, <1>6

LEMMA FreedKeeps ==
  ASSUME IInv, Freed
  PROVE  IInv'
<1> USE ThreadAssumption
    DEF IInv, Freed, Idle, conn, timers, reactor, rudp, history, Mutex, MutexOf, Thread
<1>1. TypeOK'
  BY DEF TypeOK, Stage
<1>2. SocketOK'
  BY DEF TypeOK, SocketOK
<1>3. MainOK'
  BY DEF TypeOK, SocketOK, MainOK, Past, HoldOK
<1>4. HoldOK'
  BY DEF TypeOK, SocketOK, HoldOK, Inside
<1>5. ThreadsOK'
  BY DEF TypeOK, SocketOK, MainOK, HoldOK, ThreadsOK, Past, TooLate, Inside
<1>6. FreedUnused'
  BY DEF TypeOK, MainOK, SocketOK, ThreadsOK, FreedUnused, Past, TooLate
<1>7. QED
  BY <1>1, <1>2, <1>3, <1>4, <1>5, <1>6

LEMMA ConnectKeeps ==
  ASSUME IInv, Connect
  PROVE  IInv'
<1> USE ThreadAssumption
    DEF IInv, Connect, conn, timers, reactor, rudp, history, Mutex, MutexOf, Thread
<1>1. TypeOK'
  BY DEF TypeOK, Stage
<1>2. SocketOK'
  BY DEF TypeOK, SocketOK
<1>3. MainOK'
  BY DEF TypeOK, SocketOK, MainOK, Past, HoldOK
<1>4. HoldOK'
  BY DEF TypeOK, SocketOK, HoldOK, Inside
<1>5. ThreadsOK'
  BY DEF TypeOK, SocketOK, MainOK, HoldOK, ThreadsOK, Past, TooLate, Inside
<1>6. FreedUnused'
  BY DEF TypeOK, MainOK, SocketOK, ThreadsOK, FreedUnused, Past, TooLate
<1>7. QED
  BY <1>1, <1>2, <1>3, <1>4, <1>5, <1>6

LEMMA PollKeeps ==
  ASSUME IInv, Poll
  PROVE  IInv'
<1> USE ThreadAssumption
    DEF IInv, Poll, conn, timers, reactor, rudp, history, Mutex, MutexOf, Thread
<1>1. TypeOK'
  BY DEF TypeOK, Stage
<1>2. SocketOK'
  BY DEF TypeOK, SocketOK
<1>3. MainOK'
  BY DEF TypeOK, SocketOK, MainOK, Past, HoldOK
<1>4. HoldOK'
  BY DEF TypeOK, SocketOK, HoldOK, Inside
<1>5. ThreadsOK'
  BY DEF TypeOK, SocketOK, MainOK, HoldOK, ThreadsOK, Past, TooLate, Inside
<1>6. FreedUnused'
  BY DEF TypeOK, MainOK, SocketOK, ThreadsOK, FreedUnused, Past, TooLate
<1>7. QED
  BY <1>1, <1>2, <1>3, <1>4, <1>5, <1>6

LEMMA GiveUpKeeps ==
  ASSUME IInv, GiveUp
  PROVE  IInv'
<1> USE ThreadAssumption
    DEF IInv, GiveUp, conn, timers, reactor, rudp, history, Mutex, MutexOf, Thread
<1>1. TypeOK'
  BY DEF TypeOK, Stage
<1>2. SocketOK'
  BY DEF TypeOK, SocketOK
<1>3. MainOK'
  BY DEF TypeOK, SocketOK, MainOK, Past, HoldOK
<1>4. HoldOK'
  BY DEF TypeOK, SocketOK, HoldOK, Inside
<1>5. ThreadsOK'
  BY DEF TypeOK, SocketOK, MainOK, HoldOK, ThreadsOK, Past, TooLate, Inside
<1>6. FreedUnused'
  BY DEF TypeOK, MainOK, SocketOK, ThreadsOK, FreedUnused, Past, TooLate
<1>7. QED
  BY <1>1, <1>2, <1>3, <1>4, <1>5, <1>6

LEMMA AcceptKeeps ==
  ASSUME IInv, Accept
  PROVE  IInv'
<1> USE ThreadAssumption
    DEF IInv, Accept, conn, timers, reactor, rudp, history, Mutex, MutexOf, Thread
<1>1. TypeOK'
  BY DEF TypeOK, Stage
<1>2. SocketOK'
  BY DEF TypeOK, SocketOK
<1>3. MainOK'
  BY DEF TypeOK, SocketOK, MainOK, Past, HoldOK
<1>4. HoldOK'
  BY DEF TypeOK, SocketOK, HoldOK, Inside
<1>5. ThreadsOK'
  BY DEF TypeOK, SocketOK, MainOK, HoldOK, ThreadsOK, Past, TooLate, Inside
<1>6. FreedUnused'
  BY DEF TypeOK, MainOK, SocketOK, ThreadsOK, FreedUnused, Past, TooLate
<1>7. QED
  BY <1>1, <1>2, <1>3, <1>4, <1>5, <1>6

LEMMA CloseKeeps ==
  ASSUME IInv, Close
  PROVE  IInv'
<1> USE ThreadAssumption
    DEF IInv, Close, conn, timers, reactor, rudp, history, Mutex, MutexOf, Thread
<1>1. TypeOK'
  BY DEF TypeOK, Stage
<1>2. SocketOK'
  BY DEF TypeOK, SocketOK
<1>3. MainOK'
  BY DEF TypeOK, SocketOK, MainOK, Past, HoldOK
<1>4. HoldOK'
  BY DEF TypeOK, SocketOK, HoldOK, Inside
<1>5. ThreadsOK'
  BY DEF TypeOK, SocketOK, MainOK, HoldOK, ThreadsOK, Past, TooLate, Inside
<1>6. FreedUnused'
  BY DEF TypeOK, MainOK, SocketOK, ThreadsOK, FreedUnused, Past, TooLate
<1>7. QED
  BY <1>1, <1>2, <1>3, <1>4, <1>5, <1>6

LEMMA ArmCloseKeeps ==
  ASSUME IInv, ArmClose
  PROVE  IInv'
<1> USE ThreadAssumption
    DEF IInv, ArmClose, conn, timers, reactor, rudp, history, Mutex, MutexOf, Thread
<1>1. TypeOK'
  BY DEF TypeOK, Stage
<1>2. SocketOK'
  BY DEF TypeOK, SocketOK
<1>3. MainOK'
  BY DEF TypeOK, SocketOK, MainOK, Past, HoldOK
<1>4. HoldOK'
  BY DEF TypeOK, SocketOK, HoldOK, Inside
<1>5. ThreadsOK'
  BY DEF TypeOK, SocketOK, MainOK, HoldOK, ThreadsOK, Past, TooLate, Inside
<1>6. FreedUnused'
  BY DEF TypeOK, MainOK, SocketOK, ThreadsOK, FreedUnused, Past, TooLate
<1>7. QED
  BY <1>1, <1>2, <1>3, <1>4, <1>5, <1>6

LEMMA DeleteKeeps ==
  ASSUME IInv, Delete
  PROVE  IInv'
<1> USE ThreadAssumption
    DEF IInv, Delete, Idle, Free, Inside, conn, timers, reactor, rudp, history, Mutex, MutexOf, Thread
<1>1. TypeOK'
  BY DEF TypeOK, Stage
<1>2. SocketOK'
  BY DEF TypeOK, SocketOK
<1>3. MainOK'
  BY DEF TypeOK, SocketOK, MainOK, Past, HoldOK
<1>4. HoldOK'
  BY DEF TypeOK, SocketOK, HoldOK, Inside
<1>5. ThreadsOK'
  BY DEF TypeOK, SocketOK, MainOK, HoldOK, ThreadsOK, Past, TooLate, Inside
<1>6. FreedUnused'
  BY DEF TypeOK, MainOK, SocketOK, ThreadsOK, FreedUnused, Past, TooLate
<1>7. QED
  BY <1>1, <1>2, <1>3, <1>4, <1>5, <1>6

LEMMA RelockKeeps ==
  ASSUME IInv, NEW m \in Mutex, Relock(m)
  PROVE  IInv'
<1> USE ThreadAssumption
    DEF IInv, Relock, Inside, conn, timers, reactor, rudp, history, Mutex, MutexOf, Thread
<1>1. TypeOK'
  <2>1. hold' \in [Mutex -> 0..2]
    BY DEF TypeOK, HoldOK
  <2>2. relock' \subseteq Mutex /\ paused' \in BOOLEAN
    BY DEF TypeOK
  <2>3. QED
    BY <2>1, <2>2 DEF TypeOK, Stage
<1>2. SocketOK'
  BY DEF TypeOK, SocketOK
<1>3. MainOK'
  BY DEF TypeOK, SocketOK, MainOK, Past, HoldOK
<1>4. HoldOK'
  BY DEF TypeOK, SocketOK, HoldOK, Inside
<1>5. ThreadsOK'
  BY DEF TypeOK, SocketOK, MainOK, HoldOK, ThreadsOK, Past, TooLate, Inside
<1>6. FreedUnused'
  BY DEF TypeOK, MainOK, SocketOK, ThreadsOK, FreedUnused, Past, TooLate
<1>7. QED
  BY <1>1, <1>2, <1>3, <1>4, <1>5, <1>6

LEMMA CallKeeps ==
  ASSUME IInv, NEW t \in Thread, Call(t)
  PROVE  IInv'
<1> USE ThreadAssumption
    DEF IInv, Call, At, Apart, conn, timers, reactor, rudp, history, Mutex, MutexOf, Thread
<1>1. TypeOK'
  BY DEF TypeOK, Stage
<1>2. SocketOK'
  BY DEF TypeOK, SocketOK
<1>3. MainOK'
  BY DEF TypeOK, SocketOK, MainOK, Past, HoldOK
<1>4. HoldOK'
  BY DEF TypeOK, SocketOK, HoldOK, Inside
<1>5. ThreadsOK'
  BY DEF TypeOK, SocketOK, MainOK, HoldOK, ThreadsOK, Past, TooLate, Inside
<1>6. FreedUnused'
  BY DEF TypeOK, MainOK, SocketOK, ThreadsOK, FreedUnused, Past, TooLate
<1>7. QED
  BY <1>1, <1>2, <1>3, <1>4, <1>5, <1>6

LEMMA TestKeeps ==
  ASSUME IInv, NEW t \in Thread, Test(t)
  PROVE  IInv'
<1> USE ThreadAssumption
    DEF IInv, Test, At, Apart, conn, timers, reactor, rudp, history, Mutex, MutexOf, Thread
<1>1. TypeOK'
  BY DEF TypeOK, Stage
<1>2. SocketOK'
  BY DEF TypeOK, SocketOK
<1>3. MainOK'
  BY DEF TypeOK, SocketOK, MainOK, Past, HoldOK
<1>4. HoldOK'
  BY DEF TypeOK, SocketOK, HoldOK, Inside
<1>5. ThreadsOK'
  BY DEF TypeOK, SocketOK, MainOK, HoldOK, ThreadsOK, Past, TooLate, Inside
<1>6. FreedUnused'
  BY DEF TypeOK, MainOK, SocketOK, ThreadsOK, FreedUnused, Past, TooLate
<1>7. QED
  BY <1>1, <1>2, <1>3, <1>4, <1>5, <1>6

LEMMA ArmKeeps ==
  ASSUME IInv, NEW t \in Thread, Arm(t)
  PROVE  IInv'
<1> USE ThreadAssumption
    DEF IInv, Arm, At, Apart, conn, timers, reactor, rudp, history, Mutex, MutexOf, Thread
<1>1. TypeOK'
  BY DEF TypeOK, Stage
<1>2. SocketOK'
  BY DEF TypeOK, SocketOK
<1>3. MainOK'
  BY DEF TypeOK, SocketOK, MainOK, Past, HoldOK
<1>4. HoldOK'
  BY DEF TypeOK, SocketOK, HoldOK, Inside
<1>5. ThreadsOK'
  BY DEF TypeOK, SocketOK, MainOK, HoldOK, ThreadsOK, Past, TooLate, Inside
<1>6. FreedUnused'
  BY DEF TypeOK, MainOK, SocketOK, ThreadsOK, FreedUnused, Past, TooLate
<1>7. QED
  BY <1>1, <1>2, <1>3, <1>4, <1>5, <1>6

LEMMA AcquireKeeps ==
  ASSUME IInv, NEW t \in Thread, Acquire(t)
  PROVE  IInv'
<1> USE ThreadAssumption
    DEF IInv, Acquire, At, Apart, Free, Inside, conn, timers, reactor, rudp, history, Mutex, MutexOf, Thread
<1>1. TypeOK'
  BY DEF TypeOK, Stage
<1>2. SocketOK'
  BY DEF TypeOK, SocketOK
<1>3. MainOK'
  BY DEF TypeOK, SocketOK, MainOK, Past, HoldOK
<1>4. HoldOK'
  BY DEF TypeOK, SocketOK, HoldOK, Inside
<1>5. ThreadsOK'
  BY DEF TypeOK, SocketOK, MainOK, HoldOK, ThreadsOK, Past, TooLate, Inside
<1>6. FreedUnused'
  BY DEF TypeOK, MainOK, SocketOK, ThreadsOK, FreedUnused, Past, TooLate
<1>7. QED
  BY <1>1, <1>2, <1>3, <1>4, <1>5, <1>6

LEMMA OperateKeeps ==
  ASSUME IInv, NEW t \in Thread, Operate(t)
  PROVE  IInv'
<1> USE ThreadAssumption
    DEF IInv, Operate, At, Apart, conn, timers, reactor, rudp, history, Mutex, MutexOf, Thread
<1>1. TypeOK'
  BY DEF TypeOK, Stage
<1>2. SocketOK'
  BY DEF TypeOK, SocketOK
<1>3. MainOK'
  BY DEF TypeOK, SocketOK, MainOK, Past, HoldOK
<1>4. HoldOK'
  BY DEF TypeOK, SocketOK, HoldOK, Inside
<1>5. ThreadsOK'
  BY DEF TypeOK, SocketOK, MainOK, HoldOK, ThreadsOK, Past, TooLate, Inside
<1>6. FreedUnused'
  BY DEF TypeOK, MainOK, SocketOK, ThreadsOK, FreedUnused, Past, TooLate
<1>7. QED
  BY <1>1, <1>2, <1>3, <1>4, <1>5, <1>6

LEMMA DisarmKeeps ==
  ASSUME IInv, NEW t \in Thread, Disarm(t)
  PROVE  IInv'
<1> USE ThreadAssumption
    DEF IInv, Disarm, At, Apart, Waiting, conn, timers, reactor, rudp, history, Mutex, MutexOf, Thread
<1>1. TypeOK'
  BY DEF TypeOK, Stage
<1>2. SocketOK'
  BY DEF TypeOK, SocketOK
<1>3. MainOK'
  BY DEF TypeOK, SocketOK, MainOK, Past, HoldOK
<1>4. HoldOK'
  BY DEF TypeOK, SocketOK, HoldOK, Inside
<1>5. ThreadsOK'
  BY DEF TypeOK, SocketOK, MainOK, HoldOK, ThreadsOK, Past, TooLate, Inside
<1>6. FreedUnused'
  BY DEF TypeOK, MainOK, SocketOK, ThreadsOK, FreedUnused, Past, TooLate
<1>7. QED
  BY <1>1, <1>2, <1>3, <1>4, <1>5, <1>6

\* So does every step.
LEMMA NextKeeps ==
  ASSUME IInv, [Next]_vars
  PROVE  IInv'
<1>1. CASE Handler
  BY <1>1, InputKeeps, OutputKeeps, NoOutputKeeps, BrokenKeeps, ResumeKeeps, FinKeeps,
     UnbindKeeps, RelockKeeps DEF Handler
<1>2. CASE Timers
  BY <1>2, FirstTimerKeeps, CloseTimerKeeps DEF Timers
<1>3. CASE Heartbeat \/ Datagram \/ Connected \/ Lost \/ Freed
  BY <1>3, HeartbeatKeeps, DatagramKeeps, ConnectedKeeps, LostKeeps, FreedKeeps
<1>4. CASE Connect \/ Poll \/ GiveUp \/ Accept \/ Close \/ ArmClose \/ Delete
  BY <1>4, ConnectKeeps, PollKeeps, GiveUpKeeps, AcceptKeeps, CloseKeeps, ArmCloseKeeps,
     DeleteKeeps
<1>5. ASSUME NEW t \in Thread, Call(t) \/ Calls(t) \/ Acquire(t)
      PROVE  IInv'
  BY <1>5, CallKeeps, TestKeeps, ArmKeeps, OperateKeeps, DisarmKeeps, AcquireKeeps DEF Calls
<1>6. CASE UNCHANGED vars
  <2>1. UNCHANGED <<conn, timers, reactor, rudp, need, pc, history>>
    BY <1>6 DEF vars
  <2>2. TypeOK' /\ SocketOK' /\ MainOK' /\ HoldOK' /\ ThreadsOK' /\ FreedUnused'
    BY <2>1 DEF IInv, TypeOK, SocketOK, MainOK, HoldOK, ThreadsOK, FreedUnused, Past, TooLate,
                conn, timers, reactor, rudp, history
  <2>3. QED
    BY <2>2 DEF IInv
<1>7. QED
  BY <1>1, <1>2, <1>3, <1>4, <1>5, <1>6 DEF Next

-----------------------------------------------------------------------------
(* The invariant and what it implies.                                      *)

\* The parts of the invariant hold together in every reachable state.
THEOREM Invariance == Spec => []IInv
<1>1. Init => IInv
  BY InitIInv
<1>2. IInv /\ [Next]_vars => IInv'
  BY NextKeeps
<1>3. QED
  BY <1>1, <1>2, PTL DEF Spec

\* Every variable keeps its range: the recursive mutexes are never acquired more
\* than twice, and what is read and written stays within the buffers.
THEOREM TypeCorrect == Spec => []TypeOK
<1>1. IInv => TypeOK
  BY DEF IInv
<1>2. QED
  BY <1>1, Invariance, PTL

\* The reactor and the application's threads are never inside the RUDP code of a
\* connection at once after its first timer, however many threads there are.
THEOREM MutualExclusion == Spec => []Exclusive
<1>1. IInv => Exclusive
  BY DEF IInv, TypeOK, HoldOK, ThreadsOK, Exclusive, Busy, Mutex, MutexOf
<1>2. QED
  BY <1>1, Invariance, PTL

\* A thread that waits in recv() or send() has a wake-up to come, but for the
\* exceptions.
THEOREM WakeupsKept == Spec => []NobodyForgotten
<1>1. IInv => NobodyForgotten
  <2> SUFFICES ASSUME IInv, NEW t \in Thread, pc[t] = "wait", ~Stuck(t)
               PROVE  need[MutexOf(t)] /\ hold[MutexOf(t)] <= 1 /\ ~Past
    BY DEF NobodyForgotten
  <2>1. need[MutexOf(t)] /\ ~Past
    BY DEF IInv, ThreadsOK, Stuck
  <2>2. MutexOf(t) \in Mutex /\ hold[MutexOf(t)] \in 0..2
    BY DEF IInv, TypeOK, Mutex, MutexOf
  <2>3. hold[MutexOf(t)] # 2
    BY <2>2 DEF IInv, HoldOK, Stuck, TooLate
  <2>4. QED
    BY <2>1, <2>2, <2>3
<1>2. QED
  BY <1>1, Invariance, PTL

\* UDT::close() deletes no connection with a thread in it, but for the exceptions.
THEOREM DeletedUnused == Spec => []FreedUnused
<1>1. IInv => FreedUnused
  BY DEF IInv
<1>2. QED
  BY <1>1, Invariance, PTL

\* No late answer connects a connection whose connect() has returned a failure.
THEOREM FailureFinal == Spec => []GivenUp
<1>1. IInv => GivenUp
  BY DEF IInv, MainOK, GivenUp
<1>2. QED
  BY <1>1, Invariance, PTL
=============================================================================
