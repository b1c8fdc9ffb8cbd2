--------------------------- MODULE UserConnection ---------------------------
(***************************************************************************)
(* One UserConnection: the application's threads, which call recv(),       *)
(* send() and close(), against the reactor thread, which runs the RUDP     *)
(* code.  The reactor takes readMutex_ and writeMutex_ when a timer of the *)
(* constructor fires, and from then on lets go of them only in callbacks,  *)
(* for 2 ms: of one of them when need_read_ or need_write_ says that a     *)
(* thread wants it, of both when the connection ends.  The mutexes are     *)
(* recursive, and release() by a thread that does not own one does nothing.*)
(*                                                                         *)
(* Below it is one RUDP socket, of which the model keeps the state and how *)
(* much there is to read and to write.  The waits of the code are bounds   *)
(* on real time; the model assumes of them that a thread which waits for a *)
(* mutex gets it when it is free for 2 ms, that close() has stored the id  *)
(* of its timer within 10 ms, and that 300 ms are enough for the reactor   *)
(* to close and for every thread that does not wait for a mutex to leave.  *)
(* can_read_ and can_write_ serve select(), which no program of LSN calls  *)
(* on a connection, and are left out.                                      *)
(***************************************************************************)
EXTENDS Naturals

CONSTANTS Reader, Writer,   \* threads that call recv() and send()
          Segments, Room    \* bounds: segments to be read, writes that fit

ASSUME ThreadAssumption ==
  /\ Reader \cap Writer = {}
  /\ Segments \in Nat /\ Room \in Nat

VARIABLES state,      \* state_
          broken,     \* broken_
          need,       \* need[m]: need_read_, need_write_
          first,      \* the timer of the constructor: "armed", or what it made the
                      \* reactor do: "taken" the mutexes or "closed"
          closing,    \* the timer of close(): "off", "armed" or "fired"
          hold,       \* hold[m]: how often the reactor has acquired m
          rpc,        \* the next step of the reactor's handler
          paused,     \* it sleeps in a callback
          relock,     \* and has to acquire these mutexes before it goes on
          sock,       \* state of the RUDP socket; CLOSE: it has been given back, and
                      \* its id may be another connection's
          bound,      \* its event_handler_ is this connection
          avail,      \* segments in recv_data_
          room,       \* writes that send_buffer_ accepts
          main,       \* the thread that connects or accepts, and closes
          gone,       \* the UserConnection has been deleted
          pc,         \* pc[t]: where thread t is in recv() or send()
          late,       \* history: threads that were on their way to the mutex
                      \* when the pause for the end of the connection was over
          wiped,      \* history: threads that wait while another one of the
                      \* same mutex has reset the flag
          doubled     \* history: the mutexes the reactor has acquired twice

conn == <<state, broken, main, gone>>
timers == <<first, closing>>
reactor == <<hold, rpc, paused, relock>>
rudp == <<sock, bound, avail, room>>
history == <<late, wiped, doubled>>
vars == <<conn, timers, reactor, rudp, need, pc, history>>

Thread == Reader \cup Writer
Mutex == {"read", "write"}
MutexOf(t) == IF t \in Reader THEN "read" ELSE "write"
Stage == {"idle", "heartbeat", "output", "writable", "message", "data", "lost", "close",
          "fin", "unbind"}

TypeOK ==
  /\ state \in {"IDLE", "CONNECTING", "CONNECTED", "CLOSE"} /\ broken \in BOOLEAN
  /\ need \in [Mutex -> BOOLEAN]
  /\ first \in {"armed", "taken", "closed"} /\ closing \in {"off", "armed", "fired"}
  /\ hold \in [Mutex -> 0..2] /\ rpc \in Stage
  /\ paused \in BOOLEAN /\ relock \subseteq Mutex
  /\ sock \in {"IDLE", "CONNECTING", "CONNECTED", "FIN", "FIN2", "CLOSE"}
  /\ bound \in BOOLEAN /\ avail \in 0..Segments /\ room \in 0..Room
  /\ main \in {"connect", "poll", "accept", "leave", "up", "down", "closing", "closed"}
  /\ gone \in BOOLEAN
  /\ pc \in [Thread -> {"out", "test", "passed", "wait", "inside", "again", "done"}]
  /\ late \subseteq Thread /\ wiped \subseteq Thread /\ doubled \subseteq Mutex

\* A connection that is going to connect, or one that rudp_accept_event() has
\* made; its constructor has set a timer of 10 ms.
Init ==
  /\ \/ state = "IDLE" /\ sock = "IDLE" /\ main = "connect"
     \/ state = "CONNECTED" /\ sock = "CONNECTED" /\ main = "accept"
  /\ broken = FALSE /\ gone = FALSE /\ bound = TRUE
  /\ need = [m \in Mutex |-> FALSE]
  /\ first = "armed" /\ closing = "off"
  /\ hold = [m \in Mutex |-> 0]
  /\ rpc = "idle" /\ paused = FALSE /\ relock = {}
  /\ avail = 0 /\ room = Room
  /\ pc = [t \in Thread |-> "out"]
  /\ late = {} /\ wiped = {} /\ doubled = {}

-----------------------------------------------------------------------------
(* The reactor: callbacks.                                                 *)

Inside(m) == \E t \in Thread : MutexOf(t) = m /\ pc[t] = "inside"
Free(m) == hold[m] = 0 /\ ~Inside(m)
Waiting(m) == {t \in Thread : MutexOf(t) = m /\ pc[t] = "wait"}

Idle == rpc = "idle" /\ ~paused /\ relock = {}

\* The reactor executes code of this connection, outside every callback.
Busy == rpc # "idle" /\ ~paused /\ relock = {}

\* Mutant: only the mutex that is wanted first is acquired again.
ReleaseForGood(S) ==
  /\ hold' = [m \in Mutex |-> IF m \in S /\ hold[m] > 0 THEN hold[m] - 1 ELSE hold[m]]
  /\ paused' = TRUE /\ relock' = S \ {"write"}

\* release() of the mutexes in S; one that the reactor does not own stays.
Release(S) ==
  /\ hold' = [m \in Mutex |-> IF m \in S /\ hold[m] > 0 THEN hold[m] - 1 ELSE hold[m]]
  /\ paused' = TRUE /\ relock' = S

\* The callback of m: a thread that wants m may have it for 2 ms.
Offer(m) == IF need[m] THEN Release({m}) ELSE UNCHANGED <<hold, paused, relock>>

Goes(from, to) == Busy /\ rpc = from /\ rpc' = to

\* Callbacks are for a connected socket that knows its handler.
Told == sock = "CONNECTED" /\ bound

\* RUDPSocket::on_read() and rudp_input_event().  "data" is the segment of a
\* DATA message, which is read after its acknowledgement has been processed.
Input ==
  /\ \/ Goes("heartbeat", "output") /\ UNCHANGED avail
     \/ Goes("data", "idle") /\ avail' = avail + 1
  /\ IF avail' > 0 /\ Told
       THEN Offer("read") ELSE UNCHANGED <<hold, paused, relock>>
  /\ UNCHANGED <<conn, timers, sock, bound, room, need, pc, history>>

\* Mutant: a late answer connects a connection whose connect() has failed.
OutputConnects ==
  /\ \/ (Goes("output", "idle") \/ Goes("message", "data")) /\ room > 0
     \/ Goes("writable", "idle")
  /\ Told
  /\ state' = IF state \in {"IDLE", "CONNECTING"} THEN "CONNECTED" ELSE state
  /\ Offer("write")
  /\ UNCHANGED <<broken, main, gone, timers, rudp, need, pc, history>>

\* RUDPSocket::on_write() and rudp_output_event().
Output ==
  /\ \/ (Goes("output", "idle") \/ Goes("message", "data")) /\ room > 0
     \/ Goes("writable", "idle")
  /\ Told
  /\ state' = IF state = "CONNECTING" THEN "CONNECTED" ELSE state
  /\ Offer("write")
  /\ UNCHANGED <<broken, main, gone, timers, rudp, need, pc, history>>

NoOutput ==
  /\ Goes("output", "idle") \/ Goes("message", "data")
  /\ ~(room > 0 /\ Told)
  /\ UNCHANGED <<conn, timers, hold, paused, relock, rudp, need, pc, history>>

\* Mutant: the end of the connection is not offered to threads that wait.
BrokenUnoffered ==
  /\ Goes("lost", "idle") \/ Goes("close", "fin")
  /\ broken' = TRUE
  /\ UNCHANGED <<hold, paused, relock>>
  /\ UNCHANGED <<state, main, gone, timers, rudp, need, pc, history>>

\* rudp_close_event() and rudp_exception_event().
Broken ==
  /\ Goes("lost", "idle") \/ Goes("close", "fin")
  /\ broken' = TRUE
  /\ Release(Mutex)
  /\ UNCHANGED <<state, main, gone, timers, rudp, need, pc, history>>

\* The 2 ms are over.  Only the end of a connection releases both mutexes.
Resume ==
  /\ paused
  /\ \A m \in relock : Free(m) => Waiting(m) = {}
  /\ paused' = FALSE
  /\ late' = IF relock = Mutex
               THEN late \cup {t \in Thread : \/ pc[t] = "passed"
                                              \/ /\ pc[t] = "wait"
                                                 /\ Inside(MutexOf(t))}
               ELSE late
  /\ UNCHANGED <<conn, timers, hold, rpc, relock, rudp, need, pc, wiped, doubled>>

\* The read mutex is the first to be acquired.
Relock(m) ==
  /\ ~paused /\ m \in relock /\ (m = "write" => "read" \notin relock)
  /\ ~Inside(m)
  /\ hold' = [hold EXCEPT ![m] = @ + 1]
  /\ relock' = relock \ {m}
  /\ doubled' = IF hold[m] > 0 THEN doubled \cup {m} ELSE doubled
  /\ UNCHANGED <<conn, timers, rpc, paused, rudp, need, pc, late, wiped>>

-----------------------------------------------------------------------------
(* The reactor: timers and datagrams.                                      *)

\* Mutant: the event handler is reset before the socket is closed.
CloseUntold ==
  /\ IF bound
       THEN /\ rpc' = IF sock \in {"CONNECTING", "CONNECTED"} THEN "fin" ELSE "unbind"
            /\ sock' = IF sock = "FIN2" THEN "CLOSE" ELSE sock
       ELSE UNCHANGED <<rpc, sock>>
  /\ UNCHANGED relock

\* Mutant: a socket that is still connecting is not closed.
CloseConnected ==
  /\ IF bound
       THEN /\ rpc' = IF sock = "CONNECTED" THEN "close" ELSE "unbind"
            /\ sock' = IF sock = "FIN2" THEN "CLOSE" ELSE sock
       ELSE UNCHANGED <<rpc, sock>>
  /\ UNCHANGED relock

\* RUDPStream::close() and RUDPSocket::close(), with what handle_timeout() does
\* before and after.  The handle is invalid after the first call.
CloseSocket ==
  /\ IF bound
       THEN /\ rpc' = IF sock \in {"CONNECTING", "CONNECTED"} THEN "close" ELSE "unbind"
            /\ sock' = IF sock = "FIN2" THEN "CLOSE" ELSE sock
       ELSE UNCHANGED <<rpc, sock>>
  /\ UNCHANGED relock

TakeMutexes == relock' = Mutex /\ UNCHANGED <<rpc, sock>>

\* handle_timeout() for the timer of the constructor, which counts only while
\* timer_id_ is still its id.
FirstTimer ==
  /\ Idle /\ first = "armed" /\ closing = "off" /\ ~gone
  /\ \/ state = "CLOSE" /\ first' = "closed" /\ CloseSocket
     \/ state # "CLOSE" /\ first' = "taken" /\ TakeMutexes
  /\ UNCHANGED <<conn, closing, hold, paused, bound, avail, room, need, pc, history>>

\* handle_timeout() for the timer of close().
CloseTimer ==
  /\ Idle /\ closing = "armed"
  /\ closing' = "fired"
  /\ CloseSocket
  /\ UNCHANGED <<conn, first, hold, paused, bound, avail, room, need, pc, history>>

Fin == /\ Goes("fin", "unbind") /\ sock' = "FIN"
       /\ UNCHANGED <<conn, timers, hold, paused, relock, bound, avail, room, need, pc,
                      history>>

Unbind == /\ Goes("unbind", "idle") /\ bound' = FALSE
          /\ UNCHANGED <<conn, timers, hold, paused, relock, sock, avail, room, need, pc,
                         history>>

\* RUDPSocket::heartbeat(): the buffers' on_timer().
Heartbeat ==
  /\ Idle /\ sock = "CONNECTED"
  /\ rpc' = "heartbeat"
  /\ UNCHANGED <<conn, timers, hold, paused, relock, rudp, need, pc, history>>

\* An acknowledgement, which may make room, a DATA message, or a SYN_ACK.
Datagram ==
  /\ Idle /\ sock = "CONNECTED"
  /\ \/ room' \in room..Room /\ rpc' = "output"
     \/ room' \in room..Room /\ avail < Segments /\ rpc' = "message"
     \/ UNCHANGED room /\ rpc' = "writable"
  /\ UNCHANGED <<conn, timers, hold, paused, relock, sock, bound, avail, need, pc, history>>

\* SYN2
Connected ==
  /\ Idle /\ sock = "CONNECTING"
  /\ sock' = "CONNECTED" /\ rpc' = "writable"
  /\ UNCHANGED <<conn, timers, hold, paused, relock, bound, avail, room, need, pc, history>>

\* FIN of the peer, an error in SYN2, the last SYN or KEEPALIVE unanswered.
Lost ==
  /\ Idle /\ sock \in {"CONNECTING", "CONNECTED"}
  /\ sock' = "FIN2" /\ rpc' = "lost"
  /\ UNCHANGED <<conn, timers, hold, paused, relock, bound, avail, room, need, pc, history>>

\* FIN2, FIN or the last repetition of FIN; in FIN2_STATE, a FIN or SYN that gives
\* the socket back although the connection still has its id.
Freed ==
  /\ Idle /\ sock \in {"FIN", "FIN2"}
  /\ sock' = "CLOSE"
  /\ UNCHANGED <<conn, timers, reactor, bound, avail, room, need, pc, history>>

-----------------------------------------------------------------------------
(* The application.                                                        *)

\* connect(), which polls state_ for 15 s.
Connect ==
  /\ main = "connect"
  /\ state' = "CONNECTING" /\ sock' = "CONNECTING" /\ main' = "poll"
  /\ UNCHANGED <<broken, gone, timers, reactor, bound, avail, room, need, pc, history>>

\* Its last sleep is followed by no test.
Poll ==
  /\ main = "poll"
  /\ main' = IF state = "CONNECTED" THEN "up" ELSE "leave"
  /\ UNCHANGED <<state, broken, gone, timers, reactor, rudp, need, pc, history>>

GiveUp ==
  /\ main = "leave"
  /\ state' = "IDLE" /\ main' = "down"
  /\ UNCHANGED <<broken, gone, timers, reactor, rudp, need, pc, history>>

\* accept() of the listening connection returns this one.
Accept ==
  /\ main = "accept" /\ main' = "up"
  /\ UNCHANGED <<state, broken, gone, timers, reactor, rudp, need, pc, history>>

\* close() up to the call of set_timer(), and the rest.  UDT::close()
\* finds no connection when its socket has been given back.
Close ==
  /\ main \in {"up", "down"} /\ sock # "CLOSE"
  /\ state' = "CLOSE" /\ broken' = TRUE /\ main' = "closing"
  /\ UNCHANGED <<gone, timers, reactor, rudp, need, pc, history>>

ArmClose ==
  /\ main = "closing"
  /\ closing' = "armed" /\ main' = "closed"
  /\ UNCHANGED <<state, broken, gone, first, reactor, rudp, need, pc, history>>

\* UDT::close() deletes the connection when close() has slept for 300 ms.
Delete ==
  /\ main = "closed" /\ closing = "fired" /\ Idle /\ ~gone
  /\ \A t \in Thread : pc[t] = "out" \/ (pc[t] = "wait" /\ ~Free(MutexOf(t)))
  /\ gone' = TRUE
  /\ UNCHANGED <<state, broken, main, timers, reactor, rudp, need, pc, history>>

At(t, from, to) == pc[t] = from /\ pc' = [pc EXCEPT ![t] = to]
Apart == UNCHANGED <<conn, timers, reactor, sock, bound>>

Call(t) == /\ main = "up" /\ sock # "CLOSE" /\ At(t, "out", "test")
           /\ Apart /\ UNCHANGED <<avail, room, need, history>>

Test(t) == /\ At(t, "test", IF state = "CONNECTED" /\ ~broken THEN "passed" ELSE "out")
           /\ Apart /\ UNCHANGED <<avail, room, need, history>>

\* Mutant: the flag is not set.
ArmNot(t) == /\ At(t, "passed", "wait")
             /\ Apart /\ UNCHANGED <<avail, room, need, history>>

Arm(t) == /\ At(t, "passed", "wait")
          /\ need' = [need EXCEPT ![MutexOf(t)] = TRUE]
          /\ Apart /\ UNCHANGED <<avail, room, history>>

Acquire(t) == /\ At(t, "wait", "inside") /\ Free(MutexOf(t))
              /\ wiped' = wiped \ {t}
              /\ Apart /\ UNCHANGED <<avail, room, need, late, doubled>>

\* rudp_sock_.recv() or send(), and release().  After the socket has been given
\* back it fails, or reads from and writes to what has the id now.
Operate(t) ==
  LET able == sock = "CONNECTED" /\ bound
  IN /\ \/ ~able /\ At(t, "inside", "done") /\ UNCHANGED <<avail, room>>
        \/ /\ able /\ t \in Reader /\ avail > 0 /\ At(t, "inside", "done")
           /\ avail' \in 0..(avail - 1) /\ UNCHANGED room
        \/ /\ able /\ t \in Writer /\ room > 0 /\ At(t, "inside", "done")
           /\ room' = room - 1 /\ UNCHANGED avail
        \/ /\ able /\ (IF t \in Reader THEN avail ELSE room) = 0
           /\ At(t, "inside", "again") /\ UNCHANGED <<avail, room>>
        \/ sock = "CLOSE" /\ bound /\ At(t, "inside", "again") /\ UNCHANGED <<avail, room>>
     /\ Apart /\ UNCHANGED <<need, history>>

\* Back to the test, if there was nothing to read or no room.
Disarm(t) ==
  /\ \/ At(t, "done", "out")
     \/ At(t, "again", "test")
  /\ need' = [need EXCEPT ![MutexOf(t)] = FALSE]
  /\ wiped' = wiped \cup Waiting(MutexOf(t))
  /\ Apart /\ UNCHANGED <<avail, room, late, doubled>>

-----------------------------------------------------------------------------
Handler == Input \/ Output \/ NoOutput \/ Broken \/ Resume \/ Fin \/ Unbind
           \/ \E m \in Mutex : Relock(m)
Timers == FirstTimer \/ CloseTimer
Calls(t) == Test(t) \/ Arm(t) \/ Operate(t) \/ Disarm(t)

Next == \/ Handler \/ Timers
        \/ Heartbeat \/ Datagram \/ Connected \/ Lost \/ Freed
        \/ Connect \/ Poll \/ GiveUp \/ Accept \/ Close \/ ArmClose \/ Delete
        \/ \E t \in Thread : Call(t) \/ Calls(t) \/ Acquire(t)

Spec == Init /\ [][Next]_vars

\* The reactor goes on, and serves its timers among the datagrams; a thread
\* leaves the RUDP code again, and one that waits for a mutex which is free again
\* and again gets it.
Fairness ==
  /\ SF_vars(Handler) /\ SF_vars(CloseTimer) /\ SF_vars(Heartbeat)
  /\ WF_vars(ArmClose \/ \E t \in Thread : Operate(t))
  /\ \A t \in Thread : SF_vars(Acquire(t))

FairSpec == Spec /\ Fairness

-----------------------------------------------------------------------------
\* From the first timer on, no thread is inside the RUDP code of the connection
\* while the reactor is: the callbacks give the mutexes back to it before the
\* handler goes on, in whatever state the connection ends.
Exclusive == (first = "taken" /\ Busy) => \A t \in Thread : pc[t] # "inside"

\* The callback for the end of the connection is over.
Past == ~paused /\ \/ sock \in {"FIN2", "FIN", "CLOSE"} /\ rpc # "lost"
                   \/ rpc = "fin"

\* Threads that nobody will wake: they had passed the test of broken_ and came
\* too late, their flag was reset by another thread of the same mutex, or the
\* reactor has acquired their mutex twice.
TooLate(t) == t \in late \/ MutexOf(t) \in doubled
Stuck(t) == TooLate(t) \/ t \in wiped

\* The wake-up of a thread that waits in recv() or send() is still to come: its
\* flag is set for the next callback, which makes the mutex free, and the last
\* one is not over.  The three cases are all the exceptions there are.
NobodyForgotten ==
  \A t \in Thread : (pc[t] = "wait" /\ ~Stuck(t)) =>
                      need[MutexOf(t)] /\ hold[MutexOf(t)] <= 1 /\ ~Past

\* UDT::close() does not delete the connection under a thread that is in a call,
\* apart from those that came too late or found a mutex acquired twice.
FreedUnused == gone => \A t \in Thread : pc[t] = "out" \/ TooLate(t)

\* A connect() that has given up stays so, although its RUDP socket goes on and
\* may be connected afterwards; the application is not told both.
GivenUp == main = "down" => state = "IDLE"

\* What a thread in recv() or send() waits for.
Due(t) == broken \/ (sock = "CONNECTED" /\ (IF t \in Reader THEN avail ELSE room) > 0)

\* A call that can be served, or must fail, does not wait for its mutex for ever,
\* apart from the three cases.
CallsWoken == \A t \in Thread : (pc[t] = "wait" /\ Due(t))
                                ~> (pc[t] # "wait" \/ ~Due(t) \/ Stuck(t))

\* Whatever the connection was doing, close() ends with its RUDP socket closing
\* and without a pointer to the connection that is deleted.
CloseEnds == main = "closing" ~> (~bound /\ sock \in {"FIN", "CLOSE"})
=============================================================================
