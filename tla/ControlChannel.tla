--------------------------- MODULE ControlChannel ---------------------------
(***************************************************************************)
(* The camera side node (RepeaterNode) and its one control channel.  Three *)
(* threads share SERVER_NODE without a lock: the main loop, which reports  *)
(* to the Repeater and starts worker 1 when an "Accept" event has come in; *)
(* worker 1, which connects to the peer of the event; and worker 2, which  *)
(* listens.  m_InConnection1 and m_InConnection2 are to keep the two       *)
(* workers from running ControlChannelLoop() at once, and both leave their *)
(* connection in the same fields m1_use_*, from which they later close it. *)
(*                                                                         *)
(* Handles are numbers; 0 is INVALID_SOCKET.  m_bDoConnection1 and 2 stay  *)
(* TRUE, as nothing calls StopDoConnection().                              *)
(***************************************************************************)
EXTENDS Integers

CONSTANT Handles       \* bound: UDT sockets 1..Handles

ASSUME ControlAssumption == Handles \in Nat \ {0}

VARIABLES main,          \* where the main loop is
          event,         \* m1_event_type is "Accept" or "AcceptRev"
          inConnection1, \* m_InConnection1
          inConnection2, \* m_InConnection2
          pc,            \* pc[w]: where worker w is
          fhandle,       \* fhandle[w]: its local variable
          served,        \* served[w]: the fhandle of its ControlChannelLoop()
          use,           \* m1_use_udt_sock, shared
          open,          \* the UDT sockets that are open
          connected,     \* m_bConnected
          avStarted,     \* m_bAVStarted
          sender,        \* m_pFRS: the socket its sender writes to
          overlapped,    \* history: worker 1 has connected while worker 2 served
          overtaken,     \* history: worker 1 has connected while worker 2 was
                         \* between its test of m_InConnection1 and its set of
                         \* m_InConnection2
          mixed          \* history: worker 1 has connected while worker 2 was
                         \* between that set and its call of ControlChannelLoop()

flags == <<inConnection1, inConnection2>>
stream == <<connected, avStarted, sender>>
history == <<overlapped, overtaken, mixed>>
vars == <<main, event, flags, pc, fhandle, served, use, open, stream, history>>

Worker == {1, 2}
Handle == 1..Handles
NoSender == -1        \* m_pFRS == NULL

\* Inside ControlChannelLoop(): before HELLO, after it, in FakeRtpSend_uninit()
\* for AV_STOP, and in FakeRtpSend_uninit() at the end of the loop.
LoopPc == {"hello", "loop", "stop", "leave"}
InLoop(w) == pc[w] \in LoopPc

\* Where worker 1 and worker 2 can be.
WorkerPc ==
  [w \in Worker |->
     LoopPc \cup IF w = 1 THEN {"off", "connect", "gate", "enter", "close", "clear"}
                ELSE {"idle", "accept", "gate", "claim", "share", "enter",
                      "close", "clear", "release"}]

TypeOK == /\ main \in {"sleep", "report", "join"}
          /\ event \in BOOLEAN
          /\ inConnection1 \in BOOLEAN /\ inConnection2 \in BOOLEAN
          /\ pc \in [Worker -> WorkerPc[1] \cup WorkerPc[2]]
          /\ \A w \in Worker : pc[w] \in WorkerPc[w]
          /\ fhandle \in [Worker -> Handle \cup {0}]
          /\ served \in [Worker -> Handle \cup {0}]
          /\ use \in Handle \cup {0}
          /\ open \subseteq Handle
          /\ connected \in BOOLEAN /\ avStarted \in BOOLEAN
          /\ sender \in Handle \cup {0, NoSender}
          /\ overlapped \in BOOLEAN /\ overtaken \in BOOLEAN /\ mixed \in BOOLEAN

\* StartAnyPC()
Init == /\ main = "sleep"
        /\ event = FALSE
        /\ inConnection1 = FALSE /\ inConnection2 = FALSE
        /\ pc = [w \in Worker |-> IF w = 1 THEN "off" ELSE "idle"]
        /\ fhandle = [w \in Worker |-> 0] /\ served = [w \in Worker |-> 0]
        /\ use = 0 /\ open = {}
        /\ connected = FALSE /\ avStarted = FALSE /\ sender = NoSender
        /\ overlapped = FALSE /\ overtaken = FALSE /\ mixed = FALSE

-----------------------------------------------------------------------------
(* The IPC thread and the main loop.                                       *)

\* ParseEventValue() of a TOPO_EVENT for this node
EventArrives == /\ event' = TRUE
                /\ UNCHANGED <<main, flags, pc, fhandle, served, use, open, stream, history>>

\* The register period is over.  While worker 2 serves, the loop only waits.
Wake == /\ main = "sleep" /\ ~inConnection2
        /\ main' = "report"
        /\ UNCHANGED <<event, flags, pc, fhandle, served, use, open, stream, history>>

\* The address of the node has been probed (which takes seconds) and reported.
\* Nothing looks at m_InConnection2 again.  An event that does not lead to a
\* worker: "Accept" at a node without NAT, or CreateThread() fails.
Report ==
  /\ main = "report"
  /\ event' = FALSE
  /\ \/ /\ event
        /\ inConnection1' = TRUE
        /\ pc' = [pc EXCEPT ![1] = "connect"]
        /\ main' = "join"
     \/ /\ main' = "sleep"
        /\ UNCHANGED <<inConnection1, pc>>
  /\ UNCHANGED <<inConnection2, fhandle, served, use, open, stream, history>>

\* Mutant: m_InConnection1 is not reset when the worker has ended.
JoinForgets == /\ main = "join" /\ pc[1] = "off"
               /\ main' = "sleep"
               /\ UNCHANGED <<event, flags, pc, fhandle, served, use, open, stream, history>>

\* pthread_join() returns
Join == /\ main = "join" /\ pc[1] = "off"
        /\ inConnection1' = FALSE
        /\ main' = "sleep"
        /\ UNCHANGED <<event, inConnection2, pc, fhandle, served, use, open, stream,
                       history>>

-----------------------------------------------------------------------------
(* ControlChannelLoop(), run by worker w on served[w].                     *)

Goto(w, to) == pc' = [pc EXCEPT ![w] = to]
AtPeer == <<main, event, flags, fhandle, served, use, open, history>>

\* A password is right.
Hello(w) == /\ pc[w] = "hello"
            /\ Goto(w, "loop")
            /\ UNCHANGED <<AtPeer, stream>>

\* AV_START: DShowAV_Start() makes a sender for m1_use_udt_sock.
AvStart(w) == /\ pc[w] = "loop" /\ ~avStarted
              /\ sender' = use /\ avStarted' = TRUE
              /\ UNCHANGED <<AtPeer, pc, connected>>

\* AV_STOP: DShowAV_Stop(), which sleeps 800 ms inside FakeRtpSend_uninit().
AvStop(w) == /\ pc[w] = "loop" /\ avStarted
             /\ avStarted' = FALSE
             /\ Goto(w, "stop")
             /\ UNCHANGED <<AtPeer, connected, sender>>

\* Mutant: the loop ends without DShowAV_Stop().
LeaveStreaming(w) == /\ pc[w] \in {"hello", "loop"}
                     /\ connected' = FALSE
                     /\ Goto(w, "close")
                     /\ UNCHANGED <<AtPeer, avStarted, sender>>

\* BYE, an unknown command or a broken connection: DShowAV_Stop() and
\* if_on_client_disconnected().
Leave(w) == /\ pc[w] \in {"hello", "loop"}
            /\ IF avStarted
               THEN avStarted' = FALSE /\ Goto(w, "leave") /\ UNCHANGED connected
               ELSE connected' = FALSE /\ Goto(w, "close") /\ UNCHANGED avStarted
            /\ UNCHANGED <<AtPeer, sender>>

\* FakeRtpSend_uninit() returns, m_pFRS = NULL
SenderFreed(w) ==
  /\ pc[w] \in {"stop", "leave"}
  /\ sender' = NoSender
  /\ IF pc[w] = "stop" THEN Goto(w, "loop") /\ UNCHANGED connected
                       ELSE Goto(w, "close") /\ connected' = FALSE
  /\ UNCHANGED <<AtPeer, avStarted>>

-----------------------------------------------------------------------------
(* Worker 1: WorkingThreadFn1() and WorkingThreadFnRev().                  *)

\* UDT::socket() and accept() return a handle nobody holds.
Fresh(h) == /\ h \notin open /\ h # use /\ h # sender
            /\ \A w \in Worker : h # fhandle[w] /\ h # served[w]

\* Connected to the peer of the event: the m1_use_* fields are set.
Publish(h) == /\ pc[1] = "connect" /\ Fresh(h)
              /\ open' = open \cup {h}
              /\ fhandle' = [fhandle EXCEPT ![1] = h]
              /\ use' = h
              /\ overlapped' = (overlapped \/ inConnection2)
              /\ overtaken' = (overtaken \/ pc[2] = "claim")
              /\ mixed' = (mixed \/ pc[2] \in {"share", "enter"})
              /\ Goto(1, "gate")
              /\ UNCHANGED <<main, event, flags, served, stream>>

\* FindOutConnection(), UDT::bind() or UDT::connect() fails.
ConnectFails == /\ pc[1] = "connect"
                /\ Goto(1, "off")
                /\ UNCHANGED <<main, event, flags, fhandle, served, use, open, stream, history>>

\* Mutant: worker 1 does not look at m_InConnection2.
Gate1Open == /\ pc[1] = "gate"
             /\ Goto(1, "enter")
             /\ UNCHANGED <<main, event, flags, fhandle, served, use, open, stream, history>>

\* The loop is entered, or the connection is dropped.
Gate1 == /\ pc[1] = "gate"
         /\ Goto(1, IF inConnection2 THEN "close" ELSE "enter")
         /\ UNCHANGED <<main, event, flags, fhandle, served, use, open, stream, history>>

\* Worker w calls ControlChannelLoop() on what m1_use_udt_sock holds by now.
Enter(w) == /\ pc[w] = "enter"
            /\ served' = [served EXCEPT ![w] = use]
            /\ connected' = TRUE
            /\ Goto(w, "hello")
            /\ UNCHANGED <<main, event, flags, fhandle, use, open, avStarted, sender,
                           history>>

-----------------------------------------------------------------------------
(* Worker 2: WorkingThreadFn2().                                           *)

\* bind() and listen() succeed; when they fail the loop starts again.
Listen == /\ pc[2] = "idle" /\ ~inConnection1
          /\ Goto(2, "accept")
          /\ UNCHANGED <<main, event, flags, fhandle, served, use, open, stream, history>>

Accept(h) == /\ pc[2] = "accept" /\ Fresh(h)
             /\ open' = open \cup {h}
             /\ fhandle' = [fhandle EXCEPT ![2] = h]
             /\ Goto(2, "gate")
             /\ UNCHANGED <<main, event, flags, served, use, stream, history>>

AcceptFails == /\ pc[2] = "accept"
               /\ Goto(2, "idle")
               /\ UNCHANGED <<main, event, flags, fhandle, served, use, open, stream, history>>

\* Mutant: the connection that is dropped is not closed.
Drop2Leaks == /\ Goto(2, "idle")
              /\ UNCHANGED <<main, event, flags, fhandle, served, use, open, stream, history>>

Drop2 == /\ open' = open \ {fhandle[2]}
         /\ Goto(2, "idle")
         /\ UNCHANGED <<main, event, flags, fhandle, served, use, stream, history>>

\* Mutant: worker 2 does not look at m_InConnection1.
Gate2Open == /\ pc[2] = "gate"
             /\ Goto(2, "claim")
             /\ UNCHANGED <<main, event, flags, fhandle, served, use, open, stream, history>>

\* The connection is dropped while worker 1 is at work, and served otherwise.
Gate2 == /\ pc[2] = "gate"
         /\ IF inConnection1
            THEN Drop2
            ELSE /\ Goto(2, "claim")
                 /\ UNCHANGED <<main, event, flags, fhandle, served, use, open, stream, history>>

\* m_InConnection2 = TRUE
Claim == /\ pc[2] = "claim"
         /\ inConnection2' = TRUE
         /\ Goto(2, "share")
         /\ UNCHANGED <<main, event, inConnection1, fhandle, served, use, open, stream,
                        history>>

\* The thread that unregisters is created, then the m1_use_* fields are set.
Share == /\ pc[2] = "share"
         /\ use' = fhandle[2]
         /\ Goto(2, "enter")
         /\ UNCHANGED <<main, event, flags, fhandle, served, open, stream, history>>

-----------------------------------------------------------------------------
(* The end of a connection, of either worker.                              *)

\* UDT::close(m1_use_udt_sock)
Close(w) == /\ pc[w] = "close"
            /\ open' = open \ {use}
            /\ Goto(w, "clear")
            /\ UNCHANGED <<main, event, flags, fhandle, served, use, stream, history>>

\* Mutant: worker 2 ends its connection the way worker 1 does.
ClearAsWorker1(w) == /\ pc[w] = "clear"
                     /\ use' = 0
                     /\ fhandle' = [fhandle EXCEPT ![w] = 0]
                     /\ served' = [served EXCEPT ![w] = 0]
                     /\ Goto(w, "off")
                     /\ UNCHANGED <<main, event, flags, open, stream, history>>

\* m1_use_udt_sock = INVALID_SOCKET; the local variables end with the thread or
\* are not read again.
Clear(w) == /\ pc[w] = "clear"
            /\ use' = 0
            /\ fhandle' = [fhandle EXCEPT ![w] = 0]
            /\ served' = [served EXCEPT ![w] = 0]
            /\ Goto(w, IF w = 1 THEN "off" ELSE "release")
            /\ UNCHANGED <<main, event, flags, open, stream, history>>

\* m_InConnection2 = FALSE
Release == /\ pc[2] = "release"
           /\ inConnection2' = FALSE
           /\ Goto(2, "idle")
           /\ UNCHANGED <<main, event, inConnection1, fhandle, served, use, open, stream,
                          history>>

-----------------------------------------------------------------------------
Next == \/ EventArrives \/ Wake \/ Report \/ Join
        \/ \E h \in Handle : Publish(h) \/ Accept(h)
        \/ ConnectFails \/ Gate1
        \/ Listen \/ AcceptFails \/ Gate2 \/ Claim \/ Share \/ Release
        \/ \E w \in Worker : \/ Enter(w) \/ Hello(w) \/ AvStart(w) \/ AvStop(w)
                             \/ Leave(w) \/ SenderFreed(w) \/ Close(w) \/ Clear(w)

Spec == Init /\ [][Next]_vars

\* The threads run and an attempt to connect ends, but no peer has to come, to
\* speak or to leave.  Worker 2 looks at m_InConnection1 every 500 ms.  It need
\* not find it reset between two attempts: the main loop sleeps what is left of
\* the register period, which is nothing after an attempt that took longer.
Fairness ==
  /\ WF_vars(Wake) /\ WF_vars(Report) /\ WF_vars(Join)
  /\ WF_vars(ConnectFails \/ \E h \in Handle : Publish(h)) /\ WF_vars(Gate1)
  /\ WF_vars(Listen) /\ WF_vars(Gate2) /\ WF_vars(Claim) /\ WF_vars(Share)
  /\ WF_vars(Release)
  /\ \A w \in Worker : /\ WF_vars(Enter(w)) /\ WF_vars(SenderFreed(w))
                        /\ WF_vars(Close(w)) /\ WF_vars(Clear(w))

FairSpec == Spec /\ Fairness

-----------------------------------------------------------------------------
(* Why it works unless worker 2 is overtaken: the inductive invariant, in  *)
(* parts.                                                                  *)

\* What the flags say of the threads.
FlagsTell == /\ inConnection1 <=> main = "join"
             /\ pc[1] # "off" => inConnection1
             /\ inConnection2 <=>
                  pc[2] \in {"share", "enter", "close", "clear", "release"} \cup LoopPc
             /\ pc[1] \in {"enter"} \cup LoopPc => ~inConnection2
             /\ pc[2] = "claim" => pc[1] \in {"off", "connect"}

\* What worker 2 serves is its own, unless the fields were mixed up.
Unmixed ==
  /\ pc[2] \in {"share", "enter"} => pc[1] \in {"off", "connect"}
  /\ pc[2] = "enter" => use = fhandle[2] /\ use \in open
  /\ InLoop(2) => served[2] \in open
  /\ (InLoop(2) /\ pc[1] \in {"gate", "close"}) => use # served[2]

\* Who holds which socket, and which of them are open.
SocketsHeld ==
  /\ pc[1] \in {"off", "connect"} => fhandle[1] = 0
  /\ (pc[1] \in {"off", "connect"} /\ (inConnection2 => pc[2] \in {"share", "release"})) =>
       use = 0
  /\ (pc[1] \in {"gate", "enter"} /\ pc[2] # "clear") => use \in open \cup {0}
  /\ InLoop(1) => served[1] = use /\ use \in open \cup {0}
  /\ pc[2] \in {"gate", "claim", "share"} => /\ fhandle[2] \in open
                                             /\ fhandle[2] # use /\ fhandle[2] # fhandle[1]
  /\ pc[2] \in {"idle", "accept", "release"} => fhandle[2] \notin open
  /\ ~mixed => Unmixed

\* The sender lives from AV_START to the end of FakeRtpSend_uninit().
SenderLives ==
  /\ connected <=> InLoop(1) \/ InLoop(2)
  /\ avStarted => sender # NoSender /\ \E w \in Worker : pc[w] = "loop"
  /\ sender # NoSender => avStarted \/ \E w \in Worker : pc[w] \in {"stop", "leave"}
  /\ \A w \in Worker : pc[w] \in {"stop", "leave"} => ~avStarted
  /\ \A w \in Worker : (InLoop(w) /\ avStarted) => sender = served[w] \/ overlapped

\* As long as the workers have not overlapped, the shared field is the socket
\* of the one that is connected.
SharedIsOwn ==
  ~overlapped =>
    /\ inConnection2 => pc[1] \in {"off", "connect"}
    /\ pc[1] \notin {"off", "connect"} => use = fhandle[1]
    /\ pc[2] \in {"enter", "close", "clear"} \cup LoopPc => use = fhandle[2]
    /\ InLoop(2) => served[2] = use
    /\ (pc[1] = "clear" \/ pc[2] = "clear") => use \notin open
    /\ \A h \in open : h \in {use, fhandle[1], fhandle[2]}

IInv == /\ TypeOK
        /\ overtaken \/ (FlagsTell /\ SocketsHeld /\ SenderLives /\ SharedIsOwn)

-----------------------------------------------------------------------------
\* "ControlChannelLoop() is executed by only one thread at a time", or
\* RecvStream() would not be safe.
OneControlChannel == ~(InLoop(1) /\ InLoop(2))

\* The two tests of flags that are not locked keep the loop to one thread,
\* unless worker 1 is started, connects and fills the shared fields while
\* worker 2 goes from one statement to the next.
OneChannelUnlessOvertaken == overtaken \/ OneControlChannel

\* A worker never reads from a socket that the other one has closed through the
\* shared field: what it serves is open, or was invalid from the start.  Not so
\* when worker 1 has connected while worker 2 went from its test of the flag to
\* its call of the loop: the fields may then name either socket, and worker 1,
\* which finds the flag set and drops its connection, closes what they name.
ServedNotClosed ==
  overtaken \/ mixed \/ \A w \in Worker : InLoop(w) => served[w] \in open \cup {0}

\* Nothing streams once the control channel has ended, and while it lasts the
\* flag the media thread tests never promises a sender that is gone.
StreamEndsWithChannel ==
  overtaken \/ /\ avStarted => sender # NoSender
               /\ (~InLoop(1) /\ ~InLoop(2)) => ~connected /\ ~avStarted /\ sender = NoSender

\* The stream goes to the peer that is served, unless worker 1 has put its own
\* socket in the shared fields in the meantime.
StreamGoesToPeer ==
  \A w \in Worker : (InLoop(w) /\ avStarted) => sender = served[w] \/ overlapped \/ overtaken

\* A socket that nobody will close any more was lost because worker 1 came in
\* with an event while worker 2 served, and not otherwise.
LostOnlyByOverlap ==
  (\E h \in open : h # use /\ h # fhandle[1] /\ h # fhandle[2]) => overlapped \/ overtaken

\* However connections fail, are dropped or end, neither flag stays set for good:
\* again and again the listener waits, a control channel is up, or worker 1 is
\* trying the peer of a new event.
Reachable ==
  []<>(pc[2] = "accept" \/ InLoop(1) \/ InLoop(2) \/ pc[1] = "connect")
=============================================================================
