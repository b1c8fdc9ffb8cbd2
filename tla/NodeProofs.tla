----------------------------- MODULE NodeProofs -----------------------------
(***************************************************************************)
(* A node for all values of its constants.                                 *)
(*                                                                         *)
(* Its control channel: IInv is inductive, and with it the unlocked flags  *)
(* keep the control channel to one thread and nothing streams without a    *)
(* channel, unless worker 2 is overtaken between its test and its set of   *)
(* the flags; and what is served stays open, unless it is overtaken there  *)
(* or before it calls the loop.                                            *)
(*                                                                         *)
(* Its packet queues: QueueInv is inductive, so that a queue is in order   *)
(* and a peer misses no packet, however the receive threads and the burst  *)
(* of the IPC thread interleave, until one of the flags of the exceptions  *)
(* is up.                                                                  *)
(*                                                                         *)
(* Its media source: from MediaSourceProofs.  And the node itself behaves, *)
(* in each of the three, as the module of that part allows.                *)
(***************************************************************************)
EXTENDS MCNode, SequenceTheorems, FiniteSetTheorems, WellFoundedInduction, TLAPS

\* The theorems about MediaSource, for the variables of the node.
MP == INSTANCE MediaSourceProofs WITH connected <- up

-----------------------------------------------------------------------------
(* The control channel.                                                    *)

\* The parts of IInv that need worker 2 not to have been overtaken.
Parts == FlagsTell /\ SocketsHeld /\ SenderLives /\ SharedIsOwn

\* Initially no thread has a socket.
LEMMA InitIInv == Init => IInv
BY ControlAssumption
   DEF Init, IInv, TypeOK, WorkerPc, FlagsTell, SocketsHeld, Unmixed, SenderLives, SharedIsOwn, InLoop, LoopPc,
       WorkerPc, Worker, Handle, NoSender

-----------------------------------------------------------------------------
(* Each action keeps the invariant: the types in any case, the parts as    *)
(* long as worker 2 has not been overtaken.                                *)

LEMMA EventArrivesKeeps ==
  ASSUME IInv, EventArrives
  PROVE  IInv'
<1> USE ControlAssumption
    DEF IInv, EventArrives,
       flags, stream, history, Worker, Handle, NoSender, InLoop, LoopPc
<1>1. TypeOK'
  BY DEF TypeOK, WorkerPc
<1>2. ASSUME ~overtaken' PROVE Parts'
  <2>1. Parts /\ TypeOK
    BY <1>2 DEF Parts
  <2>2. FlagsTell'
    BY <1>2, <2>1 DEF Parts, TypeOK, WorkerPc, FlagsTell
  <2>3. SocketsHeld'
    BY <1>2, <2>1 DEF Parts, TypeOK, WorkerPc, FlagsTell, SocketsHeld, Unmixed
  <2>4. SenderLives'
    BY <1>2, <2>1 DEF Parts, TypeOK, WorkerPc, FlagsTell, SocketsHeld, Unmixed, SenderLives, SharedIsOwn
  <2>5. SharedIsOwn'
    BY <1>2, <2>1 DEF Parts, TypeOK, WorkerPc, FlagsTell, SocketsHeld, Unmixed, SharedIsOwn
  <2>6. QED
    BY <2>2, <2>3, <2>4, <2>5 DEF Parts
<1>3. QED
  BY <1>1, <1>2 DEF Parts

LEMMA WakeKeeps ==
  ASSUME IInv, Wake
  PROVE  IInv'
<1> USE ControlAssumption
    DEF IInv, Wake, Goto,
       flags, stream, history, Worker, Handle, NoSender, InLoop, LoopPc
<1>1. TypeOK'
  BY DEF TypeOK, WorkerPc
<1>2. ASSUME ~overtaken' PROVE Parts'
  <2>1. Parts /\ TypeOK
    BY <1>2 DEF Parts
  <2>2. FlagsTell'
    BY <1>2, <2>1 DEF Parts, TypeOK, WorkerPc, FlagsTell
  <2>3. SocketsHeld'
    BY <1>2, <2>1 DEF Parts, TypeOK, WorkerPc, FlagsTell, SocketsHeld, Unmixed
  <2>4. SenderLives'
    BY <1>2, <2>1 DEF Parts, TypeOK, WorkerPc, FlagsTell, SocketsHeld, Unmixed, SenderLives, SharedIsOwn
  <2>5. SharedIsOwn'
    BY <1>2, <2>1 DEF Parts, TypeOK, WorkerPc, FlagsTell, SocketsHeld, Unmixed, SharedIsOwn
  <2>6. QED
    BY <2>2, <2>3, <2>4, <2>5 DEF Parts
<1>3. QED
  BY <1>1, <1>2 DEF Parts

LEMMA ReportKeeps ==
  ASSUME IInv, Report
  PROVE  IInv'
<1> USE ControlAssumption
    DEF IInv, Report, Goto,
       flags, stream, history, Worker, Handle, NoSender, InLoop, LoopPc
<1>1. TypeOK'
  BY DEF TypeOK, WorkerPc
<1>2. ASSUME ~overtaken' PROVE Parts'
  <2>1. Parts /\ TypeOK
    BY <1>2 DEF Parts
  <2>2. FlagsTell'
    BY <1>2, <2>1 DEF Parts, TypeOK, WorkerPc, FlagsTell
  <2>3. SocketsHeld'
    BY <1>2, <2>1 DEF Parts, TypeOK, WorkerPc, FlagsTell, SocketsHeld, Unmixed
  <2>4. SenderLives'
    BY <1>2, <2>1 DEF Parts, TypeOK, WorkerPc, FlagsTell, SocketsHeld, Unmixed, SenderLives, SharedIsOwn
  <2>5. SharedIsOwn'
    BY <1>2, <2>1 DEF Parts, TypeOK, WorkerPc, FlagsTell, SocketsHeld, Unmixed, SharedIsOwn
  <2>6. QED
    BY <2>2, <2>3, <2>4, <2>5 DEF Parts
<1>3. QED
  BY <1>1, <1>2 DEF Parts

LEMMA JoinKeeps ==
  ASSUME IInv, Join
  PROVE  IInv'
<1> USE ControlAssumption
    DEF IInv, Join, Goto,
       flags, stream, history, Worker, Handle, NoSender, InLoop, LoopPc
<1>1. TypeOK'
  BY DEF TypeOK, WorkerPc
<1>2. ASSUME ~overtaken' PROVE Parts'
  <2>1. Parts /\ TypeOK
    BY <1>2 DEF Parts
  <2>2. FlagsTell'
    BY <1>2, <2>1 DEF Parts, TypeOK, WorkerPc, FlagsTell
  <2>3. SocketsHeld'
    BY <1>2, <2>1 DEF Parts, TypeOK, WorkerPc, FlagsTell, SocketsHeld, Unmixed
  <2>4. SenderLives'
    BY <1>2, <2>1 DEF Parts, TypeOK, WorkerPc, FlagsTell, SocketsHeld, Unmixed, SenderLives, SharedIsOwn
  <2>5. SharedIsOwn'
    BY <1>2, <2>1 DEF Parts, TypeOK, WorkerPc, FlagsTell, SocketsHeld, Unmixed, SharedIsOwn
  <2>6. QED
    BY <2>2, <2>3, <2>4, <2>5 DEF Parts
<1>3. QED
  BY <1>1, <1>2 DEF Parts

LEMMA PublishKeeps ==
  ASSUME IInv, NEW h \in Handle, Publish(h)
  PROVE  IInv'
<1> USE ControlAssumption
    DEF IInv, Publish, Fresh, Goto,
       flags, stream, history, Worker, Handle, NoSender, InLoop, LoopPc
<1>1. TypeOK'
  BY DEF TypeOK, WorkerPc
<1>2. ASSUME ~overtaken' PROVE Parts'
  <2>1. Parts /\ TypeOK
    BY <1>2 DEF Parts
  <2>2. FlagsTell'
    BY <1>2, <2>1 DEF Parts, TypeOK, WorkerPc, FlagsTell
  <2>3. SocketsHeld'
    BY <1>2, <2>1 DEF Parts, TypeOK, WorkerPc, FlagsTell, SocketsHeld, Unmixed
  <2>4. SenderLives'
    BY <1>2, <2>1 DEF Parts, TypeOK, WorkerPc, FlagsTell, SocketsHeld, Unmixed, SenderLives, SharedIsOwn
  <2>5. SharedIsOwn'
    BY <1>2, <2>1 DEF Parts, TypeOK, WorkerPc, FlagsTell, SocketsHeld, Unmixed, SharedIsOwn
  <2>6. QED
    BY <2>2, <2>3, <2>4, <2>5 DEF Parts
<1>3. QED
  BY <1>1, <1>2 DEF Parts

LEMMA AcceptKeeps ==
  ASSUME IInv, NEW h \in Handle, Accept(h)
  PROVE  IInv'
<1> USE ControlAssumption
    DEF IInv, Accept, Fresh, Goto,
       flags, stream, history, Worker, Handle, NoSender, InLoop, LoopPc
<1>1. TypeOK'
  BY DEF TypeOK, WorkerPc
<1>2. ASSUME ~overtaken' PROVE Parts'
  <2>1. Parts /\ TypeOK
    BY <1>2 DEF Parts
  <2>2. FlagsTell'
    BY <1>2, <2>1 DEF Parts, TypeOK, WorkerPc, FlagsTell
  <2>3. SocketsHeld'
    BY <1>2, <2>1 DEF Parts, TypeOK, WorkerPc, FlagsTell, SocketsHeld, Unmixed
  <2>4. SenderLives'
    BY <1>2, <2>1 DEF Parts, TypeOK, WorkerPc, FlagsTell, SocketsHeld, Unmixed, SenderLives, SharedIsOwn
  <2>5. SharedIsOwn'
    BY <1>2, <2>1 DEF Parts, TypeOK, WorkerPc, FlagsTell, SocketsHeld, Unmixed, SharedIsOwn
  <2>6. QED
    BY <2>2, <2>3, <2>4, <2>5 DEF Parts
<1>3. QED
  BY <1>1, <1>2 DEF Parts

LEMMA ConnectFailsKeeps ==
  ASSUME IInv, ConnectFails
  PROVE  IInv'
<1> USE ControlAssumption
    DEF IInv, ConnectFails, Goto,
       flags, stream, history, Worker, Handle, NoSender, InLoop, LoopPc
<1>1. TypeOK'
  BY DEF TypeOK, WorkerPc
<1>2. ASSUME ~overtaken' PROVE Parts'
  <2>1. Parts /\ TypeOK
    BY <1>2 DEF Parts
  <2>2. FlagsTell'
    BY <1>2, <2>1 DEF Parts, TypeOK, WorkerPc, FlagsTell
  <2>3. SocketsHeld'
    BY <1>2, <2>1 DEF Parts, TypeOK, WorkerPc, FlagsTell, SocketsHeld, Unmixed
  <2>4. SenderLives'
    BY <1>2, <2>1 DEF Parts, TypeOK, WorkerPc, FlagsTell, SocketsHeld, Unmixed, SenderLives, SharedIsOwn
  <2>5. SharedIsOwn'
    BY <1>2, <2>1 DEF Parts, TypeOK, WorkerPc, FlagsTell, SocketsHeld, Unmixed, SharedIsOwn
  <2>6. QED
    BY <2>2, <2>3, <2>4, <2>5 DEF Parts
<1>3. QED
  BY <1>1, <1>2 DEF Parts

LEMMA Gate1Keeps ==
  ASSUME IInv, Gate1
  PROVE  IInv'
<1> USE ControlAssumption
    DEF IInv, Gate1, Goto,
       flags, stream, history, Worker, Handle, NoSender, InLoop, LoopPc
<1>1. TypeOK'
  BY DEF TypeOK, WorkerPc
<1>2. ASSUME ~overtaken' PROVE Parts'
  <2>1. Parts /\ TypeOK
    BY <1>2 DEF Parts
  <2>2. FlagsTell'
    BY <1>2, <2>1 DEF Parts, TypeOK, WorkerPc, FlagsTell
  <2>3. SocketsHeld'
    BY <1>2, <2>1 DEF Parts, TypeOK, WorkerPc, FlagsTell, SocketsHeld, Unmixed
  <2>4. SenderLives'
    BY <1>2, <2>1 DEF Parts, TypeOK, WorkerPc, FlagsTell, SocketsHeld, Unmixed, SenderLives, SharedIsOwn
  <2>5. SharedIsOwn'
    BY <1>2, <2>1 DEF Parts, TypeOK, WorkerPc, FlagsTell, SocketsHeld, Unmixed, SharedIsOwn
  <2>6. QED
    BY <2>2, <2>3, <2>4, <2>5 DEF Parts
<1>3. QED
  BY <1>1, <1>2 DEF Parts

LEMMA ListenKeeps ==
  ASSUME IInv, Listen
  PROVE  IInv'
<1> USE ControlAssumption
    DEF IInv, Listen, Goto,
       flags, stream, history, Worker, Handle, NoSender, InLoop, LoopPc
<1>1. TypeOK'
  BY DEF TypeOK, WorkerPc
<1>2. ASSUME ~overtaken' PROVE Parts'
  <2>1. Parts /\ TypeOK
    BY <1>2 DEF Parts
  <2>2. FlagsTell'
    BY <1>2, <2>1 DEF Parts, TypeOK, WorkerPc, FlagsTell
  <2>3. SocketsHeld'
    BY <1>2, <2>1 DEF Parts, TypeOK, WorkerPc, FlagsTell, SocketsHeld, Unmixed
  <2>4. SenderLives'
    BY <1>2, <2>1 DEF Parts, TypeOK, WorkerPc, FlagsTell, SocketsHeld, Unmixed, SenderLives, SharedIsOwn
  <2>5. SharedIsOwn'
    BY <1>2, <2>1 DEF Parts, TypeOK, WorkerPc, FlagsTell, SocketsHeld, Unmixed, SharedIsOwn
  <2>6. QED
    BY <2>2, <2>3, <2>4, <2>5 DEF Parts
<1>3. QED
  BY <1>1, <1>2 DEF Parts

LEMMA AcceptFailsKeeps ==
  ASSUME IInv, AcceptFails
  PROVE  IInv'
<1> USE ControlAssumption
    DEF IInv, AcceptFails, Goto,
       flags, stream, history, Worker, Handle, NoSender, InLoop, LoopPc
<1>1. TypeOK'
  BY DEF TypeOK, WorkerPc
<1>2. ASSUME ~overtaken' PROVE Parts'
  <2>1. Parts /\ TypeOK
    BY <1>2 DEF Parts
  <2>2. FlagsTell'
    BY <1>2, <2>1 DEF Parts, TypeOK, WorkerPc, FlagsTell
  <2>3. SocketsHeld'
    BY <1>2, <2>1 DEF Parts, TypeOK, WorkerPc, FlagsTell, SocketsHeld, Unmixed
  <2>4. SenderLives'
    BY <1>2, <2>1 DEF Parts, TypeOK, WorkerPc, FlagsTell, SocketsHeld, Unmixed, SenderLives, SharedIsOwn
  <2>5. SharedIsOwn'
    BY <1>2, <2>1 DEF Parts, TypeOK, WorkerPc, FlagsTell, SocketsHeld, Unmixed, SharedIsOwn
  <2>6. QED
    BY <2>2, <2>3, <2>4, <2>5 DEF Parts
<1>3. QED
  BY <1>1, <1>2 DEF Parts

LEMMA Gate2Keeps ==
  ASSUME IInv, Gate2
  PROVE  IInv'
<1> USE ControlAssumption
    DEF IInv, flags, stream, history, Worker, Handle, NoSender, InLoop, LoopPc
<1>1. CASE inConnection1
  <2>1. /\ pc[2] = "gate" /\ open' = open \ {fhandle[2]} /\ pc' = [pc EXCEPT ![2] = "idle"]
        /\ UNCHANGED <<main, event, flags, fhandle, served, use, stream, history>>
    BY <1>1 DEF Gate2, Drop2, Goto
  <2>2. TypeOK'
    <3>1. TypeOK
      OBVIOUS
    <3>2. "idle" \in WorkerPc[2] /\ WorkerPc[2] \subseteq WorkerPc[1] \cup WorkerPc[2]
      BY DEF WorkerPc
    <3>3. pc' \in [Worker -> WorkerPc[1] \cup WorkerPc[2]] /\ \A w \in Worker : pc'[w] \in WorkerPc[w]
      BY <2>1, <3>1, <3>2 DEF TypeOK
    <3>4. open' \subseteq Handle
      BY <2>1, <3>1 DEF TypeOK
    <3>5. QED
      BY <2>1, <3>1, <3>3, <3>4 DEF TypeOK
  <2>3. ASSUME ~overtaken' PROVE Parts'
    <3>1. Parts /\ TypeOK
      BY <2>1, <2>3 DEF Parts
    <3>2. FlagsTell'
      BY <2>1, <3>1 DEF Parts, TypeOK, WorkerPc, FlagsTell
    <3>3. SocketsHeld'
      BY <2>1, <3>1 DEF Parts, TypeOK, WorkerPc, FlagsTell, SocketsHeld, Unmixed
    <3>4. SenderLives'
      BY <2>1, <3>1 DEF Parts, TypeOK, WorkerPc, SenderLives
    <3>5. SharedIsOwn'
      BY <2>1, <3>1 DEF Parts, TypeOK, WorkerPc, FlagsTell, SharedIsOwn
    <3>6. QED
      BY <3>2, <3>3, <3>4, <3>5 DEF Parts
  <2>4. QED
    BY <2>2, <2>3 DEF Parts
<1>2. CASE ~inConnection1
  <2>1. /\ pc[2] = "gate" /\ pc' = [pc EXCEPT ![2] = "claim"]
        /\ UNCHANGED <<main, event, flags, fhandle, served, use, open, stream, history>>
    BY <1>2 DEF Gate2, Goto
  <2>2. TypeOK'
    BY <2>1 DEF TypeOK, WorkerPc
  <2>3. ASSUME ~overtaken' PROVE Parts'
    <3>1. Parts /\ TypeOK
      BY <2>1, <2>3 DEF Parts
    <3>2. FlagsTell'
      BY <1>2, <2>1, <3>1 DEF Parts, TypeOK, WorkerPc, FlagsTell
    <3>3. SocketsHeld'
      BY <2>1, <3>1 DEF Parts, TypeOK, WorkerPc, FlagsTell, SocketsHeld, Unmixed
    <3>4. SenderLives'
      BY <2>1, <3>1 DEF Parts, TypeOK, WorkerPc, SenderLives
    <3>5. SharedIsOwn'
      BY <2>1, <3>1 DEF Parts, TypeOK, WorkerPc, FlagsTell, SharedIsOwn
    <3>6. QED
      BY <3>2, <3>3, <3>4, <3>5 DEF Parts
  <2>4. QED
    BY <2>2, <2>3 DEF Parts
<1>3. QED
  BY <1>1, <1>2

LEMMA ClaimKeeps ==
  ASSUME IInv, Claim
  PROVE  IInv'
<1> USE ControlAssumption
    DEF IInv, Claim, Goto,
       flags, stream, history, Worker, Handle, NoSender, InLoop, LoopPc
<1>1. TypeOK'
  BY DEF TypeOK, WorkerPc
<1>2. ASSUME ~overtaken' PROVE Parts'
  <2>1. Parts /\ TypeOK
    BY <1>2 DEF Parts
  <2>2. FlagsTell'
    BY <1>2, <2>1 DEF Parts, TypeOK, WorkerPc, FlagsTell
  <2>3. SocketsHeld'
    BY <1>2, <2>1 DEF Parts, TypeOK, WorkerPc, FlagsTell, SocketsHeld, Unmixed
  <2>4. SenderLives'
    BY <1>2, <2>1 DEF Parts, TypeOK, WorkerPc, FlagsTell, SocketsHeld, Unmixed, SenderLives, SharedIsOwn
  <2>5. SharedIsOwn'
    BY <1>2, <2>1 DEF Parts, TypeOK, WorkerPc, FlagsTell, SocketsHeld, Unmixed, SharedIsOwn
  <2>6. QED
    BY <2>2, <2>3, <2>4, <2>5 DEF Parts
<1>3. QED
  BY <1>1, <1>2 DEF Parts

LEMMA ShareKeeps ==
  ASSUME IInv, Share
  PROVE  IInv'
<1> USE ControlAssumption
    DEF IInv, Share, Goto,
       flags, stream, history, Worker, Handle, NoSender, InLoop, LoopPc
<1>1. TypeOK'
  BY DEF TypeOK, WorkerPc
<1>2. ASSUME ~overtaken' PROVE Parts'
  <2>1. Parts /\ TypeOK
    BY <1>2 DEF Parts
  <2>2. FlagsTell'
    BY <1>2, <2>1 DEF Parts, TypeOK, WorkerPc, FlagsTell
  <2>3. SocketsHeld'
    BY <1>2, <2>1 DEF Parts, TypeOK, WorkerPc, FlagsTell, SocketsHeld, Unmixed
  <2>4. SenderLives'
    BY <1>2, <2>1 DEF Parts, TypeOK, WorkerPc, FlagsTell, SocketsHeld, Unmixed, SenderLives, SharedIsOwn
  <2>5. SharedIsOwn'
    BY <1>2, <2>1 DEF Parts, TypeOK, WorkerPc, FlagsTell, SocketsHeld, Unmixed, SharedIsOwn
  <2>6. QED
    BY <2>2, <2>3, <2>4, <2>5 DEF Parts
<1>3. QED
  BY <1>1, <1>2 DEF Parts

LEMMA EnterKeeps ==
  ASSUME IInv, NEW w \in Worker, Enter(w)
  PROVE  IInv'
<1> USE ControlAssumption
    DEF IInv, Enter, Goto,
       flags, stream, history, Worker, Handle, NoSender, InLoop, LoopPc
<1>1. TypeOK'
  BY DEF TypeOK, WorkerPc
<1>2. ASSUME ~overtaken' PROVE Parts'
  <2>1. Parts /\ TypeOK
    BY <1>2 DEF Parts
  <2>2. FlagsTell'
    BY <1>2, <2>1 DEF Parts, TypeOK, WorkerPc, FlagsTell
  <2>3. SocketsHeld'
    BY <1>2, <2>1 DEF Parts, TypeOK, WorkerPc, FlagsTell, SocketsHeld, Unmixed
  <2>4. SenderLives'
    BY <1>2, <2>1 DEF Parts, TypeOK, WorkerPc, FlagsTell, SocketsHeld, Unmixed, SenderLives, SharedIsOwn
  <2>5. SharedIsOwn'
    BY <1>2, <2>1 DEF Parts, TypeOK, WorkerPc, FlagsTell, SocketsHeld, Unmixed, SharedIsOwn
  <2>6. QED
    BY <2>2, <2>3, <2>4, <2>5 DEF Parts
<1>3. QED
  BY <1>1, <1>2 DEF Parts

LEMMA ReleaseKeeps ==
  ASSUME IInv, Release
  PROVE  IInv'
<1> USE ControlAssumption
    DEF IInv, Release, Goto,
       flags, stream, history, Worker, Handle, NoSender, InLoop, LoopPc
<1>1. TypeOK'
  BY DEF TypeOK, WorkerPc
<1>2. ASSUME ~overtaken' PROVE Parts'
  <2>1. Parts /\ TypeOK
    BY <1>2 DEF Parts
  <2>2. FlagsTell'
    BY <1>2, <2>1 DEF Parts, TypeOK, WorkerPc, FlagsTell
  <2>3. SocketsHeld'
    BY <1>2, <2>1 DEF Parts, TypeOK, WorkerPc, FlagsTell, SocketsHeld, Unmixed
  <2>4. SenderLives'
    BY <1>2, <2>1 DEF Parts, TypeOK, WorkerPc, FlagsTell, SocketsHeld, Unmixed, SenderLives, SharedIsOwn
  <2>5. SharedIsOwn'
    BY <1>2, <2>1 DEF Parts, TypeOK, WorkerPc, FlagsTell, SocketsHeld, Unmixed, SharedIsOwn
  <2>6. QED
    BY <2>2, <2>3, <2>4, <2>5 DEF Parts
<1>3. QED
  BY <1>1, <1>2 DEF Parts

LEMMA HelloKeeps ==
  ASSUME IInv, NEW w \in Worker, Hello(w)
  PROVE  IInv'
<1> USE ControlAssumption
    DEF IInv, Hello, AtPeer, Goto,
       flags, stream, history, Worker, Handle, NoSender, InLoop, LoopPc
<1>1. TypeOK'
  BY DEF TypeOK, WorkerPc
<1>2. ASSUME ~overtaken' PROVE Parts'
  <2>1. Parts /\ TypeOK
    BY <1>2 DEF Parts
  <2>2. FlagsTell'
    BY <1>2, <2>1 DEF Parts, TypeOK, WorkerPc, FlagsTell
  <2>3. SocketsHeld'
    BY <1>2, <2>1 DEF Parts, TypeOK, WorkerPc, FlagsTell, SocketsHeld, Unmixed
  <2>4. SenderLives'
    BY <1>2, <2>1 DEF Parts, TypeOK, WorkerPc, FlagsTell, SocketsHeld, Unmixed, SenderLives, SharedIsOwn
  <2>5. SharedIsOwn'
    BY <1>2, <2>1 DEF Parts, TypeOK, WorkerPc, FlagsTell, SocketsHeld, Unmixed, SharedIsOwn
  <2>6. QED
    BY <2>2, <2>3, <2>4, <2>5 DEF Parts
<1>3. QED
  BY <1>1, <1>2 DEF Parts

LEMMA AvStartKeeps ==
  ASSUME IInv, NEW w \in Worker, AvStart(w)
  PROVE  IInv'
<1> USE ControlAssumption
    DEF IInv, AvStart, AtPeer,
       flags, stream, history, Worker, Handle, NoSender, InLoop, LoopPc
<1>1. TypeOK'
  BY DEF TypeOK, WorkerPc
<1>2. ASSUME ~overtaken' PROVE Parts'
  <2>1. Parts /\ TypeOK
    BY <1>2 DEF Parts
  <2>2. FlagsTell'
    BY <1>2, <2>1 DEF Parts, TypeOK, WorkerPc, FlagsTell
  <2>3. SocketsHeld'
    BY <1>2, <2>1 DEF Parts, TypeOK, WorkerPc, FlagsTell, SocketsHeld, Unmixed
  <2>4. SenderLives'
    BY <1>2, <2>1 DEF Parts, TypeOK, WorkerPc, FlagsTell, SocketsHeld, Unmixed, SenderLives, SharedIsOwn
  <2>5. SharedIsOwn'
    BY <1>2, <2>1 DEF Parts, TypeOK, WorkerPc, FlagsTell, SocketsHeld, Unmixed, SharedIsOwn
  <2>6. QED
    BY <2>2, <2>3, <2>4, <2>5 DEF Parts
<1>3. QED
  BY <1>1, <1>2 DEF Parts

LEMMA AvStopKeeps ==
  ASSUME IInv, NEW w \in Worker, AvStop(w)
  PROVE  IInv'
<1> USE ControlAssumption
    DEF IInv, AvStop, AtPeer, Goto,
       flags, stream, history, Worker, Handle, NoSender, InLoop, LoopPc
<1>1. TypeOK'
  BY DEF TypeOK, WorkerPc
<1>2. ASSUME ~overtaken' PROVE Parts'
  <2>1. Parts /\ TypeOK
    BY <1>2 DEF Parts
  <2>2. FlagsTell'
    BY <1>2, <2>1 DEF Parts, TypeOK, WorkerPc, FlagsTell
  <2>3. SocketsHeld'
    BY <1>2, <2>1 DEF Parts, TypeOK, WorkerPc, FlagsTell, SocketsHeld, Unmixed
  <2>4. SenderLives'
    BY <1>2, <2>1 DEF Parts, TypeOK, WorkerPc, FlagsTell, SocketsHeld, Unmixed, SenderLives, SharedIsOwn
  <2>5. SharedIsOwn'
    BY <1>2, <2>1 DEF Parts, TypeOK, WorkerPc, FlagsTell, SocketsHeld, Unmixed, SharedIsOwn
  <2>6. QED
    BY <2>2, <2>3, <2>4, <2>5 DEF Parts
<1>3. QED
  BY <1>1, <1>2 DEF Parts

\* A worker goes to a place where each of the two can be.
LEMMA GotoTypes ==
  ASSUME TypeOK, NEW w \in Worker, NEW to \in LoopPc \cup {"close"}, Goto(w, to)
  PROVE  /\ pc' \in [Worker -> WorkerPc[1] \cup WorkerPc[2]]
         /\ \A v \in Worker : pc'[v] \in WorkerPc[v]
<1>1. \A v \in Worker : to \in WorkerPc[v]
  BY DEF WorkerPc, Worker
<1>2. 1 \in Worker /\ pc' = [pc EXCEPT ![w] = to]
  BY DEF Goto, Worker
<1>3. QED
  BY <1>1, <1>2 DEF TypeOK

LEMMA LeaveKeeps ==
  ASSUME IInv, NEW w \in Worker, Leave(w)
  PROVE  IInv'
<1> USE ControlAssumption
    DEF IInv, Leave, AtPeer, Goto,
       flags, stream, history, Worker, Handle, NoSender, InLoop, LoopPc
<1>1. TypeOK'
  <2>1. \E to \in LoopPc \cup {"close"} : Goto(w, to)
    OBVIOUS
  <2> HIDE DEF Goto, LoopPc
  <2>2. /\ pc' \in [Worker -> WorkerPc[1] \cup WorkerPc[2]]
        /\ \A v \in Worker : pc'[v] \in WorkerPc[v]
    BY <2>1, GotoTypes
  <2>3. QED
    BY <2>2 DEF TypeOK
<1>2. ASSUME ~overtaken' PROVE Parts'
  <2>1. Parts /\ TypeOK
    BY <1>2 DEF Parts
  <2>2. FlagsTell'
    BY <1>2, <2>1 DEF Parts, TypeOK, WorkerPc, FlagsTell
  <2>3. SocketsHeld'
    BY <1>2, <2>1 DEF Parts, TypeOK, WorkerPc, FlagsTell, SocketsHeld, Unmixed
  <2>4. SenderLives'
    BY <1>2, <2>1 DEF Parts, TypeOK, WorkerPc, FlagsTell, SocketsHeld, Unmixed, SenderLives, SharedIsOwn
  <2>5. SharedIsOwn'
    BY <1>2, <2>1 DEF Parts, TypeOK, WorkerPc, FlagsTell, SocketsHeld, Unmixed, SharedIsOwn
  <2>6. QED
    BY <2>2, <2>3, <2>4, <2>5 DEF Parts
<1>3. QED
  BY <1>1, <1>2 DEF Parts

LEMMA SenderFreedKeeps ==
  ASSUME IInv, NEW w \in Worker, SenderFreed(w)
  PROVE  IInv'
<1> USE ControlAssumption
    DEF IInv, SenderFreed, AtPeer, Goto,
       flags, stream, history, Worker, Handle, NoSender, InLoop, LoopPc
<1>1. TypeOK'
  <2>1. \E to \in LoopPc \cup {"close"} : Goto(w, to)
    OBVIOUS
  <2> HIDE DEF Goto, LoopPc
  <2>2. /\ pc' \in [Worker -> WorkerPc[1] \cup WorkerPc[2]]
        /\ \A v \in Worker : pc'[v] \in WorkerPc[v]
    BY <2>1, GotoTypes
  <2>3. QED
    BY <2>2 DEF TypeOK
<1>2. ASSUME ~overtaken' PROVE Parts'
  <2>1. Parts /\ TypeOK
    BY <1>2 DEF Parts
  <2>2. FlagsTell'
    BY <1>2, <2>1 DEF Parts, TypeOK, WorkerPc, FlagsTell
  <2>3. SocketsHeld'
    BY <1>2, <2>1 DEF Parts, TypeOK, WorkerPc, FlagsTell, SocketsHeld, Unmixed
  <2>4. SenderLives'
    BY <1>2, <2>1 DEF Parts, TypeOK, WorkerPc, FlagsTell, SocketsHeld, Unmixed, SenderLives, SharedIsOwn
  <2>5. SharedIsOwn'
    BY <1>2, <2>1 DEF Parts, TypeOK, WorkerPc, FlagsTell, SocketsHeld, Unmixed, SharedIsOwn
  <2>6. QED
    BY <2>2, <2>3, <2>4, <2>5 DEF Parts
<1>3. QED
  BY <1>1, <1>2 DEF Parts

LEMMA CloseKeeps ==
  ASSUME IInv, NEW w \in Worker, Close(w)
  PROVE  IInv'
<1> USE ControlAssumption
    DEF IInv, Close, Goto,
       flags, stream, history, Worker, Handle, NoSender, InLoop, LoopPc
<1>1. TypeOK'
  BY DEF TypeOK, WorkerPc
<1>2. ASSUME ~overtaken' PROVE Parts'
  <2>1. Parts /\ TypeOK
    BY <1>2 DEF Parts
  <2>2. FlagsTell'
    BY <1>2, <2>1 DEF Parts, TypeOK, WorkerPc, FlagsTell
  <2>3. SocketsHeld'
    BY <1>2, <2>1 DEF Parts, TypeOK, WorkerPc, FlagsTell, SocketsHeld, Unmixed
  <2>4. SenderLives'
    BY <1>2, <2>1 DEF Parts, TypeOK, WorkerPc, FlagsTell, SocketsHeld, Unmixed, SenderLives, SharedIsOwn
  <2>5. SharedIsOwn'
    BY <1>2, <2>1 DEF Parts, TypeOK, WorkerPc, FlagsTell, SocketsHeld, Unmixed, SharedIsOwn
  <2>6. QED
    BY <2>2, <2>3, <2>4, <2>5 DEF Parts
<1>3. QED
  BY <1>1, <1>2 DEF Parts

LEMMA ClearKeeps ==
  ASSUME IInv, NEW w \in Worker, Clear(w)
  PROVE  IInv'
<1> USE ControlAssumption
    DEF IInv, Clear, Goto,
       flags, stream, history, Worker, Handle, NoSender, InLoop, LoopPc
<1>1. TypeOK'
  BY DEF TypeOK, WorkerPc
<1>2. ASSUME ~overtaken' PROVE Parts'
  <2>1. Parts /\ TypeOK
    BY <1>2 DEF Parts
  <2>2. FlagsTell'
    BY <1>2, <2>1 DEF Parts, TypeOK, WorkerPc, FlagsTell
  <2>3. SocketsHeld'
    BY <1>2, <2>1 DEF Parts, TypeOK, WorkerPc, FlagsTell, SocketsHeld, Unmixed
  <2>4. SenderLives'
    BY <1>2, <2>1 DEF Parts, TypeOK, WorkerPc, FlagsTell, SocketsHeld, Unmixed, SenderLives, SharedIsOwn
  <2>5. SharedIsOwn'
    BY <1>2, <2>1 DEF Parts, TypeOK, WorkerPc, FlagsTell, SocketsHeld, Unmixed, SharedIsOwn
  <2>6. QED
    BY <2>2, <2>3, <2>4, <2>5 DEF Parts
<1>3. QED
  BY <1>1, <1>2 DEF Parts

LEMMA StutterKeeps ==
  ASSUME IInv, UNCHANGED vars
  PROVE  IInv'
BY DEF IInv, vars, flags, stream, history, TypeOK, FlagsTell, SocketsHeld, Unmixed, SenderLives,
       SharedIsOwn, InLoop

LEMMA StepKeepsIInv == IInv /\ [Next]_vars => IInv'
<1> SUFFICES ASSUME IInv, [Next]_vars PROVE IInv'
  OBVIOUS
<1>1. CASE UNCHANGED vars
  BY <1>1, StutterKeeps
<1>2. CASE EventArrives \/ Wake \/ Report \/ Join
  BY <1>2, EventArrivesKeeps, WakeKeeps, ReportKeeps, JoinKeeps
<1>3. CASE \E h \in Handle : Publish(h) \/ Accept(h)
  BY <1>3, PublishKeeps, AcceptKeeps
<1>4. CASE \/ ConnectFails \/ Gate1
            \/ Listen \/ AcceptFails \/ Gate2 \/ Claim \/ Share \/ Release
  BY <1>4, ConnectFailsKeeps, Gate1Keeps, ListenKeeps, AcceptFailsKeeps, Gate2Keeps,
     ClaimKeeps, ShareKeeps, ReleaseKeeps
<1>5. CASE \E w \in Worker : \/ Enter(w) \/ Hello(w) \/ AvStart(w) \/ AvStop(w)
                             \/ Leave(w) \/ SenderFreed(w) \/ Close(w) \/ Clear(w)
  BY <1>5, EnterKeeps, HelloKeeps, AvStartKeeps, AvStopKeeps, LeaveKeeps, SenderFreedKeeps,
     CloseKeeps, ClearKeeps
<1>6. QED
  BY <1>1, <1>2, <1>3, <1>4, <1>5 DEF Next

-----------------------------------------------------------------------------
\* The invariant holds in every state, whatever the threads' order.
THEOREM ControlInvariant == Spec => []IInv
BY InitIInv, StepKeepsIInv, PTL DEF Spec

LEMMA IInvImplies ==
  IInv => /\ TypeOK /\ OneChannelUnlessOvertaken /\ ServedNotClosed
          /\ StreamEndsWithChannel /\ StreamGoesToPeer /\ LostOnlyByOverlap
<1> SUFFICES ASSUME IInv
             PROVE  /\ TypeOK /\ OneChannelUnlessOvertaken /\ ServedNotClosed
                    /\ StreamEndsWithChannel /\ StreamGoesToPeer /\ LostOnlyByOverlap
  OBVIOUS
<1>1. TypeOK
  BY DEF IInv
<1>2. CASE overtaken
  BY <1>1, <1>2 DEF OneChannelUnlessOvertaken, ServedNotClosed, StreamEndsWithChannel,
                    StreamGoesToPeer, LostOnlyByOverlap
<1>3. CASE ~overtaken
  <2>1. FlagsTell /\ SocketsHeld /\ SenderLives /\ SharedIsOwn
    BY <1>3 DEF IInv
  <2>2. OneChannelUnlessOvertaken
    BY <2>1 DEF OneChannelUnlessOvertaken, OneControlChannel, FlagsTell, InLoop
  <2>3. ServedNotClosed
    BY <2>1 DEF ServedNotClosed, SocketsHeld, Unmixed, Worker
  <2>4. StreamEndsWithChannel
    BY <2>1 DEF StreamEndsWithChannel, SenderLives, InLoop, LoopPc, Worker
  <2>5. StreamGoesToPeer
    BY <2>1 DEF StreamGoesToPeer, SenderLives
  <2>6. LostOnlyByOverlap
    BY <2>1 DEF LostOnlyByOverlap, SharedIsOwn
  <2>7. QED
    BY <1>1, <2>2, <2>3, <2>4, <2>5, <2>6
<1>4. QED
  BY <1>2, <1>3

\* Every variable keeps its type.
THEOREM ControlTypes == Spec => []TypeOK
BY ControlInvariant, IInvImplies, PTL

\* Two unlocked flags are enough for one control channel, short of the whole
\* of worker 1's connecting between two statements of worker 2.
THEOREM OneChannel == Spec => []OneChannelUnlessOvertaken
BY ControlInvariant, IInvImplies, PTL

\* Closing through the shared field never closes what the other worker serves, short
\* of worker 1 connecting between worker 2's test of the flag and its call of the loop.
THEOREM ServedStaysOpen == Spec => []ServedNotClosed
BY ControlInvariant, IInvImplies, PTL

\* The stream ends with its control channel.
THEOREM NoStreamWithoutChannel == Spec => []StreamEndsWithChannel
BY ControlInvariant, IInvImplies, PTL

\* A stream goes to the peer served, unless worker 1 came in while worker 2 served.
THEOREM StreamsToPeerServed == Spec => []StreamGoesToPeer
BY ControlInvariant, IInvImplies, PTL

\* When nobody serves and no thread holds a socket, none is open: a socket is lost
\* only when worker 1 came in while worker 2 served.
THEOREM SocketsNotLost == Spec => []LostOnlyByOverlap
BY ControlInvariant, IInvImplies, PTL

-----------------------------------------------------------------------------
(* The packet queues.                                                      *)

\* Where a packet is in the stream of its payload.
Place == Nat \ {0}
Hand == [at : {"idle", "count", "evict", "put", "forward"}, payload : Q!Payload, packet : Nat]

\* The types; a thread has a packet in hand unless it is idle.
QueueTypes ==
  /\ queue \in [Q!Payload -> Seq(Place)]
  /\ feed \in Reader
  /\ next \in [Q!Payload -> Place]
  /\ reader \in [Reader -> Hand]
  /\ \A r \in Reader : reader[r].at = "idle" <=> reader[r].packet = Q!None
  /\ live \in BOOLEAN /\ spoilt \in BOOLEAN /\ wrapped \in BOOLEAN
  /\ ipc \in {"idle", "find", "burst"}
  /\ found \in [Q!Payload -> Nat]
  /\ missing \in [Q!Payload -> SUBSET Place]

\* A queue in the order of the stream.
Ascends(q) == \A i, j \in DOMAIN q : i < j => q[i] < q[j]
AllAscend == ~wrapped => \A p \in Q!Payload : Ascends(queue[p])

\* The threads that will put a packet of p.
Putting(p) == {r \in Reader : reader[r].at = "put" /\ reader[r].payload = p}
\* The threads that have found room find it still there.
Room == \A p \in Q!Payload :
          Len(queue[p]) + Cardinality(Putting(p)) < Capacity + Cardinality(Reader)

\* Where the IPC thread is tells what it points to and whether the peer streams.
PeerOK == /\ ipc # "burst" => \A p \in Q!Payload : found[p] = Q!None
          /\ ipc # "idle" => live
          /\ ~live => \A p \in Q!Payload : missing[p] = {}

\* The burst points into the queues, and what is missing is in hand or still to
\* come in the burst.
BurstOK == (~spoilt /\ ~wrapped) => \A p \in Q!Payload :
  /\ found[p] # Q!None => Q!Contains(queue[p], found[p])
  /\ \A x \in missing[p] : \/ x \in Q!InHand(p)
                           \/ found[p] # Q!None /\ found[p] <= x /\ Q!Contains(queue[p], x)

\* The inductive invariant of the queues and the burst.
QueueInv == QueueTypes /\ AllAscend /\ Room /\ PeerOK /\ BurstOK

-----------------------------------------------------------------------------
\* A set of numbers has a least one: the induction that first-order steps can use.
LEMMA LeastNat == \A S \in SUBSET Nat : S # {} => \E n \in S : \A m \in S : n <= m
<1>1. SUFFICES ASSUME NEW S \in SUBSET Nat, S # {} PROVE \E n \in S : \A m \in S : n <= m
  OBVIOUS
<1>2. IsWellFoundedOn(OpToRel(<, Nat), Nat)
  BY NatLessThanWellFounded
<1>3. \E n \in S : \A m \in S : ~(<<m, n>> \in OpToRel(<, Nat))
  BY <1>1, <1>2, WFMin
<1>4. \A m, n \in Nat : m < n => <<m, n>> \in OpToRel(<, Nat)
  BY Zenon DEF OpToRel
<1>5. PICK n \in S : \A m \in S : ~(<<m, n>> \in OpToRel(<, Nat))
  BY <1>3
<1>6. \A m \in S : ~(m < n)
  BY <1>4, <1>5, <1>1, Zenon
<1>7. QED BY <1>1, <1>6

\* A bounded set of numbers has a greatest one.
LEMMA GreatestUpTo ==
  ASSUME NEW n \in Nat, NEW S \in SUBSET (0..n), 0 \in S
  PROVE  \E i \in S : \A m \in S : m <= i
<1>1. PICK k \in {n - m : m \in S} : \A l \in {n - m : m \in S} : k <= l
  <2>1. {n - m : m \in S} \in SUBSET Nat /\ {n - m : m \in S} # {}
    OBVIOUS
  <2>2. QED BY <2>1, LeastNat
<1>2. PICK i \in S : k = n - i
  BY <1>1
<1>3. \A m \in S : n - i <= n - m
  BY <1>1, <1>2
<1>4. QED BY <1>2, <1>3

\* Within Margin of each other, and unless the later one is there first, the case of
\* the wrap makes wSeqNum tell which of two packets comes first.
LEMMA FollowsIsAfter ==
  ASSUME NEW x \in Nat, NEW y \in Nat, ~Q!Misled(x, y)
  PROVE /\ Q!Follows(Q!SeqNum(x), Q!SeqNum(y)) <=> y < x
        /\ Q!SeqNum(x) = Q!SeqNum(y) <=> x = y
<1> DEFINE a == x \div Modulus  b == y \div Modulus s == x % Modulus t == y % Modulus
<1>0. Modulus \in Nat \ {0} /\ Margin \in Nat \ {0} /\ 3 * Margin <= Modulus
  BY QueueAssumption
<1>1. a \in Int /\ s \in 0..Modulus-1 /\ x = a * Modulus + s
  BY <1>0, SMTT(30)
<1>2. b \in Int /\ t \in 0..Modulus-1 /\ y = b * Modulus + t
  BY <1>0, SMTT(30)
<1>3. a >= b /\ x - y < Margin /\ y - x < Margin
  BY <1>0, <1>1, <1>2 DEF Q!Misled
<1> HIDE DEF a, b, s, t
<1>4. a = b \/ a = b + 1
  <2>1. SUFFICES ASSUME a >= b + 2 PROVE FALSE
     BY <1>1, <1>2, <1>3
  <2>2. PICK d \in Nat : a = b + 2 + d BY <2>1, <1>1, <1>2
  <2>3. a * Modulus = b * Modulus + 2 * Modulus + d * Modulus
    BY <2>2, <1>0, <1>1, <1>2, SMTT(30)
  <2>4. d * Modulus >= 0 BY <1>0, SMTT(30)
  <2>5. b * Modulus \in Int /\ d * Modulus \in Int BY <1>0, <1>2
  <2>6. QED BY <2>3, <2>4, <2>5, <1>0, <1>1, <1>2, <1>3
<1>6. CASE a = b
  BY <1>6, <1>0, <1>1, <1>2, <1>3 DEF Q!Follows, Q!SeqNum, s, t
<1>7. CASE a = b + 1
  <2>1. a * Modulus = b * Modulus + Modulus BY <1>7, <1>0, <1>1, <1>2, SMTT(30)
  <2>2. b * Modulus \in Int BY <1>0, <1>2
  <2>3. x - y = Modulus + s - t BY <2>1, <2>2, <1>0, <1>1, <1>2
  <2>4. QED BY <2>3, <1>0, <1>1, <1>2, <1>3 DEF Q!Follows, Q!SeqNum, s, t
<1>8. QED BY <1>4, <1>6, <1>7

\* What the splice holds.
LEMMA InsertAfterElements ==
  ASSUME NEW q \in Seq(Place), NEW i \in 0..Len(q), NEW packet \in Place
  PROVE  /\ Q!InsertAfter(q, i, packet) \in Seq(Place)
         /\ Len(Q!InsertAfter(q, i, packet)) = Len(q) + 1
         /\ \A k \in 1..Len(q) + 1 : Q!InsertAfter(q, i, packet)[k] =
              IF k <= i THEN q[k] ELSE IF k = i + 1 THEN packet ELSE q[k - 1]
<1>1. Len(q) \in Nat
  OBVIOUS
<1>2. /\ SubSeq(q, 1, i) \in Seq(Place) /\ Len(SubSeq(q, 1, i)) = i
      /\ \A k \in 1..i : SubSeq(q, 1, i)[k] = q[k]
  OBVIOUS
<1>3. /\ SubSeq(q, i + 1, Len(q)) \in Seq(Place) /\ Len(SubSeq(q, i + 1, Len(q))) = Len(q) - i
      /\ \A k \in 1..Len(q) - i : SubSeq(q, i + 1, Len(q))[k] = q[i + k]
  OBVIOUS
<1>4. <<packet>> \in Seq(Place)
  OBVIOUS
<1> DEFINE a == SubSeq(q, 1, i)  b == SubSeq(q, i + 1, Len(q))  c == a \o <<packet>>
<1> HIDE DEF a, b, c
<1>5. /\ c \in Seq(Place) /\ Len(c) = i + 1
      /\ \A k \in 1..i + 1 : c[k] = IF k <= i THEN q[k] ELSE packet
  <2>1. a \in Seq(Place) /\ Len(a) = i /\ \A k \in 1..i : a[k] = q[k]
    BY <1>2 DEF a
  <2>2. Len(<<packet>>) = 1 /\ <<packet>>[1] = packet
    OBVIOUS
  <2>3. QED
    BY <2>1, <2>2, <1>4, ConcatProperties DEF c
<1>6. /\ c \o b \in Seq(Place)
      /\ Len(c \o b) = Len(q) + 1
      /\ \A k \in 1..Len(q) + 1 : (c \o b)[k] =
              IF k <= i THEN q[k] ELSE IF k = i + 1 THEN packet ELSE q[k - 1]
  <2>1. b \in Seq(Place) /\ Len(b) = Len(q) - i /\ \A k \in 1..Len(q) - i : b[k] = q[i + k]
    BY <1>3 DEF b
  <2>2. /\ c \o b \in Seq(Place) /\ Len(c \o b) = Len(c) + Len(b)
        /\ \A k \in 1..Len(c) + Len(b) :
             (c \o b)[k] = IF k <= Len(c) THEN c[k] ELSE b[k - Len(c)]
    BY <2>1, <1>5, ConcatProperties
  <2>3. ASSUME NEW k \in 1..Len(q) + 1
        PROVE  (c \o b)[k] = IF k <= i THEN q[k] ELSE IF k = i + 1 THEN packet ELSE q[k - 1]
    <3>1. CASE k <= i + 1
      BY <3>1, <2>1, <2>2, <1>1, <1>5
    <3>2. CASE k > i + 1
      <4>1. k - (i + 1) \in 1..Len(q) - i /\ i + (k - (i + 1)) = k - 1
        BY <3>2, <1>1
      <4>2. (c \o b)[k] = b[k - (i + 1)]
        BY <3>2, <2>1, <2>2, <1>1, <1>5
      <4>3. b[k - (i + 1)] = q[k - 1]
        BY <4>1, <2>1
      <4>4. QED
        BY <3>2, <4>2, <4>3, <1>1
    <3>3. k <= i + 1 \/ k > i + 1
      BY <1>1
    <3>4. QED
      BY <3>1, <3>2, <3>3, Zenon
  <2>4. QED
    BY <2>1, <2>2, <2>3, <1>1, <1>5
<1>7. Q!InsertAfter(q, i, packet) = c \o b
  BY DEF Q!InsertAfter, a, b, c
<1>8. QED
  BY <1>6, <1>7

\* Where the search from the tail stops.
Stops(q, packet, i) == \/ Q!Follows(Q!SeqNum(packet), Q!SeqNum(q[i]))
                       \/ Q!SeqNum(packet) = Q!SeqNum(q[i])

\* The search ends: what PutIntoRecvPacketQueue() does, without the CHOOSE.
LEMMA InsertedSomewhere ==
  ASSUME NEW q \in Seq(Place), NEW packet \in Place
  PROVE  \E i \in 0..Len(q) :
           /\ i = 0 \/ Stops(q, packet, i)
           /\ \A m \in i + 1..Len(q) : ~Stops(q, packet, m)
           /\ Q!Inserted(q, packet) = IF i > 0 /\ ~Q!Follows(Q!SeqNum(packet), Q!SeqNum(q[i]))
                                    THEN q ELSE Q!InsertAfter(q, i, packet)
<1> DEFINE Furthest(n) == /\ n = 0 \/ Stops(q, packet, n)
                      /\ \A m \in n + 1..Len(q) : ~Stops(q, packet, m)
           j == CHOOSE n \in 0..Len(q) : Furthest(n)
<1>1. \E n \in 0..Len(q) : Furthest(n)
  <2>1. Len(q) \in Nat
    OBVIOUS
  <2>2. PICK n \in {k \in 0..Len(q) : k = 0 \/ Stops(q, packet, k)} :
          \A m \in {k \in 0..Len(q) : k = 0 \/ Stops(q, packet, k)} : m <= n
    <3> DEFINE S == {k \in 0..Len(q) : k = 0 \/ Stops(q, packet, k)}
    <3>1. S \in SUBSET (0..Len(q)) /\ 0 \in S
      BY <2>1
    <3> HIDE DEF S
    <3>2. \E i \in S : \A m \in S : m <= i
      BY <2>1, <3>1, GreatestUpTo
    <3>3. QED
      BY <3>2 DEF S
  <2>3. ASSUME NEW m \in n + 1..Len(q) PROVE ~Stops(q, packet, m)
    BY <2>1, <2>2
  <2>4. QED
    BY <2>1, <2>2, <2>3
<1>2. j \in 0..Len(q) /\ Furthest(j)
  <2> HIDE DEF Furthest
  <2>1. QED BY <1>1, Zenon
<1>3. Q!Inserted(q, packet) = IF j > 0 /\ ~Q!Follows(Q!SeqNum(packet), Q!SeqNum(q[j]))
                            THEN q ELSE Q!InsertAfter(q, j, packet)
  BY Zenon DEF Q!Inserted, Stops
<1> HIDE DEF j
<1>4. QED
  BY <1>2, <1>3

\* Whatever the numbers are: the packet is added once at most, and no other goes.
LEMMA InsertedElements ==
  ASSUME NEW q \in Seq(Place), NEW packet \in Place
  PROVE  /\ Q!Inserted(q, packet) \in Seq(Place)
         /\ Len(Q!Inserted(q, packet)) \in {Len(q), Len(q) + 1}
         /\ \A x \in Place : Q!Contains(q, x) => Q!Contains(Q!Inserted(q, packet), x)
<1>1. PICK i \in 0..Len(q) :
        Q!Inserted(q, packet) = IF i > 0 /\ ~Q!Follows(Q!SeqNum(packet), Q!SeqNum(q[i]))
                              THEN q ELSE Q!InsertAfter(q, i, packet)
  BY InsertedSomewhere
<1>2. Len(q) \in Nat
  OBVIOUS
<1>3. CASE Q!Inserted(q, packet) = q
  BY <1>2, <1>3
<1>4. CASE Q!Inserted(q, packet) = Q!InsertAfter(q, i, packet)
  <2> DEFINE t == Q!InsertAfter(q, i, packet)
  <2>1. /\ t \in Seq(Place) /\ Len(t) = Len(q) + 1
        /\ \A k \in 1..Len(q) + 1 : t[k] =
              IF k <= i THEN q[k] ELSE IF k = i + 1 THEN packet ELSE q[k - 1]
    BY InsertAfterElements
  <2> HIDE DEF t
  <2>2. ASSUME NEW x \in Place, NEW k \in DOMAIN q, q[k] = x PROVE Q!Contains(t, x)
    <3>1. k \in 1..Len(q) /\ DOMAIN t = 1..Len(q) + 1
      BY <2>1, <1>2, LenProperties
    <3>2. CASE k <= i
      <4>1. k \in DOMAIN t /\ t[k] = x
        BY <2>1, <2>2, <3>1, <3>2, <1>2
      <4>2. QED BY <4>1 DEF Q!Contains
    <3>3. CASE k > i
      <4>1. k + 1 \in DOMAIN t /\ t[k + 1] = x
        BY <2>1, <2>2, <3>1, <3>3, <1>2
      <4>2. QED BY <4>1 DEF Q!Contains
    <3>4. QED BY <3>1, <3>2, <3>3
  <2>3. \A x \in Place : Q!Contains(q, x) => Q!Contains(t, x)
    BY <2>2 DEF Q!Contains
  <2>4. QED
    BY <2>1, <2>3, <1>4 DEF t
<1>5. QED
  BY <1>1, <1>3, <1>4

\* A queue in the order of the stream stays in it, unless the numbers mislead.
LEMMA InsertedAscends ==
  ASSUME NEW q \in Seq(Place), NEW packet \in Place, Ascends(q),
         \A i \in DOMAIN q : ~Q!Misled(packet, q[i])
  PROVE  Ascends(Q!Inserted(q, packet))
<1>1. Len(q) \in Nat /\ DOMAIN q = 1..Len(q) /\ \A k \in 1..Len(q) : q[k] \in Place
  OBVIOUS
<1>2. ASSUME NEW k \in 1..Len(q)
      PROVE  /\ Q!Follows(Q!SeqNum(packet), Q!SeqNum(q[k])) <=> q[k] < packet
             /\ Stops(q, packet, k) <=> q[k] <= packet
  <2>1. /\ Q!Follows(Q!SeqNum(packet), Q!SeqNum(q[k])) <=> q[k] < packet
        /\ Q!SeqNum(packet) = Q!SeqNum(q[k]) <=> packet = q[k]
    BY <1>1, FollowsIsAfter DEF Place
  <2>2. QED
    BY <2>1, <1>1 DEF Stops, Place
<1>3. PICK i \in 0..Len(q) :
           /\ i = 0 \/ Stops(q, packet, i)
           /\ \A m \in i + 1..Len(q) : ~Stops(q, packet, m)
           /\ Q!Inserted(q, packet) = IF i > 0 /\ ~Q!Follows(Q!SeqNum(packet), Q!SeqNum(q[i]))
                                    THEN q ELSE Q!InsertAfter(q, i, packet)
  BY InsertedSomewhere
<1>4. \A m \in i + 1..Len(q) : packet < q[m]
  BY <1>1, <1>2, <1>3 DEF Place
<1>5. CASE i > 0 /\ ~Q!Follows(Q!SeqNum(packet), Q!SeqNum(q[i]))
  BY <1>3, <1>5
<1>6. CASE i = 0 \/ Q!Follows(Q!SeqNum(packet), Q!SeqNum(q[i]))
  <2> DEFINE t == Q!InsertAfter(q, i, packet)
  <2>1. /\ t \in Seq(Place) /\ Len(t) = Len(q) + 1
        /\ \A k \in 1..Len(q) + 1 : t[k] =
              IF k <= i THEN q[k] ELSE IF k = i + 1 THEN packet ELSE q[k - 1]
    BY InsertAfterElements
  <2>2. Q!Inserted(q, packet) = t
    BY <1>3, <1>6
  <2> HIDE DEF t
  <2>3. \A m \in 1..i : q[m] < packet
    <3>1. i > 0 => q[i] < packet
      BY <1>1, <1>2, <1>6
    <3>2. \A m \in 1..i : m < i => q[m] < q[i]
      BY <1>1 DEF Ascends
    <3>3. QED
      BY <1>1, <3>1, <3>2 DEF Place
  <2>4. DOMAIN t = 1..Len(q) + 1
    BY <2>1, <1>1, LenProperties
  <2>5. ASSUME NEW k \in 1..Len(q) + 1, NEW l \in 1..Len(q) + 1, k < l PROVE t[k] < t[l]
    <3>1. \A m, n \in 1..Len(q) : m < n => q[m] < q[n]
      BY <1>1 DEF Ascends
    <3>2. CASE l <= i
      BY <2>1, <2>5, <3>1, <3>2, <1>1
    <3>3. CASE l = i + 1
      BY <2>1, <2>3, <2>5, <3>3, <1>1
    <3>4. CASE l > i + 1 /\ k <= i
      <4>1. l - 1 \in 1..Len(q) /\ k \in 1..Len(q) /\ k < l - 1 /\ ~(l <= i) /\ l # i + 1
        BY <2>5, <3>4, <1>1
      <4>2. QED BY <4>1, <2>1, <3>1, <3>4
    <3>5. CASE l > i + 1 /\ k = i + 1
      <4>1. l - 1 \in i + 1..Len(q) /\ ~(l <= i) /\ l # i + 1 /\ ~(k <= i)
        BY <2>5, <3>5, <1>1
      <4>2. QED BY <4>1, <2>1, <1>4, <3>5
    <3>6. CASE l > i + 1 /\ k > i + 1
      <4>1. /\ l - 1 \in 1..Len(q) /\ k - 1 \in 1..Len(q) /\ k - 1 < l - 1
            /\ ~(l <= i) /\ l # i + 1 /\ ~(k <= i) /\ k # i + 1
        BY <2>5, <3>6, <1>1
      <4>2. QED BY <4>1, <2>1, <3>1
    <3>7. QED
      BY <3>2, <3>3, <3>4, <3>5, <3>6, <1>1
  <2>6. QED
    BY <2>2, <2>4, <2>5 DEF Ascends
<1>7. QED
  BY <1>5, <1>6, <1>1

-----------------------------------------------------------------------------
\* Nothing is queued, in hand or missing.
LEMMA InitQueueInv == Q!Init => QueueInv
<1> SUFFICES ASSUME Q!Init PROVE QueueInv
  OBVIOUS
<1> USE DEF Q!Init, Q!None
<1>1. QueueTypes
  <2>1. Q!Idle \in Hand /\ Q!Idle.at = "idle" /\ Q!Idle.packet = Q!None
    BY DEF Q!Idle, Hand, Q!Payload
  <2>2. reader \in [Reader -> Hand] /\ \A r \in Reader : reader[r] = Q!Idle
    BY <2>1
  <2>3. queue \in [Q!Payload -> Seq(Place)]
    OBVIOUS
  <2>4. next \in [Q!Payload -> Place]
    BY QueueAssumption DEF Place
  <2>5. QED
    BY <2>1, <2>2, <2>3, <2>4 DEF QueueTypes
<1>2. AllAscend
  BY DEF AllAscend, Ascends
<1>3. Room
  <2>1. \A r \in Reader : reader[r].at # "put"
    BY DEF Q!Idle
  <2>2. \A p \in Q!Payload : Putting(p) = {} /\ Len(queue[p]) = 0
    BY <2>1 DEF Putting
  <2>3. Cardinality({}) = 0 /\ Cardinality(Reader) \in Nat
    BY QueueAssumption, FS_EmptySet, FS_CardinalityType
  <2>4. ASSUME NEW p \in Q!Payload
        PROVE  Len(queue[p]) + Cardinality(Putting(p)) < Capacity + Cardinality(Reader)
    <3>1. Putting(p) = {} /\ Len(queue[p]) = 0
      BY <2>2
    <3>2. Cardinality(Putting(p)) = 0
      BY <2>3, <3>1
    <3>3. QED
      BY <3>1, <3>2, <2>3, QueueAssumption
  <2>5. QED
    BY <2>4 DEF Room
<1>4. PeerOK
  BY DEF PeerOK
<1>5. BurstOK
  BY DEF BurstOK
<1>6. QED
  BY <1>1, <1>2, <1>3, <1>4, <1>5 DEF QueueInv

\* No more threads put packets than there are.
LEMMA SizeOfPutting ==
  /\ Cardinality(Reader) \in Nat
  /\ \A p : /\ Putting(p) \subseteq Reader /\ IsFiniteSet(Putting(p))
            /\ Cardinality(Putting(p)) \in 0..Cardinality(Reader)
            /\ (Putting(p))' \subseteq Reader /\ IsFiniteSet((Putting(p))')
            /\ Cardinality((Putting(p))') \in 0..Cardinality(Reader)
<1>1. \A S \in SUBSET Reader : IsFiniteSet(S) /\ Cardinality(S) \in 0..Cardinality(Reader)
  BY QueueAssumption, FS_Subset, FS_CardinalityType
<1>2. \A p : Putting(p) \subseteq Reader /\ (Putting(p))' \subseteq Reader
  BY DEF Putting
<1>3. QED
  BY <1>1, <1>2, QueueAssumption, FS_CardinalityType

\* What one more in the queue and one thread fewer, or the reverse, leave of the room.
LEMMA StillRoom ==
  \A a, b, c, d, e, f \in Nat :
    (/\ a + b < c + d
     /\ \/ e \in {a, a + 1} /\ f = b - 1
        \/ e = a - 1 /\ f <= b + 1)
    => e + f < c + d
OBVIOUS

\* Nobody comes to put a packet, and no queue grows.
LEMMA RoomStays ==
  ASSUME QueueInv, QueueTypes',
         \A p \in Q!Payload : /\ (Putting(p))' \subseteq Putting(p)
                            /\ Len(queue'[p]) <= Len(queue[p])
  PROVE  Room'
<1> SUFFICES ASSUME NEW p \in Q!Payload
             PROVE  Len(queue'[p]) + Cardinality((Putting(p))') < Capacity + Cardinality(Reader)
  BY DEF Room
<1>1. Len(queue[p]) \in Nat /\ Len(queue'[p]) \in Nat
  BY DEF QueueInv, QueueTypes
<1>2. Cardinality((Putting(p))') <= Cardinality(Putting(p))
  BY SizeOfPutting, FS_Subset
<1>3. Len(queue[p]) + Cardinality(Putting(p)) < Capacity + Cardinality(Reader)
  BY DEF QueueInv, Room
<1>4. QED
  BY <1>1, <1>2, <1>3, SizeOfPutting, QueueAssumption

\* A thread that has a packet in hand goes on with it.
LEMMA GoesOn ==
  ASSUME QueueTypes, NEW r \in Reader, NEW to \in {"evict", "put", "forward"},
         Q!Goto(r, to), reader[r].at # "idle"
  PROVE  /\ reader' \in [Reader -> Hand]
         /\ \A s \in Reader : /\ reader'[s].at = "idle" <=> reader'[s].packet = Q!None
                              /\ reader'[s].payload = reader[s].payload
                              /\ reader'[s].packet = reader[s].packet
                              /\ s # r => reader'[s].at = reader[s].at
         /\ reader'[r].at = to
         /\ \A p : (Q!InHand(p))' = Q!InHand(p)
<1>1. reader' = [reader EXCEPT ![r] = [reader[r] EXCEPT !.at = to]]
  BY DEF Q!Goto, QueueTypes
<1>2. reader[r] \in Hand
  BY DEF QueueTypes
<1>3. /\ [reader[r] EXCEPT !.at = to] \in Hand
      /\ [reader[r] EXCEPT !.at = to].at = to
      /\ [reader[r] EXCEPT !.at = to].payload = reader[r].payload
      /\ [reader[r] EXCEPT !.at = to].packet = reader[r].packet
  BY <1>2 DEF Hand
<1>4. /\ reader' \in [Reader -> Hand]
      /\ \A s \in Reader : s # r => reader'[s] = reader[s]
      /\ reader'[r] = [reader[r] EXCEPT !.at = to]
  BY <1>1, <1>3 DEF QueueTypes
<1>5. \A s \in Reader : /\ reader'[s].at = "idle" <=> reader'[s].packet = Q!None
                        /\ reader'[s].payload = reader[s].payload
                        /\ reader'[s].packet = reader[s].packet
                        /\ s # r => reader'[s].at = reader[s].at
  BY <1>3, <1>4 DEF QueueTypes
<1>6. \A p : (Q!InHand(p))' = Q!InHand(p)
  BY <1>5 DEF Q!InHand
<1>7. QED
  BY <1>3, <1>4, <1>5, <1>6

\* A packet on its way out of nowhere is in no queue and is missed by nobody.
LEMMA QueueTakeKeeps ==
  ASSUME QueueInv, NEW r \in Reader, NEW p \in Q!Payload, Q!Take(r, p)
  PROVE  QueueInv'
<1> USE DEF Q!Take, Q!peer, Q!stream
<1>1. QueueTypes
  BY DEF QueueInv
<1> DEFINE h == [at |-> "count", payload |-> p, packet |-> next[p]]
<1>2. h \in Hand /\ h.at = "count" /\ h.payload = p /\ h.packet = next[p] /\ next[p] \in Place
  BY <1>1 DEF Hand, QueueTypes, Place
<1>3. reader' = [reader EXCEPT ![r] = h]
  OBVIOUS
<1> HIDE DEF h
<1>4. /\ reader' \in [Reader -> Hand] /\ reader'[r] = h
      /\ \A s \in Reader : s # r => reader'[s] = reader[s]
  BY <1>1, <1>2, <1>3 DEF QueueTypes
<1>5. next' \in [Q!Payload -> Place]
  BY <1>1 DEF QueueTypes, Place
<1>6. QueueTypes'
  <2>1. \A s \in Reader : reader'[s].at = "idle" <=> reader'[s].packet = Q!None
    BY <1>1, <1>2, <1>4 DEF QueueTypes, Place, Q!None
  <2>2. QED
    BY <1>1, <1>4, <1>5, <2>1 DEF QueueTypes
<1>7. AllAscend' /\ PeerOK'
  BY DEF QueueInv, AllAscend, PeerOK
<1>8. Room'
  <2>1. \A q \in Q!Payload : (Putting(q))' \subseteq Putting(q)
    BY <1>2, <1>4 DEF Putting
  <2>2. \A q \in Q!Payload : Len(queue'[q]) <= Len(queue[q])
    BY <1>1 DEF QueueTypes
  <2>3. QED
    BY <1>6, <2>1, <2>2, RoomStays
<1>9. BurstOK'
  <2>1. reader[r].packet = Q!None
    BY <1>1 DEF QueueTypes
  <2>2. ASSUME NEW q \in Q!Payload, NEW x \in Place, x \in Q!InHand(q) PROVE x \in (Q!InHand(q))'
    <3>1. PICK s \in Reader : reader[s].payload = q /\ x = reader[s].packet
      BY <2>2 DEF Q!InHand
    <3>2. s # r
      BY <2>1, <3>1 DEF Place, Q!None
    <3>3. reader'[s] = reader[s]
      BY <1>4, <3>2
    <3>4. QED
      BY <3>1, <3>3 DEF Q!InHand
  <2>3. \A q \in Q!Payload : missing[q] \subseteq Place
    BY <1>1 DEF QueueTypes
  <2>4. QED
    BY <2>2, <2>3 DEF QueueInv, BurstOK
<1>10. QED
  BY <1>6, <1>7, <1>8, <1>9 DEF QueueInv

\* A thread that found room takes part of it, whoever else did.
LEMMA QueueCountKeeps ==
  ASSUME QueueInv, NEW r \in Reader, Q!Count(r)
  PROVE  QueueInv'
<1> USE DEF Q!Count, Q!peer, Q!stream
<1> DEFINE q == reader[r].payload
           to == IF Len(queue[q]) >= Capacity THEN "evict" ELSE "put"
<1>1. QueueTypes
  BY DEF QueueInv
<1>2. q \in Q!Payload /\ Len(queue[q]) \in Nat
  BY <1>1 DEF QueueTypes, Hand
<1>3. /\ reader' \in [Reader -> Hand]
      /\ \A s \in Reader : /\ reader'[s].at = "idle" <=> reader'[s].packet = Q!None
                           /\ reader'[s].payload = reader[s].payload
                           /\ reader'[s].packet = reader[s].packet
                           /\ s # r => reader'[s].at = reader[s].at
      /\ reader'[r].at = to
      /\ \A p : (Q!InHand(p))' = Q!InHand(p)
  <2>1. to \in {"evict", "put", "forward"} /\ Q!Goto(r, to) /\ reader[r].at # "idle"
    OBVIOUS
  <2> HIDE DEF to
  <2>2. QED
    BY <1>1, <2>1, GoesOn
<1>4. QueueTypes'
  BY <1>1, <1>3 DEF QueueTypes
<1>5. AllAscend' /\ PeerOK'
  BY DEF QueueInv, AllAscend, PeerOK
<1>6. BurstOK'
  BY <1>3 DEF QueueInv, BurstOK
<1>7. CASE Len(queue[q]) >= Capacity
  <2>1. to = "evict"
    BY <1>7
  <2>2. \A p \in Q!Payload : (Putting(p))' \subseteq Putting(p)
    BY <1>3, <2>1 DEF Putting
  <2>3. \A p \in Q!Payload : Len(queue'[p]) <= Len(queue[p])
    BY <1>1 DEF QueueTypes
  <2>4. Room'
    BY <1>4, <2>2, <2>3, RoomStays
  <2>5. QED
    BY <1>4, <1>5, <1>6, <2>4 DEF QueueInv
<1>8. CASE Len(queue[q]) < Capacity
  <2>1. ASSUME NEW p \in Q!Payload
        PROVE  Len(queue'[p]) + Cardinality((Putting(p))') < Capacity + Cardinality(Reader)
    <3>1. CASE p = q
      BY <3>1, <1>2, <1>8, SizeOfPutting, QueueAssumption
    <3>2. CASE p # q
      <4>1. (Putting(p))' = Putting(p)
        BY <3>2, <1>3 DEF Putting
      <4>2. QED
        BY <4>1 DEF QueueInv, Room
    <3>3. QED
      BY <3>1, <3>2
  <2>2. Room'
    BY <2>1 DEF Room
  <2>3. QED
    BY <1>4, <1>5, <1>6, <2>2 DEF QueueInv
<1>9. QED
  BY <1>2, <1>7, <1>8, QueueAssumption

\* What is freed is the first packet; if the burst points to it, the flag is up.
LEMMA QueueEvictKeeps ==
  ASSUME QueueInv, NEW r \in Reader, Q!Evict(r)
  PROVE  QueueInv'
<1> USE DEF Q!Evict, Q!stream
<1> DEFINE p == reader[r].payload
<1>1. QueueTypes
  BY DEF QueueInv
<1>2. /\ p \in Q!Payload /\ queue[p] \in Seq(Place) /\ Len(queue[p]) \in Nat \ {0}
      /\ Tail(queue[p]) \in Seq(Place) /\ Len(Tail(queue[p])) = Len(queue[p]) - 1
      /\ \A i \in 1..Len(queue[p]) - 1 : Tail(queue[p])[i] = queue[p][i + 1]
  BY <1>1 DEF QueueTypes, Hand
<1>3. /\ reader' \in [Reader -> Hand]
      /\ \A s \in Reader : /\ reader'[s].at = "idle" <=> reader'[s].packet = Q!None
                           /\ reader'[s].payload = reader[s].payload
                           /\ reader'[s].packet = reader[s].packet
                           /\ s # r => reader'[s].at = reader[s].at
      /\ reader'[r].at = "put"
      /\ \A q : (Q!InHand(q))' = Q!InHand(q)
  BY <1>1, GoesOn
<1>4. /\ queue' \in [Q!Payload -> Seq(Place)] /\ queue'[p] = Tail(queue[p])
      /\ \A q \in Q!Payload : q # p => queue'[q] = queue[q]
  <2>1. queue' = [queue EXCEPT ![p] = Tail(queue[p])]
    OBVIOUS
  <2> HIDE DEF p
  <2>2. QED
    BY <1>1, <1>2, <2>1 DEF QueueTypes
<1>5. QueueTypes'
  BY <1>1, <1>3, <1>4 DEF QueueTypes
<1>6. AllAscend'
  <2>1. \A q \in Q!Payload : Ascends(queue[q]) => Ascends(queue'[q])
    <3>1. Ascends(queue[p]) => Ascends(Tail(queue[p]))
      BY <1>2 DEF Ascends
    <3>2. QED
      BY <1>4, <3>1
  <2>2. QED
    BY <2>1 DEF QueueInv, AllAscend
<1>7. Room'
  <2>1. ASSUME NEW q \in Q!Payload
        PROVE  Len(queue'[q]) + Cardinality((Putting(q))') < Capacity + Cardinality(Reader)
    <3>1. Len(queue[q]) + Cardinality(Putting(q)) < Capacity + Cardinality(Reader)
      BY DEF QueueInv, Room
    <3>2. CASE q = p
      <4>1. (Putting(q))' \subseteq Putting(q) \cup {r}
        BY <1>3 DEF Putting
      <4>2. IsFiniteSet(Putting(q) \cup {r})
            /\ Cardinality(Putting(q) \cup {r}) <= Cardinality(Putting(q)) + 1
            /\ Cardinality(Putting(q) \cup {r}) \in Nat
        <5>1. IsFiniteSet(Putting(q)) /\ Cardinality(Putting(q)) \in Nat
          BY SizeOfPutting
        <5>2. /\ IsFiniteSet(Putting(q) \cup {r})
              /\ Cardinality(Putting(q) \cup {r}) =
                   IF r \in Putting(q) THEN Cardinality(Putting(q))
                                      ELSE Cardinality(Putting(q)) + 1
          BY <5>1, FS_AddElement, Zenon
        <5>3. QED
          BY <5>1, <5>2
      <4>3. Cardinality((Putting(q))') <= Cardinality(Putting(q)) + 1
        <5>1. Cardinality((Putting(q))') <= Cardinality(Putting(q) \cup {r})
          BY <4>1, <4>2, FS_Subset
        <5>2. QED
          BY <5>1, <4>2, SizeOfPutting
      <4>4. /\ Len(queue[q]) \in Nat /\ Len(queue'[q]) \in Nat
            /\ Len(queue'[q]) = Len(queue[q]) - 1
        BY <3>2, <1>2, <1>4
      <4>5. Cardinality(Putting(q)) \in Nat /\ Cardinality((Putting(q))') \in Nat
        BY SizeOfPutting
      <4>6. Capacity \in Nat /\ Cardinality(Reader) \in Nat
        BY QueueAssumption, FS_CardinalityType
      <4> HIDE DEF p
      <4>7. QED
        BY <3>1, <4>3, <4>4, <4>5, <4>6, StillRoom
    <3>3. CASE q # p
      <4>1. (Putting(q))' = Putting(q)
        BY <3>3, <1>3 DEF Putting
      <4>2. QED
        BY <3>1, <3>3, <4>1, <1>4
    <3>4. QED
      BY <3>2, <3>3
  <2>2. QED
    BY <2>1 DEF Room
<1>8. PeerOK'
  BY DEF QueueInv, PeerOK
<1>9. BurstOK'
  <2>1. SUFFICES ASSUME ~spoilt', ~wrapped', NEW q \in Q!Payload
                 PROVE  /\ found[q] # Q!None => Q!Contains(queue'[q], found[q])
                        /\ \A x \in missing[q] :
                             \/ x \in Q!InHand(q)
                             \/ found[q] # Q!None /\ found[q] <= x /\ Q!Contains(queue'[q], x)
    BY <1>3 DEF BurstOK
  <2>2. ~spoilt /\ ~wrapped /\ found[p] # Head(queue[p])
    BY <2>1, <1>1 DEF QueueTypes
  <2>3. /\ found[q] # Q!None => Q!Contains(queue[q], found[q])
        /\ \A x \in missing[q] : \/ x \in Q!InHand(q)
                                 \/ found[q] # Q!None /\ found[q] <= x /\ Q!Contains(queue[q], x)
    BY <2>2 DEF QueueInv, BurstOK
  <2>4. CASE q # p
    BY <2>3, <2>4, <1>4
  <2>5. CASE q = p
    <3>1. Head(queue[p]) = queue[p][1]
      BY <1>2
    <3>2. \A i \in DOMAIN queue[p] : Head(queue[p]) <= queue[p][i]
      <4>1. Ascends(queue[p]) /\ DOMAIN queue[p] = 1..Len(queue[p])
            /\ \A i \in 1..Len(queue[p]) : queue[p][i] \in Place
        BY <2>2, <1>2 DEF QueueInv, AllAscend
      <4>2. QED
        BY <4>1, <3>1, <1>2 DEF Ascends, Place
    <3>3. \A x : Q!Contains(queue[p], x) /\ x # Head(queue[p]) => Q!Contains(Tail(queue[p]), x)
      <4>1. ASSUME NEW i \in DOMAIN queue[p], queue[p][i] # Head(queue[p])
            PROVE  Q!Contains(Tail(queue[p]), queue[p][i])
        <5>1. i \in 1..Len(queue[p]) /\ i # 1
          BY <4>1, <3>1, <1>2
        <5>2. i - 1 \in DOMAIN Tail(queue[p]) /\ Tail(queue[p])[i - 1] = queue[p][i]
          BY <5>1, <1>2
        <5>3. QED
          BY <5>2 DEF Q!Contains
      <4>2. QED
        BY <4>1 DEF Q!Contains
    <3>4. found[p] # Q!None => Q!Contains(Tail(queue[p]), found[p]) /\ Head(queue[p]) < found[p]
      <4>1. ASSUME found[p] # Q!None PROVE Head(queue[p]) < found[p]
        <5>1. PICK i \in DOMAIN queue[p] : queue[p][i] = found[p]
          BY <4>1, <2>3, <2>5 DEF Q!Contains
        <5>2. Head(queue[p]) <= found[p] /\ Head(queue[p]) # found[p]
          BY <5>1, <3>2, <2>2
        <5>3. Head(queue[p]) \in Place /\ found[p] \in Nat
          BY <1>1, <1>2, <3>1 DEF QueueTypes
        <5>4. QED
          BY <5>2, <5>3 DEF Place
      <4>2. QED
        BY <4>1, <2>2, <2>3, <2>5, <3>3
    <3>5. ASSUME NEW x \in missing[p], found[p] # Q!None, found[p] <= x, Q!Contains(queue[p], x)
          PROVE  Q!Contains(Tail(queue[p]), x)
      <4>1. Head(queue[p]) \in Place /\ found[p] \in Nat /\ x \in Place
        BY <1>1, <1>2, <3>1 DEF QueueTypes
      <4>2. x # Head(queue[p])
        BY <4>1, <3>4, <3>5 DEF Place
      <4>3. QED
        BY <4>2, <3>3, <3>5
    <3>6. QED
      BY <2>3, <2>5, <3>4, <3>5, <1>4
  <2>6. QED
    BY <2>4, <2>5
<1>10. QED
  BY <1>5, <1>6, <1>7, <1>8, <1>9 DEF QueueInv

\* A packet that is put in, and is not misled, leaves the order, is known to be
\* missing, and is in hand until it is passed on.
LEMMA QueuePutKeeps ==
  ASSUME QueueInv, NEW r \in Reader, Q!Put(r)
  PROVE  QueueInv'
<1> USE DEF Q!Put, Q!stream
<1> DEFINE p == reader[r].payload  packet == reader[r].packet
<1>1. QueueTypes
  BY DEF QueueInv
<1>2. p \in Q!Payload /\ packet \in Place /\ queue[p] \in Seq(Place) /\ Len(queue[p]) \in Nat
  <2>1. reader[r] \in Hand /\ packet # Q!None
    BY <1>1 DEF QueueTypes
  <2>2. QED
    BY <1>1, <2>1 DEF QueueTypes, Hand, Place, Q!None
<1>3. /\ reader' \in [Reader -> Hand]
      /\ \A s \in Reader : /\ reader'[s].at = "idle" <=> reader'[s].packet = Q!None
                           /\ reader'[s].payload = reader[s].payload
                           /\ reader'[s].packet = reader[s].packet
                           /\ s # r => reader'[s].at = reader[s].at
      /\ reader'[r].at = "forward"
      /\ \A q : (Q!InHand(q))' = Q!InHand(q)
  BY <1>1, GoesOn
<1>4. /\ Q!Inserted(queue[p], packet) \in Seq(Place)
      /\ Len(Q!Inserted(queue[p], packet)) \in {Len(queue[p]), Len(queue[p]) + 1}
      /\ \A x \in Place : Q!Contains(queue[p], x) => Q!Contains(Q!Inserted(queue[p], packet), x)
  BY <1>2, InsertedElements
<1>5. /\ queue' \in [Q!Payload -> Seq(Place)] /\ queue'[p] = Q!Inserted(queue[p], packet)
      /\ \A q \in Q!Payload : q # p => queue'[q] = queue[q]
  <2>1. queue' = [queue EXCEPT ![p] = Q!Inserted(queue[p], packet)]
    OBVIOUS
  <2> HIDE DEF p, packet
  <2>2. QED
    BY <1>1, <1>2, <1>4, <2>1 DEF QueueTypes
<1>6. /\ missing' \in [Q!Payload -> SUBSET Place]
      /\ live => missing'[p] = missing[p] \cup {packet}
      /\ ~live => missing' = missing
      /\ \A q \in Q!Payload : q # p => missing'[q] = missing[q]
  <2>1. /\ live => missing' = [missing EXCEPT ![p] = missing[p] \cup {packet}]
        /\ ~live => missing' = missing
    OBVIOUS
  <2> HIDE DEF p, packet
  <2>2. missing \in [Q!Payload -> SUBSET Place]
    BY <1>1 DEF QueueTypes
  <2>3. CASE live
    BY <1>2, <2>1, <2>2, <2>3
  <2>4. CASE ~live
    BY <1>2, <2>1, <2>2, <2>4
  <2>5. QED
    BY <2>3, <2>4
<1>7. wrapped' \in BOOLEAN /\ (~wrapped' => ~wrapped /\ \A i \in DOMAIN queue[p] :
                                              ~Q!Misled(packet, queue[p][i]))
  <2>1. wrapped' = (wrapped \/ \E i \in DOMAIN queue[p] : Q!Misled(packet, queue[p][i]))
    OBVIOUS
  <2>2. wrapped \in BOOLEAN
    BY <1>1 DEF QueueTypes
  <2>3. QED
    BY <2>1, <2>2, Zenon
<1>8. QueueTypes'
  BY <1>1, <1>3, <1>5, <1>6, <1>7 DEF QueueTypes
<1>9. AllAscend'
  <2>1. SUFFICES ASSUME ~wrapped', NEW q \in Q!Payload PROVE Ascends(queue'[q])
    BY DEF AllAscend
  <2>2. Ascends(queue[q])
    BY <1>7, <2>1 DEF QueueInv, AllAscend
  <2>3. CASE q # p
    BY <1>5, <2>2, <2>3
  <2>4. CASE q = p
    <3>1. \A i \in DOMAIN queue[p] : ~Q!Misled(packet, queue[p][i])
      BY <1>7, <2>1
    <3> HIDE DEF p, packet
    <3>2. Ascends(Q!Inserted(queue[p], packet))
      BY <1>2, <2>2, <2>4, <3>1, InsertedAscends
    <3>3. QED
      BY <1>5, <2>4, <3>2
  <2>5. QED
    BY <2>3, <2>4
<1>10. Room'
  <2>1. ASSUME NEW q \in Q!Payload
        PROVE  Len(queue'[q]) + Cardinality((Putting(q))') < Capacity + Cardinality(Reader)
    <3>1. Len(queue[q]) + Cardinality(Putting(q)) < Capacity + Cardinality(Reader)
      BY DEF QueueInv, Room
    <3>2. CASE q = p
      <4>1. (Putting(q))' = Putting(q) \ {r} /\ r \in Putting(q)
        BY <1>3, <3>2 DEF Putting
      <4>2. Cardinality((Putting(q))') = Cardinality(Putting(q)) - 1
        <5>1. IsFiniteSet(Putting(q))
          BY SizeOfPutting
        <5>2. QED
          BY <4>1, <5>1, FS_RemoveElement, Zenon
      <4>3. Len(queue'[q]) \in {Len(queue[q]), Len(queue[q]) + 1} /\ Len(queue[q]) \in Nat
        BY <3>2, <1>2, <1>4, <1>5
      <4>4. Cardinality(Putting(q)) \in Nat /\ Cardinality((Putting(q))') \in Nat
        BY SizeOfPutting
      <4>5. Capacity \in Nat /\ Cardinality(Reader) \in Nat
        BY QueueAssumption, FS_CardinalityType
      <4>6. QED
        <5>1. Len(queue'[q]) \in Nat
          BY <4>3
        <5> HIDE DEF p, packet
        <5>2. QED
          BY <3>1, <4>2, <4>3, <4>4, <4>5, <5>1, StillRoom
    <3>3. CASE q # p
      <4>1. (Putting(q))' = Putting(q)
        BY <3>3, <1>3 DEF Putting
      <4>2. QED
        BY <3>1, <3>3, <4>1, <1>5
    <3>4. QED
      BY <3>2, <3>3
  <2>2. QED
    BY <2>1 DEF Room
<1>11. PeerOK'
  BY <1>6 DEF QueueInv, PeerOK
<1>12. BurstOK'
  <2>1. SUFFICES ASSUME ~spoilt, ~wrapped', NEW q \in Q!Payload
                 PROVE  /\ found[q] # Q!None => Q!Contains(queue'[q], found[q])
                        /\ \A x \in missing'[q] :
                             \/ x \in Q!InHand(q)
                             \/ found[q] # Q!None /\ found[q] <= x /\ Q!Contains(queue'[q], x)
    BY <1>3 DEF BurstOK
  <2>2. /\ found[q] # Q!None => Q!Contains(queue[q], found[q])
        /\ \A x \in missing[q] : \/ x \in Q!InHand(q)
                                 \/ found[q] # Q!None /\ found[q] <= x /\ Q!Contains(queue[q], x)
    BY <1>7, <2>1 DEF QueueInv, BurstOK
  <2>3. \A x \in Place : Q!Contains(queue[q], x) => Q!Contains(queue'[q], x)
    BY <1>4, <1>5
  <2>4. found[q] # Q!None => found[q] \in Place
    BY <1>1 DEF QueueTypes, Place, Q!None
  <2>5. \A x \in missing'[q] : x \in Place /\ (x \in missing[q] \/ x \in Q!InHand(q))
    <3>1. packet \in Q!InHand(p)
      BY DEF Q!InHand
    <3>2. missing[q] \subseteq Place
      BY <1>1 DEF QueueTypes
    <3>3. CASE q = p
      BY <1>2, <1>6, <3>1, <3>2, <3>3
    <3>4. CASE q # p
      BY <1>6, <3>2, <3>4
    <3>5. QED
      BY <3>3, <3>4
  <2>6. QED
    BY <2>2, <2>3, <2>4, <2>5
<1>13. QED
  BY <1>8, <1>9, <1>10, <1>11, <1>12 DEF QueueInv

\* What a thread has passed on is missing no more, so that it may let it go.
LEMMA QueueForwardKeeps ==
  ASSUME QueueInv, NEW r \in Reader, Q!Forward(r)
  PROVE  QueueInv'
<1> USE DEF Q!Forward, Q!stream
<1> DEFINE p == reader[r].payload  packet == reader[r].packet
<1>1. QueueTypes
  BY DEF QueueInv
<1>2. p \in Q!Payload
  BY <1>1 DEF QueueTypes, Hand
<1>3. Q!Idle \in Hand /\ Q!Idle.at = "idle" /\ Q!Idle.packet = Q!None
  BY DEF Q!Idle, Hand, Q!Payload, Q!None
<1>4. /\ reader' \in [Reader -> Hand] /\ reader'[r] = Q!Idle
      /\ \A s \in Reader : s # r => reader'[s] = reader[s]
  BY <1>1, <1>3 DEF QueueTypes
<1>5. /\ missing' \in [Q!Payload -> SUBSET Place]
      /\ live => missing'[p] = missing[p] \ {packet}
      /\ ~live => missing' = missing
      /\ \A q \in Q!Payload : missing'[q] \subseteq missing[q]
  <2>1. /\ live => missing' = [missing EXCEPT ![p] = missing[p] \ {packet}]
        /\ ~live => missing' = missing
    OBVIOUS
  <2> HIDE DEF p, packet
  <2>2. missing \in [Q!Payload -> SUBSET Place]
    BY <1>1 DEF QueueTypes
  <2>3. CASE live
    BY <1>2, <2>1, <2>2, <2>3
  <2>4. CASE ~live
    BY <1>2, <2>1, <2>2, <2>4
  <2>5. QED
    BY <2>3, <2>4
<1>6. QueueTypes'
  <2>1. \A s \in Reader : reader'[s].at = "idle" <=> reader'[s].packet = Q!None
    BY <1>1, <1>3, <1>4 DEF QueueTypes
  <2>2. QED
    BY <1>1, <1>4, <1>5, <2>1 DEF QueueTypes
<1>7. AllAscend'
  BY DEF QueueInv, AllAscend
<1>8. PeerOK'
  BY <1>5 DEF QueueInv, PeerOK
<1>9. Room'
  <2>1. \A q \in Q!Payload : (Putting(q))' \subseteq Putting(q)
    BY <1>3, <1>4 DEF Putting
  <2>2. \A q \in Q!Payload : Len(queue'[q]) <= Len(queue[q])
    BY <1>1 DEF QueueTypes
  <2>3. QED
    BY <1>6, <2>1, <2>2, RoomStays
<1>10. BurstOK'
  <2>1. ASSUME NEW q \in Q!Payload, NEW x \in missing'[q], x \in Q!InHand(q)
        PROVE  x \in (Q!InHand(q))'
    <3>1. PICK s \in Reader : reader[s].payload = q /\ x = reader[s].packet
      BY <2>1 DEF Q!InHand
    <3>2. s # r
      <4>1. SUFFICES ASSUME s = r PROVE FALSE
        OBVIOUS
      <4>2. q = p /\ x = packet
        BY <3>1, <4>1
      <4>3. live
        BY <1>5, <2>1 DEF QueueInv, PeerOK
      <4>4. QED
        BY <1>5, <2>1, <4>2, <4>3
    <3>3. reader'[s] = reader[s]
      BY <1>4, <3>2
    <3>4. QED
      BY <3>1, <3>3 DEF Q!InHand
  <2>2. QED
    BY <1>5, <2>1 DEF QueueInv, BurstOK
<1>11. QED
  BY <1>6, <1>7, <1>8, <1>9, <1>10 DEF QueueInv

\* Emptied queues are in order; the burst that pointed into them is spoilt.
LEMMA QueueEndKeeps ==
  ASSUME QueueInv, NEW r \in Reader, Q!End(r)
  PROVE  QueueInv'
<1> USE DEF Q!End, Q!stream
<1>1. QueueTypes
  BY DEF QueueInv
<1>2. queue' \in [Q!Payload -> Seq(Place)] /\ \A p \in Q!Payload : queue'[p] = <<>>
  OBVIOUS
<1>3. spoilt' \in BOOLEAN /\ (~spoilt' => ~spoilt /\ \A p \in Q!Payload : found[p] = Q!None)
  <2>1. spoilt \in BOOLEAN /\ spoilt' = (spoilt \/ \E p \in Q!Payload : found[p] # Q!None)
    BY <1>1 DEF QueueTypes
  <2>2. QED
    BY <2>1, Zenon
<1>4. QueueTypes'
  BY <1>1, <1>2, <1>3 DEF QueueTypes
<1>5. AllAscend'
  BY <1>2 DEF AllAscend, Ascends
<1>6. PeerOK'
  BY DEF QueueInv, PeerOK
<1>7. Room'
  <2>1. \A p \in Q!Payload : (Putting(p))' \subseteq Putting(p)
    BY DEF Putting
  <2>2. \A p \in Q!Payload : Len(queue'[p]) <= Len(queue[p])
    BY <1>1, <1>2 DEF QueueTypes
  <2>3. QED
    BY <1>4, <2>1, <2>2, RoomStays
<1>8. BurstOK'
  <2>1. \A p : (Q!InHand(p))' = Q!InHand(p)
    BY DEF Q!InHand
  <2>2. QED
    BY <1>3, <2>1 DEF QueueInv, BurstOK
<1>9. QED
  BY <1>4, <1>5, <1>6, <1>7, <1>8 DEF QueueInv

\* Only the place of the source in the stream changes.
LEMMA QueueSwitchKeeps ==
  ASSUME QueueInv, NEW r \in Reader, Q!Switch(r)
  PROVE  QueueInv'
<1> USE DEF Q!Switch, Q!peer
<1>1. QueueTypes
  BY DEF QueueInv
<1>2. next' \in [Q!Payload -> Place]
  <2>1. PICK n \in [Q!Payload -> First..Last["video"] + 1] : next' = n
    OBVIOUS
  <2>2. First \in Place /\ Last["video"] \in Nat
    BY QueueAssumption DEF Q!Payload, Place
  <2>3. QED
    BY <2>1, <2>2 DEF Place
<1>3. QueueTypes'
  BY <1>1, <1>2 DEF QueueTypes
<1>4. Room'
  <2>1. \A p \in Q!Payload : (Putting(p))' \subseteq Putting(p)
    BY DEF Putting
  <2>2. \A p \in Q!Payload : Len(queue'[p]) <= Len(queue[p])
    BY <1>1 DEF QueueTypes
  <2>3. QED
    BY <1>3, <2>1, <2>2, RoomStays
<1>5. \A p : (Q!InHand(p))' = Q!InHand(p)
  BY DEF Q!InHand
<1>6. AllAscend' /\ PeerOK' /\ BurstOK'
  BY <1>5 DEF QueueInv, AllAscend, PeerOK, BurstOK
<1>7. QED
  BY <1>3, <1>4, <1>6 DEF QueueInv

\* A new stream starts with nothing missing.
LEMMA QueueAvStartKeeps ==
  ASSUME QueueInv, Q!AvStart
  PROVE  QueueInv'
<1> USE DEF Q!AvStart, Q!stream
<1>1. QueueTypes
  BY DEF QueueInv
<1>2. missing' \in [Q!Payload -> SUBSET Place] /\ \A p \in Q!Payload : missing'[p] = {}
  OBVIOUS
<1>3. QueueTypes'
  BY <1>1, <1>2 DEF QueueTypes
<1>4. \A p : (Q!InHand(p))' = Q!InHand(p) /\ (Putting(p))' = Putting(p)
  BY DEF Q!InHand, Putting
<1>5. AllAscend' /\ Room'
  BY <1>4 DEF QueueInv, AllAscend, Room
<1>6. \A p \in Q!Payload : found[p] = Q!None
  BY DEF QueueInv, PeerOK
<1>7. PeerOK' /\ BurstOK'
  BY <1>2, <1>6 DEF PeerOK, BurstOK
<1>8. QED
  BY <1>3, <1>5, <1>7 DEF QueueInv

\* A stream that has ended misses nothing.
LEMMA QueueAvStopKeeps ==
  ASSUME QueueInv, Q!AvStop
  PROVE  QueueInv'
<1> USE DEF Q!AvStop, Q!stream
<1>1. QueueTypes
  BY DEF QueueInv
<1>2. missing' \in [Q!Payload -> SUBSET Place] /\ \A p \in Q!Payload : missing'[p] = {}
  OBVIOUS
<1>3. QueueTypes'
  BY <1>1, <1>2 DEF QueueTypes
<1>4. \A p : (Q!InHand(p))' = Q!InHand(p) /\ (Putting(p))' = Putting(p)
  BY DEF Q!InHand, Putting
<1>5. AllAscend' /\ Room'
  BY <1>4 DEF QueueInv, AllAscend, Room
<1>6. \A p \in Q!Payload : found[p] = Q!None
  BY DEF QueueInv, PeerOK
<1>7. PeerOK' /\ BurstOK'
  BY <1>2, <1>6 DEF PeerOK, BurstOK
<1>8. QED
  BY <1>3, <1>5, <1>7 DEF QueueInv

\* The end of a burst leaves only what is in hand.
LEMMA QueueBurstOverKeeps ==
  ASSUME QueueInv, Q!BurstOver
  PROVE  QueueInv'
<1> USE DEF Q!BurstOver, Q!stream
<1>1. QueueTypes
  BY DEF QueueInv
<1>2. QueueTypes'
  BY <1>1 DEF QueueTypes
<1>3. \A p : (Q!InHand(p))' = Q!InHand(p) /\ (Putting(p))' = Putting(p)
  BY DEF Q!InHand, Putting
<1>4. AllAscend' /\ Room' /\ PeerOK' /\ BurstOK'
  BY <1>3 DEF QueueInv, AllAscend, Room, PeerOK, BurstOK
<1>5. QED
  BY <1>2, <1>4 DEF QueueInv

\* A burst starts with packets that are in their queues.
LEMMA ItemsQueued ==
  ASSUME QueueTypes, NEW asked, NEW p \in Q!Payload, NEW x \in Q!Items(asked)[p]
  PROVE  Q!Contains(queue[p], x)
<1>1. \A q, S : \A y \in Q!LastIn(q, S) : Q!Contains(q, y)
  BY DEF Q!LastIn, Q!Contains
<1>2. CASE asked = [q \in Q!Payload |-> Q!None]
  <2> DEFINE keys == Q!LastIn(queue["video"], Key)
             before == Q!LastIn(queue["audio"], {a \in Q!Packet("audio") :
                                                 \A v \in keys : a <= v})
  <2>1. Q!Items(asked) = [q \in Q!Payload |-> IF q = "video" \/ keys = {} THEN keys ELSE before]
    BY <1>2 DEF Q!Items
  <2> HIDE DEF keys, before
  <2>2. x \in IF p = "video" \/ keys = {} THEN keys ELSE before
    BY <2>1
  <2>3. CASE p = "video"
    BY <1>1, <2>2, <2>3 DEF keys
  <2>4. CASE p = "audio"
    BY <1>1, <2>2, <2>4 DEF keys, before
  <2>5. QED
    BY <2>3, <2>4 DEF Q!Payload
<1>3. CASE asked # [q \in Q!Payload |-> Q!None]
  BY <1>3 DEF Q!Items
<1>4. QED
  BY <1>2, <1>3

\* The burst covers whatever is queued behind what was found.
LEMMA QueueFindKeeps ==
  ASSUME QueueInv, NEW asked, Q!Find(asked)
  PROVE  QueueInv'
<1> USE DEF Q!Find, Q!stream
<1> DEFINE items == Q!Items(asked)
           both == \A p \in Q!Payload : items[p] # {}
<1>1. QueueTypes /\ ipc = "find" /\ live
  BY DEF QueueInv, PeerOK
<1>2. \A p \in Q!Payload : found[p] = Q!None
  BY <1>1 DEF QueueInv, PeerOK
<1>3. \A p : (Q!InHand(p))' = Q!InHand(p) /\ (Putting(p))' = Putting(p)
  BY DEF Q!InHand, Putting
<1>4. AllAscend' /\ Room'
  BY <1>3 DEF QueueInv, AllAscend, Room
<1>5. CASE both
  <2>1. /\ found' = [p \in Q!Payload |-> CHOOSE q \in items[p] : TRUE]
        /\ missing' = [p \in Q!Payload |-> missing[p] \cup
                         {q \in Q!Packet(p) : Q!Contains(queue[p], q) /\ q >= found'[p]}]
        /\ ipc' = "burst" /\ spoilt' = spoilt
    BY <1>5
  <2>2. \A p \in Q!Payload : found'[p] \in items[p]
    <3> HIDE DEF items
    <3>1. \A p \in Q!Payload : found'[p] = CHOOSE q \in items[p] : TRUE
      BY <2>1
    <3>2. QED
      BY <3>1, <1>5, Zenon
  <2>3. \A p \in Q!Payload : Q!Contains(queue[p], found'[p])
    BY <1>1, <2>2, ItemsQueued
  <2>4. \A p \in Q!Payload : \A x : Q!Contains(queue[p], x) => x \in Place
    <3>1. \A p \in Q!Payload : queue[p] \in Seq(Place)
      BY <1>1 DEF QueueTypes
    <3>2. ASSUME NEW p \in Q!Payload, NEW i \in DOMAIN queue[p] PROVE queue[p][i] \in Place
      BY <3>1
    <3>3. QED
      BY <3>2 DEF Q!Contains
  <2>5. found' \in [Q!Payload -> Nat]
    <3>1. \A p \in Q!Payload : found'[p] \in Nat
      BY <2>3, <2>4 DEF Place
    <3>2. QED
      BY <2>1, <3>1
  <2>6. \A p \in Q!Payload : \A x : x \in missing'[p] <=>
          x \in missing[p] \/ (x \in Q!Packet(p) /\ Q!Contains(queue[p], x) /\ x >= found'[p])
    BY <2>1
  <2>7. missing' \in [Q!Payload -> SUBSET Place]
    <3>1. \A p \in Q!Payload : missing[p] \subseteq Place
      BY <1>1 DEF QueueTypes
    <3>2. \A p \in Q!Payload : missing'[p] \in SUBSET Place
      BY <2>4, <2>6, <3>1
    <3>3. QED
      BY <2>1, <3>2
  <2>8. QueueTypes'
    BY <1>1, <2>1, <2>5, <2>7 DEF QueueTypes
  <2>9. PeerOK'
    BY <1>1, <2>1 DEF PeerOK
  <2>10. BurstOK'
    <3>1. SUFFICES ASSUME ~spoilt, ~wrapped, NEW p \in Q!Payload
                   PROVE  /\ Q!Contains(queue[p], found'[p])
                          /\ \A x \in missing'[p] :
                               \/ x \in Q!InHand(p)
                               \/ /\ found'[p] # Q!None /\ found'[p] <= x
                                  /\ Q!Contains(queue[p], x)
      BY <1>3, <2>1 DEF BurstOK
    <3>2. \A x \in missing[p] : x \in Q!InHand(p)
      BY <1>2, <3>1 DEF QueueInv, BurstOK
    <3>3. found'[p] \in Place
      BY <2>3, <2>4
    <3>4. ASSUME NEW x \in Place, x >= found'[p] PROVE found'[p] # Q!None /\ found'[p] <= x
      BY <3>3, <3>4 DEF Place, Q!None
    <3>5. QED
      BY <2>3, <2>4, <2>6, <3>2, <3>4
  <2>11. QED
    BY <1>4, <2>8, <2>9, <2>10 DEF QueueInv
<1>6. CASE ~both
  <2>1. ipc' = "idle" /\ spoilt' = TRUE /\ found' = found /\ missing' = missing
    BY <1>6
  <2>2. QueueTypes'
    BY <1>1, <2>1 DEF QueueTypes
  <2>3. PeerOK' /\ BurstOK'
    BY <1>1, <1>2, <2>1 DEF PeerOK, BurstOK
  <2>4. QED
    BY <1>4, <2>2, <2>3 DEF QueueInv
<1>7. QED
  BY <1>5, <1>6

\* In an ascending queue the successor of a packet is the next larger one.
LEMMA SuccessorIsNext ==
  ASSUME NEW q \in Seq(Place), Ascends(q), NEW packet \in Place, Q!Contains(q, packet)
  PROVE  /\ Q!Successor(q, packet) \in Nat
         /\ Q!Successor(q, packet) # Q!None => Q!Contains(q, Q!Successor(q, packet))
         /\ \A x \in Place : (Q!Contains(q, x) /\ packet < x) =>
              Q!Successor(q, packet) # Q!None /\ Q!Successor(q, packet) <= x
<1> DEFINE i == CHOOSE n \in DOMAIN q : q[n] = packet
<1>1. i \in DOMAIN q /\ q[i] = packet
  BY Zenon DEF Q!Contains
<1>2. Q!Successor(q, packet) = IF i < Len(q) THEN q[i + 1] ELSE Q!None
  BY Zenon DEF Q!Successor
<1> HIDE DEF i
<1>3. Len(q) \in Nat /\ DOMAIN q = 1..Len(q) /\ \A k \in 1..Len(q) : q[k] \in Place
  OBVIOUS
<1>4. ASSUME NEW k \in DOMAIN q, packet < q[k]
      PROVE  i < Len(q) /\ q[i + 1] <= q[k]
  <2>1. i < k
    <3>1. ~(k < i) /\ k # i
      BY <1>1, <1>3, <1>4 DEF Ascends, Place
    <3>2. QED
      BY <1>1, <1>3, <3>1
  <2>2. i + 1 \in 1..Len(q) /\ i + 1 <= k
    BY <2>1, <1>1, <1>3
  <2>3. i + 1 = k \/ q[i + 1] < q[k]
    BY <2>2, <1>3 DEF Ascends
  <2>4. QED
    BY <2>1, <2>2, <2>3, <1>1, <1>3 DEF Place
<1>5. CASE i < Len(q)
  <2>1. i + 1 \in DOMAIN q /\ Q!Successor(q, packet) = q[i + 1] /\ q[i + 1] \in Place
    BY <1>1, <1>2, <1>3, <1>5
  <2>2. Q!Contains(q, Q!Successor(q, packet))
    BY <2>1 DEF Q!Contains
  <2>3. QED
    BY <1>4, <2>1, <2>2 DEF Q!Contains, Place, Q!None
<1>6. CASE ~(i < Len(q))
  <2>1. Q!Successor(q, packet) = Q!None
    BY <1>2, <1>6
  <2>2. QED
    BY <1>4, <1>6, <2>1 DEF Q!Contains, Q!None
<1>7. QED
  BY <1>5, <1>6

\* Even when nothing is known of the order.
LEMMA SuccessorType ==
  ASSUME NEW q \in Seq(Place), NEW packet, Q!Contains(q, packet)
  PROVE  Q!Successor(q, packet) \in Nat
<1> DEFINE i == CHOOSE n \in DOMAIN q : q[n] = packet
<1>1. i \in DOMAIN q
  BY Zenon DEF Q!Contains
<1>2. Q!Successor(q, packet) = IF i < Len(q) THEN q[i + 1] ELSE Q!None
  BY Zenon DEF Q!Successor
<1> HIDE DEF i
<1>3. Len(q) \in Nat /\ DOMAIN q = 1..Len(q) /\ \A k \in 1..Len(q) : q[k] \in Place
  OBVIOUS
<1>4. QED
  BY <1>1, <1>2, <1>3 DEF Place, Q!None

\* A packet that is sent is missing no more, and the next one is its successor.
LEMMA QueueSendItemKeeps ==
  ASSUME QueueInv, NEW p \in Q!Payload, Q!SendItem(p)
  PROVE  QueueInv'
<1> USE DEF Q!SendItem, Q!stream
<1>1. QueueTypes
  BY DEF QueueInv
<1>2. \A q : (Q!InHand(q))' = Q!InHand(q) /\ (Putting(q))' = Putting(q)
  BY DEF Q!InHand, Putting
<1>3. AllAscend' /\ Room'
  BY <1>2 DEF QueueInv, AllAscend, Room
<1>4. queue[p] \in Seq(Place) /\ found[p] \in Place
  BY <1>1 DEF QueueTypes, Place, Q!None
<1>5. CASE Q!Contains(queue[p], found[p])
  <2>1. /\ found' = [found EXCEPT ![p] = Q!Successor(queue[p], found[p])]
        /\ missing' = [missing EXCEPT ![p] = missing[p] \ {found[p]}]
    BY <1>5
  <2>2. Q!Successor(queue[p], found[p]) \in Nat
    BY <1>4, <1>5, SuccessorType
  <2>3. /\ found' \in [Q!Payload -> Nat] /\ found'[p] = Q!Successor(queue[p], found[p])
        /\ \A q \in Q!Payload : q # p => found'[q] = found[q]
    BY <1>1, <2>1, <2>2 DEF QueueTypes
  <2>4. /\ missing' \in [Q!Payload -> SUBSET Place] /\ missing'[p] = missing[p] \ {found[p]}
        /\ \A q \in Q!Payload : q # p => missing'[q] = missing[q]
    BY <1>1, <2>1 DEF QueueTypes
  <2>5. QueueTypes'
    BY <1>1, <2>3, <2>4 DEF QueueTypes
  <2>6. PeerOK'
    <3>1. \A q \in Q!Payload : missing'[q] \subseteq missing[q]
      BY <2>4
    <3>2. QED
      BY <3>1 DEF QueueInv, PeerOK
  <2>7. BurstOK'
    <3>1. SUFFICES ASSUME ~spoilt, ~wrapped, NEW q \in Q!Payload
                   PROVE  /\ found'[q] # Q!None => Q!Contains(queue[q], found'[q])
                          /\ \A x \in missing'[q] :
                               \/ x \in Q!InHand(q)
                               \/ /\ found'[q] # Q!None /\ found'[q] <= x
                                  /\ Q!Contains(queue[q], x)
      BY <1>2 DEF BurstOK
    <3>2. \A x \in missing[q] : \/ x \in Q!InHand(q)
                                \/ found[q] # Q!None /\ found[q] <= x /\ Q!Contains(queue[q], x)
      BY <3>1 DEF QueueInv, BurstOK
    <3>3. CASE q # p
      <4>1. found[q] # Q!None => Q!Contains(queue[q], found[q])
        BY <3>1 DEF QueueInv, BurstOK
      <4>2. QED
        BY <2>3, <2>4, <3>2, <3>3, <4>1
    <3>4. CASE q = p
      <4>1. Ascends(queue[p])
        BY <3>1 DEF QueueInv, AllAscend
      <4>2. /\ found'[p] # Q!None => Q!Contains(queue[p], found'[p])
            /\ \A x \in Place : (Q!Contains(queue[p], x) /\ found[p] < x) =>
                 found'[p] # Q!None /\ found'[p] <= x
        BY <1>4, <1>5, <2>3, <4>1, SuccessorIsNext
      <4>3. ASSUME NEW x \in missing'[p], x \notin Q!InHand(p)
            PROVE  found'[p] # Q!None /\ found'[p] <= x /\ Q!Contains(queue[p], x)
        <5>1. /\ x \in missing[p] /\ x # found[p] /\ x \in Place
              /\ found[p] <= x /\ Q!Contains(queue[p], x)
          BY <1>1, <2>4, <3>2, <3>4, <4>3 DEF QueueTypes
        <5>2. found[p] < x
          BY <1>4, <5>1 DEF Place
        <5>3. QED
          BY <4>2, <5>1, <5>2
      <4>4. QED
        BY <3>4, <4>2, <4>3
    <3>5. QED
      BY <3>3, <3>4
  <2>8. QED
    BY <1>3, <2>5, <2>6, <2>7 DEF QueueInv
<1>6. CASE ~Q!Contains(queue[p], found[p])
  <2>1. PICK n \in {Q!None} \cup {queue[p][i] : i \in DOMAIN queue[p]} :
          found' = [found EXCEPT ![p] = n] /\ missing' = missing
    BY <1>6
  <2>2. n \in Nat
    BY <1>4 DEF Place, Q!None
  <2>3. QueueTypes'
    BY <1>1, <2>1, <2>2 DEF QueueTypes
  <2>4. spoilt \/ wrapped
    BY <1>6 DEF QueueInv, BurstOK
  <2>5. PeerOK' /\ BurstOK'
    BY <2>1, <2>4 DEF QueueInv, PeerOK, BurstOK
  <2>6. QED
    BY <1>3, <2>3, <2>5 DEF QueueInv
<1>7. QED
  BY <1>5, <1>6

\* Nothing changes.
LEMMA StutterKeepsQueueInv ==
  ASSUME QueueInv, UNCHANGED Q!vars
  PROVE  QueueInv'
BY DEF Q!vars, Q!stream, Q!peer, QueueInv, QueueTypes, AllAscend, Room, Putting, PeerOK,
       BurstOK, Q!InHand

\* Every step keeps the invariant.
LEMMA StepKeepsQueueInv == QueueInv /\ [Q!Next]_Q!vars => QueueInv'
<1> SUFFICES ASSUME QueueInv, [Q!Next]_Q!vars PROVE QueueInv'
  OBVIOUS
<1>1. CASE UNCHANGED Q!vars
  BY <1>1, StutterKeepsQueueInv
<1>2. CASE \E r \in Reader : \/ \E p \in Q!Payload : Q!Take(r, p)
                             \/ Q!Count(r) \/ Q!Evict(r) \/ Q!Put(r) \/ Q!Forward(r)
                             \/ Q!End(r) \/ Q!Switch(r)
  BY <1>2, QueueTakeKeeps, QueueCountKeeps, QueueEvictKeeps, QueuePutKeeps,
     QueueForwardKeeps, QueueEndKeeps, QueueSwitchKeeps
<1>3. CASE Q!AvStart \/ Q!AvStop \/ Q!BurstOver
  BY <1>3, QueueAvStartKeeps, QueueAvStopKeeps, QueueBurstOverKeeps
<1>4. CASE \E asked \in [Q!Payload -> (First..Last["video"]) \cup {Q!None}] : Q!Find(asked)
  BY <1>4, QueueFindKeeps
<1>5. CASE \E p \in Q!Payload : Q!SendItem(p)
  BY <1>5, QueueSendItemKeeps
<1>6. QED
  BY <1>1, <1>2, <1>3, <1>4, <1>5 DEF Q!Next

\* The invariant implies what the run checks.
LEMMA QueueInvImplies == QueueInv => QueueInOrder /\ NothingSkipped
<1> SUFFICES ASSUME QueueInv PROVE QueueInOrder /\ NothingSkipped
  OBVIOUS
<1>1. QueueInOrder
  <2>1. ASSUME NEW p \in Q!Payload PROVE Len(queue[p]) < Capacity + Cardinality(Reader)
    <3>1. Len(queue[p]) \in Nat
      BY DEF QueueInv, QueueTypes
    <3>2. Len(queue[p]) + Cardinality(Putting(p)) < Capacity + Cardinality(Reader)
      BY DEF QueueInv, Room
    <3>3. QED
      BY <3>1, <3>2, SizeOfPutting, QueueAssumption
  <2>2. Cardinality(Reader) = Q!Cardinality(Reader)
    BY Zenon DEF Cardinality, Q!Cardinality
  <2>3. QED
    BY <2>1, <2>2 DEF QueueInv, AllAscend, Ascends, QueueInOrder, Q!QueueInOrder
<1>2. NothingSkipped
  BY DEF QueueInv, PeerOK, BurstOK, NothingSkipped, Q!NothingSkipped
<1>3. QED
  BY <1>1, <1>2

-----------------------------------------------------------------------------
\* The invariant holds whatever the threads' order, also after an exception.
THEOREM QueueInvariant == Q!Spec => []QueueInv
BY InitQueueInv, StepKeepsQueueInv, PTL DEF Q!Spec

\* However two or more receive threads mix old packets and new, arrayRecvQueue stays
\* in the order of the stream and short, unless a packet came too late for the
\* comparison of its number: the case of the wrap is right for every size of the
\* numbers and of the margin that is at most a third of it.
THEOREM QueuesInOrder == Q!Spec => []QueueInOrder
BY QueueInvariant, QueueInvImplies, PTL DEF QueueInOrder

\* Every packet queued behind the one a peer starts with reaches it, in the burst or
\* passed on by the thread that queued it, though no lock is held from the one to
\* the other.
THEOREM PeersMissNothing == Q!Spec => []NothingSkipped
BY QueueInvariant, QueueInvImplies, PTL DEF NothingSkipped

-----------------------------------------------------------------------------
(* The media source: M and MP instantiate the same definitions.            *)

\* The same initial states.
LEMMA SameInit == M!Init => MP!Init
BY Zenon
   DEF M!Init, MP!Init, M!Viewer, MP!Viewer, M!None, MP!None, M!Eloop, MP!Eloop,
       M!Thread, MP!Thread, M!NoJob, MP!NoJob

\* The same steps.
LEMMA SameNext == M!Next => MP!Next
BY Zenon
   DEF M!Next, MP!Next, M!vars, MP!vars, M!flags, MP!flags, M!history, MP!history,
       M!Viewer, MP!Viewer, M!None, MP!None, M!Eloop, MP!Eloop, M!Thread, MP!Thread,
       M!NoJob, MP!NoJob, M!Using, MP!Using, M!Goto, MP!Goto, M!Serves, MP!Serves,
       M!CanTakeOver, MP!CanTakeOver, M!TakesOver, MP!TakesOver, M!NobodyTakesOver,
       MP!NobodyTakesOver, M!StartSwitch, MP!StartSwitch, M!EndSwitch, MP!EndSwitch,
       M!StopSource, MP!StopSource, M!Scanned, MP!Scanned, M!ResetSource, MP!ResetSource,
       M!ForgetSource, MP!ForgetSource, M!Closed, MP!Closed, M!Drop, MP!Drop, M!ConnectNode, MP!ConnectNode,
       M!DisconnectNode, MP!DisconnectNode, M!SwitchEvent, MP!SwitchEvent, M!Timeout,
       MP!Timeout, M!Return, MP!Return, M!ConnectFails, MP!ConnectFails,
       M!CheckPassword, MP!CheckPassword, M!HelloAnswered, MP!HelloAnswered,
       M!HelloFails, MP!HelloFails, M!Begin, MP!Begin, M!Packet, MP!Packet, M!EndLoop,
       MP!EndLoop, M!Ended, MP!Ended, M!Bye, MP!Bye

\* The same property.
LEMMA SameProperty == MP!SourceServes => SourceServes
BY Zenon
   DEF SourceServes, M!SourceServes, MP!SourceServes, M!Settled, MP!Settled, M!Spoiled, MP!Spoiled,
       M!Viewer, MP!Viewer, M!None, MP!None, M!Eloop, MP!Eloop, M!Thread, MP!Thread

\* While a connection is up that nobody ends, exactly one streams, and it is the
\* source, for any number of viewer connections and any interleaving of threads.
THEOREM NodeSourceServes == M!Spec => []SourceServes
<1>1. [M!Next]_M!vars => [MP!Next]_MP!vars
  BY SameNext DEF M!vars, MP!vars, M!flags, MP!flags, M!history, MP!history
<1>2. M!Spec => MP!Spec
  BY <1>1, SameInit, PTL DEF M!Spec, MP!Spec
<1>3. QED
  BY <1>2, MP!AlwaysSourceServes, SameProperty, PTL

-----------------------------------------------------------------------------
\* The node, its parts moving one at a time, does in each part what that part's
\* module allows, so that all of the above holds of it.
THEOREM NodeImplementsParts == MCSpec => Spec /\ M!Spec /\ Q!Spec
<1>1. MCInit => Init /\ M!Init /\ Q!Init
  BY DEF MCInit
<1>2. [MCNext]_<<vars, mediaVars, queueVars>> => [Next]_vars
  BY DEF MCNext
<1>3. [MCNext]_<<vars, mediaVars, queueVars>> => [M!Next]_M!vars
  BY DEF MCNext, mediaVars, M!vars, M!flags, M!history
<1>4. [MCNext]_<<vars, mediaVars, queueVars>> => [Q!Next]_Q!vars
  BY DEF MCNext, queueVars, Q!vars, Q!stream, Q!peer
<1>5. QED
  BY <1>1, <1>2, <1>3, <1>4, PTL DEF MCSpec, Spec, M!Spec, Q!Spec

\* Together: the safety of the whole node.
THEOREM NodeSafe ==
  MCSpec => []( /\ OneChannelUnlessOvertaken /\ ServedNotClosed /\ StreamEndsWithChannel
                /\ StreamGoesToPeer /\ LostOnlyByOverlap
                /\ SourceServes /\ QueueInOrder /\ NothingSkipped )
BY NodeImplementsParts, ControlInvariant, IInvImplies, QueuesInOrder, PeersMissNothing,
   NodeSourceServes, PTL
=============================================================================
