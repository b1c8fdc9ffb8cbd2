------------------------------- MODULE MCNode -------------------------------
(* A small instance of a node: the control channel of its RepeaterNode, and *)
(* the media source and the packet queues of its Repeater.  They share no   *)
(* state here, so that it is enough to let one of them move while the       *)
(* others are in their initial states.                                      *)
EXTENDS ControlChannel, FiniteSets

CONSTANTS Viewers, Reader, Modulus, Margin, Capacity, First, Last, Jump, Switches, Key

MCLast == [audio |-> 8, video |-> 12]

\* What MediaSource and PacketQueue expect of their constants.
ASSUME ViewersAssumption == Viewers \in Nat \ {0}
ASSUME QueueAssumption ==
  /\ IsFiniteSet(Reader) /\ Capacity \in Nat \ {0}
  /\ Margin \in Nat \ {0} /\ Modulus \in Nat /\ 3 * Margin <= Modulus
  /\ First \in Nat \ {0} /\ \A p \in {"audio", "video"} : Last[p] \in Nat

VARIABLES conn, up, primary, started, quit, source, media, job,
          rushed, late, absent, crossed, missed

VARIABLES queue, feed, next, switches, reader, live, ipc, found,
          missing, spoilt, wrapped

mediaVars == <<conn, up, primary, started, quit, source, media, job,
               rushed, late, absent, crossed, missed>>
queueVars == <<queue, feed, next, switches, reader, live, ipc, found,
               missing, spoilt, wrapped>>

M == INSTANCE MediaSource WITH connected <- up
Q == INSTANCE PacketQueue WITH source <- feed, avStarted <- live

\* The receive threads are alike, so that it does not matter which has the source.
MCInit == Init /\ M!Init /\ Q!Init /\ feed = CHOOSE r \in Reader : TRUE

\* Once a flag is up by which a property makes an exception for good, or for as
\* long as the same request lasts, nothing is left to see and nothing moves any more.
MCNext == \/ Next /\ M!Init /\ Q!Init /\ UNCHANGED <<mediaVars, queueVars>>
          \/ M!Next /\ ~M!Spoiled /\ Init /\ Q!Init /\ UNCHANGED <<vars, queueVars>>
          \/ Q!Next /\ ~wrapped /\ ~spoilt /\ Init /\ M!Init /\ UNCHANGED <<vars, mediaVars>>
          \/ (M!Spoiled \/ wrapped \/ spoilt) /\ UNCHANGED <<vars, mediaVars, queueVars>>

MCSpec == MCInit /\ [][MCNext]_<<vars, mediaVars, queueVars>> /\ Fairness

SourceServes == M!SourceServes
QueueInOrder == Q!QueueInOrder
NothingSkipped == Q!NothingSkipped
=============================================================================
