-------------------------- MODULE MCRudpCongestion --------------------------
(* Small instances of RudpCongestion.  No action reads or writes both the  *)
(* window and the round trip estimate, so behaviours that move one of them *)
(* and leave the other in its initial state visit every state of each.     *)
EXTENDS RudpCongestion

WindowUntouched == /\ sndCwnd = MinCwnd /\ maxCwnd = DefaultCwnd /\ slowStart
                   /\ ~lossFlag /\ lastAck = 0 /\ resendCount = 0
EstimateUntouched == rttFirst /\ path = MaxRtt + 1

MCSpec == Init /\ [][Next /\ (WindowUntouched \/ EstimateUntouched)']_vars
               /\ WF_vars(SetRtt(path))
=============================================================================
