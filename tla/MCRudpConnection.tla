-------------------------- MODULE MCRudpConnection --------------------------
(* Small instances of RudpConnection that are looked at from two sides: one *)
(* connect() whose SYNs, SYN2s and FINs are repeated at will, or a second   *)
(* connect() that reuses the ids of the first, on a path where only the     *)
(* first of repeated datagrams gets through (a second SYN would run into    *)
(* what ConnectionReused shows).                                            *)
EXTENDS RudpConnection

VARIABLE reuse     \* which of the two a behaviour is

\* A repeated SYN or FIN and the copies of a SYN2 or FIN2 do not get through.
NoRepeats ==
  /\ \A h \in Host, i \in Id :
       (sock[h][i].tries > 0 /\ sock'[h][i].tries > sock[h][i].tries) => net' = net
  /\ \A h \in Host : \A j, k \in 1..Len(net'[h]) : net'[h][j] = net'[h][k] => j = k

MCInit == Init /\ reuse \in BOOLEAN
MCNext == /\ Next
          /\ IF reuse
             THEN accepts' <= 1 /\ NoRepeats /\ Len(net'[Client]) + Len(net'[Server]) <= 2
             ELSE connects' <= 1
          /\ UNCHANGED reuse
MCSpec == MCInit /\ [][MCNext]_<<vars, reuse>>
=============================================================================
