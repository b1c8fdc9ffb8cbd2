--------------------------- MODULE ReliableStream ---------------------------
(***************************************************************************)
(* What a connected pair of RUDP sockets promises to the applications at   *)
(* its two ends: a pair of FIFO byte streams.  The k-th byte an            *)
(* application writes is represented by the number k, so that the bytes    *)
(* written at an endpoint are 1..written and what its peer has read must   *)
(* be <<1, 2, ..., k>> for some k not above written: no byte is lost,      *)
(* repeated, reordered or invented.                                        *)
(***************************************************************************)
EXTENDS Naturals, Sequences

CONSTANTS Endpoint,   \* the two ends of the connection
          Peer,       \* Peer[p] is the other end
          MaxWrite    \* the most bytes one write takes

VARIABLES written,    \* written[p]: how many bytes the application wrote at p
          consumed    \* consumed[p]: the bytes the application has read at p

vars == <<written, consumed>>

\* The bytes numbered from + 1 .. to, in order.
Run(from, to) == [i \in 1..(to - from) |-> from + i]

Init == /\ written = [p \in Endpoint |-> 0]
        /\ consumed = [p \in Endpoint |-> <<>>]

Write(p) == /\ \E k \in 1..MaxWrite : written' = [written EXCEPT ![p] = @ + k]
            /\ UNCHANGED consumed

\* The application at p reads the next bytes of the stream its peer writes.
Read(p) == /\ \E to \in (Len(consumed[p]) + 1)..written[Peer[p]] :
                consumed' = [consumed EXCEPT ![p] = @ \o Run(Len(@), to)]
           /\ UNCHANGED written

Next == \E p \in Endpoint : Write(p) \/ Read(p)

Spec == Init /\ [][Next]_vars
=============================================================================
