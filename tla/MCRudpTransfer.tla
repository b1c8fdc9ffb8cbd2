--------------------------- MODULE MCRudpTransfer ---------------------------
(* Small instances of RudpTransfer: endpoints a and b.                     *)
EXTENDS RudpTransfer

CONSTANTS a, b, BytesOfA, BytesOfB

MCEndpoint == {a, b}
MCPeer == [p \in {a, b} |-> IF p = a THEN b ELSE a]
MCBudget == [p \in {a, b} |-> IF p = a THEN BytesOfA ELSE BytesOfB]

\* Either one side sends, and the path holds NetCap datagrams, or both sides
\* send two bytes at most, over a path for one datagram.
Within == \/ Total(cut[b]) = 0
          \/ \A p \in {a, b} : Total(cut[p]) <= 2 /\ Cardinality(net[p]) <= 1
MCSpec == Init /\ [][Next /\ Within']_vars
=============================================================================
