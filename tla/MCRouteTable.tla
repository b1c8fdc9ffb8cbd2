---------------------------- MODULE MCRouteTable ----------------------------
(* An instance of RouteTable whose table is too small for its nodes, of    *)
(* one of which the reports stop.                                          *)
EXTENDS RouteTable

CONSTANT Mortal    \* the node that may fall silent

MCSpec == Init /\ [][Next /\ reported \ reported' \subseteq {Mortal}]_vars /\ Fairness
=============================================================================
