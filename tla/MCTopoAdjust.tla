---------------------------- MODULE MCTopoAdjust ----------------------------
(* An instance of TopoAdjust: devices a and b below the root, and c and d   *)
(* below a, which the guaji nodes of their uncle b are for.                 *)
EXTENDS TopoAdjust

CONSTANTS a, b, c, d,         \* devices
          va, vc, vd,         \* the second viewers of a, c and d
          ac, ad, gb, hb      \* the guaji nodes that c and d hang on; those of b

MCOwner == [x \in {va, vc, vd, ac, ad, gb, hb} |->
              CASE x = vc -> c [] x = vd -> d [] x \in {va, ac, ad} -> a [] x \in {gb, hb} -> b]
MCLevel == [x \in {a, b, c, d} |-> IF x \in {a, b} THEN 2 ELSE 3]
MCFather == [x \in {a, b, c, d} |-> CASE x = c -> ac [] x = d -> ad [] OTHER -> NoGuaji]

\* Either c and d compete for the guaji nodes of b, no report arrives, so that both
\* nodes look free all the time, no connection breaks, and nothing moves once an
\* exception is made for good,
Competing == /\ ~reused /\ UNCHANGED rows
             /\ \A v \in Viewer : link[v] # NoGuaji => link'[v] = link[v]

\* or va holds one of them for good, d is not heard of and given no order, and c may
\* have the other: its connection breaks at any time, and what is seen of it is old.
\* (Claim is fair all the same: that of vc is enabled, or that of vd disabled, again
\* and again.)
Alone == link[va] = hb

MCInit == Init /\ link \in [Viewer -> {NoGuaji, hb}] /\ link[vc] = NoGuaji /\ link[vd] = NoGuaji

MCNext == \/ Alone /\ Next /\ link'[va] = hb /\ eloop'.viewer # vd
          \/ ~Alone /\ Next /\ Competing
          \/ ~Alone /\ reused /\ UNCHANGED vars

MCSpec == MCInit /\ [][MCNext]_vars /\ Fairness
=============================================================================
