----------------------------- MODULE TopoAdjust -----------------------------
(***************************************************************************)
(* How the root Repeater of a tree gives every device of level 3 and below *)
(* a second connection upwards.  AdjustTopoStructure() looks for a device  *)
(* with one connected viewer node, takes a free guaji node of an "uncle",  *)
(* a device of its father's level that is not its father, notes the pair   *)
(* in connecting_event_table and orders both to connect.  The entry keeps  *)
(* the device, the viewer and the guaji out of other orders until the tree *)
(* reports the connection (TOPO_DROP with is_connected) or 60 s are over.  *)
(*                                                                         *)
(* The event loop thread adjusts, the IPC thread hears of the connection;  *)
(* no lock guards connecting_event_table.  The rows of the route table are *)
(* what the nodes last reported.  The first connection of a device is      *)
(* arranged by the server of the channel and is taken to stay.             *)
(***************************************************************************)
EXTENDS Naturals, FiniteSets

CONSTANTS Device, Viewer, Guaji,
          Owner,       \* Owner[x]: owner_node_id, the device of viewer or guaji x
          Level,       \* Level[d]: topo_level
          Father,      \* Father[d]: the guaji its first viewer is connected to, or
                       \* NoGuaji
          NoGuaji, NoViewer,
          Items,       \* MAX_CONNECTING_EVENT_NUM
          Life         \* the 60 s an entry lives, in ticks

ASSUME TopoAssumption ==
  /\ Owner \in [Viewer \cup Guaji -> Device]
  /\ Level \in [Device -> Nat]
  /\ Father \in [Device -> Guaji \cup {NoGuaji}]
  /\ NoGuaji \notin Guaji /\ NoViewer \notin Viewer
  /\ Items \in Nat \ {0} /\ Life \in Nat \ {0}

VARIABLES link,        \* link[v]: the guaji that viewer v is connected to
          attempt,     \* attempt[v]: the guaji it has been ordered to connect to
          notices,     \* viewers whose TOPO_DROP with is_connected is on its way
          seen,        \* seen[v]: is_connected and peer_node_id in the row of v
          seenBusy,    \* the guaji nodes whose row says is_connected
          seenSpare,   \* seenSpare[d]: unconnected_guaji_nodes in the row of d
          item,        \* connecting_event_table: [used, age, viewer, guaji, switch]
          eloop,       \* AdjustTopoStructure() between bUsing = TRUE and the ids
          ipc,         \* CMD_CODE_TOPO_DROP: the entry the search is at or has
                       \* found, and, as a history, what the order of the viewer
                       \* said of the switch
          orders,      \* history: the orders that are neither fulfilled nor too old
          reused       \* history: an entry was given to an order while the IPC
                       \* thread was at it, and may have been freed by it

tree == <<link, attempt>>
rows == <<seen, seenBusy, seenSpare>>
vars == <<tree, notices, rows, item, eloop, ipc, orders, reused>>

Item == 1..Items
NoItem == 0            \* the -1 of the code
Peer == Guaji \cup {NoGuaji}

ViewersOf(d) == {v \in Viewer : Owner[v] = d}
GuajisOf(d) == {g \in Guaji : Owner[g] = d}
Taken(g) == (\E d \in Device : Father[d] = g) \/ \E v \in Viewer : link[v] = g

Looking == [index |-> NoItem, viewer |-> NoViewer, guaji |-> NoGuaji]
Quiet == [at |-> "idle", viewer |-> NoViewer, index |-> NoItem, switch |-> FALSE]

TypeOK ==
  /\ link \in [Viewer -> Peer] /\ attempt \in [Viewer -> Peer]
  /\ notices \subseteq Viewer
  /\ seen \in [Viewer -> Peer] /\ seenBusy \subseteq Guaji
  /\ seenSpare \in [Device -> 0..Cardinality(Guaji)]
  /\ item \in [Item -> [used : BOOLEAN, age : 0..(Life + 1), viewer : Viewer \cup {NoViewer},
                        guaji : Peer, switch : BOOLEAN]]
  /\ eloop \in [index : Item \cup {NoItem}, viewer : Viewer \cup {NoViewer}, guaji : Peer]
  /\ ipc \in [at : {"idle", "look", "expired", "found", "freed"}, viewer : Viewer \cup {NoViewer},
              index : Item \cup {NoItem}, switch : BOOLEAN]
  /\ orders \subseteq [viewer : Viewer, guaji : Guaji, age : 0..Life, switch : BOOLEAN]
  /\ reused \in BOOLEAN

\* InitVar(), in a tree whose rows are all reported; the server may have arranged
\* some second connections.
Init ==
  /\ link \in [Viewer -> Peer]
  /\ \A v \in Viewer : link[v] # NoGuaji => /\ \A d \in Device : Father[d] # link[v]
                                            /\ \A w \in Viewer \ {v} : link[w] # link[v]
  /\ attempt = [v \in Viewer |-> NoGuaji]
  /\ notices = {}
  /\ seen = link
  /\ seenBusy = {g \in Guaji : Taken(g)}
  /\ seenSpare = [d \in Device |-> Cardinality({g \in GuajisOf(d) : ~Taken(g)})]
  /\ item = [i \in Item |-> [used |-> FALSE, age |-> Life + 1, viewer |-> NoViewer,
                             guaji |-> NoGuaji, switch |-> FALSE]]
  /\ eloop = Looking
  /\ ipc = Quiet
  /\ orders = {} /\ reused = FALSE

-----------------------------------------------------------------------------
(* The tree and what it reports.                                           *)

\* A viewer that has been ordered to connects, or the order was lost on its way
\* down or the connection failed.
Succeed(v) == /\ attempt[v] # NoGuaji /\ ~Taken(attempt[v])
              /\ link' = [link EXCEPT ![v] = attempt[v]]
              /\ attempt' = [attempt EXCEPT ![v] = NoGuaji]
              /\ notices' = notices \cup {v}
              /\ UNCHANGED <<rows, item, eloop, ipc, orders, reused>>

Fail(v) == /\ attempt[v] # NoGuaji
           /\ attempt' = [attempt EXCEPT ![v] = NoGuaji]
           /\ UNCHANGED <<link, notices, rows, item, eloop, ipc, orders, reused>>

Break(v) == /\ link[v] # NoGuaji
            /\ link' = [link EXCEPT ![v] = NoGuaji]
            /\ UNCHANGED <<attempt, notices, rows, item, eloop, ipc, orders, reused>>

\* DeviceTopoReport() of d arrives: its own row and those of its viewers.
DeviceReport(d) ==
  /\ seen' = [v \in Viewer |-> IF Owner[v] = d THEN link[v] ELSE seen[v]]
  /\ seenSpare' = [seenSpare EXCEPT ![d] = Cardinality({g \in GuajisOf(d) : ~Taken(g)})]
  /\ UNCHANGED <<tree, notices, seenBusy, item, eloop, ipc, orders, reused>>

\* So does the row of a guaji, which it reports to its device every 10 s.
GuajiReport(g) ==
  /\ seenBusy' = IF Taken(g) THEN seenBusy \cup {g} ELSE seenBusy \ {g}
  /\ UNCHANGED <<tree, notices, seen, seenSpare, item, eloop, ipc, orders, reused>>

-----------------------------------------------------------------------------
(* connecting_event_table                                                  *)

Expired(i) == item[i].used /\ item[i].age > Life
Live(i) == item[i].used /\ item[i].age <= Life

\* FindConnectingItemViewerNode(v) returns i.
FindsViewer(v, i) ==
  \/ i = NoItem /\ \A j \in Item : ~(Live(j) /\ item[j].viewer = v)
  \/ /\ i \in Item /\ Live(i) /\ item[i].viewer = v
     /\ \A j \in Item : j < i => ~(Live(j) /\ item[j].viewer = v)

\* FindConnectingItemViewerOwnerNode(d) returns i: the table holds the device's
\* own id, which is that of the viewer's owner.
FindsOwner(d, i) ==
  LET IsOf(j) == Live(j) /\ item[j].viewer \in ViewersOf(d)
  IN \/ i = NoItem /\ \A j \in Item : ~IsOf(j)
     \/ i \in Item /\ IsOf(i) /\ \A j \in Item : j < i => ~IsOf(j)

\* Mutant: nothing frees an entry that is too old.
SweptNever(i) == {}

\* A search that returns i has freed the expired entries it came past.
Swept(i) == {j \in Item : Expired(j) /\ (i = NoItem \/ j < i)}

Freed(S) == [j \in Item |-> IF j \in S THEN [item[j] EXCEPT !.used = FALSE] ELSE item[j]]

-----------------------------------------------------------------------------
(* AdjustTopoStructure(), for one device.                                  *)

Low(d) == Level[d] >= 3 /\ Father[d] # NoGuaji

\* It has an entry, or two connections, or there is nobody to connect it to.
Pass(d) == /\ eloop = Looking /\ Low(d)
           /\ \E i \in Item \cup {NoItem} : FindsOwner(d, i) /\ item' = Freed(Swept(i))
           /\ UNCHANGED <<tree, notices, rows, eloop, ipc, orders, reused>>

\* OnReportEvent(), on the same thread, looks whether the server's event is for
\* a node under order.
ServerEvent(v) ==
  /\ eloop = Looking
  /\ \E i \in Item \cup {NoItem} : FindsViewer(v, i) /\ item' = Freed(Swept(i))
  /\ UNCHANGED <<tree, notices, rows, eloop, ipc, orders, reused>>

\* FindUncleGuajiNode_NoLock(): of the devices of the father's level the one
\* with the most unconnected guaji nodes, and a free guaji node of it.
Uncles(d) == {e \in Device : /\ Level[e] = Level[d] - 1
                             /\ e # Owner[Father[d]]
                             /\ seenSpare[e] > 0}

\* Mutant: a guaji node under order is taken for free.
IsUncleGuajiTwice(d, g) ==
  /\ Owner[g] \in Uncles(d)
  /\ \A e \in Uncles(d) : seenSpare[e] <= seenSpare[Owner[g]]
  /\ g \notin seenBusy

IsUncleGuaji(d, g) ==
  /\ Owner[g] \in Uncles(d)
  /\ \A e \in Uncles(d) : seenSpare[e] <= seenSpare[Owner[g]]
  /\ g \notin seenBusy
  /\ \A j \in Item : ~(Live(j) /\ item[j].guaji = g)

\* The device has one connection; the pair is chosen and the first free entry
\* marked as used.
Claim(v, g) ==
  /\ eloop = Looking /\ Low(Owner[v])
  /\ FindsOwner(Owner[v], NoItem)
  /\ \A w \in ViewersOf(Owner[v]) : seen[w] = NoGuaji
  /\ IsUncleGuaji(Owner[v], g)
  /\ FindsViewer(v, NoItem)
  /\ \E i \in Item :
       LET kept == Freed(Swept(NoItem))
       IN /\ ~kept[i].used /\ \A j \in Item : j < i => kept[j].used
          /\ item' = [kept EXCEPT ![i].used = TRUE]
          /\ eloop' = [index |-> i, viewer |-> v, guaji |-> g]
          /\ reused' = (reused \/ (ipc.at # "idle" /\ ipc.index = i))
  /\ UNCHANGED <<tree, notices, rows, ipc, orders>>

\* The rest of the entry is written, the server told (DoDrop), and both nodes
\* are sent their events.  A viewer that is connecting or connected does not
\* care.  The viewer is to switch over if the uncle has three free streams.
Order(switch) ==
  /\ eloop # Looking
  /\ item' = [item EXCEPT ![eloop.index] =
                [used |-> @.used, age |-> 0, viewer |-> eloop.viewer,
                 guaji |-> eloop.guaji, switch |-> switch]]
  /\ orders' = orders \cup {[viewer |-> eloop.viewer, guaji |-> eloop.guaji, age |-> 0,
                             switch |-> switch]}
  /\ attempt' = IF link[eloop.viewer] = NoGuaji /\ attempt[eloop.viewer] = NoGuaji
                THEN [attempt EXCEPT ![eloop.viewer] = eloop.guaji] ELSE attempt
  /\ eloop' = Looking
  /\ UNCHANGED <<link, notices, rows, ipc, reused>>

-----------------------------------------------------------------------------
(* CMD_CODE_TOPO_DROP with is_connected, of a viewer node.                 *)

\* FindConnectingItemViewerNode() is called.
Deliver(v) == /\ ipc = Quiet /\ v \in notices
              /\ notices' = notices \ {v}
              /\ ipc' = [at |-> "look", viewer |-> v, index |-> 1, switch |-> FALSE]
              /\ UNCHANGED <<tree, rows, item, eloop, orders, reused>>

Onward == ipc' = IF ipc.index < Items
                 THEN [ipc EXCEPT !.at = "look", !.index = @ + 1] ELSE Quiet

\* An entry that the event loop is just writing may look like anything.
BeingWritten == ipc.index = eloop.index

LookOn == /\ ipc.at = "look"
          /\ ~Live(ipc.index) \/ item[ipc.index].viewer # ipc.viewer \/ BeingWritten
          /\ ~Expired(ipc.index) \/ BeingWritten
          /\ Onward
          /\ UNCHANGED <<tree, notices, rows, item, eloop, orders, reused>>

\* The entry is too old; it is freed by the next statement.
LookExpired == /\ ipc.at = "look"
               /\ Expired(ipc.index) \/ BeingWritten
               /\ ipc' = [ipc EXCEPT !.at = "expired"]
               /\ reused' = (reused \/ BeingWritten)
               /\ UNCHANGED <<tree, notices, rows, item, eloop, orders>>

Sweep == /\ ipc.at = "expired"
         /\ item' = Freed({ipc.index})
         /\ Onward
         /\ UNCHANGED <<tree, notices, rows, eloop, orders, reused>>

\* The order is fulfilled.
LookFinds ==
  /\ ipc.at = "look"
  /\ (Live(ipc.index) /\ item[ipc.index].viewer = ipc.viewer) \/ BeingWritten
  /\ ipc' = [ipc EXCEPT !.at = "found",
                        !.switch = \E o \in orders : o.viewer = ipc.viewer /\ o.switch]
  /\ orders' = {o \in orders : o.viewer # ipc.viewer}
  /\ reused' = (reused \/ BeingWritten)
  /\ UNCHANGED <<tree, notices, rows, item, eloop>>

\* Mutant: the entry is wiped when it is freed.
FulfilWipes ==
  /\ ipc.at = "found"
  /\ item' = [item EXCEPT ![ipc.index].used = FALSE, ![ipc.index].switch = FALSE]
  /\ ipc' = [ipc EXCEPT !.at = "freed"]
  /\ UNCHANGED <<tree, notices, rows, eloop, orders, reused>>

\* bUsing = FALSE
Fulfil == /\ ipc.at = "found"
          /\ item' = Freed({ipc.index})
          /\ ipc' = [ipc EXCEPT !.at = "freed"]
          /\ UNCHANGED <<tree, notices, rows, eloop, orders, reused>>

\* switch_after_connected of the entry just freed decides whether "Switch" is
\* sent.
Switch == /\ ipc.at = "freed"
          /\ ipc' = Quiet
          /\ UNCHANGED <<tree, notices, rows, item, eloop, orders, reused>>

-----------------------------------------------------------------------------
\* Mutant: the age of an entry nobody uses grows for ever.
OlderForever(age) == age + 1

Older(age) == IF age <= Life THEN age + 1 ELSE age

Tick == /\ item' = [i \in Item |-> [item[i] EXCEPT !.age = Older(@)]]
        /\ orders' = {[o EXCEPT !.age = @ + 1] : o \in {p \in orders : p.age < Life}}
        /\ UNCHANGED <<tree, notices, rows, eloop, ipc, reused>>

Next == \/ Tick \/ LookOn \/ LookExpired \/ Sweep \/ LookFinds \/ Fulfil \/ Switch
        \/ \E v \in Viewer : Succeed(v) \/ Fail(v) \/ Break(v) \/ ServerEvent(v)
                             \/ Deliver(v)
        \/ \E d \in Device : DeviceReport(d) \/ Pass(d)
        \/ \E g \in Guaji : GuajiReport(g)
        \/ \E v \in Viewer, g \in Guaji : Claim(v, g)
        \/ \E switch \in BOOLEAN : Order(switch)

Spec == Init /\ [][Next]_vars

\* Time passes, both threads run, reports arrive, and a viewer that is ordered
\* again and again to connect to a free guaji node succeeds at last.
Fairness ==
  /\ WF_vars(Tick) /\ WF_vars(Fulfil) /\ WF_vars(Switch)
  /\ WF_vars(\E switch \in BOOLEAN : Order(switch))
  /\ WF_vars(\E v \in Viewer, g \in Guaji : Claim(v, g))
  /\ WF_vars(\E v \in Viewer : Deliver(v)) /\ WF_vars(LookOn \/ LookExpired \/ LookFinds)
  /\ WF_vars(Sweep)
  /\ \A d \in Device : WF_vars(DeviceReport(d))
  /\ \A g \in Guaji : WF_vars(GuajiReport(g))
  /\ \A v \in Viewer : SF_vars(Succeed(v)) /\ WF_vars(Fail(v))

FairSpec == Spec /\ Fairness

-----------------------------------------------------------------------------
\* Within 60 s no device, viewer or guaji is under two orders, although what the
\* root sees of the tree is old and no lock guards the table, unless an entry was
\* given to an order while the IPC thread was at it.
OrdersExclusive ==
  reused \/ \A o, p \in orders : o # p => /\ Owner[o.viewer] # Owner[p.viewer]
                                          /\ o.guaji # p.guaji

\* The switch flag is read after its entry has been freed, and still is that of
\* the order the viewer has fulfilled, with the same exception.
SwitchIsOfOrder ==
  (ipc.at = "freed" /\ ~reused) => item[ipc.index].switch = ipc.switch

\* The devices of level 3 and below are never left for good with one connection
\* each, although orders are lost or fail, connections break and entries are taken
\* away from their orders, as long as an uncle has room for one of them.
SecondConnection == []<>(\E v \in Viewer : Low(Owner[v]) /\ link[v] # NoGuaji)
=============================================================================
