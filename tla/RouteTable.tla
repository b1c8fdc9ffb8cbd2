----------------------------- MODULE RouteTable -----------------------------
(***************************************************************************)
(* The route table of a Repeater and the threads that use it.  The IPC     *)
(* thread stores the rows that the RepeaterNodes below report and drops    *)
(* those of nodes that end; HandleKeepLoop() on the event loop thread      *)
(* frees expired rows and, at a root, adjusts the tree; an event that      *)
(* comes down is passed on by the event loop or by the thread of a viewer  *)
(* connection.  route_table_csec guards the table, but both a report and   *)
(* an event let go of it between finding a row and using it.               *)
(*                                                                         *)
(* What the IPC thread gets are the reports of the RepeaterNodes of this   *)
(* Repeater and those that DeviceTopoReport() of the Repeaters further     *)
(* down sends.  The latter repeat m_szReport of every RepeaterNode, which  *)
(* is not cleared when that one ends: its row goes on being reported, and  *)
(* stays in the table, as long as its Repeater lives.                      *)
(*                                                                         *)
(* The same code is built on Windows, where a pthread_mutex_t of this      *)
(* repository is a CRITICAL_SECTION and may be locked again by its owner,  *)
(* and on Linux, where pthread_mutex_init(..., NULL) makes one that may    *)
(* not: Recursive.                                                         *)
(***************************************************************************)
EXTENDS Naturals

CONSTANTS Node,        \* the nodes below this one
          NoNode,      \* the node_id of a row that was never used
          Slots,       \* MAX_ROUTE_ITEM_NUM
          Expire,      \* g1_expire_period, in ticks
          Recursive    \* whether the owner of route_table_csec may lock it again

ASSUME RouteAssumption == /\ NoNode \notin Node
                          /\ Slots \in Nat \ {0} /\ Expire \in Nat \ {0}
                          /\ Recursive \in BOOLEAN

VARIABLES reported,    \* the nodes of which reports still come, alive or not
          row,         \* device_route_table: [used, node, age], the age being
                       \* the time since last_refresh_time
          held,        \* the event loop holds route_table_csec over network I/O
          ipc,         \* the row in UpdateRouteTable(), its age and what it found:
                       \* temp_route_item, which lasts from row to row
          keep,        \* where HandleKeepLoop() is
          due,         \* events OptimizeStreamPath() still has to send
          finder       \* finder[t]: the event that thread t is passing on, and
                       \* whether the row found for it has been freed since

vars == <<reported, row, held, ipc, keep, due, finder>>

Slot == 1..Slots
NoSlot == 0            \* the -1 of the code
Thread == {"eloop", "conn"}
Id == Node \cup {NoNode}
Index == Slot \cup {NoSlot}

TypeOK ==
  /\ reported \subseteq Node
  /\ row \in [Slot -> [used : BOOLEAN, node : Id, age : 0..Expire]]
  /\ held \in BOOLEAN
  /\ ipc \in [at : {"idle", "parsed", "found", "stored"}, node : Id, index : Index, age : 0..Expire]
  /\ keep \in {"check", "adjust", "adjusting", "optimize", "optimizing", "report"}
  /\ due \in 0..2
  /\ finder \in [Thread -> [at : {"idle", "found"}, node : Id, index : Index,
                            freed : BOOLEAN]]

Waiting == [at |-> "idle", node |-> NoNode, index |-> NoSlot, age |-> 0]
NoEvent == [at |-> "idle", node |-> NoNode, index |-> NoSlot, freed |-> FALSE]

\* InitVar()
Init == /\ reported = Node
        /\ row = [s \in Slot |-> [used |-> FALSE, node |-> NoNode, age |-> 0]]
        /\ held = FALSE
        /\ ipc = Waiting
        /\ keep = "check" /\ due = 0
        /\ finder = [t \in Thread |-> NoEvent]

-----------------------------------------------------------------------------
(* The table, for whoever holds the lock.                                  *)

IsRowOf(n, s) == row[s].used /\ row[s].node = n

\* FindTopoRouteItem() returns i for n.
Finds(n, i) == \/ i = NoSlot /\ \A s \in Slot : ~IsRowOf(n, s)
               \/ i \in Slot /\ IsRowOf(n, i) /\ \A s \in Slot : s < i => ~IsRowOf(n, s)

\* The first row that is not in use.
IsFirstFree(i) == i \in Slot /\ ~row[i].used /\ \A s \in Slot : s < i => row[s].used

\* Rows are given free; those who have found them do not notice.
FreeRows(S) ==
  /\ row' = [s \in Slot |-> IF s \in S THEN [row[s] EXCEPT !.used = FALSE, !.age = 0]
                                       ELSE row[s]]
  /\ finder' = [t \in Thread |-> [finder[t] EXCEPT !.freed = @ \/ finder[t].index \in S]]

-----------------------------------------------------------------------------
(* The nodes and the clock.                                                *)

\* The last report of a node has come: a RepeaterNode of this Repeater has ended,
\* or the Repeater that reports it further down has, or is cut off.
Silence(n) == /\ n \in reported
              /\ reported' = reported \ {n}
              /\ UNCHANGED <<row, held, ipc, keep, due, finder>>

\* Ages beyond the expire period are all alike.
Older(age) == IF age < Expire THEN age + 1 ELSE age

Tick == /\ row' = [s \in Slot |-> IF row[s].used THEN [row[s] EXCEPT !.age = Older(@)]
                                                 ELSE row[s]]
        /\ ipc' = IF ipc.at \in {"parsed", "found"} THEN [ipc EXCEPT !.age = Older(@)]
                                             ELSE ipc
        /\ UNCHANGED <<reported, held, keep, due, finder>>

-----------------------------------------------------------------------------
(* The IPC thread.                                                         *)

\* The first or the next row of a report has been parsed and last_refresh_time
\* set.
Parse(n) == /\ ipc.at \in {"idle", "stored"} /\ n \in reported
            /\ ipc' = [Waiting EXCEPT !.at = "parsed", !.node = n]
            /\ UNCHANGED <<reported, row, held, keep, due, finder>>

\* ParseReportNode() returns FALSE, as it does for a RepeaterNode that has not
\* reported yet.  Nobody looks: the row is taken for one of the node before.
ParseFails == /\ ipc.at = "stored"
              /\ ipc' = [ipc EXCEPT !.at = "parsed"]
              /\ UNCHANGED <<reported, row, held, keep, due, finder>>

\* There is no further row.
EndReport == /\ ipc.at = "stored"
             /\ ipc' = Waiting
             /\ UNCHANGED <<reported, row, held, keep, due, finder>>

FindRow(i) == /\ ipc.at = "parsed" /\ ~held
              /\ Finds(ipc.node, i)
              /\ ipc' = [ipc EXCEPT !.at = "found", !.index = i]
              /\ UNCHANGED <<reported, row, held, keep, due, finder>>

Put(i) == row' = [row EXCEPT ![i] = [used |-> TRUE, node |-> ipc.node, age |-> ipc.age]]

Stored == ipc' = [Waiting EXCEPT !.at = "stored", !.node = ipc.node]

\* Mutant: a row that was found is stored in a free one all the same.
StoreAnew == /\ ipc.at = "found" /\ ~held
             /\ \E i \in Slot : IsFirstFree(i) /\ Put(i)
             /\ Stored
             /\ UNCHANGED <<reported, held, keep, due, finder>>

\* The row is written where it was found, or to the first free one.  When the
\* table is full it is lost.
Store ==
  /\ ipc.at = "found" /\ ~held
  /\ IF ipc.index # NoSlot
     THEN Put(ipc.index)
     ELSE IF \E i \in Slot : IsFirstFree(i)
          THEN \E i \in Slot : IsFirstFree(i) /\ Put(i)
          ELSE row' = row
  /\ Stored
  /\ UNCHANGED <<reported, held, keep, due, finder>>

\* Mutant: the rows behind a dropped one move up.
DropCompacts(n) ==
  /\ ipc.at = "idle" /\ ~held
  /\ \E i \in Slot :
       /\ Finds(n, i)
       /\ row' = [s \in Slot |-> IF s < i THEN row[s]
                                 ELSE IF s < Slots THEN row[s + 1]
                                 ELSE [row[s] EXCEPT !.used = FALSE, !.age = 0]]
       /\ finder' = [t \in Thread |-> [finder[t] EXCEPT !.freed = @ \/ finder[t].index = i]]
  /\ UNCHANGED <<reported, held, ipc, keep, due>>

\* CMD_CODE_TOPO_DROP: DropRouteItem().  A node that could not connect in time
\* is dropped too, and reports again.  A row that was taken for the node after
\* ParseReportNode() failed may have the type of another and stay.
Drop(n) == /\ ipc.at = "idle" /\ ~held
           /\ \E i \in Slot : Finds(n, i) /\ FreeRows({i})
           /\ UNCHANGED <<reported, held, ipc, keep, due>>

-----------------------------------------------------------------------------
(* HandleKeepLoop(), once a second.                                        *)

\* CheckTopoRouteTable()
Check == /\ keep = "check"
         /\ FreeRows({s \in Slot : row[s].used /\ row[s].age >= Expire})
         /\ keep' = "adjust"
         /\ UNCHANGED <<reported, held, ipc, due>>

Lock == held' = TRUE
Unlock == held' = FALSE

\* AdjustTopoStructure() is called, or it is not its time, or this is no root.
Adjust == /\ keep = "adjust"
          /\ \/ keep' = "adjusting" /\ Lock
             \/ keep' = "optimize" /\ UNCHANGED held
          /\ UNCHANGED <<reported, row, ipc, due, finder>>

\* Mutant: it returns without unlocking when no connecting event is free.
AdjustKeepsLock == /\ keep = "adjusting"
                   /\ keep' = "optimize"
                   /\ UNCHANGED <<reported, row, held, ipc, due, finder>>

\* DoDrop() and CtrlCmd_TOPO_EVENT() have returned.
AdjustReturns == /\ keep = "adjusting"
                 /\ keep' = "optimize" /\ Unlock
                 /\ UNCHANGED <<reported, row, ipc, due, finder>>

\* OptimizeStreamPath() is called and finds that many of levels 2 and 3 where a
\* viewer, whose row is in use, should switch to its other father.
Optimize == /\ keep = "optimize"
            /\ \/ /\ keep' = "optimizing" /\ Lock
                  /\ due' \in 0..2
                  /\ due' > 0 => \E s \in Slot : row[s].used
               \/ keep' = "report" /\ UNCHANGED <<held, due>>
            /\ UNCHANGED <<reported, row, ipc, finder>>

\* It calls FindTopoRouteItem(), which locks, and sends the event.
OptimizeSends == /\ keep = "optimizing" /\ due > 0
                 /\ Recursive
                 /\ due' = due - 1
                 /\ UNCHANGED <<reported, row, held, ipc, keep, finder>>

OptimizeReturns == /\ keep = "optimizing" /\ due = 0
                   /\ keep' = "report" /\ Unlock
                   /\ UNCHANGED <<reported, row, ipc, due, finder>>

\* DoReport2() and the events of its answer are done with, or it was not its
\* time.
EndLoop == /\ keep = "report" /\ finder["eloop"].at = "idle"
           /\ keep' = "check"
           /\ UNCHANGED <<reported, row, held, ipc, due, finder>>

-----------------------------------------------------------------------------
(* Events: OnReportEvent() and CMD_CODE_TOPO_EVENT.                        *)

\* Mutant: a row that is found is refreshed.
FindNextRefreshes(t, n, i) ==
  /\ finder[t].at = "idle" /\ ~held
  /\ t = "eloop" => keep = "report"
  /\ i # NoSlot /\ Finds(n, i)
  /\ finder' = [finder EXCEPT ![t] = [at |-> "found", node |-> n, index |-> i,
                                      freed |-> FALSE]]
  /\ row' = [row EXCEPT ![i].age = 0]
  /\ UNCHANGED <<reported, held, ipc, keep, due>>

\* A row is found for an event; when there is none the event is lost.
FindNext(t, n, i) ==
  /\ finder[t].at = "idle" /\ ~held
  /\ t = "eloop" => keep = "report"
  /\ i # NoSlot /\ Finds(n, i)
  /\ finder' = [finder EXCEPT ![t] = [at |-> "found", node |-> n, index |-> i,
                                      freed |-> FALSE]]
  /\ UNCHANGED <<reported, row, held, ipc, keep, due>>

\* The guaji_index of that row is read, without the lock, and the event sent.
PassOn(t) == /\ finder[t].at = "found"
             /\ finder' = [finder EXCEPT ![t] = NoEvent]
             /\ UNCHANGED <<reported, row, held, ipc, keep, due>>

-----------------------------------------------------------------------------
Next == \/ Tick \/ ParseFails \/ Store \/ EndReport
        \/ Check \/ Adjust \/ AdjustReturns
        \/ Optimize \/ OptimizeSends \/ OptimizeReturns \/ EndLoop
        \/ \E n \in Node : Silence(n) \/ Parse(n) \/ Drop(n)
        \/ \E i \in Index : FindRow(i)
        \/ \E t \in Thread : PassOn(t) \/ \E n \in Node, i \in Slot : FindNext(t, n, i)

Spec == Init /\ [][Next]_vars

\* Time passes, the threads run and network I/O ends.  The event loop sleeps
\* for a second between two passes, so that whoever waits for the lock gets it,
\* and one answer of the server brings finitely many events, one report
\* finitely many rows.
Fairness == /\ WF_vars(Tick)
            /\ SF_vars(\E i \in Index : FindRow(i)) /\ SF_vars(Store)
            /\ SF_vars(EndReport)
            /\ WF_vars(Check) /\ WF_vars(Adjust) /\ WF_vars(AdjustReturns)
            /\ WF_vars(Optimize) /\ WF_vars(OptimizeSends) /\ WF_vars(OptimizeReturns)
            /\ SF_vars(EndLoop)
            /\ \A t \in Thread : WF_vars(PassOn(t))
FairSpec == Spec /\ Fairness

-----------------------------------------------------------------------------
\* However reports, drops and expiry fall between finding and writing a row, a
\* node never has two rows, of which only the first would be found, refreshed
\* and dropped.
NoDuplicateRoute ==
  \A s, r \in Slot : (row[s].used /\ row[r].used /\ row[s].node = row[r].node) => s = r

\* The index that an event is sent by still is the row of its node, unless the
\* row has been freed since: what is read without the lock is then old, and may
\* be the row of another node.
EventsFindTheirRow ==
  \A t \in Thread : (finder[t].at = "found" /\ ~finder[t].freed) =>
    finder[t].index \in Slot /\ IsRowOf(finder[t].node, finder[t].index)

\* What the IPC thread found still tells whether and where its node has a row.
FoundStillTrue ==
  ipc.at = "found" =>
    /\ ipc.node \in Node
    /\ \A s \in Slot : IsRowOf(ipc.node, s) => s = ipc.index
    /\ ipc.index # NoSlot => row[ipc.index].node = ipc.node

\* The inductive invariant.
IInv == TypeOK /\ NoDuplicateRoute /\ EventsFindTheirRow /\ FoundStillTrue
          /\ (ipc.at \in {"parsed", "stored"} => ipc.node \in Node)

\* A node of which reports no longer come disappears from the table for good,
\* although a row of it may be on its way, or be stored once more for a row that
\* was not understood, when it is dropped or expires.  For a node that has ended
\* while its Repeater goes on reporting it the code promises no such thing.
Forgotten ==
  \A n \in Node : [](n \notin reported => <>[](\A s \in Slot : ~IsRowOf(n, s)))

\* The IPC thread gets through with every report: the lock it needs twice is
\* not held for ever.
ReportsGetIn == (ipc.at = "parsed") ~> (ipc.at = "idle")
=============================================================================
