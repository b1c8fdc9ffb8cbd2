-------------------------- MODULE RouteTableProofs --------------------------
(***************************************************************************)
(* The route table for every set of nodes and every size: although reports *)
(* and events let go of the lock between finding a row and using it, no    *)
(* node gets two rows and an event finds the row of its node as long as    *)
(* that has not been freed.                                                *)
(***************************************************************************)
EXTENDS RouteTable, TLAPS

\* The parts of IInv besides the types.
Parts == /\ NoDuplicateRoute /\ EventsFindTheirRow /\ FoundStillTrue
         /\ (ipc.at \in {"parsed", "stored"} => ipc.node \in Node)

\* What the threads start and end with is well typed.
LEMMA NothingFound ==
  /\ Waiting \in [at : {"idle", "parsed", "found", "stored"}, node : Id, index : Index, age : 0..Expire]
  /\ NoEvent \in [at : {"idle", "found"}, node : Id, index : Index, freed : BOOLEAN]
BY RouteAssumption DEF Waiting, NoEvent, Id, Index, NoSlot, Slot

LEMMA InitIInv == Init => IInv
<1> SUFFICES ASSUME Init PROVE IInv
  OBVIOUS
<1> USE RouteAssumption DEF Init
<1>1. [used |-> FALSE, node |-> NoNode, age |-> 0]
         \in [used : BOOLEAN, node : Id, age : 0..Expire]
  BY DEF Id
<1>2. TypeOK
  <2>1. /\ reported \subseteq Node /\ held \in BOOLEAN /\ due \in 0..2
        /\ keep \in {"check", "adjust", "adjusting", "optimize", "optimizing", "report"}
    <3>1. reported \subseteq Node /\ held \in BOOLEAN
      BY Zenon
    <3>2. due \in 0..2
      BY SMT
    <3>3. QED
      BY <3>1, <3>2, Zenon
  <2>2. row \in [Slot -> [used : BOOLEAN, node : Id, age : 0..Expire]]
    BY <1>1
  <2>3. finder \in [Thread -> [at : {"idle", "found"}, node : Id, index : Index,
                              freed : BOOLEAN]]
    BY NothingFound
  <2>4. QED
    BY <2>1, <2>2, <2>3, NothingFound DEF TypeOK
<1>3. NoDuplicateRoute /\ EventsFindTheirRow
  BY DEF NoDuplicateRoute, EventsFindTheirRow, NoEvent
<1>4. FoundStillTrue /\ (ipc.at \in {"parsed", "stored"} => ipc.node \in Node)
  BY DEF FoundStillTrue, Waiting
<1>5. QED
  BY <1>2, <1>3, <1>4 DEF IInv

LEMMA SilenceKeeps ==
  ASSUME IInv, NEW n \in Node, Silence(n)
  PROVE  IInv'
<1> USE RouteAssumption
    DEF IInv, Silence, Slot, NoSlot, Thread, Id, Index, IsRowOf
<1>1. TypeOK'
  BY DEF TypeOK
<1>2. NoDuplicateRoute'
  BY DEF TypeOK, NoDuplicateRoute, FoundStillTrue
<1>3. EventsFindTheirRow'
  BY DEF TypeOK, NoDuplicateRoute, EventsFindTheirRow, FoundStillTrue
<1>4. FoundStillTrue' /\ (ipc'.at \in {"parsed", "stored"} => ipc'.node \in Node)
  BY DEF TypeOK, NoDuplicateRoute, FoundStillTrue
<1>5. QED
  BY <1>1, <1>2, <1>3, <1>4

LEMMA TickKeeps ==
  ASSUME IInv, Tick
  PROVE  IInv'
<1> USE RouteAssumption DEF IInv, Tick, Slot, NoSlot, Thread, Id, Index
<1>1. \A age \in 0..Expire : Older(age) \in 0..Expire
  BY DEF Older
<1>2. \A s \in Slot : /\ row'[s].used = row[s].used /\ row'[s].node = row[s].node
                      /\ row'[s] \in [used : BOOLEAN, node : Id, age : 0..Expire]
  <2> SUFFICES ASSUME NEW s \in Slot
               PROVE  /\ row'[s].used = row[s].used /\ row'[s].node = row[s].node
                      /\ row'[s] \in [used : BOOLEAN, node : Id, age : 0..Expire]
    OBVIOUS
  <2>1. row[s] \in [used : BOOLEAN, node : Id, age : 0..Expire]
    BY DEF TypeOK
  <2>2. Older(row[s].age) \in 0..Expire
    BY <1>1, <2>1
  <2>3. QED
    BY <2>1, <2>2
<1>3. /\ ipc'.at = ipc.at /\ ipc'.node = ipc.node /\ ipc'.index = ipc.index
      /\ ipc' \in [at : {"idle", "parsed", "found", "stored"}, node : Id, index : Index, age : 0..Expire]
  <2>1. ipc \in [at : {"idle", "parsed", "found", "stored"}, node : Id, index : Index, age : 0..Expire]
    BY DEF TypeOK
  <2>2. Older(ipc.age) \in 0..Expire
    BY <1>1, <2>1
  <2>3. QED
    BY <2>1, <2>2
<1>4. row' \in [Slot -> [used : BOOLEAN, node : Id, age : 0..Expire]]
  BY <1>2
<1>5. TypeOK'
  BY <1>3, <1>4 DEF TypeOK
<1>6. NoDuplicateRoute'
  BY <1>2 DEF NoDuplicateRoute
<1>7. EventsFindTheirRow'
  BY <1>2 DEF EventsFindTheirRow, IsRowOf
<1>8. FoundStillTrue' /\ (ipc'.at \in {"parsed", "stored"} => ipc'.node \in Node)
  BY <1>2, <1>3 DEF FoundStillTrue, IsRowOf, TypeOK
<1>9. QED
  BY <1>5, <1>6, <1>7, <1>8

LEMMA ParseKeeps ==
  ASSUME IInv, NEW n \in Node, Parse(n)
  PROVE  IInv'
<1> USE RouteAssumption
    DEF IInv, Parse, Waiting, Slot, NoSlot, Thread, Id, Index, IsRowOf
<1>1. TypeOK'
  BY NothingFound DEF TypeOK
<1>2. NoDuplicateRoute'
  BY DEF TypeOK, NoDuplicateRoute, FoundStillTrue
<1>3. EventsFindTheirRow'
  BY DEF TypeOK, NoDuplicateRoute, EventsFindTheirRow, FoundStillTrue
<1>4. FoundStillTrue' /\ (ipc'.at \in {"parsed", "stored"} => ipc'.node \in Node)
  BY DEF TypeOK, NoDuplicateRoute, FoundStillTrue
<1>5. QED
  BY <1>1, <1>2, <1>3, <1>4

LEMMA ParseFailsKeeps ==
  ASSUME IInv, ParseFails
  PROVE  IInv'
<1> USE RouteAssumption
    DEF IInv, ParseFails, Waiting, Slot, NoSlot, Thread, Id, Index, IsRowOf
<1>1. TypeOK'
  BY NothingFound DEF TypeOK
<1>2. NoDuplicateRoute'
  BY DEF TypeOK, NoDuplicateRoute, FoundStillTrue
<1>3. EventsFindTheirRow'
  BY DEF TypeOK, NoDuplicateRoute, EventsFindTheirRow, FoundStillTrue
<1>4. FoundStillTrue' /\ (ipc'.at \in {"parsed", "stored"} => ipc'.node \in Node)
  BY DEF TypeOK, NoDuplicateRoute, FoundStillTrue
<1>5. QED
  BY <1>1, <1>2, <1>3, <1>4

LEMMA EndReportKeeps ==
  ASSUME IInv, EndReport
  PROVE  IInv'
<1> USE RouteAssumption
    DEF IInv, EndReport, Waiting, Slot, NoSlot, Thread, Id, Index, IsRowOf
<1>1. TypeOK'
  BY NothingFound DEF TypeOK
<1>2. NoDuplicateRoute'
  BY DEF TypeOK, NoDuplicateRoute, FoundStillTrue
<1>3. EventsFindTheirRow'
  BY DEF TypeOK, NoDuplicateRoute, EventsFindTheirRow, FoundStillTrue
<1>4. FoundStillTrue' /\ (ipc'.at \in {"parsed", "stored"} => ipc'.node \in Node)
  BY DEF TypeOK, NoDuplicateRoute, FoundStillTrue
<1>5. QED
  BY <1>1, <1>2, <1>3, <1>4

LEMMA FindRowKeeps ==
  ASSUME IInv, NEW i \in Index, FindRow(i)
  PROVE  IInv'
<1> USE RouteAssumption
    DEF IInv, FindRow, Finds, Slot, NoSlot, Thread, Id, Index, IsRowOf
<1>1. TypeOK'
  BY DEF TypeOK
<1>2. NoDuplicateRoute'
  BY DEF TypeOK, NoDuplicateRoute, FoundStillTrue
<1>3. EventsFindTheirRow'
  BY DEF TypeOK, NoDuplicateRoute, EventsFindTheirRow, FoundStillTrue
<1>4. FoundStillTrue' /\ (ipc'.at \in {"parsed", "stored"} => ipc'.node \in Node)
  BY DEF TypeOK, NoDuplicateRoute, FoundStillTrue
<1>5. QED
  BY <1>1, <1>2, <1>3, <1>4

LEMMA StoreKeeps ==
  ASSUME IInv, Store
  PROVE  IInv'
<1> USE RouteAssumption DEF IInv
<1>1. ipc \in [at : {"idle", "parsed", "found", "stored"}, node : Id, index : Index, age : 0..Expire]
  BY DEF TypeOK
<1>2. ipc.node \in Node /\ \A s \in Slot : IsRowOf(ipc.node, s) => s = ipc.index
  BY DEF Store, FoundStillTrue
<1>3. \/ row' = row
      \/ \E i \in Slot : Put(i) /\ (i = ipc.index \/ (IsFirstFree(i) /\ ipc.index = NoSlot))
  BY <1>1 DEF Store, Index
<1>4. ASSUME NEW i \in Slot, Put(i),
             i = ipc.index \/ (IsFirstFree(i) /\ ipc.index = NoSlot)
      PROVE  /\ row' \in [Slot -> [used : BOOLEAN, node : Id, age : 0..Expire]]
             /\ NoDuplicateRoute'
             /\ EventsFindTheirRow'
  <2>1. /\ row'[i] = [used |-> TRUE, node |-> ipc.node, age |-> ipc.age]
        /\ \A s \in Slot : s # i => row'[s] = row[s]
    BY <1>4 DEF Put, TypeOK
  <2>2. row' \in [Slot -> [used : BOOLEAN, node : Id, age : 0..Expire]]
    <3>1. [used |-> TRUE, node |-> ipc.node, age |-> ipc.age]
             \in [used : BOOLEAN, node : Id, age : 0..Expire]
      BY <1>1
    <3>2. QED
      BY <1>4, <3>1 DEF Put, TypeOK
  <2>3. \A s \in Slot : s # i => ~IsRowOf(ipc.node, s)
    BY <1>2, <1>4 DEF Slot, NoSlot
  <2>4. NoDuplicateRoute'
    BY <2>1, <2>3 DEF NoDuplicateRoute, IsRowOf
  <2>5. ASSUME NEW t \in Thread, finder[t].at = "found", ~finder[t].freed
        PROVE  finder[t].index \in Slot /\ IsRowOf(finder[t].node, finder[t].index)'
    <3>1. finder[t].index \in Slot /\ IsRowOf(finder[t].node, finder[t].index)
      BY <2>5 DEF EventsFindTheirRow
    <3>2. CASE finder[t].index # i
      BY <2>1, <3>1, <3>2 DEF IsRowOf, Store
    <3>3. CASE finder[t].index = i
      <4>1. i = ipc.index /\ row[i].node = ipc.node
        BY <1>4, <3>1, <3>3 DEF IsFirstFree, IsRowOf, Store, FoundStillTrue, Slot, NoSlot
      <4>2. QED
        BY <2>1, <3>1, <3>3, <4>1 DEF IsRowOf, Store
    <3>4. QED
      BY <3>2, <3>3
  <2>6. EventsFindTheirRow'
    BY <2>5 DEF EventsFindTheirRow, Store
  <2>7. QED
    BY <2>2, <2>4, <2>6
<1>5. /\ row' \in [Slot -> [used : BOOLEAN, node : Id, age : 0..Expire]]
      /\ NoDuplicateRoute'
      /\ EventsFindTheirRow'
  <2>1. CASE row' = row
    BY <2>1 DEF Store, TypeOK, NoDuplicateRoute, EventsFindTheirRow, IsRowOf
  <2>2. QED
    BY <1>3, <1>4, <2>1
<1>6. TypeOK'
  <2>1. ipc' \in [at : {"idle", "parsed", "found", "stored"}, node : Id, index : Index,
                  age : 0..Expire]
    BY <1>1, NothingFound DEF Store, Stored, Waiting
  <2>2. QED
    BY <1>5, <2>1 DEF Store, TypeOK
<1>7. FoundStillTrue' /\ (ipc'.at \in {"parsed", "stored"} => ipc'.node \in Node)
  BY <1>2 DEF Store, Stored, FoundStillTrue, Waiting
<1>8. QED
  BY <1>5, <1>6, <1>7

LEMMA FreeRowsKeeps ==
  ASSUME IInv, NEW S \in SUBSET Slot, FreeRows(S),
         reported' = reported, held' = held, ipc' = ipc, due' = due,
         keep' \in {"check", "adjust", "adjusting", "optimize", "optimizing", "report"}
  PROVE  IInv'
<1> USE RouteAssumption DEF IInv, FreeRows
<1>1. \A s \in Slot : /\ row'[s].used = (row[s].used /\ s \notin S)
                      /\ row'[s].node = row[s].node
                      /\ row'[s] \in [used : BOOLEAN, node : Id, age : 0..Expire]
  <2> SUFFICES ASSUME NEW s \in Slot
               PROVE  /\ row'[s].used = (row[s].used /\ s \notin S)
                      /\ row'[s].node = row[s].node
                      /\ row'[s] \in [used : BOOLEAN, node : Id, age : 0..Expire]
    OBVIOUS
  <2>1. row[s] \in [used : BOOLEAN, node : Id, age : 0..Expire]
    BY DEF TypeOK
  <2>2. CASE s \in S
    <3>1. row'[s] = [row[s] EXCEPT !.used = FALSE, !.age = 0]
      BY <2>2
    <3>2. 0 \in 0..Expire
      BY ONLY RouteAssumption
    <3>3. QED
      BY <2>1, <2>2, <3>1, <3>2
  <2>3. CASE s \notin S
    BY <2>1, <2>3
  <2>4. QED
    BY <2>2, <2>3
<1>2. row' \in [Slot -> [used : BOOLEAN, node : Id, age : 0..Expire]]
  BY <1>1
<1>3. \A t \in Thread :
         /\ finder'[t].at = finder[t].at /\ finder'[t].node = finder[t].node
         /\ finder'[t].index = finder[t].index
         /\ finder'[t].freed = (finder[t].freed \/ finder[t].index \in S)
         /\ finder'[t] \in [at : {"idle", "found"}, node : Id, index : Index, freed : BOOLEAN]
  <2> SUFFICES ASSUME NEW t \in Thread
               PROVE  /\ finder'[t].at = finder[t].at /\ finder'[t].node = finder[t].node
                      /\ finder'[t].index = finder[t].index
                      /\ finder'[t].freed = (finder[t].freed \/ finder[t].index \in S)
                      /\ finder'[t] \in [at : {"idle", "found"}, node : Id, index : Index,
                                         freed : BOOLEAN]
    OBVIOUS
  <2>1. finder[t] \in [at : {"idle", "found"}, node : Id, index : Index, freed : BOOLEAN]
    BY DEF TypeOK
  <2>2. QED
    BY <2>1
<1>4. finder' \in [Thread -> [at : {"idle", "found"}, node : Id, index : Index,
                              freed : BOOLEAN]]
  BY <1>3
<1>5. TypeOK'
  BY <1>2, <1>4 DEF TypeOK
<1>6. NoDuplicateRoute'
  BY <1>1 DEF NoDuplicateRoute
<1>7. EventsFindTheirRow'
  <2> SUFFICES ASSUME NEW t \in Thread, finder'[t].at = "found", ~finder'[t].freed
               PROVE  finder'[t].index \in Slot /\ IsRowOf(finder[t].node, finder[t].index)'
    BY DEF EventsFindTheirRow
  <2>1. finder[t].at = "found" /\ ~finder[t].freed /\ finder[t].index \notin S
    BY <1>3
  <2>2. finder[t].index \in Slot /\ IsRowOf(finder[t].node, finder[t].index)
    BY <2>1 DEF EventsFindTheirRow
  <2>3. QED
    BY <1>1, <1>3, <2>1, <2>2 DEF IsRowOf
<1>8. FoundStillTrue' /\ (ipc'.at \in {"parsed", "stored"} => ipc'.node \in Node)
  BY <1>1 DEF FoundStillTrue, IsRowOf, TypeOK, Index, Slot, NoSlot
<1>9. QED
  BY <1>5, <1>6, <1>7, <1>8

LEMMA DropKeeps ==
  ASSUME IInv, NEW n \in Node, Drop(n)
  PROVE  IInv'
<1>1. PICK i \in Slot : FreeRows({i})
  BY DEF Drop
<1>2. keep' \in {"check", "adjust", "adjusting", "optimize", "optimizing", "report"}
  BY DEF Drop, IInv, TypeOK
<1>3. QED
  BY <1>1, <1>2, FreeRowsKeeps DEF Drop

LEMMA CheckKeeps ==
  ASSUME IInv, Check
  PROVE  IInv'
<1> DEFINE S == {s \in Slot : row[s].used /\ row[s].age >= Expire}
<1>1. S \in SUBSET Slot /\ FreeRows(S)
  BY DEF Check
<1>2. reported' = reported /\ held' = held /\ ipc' = ipc /\ due' = due /\ keep' = "adjust"
  BY DEF Check
<1> HIDE DEF S
<1>3. QED
  BY <1>1, <1>2, FreeRowsKeeps

LEMMA AdjustKeeps ==
  ASSUME IInv, Adjust
  PROVE  IInv'
<1> USE RouteAssumption
    DEF IInv, Adjust, Lock, Slot, NoSlot, Thread, Id, Index, IsRowOf
<1>1. TypeOK'
  BY DEF TypeOK
<1>2. NoDuplicateRoute'
  BY DEF TypeOK, NoDuplicateRoute, FoundStillTrue
<1>3. EventsFindTheirRow'
  BY DEF TypeOK, NoDuplicateRoute, EventsFindTheirRow, FoundStillTrue
<1>4. FoundStillTrue' /\ (ipc'.at \in {"parsed", "stored"} => ipc'.node \in Node)
  BY DEF TypeOK, NoDuplicateRoute, FoundStillTrue
<1>5. QED
  BY <1>1, <1>2, <1>3, <1>4

LEMMA AdjustReturnsKeeps ==
  ASSUME IInv, AdjustReturns
  PROVE  IInv'
<1> USE RouteAssumption
    DEF IInv, AdjustReturns, Unlock, Slot, NoSlot, Thread, Id, Index, IsRowOf
<1>1. TypeOK'
  BY DEF TypeOK
<1>2. NoDuplicateRoute'
  BY DEF TypeOK, NoDuplicateRoute, FoundStillTrue
<1>3. EventsFindTheirRow'
  BY DEF TypeOK, NoDuplicateRoute, EventsFindTheirRow, FoundStillTrue
<1>4. FoundStillTrue' /\ (ipc'.at \in {"parsed", "stored"} => ipc'.node \in Node)
  BY DEF TypeOK, NoDuplicateRoute, FoundStillTrue
<1>5. QED
  BY <1>1, <1>2, <1>3, <1>4

LEMMA OptimizeKeeps ==
  ASSUME IInv, Optimize
  PROVE  IInv'
<1> USE RouteAssumption
    DEF IInv, Optimize, Lock, Slot, NoSlot, Thread, Id, Index, IsRowOf
<1>1. TypeOK'
  BY DEF TypeOK
<1>2. NoDuplicateRoute'
  BY DEF TypeOK, NoDuplicateRoute, FoundStillTrue
<1>3. EventsFindTheirRow'
  BY DEF TypeOK, NoDuplicateRoute, EventsFindTheirRow, FoundStillTrue
<1>4. FoundStillTrue' /\ (ipc'.at \in {"parsed", "stored"} => ipc'.node \in Node)
  BY DEF TypeOK, NoDuplicateRoute, FoundStillTrue
<1>5. QED
  BY <1>1, <1>2, <1>3, <1>4

LEMMA OptimizeSendsKeeps ==
  ASSUME IInv, OptimizeSends
  PROVE  IInv'
<1> USE RouteAssumption
    DEF IInv, OptimizeSends, Slot, NoSlot, Thread, Id, Index, IsRowOf
<1>1. TypeOK'
  BY DEF TypeOK
<1>2. NoDuplicateRoute'
  BY DEF TypeOK, NoDuplicateRoute, FoundStillTrue
<1>3. EventsFindTheirRow'
  BY DEF TypeOK, NoDuplicateRoute, EventsFindTheirRow, FoundStillTrue
<1>4. FoundStillTrue' /\ (ipc'.at \in {"parsed", "stored"} => ipc'.node \in Node)
  BY DEF TypeOK, NoDuplicateRoute, FoundStillTrue
<1>5. QED
  BY <1>1, <1>2, <1>3, <1>4

LEMMA OptimizeReturnsKeeps ==
  ASSUME IInv, OptimizeReturns
  PROVE  IInv'
<1> USE RouteAssumption
    DEF IInv, OptimizeReturns, Unlock, Slot, NoSlot, Thread, Id, Index, IsRowOf
<1>1. TypeOK'
  BY DEF TypeOK
<1>2. NoDuplicateRoute'
  BY DEF TypeOK, NoDuplicateRoute, FoundStillTrue
<1>3. EventsFindTheirRow'
  BY DEF TypeOK, NoDuplicateRoute, EventsFindTheirRow, FoundStillTrue
<1>4. FoundStillTrue' /\ (ipc'.at \in {"parsed", "stored"} => ipc'.node \in Node)
  BY DEF TypeOK, NoDuplicateRoute, FoundStillTrue
<1>5. QED
  BY <1>1, <1>2, <1>3, <1>4

LEMMA EndLoopKeeps ==
  ASSUME IInv, EndLoop
  PROVE  IInv'
<1> USE RouteAssumption
    DEF IInv, EndLoop, Slot, NoSlot, Thread, Id, Index, IsRowOf
<1>1. TypeOK'
  BY DEF TypeOK
<1>2. NoDuplicateRoute'
  BY DEF TypeOK, NoDuplicateRoute, FoundStillTrue
<1>3. EventsFindTheirRow'
  BY DEF TypeOK, NoDuplicateRoute, EventsFindTheirRow, FoundStillTrue
<1>4. FoundStillTrue' /\ (ipc'.at \in {"parsed", "stored"} => ipc'.node \in Node)
  BY DEF TypeOK, NoDuplicateRoute, FoundStillTrue
<1>5. QED
  BY <1>1, <1>2, <1>3, <1>4

LEMMA FindNextKeeps ==
  ASSUME IInv, NEW t \in Thread, NEW n \in Node, NEW i \in Slot, FindNext(t, n, i)
  PROVE  IInv'
<1> USE RouteAssumption
    DEF IInv, FindNext, Finds, Slot, NoSlot, Thread, Id, Index, IsRowOf
<1>1. TypeOK'
  BY DEF TypeOK
<1>2. NoDuplicateRoute'
  BY DEF TypeOK, NoDuplicateRoute, FoundStillTrue
<1>3. EventsFindTheirRow'
  BY DEF TypeOK, NoDuplicateRoute, EventsFindTheirRow, FoundStillTrue
<1>4. FoundStillTrue' /\ (ipc'.at \in {"parsed", "stored"} => ipc'.node \in Node)
  BY DEF TypeOK, NoDuplicateRoute, FoundStillTrue
<1>5. QED
  BY <1>1, <1>2, <1>3, <1>4

LEMMA PassOnKeeps ==
  ASSUME IInv, NEW t \in Thread, PassOn(t)
  PROVE  IInv'
<1> USE RouteAssumption
    DEF IInv, PassOn, NoEvent, Slot, NoSlot, Thread, Id, Index, IsRowOf
<1>1. TypeOK'
  BY DEF TypeOK
<1>2. NoDuplicateRoute'
  BY DEF TypeOK, NoDuplicateRoute, FoundStillTrue
<1>3. EventsFindTheirRow'
  BY DEF TypeOK, NoDuplicateRoute, EventsFindTheirRow, FoundStillTrue
<1>4. FoundStillTrue' /\ (ipc'.at \in {"parsed", "stored"} => ipc'.node \in Node)
  BY DEF TypeOK, NoDuplicateRoute, FoundStillTrue
<1>5. QED
  BY <1>1, <1>2, <1>3, <1>4

LEMMA StepKeepsIInv == IInv /\ [Next]_vars => IInv'
<1> SUFFICES ASSUME IInv, [Next]_vars PROVE IInv'
  OBVIOUS
<1>1. CASE UNCHANGED vars
  BY <1>1 DEF IInv, vars, TypeOK, NoDuplicateRoute, EventsFindTheirRow, FoundStillTrue, IsRowOf
<1>2. CASE Tick \/ ParseFails \/ Store \/ EndReport
  BY <1>2, TickKeeps, ParseFailsKeeps, StoreKeeps, EndReportKeeps
<1>3. CASE \/ Check \/ Adjust \/ AdjustReturns
           \/ Optimize \/ OptimizeSends \/ OptimizeReturns \/ EndLoop
  BY <1>3, CheckKeeps, AdjustKeeps, AdjustReturnsKeeps, OptimizeKeeps, OptimizeSendsKeeps,
     OptimizeReturnsKeeps, EndLoopKeeps
<1>4. CASE \E n \in Node : Silence(n) \/ Parse(n) \/ Drop(n)
  BY <1>4, SilenceKeeps, ParseKeeps, DropKeeps
<1>5. CASE \E i \in Index : FindRow(i)
  BY <1>5, FindRowKeeps
<1>6. CASE \E t \in Thread : PassOn(t) \/ \E n \in Node, i \in Slot : FindNext(t, n, i)
  BY <1>6, PassOnKeeps, FindNextKeeps
<1>7. QED
  BY <1>1, <1>2, <1>3, <1>4, <1>5, <1>6 DEF Next

-----------------------------------------------------------------------------
\* The invariant holds in every state, whatever falls into the lock's gaps.
THEOREM RouteInvariant == Spec => []IInv
BY InitIInv, StepKeepsIInv, PTL DEF Spec

\* A node never has two rows.
THEOREM OneRowPerNode == Spec => []NoDuplicateRoute
<1>1. IInv => NoDuplicateRoute
  BY DEF IInv
<1>2. QED
  BY <1>1, RouteInvariant, PTL

\* An event is sent by the row of its node, or by one that has been freed.
THEOREM EventsFindRow == Spec => []EventsFindTheirRow
<1>1. IInv => EventsFindTheirRow
  BY DEF IInv
<1>2. QED
  BY <1>1, RouteInvariant, PTL

=============================================================================
