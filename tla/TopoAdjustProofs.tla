-------------------------- MODULE TopoAdjustProofs --------------------------
(***************************************************************************)
(* The orders of the root for every tree and every size of the table:      *)
(* unless an entry was given away while the IPC thread was at it, the live  *)
(* entries are the orders, and they exclude each other.                    *)
(***************************************************************************)
EXTENDS TopoAdjust, TLAPS

Entry == [used : BOOLEAN, age : Nat, viewer : Viewer \cup {NoViewer}, guaji : Peer,
          switch : BOOLEAN]

\* What an entry holds, and what the two threads have in hand.
TypesOK ==
  /\ item \in [Item -> Entry]
  /\ eloop = Looking \/ eloop \in [index : Item, viewer : Viewer, guaji : Guaji]
  /\ ipc = Quiet \/ ipc \in [at : {"look", "expired", "found", "freed"}, viewer : Viewer,
                             index : Item, switch : BOOLEAN]

\* The entry is in use, young enough and not just being written.
Written(i) == Live(i) /\ i # eloop.index

\* The entries that stand for an order: not the one whose order is fulfilled.
Current == {i \in Item : Written(i) /\ ~(ipc.at = "found" /\ i = ipc.index)}

OrderOf(i) == [viewer |-> item[i].viewer, guaji |-> item[i].guaji, age |-> item[i].age,
               switch |-> item[i].switch]

\* The history is what the table stands for.
TableTells == orders = {OrderOf(i) : i \in Current}

EntriesDiffer ==
  \A i \in Item : Written(i) =>
    /\ item[i].viewer \in Viewer /\ item[i].guaji \in Guaji
    /\ \A j \in Item \ {i} : Written(j) => /\ Owner[item[i].viewer] # Owner[item[j].viewer]
                                           /\ item[i].guaji # item[j].guaji

\* The pair that is chosen is not under order, and its entry is still marked.
ClaimOK ==
  eloop # Looking =>
    /\ item[eloop.index].used
    /\ \A i \in Item : Written(i) => /\ Owner[item[i].viewer] # Owner[eloop.viewer]
                                     /\ item[i].guaji # eloop.guaji

\* The entry the IPC thread is going to free, or has freed, is not given away under
\* it, and no order needs it.
FoundOK ==
  /\ ipc.at \in {"expired", "found", "freed"} => ipc.index # eloop.index
  /\ ipc.at = "expired" => ~Live(ipc.index)
  /\ ipc.at \in {"found", "freed"} => item[ipc.index].switch = ipc.switch

Parts == TableTells /\ EntriesDiffer /\ ClaimOK /\ FoundOK
IInv == TypesOK /\ (~reused => Parts)

-----------------------------------------------------------------------------
LEMMA LifeAndItems == Life \in Nat /\ Items \in Nat /\ NoItem \notin Item /\ Life + 1 \in Nat
                      /\ ~(Life + 1 <= Life)
BY TopoAssumption DEF NoItem, Item

\* The event loop and the IPC thread look at nothing, or at an entry.
LEMMA ThreadTypes ==
  ASSUME TypesOK
  PROVE  /\ Looking.index = NoItem /\ Quiet.at = "idle"
         /\ eloop # Looking => eloop.index \in Item /\ eloop.viewer \in Viewer
                               /\ eloop.guaji \in Guaji
         /\ ipc # Quiet <=> ipc.at # "idle"
         /\ ipc # Quiet => ipc.at \in {"look", "expired", "found", "freed"}
                           /\ ipc.viewer \in Viewer /\ ipc.index \in Item
                           /\ ipc.switch \in BOOLEAN
BY DEF TypesOK, Looking, Quiet

\* Marking an entry as used, or freeing it, changes nothing else of it.
Marked(e, u) == [e EXCEPT !.used = u]

LEMMA MarkDoes ==
  ASSUME NEW e \in Entry, NEW u \in BOOLEAN
  PROVE  /\ Marked(e, u) \in Entry /\ Marked(e, u).used = u
         /\ Marked(e, u).viewer = e.viewer /\ Marked(e, u).guaji = e.guaji
         /\ Marked(e, u).age = e.age /\ Marked(e, u).switch = e.switch
BY DEF Entry, Marked

\* A search frees entries that no order needs.
LEMMA FreedDoes ==
  ASSUME IInv, NEW S, \A i \in S : Expired(i)
  PROVE  /\ \A i \in Item : /\ Freed(S)[i].viewer = item[i].viewer
                            /\ Freed(S)[i].guaji = item[i].guaji
                            /\ Freed(S)[i].age = item[i].age
                            /\ Freed(S)[i].switch = item[i].switch
                            /\ i \notin S => Freed(S)[i] = item[i]
                            /\ (Freed(S)[i].used /\ Freed(S)[i].age <= Life) <=> Live(i)
         /\ Freed(S) \in [Item -> Entry]
<1>1. \A i \in Item : item[i] \in Entry
  BY DEF IInv, TypesOK
<1>2. \A i \in Item : Freed(S)[i] = IF i \in S THEN [item[i] EXCEPT !.used = FALSE] ELSE item[i]
  BY DEF Freed
<1>3. \A i \in Item : /\ Freed(S)[i] \in Entry
                      /\ Freed(S)[i].viewer = item[i].viewer
                      /\ Freed(S)[i].guaji = item[i].guaji
                      /\ Freed(S)[i].age = item[i].age
                      /\ Freed(S)[i].switch = item[i].switch
                      /\ i \in S => Freed(S)[i].used = FALSE
  <2> SUFFICES ASSUME NEW i \in Item
               PROVE  /\ Freed(S)[i] \in Entry
                      /\ Freed(S)[i].viewer = item[i].viewer
                      /\ Freed(S)[i].guaji = item[i].guaji
                      /\ Freed(S)[i].age = item[i].age
                      /\ Freed(S)[i].switch = item[i].switch
                      /\ i \in S => Freed(S)[i].used = FALSE
    OBVIOUS
  <2>1. CASE i \in S
    <3>1. Freed(S)[i] = Marked(item[i], FALSE)
      BY <1>2, <2>1 DEF Marked
    <3>2. item[i] \in Entry /\ FALSE \in BOOLEAN
      BY <1>1
    <3>3. /\ Marked(item[i], FALSE) \in Entry /\ Marked(item[i], FALSE).used = FALSE
          /\ Marked(item[i], FALSE).viewer = item[i].viewer
          /\ Marked(item[i], FALSE).guaji = item[i].guaji
          /\ Marked(item[i], FALSE).age = item[i].age
          /\ Marked(item[i], FALSE).switch = item[i].switch
      BY <3>2, MarkDoes, Zenon
    <3>4. QED
      BY <3>1, <3>3, Zenon
  <2>2. CASE i \notin S
    BY <1>1, <1>2, <2>2
  <2>3. QED
    BY <2>1, <2>2
<1>4. Freed(S) \in [Item -> Entry]
  <2>1. Freed(S) = [i \in Item |-> Freed(S)[i]]
    BY DEF Freed
  <2>2. QED
    BY <1>3, <2>1
<1>5. \A i \in S : item[i].used /\ item[i].age > Life
  BY DEF Expired
<1>6. \A i \in Item : item[i].age \in Nat
  BY <1>1 DEF Entry
<1>7. \A i \in Item : (Freed(S)[i].used /\ Freed(S)[i].age <= Life) <=> Live(i)
  <2> SUFFICES ASSUME NEW i \in Item
               PROVE  (Freed(S)[i].used /\ Freed(S)[i].age <= Life) <=> Live(i)
    OBVIOUS
  <2>1. CASE i \in S
    <3>1. ~(item[i].age <= Life)
      BY <1>5, <1>6, <2>1, LifeAndItems
    <3>2. QED
      BY <1>3, <2>1, <3>1 DEF Live
  <2>2. CASE i \notin S
    BY <1>2, <2>2 DEF Live
  <2>3. QED
    BY <2>1, <2>2
<1>8. QED
  BY <1>2, <1>3, <1>4, <1>7

LEMMA SweepDoes ==
  ASSUME IInv, NEW S, \A i \in S : Expired(i), item' = Freed(S)
  PROVE  /\ \A i \in Item : /\ item'[i].viewer = item[i].viewer /\ item'[i].guaji = item[i].guaji
                            /\ item'[i].age = item[i].age /\ item'[i].switch = item[i].switch
                            /\ i \notin S => item'[i] = item[i]
                            /\ (item'[i].used /\ item'[i].age <= Life) <=> Live(i)
         /\ item' \in [Item -> Entry]
BY FreedDoes

LEMMA FreeOneDoes ==
  ASSUME TypesOK, NEW k \in Item, item' = Freed({k})
  PROVE  /\ \A j \in Item : /\ item'[j].viewer = item[j].viewer /\ item'[j].guaji = item[j].guaji
                            /\ item'[j].age = item[j].age /\ item'[j].switch = item[j].switch
                            /\ j # k => item'[j] = item[j]
         /\ ~item'[k].used
         /\ item' \in [Item -> Entry]
<1>1. /\ item[k] \in Entry /\ item' = [j \in Item |-> IF j = k THEN item'[k] ELSE item[j]]
      /\ item'[k] = Marked(item[k], FALSE)
  BY DEF Freed, TypesOK, Marked
<1>2. /\ item'[k] \in Entry /\ item'[k].used = FALSE /\ item'[k].viewer = item[k].viewer
      /\ item'[k].guaji = item[k].guaji /\ item'[k].age = item[k].age
      /\ item'[k].switch = item[k].switch
  BY ZenonT(30), <1>1, MarkDoes
<1>3. \A j \in Item : j # k => item'[j] = item[j] /\ item[j] \in Entry
  BY DEF Freed, TypesOK
<1>4. QED
  BY <1>1, <1>2, <1>3

\* What does not touch the table, the two threads and the orders keeps the invariant.
LEMMA TreeKeeps ==
  ASSUME IInv, UNCHANGED <<item, eloop, ipc, orders, reused>>
  PROVE  IInv'
BY DEF IInv, TypesOK, Parts, TableTells, Current, Written, Live, OrderOf, EntriesDiffer, ClaimOK,
       FoundOK

\* What the IPC thread looks at stays so when no entry but one that is marked changes.
LEMMA FoundKeeps ==
  ASSUME TypesOK, FoundOK, UNCHANGED ipc,
         ipc # Quiet /\ ipc.at # "look" =>
           /\ ipc.index # eloop'.index
           /\ item'[ipc.index].switch = item[ipc.index].switch
           /\ ~Live(ipc.index) => ~Live(ipc.index)'
  PROVE  FoundOK'
BY ThreadTypes DEF FoundOK

\* Pass() and ServerEvent() only search.
LEMMA SearchKeeps ==
  ASSUME IInv, NEW i \in Item \cup {NoItem}, item' = Freed(Swept(i)), eloop = Looking,
         UNCHANGED <<eloop, ipc, orders, reused>>
  PROVE  IInv'
<1>1. \A j \in Swept(i) : Expired(j)
  BY DEF Swept
<1>2. /\ \A j \in Item : /\ item'[j].viewer = item[j].viewer /\ item'[j].guaji = item[j].guaji
                         /\ item'[j].age = item[j].age /\ item'[j].switch = item[j].switch
                         /\ (item'[j].used /\ item'[j].age <= Life) <=> Live(j)
      /\ TypesOK'
  BY <1>1, SweepDoes DEF IInv, TypesOK
<1>3. ASSUME ~reused' PROVE Parts'
  <2>1. Parts /\ TypesOK
    BY <1>3 DEF IInv
  <2>2. \A j \in Item : /\ Written(j)' <=> Written(j)
                        /\ OrderOf(j)' = OrderOf(j)
    BY <1>2 DEF Written, Live, OrderOf
  <2>3. Current' = Current
    BY <2>2 DEF Current
  <2>4. TableTells'
    BY <2>1, <2>2, <2>3 DEF Parts, TableTells, Current
  <2>5. EntriesDiffer'
    BY <1>2, <2>1, <2>2 DEF Parts, EntriesDiffer
  <2>6. ClaimOK'
    BY DEF ClaimOK
  <2>7. FoundOK'
    <3>1. ipc # Quiet => ipc.index \in Item
      BY <2>1, ThreadTypes
    <3>2. \A j \in Item : Live(j)' <=> Live(j)
      BY <1>2 DEF Live
    <3>3. ipc # Quiet /\ ipc.at # "look" => ipc.index # eloop.index
      BY <2>1, ThreadTypes DEF Parts, FoundOK
    <3>4. QED
      BY <1>2, <2>1, <3>1, <3>2, <3>3, FoundKeeps DEF Parts
  <2>8. QED
    BY <2>4, <2>5, <2>6, <2>7 DEF Parts
<1>4. QED
  BY <1>2, <1>3 DEF IInv

\* The entry that is marked was free and is not the IPC thread's; the pair is that
\* of no live entry.
LEMMA ClaimKeeps ==
  ASSUME IInv, NEW v \in Viewer, NEW g \in Guaji, Claim(v, g)
  PROVE  IInv'
<1> DEFINE kept == Freed(Swept(NoItem))
<1>1. PICK i \in Item : /\ ~kept[i].used
                        /\ item' = [kept EXCEPT ![i].used = TRUE]
                        /\ eloop' = [index |-> i, viewer |-> v, guaji |-> g]
                        /\ reused' = (reused \/ (ipc.at # "idle" /\ ipc.index = i))
  BY DEF Claim
<1>2. /\ eloop = Looking /\ UNCHANGED <<ipc, orders>>
      /\ \A j \in Item : Live(j) => /\ item[j].viewer \notin ViewersOf(Owner[v])
                                    /\ item[j].guaji # g
  BY LifeAndItems DEF Claim, FindsOwner, IsUncleGuaji
<1>3. /\ kept \in [Item -> Entry]
      /\ \A j \in Item : /\ kept[j].viewer = item[j].viewer /\ kept[j].guaji = item[j].guaji
                         /\ kept[j].age = item[j].age /\ kept[j].switch = item[j].switch
                         /\ (kept[j].used /\ kept[j].age <= Life) <=> Live(j)
  <2>1. \A j \in Swept(NoItem) : Expired(j)
    BY DEF Swept
  <2>2. QED
    BY <2>1, FreedDoes
<1> HIDE DEF kept
<1>4. /\ item'[i].used
      /\ \A j \in Item : /\ item'[j].viewer = item[j].viewer /\ item'[j].guaji = item[j].guaji
                         /\ item'[j].age = item[j].age /\ item'[j].switch = item[j].switch
                         /\ j # i => item'[j] = kept[j]
      /\ TypesOK'
  <2>1. /\ item'[i] = Marked(kept[i], TRUE) /\ kept[i] \in Entry
        /\ \A j \in Item : j # i => item'[j] = kept[j]
        /\ item' = [kept EXCEPT ![i] = item'[i]]
    BY <1>1, <1>3 DEF Marked
  <2>2. /\ item'[i] \in Entry /\ item'[i].used = TRUE /\ item'[i].viewer = kept[i].viewer
        /\ item'[i].guaji = kept[i].guaji /\ item'[i].age = kept[i].age
        /\ item'[i].switch = kept[i].switch
    BY ZenonT(30), <2>1, MarkDoes
  <2>4. item' \in [Item -> Entry]
    BY <1>3, <2>1, <2>2
  <2>5. TypesOK'
    BY <1>1, <1>2, <2>4 DEF IInv, TypesOK
  <2>6. QED
    BY ZenonT(30), <1>3, <2>1, <2>2, <2>5
<1>5. ASSUME ~reused' PROVE Parts'
  <2>1. Parts /\ TypesOK /\ (ipc # Quiet => ipc.index # i)
    BY <1>1, <1>5, ThreadTypes DEF IInv
  <2>2. eloop' # Looking /\ eloop'.index = i /\ eloop'.viewer = v /\ eloop'.guaji = g
    BY <1>1, LifeAndItems DEF Looking
  <2>3. \A j \in Item : /\ Written(j)' <=> Written(j)
                        /\ Written(j) <=> Live(j)
                        /\ OrderOf(j)' = OrderOf(j)
    BY <1>1, <1>2, <1>3, <1>4, <2>2, ThreadTypes, LifeAndItems DEF Written, Live, OrderOf, IInv
  <2>4. Current' = Current
    BY <1>2, <2>3 DEF Current
  <2>5. TableTells'
    BY <1>2, <2>1, <2>3, <2>4 DEF Parts, TableTells, Current
  <2>6. EntriesDiffer'
    BY <1>4, <2>1, <2>3 DEF Parts, EntriesDiffer
  <2>7. ClaimOK'
    BY <1>2, <1>4, <2>1, <2>2, <2>3 DEF Parts, ClaimOK, EntriesDiffer, ViewersOf
  <2>8. FoundOK'
    <3>1. ipc # Quiet => ipc.index \in Item /\ ipc.index # i
      BY <2>1, ThreadTypes
    <3>2. \A j \in Item : j # i => (Live(j)' <=> Live(j))
      BY <1>3, <1>4 DEF Live
    <3>3. QED
      BY <1>2, <1>4, <2>1, <2>2, <3>1, <3>2, FoundKeeps DEF Parts
  <2>9. QED
    BY <2>5, <2>6, <2>7, <2>8 DEF Parts
<1>6. QED
  BY <1>4, <1>5 DEF IInv

\* The entry is written, and is the order.
LEMMA OrderKeeps ==
  ASSUME IInv, NEW switch \in BOOLEAN, Order(switch)
  PROVE  IInv'
<1> DEFINE entry(k) == [used |-> item[k].used, age |-> 0, viewer |-> eloop.viewer,
                        guaji |-> eloop.guaji, switch |-> switch]
           order == [viewer |-> eloop.viewer, guaji |-> eloop.guaji, age |-> 0,
                     switch |-> switch]
<1>k. PICK k \in Item : k = eloop.index
  BY ThreadTypes DEF Order, IInv
<1>1. /\ k \in Item /\ k = eloop.index /\ eloop.viewer \in Viewer /\ eloop.guaji \in Guaji /\ eloop # Looking
  BY <1>k, ThreadTypes DEF Order, IInv
<1>2. /\ item' = [item EXCEPT ![k] = entry(k)] /\ orders' = orders \cup {order}
      /\ eloop' = Looking /\ UNCHANGED <<ipc, reused>>
  BY <1>1 DEF Order, IInv, TypesOK
<1>3. /\ item'[k] = entry(k) /\ \A j \in Item : j # k => item'[j] = item[j]
      /\ TypesOK'
  <2>1. entry(k) \in Entry
    BY <1>1 DEF IInv, TypesOK, Peer, Entry
  <2> HIDE DEF entry
  <2>2. QED
    BY <1>1, <1>2, <2>1 DEF IInv, TypesOK
<1>4. ASSUME ~reused' PROVE Parts'
  <2>1. Parts /\ TypesOK /\ item[k].used
    BY <1>1, <1>2, <1>4 DEF IInv, Parts, ClaimOK
  <2>2. Written(k)' /\ OrderOf(k)' = order
    <3>1. /\ item'[k].used = item[k].used /\ item'[k].age = 0
          /\ item'[k].viewer = eloop.viewer /\ item'[k].guaji = eloop.guaji
          /\ item'[k].switch = switch
      BY <1>3
    <3>2. Live(k)'
      BY <2>1, <3>1, LifeAndItems DEF Live
    <3>3. k # Looking.index
      BY <1>1, LifeAndItems DEF Looking
    <3>4. OrderOf(k)' = order
      BY <3>1 DEF OrderOf
    <3>5. QED
      BY <1>2, <3>2, <3>3, <3>4 DEF Written
  <2>3. \A j \in Item : j # k => /\ Written(j)' <=> Written(j)
                                 /\ OrderOf(j)' = OrderOf(j)
    BY <1>1, <1>2, <1>3, LifeAndItems DEF Written, Live, OrderOf, Looking
  <2>4. Current' = Current \cup {k} /\ k \notin Current
    BY <1>1, <1>2, <2>1, <2>2, <2>3, ThreadTypes DEF Current, Written, Parts, FoundOK
  <2>5. TableTells'
    BY <1>2, <2>1, <2>2, <2>3, <2>4 DEF Parts, TableTells, Current
  <2>6. EntriesDiffer'
    BY <1>1, <1>3, <2>1, <2>2, <2>3 DEF Parts, EntriesDiffer, ClaimOK
  <2>7. ClaimOK'
    BY <1>2 DEF ClaimOK
  <2>8. FoundOK'
    <3>1. ipc # Quiet => ipc.index \in Item /\ ipc.index # NoItem
      BY <2>1, LifeAndItems, ThreadTypes
    <3>2. ipc # Quiet /\ ipc.at # "look" => ipc.index # k
      BY <1>1, <2>1, ThreadTypes DEF Parts, FoundOK
    <3>3. \A j \in Item : j # k => item'[j] = item[j] /\ (Live(j)' <=> Live(j))
      BY <1>3 DEF Live
    <3>4. eloop'.index = NoItem
      BY <1>2 DEF Looking
    <3>5. QED
      BY <1>2, <2>1, <3>1, <3>2, <3>3, <3>4, FoundKeeps DEF Parts
  <2>9. QED
    BY <2>5, <2>6, <2>7, <2>8 DEF Parts
<1>5. QED
  BY <1>3, <1>4 DEF IInv

\* The search starts, goes on, or finds an entry that is too old: no order is touched.
LEMMA IpcKeeps ==
  ASSUME IInv, UNCHANGED <<item, eloop, orders>>, reused => reused', ipc.at # "found",
         \/ ipc' = Quiet
         \/ ipc' \in [at : {"look", "expired"}, viewer : Viewer, index : Item,
                      switch : BOOLEAN],
         (ipc'.at = "expired" /\ ~reused') => ipc'.index # eloop.index /\ ~Live(ipc'.index)
  PROVE  IInv'
<1>1. ipc'.at \notin {"found", "freed"}
  BY DEF Quiet
<1>2. TypesOK'
  BY DEF IInv, TypesOK
<1>3. ASSUME ~reused' PROVE Parts'
  <2>1. Parts
    BY <1>3 DEF IInv
  <2>2. \A i \in Item : (Written(i)' <=> Written(i)) /\ OrderOf(i)' = OrderOf(i)
    BY DEF Written, Live, OrderOf
  <2>3. Current' = Current
    BY <1>1, <2>2 DEF Current
  <2>4. TableTells'
    BY <2>1, <2>2, <2>3 DEF Parts, TableTells, Current
  <2>5. EntriesDiffer' /\ ClaimOK'
    BY <2>1, <2>2 DEF Parts, EntriesDiffer, ClaimOK
  <2>6. FoundOK'
    BY <1>1, <1>3 DEF FoundOK, Live
  <2>7. QED
    BY <2>4, <2>5, <2>6 DEF Parts
<1>4. QED
  BY <1>2, <1>3 DEF IInv

LEMMA DeliverKeeps ==
  ASSUME IInv, NEW v \in Viewer, Deliver(v)
  PROVE  IInv'
<1>1. 1 \in Item
  BY TopoAssumption DEF Item
<1>2. /\ ipc'.at = "look" /\ ipc.at = "idle"
      /\ ipc' \in [at : {"look", "expired"}, viewer : Viewer, index : Item, switch : BOOLEAN]
  BY <1>1 DEF Deliver, Quiet
<1>3. QED
  BY <1>2, IpcKeeps DEF Deliver

\* Where the search goes next.
LEMMA OnwardDoes ==
  ASSUME IInv, ipc # Quiet, Onward
  PROVE  /\ \/ ipc' = Quiet
            \/ ipc' \in [at : {"look", "expired"}, viewer : Viewer, index : Item,
                         switch : BOOLEAN]
         /\ ipc'.at \in {"idle", "look"}
<1>1. ipc \in [at : {"look", "expired", "found", "freed"}, viewer : Viewer, index : Item,
              switch : BOOLEAN]
  BY DEF IInv, TypesOK
<1>2. CASE ipc.index < Items
  <2>1. ipc.index + 1 \in Item
    BY <1>1, <1>2, LifeAndItems DEF Item
  <2>2. ipc' = [ipc EXCEPT !.at = "look", !.index = ipc.index + 1]
    BY <1>2 DEF Onward
  <2>3. QED
    BY <1>1, <2>1, <2>2
<1>3. CASE ~(ipc.index < Items)
  BY <1>3 DEF Onward, Quiet
<1>4. QED
  BY <1>2, <1>3

LEMMA LookOnKeeps ==
  ASSUME IInv, LookOn
  PROVE  IInv'
<1>1. ipc # Quiet /\ ipc.at = "look" /\ Onward /\ UNCHANGED <<item, eloop, orders, reused>>
  BY DEF LookOn, Quiet
<1>2. QED
  BY <1>1, OnwardDoes, IpcKeeps

LEMMA LookExpiredKeeps ==
  ASSUME IInv, LookExpired
  PROVE  IInv'
<1>1. /\ ipc # Quiet /\ ipc.at = "look" /\ UNCHANGED <<item, eloop, orders>>
      /\ ipc' = [ipc EXCEPT !.at = "expired"] /\ reused' = (reused \/ BeingWritten)
      /\ Expired(ipc.index) \/ BeingWritten
  BY DEF LookExpired, Quiet
<1>2. ipc \in [at : {"look", "expired", "found", "freed"}, viewer : Viewer, index : Item,
              switch : BOOLEAN]
  BY <1>1 DEF IInv, TypesOK
<1>3. ipc' \in [at : {"look", "expired"}, viewer : Viewer, index : Item, switch : BOOLEAN]
      /\ ipc'.index = ipc.index
  BY <1>1, <1>2
<1>4. Expired(ipc.index) => ~Live(ipc.index)
  <2>1. item[ipc.index].age \in Nat
    BY <1>2 DEF IInv, TypesOK, Entry
  <2>2. QED
    BY <2>1, LifeAndItems DEF Expired, Live
<1>5. ~reused' => ipc'.index # eloop.index /\ ~Live(ipc'.index)
  BY <1>1, <1>3, <1>4 DEF BeingWritten
<1>6. QED
  BY <1>1, <1>3, <1>5, IpcKeeps

\* An entry that no order needs is freed.
LEMMA SweepKeeps ==
  ASSUME IInv, Sweep
  PROVE  IInv'
<1>1. /\ ipc # Quiet /\ ipc.at = "expired" /\ ipc.index \in Item
      /\ UNCHANGED <<eloop, orders, reused>>
      /\ ipc'.at \in {"idle", "look"}
      /\ ipc' = Quiet \/ ipc' \in [at : {"look", "expired"}, viewer : Viewer, index : Item,
                                    switch : BOOLEAN]
  <2>1. ipc # Quiet /\ ipc.at = "expired" /\ Onward /\ UNCHANGED <<eloop, orders, reused>>
    BY DEF Sweep, Quiet
  <2>2. ipc.index \in Item
    BY <2>1, ThreadTypes DEF IInv
  <2>3. QED
    BY <2>1, <2>2, OnwardDoes
<1>2. /\ \A j \in Item : /\ item'[j].viewer = item[j].viewer /\ item'[j].guaji = item[j].guaji
                         /\ item'[j].age = item[j].age /\ item'[j].switch = item[j].switch
                         /\ j # ipc.index => item'[j] = item[j]
      /\ ~item'[ipc.index].used
      /\ item' \in [Item -> Entry]
  BY <1>1, FreeOneDoes DEF Sweep, IInv
<1>3. TypesOK'
  BY <1>1, <1>2 DEF IInv, TypesOK
<1>4. ASSUME ~reused' PROVE Parts'
  <2>1. Parts /\ ~Live(ipc.index) /\ ipc.index # eloop.index
    BY <1>1, <1>4 DEF IInv, Parts, FoundOK
  <2>2. \A j \in Item : (Written(j)' <=> Written(j)) /\ OrderOf(j)' = OrderOf(j)
    BY <1>1, <1>2, <2>1 DEF Written, Live, OrderOf
  <2>3. Current' = Current
    BY <1>1, <2>2 DEF Current
  <2>4. TableTells'
    BY <1>1, <2>1, <2>2, <2>3 DEF Parts, TableTells, Current
  <2>5. EntriesDiffer'
    BY <1>2, <2>1, <2>2 DEF Parts, EntriesDiffer
  <2>6. ClaimOK'
    BY <1>1, <1>2, <2>1, <2>2, ThreadTypes DEF Parts, ClaimOK, IInv
  <2>7. FoundOK'
    BY <1>1 DEF FoundOK
  <2>8. QED
    BY <2>4, <2>5, <2>6, <2>7 DEF Parts
<1>5. QED
  BY <1>3, <1>4 DEF IInv

\* The order is fulfilled; its entry is the only one of the viewer.
LEMMA LookFindsKeeps ==
  ASSUME IInv, LookFinds
  PROVE  IInv'
<1> DEFINE v == ipc.viewer
           i == ipc.index
<1>1. /\ ipc # Quiet /\ ipc.at = "look" /\ UNCHANGED <<item, eloop>>
      /\ (Live(i) /\ item[i].viewer = v) \/ BeingWritten
      /\ reused' = (reused \/ BeingWritten)
      /\ orders' = {o \in orders : o.viewer # v}
      /\ ipc' = [ipc EXCEPT !.at = "found",
                           !.switch = \E o \in orders : o.viewer = v /\ o.switch]
  BY DEF LookFinds, Quiet
<1>2. ipc \in [at : {"look", "expired", "found", "freed"}, viewer : Viewer, index : Item,
              switch : BOOLEAN]
  BY <1>1 DEF IInv, TypesOK
<1>3. /\ ipc'.at = "found" /\ ipc'.index = i /\ i \in Item /\ ipc' # Quiet
      /\ ipc'.switch = \E o \in orders : o.viewer = v /\ o.switch
  BY <1>1, <1>2 DEF Quiet
<1>4. ipc' \in [at : {"look", "expired", "found", "freed"}, viewer : Viewer, index : Item,
               switch : BOOLEAN]
  BY <1>1, <1>2
<1>5. TypesOK'
  BY <1>1, <1>4 DEF IInv, TypesOK
<1> HIDE DEF v, i
<1>6. ASSUME ~reused' PROVE Parts'
  <2>1. Parts /\ TypesOK /\ Live(i) /\ item[i].viewer = v /\ i # eloop.index
    BY <1>1, <1>6 DEF IInv, BeingWritten, i
  <2>2. \A j \in Item : (Written(j)' <=> Written(j)) /\ OrderOf(j)' = OrderOf(j)
    BY <1>1 DEF Written, Live, OrderOf
  <2>3. Current = {j \in Item : Written(j)}
    BY <1>1 DEF Current
  <2>4. Written(i) /\ i \in Current
    BY <1>3, <2>1, <2>3 DEF Written
  <2>5. \A j \in Item : Written(j) => (item[j].viewer = v <=> j = i)
    BY <1>3, <2>1, <2>4 DEF Parts, EntriesDiffer
  <2>6. Current' = Current \ {i}
    BY <1>3, <2>2, <2>3 DEF Current
  <2>7. TableTells'
    <3>1. orders' = {o \in {OrderOf(j) : j \in Current} : o.viewer # v}
      BY <1>1, <2>1 DEF Parts, TableTells
    <3>2. \A j \in Current : OrderOf(j).viewer # v <=> j # i
      BY <2>3, <2>5 DEF OrderOf
    <3>3. orders' = {OrderOf(j) : j \in Current \ {i}}
      BY <3>1, <3>2
    <3>4. QED
      BY <2>2, <2>3, <2>6, <3>3 DEF TableTells
  <2>8. EntriesDiffer' /\ ClaimOK'
    BY <1>1, <2>1, <2>2 DEF Parts, EntriesDiffer, ClaimOK
  <2>9. FoundOK'
    <3>1. OrderOf(i) \in orders /\ OrderOf(i).viewer = v /\ OrderOf(i).switch = item[i].switch
      BY <2>1, <2>4 DEF Parts, TableTells, OrderOf
    <3>2. \A o \in orders : o.viewer = v => o = OrderOf(i)
      <4> SUFFICES ASSUME NEW o \in orders, o.viewer = v PROVE o = OrderOf(i)
        OBVIOUS
      <4>1. PICK j \in Current : o = OrderOf(j)
        BY <2>1 DEF Parts, TableTells
      <4>2. j = i
        BY <2>3, <2>5, <4>1 DEF OrderOf
      <4>3. QED
        BY <4>1, <4>2
    <3>3. (\E o \in orders : o.viewer = v /\ o.switch) <=> item[i].switch
      BY <3>1, <3>2
    <3>4. item[i].switch \in BOOLEAN
      BY <1>3, <2>1 DEF TypesOK, Entry
    <3>5. ipc'.switch = item[i].switch
      BY <1>3, <3>3, <3>4, Zenon
    <3>6. QED
      BY <1>1, <1>3, <2>1, <3>5 DEF FoundOK
  <2>10. QED
    BY <2>7, <2>8, <2>9 DEF Parts
<1>7. QED
  BY <1>5, <1>6 DEF IInv

\* The entry of a fulfilled order is freed.
LEMMA FulfilKeeps ==
  ASSUME IInv, Fulfil
  PROVE  IInv'
<1> DEFINE k == ipc.index
<1>1. /\ ipc # Quiet /\ ipc.at = "found" /\ k \in Item
      /\ UNCHANGED <<eloop, orders, reused>>
      /\ ipc'.at = "freed" /\ ipc'.index = k /\ ipc'.switch = ipc.switch /\ ipc' # Quiet
  BY ThreadTypes DEF Fulfil, IInv, TypesOK, Quiet
<1>2. /\ \A j \in Item : /\ item'[j].viewer = item[j].viewer /\ item'[j].guaji = item[j].guaji
                         /\ item'[j].age = item[j].age /\ item'[j].switch = item[j].switch
                         /\ j # k => item'[j] = item[j]
      /\ ~item'[k].used
      /\ item' \in [Item -> Entry]
  BY <1>1, FreeOneDoes DEF Fulfil, IInv
<1>3. TypesOK'
  BY <1>1, <1>2 DEF Fulfil, IInv, TypesOK
<1>4. ASSUME ~reused' PROVE Parts'
  <2>1. Parts /\ TypesOK /\ k # eloop.index
    BY <1>1, <1>4 DEF IInv, Parts, FoundOK
  <2>2. \A j \in Item : /\ Written(j)' <=> Written(j) /\ j # k
                        /\ OrderOf(j)' = OrderOf(j)
    BY <1>1, <1>2 DEF Written, Live, OrderOf
  <2>3. Current' = Current
    BY <1>1, <2>2 DEF Current
  <2>4. TableTells'
    BY <1>1, <2>1, <2>2, <2>3 DEF Parts, TableTells, Current
  <2>5. EntriesDiffer'
    BY <1>2, <2>1, <2>2 DEF Parts, EntriesDiffer
  <2>6. ClaimOK'
    BY <1>1, <1>2, <2>1, <2>2, ThreadTypes DEF Parts, ClaimOK
  <2>7. FoundOK'
    BY <1>1, <1>2, <2>1 DEF Parts, FoundOK
  <2>8. QED
    BY <2>4, <2>5, <2>6, <2>7 DEF Parts
<1>5. QED
  BY <1>3, <1>4 DEF IInv

LEMMA SwitchKeeps ==
  ASSUME IInv, Switch
  PROVE  IInv'
<1>1. /\ ipc.at = "freed" /\ ipc' = Quiet /\ Quiet.at = "idle"
      /\ UNCHANGED <<item, eloop, orders, reused>>
  BY DEF Switch, Quiet
<1>2. Current' = Current
  BY <1>1 DEF Current, Written, Live
<1>3. QED
  BY <1>1, <1>2 DEF IInv, TypesOK, Parts, TableTells, OrderOf, EntriesDiffer, ClaimOK, FoundOK,
       Written, Live

\* Entries and orders grow old together.
LEMMA TickKeeps ==
  ASSUME IInv, Tick
  PROVE  IInv'
<1>1. /\ item' = [i \in Item |-> [item[i] EXCEPT !.age = Older(@)]]
      /\ orders' = {[o EXCEPT !.age = @ + 1] : o \in {p \in orders : p.age < Life}}
      /\ UNCHANGED <<eloop, ipc, reused>>
  BY DEF Tick
<1>2. \A j \in Item : /\ item'[j].viewer = item[j].viewer /\ item'[j].guaji = item[j].guaji
                      /\ item'[j].used = item[j].used /\ item'[j].switch = item[j].switch
                      /\ item'[j].age = Older(item[j].age) /\ item[j].age \in Nat
                      /\ item'[j] \in Entry
  <2> SUFFICES ASSUME NEW j \in Item
               PROVE  /\ item'[j].viewer = item[j].viewer /\ item'[j].guaji = item[j].guaji
                      /\ item'[j].used = item[j].used /\ item'[j].switch = item[j].switch
                      /\ item'[j].age = Older(item[j].age) /\ item[j].age \in Nat
                      /\ item'[j] \in Entry
    OBVIOUS
  <2>1. item[j] \in Entry /\ item'[j] = [item[j] EXCEPT !.age = Older(item[j].age)]
    BY <1>1 DEF IInv, TypesOK
  <2>2. item[j].age \in Nat /\ Older(item[j].age) \in Nat
    BY <2>1 DEF Entry, Older
  <2>3. QED
    BY <2>1, <2>2 DEF Entry
<1>3. TypesOK'
  BY <1>1, <1>2 DEF IInv, TypesOK
<1>4. ASSUME ~reused' PROVE Parts'
  <2>1. Parts /\ TypesOK
    BY <1>1, <1>4 DEF IInv
  <2>2. \A j \in Item : Written(j)' <=> Written(j) /\ item[j].age < Life
    BY <1>1, <1>2, LifeAndItems DEF Written, Live, Older
  <2>3. Current' = {j \in Current : item[j].age < Life}
    BY <1>1, <2>2 DEF Current
  <2>4. \A j \in Current' : OrderOf(j)' = [OrderOf(j) EXCEPT !.age = @ + 1]
    <3> SUFFICES ASSUME NEW j \in Current'
                 PROVE  OrderOf(j)' = [OrderOf(j) EXCEPT !.age = @ + 1]
      OBVIOUS
    <3>1. /\ item'[j].viewer = item[j].viewer /\ item'[j].guaji = item[j].guaji
          /\ item'[j].switch = item[j].switch /\ item'[j].age = item[j].age + 1
      BY <1>2, <2>3, LifeAndItems DEF Older, Current
    <3>2. QED
      BY <3>1 DEF OrderOf
  <2>5. TableTells'
    <3>1. {p \in orders : p.age < Life} = {OrderOf(j) : j \in {i \in Current : item[i].age < Life}}
      <4>1. orders = {OrderOf(j) : j \in Current}
        BY <2>1 DEF Parts, TableTells
      <4>2. \A j \in Current : OrderOf(j).age = item[j].age
        BY DEF OrderOf
      <4>3. QED
        BY <4>1, <4>2
    <3>2. orders' = {[OrderOf(j) EXCEPT !.age = @ + 1] : j \in Current'}
      BY <1>1, <2>3, <3>1
    <3>3. orders' = {OrderOf(j)' : j \in Current'}
      BY <2>4, <3>2
    <3>4. QED
      BY <3>3 DEF TableTells
  <2>6. EntriesDiffer'
    BY <1>2, <2>1, <2>2 DEF Parts, EntriesDiffer
  <2>7. ClaimOK'
    BY SMTT(30), <1>1, <1>2, <2>1, <2>2, ThreadTypes DEF Parts, ClaimOK
  <2>8. FoundOK'
    <3>1. ipc # Quiet => ipc.index \in Item
      BY <2>1, ThreadTypes
    <3>2. \A j \in Item : Live(j)' => Live(j)
      BY <1>2, LifeAndItems DEF Live, Older
    <3>3. ipc # Quiet /\ ipc.at # "look" => ipc.index # eloop.index
      BY <2>1, ThreadTypes DEF Parts, FoundOK
    <3>4. QED
      BY <1>1, <1>2, <2>1, <3>1, <3>2, <3>3, FoundKeeps DEF Parts
  <2>9. QED
    BY <2>5, <2>6, <2>7, <2>8 DEF Parts
<1>5. QED
  BY <1>3, <1>4 DEF IInv

-----------------------------------------------------------------------------
\* Initially the table is empty.
LEMMA InitIInv == Init => IInv
<1> SUFFICES ASSUME Init PROVE IInv
  OBVIOUS
<1>1. TypesOK
  BY LifeAndItems DEF Init, TypesOK, Entry, Peer
<1>2. \A i \in Item : ~Live(i)
  BY DEF Init, Live
<1>3. Parts
  BY <1>2 DEF Parts, TableTells, Current, Written, EntriesDiffer, ClaimOK, FoundOK, Init,
              Quiet
<1>4. QED
  BY <1>1, <1>3 DEF IInv

\* Every step keeps the invariant.
LEMMA StepKeepsIInv == IInv /\ [Next]_vars => IInv'
<1> SUFFICES ASSUME IInv, [Next]_vars PROVE IInv'
  OBVIOUS
<1>1. CASE UNCHANGED vars
  BY <1>1, TreeKeeps DEF vars
<1>2. CASE Tick \/ LookOn \/ LookExpired \/ Sweep \/ LookFinds \/ Fulfil \/ Switch
  BY <1>2, TickKeeps, LookOnKeeps, LookExpiredKeeps, SweepKeeps, LookFindsKeeps, FulfilKeeps,
     SwitchKeeps
<1>3. CASE \E v \in Viewer : Succeed(v) \/ Fail(v) \/ Break(v)
  BY <1>3, TreeKeeps DEF Succeed, Fail, Break
<1>4. CASE \E d \in Device : DeviceReport(d)
  BY <1>4, TreeKeeps DEF DeviceReport
<1>5. CASE \E g \in Guaji : GuajiReport(g)
  BY <1>5, TreeKeeps DEF GuajiReport
<1>6. CASE \E v \in Viewer : ServerEvent(v)
  BY <1>6, SearchKeeps DEF ServerEvent
<1>7. CASE \E d \in Device : Pass(d)
  BY <1>7, SearchKeeps DEF Pass
<1>8. CASE \E v \in Viewer, g \in Guaji : Claim(v, g)
  BY <1>8, ClaimKeeps
<1>9. CASE \E switch \in BOOLEAN : Order(switch)
  BY <1>9, OrderKeeps
<1>10. CASE \E v \in Viewer : Deliver(v)
  BY <1>10, DeliverKeeps
<1>11. QED
  BY <1>1, <1>2, <1>3, <1>4, <1>5, <1>6, <1>7, <1>8, <1>9, <1>10 DEF Next

\* Two orders are two entries.
LEMMA IInvExclusive == IInv => OrdersExclusive
<1> SUFFICES ASSUME IInv, ~reused, NEW o \in orders, NEW p \in orders, o # p
             PROVE  Owner[o.viewer] # Owner[p.viewer] /\ o.guaji # p.guaji
  BY DEF OrdersExclusive
<1>1. Parts
  BY DEF IInv
<1>2. PICK i \in Current, j \in Current : o = OrderOf(i) /\ p = OrderOf(j)
  BY <1>1 DEF Parts, TableTells
<1>3. i # j /\ i \in Item /\ j \in Item /\ Written(i) /\ Written(j)
  BY <1>2 DEF Current
<1>4. o.viewer = item[i].viewer /\ o.guaji = item[i].guaji
      /\ p.viewer = item[j].viewer /\ p.guaji = item[j].guaji
  BY <1>2 DEF OrderOf
<1>5. QED
  BY <1>1, <1>3, <1>4 DEF Parts, EntriesDiffer

LEMMA IInvSwitch == IInv => SwitchIsOfOrder
BY ThreadTypes DEF IInv, Parts, FoundOK, SwitchIsOfOrder, Quiet

\* Whatever the tree reports, loses or delays: as long as no entry was given away
\* while the IPC thread was at it, no device, viewer or guaji is under two orders.
THEOREM AlwaysExclusive == Spec => []OrdersExclusive
BY InitIInv, StepKeepsIInv, IInvExclusive, PTL DEF Spec

\* And the switch flag, read after its entry was freed, is that of the order.
THEOREM AlwaysSwitchOfOrder == Spec => []SwitchIsOfOrder
BY InitIInv, StepKeepsIInv, IInvSwitch, PTL DEF Spec
=============================================================================
