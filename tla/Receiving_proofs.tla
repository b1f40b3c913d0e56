--------------------------- MODULE Receiving_proofs ---------------------------
(* What holds of Receiving for every order, every number of receipts and every *)
(* number of receivers.                                                        *)
EXTENDS Receiving, StockRows_proofs

-----------------------------------------------------------------------------
(* The names of things                                                     *)

\* Items, remainders and the root are three kinds of travelers.
LEMMA TravelersAreApart ==
  /\ Root \in Travelers /\ Items \subseteq Travelers /\ Remainders \subseteq Travelers
  /\ Root \notin Items /\ Root \notin Remainders
  /\ \A i \in Items : i \notin Remainders
  /\ \A i \in Items : i = <<i[1], i[2]>> /\ i[1] \in Receipts /\ i[2] \in Lines
  /\ \A c \in Cases : c = <<c[1], c[2]>> /\ c[1] \in Items /\ c[2] \in Kinds
  /\ NoCase \notin Cases /\ Dock \notin Travelers
BY ReceivingAssumption, NullAssumption DEF Root, Travelers, Items, Remainders, Receipts, Cases, Kinds

\* A finite order, in a bounded number of receipts, brings finitely many items.
LEMMA ItemsAreFinite ==
  IsFiniteSet(Lines) /\ IsFiniteSet(Receipts) /\ IsFiniteSet(Items)
<1>1. IsFiniteSet(Lines)
  BY ReceivingAssumption
<1>2. IsFiniteSet(Receipts)
  BY ReceivingAssumption, FS_Interval DEF Receipts
<1>3. IsFiniteSet(Receipts \X Lines)
  BY <1>1, <1>2, FS_Product
<1> QED BY <1>1, <1>2, <1>3 DEF Items

-----------------------------------------------------------------------------
(* TypeOK                                                                  *)

Statuses == Open \cup {"NONE", "COMPLETE"}
InspStatuses == {"NONE", "PENDING", "PASSED", "FAILED"}

\* Bringing the root up to date keeps every traveler's status a status.
LEMMA ReconciledType ==
  ASSUME NEW s \in [Travelers -> Statuses], NEW rec
  PROVE  Reconciled(s, rec) \in [Travelers -> Statuses]
BY DEF Reconciled, Statuses, Open

\* So does marking the travelers of a row.
LEMMA MarkedType ==
  ASSUME status \in [Travelers -> Statuses], NEW r, NEW to \in Open
  PROVE  Marked(r, to) \in [Travelers -> Statuses]
<1> DEFINE children == {u \in Items : rowOf[u] = r /\ status[u] \in Markable}
           roots == {Root} \cap {owner[i[1]] : i \in On(r)}
           s == [u \in Travelers |->
              IF u \in children \cup roots /\ status[u] \in Markable
                   /\ ~(to = "IN_INSPECTION" /\ status[u] = "READY_TO_STOCK")
                THEN to ELSE status[u]]
<1>1. s \in [Travelers -> Statuses]
  BY DEF Statuses
<1>2. Marked(r, to) = s \/ Marked(r, to) = Reconciled(s, received)
  BY DEF Marked
<1> HIDE DEF s
<1> QED BY <1>1, <1>2, ReconciledType

\* What an inspection is followed by.
LEMMA SettleType ==
  ASSUME status \in [Travelers -> Statuses], NEW ins \in [Items -> [Kinds -> InspStatuses]],
         NEW r, Settle(ins, r)
  PROVE  /\ insp' \in [Items -> [Kinds -> InspStatuses]]
         /\ status' \in [Travelers -> Statuses]
<1>0. \A i \in On(r) : i \in Items
  BY DEF On
<1>1. \A i \in On(r) : [ins EXCEPT ![i]["FUNCTIONAL"] = "PENDING"] \in [Items -> [Kinds -> InspStatuses]]
  BY <1>0 DEF InspStatuses
<1>2. insp' \in [Items -> [Kinds -> InspStatuses]]
  BY <1>1 DEF Settle
<1>3. status' = status \/ status' = Marked(r, "IN_INSPECTION") \/ status' = Marked(r, "READY_TO_STOCK")
  BY DEF Settle
<1>4. "IN_INSPECTION" \in Open /\ "READY_TO_STOCK" \in Open
  BY DEF Open
<1> QED BY <1>2, <1>3, <1>4, MarkedType

\* Splitting or completing dock travelers keeps every status a status.
LEMMA SplitType ==
  ASSUME status \in [Travelers -> Statuses], NEW t, NEW n, NEW routed, NEW open,
         NEW s \in SplitTravelers(t, n, routed, open) \cup {SyncedTravelers}
  PROVE  s \in [Travelers -> Statuses]
<1> DEFINE marked == IF routed # {} THEN [status EXCEPT ![t] = "IN_INSPECTION"] ELSE status
           ended == IF t = Root \/ open THEN "PARTIAL" ELSE "COMPLETE"
           after(rem) == [u \in Travelers |->
                 IF u = t THEN ended
                 ELSE IF u \in {<<n, l>> : l \in routed} THEN "IN_INSPECTION"
                 ELSE IF u = rem THEN "WAITING" ELSE marked[u]]
<1>1. marked \in [Travelers -> Statuses] /\ ended \in Statuses
  BY DEF Statuses, Open
<1>2. s = SyncedTravelers \/ \E rem : s = after(rem)
  BY DEF SplitTravelers
<1>3. \A rem : after(rem) \in [Travelers -> Statuses]
  <2> HIDE DEF marked, ended
  <2> QED BY <1>1 DEF Statuses, Open
<1>4. SyncedTravelers \in [Travelers -> Statuses]
  BY DEF SyncedTravelers, Statuses, Open
<1> HIDE DEF after
<1> QED BY <1>2, <1>3, <1>4

\* Every quantity of an item is a number.
LEMMA RowFacts ==
  ASSUME NEW q \in Row, NEW n \in Nat, NEW c \in Cases
  PROVE  /\ OnShelf(q) \in Row /\ Quarantined(q, c) \in Row /\ NoRow \in Row
         /\ [place |-> "RECEIVING", onHand |-> Joined(q.onHand, n),
             avail |-> q.avail, hold |-> q.hold] \in Row
         /\ [place |-> q.place, onHand |-> 0, avail |-> 0, hold |-> NoCase] \in Row
BY DEF Row, OnShelf, Quarantined, NoRow, Joined

\* A running receipt has read quantities and was started at the dock.
LEMMA BeginType ==
  ASSUME TypeOK, NEW c \in Clerks, NEW t \in Travelers, BeginReceive(c, t)
  PROVE  TypeOK'
<1>1. PICK q \in [Lines -> UNION {0 .. Ordered[l] : l \in Lines}], d \in DockForms :
         call' = [call EXCEPT ![c] =
            [busy |-> TRUE, from |-> t, qty |-> q, seen |-> received, dock |-> d]]
  BY DEF BeginReceive
<1>2. q \in [Lines -> Nat]
  <2>1. \A l \in Lines : 0 .. Ordered[l] \subseteq Nat
    BY ReceivingAssumption
  <2> QED BY <2>1
<1>3. [busy |-> TRUE, from |-> t, qty |-> q, seen |-> received, dock |-> d]
        \in [busy : BOOLEAN, from : Travelers, qty : [Lines -> Nat],
             seen : [Lines -> Nat], dock : DockForms]
  BY <1>2 DEF TypeOK
<1>4. call' \in [Clerks -> [busy : BOOLEAN, from : Travelers, qty : [Lines -> Nat],
                            seen : [Lines -> Nat], dock : DockForms]]
  BY <1>1, <1>3 DEF TypeOK
<1> QED BY <1>4 DEF BeginReceive, TypeOK

\* What a receipt writes is of the types of the tables it writes.
LEMMA FinishType ==
  ASSUME TypeOK, NEW c \in Clerks, FinishReceive(c)
  PROVE  TypeOK'
<1> DEFINE k == call[c]
           n == last + 1
           came == {l \in Lines : k.qty[l] > 0}
           routed == {l \in came : Checks[l] # {}}
           rec == [l \in Lines |-> IF l \in came THEN NewQty(k, l) ELSE received[l]]
           open == \E l \in Lines : rec[l] < Ordered[l]
           joined(r) == [place |-> "RECEIVING", onHand |-> Joined(row[r].onHand, k.qty[r[2]]),
                         avail |-> row[r].avail, hold |-> row[r].hold]
<1>1. /\ k.qty \in [Lines -> Nat] /\ k.seen \in [Lines -> Nat] /\ k.from \in Travelers
      /\ n \in Receipts /\ n \in Nat
  BY ReceivingAssumption DEF TypeOK, FinishReceive, Receipts
<1>2. received' \in [Lines -> Nat] /\ receipt' \in [Receipts -> [Lines -> Nat]]
      /\ last' \in 0 .. MaxReceipts /\ po' \in {"ISSUED", "PARTIAL_RECEIPT", "RECEIVED", "CLOSED"}
  <2>1. received' = rec /\ receipt' = [receipt EXCEPT ![n] = k.qty] /\ last' = n
        /\ po' = IF open THEN "PARTIAL_RECEIPT" ELSE "RECEIVED"
    BY DEF FinishReceive
  <2>2. \A l \in Lines : NewQty(k, l) \in Nat
    BY <1>1 DEF NewQty
  <2>3. rec \in [Lines -> Nat]
    BY <2>2 DEF TypeOK
  <2>4. n \in 0 .. MaxReceipts
    BY <1>1, ReceivingAssumption DEF Receipts
  <2> HIDE DEF k, n, rec, open
  <2> QED BY <1>1, <2>1, <2>3, <2>4 DEF TypeOK
<1>3. rowOf' \in [Items -> Items] /\ row' \in [Items -> Row]
  <2>1. PICK into \in [came -> Items] :
         /\ rowOf' = [i \in Items |-> IF i[1] = n /\ i[2] \in came THEN into[i[2]] ELSE rowOf[i]]
         /\ row' = [r \in Items |->
            IF r[2] \in came /\ into[r[2]] = r
              THEN LET q == [place |-> "RECEIVING", onHand |-> Joined(row[r].onHand, k.qty[r[2]]),
                             avail |-> row[r].avail, hold |-> row[r].hold]
                   IN  IF r[2] \notin routed /\ k.dock = "placed" THEN OnShelf(q) ELSE q
              ELSE row[r]]
    BY DEF FinishReceive
  <2>2. rowOf' \in [Items -> Items]
    BY <2>1 DEF TypeOK
  <2>3. \A r \in Items : row[r] \in Row
    BY DEF TypeOK
  <2>4. \A r \in Items : r[2] \in Lines
    BY TravelersAreApart
  <2>5. \A r \in Items : joined(r) \in Row
    BY <1>1, <2>3, <2>4 DEF Row, Joined
  <2>6. \A r \in Items : OnShelf(joined(r)) \in Row
    <3> HIDE DEF joined
    <3> QED BY <2>5 DEF OnShelf, Row
  <2>7. row' = [r \in Items |->
            IF r[2] \in came /\ into[r[2]] = r
              THEN IF r[2] \notin routed /\ k.dock = "placed" THEN OnShelf(joined(r)) ELSE joined(r)
              ELSE row[r]]
    BY <2>1
  <2> HIDE DEF joined
  <2>8. row' \in [Items -> Row]
    BY <2>3, <2>5, <2>6, <2>7
  <2> QED BY <2>2, <2>8
<1>4. insp' \in [Items -> [Kinds -> InspStatuses]]
  <2>1. insp' = [i \in Items |->
       IF i[1] = n /\ i[2] \in came THEN Opened(i[2], k.dock) ELSE insp[i]]
    BY DEF FinishReceive
  <2>2. \A l, d : Opened(l, d) \in [Kinds -> InspStatuses]
    BY DEF Opened, InspStatuses
  <2>3. \A i \in Items : insp[i] \in [Kinds -> InspStatuses]
    BY DEF TypeOK, InspStatuses
  <2> QED BY <2>1, <2>2, <2>3
<1>5. status' \in [Travelers -> Statuses]
  <2>1. status' \in SplitTravelers(k.from, n, routed, open) \cup {SyncedTravelers}
    BY DEF FinishReceive
  <2>2. status \in [Travelers -> Statuses]
    BY DEF TypeOK, Statuses
  <2> HIDE DEF k, n, routed, open
  <2> QED BY <2>1, <2>2, SplitType
<1>6. owner' \in [Receipts -> Travelers]
  <2>1. PICK o \in IF routed = {} THEN {k.from} ELSE FirstChildren(n, routed) :
         owner' = [owner EXCEPT ![n] = o]
    BY DEF FinishReceive
  <2>2. \A l \in Lines : <<n, l>> \in Travelers
    BY <1>1, TravelersAreApart DEF Items
  <2>3. o \in Travelers
    BY <1>1, <2>2 DEF FirstChildren
  <2> QED BY <2>1, <2>3 DEF TypeOK
<1>7. call' \in [Clerks -> [busy : BOOLEAN, from : Travelers, qty : [Lines -> Nat],
                            seen : [Lines -> Nat], dock : DockForms]]
  <2>1. Idle \in [busy : BOOLEAN, from : Travelers, qty : [Lines -> Nat],
                  seen : [Lines -> Nat], dock : DockForms]
    BY TravelersAreApart DEF Idle, Nothing, DockForms
  <2>2. call' = [call EXCEPT ![c] = Idle]
    BY DEF FinishReceive
  <2> QED BY <2>1, <2>2 DEF TypeOK
<1>8. mrb' = mrb /\ gone' = gone
  BY DEF FinishReceive
<1> HIDE DEF k, n, came, routed, rec, open
<1> QED BY <1>2, <1>3, <1>4, <1>5, <1>6, <1>7, <1>8 DEF TypeOK, Statuses, InspStatuses

\* The board counts what it scraps or returns; there is a number of it.
LEMMA DispositionType ==
  ASSUME TypeOK, NEW c \in Cases, NEW d \in Dispositions, Disposition(c, d)
  PROVE  TypeOK'
<1> DEFINE held == {r \in Items : row[r].hold = c}
           lost == IF d \in {"SCRAP", "RETURN_TO_SUPPLIER"} THEN held ELSE {}
           f == [r \in lost |-> row[r].onHand]
<1>1. /\ mrb' = [mrb EXCEPT ![c] = d]
      /\ row' = [r \in Items |->
           IF r \in lost THEN [place |-> row[r].place, onHand |-> 0, avail |-> 0, hold |-> NoCase]
           ELSE IF r \in held /\ d \in Freed(d) THEN OnShelf(row[r]) ELSE row[r]]
      /\ gone' = gone + SumFunction(f)
      /\ UNCHANGED <<dockVars, insp, status>>
  BY DEF Disposition
<1>2. \A r \in Items : row[r] \in Row
  BY DEF TypeOK
<1>3. row' \in [Items -> Row]
  <2>1. \A r \in Items : OnShelf(row[r]) \in Row
        /\ [place |-> row[r].place, onHand |-> 0, avail |-> 0, hold |-> NoCase] \in Row
    BY <1>2 DEF OnShelf, Row
  <2> HIDE DEF held, lost
  <2> QED BY <1>1, <1>2, <2>1
<1>4. SumFunction(f) \in Nat
  <2>1. IsFiniteSet(lost) /\ DOMAIN f = lost /\ \A r \in lost : f[r] \in Nat
    BY <1>2, ItemsAreFinite, FS_Subset DEF Row
  <2> HIDE DEF f, lost
  <2> QED BY <2>1, SumOfNat DEF SumFunction
<1>5. gone' \in Nat /\ mrb' \in [Cases -> Dispositions \cup {"NONE", "OPEN"}]
  BY <1>1, <1>4 DEF TypeOK
<1> QED BY <1>1, <1>3, <1>5 DEF TypeOK, dockVars

\* The other steps of QA, the dock and the buyer.
LEMMA OtherType ==
  ASSUME TypeOK,
         \/ \E i \in Items, k \in Kinds : PassInspection(i, k) \/ FailInspection(i, k)
         \/ \E i \in Items : AttestDock(i)
         \/ \E t \in Travelers : CompletePutaway(t)
         \/ PutAwayAllReceiving \/ ShowRoot \/ ClosePo
  PROVE  TypeOK'
<1>0. /\ status \in [Travelers -> Statuses] /\ insp \in [Items -> [Kinds -> InspStatuses]]
      /\ \A r \in Items : row[r] \in Row
  BY DEF TypeOK, Statuses, InspStatuses
<1>1. ASSUME NEW i \in Items, NEW k \in Kinds,
             Settle([insp EXCEPT ![i][k] = "PASSED"], rowOf[i]),
             UNCHANGED <<dockVars, row, mrb, gone>>
      PROVE  TypeOK'
  <2>1. [insp EXCEPT ![i][k] = "PASSED"] \in [Items -> [Kinds -> InspStatuses]]
    BY <1>0 DEF InspStatuses
  <2>2. insp' \in [Items -> [Kinds -> InspStatuses]] /\ status' \in [Travelers -> Statuses]
    BY <1>0, <1>1, <2>1, SettleType
  <2> QED BY <1>1, <2>2 DEF TypeOK, dockVars, Statuses, InspStatuses
<1>2. ASSUME NEW i \in Items, NEW k \in Kinds, FailInspection(i, k)
      PROVE  TypeOK'
  <2>1. <<i, k>> \in Cases /\ rowOf[i] \in Items
    BY DEF Cases, TypeOK
  <2>2. Quarantined(row[rowOf[i]], <<i, k>>) \in Row
    BY <1>0, <2>1, RowFacts
  <2>3. insp' \in [Items -> [Kinds -> InspStatuses]] /\ row' \in [Items -> Row]
        /\ mrb' \in [Cases -> Dispositions \cup {"NONE", "OPEN"}]
    BY <1>0, <1>2, <2>1, <2>2 DEF FailInspection, TypeOK, InspStatuses
  <2> QED BY <1>2, <2>3 DEF FailInspection, TypeOK, dockVars, InspStatuses
<1>3. ASSUME NEW t \in Travelers, CompletePutaway(t)
      PROVE  TypeOK'
  <2>1. status' \in [Travelers -> Statuses]
    <3>1. [status EXCEPT ![t] = "COMPLETE"] \in [Travelers -> Statuses]
      BY <1>0 DEF Statuses
    <3>2. status' = status \/ status' = Reconciled([status EXCEPT ![t] = "COMPLETE"], received)
      BY <1>3 DEF CompletePutaway
    <3> QED BY <1>0, <3>1, <3>2, ReconciledType
  <2>2. PICK done : row' = [r \in Items |-> IF r \in done THEN OnShelf(row[r]) ELSE row[r]]
    BY <1>3 DEF CompletePutaway
  <2>3. row' \in [Items -> Row]
    BY <1>0, <2>2 DEF OnShelf, Row
  <2> QED BY <1>3, <2>1, <2>3 DEF CompletePutaway, TypeOK, dockVars, Statuses
<1>4. ASSUME PutAwayAllReceiving PROVE TypeOK'
  <2>1. row' \in [Items -> Row]
    BY <1>0, <1>4 DEF PutAwayAllReceiving, OnShelf, Row
  <2> QED BY <1>4, <2>1 DEF PutAwayAllReceiving, TypeOK, dockVars
<1>5. ASSUME ShowRoot PROVE TypeOK'
  <2>1. status' \in [Travelers -> Statuses]
    BY <1>0, <1>5, ReconciledType DEF ShowRoot
  <2> QED BY <1>5, <2>1 DEF ShowRoot, TypeOK, dockVars, Statuses
<1>6. ASSUME ClosePo PROVE TypeOK'
  BY <1>6 DEF ClosePo, TypeOK
<1>7. "RECEIVING" \in Kinds
  BY DEF Kinds
<1> QED BY <1>1, <1>2, <1>3, <1>4, <1>5, <1>6, <1>7 DEF PassInspection, AttestDock

\* Every table keeps its type, whatever the order and however many receive at once.
THEOREM TypeCorrect == Spec => []TypeOK
<1>1. Init => TypeOK
  <2> SUFFICES ASSUME Init PROVE TypeOK
    OBVIOUS
  <2>1. /\ Nothing \in [Lines -> Nat] /\ NoRow \in Row
        /\ Idle \in [busy : BOOLEAN, from : Travelers, qty : [Lines -> Nat],
                     seen : [Lines -> Nat], dock : DockForms]
    BY TravelersAreApart DEF Idle, Nothing, DockForms, NoRow, Row
  <2> QED BY <2>1, ReceivingAssumption, TravelersAreApart DEF Init, TypeOK, Open
<1>2. TypeOK /\ [Next]_vars => TypeOK'
  <2> SUFFICES ASSUME TypeOK, [Next]_vars PROVE TypeOK'
    OBVIOUS
  <2>1. CASE UNCHANGED vars
    BY <2>1 DEF vars, TypeOK
  <2>2. CASE Next
    BY <2>2, BeginType, FinishType, DispositionType, OtherType DEF Next
  <2> QED BY <2>1, <2>2
<1> QED BY <1>1, <1>2, PTL DEF Spec

-----------------------------------------------------------------------------
(* What is not there yet                                                   *)

\* Nothing of a receipt to come is in any table, and what has come is on a row of a
\* receipt that has come.
FreshInv ==
  /\ \A c \in Clerks : call[c].from \notin Items
  /\ \A i \in Items :
       IF i[1] > last
         THEN /\ receipt[i[1]][i[2]] = 0 /\ row[i] = NoRow /\ rowOf[i] = i
              /\ status[i] = "NONE" /\ \A k \in Kinds : insp[i][k] = "NONE"
         ELSE rowOf[i][1] <= last

\* What bringing the root up to date and marking a row do to an item's traveler.
LEMMA ReconciledItems ==
  ASSUME NEW s \in [Travelers -> Statuses], NEW rec, NEW i \in Items
  PROVE  Reconciled(s, rec)[i] = s[i]
BY TravelersAreApart DEF Reconciled

LEMMA MarkedItems ==
  ASSUME status \in [Travelers -> Statuses], NEW r, NEW to \in Open, NEW i \in Items
  PROVE  Marked(r, to)[i] =
           IF rowOf[i] = r /\ status[i] \in Open /\ ~(to = "IN_INSPECTION" /\ status[i] = "READY_TO_STOCK")
             THEN to ELSE status[i]
<1> DEFINE children == {u \in Items : rowOf[u] = r /\ status[u] \in Markable}
           roots == {Root} \cap {owner[j[1]] : j \in On(r)}
           s == [u \in Travelers |->
              IF u \in children \cup roots /\ status[u] \in Markable
                   /\ ~(to = "IN_INSPECTION" /\ status[u] = "READY_TO_STOCK")
                THEN to ELSE status[u]]
<1>1. s \in [Travelers -> Statuses]
  BY DEF Statuses
<1>2. s[i] = IF rowOf[i] = r /\ status[i] \in Open /\ ~(to = "IN_INSPECTION" /\ status[i] = "READY_TO_STOCK")
             THEN to ELSE status[i]
  BY TravelersAreApart DEF Markable
<1>3. Marked(r, to) = s \/ Marked(r, to) = Reconciled(s, received)
  BY DEF Marked
<1> HIDE DEF s
<1> QED BY <1>1, <1>2, <1>3, ReconciledItems

\* Completing dock travelers leaves the travelers of items alone.
LEMMA SyncedItems ==
  ASSUME NEW i \in Items PROVE SyncedTravelers[i] = status[i]
BY TravelersAreApart DEF SyncedTravelers

\* A split sends the items it routes to inspection, and no other.
LEMMA SplitItems ==
  ASSUME NEW t \in Travelers, NEW n \in Receipts, NEW routed, NEW open,
         NEW s \in SplitTravelers(t, n, routed, open), NEW i \in Items,
         status \in [Travelers -> Statuses], t \notin Items
  PROVE  s[i] = IF i[1] = n /\ i[2] \in routed THEN "IN_INSPECTION" ELSE status[i]
<1> DEFINE marked == IF routed # {} THEN [status EXCEPT ![t] = "IN_INSPECTION"] ELSE status
           ended == IF t = Root \/ open THEN "PARTIAL" ELSE "COMPLETE"
           waiting == {u \in Remainders : marked[u] \in {"WAITING", "PARTIAL"}}
           rems == IF ~open THEN {Dock} ELSE IF waiting = {} THEN {<<n, Dock>>} ELSE waiting
           after(rem) == [u \in Travelers |->
                 IF u = t THEN ended
                 ELSE IF u \in {<<n, l>> : l \in routed} THEN "IN_INSPECTION"
                 ELSE IF u = rem THEN "WAITING" ELSE marked[u]]
<1>0. i \in Travelers /\ i # t
  BY TravelersAreApart
<1>1. marked[i] = status[i]
  BY <1>0
<1>2. \E rem \in rems : s = after(rem)
  BY DEF SplitTravelers
<1>3. \A rem \in rems : rem # i
  <2>1. Dock # i /\ \A u \in Remainders : u # i
    BY <1>0, TravelersAreApart
  <2>2. <<n, Dock>> \in Remainders
    BY DEF Remainders
  <2> QED BY <2>1, <2>2
<1>4. ASSUME NEW rem \in rems
      PROVE  after(rem)[i] = IF i \in {<<n, l>> : l \in routed} THEN "IN_INSPECTION" ELSE status[i]
  <2> HIDE DEF marked, rems, ended
  <2> QED BY <1>0, <1>1, <1>3
<1>5. i \in {<<n, l>> : l \in routed} <=> i[1] = n /\ i[2] \in routed
  BY TravelersAreApart
<1> HIDE DEF after, rems
<1> QED BY <1>2, <1>4, <1>5

\* What a receipt writes, with the row that each line goes to.
WrittenInto(c, into) ==
  LET k == call[c]  n == last + 1  came == {l \in Lines : k.qty[l] > 0}
  IN
  /\ n \in Receipts /\ n \in Nat /\ last' = n /\ k.qty \in [Lines -> Nat]
  /\ k.from \in Travelers /\ k.from \notin Items
  /\ receipt' = [receipt EXCEPT ![n] = k.qty]
  /\ into \in [came -> Items]
  /\ \A l \in came : /\ into[l] \in DockRows(n, l)
                     /\ into[l][2] = l /\ into[l][1] <= n
                     /\ into[l] = <<n, l>> \/ row[into[l]].place = "RECEIVING"
  /\ rowOf' = [i \in Items |-> IF i[1] = n /\ i[2] \in came THEN into[i[2]] ELSE rowOf[i]]
  /\ \A r \in Items :
       IF r[2] \in came /\ into[r[2]] = r
         THEN /\ row'[r].onHand = row[r].onHand + k.qty[r[2]]
              /\ IF Checks[r[2]] = {} /\ k.dock = "placed"
                   THEN row'[r].place = "STORAGE" /\ row'[r].hold = NoCase
                        /\ row'[r].avail = row'[r].onHand
                   ELSE row'[r].place = "RECEIVING" /\ row'[r].hold = row[r].hold
                        /\ row'[r].avail = row[r].avail
         ELSE row'[r] = row[r]

\* The items of a receipt that is being written, and the rows it may write.
LEMMA FinishFacts ==
  ASSUME TypeOK, FreshInv, NEW c \in Clerks, FinishReceive(c)
  PROVE  \E into : WrittenInto(c, into)
<1> DEFINE k == call[c]
           n == last + 1
           came == {l \in Lines : k.qty[l] > 0}
           routed == {l \in came : Checks[l] # {}}
<1>1. PICK into \in [came -> Items] :
         /\ \A l \in came : into[l] \in DockRows(n, l)
         /\ rowOf' = [i \in Items |-> IF i[1] = n /\ i[2] \in came THEN into[i[2]] ELSE rowOf[i]]
         /\ row' = [r \in Items |->
            IF r[2] \in came /\ into[r[2]] = r
              THEN LET q == [place |-> "RECEIVING", onHand |-> Joined(row[r].onHand, k.qty[r[2]]),
                             avail |-> row[r].avail, hold |-> row[r].hold]
                   IN  IF r[2] \notin routed /\ k.dock = "placed" THEN OnShelf(q) ELSE q
              ELSE row[r]]
  BY DEF FinishReceive
<1>2. /\ n \in Receipts /\ n \in Nat /\ last' = n /\ k.qty \in [Lines -> Nat]
      /\ k.from \in Travelers /\ k.from \notin Items /\ receipt' = [receipt EXCEPT ![n] = k.qty]
  BY ReceivingAssumption DEF TypeOK, FinishReceive, Receipts, FreshInv
<1>3. ASSUME NEW l \in came
      PROVE  /\ into[l][2] = l /\ into[l][1] <= n
             /\ into[l] = <<n, l>> \/ row[into[l]].place = "RECEIVING"
  <2>1. CASE into[l] = <<n, l>>
    BY <1>2, <2>1
  <2>2. CASE into[l] # <<n, l>>
    <3>1. into[l] \in Items /\ into[l][2] = l /\ row[into[l]].place = "RECEIVING"
      BY <1>1, <2>2 DEF DockRows
    <3>2. ~(into[l][1] > last)
      BY <3>1 DEF FreshInv, NoRow
    <3>3. into[l][1] \in Nat /\ last \in Nat
      BY <3>1, TravelersAreApart, ReceivingAssumption DEF TypeOK, Receipts
    <3> QED BY <3>1, <3>2, <3>3
  <2> QED BY <2>1, <2>2
<1>4. ASSUME NEW r \in Items
      PROVE  IF r[2] \in came /\ into[r[2]] = r
                  THEN /\ row'[r].onHand = row[r].onHand + k.qty[r[2]]
                       /\ IF Checks[r[2]] = {} /\ k.dock = "placed"
                            THEN row'[r].place = "STORAGE" /\ row'[r].hold = NoCase
                                 /\ row'[r].avail = row'[r].onHand
                            ELSE row'[r].place = "RECEIVING" /\ row'[r].hold = row[r].hold
                                 /\ row'[r].avail = row[r].avail
                  ELSE row'[r] = row[r]
  <2>1. r[2] \in came => (r[2] \in routed <=> Checks[r[2]] # {})
    OBVIOUS
  <2> HIDE DEF k, n, came, routed
  <2> QED BY <1>1, <2>1 DEF Joined, OnShelf
<1>5. WrittenInto(c, into)
  BY <1>1, <1>2, <1>3, <1>4 DEF WrittenInto
<1> QED BY <1>5

\* A receipt fills in one more number and leaves the later ones alone.
LEMMA FinishFresh ==
  ASSUME TypeOK, FreshInv, NEW c \in Clerks, FinishReceive(c)
  PROVE  FreshInv'
<1> DEFINE k == call[c]
           n == last + 1
           came == {l \in Lines : k.qty[l] > 0}
           routed == {l \in came : Checks[l] # {}}
           rec == [l \in Lines |-> IF l \in came THEN NewQty(k, l) ELSE received[l]]
           open == \E l \in Lines : rec[l] < Ordered[l]
<1>0. PICK into : WrittenInto(c, into)
  BY FinishFacts
<1>1. /\ n \in Receipts /\ n \in Nat /\ last' = n /\ k.qty \in [Lines -> Nat]
      /\ k.from \in Travelers /\ k.from \notin Items
      /\ receipt' = [receipt EXCEPT ![n] = k.qty]
      /\ into \in [came -> Items]
      /\ \A l \in came : into[l][2] = l /\ into[l][1] <= n
      /\ rowOf' = [i \in Items |-> IF i[1] = n /\ i[2] \in came THEN into[i[2]] ELSE rowOf[i]]
      /\ \A r \in Items : ~(r[2] \in came /\ into[r[2]] = r) => row'[r] = row[r]
  BY <1>0 DEF WrittenInto
<1>2. /\ insp' = [i \in Items |->
            IF i[1] = n /\ i[2] \in came THEN Opened(i[2], k.dock) ELSE insp[i]]
      /\ status' \in SplitTravelers(k.from, n, routed, open) \cup {SyncedTravelers}
      /\ call' = [call EXCEPT ![c] = Idle]
  BY DEF FinishReceive
<1>3. \A d \in Clerks : call'[d].from \notin Items
  BY <1>2, TravelersAreApart DEF FreshInv, TypeOK, Idle
<1>4. ASSUME NEW i \in Items
      PROVE  IF i[1] > n
         THEN /\ receipt'[i[1]][i[2]] = 0 /\ row'[i] = NoRow /\ rowOf'[i] = i
              /\ status'[i] = "NONE" /\ \A j \in Kinds : insp'[i][j] = "NONE"
         ELSE rowOf'[i][1] <= n
  <2>0. /\ i[1] \in Nat /\ i[2] \in Lines /\ last \in Nat /\ rowOf[i] \in Items /\ i[1] \in Receipts
        /\ \A r \in Items : r[1] \in Nat
    BY TravelersAreApart, ReceivingAssumption DEF TypeOK, Receipts
  <2>1. CASE i[1] > n
    <3>1. i[1] > last /\ i[1] # n
      BY <1>1, <2>0, <2>1
    <3>2. receipt[i[1]][i[2]] = 0 /\ row[i] = NoRow /\ rowOf[i] = i
          /\ status[i] = "NONE" /\ \A j \in Kinds : insp[i][j] = "NONE"
      BY <3>1 DEF FreshInv
    <3>3. ~(i[2] \in came /\ into[i[2]] = i)
      BY <1>1, <2>0, <2>1
    <3>4. receipt'[i[1]] = receipt[i[1]]
      BY <1>1, <2>0, <3>1 DEF TypeOK
    <3>5. status'[i] = "NONE"
      <4>1. status \in [Travelers -> Statuses]
        BY DEF TypeOK, Statuses
      <4>3. k.from \in Travelers /\ k.from \notin Items /\ n \in Receipts
            /\ (status' \in SplitTravelers(k.from, n, routed, open) \/ status' = SyncedTravelers)
        BY <1>1, <1>2
      <4> HIDE DEF k, n, routed, open
      <4>4. \/ status'[i] = status[i]
            \/ status'[i] = "IN_INSPECTION" /\ i[1] = n /\ i[2] \in routed
        BY <4>1, <4>3, SplitItems, SyncedItems
      <4> QED BY <3>1, <3>2, <4>4
    <3> HIDE DEF k, n, came
    <3> QED BY <1>1, <1>2, <2>0, <2>1, <3>1, <3>2, <3>3, <3>4, <3>5
  <2>2. CASE ~(i[1] > n)
    <3>1. CASE i[1] = n /\ i[2] \in came
      BY <1>1, <2>2, <3>1
    <3>2. CASE i[1] = n /\ i[2] \notin came
      <4>1. rowOf'[i] = rowOf[i] /\ i[1] > last
        BY <1>1, <2>0, <3>2
      <4>2. rowOf[i] = i
        BY <4>1 DEF FreshInv
      <4> QED BY <1>1, <2>0, <3>2, <4>1, <4>2
    <3>3. CASE i[1] # n
      <4>1. ~(i[1] > last) /\ rowOf'[i] = rowOf[i]
        BY <1>1, <2>0, <2>2, <3>3
      <4>2. rowOf[i][1] <= last
        BY <4>1 DEF FreshInv
      <4>3. rowOf[i][1] <= n
        BY <2>0, <4>2
      <4> QED BY <2>2, <4>1, <4>3
    <3> QED BY <3>1, <3>2, <3>3
  <2> QED BY <2>1, <2>2
<1>5. last' = n
  BY <1>1
<1> HIDE DEF n
<1> QED BY <1>3, <1>4, <1>5 DEF FreshInv

\* What follows an inspection touches no item but those of the row.
LEMMA SettleFacts ==
  ASSUME TypeOK, NEW i \in Items, NEW k \in Kinds,
         Settle([insp EXCEPT ![i][k] = "PASSED"], rowOf[i]), NEW j \in Items
  PROVE  /\ insp'[j] = insp[j] \/ j = i \/ Arrived(j)
         /\ status'[j] = status[j] \/ status[j] \in Open
<1> DEFINE ins == [insp EXCEPT ![i][k] = "PASSED"]
<1>1. status \in [Travelers -> Statuses]
  BY DEF TypeOK, Statuses
<1>2. ins[j] = insp[j] \/ j = i
  BY DEF TypeOK
<1>3. "IN_INSPECTION" \in Open /\ "READY_TO_STOCK" \in Open
  BY DEF Open
<1>4. ins \in [Items -> [Kinds -> InspStatuses]]
  BY DEF TypeOK, InspStatuses
<1> HIDE DEF ins
<1>5. Settle(ins, rowOf[i])
  BY DEF ins
<1>6. insp'[j] = ins[j] \/ Arrived(j)
  BY <1>4, <1>5 DEF Settle, On
<1>7. status'[j] = status[j] \/ status'[j] = Marked(rowOf[i], "IN_INSPECTION")[j]
      \/ status'[j] = Marked(rowOf[i], "READY_TO_STOCK")[j]
  BY <1>5 DEF Settle
<1> QED BY <1>1, <1>2, <1>3, <1>6, <1>7, MarkedItems

\* No other step reaches what is not there yet.
LEMMA OtherFresh ==
  ASSUME TypeOK, FreshInv,
         \/ \E c \in Clerks, t \in Travelers : BeginReceive(c, t)
         \/ \E i \in Items, k \in Kinds : PassInspection(i, k) \/ FailInspection(i, k)
         \/ \E i \in Items : AttestDock(i)
         \/ \E c \in Cases, d \in Dispositions : Disposition(c, d)
         \/ \E t \in Travelers : CompletePutaway(t)
         \/ PutAwayAllReceiving \/ ShowRoot \/ ClosePo
  PROVE  FreshInv'
<1>0. status \in [Travelers -> Statuses]
  BY DEF TypeOK, Statuses
<1>a. \A i \in Items : i[1] \in Nat /\ last \in Nat /\ rowOf[i] \in Items /\ rowOf[i][1] \in Nat
  BY TravelersAreApart, ReceivingAssumption DEF TypeOK, Receipts
<1>1. ASSUME NEW c \in Clerks, NEW t \in Travelers, BeginReceive(c, t)
      PROVE  FreshInv'
  <2>1. t \notin Items
    BY <1>1, TravelersAreApart DEF BeginReceive, CanReceive
  <2>2. \A d \in Clerks : call'[d].from \notin Items
    BY <1>1, <2>1 DEF BeginReceive, FreshInv, TypeOK
  <2> QED BY <1>1, <2>2 DEF BeginReceive, FreshInv
<1>2. ASSUME NEW i \in Items, NEW k \in Kinds, insp[i][k] = "PENDING",
             Settle([insp EXCEPT ![i][k] = "PASSED"], rowOf[i]),
             UNCHANGED <<dockVars, row, mrb, gone>>
      PROVE  FreshInv'
  <2>1. \A j \in Items : j[1] > last => j # i /\ ~Arrived(j) /\ status[j] \notin Open
    BY <1>2 DEF FreshInv, Arrived, Open
  <2>2. \A j \in Items : j[1] > last => insp'[j] = insp[j] /\ status'[j] = status[j]
    BY <1>2, <2>1, SettleFacts
  <2> QED BY <1>2, <2>2 DEF FreshInv, dockVars
<1>3. ASSUME NEW i \in Items, NEW k \in Kinds, FailInspection(i, k)
      PROVE  FreshInv'
  <2>1. ~(i[1] > last)
    BY <1>3 DEF FailInspection, FreshInv
  <2>2. rowOf[i][1] <= last
    BY <2>1 DEF FreshInv
  <2>3. \A j \in Items : j[1] > last => j # i /\ j # rowOf[i]
    BY <1>a, <2>1, <2>2
  <2>4. \A j \in Items : j[1] > last => insp'[j] = insp[j] /\ row'[j] = row[j]
    BY <1>3, <1>a, <2>3 DEF FailInspection, TypeOK
  <2> QED BY <1>3, <2>4 DEF FailInspection, FreshInv, dockVars
<1>4. ASSUME NEW c \in Cases, NEW d \in Dispositions, Disposition(c, d)
      PROVE  FreshInv'
  <2>1. \A j \in Items : row[j] = NoRow => row[j].hold # c
    BY TravelersAreApart DEF NoRow
  <2>2. \A j \in Items : j[1] > last => row'[j] = row[j]
    BY <1>4, <2>1 DEF FreshInv, Disposition
  <2> QED BY <1>4, <2>2 DEF Disposition, FreshInv, dockVars
<1>5. ASSUME NEW t \in Travelers, CompletePutaway(t)
      PROVE  FreshInv'
  <2>1. ASSUME NEW r \in RowsToShelve(t) PROVE r \in Items => ~(r[1] > last)
    <3>1. PICK i \in Items : r = rowOf[i] /\ (Arrived(i) \/ i = t)
      BY <2>1 DEF RowsToShelve
    <3>2. ~(i[1] > last)
      BY <1>5, <3>1 DEF FreshInv, Arrived, CompletePutaway, Stockable
    <3> QED BY <1>a, <3>1, <3>2 DEF FreshInv
  <2>2. PICK done \in SUBSET RowsToShelve(t) :
           row' = [r \in Items |-> IF r \in done THEN OnShelf(row[r]) ELSE row[r]]
    BY <1>5 DEF CompletePutaway
  <2>3. \A j \in Items : j[1] > last => row'[j] = row[j]
    BY <2>1, <2>2
  <2>4. \A j \in Items : j[1] > last => status'[j] = status[j]
    <3>1. [status EXCEPT ![t] = "COMPLETE"] \in [Travelers -> Statuses]
      BY <1>0 DEF Statuses
    <3>2. \A j \in Items : j[1] > last => j # t
      BY <1>5 DEF FreshInv, CompletePutaway, Stockable
    <3>3. \A j \in Items : status'[j] = status[j] \/ status'[j] = [status EXCEPT ![t] = "COMPLETE"][j]
      BY <1>5, <3>1, ReconciledItems DEF CompletePutaway
    <3> QED BY <1>0, <3>2, <3>3
  <2> QED BY <1>5, <2>3, <2>4 DEF CompletePutaway, FreshInv, dockVars
<1>6. ASSUME PutAwayAllReceiving PROVE FreshInv'
  <2>1. \A j \in Items : j[1] > last => row'[j] = row[j]
    BY <1>6 DEF PutAwayAllReceiving, FreshInv, NoRow
  <2> QED BY <1>6, <2>1 DEF PutAwayAllReceiving, FreshInv, dockVars
<1>7. ASSUME ShowRoot PROVE FreshInv'
  <2>1. \A j \in Items : status'[j] = status[j]
    BY <1>0, <1>7, ReconciledItems DEF ShowRoot
  <2> QED BY <1>7, <2>1 DEF ShowRoot, FreshInv, dockVars
<1>8. ASSUME ClosePo PROVE FreshInv'
  BY <1>8 DEF ClosePo, FreshInv
<1>9. "RECEIVING" \in Kinds
  BY DEF Kinds
<1> QED BY <1>1, <1>2, <1>3, <1>4, <1>5, <1>6, <1>7, <1>8, <1>9 DEF PassInspection, AttestDock

\* The tables hold nothing of what has not arrived.
THEOREM NothingEarly == Spec => []FreshInv
<1>1. Init => FreshInv
  <2> SUFFICES ASSUME Init PROVE FreshInv
    OBVIOUS
  <2>1. \A i \in Items : i[1] > last /\ i[1] \in Receipts /\ i[2] \in Lines
    BY TravelersAreApart, ReceivingAssumption DEF Init, Receipts
  <2> QED BY <2>1, TravelersAreApart DEF Init, FreshInv, Idle, Nothing
<1>2. TypeOK /\ FreshInv /\ [Next]_vars => FreshInv'
  <2> SUFFICES ASSUME TypeOK, FreshInv, [Next]_vars PROVE FreshInv'
    OBVIOUS
  <2>1. CASE UNCHANGED vars
    BY <2>1 DEF vars, FreshInv
  <2>2. CASE Next
    BY <2>2, FinishFresh, OtherFresh DEF Next
  <2> QED BY <2>1, <2>2
<1> QED BY <1>1, <1>2, TypeCorrect, PTL DEF Spec

-----------------------------------------------------------------------------
(* CageHolds                                                               *)

\* What is at the dock is not held: what fails there goes to the cage at once.
CageInv == \A r \in Items : row[r].place = "RECEIVING" => row[r].hold = NoCase

\* A row that a receipt joins, or makes, is not held.
LEMMA WrittenIsFree ==
  ASSUME TypeOK, FreshInv, CageInv, NEW c \in Clerks, NEW into, WrittenInto(c, into),
         NEW r \in Items, row'[r] # row[r]
  PROVE  row[r].hold = NoCase /\ row'[r].hold = NoCase
<1> DEFINE n == last + 1
<1>1. r[2] \in {l \in Lines : call[c].qty[l] > 0} /\ into[r[2]] = r
  BY DEF WrittenInto
<1>2. r = <<n, r[2]>> \/ row[r].place = "RECEIVING"
  BY <1>1 DEF WrittenInto
<1>3. r = <<n, r[2]>> => row[r] = NoRow
  <2>1. n \in Nat /\ last \in Nat /\ n > last
    BY ReceivingAssumption DEF TypeOK
  <2>2. r = <<n, r[2]>> => r[1] > last
    BY <2>1
  <2> QED BY <2>2 DEF FreshInv
<1>4. row[r].hold = NoCase
  BY <1>2, <1>3 DEF CageInv, NoRow
<1>5. row'[r].hold = NoCase \/ row'[r].hold = row[r].hold
  BY <1>1 DEF WrittenInto
<1> QED BY <1>4, <1>5

\* What a step may do to what is held, and to what is at the dock.
Caged(r) ==
  /\ row'[r].place = "RECEIVING" => row'[r].hold = NoCase
  /\ row[r].hold # NoCase /\ row'[r].hold # row[r].hold =>
       \/ row'[r].place = "QUARANTINE" /\ row'[r].hold # NoCase
       \/ mrb[row[r].hold] = "OPEN" /\ mrb'[row[r].hold] # "OPEN"

\* Every step of receiving respects the cage.
LEMMA StepCages ==
  ASSUME TypeOK, FreshInv, CageInv, [Next]_vars, NEW r \in Items
  PROVE  Caged(r)
<1>0. CASE row'[r] = row[r]
  BY <1>0 DEF Caged, CageInv
<1>1. ASSUME NEW c \in Clerks, FinishReceive(c) PROVE Caged(r)
  <2>1. PICK into : WrittenInto(c, into)
    BY <1>1, FinishFacts
  <2>2. CASE row'[r] # row[r]
    BY <2>1, <2>2, WrittenIsFree DEF Caged
  <2> QED BY <1>0, <2>2
<1>2. ASSUME NEW i \in Items, NEW k \in Kinds, FailInspection(i, k) PROVE Caged(r)
  <2>1. rowOf[i] \in Items /\ <<i, k>> # NoCase
    BY TravelersAreApart DEF TypeOK, Cases
  <2>2. row'[r] = IF r = rowOf[i] THEN Quarantined(row[r], <<i, k>>) ELSE row[r]
    BY <1>2, <2>1 DEF FailInspection, TypeOK
  <2> QED BY <1>0, <2>1, <2>2 DEF Caged, Quarantined
<1>3. ASSUME NEW c \in Cases, NEW d \in Dispositions, Disposition(c, d) PROVE Caged(r)
  <2>1. row[r].hold = c \/ row'[r] = row[r]
    BY <1>3 DEF Disposition
  <2>2. CASE row[r].hold = c
    <3>1. mrb[c] = "OPEN" /\ mrb'[c] = d /\ d # "OPEN"
      BY <1>3, ReceivingAssumption DEF Disposition, TypeOK
    <3>2. row'[r] = row[r] \/ row'[r] = OnShelf(row[r])
          \/ row'[r] = [place |-> row[r].place, onHand |-> 0, avail |-> 0, hold |-> NoCase]
      BY <1>3 DEF Disposition
    <3> QED BY <1>0, <2>2, <3>1, <3>2 DEF Caged, OnShelf
  <2> QED BY <1>0, <2>1, <2>2
<1>4. ASSUME NEW t \in Travelers, CompletePutaway(t) PROVE Caged(r)
  <2>1. row'[r] = row[r] \/ (row'[r] = OnShelf(row[r]) /\ row[r].hold = NoCase)
    BY <1>4 DEF CompletePutaway, Held
  <2> QED BY <1>0, <2>1 DEF Caged, OnShelf
<1>5. ASSUME PutAwayAllReceiving PROVE Caged(r)
  <2>1. row'[r] = row[r] \/ (row'[r] = OnShelf(row[r]) /\ row[r].hold = NoCase)
    BY <1>5 DEF PutAwayAllReceiving, Held
  <2> QED BY <1>0, <2>1 DEF Caged, OnShelf
<1>6. CASE UNCHANGED row
  BY <1>0, <1>6
<1>7. CASE UNCHANGED vars
  BY <1>6, <1>7 DEF vars
<1> QED BY <1>1, <1>2, <1>3, <1>4, <1>5, <1>6, <1>7
        DEF Next, BeginReceive, PassInspection, AttestDock, ShowRoot, ClosePo

\* What is held leaves the cage by a decision on its case, whoever receives at the
\* same time, whatever lots join and whatever button is pressed (putAwayInventory,
\* dispositionMrb).
THEOREM CageIsKept == Spec => CageHolds
<1>1. Init => CageInv
  BY DEF Init, CageInv, NoRow
<1>2. TypeOK /\ FreshInv /\ CageInv /\ [Next]_vars => CageInv'
  BY StepCages DEF Caged, CageInv
<1>3. Spec => []CageInv
  BY <1>1, <1>2, TypeCorrect, NothingEarly, PTL DEF Spec
<1>4. TypeOK /\ FreshInv /\ CageInv /\ [Next]_vars =>
        [\A r \in Items :
           row[r].hold # NoCase /\ row'[r].hold # row[r].hold =>
             \/ row'[r].place = "QUARANTINE" /\ row'[r].hold # NoCase
             \/ mrb[row[r].hold] = "OPEN" /\ mrb'[row[r].hold] # "OPEN"]_vars
  BY StepCages DEF Caged
<1> QED BY <1>3, <1>4, TypeCorrect, NothingEarly, PTL DEF Spec, CageHolds

-----------------------------------------------------------------------------
(* UnitsAccounted                                                          *)

\* The units on rows, and those of a receipt.
OnHand == [r \in Items |-> row[r].onHand]
Brought == [n \in Receipts |-> Sum(receipt[n])]

\* What a receipt adds to each row.
Added(c, into) ==
  [r \in Items |-> IF call[c].qty[r[2]] > 0 /\ into[r[2]] = r THEN call[c].qty[r[2]] ELSE 0]

\* The sum of a function over its own domain.
LEMMA SumOverDomain ==
  ASSUME NEW S, NEW f, DOMAIN f = S
  PROVE  Sum(f) = SumFunctionOnSet(f, S)
BY DEF Sum, SumFunction

\* Each line of a receipt goes to one row, and no two lines to the same.
LEMMA AddedIsBrought ==
  ASSUME TypeOK, NEW c \in Clerks, NEW into, WrittenInto(c, into)
  PROVE  /\ \A r \in Items : Added(c, into)[r] \in Int
         /\ SumFunctionOnSet(Added(c, into), Items) = SumFunctionOnSet(call[c].qty, Lines)
<1> DEFINE q == call[c].qty
           n == last + 1
           m == [l \in Lines |-> IF q[l] > 0 THEN into[l] ELSE <<n, l>>]
           h == Added(c, into)
<1>1. q \in [Lines -> Nat] /\ n \in Receipts
  BY DEF WrittenInto
<1>2. \A l \in Lines : q[l] > 0 => into[l] \in Items /\ into[l][2] = l
  BY DEF WrittenInto
<1>3. \A l \in Lines : m[l] \in Items /\ m[l][2] = l
  BY <1>1, <1>2 DEF Items
<1>4. \A r \in Items : r[2] \in Lines
  BY TravelersAreApart
<1>5. \A r \in Items : h[r] = IF q[r[2]] > 0 /\ into[r[2]] = r THEN q[r[2]] ELSE 0
  BY DEF Added
<1>6. \A r \in Items : h[r] \in Int
  BY <1>1, <1>4, <1>5
<1>7. \A l \in Lines : h[m[l]] = q[l]
  <2> SUFFICES ASSUME NEW l \in Lines PROVE h[m[l]] = q[l]
    OBVIOUS
  <2>1. CASE q[l] > 0
    <3>1. m[l] = into[l] /\ m[l] \in Items /\ m[l][2] = l
      BY <1>3, <2>1
    <3> QED BY <1>5, <2>1, <3>1
  <2>2. CASE ~(q[l] > 0)
    <3>1. q[l] = 0
      BY <1>1, <2>2
    <3>2. m[l] \in Items /\ m[l][2] = l
      BY <1>3
    <3> QED BY <1>5, <2>2, <3>1, <3>2
  <2> QED BY <2>1, <2>2
<1>8. \A r \in Items : (\A l \in Lines : m[l] # r) => h[r] = 0
  BY <1>4, <1>5
<1>9. \A l1, l2 \in Lines : m[l1] = m[l2] => l1 = l2
  BY <1>3
<1>10. \A l \in Lines : q[l] \in Int /\ m[l] \in Items
  BY <1>1, <1>3
<1> HIDE DEF q, m, h
<1>11. SumFunctionOnSet(h, Items) = SumFunctionOnSet(q, Lines)
  BY <1>6, <1>7, <1>8, <1>9, <1>10, ItemsAreFinite, SumMoved
<1> QED BY <1>6, <1>11 DEF h, q

\* UnitsAccounted over the whole tables.
LEMMA AccountedOver ==
  /\ UnitsAccounted <=>
       SumFunctionOnSet(OnHand, Items) + gone = SumFunctionOnSet(Brought, Receipts)
  /\ UnitsAccounted' <=>
       SumFunctionOnSet(OnHand', Items) + gone' = SumFunctionOnSet(Brought', Receipts)
  /\ TypeOK => \A r \in Items : OnHand[r] \in Nat /\ OnHand[r] = row[r].onHand
  /\ TypeOK' => \A r \in Items : OnHand'[r] \in Nat /\ OnHand'[r] = row'[r].onHand
<1>1. DOMAIN OnHand = Items /\ DOMAIN Brought = Receipts
      /\ DOMAIN OnHand' = Items /\ DOMAIN Brought' = Receipts
  BY DEF OnHand, Brought
<1>2. /\ UnitsAccounted <=> Sum(OnHand) + gone = Sum(Brought)
      /\ UnitsAccounted' <=> Sum(OnHand') + gone' = Sum(Brought')
  BY DEF UnitsAccounted, OnHand, Brought, Sum
<1>3. /\ Sum(OnHand) = SumFunctionOnSet(OnHand, Items)
      /\ Sum(Brought) = SumFunctionOnSet(Brought, Receipts)
      /\ Sum(OnHand') = SumFunctionOnSet(OnHand', Items)
      /\ Sum(Brought') = SumFunctionOnSet(Brought', Receipts)
  BY <1>1, SumOverDomain
<1>4. TypeOK => \A r \in Items : OnHand[r] \in Nat /\ OnHand[r] = row[r].onHand
  BY DEF TypeOK, Row, OnHand
<1>5. TypeOK' => \A r \in Items : OnHand'[r] \in Nat /\ OnHand'[r] = row'[r].onHand
  BY DEF TypeOK, Row, OnHand
<1> QED BY <1>2, <1>3, <1>4, <1>5

\* The units of every receipt are a number.
LEMMA BroughtIsNat ==
  ASSUME TypeOK, NEW n \in Receipts
  PROVE  Brought[n] \in Nat /\ Brought[n] = SumFunctionOnSet(receipt[n], Lines)
<1>1. receipt[n] \in [Lines -> Nat]
  BY DEF TypeOK
<1>2. Brought[n] = SumFunctionOnSet(receipt[n], Lines)
  BY <1>1, SumOverDomain DEF Brought
<1>3. SumFunctionOnSet(receipt[n], Lines) \in Nat
  BY <1>1, ItemsAreFinite, SumOfNat
<1> QED BY <1>2, <1>3

\* A receipt adds to the rows what it brings.
LEMMA FinishAccounted ==
  ASSUME TypeOK, TypeOK', FreshInv, UnitsAccounted, NEW c \in Clerks, FinishReceive(c)
  PROVE  UnitsAccounted'
<1>1. PICK into : WrittenInto(c, into)
  BY FinishFacts
<1> DEFINE q == call[c].qty
           n == last + 1
           h == Added(c, into)
<1>2. /\ n \in Receipts /\ q \in [Lines -> Nat] /\ receipt' = [receipt EXCEPT ![n] = q]
      /\ gone' = gone
  BY <1>1 DEF WrittenInto, FinishReceive
<1>3. /\ \A r \in Items : h[r] \in Int
      /\ SumFunctionOnSet(h, Items) = SumFunctionOnSet(q, Lines)
  BY <1>1, AddedIsBrought
<1>4. \A r \in Items : OnHand[r] \in Int /\ h[r] \in Int /\ OnHand'[r] = OnHand[r] + h[r]
  <2> SUFFICES ASSUME NEW r \in Items
               PROVE  OnHand[r] \in Int /\ h[r] \in Int /\ OnHand'[r] = OnHand[r] + h[r]
    OBVIOUS
  <2>1. OnHand[r] \in Int /\ OnHand[r] = row[r].onHand /\ OnHand'[r] = row'[r].onHand
    BY AccountedOver
  <2>2. h[r] = IF q[r[2]] > 0 /\ into[r[2]] = r THEN q[r[2]] ELSE 0
    BY DEF Added
  <2>3. row'[r].onHand = IF q[r[2]] > 0 /\ into[r[2]] = r THEN row[r].onHand + q[r[2]]
                         ELSE row[r].onHand
    BY <1>1, TravelersAreApart DEF WrittenInto
  <2> HIDE DEF h, q
  <2> QED BY <1>3, <2>1, <2>2, <2>3
<1>5. SumFunctionOnSet(OnHand', Items)
        = SumFunctionOnSet(OnHand, Items) + SumFunctionOnSet(q, Lines)
  <2> HIDE DEF h
  <2>1. SumFunctionOnSet(OnHand', Items)
          = SumFunctionOnSet(OnHand, Items) + SumFunctionOnSet(h, Items)
    BY <1>4, ItemsAreFinite, SumAdds
  <2> QED BY <1>3, <2>1
<1>6. Brought[n] = 0
  <2>1. \A l \in Lines : receipt[n][l] = 0
    <3> SUFFICES ASSUME NEW l \in Lines PROVE receipt[n][l] = 0
      OBVIOUS
    <3>1. <<n, l>> \in Items /\ <<n, l>>[1] > last
      BY <1>2, ReceivingAssumption DEF Items, TypeOK
    <3> QED BY <3>1 DEF FreshInv
  <2>2. SumFunctionOnSet(receipt[n], Lines) = 0
    BY <2>1, ItemsAreFinite, SumOfZeros
  <2> HIDE DEF n
  <2> QED BY <1>2, <2>2, BroughtIsNat
<1>7. Brought'[n] = SumFunctionOnSet(q, Lines)
  <2>1. receipt'[n] = q /\ DOMAIN q = Lines
    BY <1>2 DEF TypeOK
  <2>2. Brought'[n] = Sum(receipt'[n])
    BY <1>2 DEF Brought
  <2> HIDE DEF n, q
  <2> QED BY <2>1, <2>2, SumOverDomain
<1>8. SumFunctionOnSet(q, Lines) \in Int
  BY <1>2, ItemsAreFinite, SumOfNat
<1>9. \A j \in Receipts : Brought[j] \in Int /\ (j # n => Brought'[j] = Brought[j])
  <2>1. \A j \in Receipts : j # n => Brought'[j] = Brought[j]
    BY <1>2 DEF Brought, TypeOK
  <2> HIDE DEF n
  <2> QED BY <2>1, BroughtIsNat
<1>10. SumFunctionOnSet(Brought', Receipts)
         = SumFunctionOnSet(Brought, Receipts) + SumFunctionOnSet(q, Lines)
  <2>1. SumFunctionOnSet(Brought', Receipts)
          = SumFunctionOnSet(Brought, Receipts) + Brought'[n] - Brought[n]
    <3>1. Brought'[n] \in Int
      BY <1>7, <1>8
    <3> HIDE DEF n, q
    <3> QED BY <1>2, <1>9, <3>1, ItemsAreFinite, SumChanged
  <2>2. SumFunctionOnSet(Brought, Receipts) \in Int
    BY <1>9, ItemsAreFinite, SumPick
  <2> HIDE DEF n, q
  <2> QED BY <1>6, <1>7, <1>8, <2>1, <2>2
<1>11. gone \in Int /\ SumFunctionOnSet(OnHand, Items) \in Int
  BY <1>4, ItemsAreFinite, SumPick DEF TypeOK
<1>12. SumFunctionOnSet(OnHand', Items) + gone' = SumFunctionOnSet(Brought', Receipts)
  <2>1. SumFunctionOnSet(OnHand, Items) + gone = SumFunctionOnSet(Brought, Receipts)
    BY AccountedOver
  <2> HIDE DEF q
  <2> QED BY <1>2, <1>5, <1>8, <1>10, <1>11, <2>1
<1> QED BY <1>12, AccountedOver

\* The board takes off the rows what it counts as gone.
LEMMA DispositionAccounted ==
  ASSUME TypeOK, TypeOK', UnitsAccounted, NEW c \in Cases, NEW d \in Dispositions, Disposition(c, d)
  PROVE  UnitsAccounted'
<1> DEFINE held == {r \in Items : row[r].hold = c}
           lost == IF d \in {"SCRAP", "RETURN_TO_SUPPLIER"} THEN held ELSE {}
           f == [r \in lost |-> row[r].onHand]
<1>1. /\ row' = [r \in Items |->
           IF r \in lost THEN [place |-> row[r].place, onHand |-> 0, avail |-> 0, hold |-> NoCase]
           ELSE IF r \in held /\ d \in Freed(d) THEN OnShelf(row[r]) ELSE row[r]]
      /\ gone' = gone + SumFunction(f)
      /\ receipt' = receipt
  BY DEF Disposition, dockVars
<1>2. /\ lost \in SUBSET Items
      /\ \A r \in lost : row'[r].onHand = 0
      /\ \A r \in Items \ lost : row'[r].onHand = row[r].onHand
  <2>1. lost \in SUBSET Items
    OBVIOUS
  <2> HIDE DEF held, lost
  <2> QED BY <1>1, <2>1 DEF OnShelf
<1>3. DOMAIN f = lost /\ \A r \in lost : f[r] = row[r].onHand
  OBVIOUS
<1> HIDE DEF f, lost, held
<1>4. /\ \A r \in Items : OnHand[r] \in Int /\ OnHand'[r] \in Int
      /\ \A r \in lost : OnHand'[r] = 0 /\ f[r] = OnHand[r]
      /\ \A r \in Items \ lost : OnHand'[r] = OnHand[r]
  BY <1>2, <1>3, AccountedOver
<1>5. IsFiniteSet(Items) /\ IsFiniteSet(lost) /\ IsFiniteSet(Items \ lost)
  BY <1>2, ItemsAreFinite, FS_Subset
<1>6. SumFunctionOnSet(OnHand, Items)
        = SumFunctionOnSet(OnHand, lost) + SumFunctionOnSet(OnHand, Items \ lost)
      /\ SumFunctionOnSet(OnHand', Items)
        = SumFunctionOnSet(OnHand', lost) + SumFunctionOnSet(OnHand', Items \ lost)
  BY <1>2, <1>4, <1>5, SumOfParts
<1>7. SumFunctionOnSet(OnHand', lost) = 0
  BY <1>4, <1>5, SumOfZeros
<1>8. SumFunction(f) = SumFunctionOnSet(OnHand, lost) /\ SumFunctionOnSet(OnHand, lost) \in Int
  <2>1. \A r \in lost : OnHand[r] \in Int /\ f[r] = OnHand[r]
    BY <1>2, <1>4
  <2>2. SumFunctionOnSet(f, lost) = SumFunctionOnSet(OnHand, lost)
    BY <1>5, <2>1, SumOfSame
  <2> QED BY <1>3, <1>5, <2>1, <2>2, SumPick DEF SumFunction
<1>9. SumFunctionOnSet(OnHand', Items \ lost) = SumFunctionOnSet(OnHand, Items \ lost)
      /\ SumFunctionOnSet(OnHand, Items \ lost) \in Int
  BY <1>4, <1>5, SumOfSame, SumPick
<1>10. Brought' = Brought
  BY <1>1 DEF Brought
<1>11. SumFunctionOnSet(OnHand', Items) + gone' = SumFunctionOnSet(Brought', Receipts)
  <2>1. SumFunctionOnSet(OnHand, Items) + gone = SumFunctionOnSet(Brought, Receipts)
    BY AccountedOver
  <2>2. gone \in Int
    BY DEF TypeOK
  <2> QED BY <1>1, <1>6, <1>7, <1>8, <1>9, <1>10, <2>1, <2>2
<1> QED BY <1>11, AccountedOver

\* The other steps move units from place to place.
LEMMA StillAccounted ==
  ASSUME TypeOK, TypeOK', UnitsAccounted, gone' = gone, receipt' = receipt,
         \A r \in Items : row'[r].onHand = row[r].onHand
  PROVE  UnitsAccounted'
<1>1. \A r \in Items : OnHand[r] \in Int /\ OnHand'[r] = OnHand[r]
  BY AccountedOver
<1>2. SumFunctionOnSet(OnHand', Items) = SumFunctionOnSet(OnHand, Items)
  BY <1>1, ItemsAreFinite, SumOfSame
<1>3. Brought' = Brought
  BY DEF Brought
<1> QED BY <1>2, <1>3, AccountedOver

\* What arrived is on a row or gone, for every order, any number of receivers, lots
\* that join and dispositions (receivePurchaseOrder, dispositionMrb,
\* putAwayInventory).
THEOREM UnitsAreAccounted == Spec => []UnitsAccounted
<1>1. Init => UnitsAccounted
  <2> SUFFICES ASSUME Init PROVE UnitsAccounted
    OBVIOUS
  <2>1. \A r \in Items : OnHand[r] = 0
    BY DEF Init, NoRow, OnHand
  <2>2. \A n \in Receipts : Brought[n] = 0
    <3> SUFFICES ASSUME NEW n \in Receipts PROVE Brought[n] = 0
      OBVIOUS
    <3>1. receipt[n] = Nothing /\ DOMAIN Nothing = Lines /\ \A l \in Lines : Nothing[l] = 0
      BY DEF Init, Nothing
    <3>2. SumFunctionOnSet(Nothing, Lines) = 0
      BY <3>1, ItemsAreFinite, SumOfZeros
    <3> QED BY <3>1, <3>2, SumOverDomain DEF Brought
  <2>3. SumFunctionOnSet(OnHand, Items) = 0 /\ SumFunctionOnSet(Brought, Receipts) = 0
    BY <2>1, <2>2, ItemsAreFinite, SumOfZeros
  <2>4. gone = 0
    BY DEF Init
  <2> QED BY <2>3, <2>4, AccountedOver
<1>2. TypeOK /\ TypeOK' /\ FreshInv /\ UnitsAccounted /\ [Next]_vars => UnitsAccounted'
  <2> SUFFICES ASSUME TypeOK, TypeOK', FreshInv, UnitsAccounted, [Next]_vars
               PROVE  UnitsAccounted'
    OBVIOUS
  <2>1. CASE UNCHANGED <<row, gone, receipt>>
    BY <2>1, StillAccounted
  <2>2. ASSUME NEW i \in Items, NEW k \in Kinds, FailInspection(i, k)
        PROVE  UnitsAccounted'
    <3>1. \A r \in Items : row'[r].onHand = row[r].onHand
      BY <2>2 DEF FailInspection, TypeOK, Quarantined
    <3> QED BY <2>2, <3>1, StillAccounted DEF FailInspection, dockVars
  <2>3. ASSUME NEW t \in Travelers, CompletePutaway(t)
        PROVE  UnitsAccounted'
    <3>1. \A r \in Items : row'[r].onHand = row[r].onHand
      BY <2>3 DEF CompletePutaway, OnShelf
    <3> QED BY <2>3, <3>1, StillAccounted DEF CompletePutaway, dockVars
  <2>4. ASSUME PutAwayAllReceiving
        PROVE  UnitsAccounted'
    <3>1. \A r \in Items : row'[r].onHand = row[r].onHand
      BY <2>4 DEF PutAwayAllReceiving, OnShelf
    <3> QED BY <2>4, <3>1, StillAccounted DEF PutAwayAllReceiving, dockVars
  <2>5. CASE UNCHANGED vars
    BY <2>1, <2>5 DEF vars
  <2>6. CASE \E c \in Clerks, t \in Travelers : BeginReceive(c, t)
    BY <2>1, <2>6 DEF BeginReceive
  <2>7. CASE \/ \E i \in Items, k \in Kinds : PassInspection(i, k)
             \/ \E i \in Items : AttestDock(i)
             \/ ShowRoot \/ ClosePo
    BY <2>1, <2>7 DEF PassInspection, AttestDock, ShowRoot, ClosePo, dockVars
  <2> QED BY <2>2, <2>3, <2>4, <2>5, <2>6, <2>7, FinishAccounted, DispositionAccounted DEF Next
<1> QED BY <1>1, <1>2, TypeCorrect, NothingEarly, PTL DEF Spec

-----------------------------------------------------------------------------
(* ReceivedIsCounted                                                       *)

\* What a receiver that works alone has read is still so.
ReadInv ==
  \A c \in Clerks : call[c].busy =>
    /\ call[c].seen = received
    /\ \A l \in Lines : call[c].qty[l] = 0 \/ call[c].qty[l] <= Ordered[l] - received[l]

\* The receipts of one line.
OfLine(l) == [n \in Receipts |-> receipt[n][l]]

\* ReceivedIsCounted over the whole table.
LEMMA CountedOver ==
  /\ ReceivedIsCounted <=>
       \A l \in Lines : received[l] = SumFunctionOnSet(OfLine(l), Receipts)
                          /\ received[l] <= Ordered[l]
  /\ ReceivedIsCounted' <=>
       \A l \in Lines : received'[l] = SumFunctionOnSet(OfLine(l)', Receipts)
                          /\ received'[l] <= Ordered[l]
<1>1. \A l : DOMAIN OfLine(l) = Receipts /\ DOMAIN OfLine(l)' = Receipts
  BY DEF OfLine
<1>2. \A l : Sum(OfLine(l)) = SumFunctionOnSet(OfLine(l), Receipts)
             /\ Sum(OfLine(l)') = SumFunctionOnSet(OfLine(l)', Receipts)
  BY <1>1, SumOverDomain
<1>3. /\ ReceivedIsCounted <=> \A l \in Lines : received[l] = Sum(OfLine(l)) /\ received[l] <= Ordered[l]
      /\ ReceivedIsCounted' <=> \A l \in Lines : received'[l] = Sum(OfLine(l)') /\ received'[l] <= Ordered[l]
  BY DEF ReceivedIsCounted, OfLine, Sum
<1> QED BY <1>2, <1>3

\* A receipt adds to each line what it read that line lacks.
LEMMA FinishCounted ==
  ASSUME TypeOK, FreshInv, ReadInv, ReceivedIsCounted, NEW c \in Clerks, FinishReceive(c)
  PROVE  ReceivedIsCounted'
<1> DEFINE q == call[c].qty
           n == last + 1
<1>1. PICK into : WrittenInto(c, into)
  BY FinishFacts
<1>2. n \in Receipts /\ q \in [Lines -> Nat] /\ receipt' = [receipt EXCEPT ![n] = q]
  BY <1>1 DEF WrittenInto
<1>3. call[c].seen = received /\ \A l \in Lines : q[l] = 0 \/ q[l] <= Ordered[l] - received[l]
  BY DEF ReadInv, FinishReceive
<1>4. \A l \in Lines : received'[l] = received[l] + q[l]
  <2>1. \A l \in Lines : received'[l] = IF q[l] > 0 THEN received[l] + q[l] ELSE received[l]
    BY <1>3 DEF FinishReceive, NewQty
  <2>2. \A l \in Lines : received[l] \in Nat /\ q[l] \in Nat
    BY <1>2 DEF TypeOK
  <2> HIDE DEF q
  <2> QED BY <2>1, <2>2
<1>5. ASSUME NEW l \in Lines
      PROVE  received'[l] = SumFunctionOnSet(OfLine(l)', Receipts) /\ received'[l] <= Ordered[l]
  <2> DEFINE f == OfLine(l)
             g == OfLine(l)'
  <2>1. f[n] = 0
    <3>1. <<n, l>> \in Items /\ <<n, l>>[1] > last
      BY <1>2, ReceivingAssumption DEF Items, TypeOK
    <3> QED BY <1>2, <3>1 DEF FreshInv, OfLine
  <2>2. g[n] = q[l] /\ g[n] \in Int
    BY <1>2 DEF OfLine, TypeOK
  <2>3. \A j \in Receipts : f[j] \in Int /\ (j # n => g[j] = f[j])
    BY <1>2 DEF OfLine, TypeOK
  <2>4. received[l] = SumFunctionOnSet(f, Receipts) /\ received[l] <= Ordered[l]
    BY CountedOver
  <2>5. received[l] \in Nat /\ q[l] \in Nat /\ Ordered[l] \in Nat
    BY <1>2, ReceivingAssumption DEF TypeOK
  <2> HIDE DEF f, g, n, q
  <2>6. SumFunctionOnSet(g, Receipts) = SumFunctionOnSet(f, Receipts) + g[n] - f[n]
    BY <1>2, <2>2, <2>3, ItemsAreFinite, SumChanged
  <2>7. SumFunctionOnSet(g, Receipts) = received[l] + q[l]
    BY <2>1, <2>2, <2>4, <2>5, <2>6
  <2>8. received[l] + q[l] <= Ordered[l]
    BY <1>3, <2>4, <2>5
  <2> QED BY <1>4, <2>7, <2>8 DEF g
<1> QED BY <1>5, CountedOver

\* A receiver at work keeps what has been read true if no other is at work.
LEMMA StillRead ==
  ASSUME TypeOK, ReadInv, \A a, b \in Clerks : a = b, [Next]_vars
  PROVE  ReadInv'
<1>1. ASSUME NEW c \in Clerks, NEW t \in Travelers, BeginReceive(c, t) PROVE ReadInv'
  <2>1. PICK q, d :
         /\ \A l \in Lines : q[l] = 0 \/ q[l] <= Ordered[l] - received[l]
         /\ call' = [call EXCEPT ![c] =
              [busy |-> TRUE, from |-> t, qty |-> q, seen |-> received, dock |-> d]]
    BY <1>1 DEF BeginReceive
  <2>2. \A a \in Clerks : call'[a] =
              [busy |-> TRUE, from |-> t, qty |-> q, seen |-> received, dock |-> d]
    BY <2>1 DEF TypeOK
  <2>3. received' = received
    BY <1>1 DEF BeginReceive
  <2> QED BY <2>1, <2>2, <2>3 DEF ReadInv
<1>2. ASSUME NEW c \in Clerks, FinishReceive(c) PROVE ReadInv'
  <2>1. \A a \in Clerks : call'[a] = Idle
    BY <1>2 DEF FinishReceive, TypeOK
  <2> QED BY <2>1 DEF ReadInv, Idle
<1>3. CASE UNCHANGED <<call, received>>
  BY <1>3 DEF ReadInv
<1>4. ASSUME NEW c \in Cases, NEW d \in Dispositions, Disposition(c, d) PROVE ReadInv'
  BY <1>3, <1>4 DEF Disposition, dockVars
<1>5. CASE UNCHANGED vars
  BY <1>3, <1>5 DEF vars
<1>6. CASE \/ \E i \in Items, k \in Kinds : PassInspection(i, k) \/ FailInspection(i, k)
           \/ \E i \in Items : AttestDock(i)
           \/ \E t \in Travelers : CompletePutaway(t)
           \/ PutAwayAllReceiving \/ ShowRoot \/ ClosePo
  BY <1>3, <1>6 DEF PassInspection, FailInspection, AttestDock, CompletePutaway,
     PutAwayAllReceiving, ShowRoot, ClosePo, dockVars
<1> QED BY <1>1, <1>2, <1>4, <1>5, <1>6 DEF Next

\* A receiver who works alone never forgets a receipt and never exceeds the order:
\* the quantity of a line is what its receipts add up to (receivePurchaseOrder writes
\* it as a sum computed from an earlier read).
THEOREM AloneReceivedIsCounted ==
  ASSUME \A a, b \in Clerks : a = b
  PROVE  Spec => []ReceivedIsCounted
<1>1. Init => ReceivedIsCounted /\ ReadInv
  <2> SUFFICES ASSUME Init PROVE ReceivedIsCounted /\ ReadInv
    OBVIOUS
  <2>1. \A l \in Lines : received[l] = 0 /\ Ordered[l] \in Nat /\ \A n \in Receipts : OfLine(l)[n] = 0
    BY ReceivingAssumption DEF Init, Nothing, OfLine
  <2>2. \A l \in Lines : SumFunctionOnSet(OfLine(l), Receipts) = 0
    <3> TAKE l \in Lines
    <3> DEFINE f == OfLine(l)
    <3>1. \A n \in Receipts : f[n] = 0
      BY <2>1
    <3> HIDE DEF f
    <3>2. SumFunctionOnSet(f, Receipts) = 0
      BY <3>1, ItemsAreFinite, SumOfZeros
    <3> QED BY <3>2 DEF f
  <2>3. \A l \in Lines : received[l] <= Ordered[l]
    BY <2>1
  <2>4. ReadInv
    BY DEF Init, ReadInv, Idle
  <2> QED BY <2>1, <2>2, <2>3, <2>4, CountedOver
<1>2. TypeOK /\ FreshInv /\ ReadInv /\ ReceivedIsCounted /\ [Next]_vars => ReceivedIsCounted' /\ ReadInv'
  <2> SUFFICES ASSUME TypeOK, FreshInv, ReadInv, ReceivedIsCounted, [Next]_vars
               PROVE  ReceivedIsCounted'
    BY StillRead
  <2>1. CASE UNCHANGED <<received, receipt>>
    BY <2>1 DEF ReceivedIsCounted
  <2>2. CASE UNCHANGED vars
    BY <2>1, <2>2 DEF vars
  <2>3. CASE \/ \E c \in Clerks, t \in Travelers : BeginReceive(c, t)
             \/ \E i \in Items, k \in Kinds : PassInspection(i, k) \/ FailInspection(i, k)
             \/ \E i \in Items : AttestDock(i)
             \/ \E t \in Travelers : CompletePutaway(t)
             \/ PutAwayAllReceiving \/ ShowRoot \/ ClosePo
    BY <2>1, <2>3 DEF BeginReceive, PassInspection, FailInspection, AttestDock, CompletePutaway,
       PutAwayAllReceiving, ShowRoot, ClosePo, dockVars
  <2>4. ASSUME NEW c \in Cases, NEW d \in Dispositions, Disposition(c, d) PROVE ReceivedIsCounted'
    BY <2>1, <2>4 DEF Disposition, dockVars
  <2> QED BY <2>2, <2>3, <2>4, FinishCounted DEF Next
<1> QED BY <1>1, <1>2, TypeCorrect, NothingEarly, PTL DEF Spec

-----------------------------------------------------------------------------
(* Inspection before stock                                                 *)

\* Every item has a row to itself, the button is not used, and at most one line of
\* the order is inspected.  Without the last, the put-away of one line stocks the
\* other (SiblingStocked); with a shared row, or the button, it stocks what joined.
OneInspectedLine ==
  /\ ~SameLot /\ ~PutAwayAllUsed
  /\ \A l, m \in Lines : Checks[l] # {} /\ Checks[m] # {} => l = m

\* What the tables say of one item.
OwnOf(i) ==
  /\ rowOf[i] = i
  /\ ~Arrived(i) => row[i] = NoRow /\ status[i] = "NONE" /\ \A k \in Kinds : insp[i][k] = "NONE"
  /\ Checks[i[2]] = {} =>
       status[i] = "NONE" /\ \A k \in Kinds : k # "RECEIVING" => insp[i][k] = "NONE"
  /\ Checks[i[2]] # {} => insp[i]["RECEIVING"] = "NONE"
  /\ Arrived(i) /\ "QA" \in Checks[i[2]] => insp[i]["VISUAL"] # "NONE" /\ insp[i]["GDT"] # "NONE"
  /\ Arrived(i) /\ "QA" \notin Checks[i[2]] /\ "TEST" \in Checks[i[2]] => insp[i]["FUNCTIONAL"] # "NONE"
  /\ status[i] \in {"READY_TO_STOCK", "COMPLETE"} => Accepted(i)
  /\ status[i] = "COMPLETE" => row[i].place = "STORAGE"
  /\ \A k \in Kinds : mrb[<<i, k>>] # "NONE" => insp[i][k] = "FAILED"
  /\ row[i].hold # NoCase => row[i].hold[1] = i /\ mrb[row[i].hold] # "NONE"
  /\ Arrived(i) /\ Checks[i[2]] # {} => owner[i[1]] = i
  /\ row[i].avail > 0 => Accepted(i) \/ \E k \in Kinds : mrb[<<i, k>>] = "USE_AS_IS"

OwnInv == \A i \in Items : OwnOf(i)

\* A step that does not touch an item.
Untouched(i) ==
  /\ rowOf'[i] = rowOf[i] /\ row'[i] = row[i] /\ status'[i] = status[i] /\ insp'[i] = insp[i]
  /\ receipt'[i[1]][i[2]] = receipt[i[1]][i[2]]
  /\ \A k \in Kinds : mrb'[<<i, k>>] = mrb[<<i, k>>]
  /\ Arrived(i) => owner'[i[1]] = owner[i[1]]

\* What GoodsInward lets a step do to one delivery.
Advances(i) ==
  Stage(i)' # Stage(i) =>
    \/ Stage(i) = "expected" /\ Stage(i)' \in {"dock", "cleared", "stocked"}
         /\ (Checks[i[2]] # {} => Stage(i)' = "dock")
    \/ Stage(i) = "dock" /\ Stage(i)' \in {"cleared", "held"}
    \/ Stage(i) = "cleared" /\ Stage(i)' = "stocked"
    \/ Stage(i) = "held" /\ Stage(i)' \in {"stocked", "gone"}
    \/ Stage(i) = "stocked" /\ Stage(i)' = "held" /\ Checks[i[2]] # {}

\* The stage of an item on a row of its own.
LEMMA StageOfOwn ==
  ASSUME NEW i \in Items
  PROVE  /\ rowOf[i] = i =>
              Stage(i) = IF ~Arrived(i) THEN "expected"
                         ELSE IF ~(row[i].onHand > 0) /\ row[i].onHand = 0 THEN "gone"
                         ELSE IF row[i].onHand > 0 /\ row[i].hold # NoCase THEN "held"
                         ELSE IF row[i].place = "STORAGE" THEN "stocked"
                         ELSE IF Accepted(i) THEN "cleared" ELSE "dock"
         /\ rowOf'[i] = i =>
              Stage(i)' = IF ~Arrived(i)' THEN "expected"
                         ELSE IF ~(row'[i].onHand > 0) /\ row'[i].onHand = 0 THEN "gone"
                         ELSE IF row'[i].onHand > 0 /\ row'[i].hold # NoCase THEN "held"
                         ELSE IF row'[i].place = "STORAGE" THEN "stocked"
                         ELSE IF Accepted(i)' THEN "cleared" ELSE "dock"
BY DEF Stage

\* An item that is not touched stays as it is.
LEMMA UntouchedStays ==
  ASSUME NEW i \in Items, OwnOf(i), Untouched(i), TypeOK
  PROVE  OwnOf(i)' /\ Advances(i)
<1>1. Arrived(i)' = Arrived(i) /\ Accepted(i)' = Accepted(i)
  BY DEF Untouched, Arrived, Accepted
<1>2. row[i].hold # NoCase => mrb'[row[i].hold] = mrb[row[i].hold]
  <2>1. row[i].hold # NoCase => row[i].hold \in Cases /\ row[i].hold[1] = i
    BY DEF TypeOK, Row, OwnOf
  <2> QED BY <2>1, TravelersAreApart DEF Untouched
<1>3. Stage(i)' = Stage(i)
  BY <1>1, StageOfOwn DEF Untouched, OwnOf
<1>4. OwnOf(i)'
  BY <1>1, <1>2 DEF Untouched, OwnOf
<1> QED BY <1>3, <1>4 DEF Advances

\* Accepted, on what a step makes of the inspections of an item.
Passes(i, a) ==
  /\ \A k \in Kinds : a[k] \in {"NONE", "PASSED"}
  /\ "QA" \in Checks[i[2]] => a["VISUAL"] = "PASSED" /\ a["GDT"] = "PASSED"
  /\ "TEST" \in Checks[i[2]] => a["FUNCTIONAL"] = "PASSED"

LEMMA AcceptedPasses ==
  ASSUME NEW i PROVE (Accepted(i) <=> Passes(i, insp[i])) /\ (Accepted(i)' <=> Passes(i, insp'[i]))
BY DEF Accepted, Passes

\* A receipt of rows of their own.
LEMMA FinishOwn ==
  ASSUME TypeOK, FreshInv, OwnInv, OneInspectedLine, NEW c \in Clerks, FinishReceive(c), NEW i \in Items
  PROVE  OwnOf(i)' /\ Advances(i)
<1> DEFINE k == call[c]
           n == last + 1
           came == {l \in Lines : k.qty[l] > 0}
           routed == {l \in came : Checks[l] # {}}
           rec == [l \in Lines |-> IF l \in came THEN NewQty(k, l) ELSE received[l]]
           open == \E l \in Lines : rec[l] < Ordered[l]
<1>0. PICK into : WrittenInto(c, into)
  BY FinishFacts
<1>1. /\ n \in Receipts /\ n \in Nat /\ last' = n /\ k.qty \in [Lines -> Nat]
      /\ k.from \in Travelers /\ k.from \notin Items
      /\ receipt' = [receipt EXCEPT ![n] = k.qty]
  BY <1>0 DEF WrittenInto
<1>2. /\ i = <<i[1], i[2]>> /\ i[1] \in Nat /\ i[1] \in Receipts /\ i[2] \in Lines /\ last \in Nat
      /\ OwnOf(i) /\ status \in [Travelers -> Statuses]
  BY TravelersAreApart, ReceivingAssumption DEF TypeOK, Receipts, OwnInv, Statuses
<1>3. \A l \in came : into[l] = <<n, l>>
  BY <1>0 DEF WrittenInto, DockRows, OneInspectedLine
<1>4. /\ insp'[i] = IF i[1] = n /\ i[2] \in came THEN Opened(i[2], k.dock) ELSE insp[i]
      /\ mrb' = mrb
      /\ status' \in SplitTravelers(k.from, n, routed, open) \/ status' = SyncedTravelers
      /\ routed # {} => status' \in SplitTravelers(k.from, n, routed, open)
      /\ \E o \in IF routed = {} THEN {k.from} ELSE FirstChildren(n, routed) :
           owner' = [owner EXCEPT ![n] = o]
  BY DEF FinishReceive
<1>5. /\ status'[i] = IF i[1] = n /\ i[2] \in routed THEN "IN_INSPECTION" ELSE status[i]
  <2> HIDE DEF k, n, came, open, routed
  <2>1. CASE status' \in SplitTravelers(k.from, n, routed, open)
    BY <1>1, <1>2, <2>1, SplitItems
  <2>2. CASE status' = SyncedTravelers /\ routed = {}
    BY <2>2, SyncedItems
  <2> QED BY <1>4, <2>1, <2>2
<1>6. CASE ~(i[1] = n /\ i[2] \in came)
  <2>1. row'[i] = row[i] /\ rowOf'[i] = rowOf[i]
    BY <1>0, <1>2, <1>3, <1>6 DEF WrittenInto
  <2>2. receipt'[i[1]][i[2]] = receipt[i[1]][i[2]]
    <3>1. CASE i[1] # n
      BY <1>1, <1>2, <3>1 DEF TypeOK
    <3>2. CASE i[1] = n
      <4>1. receipt'[i[1]][i[2]] = 0
        BY <1>1, <1>2, <1>6, <3>2 DEF TypeOK
      <4>2. i[1] > last
        BY <1>2, <3>2
      <4> QED BY <4>1, <4>2 DEF FreshInv
    <3> QED BY <3>1, <3>2
  <2>3. Arrived(i) => owner'[i[1]] = owner[i[1]]
    <3>1. Arrived(i) => i[1] # n
      BY <1>2 DEF FreshInv, Arrived
    <3> QED BY <1>2, <1>4, <3>1 DEF TypeOK
  <2>4. Untouched(i)
    <3> HIDE DEF n, came, k, open
    <3> QED BY <1>4, <1>5, <1>6, <2>1, <2>2, <2>3 DEF Untouched
  <2> QED BY <1>2, <2>4, UntouchedStays
<1>7. CASE i[1] = n /\ i[2] \in came
  <2>1. i[1] > last /\ ~Arrived(i) /\ Arrived(i)' /\ i = <<n, i[2]>>
    <3>1. i[1] > last
      BY <1>2, <1>7
    <3>2. receipt[i[1]][i[2]] = 0
      BY <3>1 DEF FreshInv
    <3>3. receipt'[n] = k.qty
      BY <1>1 DEF TypeOK
    <3>4. Arrived(i)'
      BY <1>7, <3>3 DEF Arrived
    <3> QED BY <1>2, <1>7, <3>1, <3>2, <3>4 DEF Arrived
  <2>2. row[i] = NoRow /\ status[i] = "NONE" /\ \A j \in Kinds : mrb[<<i, j>>] = "NONE"
    BY <1>2, <2>1 DEF OwnOf
  <2>3. rowOf'[i] = i
    BY <1>0, <1>2, <1>3, <1>7, <2>1 DEF WrittenInto
  <2>4. /\ row'[i].onHand = k.qty[i[2]]
        /\ IF Checks[i[2]] = {} /\ k.dock = "placed"
             THEN row'[i].place = "STORAGE" /\ row'[i].hold = NoCase
             ELSE row'[i].place = "RECEIVING" /\ row'[i].hold = NoCase /\ row'[i].avail = 0
    <3>1. into[i[2]] = i
      BY <1>3, <1>7, <2>1
    <3>2. k.qty[i[2]] \in Nat
      BY <1>1, <1>2
    <3>3. NoRow.onHand = 0 /\ NoRow.avail = 0 /\ NoRow.hold = NoCase
      BY DEF NoRow
    <3> QED BY <1>0, <1>7, <2>2, <3>1, <3>2, <3>3 DEF WrittenInto
  <2>5. k.qty[i[2]] > 0 /\ k.qty[i[2]] \in Nat
    BY <1>1, <1>2, <1>7
  <2>6. insp'[i] = Opened(i[2], k.dock)
    BY <1>4, <1>7
  <2>7. /\ Checks[i[2]] = {} => \A j \in Kinds : j # "RECEIVING" => insp'[i][j] = "NONE"
        /\ Checks[i[2]] = {} /\ k.dock = "placed" => Passes(i, insp'[i])
        /\ Checks[i[2]] # {} => insp'[i]["RECEIVING"] = "NONE" /\ ~Passes(i, insp'[i])
        /\ "QA" \in Checks[i[2]] => insp'[i]["VISUAL"] # "NONE" /\ insp'[i]["GDT"] # "NONE"
        /\ "QA" \notin Checks[i[2]] /\ "TEST" \in Checks[i[2]] => insp'[i]["FUNCTIONAL"] # "NONE"
    <3>1. Checks[i[2]] \in SUBSET {"QA", "TEST"}
      BY <1>2, ReceivingAssumption
    <3> HIDE DEF k
    <3> QED BY <2>6, <3>1 DEF Opened, Passes, Kinds
  <2>8. Checks[i[2]] # {} => owner'[i[1]] = i
    <3> SUFFICES ASSUME Checks[i[2]] # {} PROVE owner'[i[1]] = i
      OBVIOUS
    <3>1. \A l \in routed : l = i[2]
      BY <1>2 DEF OneInspectedLine
    <3>2. routed # {}
      BY <1>7
    <3>3. FirstChildren(n, routed) \subseteq {i}
      <4> HIDE DEF n, routed
      <4> QED BY <2>1, <3>1 DEF FirstChildren
    <3> HIDE DEF k, routed
    <3> QED BY <1>1, <1>2, <1>4, <1>7, <3>2, <3>3 DEF TypeOK
  <2>9. status'[i] = IF Checks[i[2]] # {} THEN "IN_INSPECTION" ELSE "NONE"
    BY <1>5, <1>7, <2>2
  <2>10. /\ Stage(i) = "expected"
         /\ Stage(i)' = IF row'[i].place = "STORAGE" THEN "stocked"
                        ELSE IF Passes(i, insp'[i]) THEN "cleared" ELSE "dock"
    <3>1. Stage(i) = "expected"
      BY <1>2, <2>1, StageOfOwn DEF OwnOf
    <3>2. row'[i].onHand > 0 /\ row'[i].hold = NoCase /\ row'[i].onHand \in Nat
      BY <2>4, <2>5
    <3> HIDE DEF k
    <3> QED BY <2>1, <2>3, <3>1, <3>2, StageOfOwn, AcceptedPasses
  <2>11. Advances(i)
    <3> HIDE DEF k
    <3> QED BY <2>4, <2>7, <2>10 DEF Advances
  <2>12. OwnOf(i)'
    <3>1. \A j \in Kinds : mrb'[<<i, j>>] = "NONE"
      BY <1>4, <2>2
    <3>2. row'[i].avail > 0 => Accepted(i)'
      <4> HIDE DEF k
      <4> QED BY <2>4, <2>7, AcceptedPasses
    <3>3. row'[i].hold = NoCase
      BY <2>4
    <3> HIDE DEF k, n, came, open, routed
    <3> QED BY <2>1, <2>3, <2>7, <2>8, <2>9, <3>1, <3>2, <3>3 DEF OwnOf
  <2> QED BY <2>11, <2>12
<1> QED BY <1>6, <1>7

\* On a row of its own an item is looked at alone.
LEMMA OnOwnRow ==
  ASSUME OwnInv, NEW i \in Items, Arrived(i)
  PROVE  On(rowOf[i]) = {i}
BY DEF OwnInv, OwnOf, On

\* An inspection that passes, or the missing signature.
LEMMA PassOwn ==
  ASSUME TypeOK, OwnInv, NEW i \in Items, NEW k \in Kinds, insp[i][k] = "PENDING",
         Settle([insp EXCEPT ![i][k] = "PASSED"], rowOf[i]),
         UNCHANGED <<dockVars, row, mrb, gone>>, NEW j \in Items
  PROVE  OwnOf(j)' /\ Advances(j)
<1> DEFINE ins == [insp EXCEPT ![i][k] = "PASSED"]
           r == rowOf[i]
<1>1. OwnOf(i) /\ OwnOf(j)
  BY DEF OwnInv
<1>2. Arrived(i) /\ On(r) = {i} /\ r = i
  BY <1>1, OnOwnRow DEF OwnOf
<1>3. status \in [Travelers -> Statuses] /\ insp \in [Items -> [Kinds -> InspStatuses]]
  BY DEF TypeOK, Statuses, InspStatuses
<1>4. /\ ins \in [Items -> [Kinds -> InspStatuses]] /\ \A x \in Items : x # i => ins[x] = insp[x]
      /\ ins[i][k] = "PASSED" /\ \A z \in Kinds : z # k => ins[i][z] = insp[i][z]
  BY <1>3 DEF InspStatuses
<1>5. "IN_INSPECTION" \in Open /\ "READY_TO_STOCK" \in Open
  BY DEF Open
<1>6. Settle(ins, r)
  OBVIOUS
<1> HIDE DEF ins, r
<1>7. \/ insp' = ins /\ status' = status
      \/ /\ AllPassed(ins, r) /\ NeedsFunctional(ins, r)
         /\ insp' = [ins EXCEPT ![i]["FUNCTIONAL"] = "PENDING"]
         /\ status' = Marked(r, "IN_INSPECTION")
      \/ /\ AllPassed(ins, r) /\ ~NeedsFunctional(ins, r)
         /\ insp' = ins /\ status' = Marked(r, "READY_TO_STOCK")
  BY <1>2, <1>6 DEF Settle
<1>8. \A x \in Items : x # i => insp'[x] = insp[x] /\ status'[x] = status[x]
  <2>1. \A x \in Items : x # i => rowOf[x] # r
    BY <1>2 DEF OwnInv, OwnOf
  <2>2. \A x \in Items : x # i => Marked(r, "IN_INSPECTION")[x] = status[x]
                                   /\ Marked(r, "READY_TO_STOCK")[x] = status[x]
    BY <1>3, <1>5, <2>1, MarkedItems
  <2> QED BY <1>4, <1>7, <2>2
<1>9. CASE j # i
  <2>1. Untouched(j)
    <3>1. \A z \in Kinds : mrb'[<<j, z>>] = mrb[<<j, z>>]
      OBVIOUS
    <3> QED BY <1>8, <1>9, <3>1 DEF Untouched, dockVars
  <2> QED BY <1>1, <2>1, UntouchedStays
<1>10. CASE j = i
  <2>1. /\ row' = row /\ rowOf' = rowOf /\ receipt' = receipt /\ owner' = owner /\ mrb' = mrb
        /\ Arrived(i)' = Arrived(i)
    BY DEF dockVars, Arrived
  <2>2. ~Accepted(i) /\ status[i] \notin {"READY_TO_STOCK", "COMPLETE"} /\ mrb[<<i, k>>] = "NONE"
    BY <1>1 DEF Accepted, OwnOf
  <2>3. Checks[i[2]] \in SUBSET {"QA", "TEST"} /\ i[2] \in Lines
    BY TravelersAreApart, ReceivingAssumption
  <2>4. Kinds = {"RECEIVING", "VISUAL", "GDT", "FUNCTIONAL"}
    BY DEF Kinds
  <2>5. AllPassed(ins, r) <=> \A z \in Kinds : ins[i][z] \in {"NONE", "PASSED"}
    BY <1>2 DEF AllPassed
  <2>6. NeedsFunctional(ins, r) <=>
          /\ "TEST" \in Checks[i[2]] /\ ins[i]["FUNCTIONAL"] = "NONE"
          /\ \E z \in {"VISUAL", "GDT"} : ins[i][z] # "NONE"
    BY <1>2 DEF NeedsFunctional
  <2>7. \/ insp'[i] = ins[i] /\ status'[i] = status[i]
        \/ /\ \A z \in Kinds : ins[i][z] \in {"NONE", "PASSED"}
           /\ "TEST" \in Checks[i[2]]
           /\ insp'[i]["FUNCTIONAL"] = "PENDING"
           /\ \A z \in Kinds : z # "FUNCTIONAL" => insp'[i][z] = ins[i][z]
           /\ status'[i] \in {status[i], "IN_INSPECTION"}
           /\ Checks[i[2]] = {} => status'[i] = status[i]
        \/ /\ insp'[i] = ins[i] /\ \A z \in Kinds : ins[i][z] \in {"NONE", "PASSED"}
           /\ ~NeedsFunctional(ins, r)
           /\ status'[i] \in {status[i], "READY_TO_STOCK"}
           /\ Checks[i[2]] = {} => status'[i] = status[i]
    <3>1. Checks[i[2]] = {} => status[i] \notin Open
      BY <1>1 DEF OwnOf, Open
    <3>2. /\ Marked(r, "IN_INSPECTION")[i] \in {status[i], "IN_INSPECTION"}
          /\ Marked(r, "READY_TO_STOCK")[i] \in {status[i], "READY_TO_STOCK"}
          /\ Checks[i[2]] = {} => /\ Marked(r, "IN_INSPECTION")[i] = status[i]
                                  /\ Marked(r, "READY_TO_STOCK")[i] = status[i]
      BY <1>3, <1>5, <3>1, MarkedItems
    <3>3. [ins EXCEPT ![i]["FUNCTIONAL"] = "PENDING"][i]["FUNCTIONAL"] = "PENDING"
          /\ \A z \in Kinds : z # "FUNCTIONAL" =>
               [ins EXCEPT ![i]["FUNCTIONAL"] = "PENDING"][i][z] = ins[i][z]
      BY <1>4, <2>4
    <3> QED BY <1>7, <2>5, <2>6, <3>2, <3>3
  <2>8. status'[i] = "READY_TO_STOCK" => Passes(i, insp'[i])
    <3> SUFFICES ASSUME status'[i] = "READY_TO_STOCK" PROVE Passes(i, insp'[i])
      OBVIOUS
    <3>1. /\ insp'[i] = ins[i] /\ \A z \in Kinds : ins[i][z] \in {"NONE", "PASSED"}
          /\ ~NeedsFunctional(ins, r)
      BY <2>2, <2>7
    <3>2. /\ "QA" \in Checks[i[2]] => ins[i]["VISUAL"] # "NONE" /\ ins[i]["GDT"] # "NONE"
          /\ "QA" \notin Checks[i[2]] /\ "TEST" \in Checks[i[2]] => ins[i]["FUNCTIONAL"] # "NONE"
      BY <1>1, <1>2, <1>4, <2>4 DEF OwnOf
    <3> QED BY <2>4, <2>6, <3>1, <3>2 DEF Passes
  <2>9. /\ Checks[i[2]] = {} => \A z \in Kinds : z # "RECEIVING" => insp'[i][z] = "NONE"
        /\ Checks[i[2]] # {} => insp'[i]["RECEIVING"] = "NONE"
    <3>1. Checks[i[2]] = {} => k = "RECEIVING" /\ \A z \in Kinds : z # "RECEIVING" => ins[i][z] = "NONE"
      BY <1>1, <1>4 DEF OwnOf
    <3>2. Checks[i[2]] # {} => k # "RECEIVING" /\ ins[i]["RECEIVING"] = "NONE"
      BY <1>1, <1>4, <2>4 DEF OwnOf
    <3> QED BY <2>4, <2>7, <3>1, <3>2
  <2>10. \A z \in Kinds : insp[i][z] # "NONE" => insp'[i][z] # "NONE"
    BY <1>4, <2>4, <2>7
  <2>11. \A z \in Kinds : insp[i][z] = "FAILED" => insp'[i][z] = "FAILED"
    BY <1>4, <2>7
  <2>12. OwnOf(i)'
    <3>1. Arrived(i)' /\ Arrived(i)
      BY <1>2, <2>1
    <3>2. Checks[i[2]] = {} => status'[i] = "NONE"
      BY <1>1, <2>7 DEF OwnOf
    <3>3. status'[i] # "COMPLETE"
      BY <2>2, <2>7
    <3>4. \E z \in Kinds : row[i].avail > 0 => mrb[<<i, z>>] = "USE_AS_IS"
      BY <1>1, <2>2 DEF OwnOf
    <3> HIDE DEF Open
    <3> QED BY <1>1, <2>1, <2>4, <2>8, <2>9, <2>10, <2>11, <3>1, <3>2, <3>3, <3>4, AcceptedPasses DEF OwnOf
  <2>13. Advances(i)
    <3>1. rowOf[i] = i /\ rowOf'[i] = i
      BY <1>1, <2>1 DEF OwnOf
    <3> QED BY <2>1, <2>2, <3>1, StageOfOwn DEF Advances
  <2> QED BY <1>10, <2>12, <2>13
<1> QED BY <1>9, <1>10

\* An inspection that fails.
LEMMA FailOwn ==
  ASSUME TypeOK, OwnInv, NEW i \in Items, NEW k \in Kinds, FailInspection(i, k), NEW j \in Items
  PROVE  OwnOf(j)' /\ Advances(j)
<1>1. OwnOf(i) /\ OwnOf(j) /\ rowOf[i] = i
  BY DEF OwnInv, OwnOf
<1>2. /\ insp[i][k] = "PENDING" /\ k # "RECEIVING" /\ <<i, k>> \in Cases
      /\ \A x \in Items : x # i => insp'[x] = insp[x] /\ row'[x] = row[x]
      /\ insp'[i][k] = "FAILED" /\ \A z \in Kinds : z # k => insp'[i][z] = insp[i][z]
      /\ row'[i] = Quarantined(row[i], <<i, k>>)
      /\ mrb'[<<i, k>>] = "OPEN" /\ \A c \in Cases : c # <<i, k>> => mrb'[c] = mrb[c]
      /\ UNCHANGED <<dockVars, status, gone>>
  BY <1>1 DEF FailInspection, TypeOK, Cases
<1>3. CASE j # i
  <2>1. \A z \in Kinds : mrb'[<<j, z>>] = mrb[<<j, z>>]
    <3>1. \A z \in Kinds : <<j, z>> \in Cases /\ <<j, z>> # <<i, k>>
      BY <1>3 DEF Cases
    <3> QED BY <1>2, <3>1
  <2>2. Untouched(j)
    BY <1>2, <1>3, <2>1 DEF Untouched, dockVars
  <2> QED BY <1>1, <2>2, UntouchedStays
<1>4. CASE j = i
  <2>1. /\ rowOf'[i] = i /\ Arrived(i)' = Arrived(i) /\ Arrived(i)
        /\ status'[i] = status[i] /\ owner' = owner
    BY <1>1, <1>2 DEF OwnOf, Arrived, dockVars
  <2>2. ~Accepted(i) /\ status[i] \notin {"READY_TO_STOCK", "COMPLETE"}
    BY <1>1, <1>2 DEF Accepted, OwnOf
  <2>3. Checks[i[2]] # {}
    BY <1>1, <1>2 DEF OwnOf
  <2>4. /\ row'[i].onHand = row[i].onHand /\ row'[i].avail = 0 /\ row'[i].hold = <<i, k>>
        /\ row'[i].place = "QUARANTINE" /\ <<i, k>> # NoCase /\ row[i].onHand \in Nat
    <3>1. <<i, k>> # NoCase
      BY <1>2, TravelersAreApart
    <3>2. row[i].onHand \in Nat
      BY DEF TypeOK, Row
    <3> QED BY <1>2, <3>1, <3>2 DEF Quarantined
  <2>5. Advances(i)
    <3>1. Stage(i)' = IF row[i].onHand = 0 THEN "gone" ELSE "held"
      <4>1. Arrived(i)' /\ rowOf'[i] = i /\ row'[i].hold # NoCase
        BY <2>1, <2>4
      <4>2. row'[i].onHand = row[i].onHand /\ row[i].onHand \in Nat
        BY <2>4
      <4> QED BY <4>1, <4>2, StageOfOwn
    <3>2. Stage(i) \in IF row[i].onHand = 0 THEN {"gone"} ELSE {"held", "stocked", "dock"}
      BY <1>1, <2>1, <2>2, <2>4, StageOfOwn
    <3> QED BY <2>3, <3>1, <3>2 DEF Advances
  <2>6. OwnOf(i)'
    <3>1. \A z \in Kinds : mrb'[<<i, z>>] # "NONE" => insp'[i][z] = "FAILED"
      <4> TAKE z \in Kinds
      <4>1. CASE z = k
        BY <1>2, <4>1
      <4>2. CASE z # k
        <5>1. <<i, z>> \in Cases /\ <<i, z>> # <<i, k>>
          BY <4>2 DEF Cases
        <5> QED BY <1>1, <1>2, <4>2, <5>1 DEF OwnOf
      <4> QED BY <4>1, <4>2
    <3>2. row'[i].hold[1] = i /\ mrb'[row'[i].hold] # "NONE"
      BY <1>2, <2>4
    <3>3. \A z \in Kinds : insp[i][z] # "NONE" => insp'[i][z] # "NONE"
      BY <1>2
    <3>4. insp'[i]["RECEIVING"] = "NONE"
      BY <1>1, <1>2, <2>3 DEF OwnOf, Kinds
    <3>5. "VISUAL" \in Kinds /\ "GDT" \in Kinds /\ "FUNCTIONAL" \in Kinds
      BY DEF Kinds
    <3> QED BY <1>1, <2>1, <2>2, <2>3, <2>4, <3>1, <3>2, <3>3, <3>4, <3>5 DEF OwnOf
  <2> QED BY <1>4, <2>5, <2>6
<1> QED BY <1>3, <1>4

\* A decision of the board.
LEMMA DispositionOwn ==
  ASSUME TypeOK, OwnInv, NEW c \in Cases, NEW d \in Dispositions, Disposition(c, d), NEW j \in Items
  PROVE  OwnOf(j)' /\ Advances(j)
<1>1. OwnOf(j)
  BY DEF OwnInv
<1>2. /\ mrb[c] = "OPEN" /\ mrb'[c] = d /\ \A e \in Cases : e # c => mrb'[e] = mrb[e]
      /\ d \notin {"NONE", "OPEN"}
      /\ UNCHANGED <<dockVars, insp, status>>
      /\ c = <<c[1], c[2]>> /\ c[1] \in Items /\ c[2] \in Kinds
      /\ row[j].onHand \in Nat /\ c # NoCase
  BY ReceivingAssumption, TravelersAreApart DEF Disposition, TypeOK, Row
<1>3. /\ rowOf'[j] = j /\ rowOf[j] = j /\ Arrived(j)' = Arrived(j) /\ Accepted(j)' = Accepted(j)
      /\ status' = status /\ insp' = insp /\ owner' = owner
  BY <1>1, <1>2 DEF OwnOf, Arrived, Accepted, dockVars
<1>4. \A z \in Kinds : mrb'[<<j, z>>] # "NONE" => insp'[j][z] = "FAILED"
  <2> TAKE z \in Kinds
  <2>1. <<j, z>> \in Cases
    BY DEF Cases
  <2>2. mrb'[<<j, z>>] # "NONE" => mrb[<<j, z>>] # "NONE"
    BY <1>2, <2>1
  <2> QED BY <1>1, <1>3, <2>2 DEF OwnOf
<1>5. \A z \in Kinds : mrb[<<j, z>>] = "USE_AS_IS" => mrb'[<<j, z>>] = "USE_AS_IS"
  <2> TAKE z \in Kinds
  <2>1. <<j, z>> \in Cases
    BY DEF Cases
  <2> QED BY <1>2, <2>1
<1>6. CASE row'[j] = row[j]
  <2>1. row[j].hold # NoCase => row[j].hold[1] = j /\ mrb'[row[j].hold] # "NONE"
    <3>1. row[j].hold # NoCase => row[j].hold \in Cases
      BY DEF TypeOK, Row
    <3> QED BY <1>1, <1>2, <3>1 DEF OwnOf
  <2>2. Stage(j)' = Stage(j)
    BY <1>3, <1>6, StageOfOwn
  <2>3. OwnOf(j)'
    BY <1>1, <1>3, <1>4, <1>5, <1>6, <2>1 DEF OwnOf
  <2> QED BY <2>2, <2>3 DEF Advances
<1>7. CASE row'[j] # row[j]
  <2>1. row[j].hold = c
    BY <1>7 DEF Disposition
  <2>2. c[1] = j /\ insp[j][c[2]] = "FAILED" /\ ~Accepted(j) /\ status[j] # "COMPLETE"
        /\ status[j] # "READY_TO_STOCK"
    <3>1. c[1] = j
      BY <1>1, <1>2, <2>1 DEF OwnOf
    <3>2. insp[j][c[2]] = "FAILED"
      BY <1>1, <1>2, <3>1 DEF OwnOf
    <3>3. ~Accepted(j)
      BY <1>2, <3>2 DEF Accepted
    <3> QED BY <1>1, <3>1, <3>2, <3>3 DEF OwnOf
  <2>3. Arrived(j)
    BY <1>1, <1>2, <2>2 DEF OwnOf
  <2>4. \/ row'[j].onHand = 0 /\ row'[j].avail = 0 /\ row'[j].hold = NoCase
        \/ row'[j] = OnShelf(row[j]) /\ d = "USE_AS_IS"
    BY <1>7 DEF Disposition, Freed
  <2>5. row'[j].avail > 0 => \E z \in Kinds : mrb'[<<j, z>>] = "USE_AS_IS"
    <3>1. row'[j].avail > 0 => d = "USE_AS_IS"
      BY <2>4
    <3>2. mrb'[<<j, c[2]>>] = d
      BY <1>2, <2>2
    <3> QED BY <1>2, <3>1, <3>2
  <2>6. row'[j].hold = NoCase
    BY <2>4 DEF OnShelf
  <2>7. OwnOf(j)'
    BY <1>1, <1>3, <1>4, <2>2, <2>3, <2>5, <2>6 DEF OwnOf
  <2>8. Advances(j)
    <3>1. row'[j] = OnShelf(row[j]) => row'[j].onHand = row[j].onHand /\ row'[j].place = "STORAGE"
      BY DEF OnShelf
    <3>2. Stage(j) = IF row[j].onHand = 0 THEN "gone" ELSE "held"
      BY <1>2, <1>3, <2>1, <2>3, StageOfOwn
    <3>3. Stage(j)' = IF row'[j].onHand = 0 THEN "gone" ELSE "stocked"
      <4>1. Arrived(j)' /\ rowOf'[j] = j /\ row'[j].hold = NoCase
        BY <1>3, <2>3, <2>6
      <4>2. \/ row'[j].onHand = 0
            \/ row'[j].onHand = row[j].onHand /\ row[j].onHand \in Nat /\ row'[j].place = "STORAGE"
        BY <1>2, <2>4, <3>1
      <4> QED BY <4>1, <4>2, StageOfOwn
    <3> QED BY <2>4, <3>1, <3>2, <3>3 DEF Advances
  <2> QED BY <2>7, <2>8
<1> QED BY <1>6, <1>7

\* What a put-away shelves has been accepted.
LEMMA ShelvedIsAccepted ==
  ASSUME OwnInv, NEW t \in Travelers, status[t] = "READY_TO_STOCK", NEW r \in RowsToShelve(t)
  PROVE  r \in Items /\ Accepted(r) /\ Arrived(r)
<1>1. CASE t \in Items /\ r = rowOf[t]
  BY <1>1 DEF OwnInv, OwnOf
<1>2. CASE \E i \in Items : /\ r = rowOf[i] /\ Arrived(i) /\ owner[i[1]] = t
                            /\ \E k \in Kinds : insp[i][k] = "PASSED"
  <2>1. PICK i \in Items : /\ r = rowOf[i] /\ Arrived(i) /\ owner[i[1]] = t
                           /\ \E k \in Kinds : insp[i][k] = "PASSED"
    BY <1>2
  <2>2. OwnOf(i) /\ r = i
    BY <2>1 DEF OwnInv, OwnOf
  <2>3. CASE Checks[i[2]] = {}
    <3>1. insp[i]["RECEIVING"] = "PASSED" /\ \A k \in Kinds : k # "RECEIVING" => insp[i][k] = "NONE"
      BY <2>1, <2>2, <2>3 DEF OwnOf
    <3> QED BY <2>1, <2>2, <2>3, <3>1 DEF Accepted
  <2>4. CASE Checks[i[2]] # {}
    <3>1. i = t
      BY <2>1, <2>2, <2>4 DEF OwnOf
    <3> QED BY <2>1, <2>2, <3>1 DEF OwnOf
  <2> QED BY <2>3, <2>4
<1> QED BY <1>1, <1>2 DEF RowsToShelve

\* A put-away.
LEMMA CompleteOwn ==
  ASSUME TypeOK, OwnInv, NEW t \in Travelers, CompletePutaway(t), NEW j \in Items
  PROVE  OwnOf(j)' /\ Advances(j)
<1> DEFINE rows == RowsToShelve(t)
           held == {r \in rows : Held(row[r])}
<1>1. OwnOf(j) /\ status[t] = "READY_TO_STOCK" /\ UNCHANGED <<dockVars, insp, mrb, gone>>
  BY DEF OwnInv, CompletePutaway, Stockable
<1>2. PICK done \in IF held = {} THEN {rows} ELSE SUBSET (rows \ held) :
         row' = [r \in Items |-> IF r \in done THEN OnShelf(row[r]) ELSE row[r]]
  BY DEF CompletePutaway
<1>3. \A r \in done : r \in Items /\ Accepted(r) /\ Arrived(r) /\ row[r].hold = NoCase
  BY <1>1, <1>2, ShelvedIsAccepted DEF Held
<1>4. status'[j] = IF held = {} /\ j = t THEN "COMPLETE" ELSE status[j]
  <2>1. [status EXCEPT ![t] = "COMPLETE"] \in [Travelers -> Statuses]
        /\ status \in [Travelers -> Statuses] /\ j \in Travelers
    BY TravelersAreApart DEF TypeOK, Statuses
  <2>2. [status EXCEPT ![t] = "COMPLETE"][j] = IF j = t THEN "COMPLETE" ELSE status[j]
    BY <2>1
  <2>3. Reconciled([status EXCEPT ![t] = "COMPLETE"], received)[j]
          = [status EXCEPT ![t] = "COMPLETE"][j]
    BY <2>1, ReconciledItems
  <2>4. status' = IF held # {} THEN status
               ELSE Reconciled([status EXCEPT ![t] = "COMPLETE"], received)
    BY DEF CompletePutaway
  <2> HIDE DEF held
  <2> QED BY <2>2, <2>3, <2>4
<1>5. status'[j] = "COMPLETE" => j \in done \/ status[j] = "COMPLETE"
  <2>1. held = {} /\ j = t => done = rows /\ j \in rows
    BY <1>1, <1>2 DEF RowsToShelve, OwnOf
  <2> HIDE DEF held, rows
  <2> QED BY <1>4, <2>1
<1>6. status'[j] # status[j] => status[j] = "READY_TO_STOCK" /\ status'[j] = "COMPLETE"
  BY <1>1, <1>4
<1>7. /\ rowOf'[j] = j /\ rowOf[j] = j /\ Arrived(j)' = Arrived(j) /\ Accepted(j)' = Accepted(j)
      /\ insp' = insp /\ owner' = owner /\ mrb' = mrb
  BY <1>1 DEF OwnOf, Arrived, Accepted, dockVars
<1> HIDE DEF held, rows
<1>8. CASE j \in done
  <2>1. /\ row'[j].place = "STORAGE" /\ row'[j].hold = NoCase /\ row'[j].onHand = row[j].onHand
        /\ row[j].hold = NoCase /\ Accepted(j) /\ Arrived(j)
    BY <1>2, <1>3, <1>8 DEF OnShelf
  <2>2. OwnOf(j)'
    BY <1>1, <1>6, <1>7, <2>1 DEF OwnOf
  <2>3. Advances(j)
    BY <1>7, <2>1, StageOfOwn DEF Advances
  <2> QED BY <2>2, <2>3
<1>9. CASE j \notin done
  <2>1. row'[j] = row[j]
    BY <1>2, <1>9
  <2>2. OwnOf(j)'
    BY <1>1, <1>5, <1>6, <1>7, <1>9, <2>1 DEF OwnOf
  <2>3. Stage(j)' = Stage(j)
    BY <1>7, <2>1, StageOfOwn
  <2> QED BY <2>2, <2>3 DEF Advances
<1> QED BY <1>8, <1>9

\* Every step keeps what the tables say of every item, and moves each item forward.
LEMMA StepOwn ==
  ASSUME TypeOK, FreshInv, OwnInv, OneInspectedLine, [Next]_vars, NEW j \in Items
  PROVE  OwnOf(j)' /\ Advances(j)
<1>0. OwnOf(j) /\ status \in [Travelers -> Statuses]
  BY DEF OwnInv, TypeOK, Statuses
<1>1. CASE UNCHANGED <<row, rowOf, insp, receipt, mrb, owner>> /\ status'[j] = status[j]
  <2>1. Untouched(j)
    BY <1>1 DEF Untouched
  <2> QED BY <1>0, <2>1, UntouchedStays
<1>2. CASE UNCHANGED vars
  BY <1>1, <1>2 DEF vars
<1>3. ASSUME NEW c \in Clerks, NEW t \in Travelers, BeginReceive(c, t) PROVE OwnOf(j)' /\ Advances(j)
  BY <1>1, <1>3 DEF BeginReceive
<1>4. CASE ShowRoot
  BY <1>0, <1>1, <1>4, ReconciledItems DEF ShowRoot, dockVars
<1>5. CASE ClosePo
  BY <1>1, <1>5 DEF ClosePo
<1>6. ASSUME NEW i \in Items, NEW k \in Kinds, PassInspection(i, k) PROVE OwnOf(j)' /\ Advances(j)
  BY <1>6, PassOwn DEF PassInspection
<1>7. ASSUME NEW i \in Items, AttestDock(i) PROVE OwnOf(j)' /\ Advances(j)
  <2>1. "RECEIVING" \in Kinds
    BY DEF Kinds
  <2> QED BY <1>7, <2>1, PassOwn DEF AttestDock
<1>8. ~PutAwayAllReceiving
  BY DEF PutAwayAllReceiving, OneInspectedLine
<1> QED BY <1>2, <1>3, <1>4, <1>5, <1>6, <1>7, <1>8, FinishOwn, FailOwn, DispositionOwn, CompleteOwn DEF Next

\* It holds at first, and then always.
LEMMA OwnAlways ==
  ASSUME OneInspectedLine PROVE Spec => []OwnInv
<1>1. Init => OwnInv
  <2> SUFFICES ASSUME Init, NEW i \in Items PROVE OwnOf(i)
    BY DEF OwnInv
  <2>1. /\ i[1] \in Receipts /\ i[2] \in Lines /\ i # Root /\ i \in Travelers
        /\ \A k \in Kinds : <<i, k>> \in Cases
    BY TravelersAreApart DEF Cases
  <2>2. /\ rowOf[i] = i /\ ~Arrived(i) /\ row[i] = NoRow /\ status[i] = "NONE"
        /\ \A k \in Kinds : insp[i][k] = "NONE" /\ mrb[<<i, k>>] = "NONE"
    BY <2>1 DEF Init, Arrived, Nothing
  <2>3. row[i].hold = NoCase /\ row[i].avail = 0 /\ "RECEIVING" \in Kinds
    BY <2>2 DEF NoRow, Kinds
  <2>4. ~(row[i].avail > 0)
    BY <2>3
  <2> HIDE DEF Init
  <2> QED BY Zenon, <2>2, <2>3, <2>4 DEF OwnOf
<1>2. TypeOK /\ FreshInv /\ OwnInv /\ [Next]_vars => OwnInv'
  BY StepOwn DEF OwnInv
<1> QED BY <1>1, <1>2, TypeCorrect, NothingEarly, PTL DEF Spec

\* "Putaway deferred until all linked inspections pass", where it is true: with rows
\* of their own and one inspected line, nothing uninspected is free to take unless
\* the board let it go, however many receive at once.
THEOREM OneLineStockedIsInspected ==
  ASSUME OneInspectedLine PROVE Spec => []StockedIsInspected
<1>1. OwnInv => StockedIsInspected
  <2> SUFFICES ASSUME OwnInv, NEW r \in Items, row[r].avail > 0
               PROVE  Released(r) \/ \A i \in On(r) : Accepted(i)
    BY DEF StockedIsInspected
  <2>1. OwnOf(r) /\ \A i \in On(r) : i = r
    BY DEF OwnInv, OwnOf, On
  <2>2. Arrived(r)
    BY <2>1 DEF OwnOf, NoRow
  <2>3. r \in On(r)
    BY <2>1, <2>2 DEF On, OwnOf
  <2> QED BY <2>1, <2>3 DEF OwnOf, Released
<1> QED BY <1>1, OwnAlways, PTL

\* There, a child traveler at READY_TO_STOCK or COMPLETE tells the truth about its
\* material (markTravelersForInventory, completeReceivingAfterInspection).
THEOREM OneLineTravelerTellsTruth ==
  ASSUME OneInspectedLine PROVE Spec => []TravelerTellsTruth
<1>1. OwnInv => TravelerTellsTruth
  BY DEF OwnInv, OwnOf, On, TravelerTellsTruth
<1> QED BY <1>1, OwnAlways, PTL

\* There, receiving implements GoodsInward: each of its steps brings, inspects or
\* stocks some deliveries in the order that GoodsInward allows.
THEOREM OneLineKeepsThePromise ==
  ASSUME OneInspectedLine PROVE Spec => PromiseOfReceiving
<1> DEFINE stages == [i \in Items |-> Stage(i)]
<1>1. Init => GoodsIn!Init
  <2> SUFFICES ASSUME Init PROVE GoodsIn!Init
    OBVIOUS
  <2>1. \A i \in Items : ~Arrived(i)
    BY TravelersAreApart DEF Init, Arrived, Nothing
  <2>2. \A i \in Items : Stage(i) = "expected"
    BY <2>1 DEF Stage
  <2> QED BY <2>2 DEF GoodsIn!Init
<1>2. TypeOK /\ FreshInv /\ OwnInv /\ [Next]_vars => GoodsIn!Next
  <2> SUFFICES ASSUME TypeOK, FreshInv, OwnInv, [Next]_vars PROVE GoodsIn!Next
    OBVIOUS
  <2>1. \A i \in Items : Stage(i)' \in GoodsIn!Stages
    <3> SUFFICES ASSUME NEW i \in Items PROVE Stage(i)' \in GoodsIn!Stages
      OBVIOUS
    <3>1. rowOf'[i] = i
      BY StepOwn DEF OwnOf
    <3> QED BY <3>1, StageOfOwn DEF GoodsIn!Stages
  <2>2. \A i \in Items : Advances(i)
    BY StepOwn
  <2>3. \A i \in Items : stages[i] = Stage(i) /\ stages'[i] = Stage(i)'
    OBVIOUS
  <2>4. stages' \in [Items -> GoodsIn!Stages]
    BY <2>1
  <2>5. \A i \in Items : stages'[i] # stages[i] => stages'[i] \in GoodsIn!Onward(i)
    <3> SUFFICES ASSUME NEW i \in Items, Stage(i)' # Stage(i) PROVE stages'[i] \in GoodsIn!Onward(i)
      BY <2>3
    <3>1. i \in {x \in Items : Checks[x[2]] # {}} <=> Checks[i[2]] # {}
      OBVIOUS
    <3>2. stages[i] = Stage(i) /\ stages'[i] = Stage(i)'
      BY <2>3
    <3>3. Advances(i)
      BY <2>2
    <3> HIDE DEF stages
    <3> QED BY <3>1, <3>2, <3>3 DEF Advances, GoodsIn!Onward, GoodsIn!Arrived, stages
  <2> QED BY <2>4, <2>5 DEF GoodsIn!Next
<1> QED BY <1>1, <1>2, TypeCorrect, NothingEarly, OwnAlways, PTL
        DEF Spec, PromiseOfReceiving, GoodsIn!Spec
=============================================================================
