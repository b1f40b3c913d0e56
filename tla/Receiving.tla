------------------------------- MODULE Receiving -------------------------------
(***************************************************************************)
(* From an issued purchase order to material on the shelf: the dock        *)
(* receipt, the family of receiving travelers it is split over, QA and     *)
(* test inspections, quarantine and the review board, and the put-away     *)
(* (supply-chain.ts, receiving.ts, receiving-inspection.ts and             *)
(* putAwayInventory).                                                      *)
(*                                                                         *)
(* One purchase order; each line has a part of its own.  A receipt is two  *)
(* steps, what it reads and what it writes, because the quantity it writes *)
(* on an order line is computed from the one it read.  The other handlers  *)
(* are one step each.  What leaves the shelf afterwards is not modelled.   *)
(***************************************************************************)
EXTENDS Integers, FiniteSets, Functions

CONSTANTS
  Lines,        \* lines of the purchase order
  Ordered,      \* [Lines -> Nat \ {0}]
  Checks,       \* [Lines -> SUBSET {"QA", "TEST"}], the flags of the part
  Clerks,       \* requests that may receive at the same time
  MaxReceipts,  \* bound: number of receipts
  SameLot,      \* input: may a delivery carry the lot number of an earlier one?
  PutAwayAllUsed, \* input: is the button "Put away all receiving" used?
  Dispositions, \* input: what the board decides
  Dock, NoCase  \* null values

ASSUME ReceivingAssumption ==
  /\ IsFiniteSet(Lines)
  /\ Ordered \in [Lines -> Nat \ {0}]
  /\ Checks \in [Lines -> SUBSET {"QA", "TEST"}]
  /\ MaxReceipts \in Nat
  /\ SameLot \in BOOLEAN /\ PutAwayAllUsed \in BOOLEAN
  /\ Dispositions \subseteq {"USE_AS_IS", "REWORK", "REPAIR", "SCRAP", "RETURN_TO_SUPPLIER"}

Receipts == 1 .. MaxReceipts

\* What one receipt brings of one line; also the name of the inventory row and of
\* the child traveler that it creates.
Items == Receipts \X Lines

\* The traveler of the order, the remainder traveler a receipt leaves behind, and
\* the child traveler of an item.
Root == <<0, Dock>>
Remainders == Receipts \X {Dock}
Travelers == {Root} \cup Remainders \cup Items

Kinds == {"RECEIVING", "VISUAL", "GDT", "FUNCTIONAL"}
Cases == Items \X Kinds
Open == {"WAITING", "PARTIAL", "IN_INSPECTION", "READY_TO_STOCK"}

ASSUME NullAssumption == Dock \notin Lines \cup Travelers /\ NoCase \notin Cases

VARIABLES
  po,        \* status of the purchase order
  received,  \* [Lines -> Nat], PurchaseOrderLine.quantityReceived
  receipt,   \* [Receipts -> [Lines -> Nat]], the quantities of the receipt lines
  last,      \* number of receipts
  rowOf,     \* [Items -> Items], the inventory row an item went to
  row,       \* [Items -> where it is, on hand, available, the case that holds it]
  insp,      \* [Items -> [Kinds -> status]], "NONE" where there is no inspection
  status,    \* [Travelers -> status], "NONE" where there is no traveler
  owner,     \* [Receipts -> Travelers], Receipt.travelerId
  mrb,       \* [Cases -> "NONE", "OPEN" or what the board decided]
  gone,      \* units scrapped or returned to the supplier
  call       \* [Clerks -> what a running receipt has read]

vars == <<po, received, receipt, last, rowOf, row, insp, status, owner, mrb, gone, call>>
dockVars == <<po, received, receipt, last, rowOf, owner, call>>

Row == [place : {"NONE", "RECEIVING", "STORAGE", "QUARANTINE"},
        onHand : Nat, avail : Nat, hold : Cases \cup {NoCase}]
NoRow == [place |-> "NONE", onHand |-> 0, avail |-> 0, hold |-> NoCase]
Nothing == [l \in Lines |-> 0]
Idle == [busy |-> FALSE, from |-> Root, qty |-> Nothing, seen |-> Nothing,
         dock |-> "placed"]

\* The receiver signs for a dock-only line and names a place for it, signs only, or
\* neither.
DockForms == {"placed", "signed", "unsigned"}

TypeOK ==
  /\ po \in {"ISSUED", "PARTIAL_RECEIPT", "RECEIVED", "CLOSED"}
  /\ received \in [Lines -> Nat]
  /\ receipt \in [Receipts -> [Lines -> Nat]]
  /\ last \in 0 .. MaxReceipts
  /\ rowOf \in [Items -> Items]
  /\ row \in [Items -> Row]
  /\ insp \in [Items -> [Kinds -> {"NONE", "PENDING", "PASSED", "FAILED"}]]
  /\ status \in [Travelers -> Open \cup {"NONE", "COMPLETE"}]
  /\ owner \in [Receipts -> Travelers]
  /\ mrb \in [Cases -> Dispositions \cup {"NONE", "OPEN"}]
  /\ gone \in Nat
  /\ call \in [Clerks -> [busy : BOOLEAN, from : Travelers, qty : [Lines -> Nat],
                          seen : [Lines -> Nat], dock : DockForms]]

Init ==
  /\ po = "ISSUED"
  /\ received = Nothing
  /\ receipt = [n \in Receipts |-> Nothing]
  /\ last = 0
  /\ rowOf = [i \in Items |-> i]
  /\ row = [i \in Items |-> NoRow]
  /\ insp = [i \in Items |-> [k \in Kinds |-> "NONE"]]
  /\ status = [t \in Travelers |-> IF t = Root THEN "WAITING" ELSE "NONE"]
  /\ owner = [n \in Receipts |-> Root]
  /\ mrb = [c \in Cases |-> "NONE"]
  /\ gone = 0
  /\ call = [c \in Clerks |-> Idle]

-----------------------------------------------------------------------------
(* Rows and travelers                                                      *)

Arrived(i) == receipt[i[1]][i[2]] > 0
On(r) == {i \in Items : Arrived(i) /\ rowOf[i] = r}

\* putAwayInventory; what is held is refused by the callers below.
OnShelf(q) == [place |-> "STORAGE", onHand |-> q.onHand, avail |-> q.onHand, hold |-> NoCase]

\* openNcrFromInspection: the whole row goes to the cage, whatever failed on it.
\* (Mutant: what is available is lowered, not cleared.)
QuarantinedByDecrement(q, c) ==
  [place |-> "QUARANTINE", onHand |-> q.onHand, avail |-> q.avail - q.onHand, hold |-> c]
Quarantined(q, c) == [place |-> "QUARANTINE", onHand |-> q.onHand, avail |-> 0, hold |-> c]

\* The root is complete when no other traveler of the family is open and nothing of
\* the order is; it is PARTIAL otherwise, as soon as there is a family.
Reconciled(s, rec) ==
  LET others == {t \in Travelers \ {Root} : s[t] \in Open}
      open   == \E l \in Lines : rec[l] < Ordered[l]
  IN  [s EXCEPT ![Root] = IF @ = "COMPLETE" THEN @
                          ELSE IF others = {} /\ ~open THEN "COMPLETE" ELSE "PARTIAL"]

\* (Mutant: the place of the row is looked at instead of its case.)
HeldUnlessInspected(q) == q.place = "RECEIVING" /\ q.hold # NoCase
Held(q) == q.hold # NoCase

-----------------------------------------------------------------------------
(* actionReceivePo                                                         *)

\* What the traveler's page calls canReceive.
CanReceive(t) ==
  /\ status[t] \in {"WAITING", "PARTIAL"}
  /\ \/ t \in Remainders
     \/ t = Root /\ \A u \in Travelers \ {Root} : status[u] \notin {"WAITING", "PARTIAL"}
  /\ po \in {"ISSUED", "PARTIAL_RECEIPT", "RECEIVED"}

\* Quantities are checked against the order as it is now, and more than is open is
\* cut to it.  A line without checks must be given a place.
BeginReceive(c, t) ==
  /\ ~call[c].busy /\ CanReceive(t)
  /\ \E q \in [Lines -> UNION {0 .. Ordered[l] : l \in Lines}], d \in DockForms :
       /\ \A l \in Lines : q[l] = 0 \/ q[l] <= Ordered[l] - received[l]
       /\ q # Nothing
       /\ (\A l \in Lines : q[l] > 0 => Checks[l] = {}) => d = "placed"
       /\ call' = [call EXCEPT ![c] =
            [busy |-> TRUE, from |-> t, qty |-> q, seen |-> received, dock |-> d]]
  /\ UNCHANGED <<po, received, receipt, last, rowOf, row, insp, status, owner, mrb, gone>>

\* (Mutant: the quantity of this receipt, not of all.)
NewQtyLatest(k, l) == k.qty[l]
NewQty(k, l) == k.seen[l] + k.qty[l]

\* Material of a lot that is at the dock already joins its row.  (Mutant: the row is
\* written over.)
JoinedOverwritten(old, qty) == qty
Joined(old, qty) == old + qty

DockRows(n, l) ==
  {<<n, l>>} \cup
  (IF SameLot THEN {r \in Items : r[2] = l /\ row[r].place = "RECEIVING"} ELSE {})

\* The inspections of a receipt line: QA first, test alone, or the dock's own.
Opened(l, dock) ==
  [k \in Kinds |->
     IF "QA" \in Checks[l] THEN IF k \in {"VISUAL", "GDT"} THEN "PENDING" ELSE "NONE"
     ELSE IF "TEST" \in Checks[l] THEN IF k = "FUNCTIONAL" THEN "PENDING" ELSE "NONE"
     ELSE IF k # "RECEIVING" THEN "NONE"
     ELSE IF dock = "unsigned" THEN "PENDING" ELSE "PASSED"]

\* splitTravelerAfterReceive: a child for each line that needs a check, one
\* remainder for what is open.  The source was marked IN_INSPECTION just before, if
\* anything was routed, so it is not found as the remainder to use again.
SplitTravelers(t, n, routed, open) ==
  LET marked == IF routed # {} THEN [status EXCEPT ![t] = "IN_INSPECTION"] ELSE status
      waiting == {u \in Remainders : marked[u] \in {"WAITING", "PARTIAL"}}
      ended == IF t = Root \/ open THEN "PARTIAL" ELSE "COMPLETE"
  IN  {[u \in Travelers |->
          IF u = t THEN ended
          ELSE IF u \in {<<n, l>> : l \in routed} THEN "IN_INSPECTION"
          ELSE IF u = rem THEN "WAITING" ELSE marked[u]] :
         rem \in IF ~open THEN {Dock} ELSE IF waiting = {} THEN {<<n, Dock>>} ELSE waiting}

\* syncReceivingTravelerStatus, when all is received and nothing was routed: dock
\* travelers are complete, whatever their children do.
SyncedTravelers ==
  [u \in Travelers |->
     IF u \notin Items /\ status[u] \in {"WAITING", "PARTIAL"} THEN "COMPLETE" ELSE status[u]]

\* The first child takes the receipt over; lines for QA come first.
FirstChildren(n, routed) ==
  LET qa == {l \in routed : "QA" \in Checks[l]}
  IN  {<<n, l>> : l \in IF qa = {} THEN routed ELSE qa}

FinishReceive(c) ==
  LET k == call[c]
      n == last + 1
      came == {l \in Lines : k.qty[l] > 0}
      routed == {l \in came : Checks[l] # {}}
      rec == [l \in Lines |-> IF l \in came THEN NewQty(k, l) ELSE received[l]]
      open == \E l \in Lines : rec[l] < Ordered[l]
  IN
  /\ k.busy /\ last < MaxReceipts
  /\ last' = n
  /\ receipt' = [receipt EXCEPT ![n] = k.qty]
  /\ received' = rec
  /\ po' = IF open THEN "PARTIAL_RECEIPT" ELSE "RECEIVED"
  /\ \E into \in [came -> Items] :
       /\ \A l \in came : into[l] \in DockRows(n, l)
       /\ rowOf' = [i \in Items |-> IF i[1] = n /\ i[2] \in came THEN into[i[2]] ELSE rowOf[i]]
       /\ row' = [r \in Items |->
            IF r[2] \in came /\ into[r[2]] = r
              THEN LET q == [place |-> "RECEIVING", onHand |-> Joined(row[r].onHand, k.qty[r[2]]),
                             avail |-> row[r].avail, hold |-> row[r].hold]
                   IN  IF r[2] \notin routed /\ k.dock = "placed" THEN OnShelf(q) ELSE q
              ELSE row[r]]
  /\ insp' = [i \in Items |->
       IF i[1] = n /\ i[2] \in came THEN Opened(i[2], k.dock) ELSE insp[i]]
  /\ IF routed # {} \/ open
       THEN status' \in SplitTravelers(k.from, n, routed, open)
       ELSE status' = SyncedTravelers
  /\ \E o \in IF routed = {} THEN {k.from} ELSE FirstChildren(n, routed) :
       owner' = [owner EXCEPT ![n] = o]
  /\ call' = [call EXCEPT ![c] = Idle]
  /\ UNCHANGED <<mrb, gone>>

-----------------------------------------------------------------------------
(* Inspections                                                             *)

\* tryCompleteInventoryReceivingInspections looks at all inspections of the row, of
\* whichever receipt.  (Mutant: only at failed ones.)
NothingFailed(ins, r) == \A i \in On(r), k \in Kinds : ins[i][k] # "FAILED"
AllPassed(ins, r) == \A i \in On(r), k \in Kinds : ins[i][k] \in {"NONE", "PASSED"}

NeedsFunctional(ins, r) ==
  /\ "TEST" \in Checks[r[2]]
  /\ \A i \in On(r) : ins[i]["FUNCTIONAL"] = "NONE"
  /\ \E i \in On(r), k \in {"VISUAL", "GDT"} : ins[i][k] # "NONE"

\* (Mutant: travelers that wait at the dock.)
MarkableAtDock == {"WAITING", "PARTIAL"}
Markable == Open

\* markTravelersForInventory: the open children of the row, and the root if it owns
\* a receipt of the row.  The root follows its children.
Marked(r, to) ==
  LET children == {u \in Items : rowOf[u] = r /\ status[u] \in Markable}
      roots == {Root} \cap {owner[i[1]] : i \in On(r)}
      s == [u \in Travelers |->
              IF u \in children \cup roots /\ status[u] \in Markable
                   /\ ~(to = "IN_INSPECTION" /\ status[u] = "READY_TO_STOCK")
                THEN to ELSE status[u]]
  IN  IF children = {} THEN s ELSE Reconciled(s, received)

\* What follows an inspection of row r: a functional test is opened for one of its
\* receipt lines, or its travelers go back to the dock, or nothing happens yet.
Settle(ins, r) ==
  IF ~AllPassed(ins, r)
    THEN insp' = ins /\ UNCHANGED status
  ELSE IF NeedsFunctional(ins, r)
    THEN /\ \E i \in On(r) : insp' = [ins EXCEPT ![i]["FUNCTIONAL"] = "PENDING"]
         /\ status' = Marked(r, "IN_INSPECTION")
  ELSE insp' = ins /\ status' = Marked(r, "READY_TO_STOCK")

\* completeReceivingInspection with PASS.
PassInspection(i, k) ==
  /\ k # "RECEIVING" /\ insp[i][k] = "PENDING"
  /\ Settle([insp EXCEPT ![i][k] = "PASSED"], rowOf[i])
  /\ UNCHANGED <<dockVars, row, mrb, gone>>

\* completeReceivingInspection with FAIL: a case is opened and the row is held.
FailInspection(i, k) ==
  /\ k # "RECEIVING" /\ insp[i][k] = "PENDING"
  /\ insp' = [insp EXCEPT ![i][k] = "FAILED"]
  /\ mrb' = [mrb EXCEPT ![<<i, k>>] = "OPEN"]
  /\ row' = [row EXCEPT ![rowOf[i]] = Quarantined(@, <<i, k>>)]
  /\ UNCHANGED <<dockVars, status, gone>>

\* attestDockAcceptance: the signature that was missing at the dock.
AttestDock(i) ==
  /\ insp[i]["RECEIVING"] = "PENDING"
  /\ Settle([insp EXCEPT ![i]["RECEIVING"] = "PASSED"], rowOf[i])
  /\ UNCHANGED <<dockVars, row, mrb, gone>>

-----------------------------------------------------------------------------
(* The review board                                                        *)

\* dispositionMrb acts on the rows the case still holds.  (Mutant: a repair frees
\* them.)
FreedEvenIfRepaired(d) == {"USE_AS_IS", "REPAIR"}
Freed(d) == {"USE_AS_IS"}

Disposition(c, d) ==
  LET held == {r \in Items : row[r].hold = c}
      lost == IF d \in {"SCRAP", "RETURN_TO_SUPPLIER"} THEN held ELSE {}
  IN
  /\ mrb[c] = "OPEN"
  /\ mrb' = [mrb EXCEPT ![c] = d]
  /\ row' = [r \in Items |->
       IF r \in lost THEN [place |-> row[r].place, onHand |-> 0, avail |-> 0, hold |-> NoCase]
       ELSE IF r \in held /\ d \in Freed(d) THEN OnShelf(row[r]) ELSE row[r]]
  /\ gone' = gone + SumFunction([r \in lost |-> row[r].onHand])
  /\ UNCHANGED <<dockVars, insp, status>>

-----------------------------------------------------------------------------
(* Back at the dock                                                        *)

\* The rows completeReceivingAfterInspection puts away: the traveler's own, and any
\* with a passed inspection on a receipt that the traveler owns.
RowsToShelve(t) ==
  {rowOf[i] : i \in {j \in Items : Arrived(j) /\ owner[j[1]] = t
                                     /\ \E k \in Kinds : insp[j][k] = "PASSED"}}
    \cup (IF t \in Items THEN {rowOf[t]} ELSE {})

\* A row that is held makes it throw, after the rows that came before it.
\* (Mutant: the traveler may still be in inspection.)
StockableAnyOpen == {"READY_TO_STOCK", "IN_INSPECTION"}
Stockable == {"READY_TO_STOCK"}

CompletePutaway(t) ==
  LET rows == RowsToShelve(t)
      held == {r \in rows : Held(row[r])}
  IN
  /\ status[t] \in Stockable
  /\ \E done \in IF held = {} THEN {rows} ELSE SUBSET (rows \ held) :
       row' = [r \in Items |-> IF r \in done THEN OnShelf(row[r]) ELSE row[r]]
  /\ status' = IF held # {} THEN status
               ELSE Reconciled([status EXCEPT ![t] = "COMPLETE"], received)
  /\ UNCHANGED <<dockVars, insp, mrb, gone>>

\* The button of the inventory page.
PutAwayAllReceiving ==
  /\ PutAwayAllUsed
  /\ row' = [r \in Items |->
       IF row[r].place = "RECEIVING" /\ row[r].onHand > 0 /\ ~Held(row[r])
         THEN OnShelf(row[r]) ELSE row[r]]
  /\ UNCHANGED <<dockVars, insp, status, mrb, gone>>

\* Showing the root traveler's page brings its status up to date.
ShowRoot ==
  /\ \E t \in Travelers \ {Root} : status[t] # "NONE"
  /\ status' = Reconciled(status, received)
  /\ UNCHANGED <<dockVars, row, insp, mrb, gone>>

\* closePurchaseOrderFromReceiving; what is still open is closed short.
ClosePo ==
  /\ po # "CLOSED"
  /\ po' = "CLOSED"
  /\ UNCHANGED <<received, receipt, last, rowOf, row, insp, status, owner, mrb, gone, call>>

Next ==
  \/ \E c \in Clerks, t \in Travelers : BeginReceive(c, t)
  \/ \E c \in Clerks : FinishReceive(c)
  \/ \E i \in Items, k \in Kinds : PassInspection(i, k) \/ FailInspection(i, k)
  \/ \E i \in Items : AttestDock(i)
  \/ \E c \in Cases, d \in Dispositions : Disposition(c, d)
  \/ \E t \in Travelers : CompletePutaway(t)
  \/ PutAwayAllReceiving \/ ShowRoot \/ ClosePo

Spec == Init /\ [][Next]_vars

\* Stations work off their queues, and the dock its list of travelers to stock.
FairSpec ==
  /\ Spec
  /\ \A i \in Items, k \in Kinds : WF_vars(PassInspection(i, k) \/ FailInspection(i, k))
  /\ \A t \in Travelers : WF_vars(CompletePutaway(t))

-----------------------------------------------------------------------------
(* Properties                                                              *)

Sum(f) == SumFunction(f)

\* The quantity received on an order line is the sum of its receipts ("allow
\* partials, never exceed open qty"): no receipt is forgotten and none is in excess.
ReceivedIsCounted ==
  \A l \in Lines :
    /\ received[l] = Sum([n \in Receipts |-> receipt[n][l]])
    /\ received[l] <= Ordered[l]

\* What arrived is on a row or was scrapped or returned: merging rows, splitting
\* travelers, holding and releasing lose no unit and make none.
UnitsAccounted ==
  Sum([r \in Items |-> row[r].onHand]) + gone
    = Sum([n \in Receipts |-> Sum(receipt[n])])

\* All inspections that the part's flags call for are there and passed.
Accepted(i) ==
  /\ \A k \in Kinds : insp[i][k] \in {"NONE", "PASSED"}
  /\ "QA" \in Checks[i[2]] => insp[i]["VISUAL"] = "PASSED" /\ insp[i]["GDT"] = "PASSED"
  /\ "TEST" \in Checks[i[2]] => insp[i]["FUNCTIONAL"] = "PASSED"

Released(r) == \E i \in On(r), k \in Kinds : mrb[<<i, k>>] = "USE_AS_IS"

\* "Putaway deferred until all linked inspections pass": units that kits and sales
\* may take have passed every check of their part, or the board has let them go.
StockedIsInspected ==
  \A r \in Items : row[r].avail > 0 => Released(r) \/ \A i \in On(r) : Accepted(i)

\* A child traveler that is sent back to be stocked has nothing left to inspect, and
\* one that is complete has its material on the shelf.
TravelerTellsTruth ==
  \A i \in Items :
    /\ status[i] = "READY_TO_STOCK" => \A j \in On(rowOf[i]) : Accepted(j)
    /\ status[i] = "COMPLETE" => row[rowOf[i]].place = "STORAGE"

\* Material that goes to inspection is stocked in the end, unless it fails.
InspectedGetsStocked ==
  \A i \in Items :
    status[i] = "IN_INSPECTION"
      ~> status[i] = "COMPLETE" \/ \E k \in Kinds : insp[i][k] = "FAILED"

\* What is held leaves the cage by a decision on the case that holds it, and not by
\* a receipt, a put-away or another inspection.
CageHolds ==
  [][\A r \in Items :
       row[r].hold # NoCase /\ row'[r].hold # row[r].hold =>
         \/ row'[r].place = "QUARANTINE" /\ row'[r].hold # NoCase
         \/ mrb[row[r].hold] = "OPEN" /\ mrb'[row[r].hold] # "OPEN"]_vars

Stage(i) ==
  CASE ~Arrived(i) -> "expected"
    [] Arrived(i) /\ row[rowOf[i]].onHand = 0 -> "gone"
    [] Arrived(i) /\ row[rowOf[i]].onHand > 0 /\ row[rowOf[i]].hold # NoCase -> "held"
    [] OTHER -> IF row[rowOf[i]].place = "STORAGE" THEN "stocked"
                ELSE IF Accepted(i) THEN "cleared" ELSE "dock"

GoodsIn == INSTANCE GoodsInward WITH
  Deliveries <- Items,
  Checked <- {i \in Items : Checks[i[2]] # {}},
  stage <- [i \in Items |-> Stage(i)]

\* Receiving keeps what GoodsInward promises: in particular nothing gets from the
\* dock to the shelf without being cleared, and nothing leaves the cage but by a
\* decision of the board.
PromiseOfReceiving == GoodsIn!Spec
=============================================================================
