------------------------ MODULE SalesFulfillment_proofs ------------------------
(***************************************************************************)
(* For every set of orders, lines, parts, rows and shipments, and every    *)
(* choice of inputs: the rows of stock stay accounted for, no line is      *)
(* planned beyond what was ordered, orders ship in full and are billed     *)
(* once, and so every step of SalesFulfillment is one of OrderPromise.     *)
(*                                                                         *)
(* IInv is inductive: the types need RowAccounting (putaway subtracts),    *)
(* RowAccounting needs the types (a work order's quantity becomes a row),  *)
(* and ShippedInFullAndBilledOnce needs that nothing has been shipped of   *)
(* an order that is not SHIPPED, which it says itself.                     *)
(***************************************************************************)
EXTENDS SalesFulfillment, StockRows_proofs

IInv ==
  /\ TypeOK
  /\ RowAccounting
  /\ NoOverPlanning
  /\ ShippedInFullAndBilledOnce

USE LinesAssumption, RowsAssumption, PartsAssumption, InputsAssumption, BoundsAssumption

-----------------------------------------------------------------------------
(* What the choices made inside the handlers are bounded by                *)

\* What a line is short of is a number of units, however much it has.
LEMMA ShortIsNat ==
  ASSUME TypeOK, NEW l \in Lines
  PROVE  Short(l) \in Nat
  BY DEF TypeOK, Short, Monus

\* The stock check allocates to a line at most what it is short of, and to a
\* line the plan skips nothing.
LEMMA AllocationBounds ==
  ASSUME TypeOK, NEW o \in Orders, NEW b \in BOOLEAN, NEW a \in Allocations(o, b),
         NEW l \in LinesOf(o)
  PROVE  a[l] \in Nat /\ a[l] <= (IF l \in Plannable(o) THEN Short(l) ELSE 0)
<1> DEFINE mates == {x \in LinesOf(o) : LinePart[x] = LinePart[l]}
           cap == [x \in mates |-> IF x \in Plannable(o) THEN Short(x) ELSE 0]
           f == [x \in mates |-> a[x]]
<1>1. l \in Lines /\ l \in mates /\ LinePart[l] \in Parts
  BY DEF LinesOf
<1>2. f \in Fills(cap, IF b THEN 0 ELSE AvailableQty(LinePart[l]))
  BY <1>1 DEF Allocations
<1>3. f \in Takes(cap)
  BY <1>2, FillsAreTakes
<1>4. \A x \in DOMAIN cap : cap[x] \in Nat
  BY ShortIsNat DEF LinesOf
<1>5. l \in DOMAIN cap
  BY <1>1
<1>6. f[l] \in Nat /\ f[l] <= cap[l]
  BY <1>3, <1>4, <1>5, TakesBounds
<1> QED BY <1>1, <1>6

\* The allocation takes from a row at most what is free there, and nothing from
\* the dock.
LEMMA DrawBounds ==
  ASSUME TypeOK, NEW a, NEW t \in Draws(a), NEW r \in Rows
  PROVE  /\ t[r] \in Nat /\ t[r] <= row[r].avail
         /\ where[r] = "RECEIVING" => t[r] = 0
<1> DEFINE cap == [x \in Rows |-> row[x].avail]
<1>1. t \in Takes(cap) /\ (t[r] > 0 => r \in Allocatable(RowPart[r]))
  BY DEF Draws
<1>2. \A x \in DOMAIN cap : cap[x] \in Nat
  BY DEF TypeOK, Quantities
<1>3. t[r] \in Nat /\ t[r] <= cap[r]
  BY <1>1, <1>2, TakesBounds
<1> QED BY <1>1, <1>3 DEF Allocatable

\* A release gives back at most what a row has committed.
LEMMA ReleaseBounds ==
  ASSUME TypeOK, NEW p \in Parts, NEW q,
         NEW t \in LargestFirst([r \in RowsOf(p) |-> row[r].commit], q), NEW r \in RowsOf(p)
  PROVE  t[r] \in Nat /\ t[r] <= row[r].commit
<1> DEFINE cap == [x \in RowsOf(p) |-> row[x].commit]
<1>1. t \in Takes(cap)
  BY FillsAreTakes DEF LargestFirst
<1>2. \A x \in DOMAIN cap : cap[x] \in Nat
  BY DEF TypeOK, Quantities, RowsOf
<1> QED BY <1>1, <1>2, TakesBounds

\* A shipment takes from a row at most its pool.
LEMMA PickBounds ==
  ASSUME TypeOK, NEW l \in Lines, NEW t \in Picks(l), NEW r \in DOMAIN t
  PROVE  r \in Rows /\ t[r] \in Nat /\ t[r] <= Pool(row[r])
<1> DEFINE cap == [x \in RowsOf(LinePart[l]) |-> Pool(row[x])]
<1>1. t \in Takes(cap)
  BY FillsAreTakes DEF Picks
<1>2. \A x \in DOMAIN cap : cap[x] \in Nat
  BY PoolBounds DEF TypeOK, RowsOf
<1>3. DOMAIN t = DOMAIN cap
  BY <1>1 DEF Takes
<1> QED BY <1>1, <1>2, <1>3, TakesBounds DEF RowsOf

\* Writing a status leaves every record well formed and every other one alone.
LEMMA OrderStatusWrite ==
  ASSUME TypeOK, NEW o \in Orders, NEW st \in OrderStatus,
         so' = [so EXCEPT ![o].status = st]
  PROVE  /\ so' \in [Orders -> [status : OrderStatus, deposit : DepositStatus, gate : BOOLEAN]]
         /\ so'[o].status = st /\ so'[o].deposit = so[o].deposit
         /\ \A x \in Orders : x # o => so'[x] = so[x]
<1>1. \A x \in Orders : so'[x] = IF x = o THEN [so[x] EXCEPT !.status = st] ELSE so[x]
  BY DEF TypeOK
<1>2. so' = [x \in Orders |-> so'[x]]
  BY DEF TypeOK
<1>3. so[o] \in [status : OrderStatus, deposit : DepositStatus, gate : BOOLEAN]
  BY DEF TypeOK
<1>4. /\ [so[o] EXCEPT !.status = st] \in
           [status : OrderStatus, deposit : DepositStatus, gate : BOOLEAN]
      /\ [so[o] EXCEPT !.status = st].status = st
      /\ [so[o] EXCEPT !.status = st].deposit = so[o].deposit
  BY <1>3
<1>5. \A x \in Orders :
        so'[x] \in [status : OrderStatus, deposit : DepositStatus, gate : BOOLEAN]
  BY <1>1, <1>4 DEF TypeOK
<1> QED BY <1>1, <1>2, <1>4, <1>5

\* The same for shipments.
LEMMA ShipmentStatusWrite ==
  ASSUME TypeOK, NEW s \in Shipments, NEW st \in ShipmentStatus,
         shp' = [shp EXCEPT ![s].status = st]
  PROVE  shp' \in [Shipments -> [order : Orders \cup {NoOrder}, status : ShipmentStatus,
                                 verified : BOOLEAN]]
<1>1. shp[s] \in [order : Orders \cup {NoOrder}, status : ShipmentStatus, verified : BOOLEAN]
  BY DEF TypeOK
<1>2. [shp[s] EXCEPT !.status = st] \in
        [order : Orders \cup {NoOrder}, status : ShipmentStatus, verified : BOOLEAN]
  BY <1>1
<1> QED BY <1>2 DEF TypeOK

\* The same for work orders.
LEMMA WorkOrderStatusWrite ==
  ASSUME TypeOK, NEW l \in Lines, NEW st \in WorkOrderStatus,
         wo' = [wo EXCEPT ![l].status = st]
  PROVE  /\ wo' \in [Lines -> [status : WorkOrderStatus, qty : Nat]]
         /\ wo'[l].status = st /\ wo'[l].qty = wo[l].qty
         /\ \A m \in Lines : m # l => wo'[m] = wo[m]
<1>1. wo[l] \in [status : WorkOrderStatus, qty : Nat]
  BY DEF TypeOK
<1>2. /\ [wo[l] EXCEPT !.status = st] \in [status : WorkOrderStatus, qty : Nat]
      /\ [wo[l] EXCEPT !.status = st].status = st
      /\ [wo[l] EXCEPT !.status = st].qty = wo[l].qty
  BY <1>1
<1> QED BY <1>2 DEF TypeOK

\* ensureShipmentForSalesOrder leaves records of shipments.
LEMMA EnsureShipmentType ==
  ASSUME TypeOK, NEW o \in Orders, NEW st, NEW ln, EnsureShipment(o, st, ln)
  PROVE  shp' \in [Shipments -> [order : Orders \cup {NoOrder}, status : ShipmentStatus,
                                 verified : BOOLEAN]]
<1>1. CASE UNCHANGED shp
  BY <1>1 DEF TypeOK
<1>2. CASE QueueNewShipment(o)
  BY <1>2 DEF TypeOK, QueueNewShipment, ShipmentStatus
<1> QED BY <1>1, <1>2 DEF EnsureShipment

-----------------------------------------------------------------------------
(* Init and the steps, one lemma for each handler that changes quantities  *)

\* The inductive invariant holds before the first order.
LEMMA InitIInv ==
  ASSUME Init PROVE IInv
<1>1. TypeOK
  BY BuiltIsBalanced DEF Init, TypeOK, OrderStatus, DepositStatus, FulfillmentStatus,
     WorkOrderStatus, ShipmentStatus, LocationType
<1>2. RowAccounting
  <2> SUFFICES ASSUME NEW r \in Rows
               PROVE  /\ Covered(row[r])
                      /\ IF where[r] = "RECEIVING"
                           THEN row[r].avail = 0 /\ row[r].commit = 0
                           ELSE Balanced(row[r])
    BY DEF RowAccounting
  <2>1. OpeningStock[r] \in Nat /\ row[r] = Built(OpeningStock[r], FALSE)
    BY DEF Init
  <2>2. where[r] = "RECEIVING" => OpeningStock[r] = 0
    BY DEF Init
  <2> QED BY <2>1, <2>2, BuiltIsBalanced
<1>3. NoOverPlanning
  BY DEF Init, NoOverPlanning, LiveWorkOrder
<1>4. ShippedInFullAndBilledOnce
  BY DEF Init, ShippedInFullAndBilledOnce, LinesOf
<1> QED BY <1>1, <1>2, <1>3, <1>4 DEF IInv

\* Planning keeps it: draws leave the rows balanced, and a new work order is for
\* no more than the line is short of.
LEMMA PlanKeeps ==
  ASSUME IInv, NEW o \in Orders, NEW b \in BOOLEAN, PlanSalesOrder(o, b)
  PROVE  IInv'
<1> USE DEF IInv
<1>1. PICK a \in Allocations(o, b) :
        /\ \E t \in Draws(a) : row' = [r \in Rows |-> Reserve(row[r], t[r])]
        /\ line' = PlannedLines(o, a)
        /\ wo' = [l \in Lines |-> IF l \in NewWorkOrders(o, a)
                                    THEN [status |-> "OPEN", qty |-> MakeQty(o, a, l)]
                                    ELSE wo[l]]
        /\ requested' = [l \in Lines |-> requested[l] +
                           (IF LinePart[l] \in BuyParts THEN MakeQty(o, a, l) ELSE 0)]
        /\ so' = [so EXCEPT ![o].status = PlannedStatus(o, a)]
        /\ UNCHANGED shp \/ EnsureShipment(o, "READY_TO_SHIP", PlannedLines(o, a))
  BY DEF PlanSalesOrder
<1>t. PICK t \in Draws(a) : row' = [r \in Rows |-> Reserve(row[r], t[r])]
  BY <1>1
<1>2. so[o].status \notin {"NONE", "SHIPPED"} /\ UNCHANGED <<where, invoices>>
  BY DEF PlanSalesOrder
<1>3. \A l \in Plannable(o) :
        /\ l \in Lines /\ LineOrder[l] = o /\ Short(l) \in Nat
        /\ a[l] \in Nat /\ a[l] <= Short(l)
  BY ShortIsNat, AllocationBounds DEF Plannable, LinesOf
<1>m. \A l \in Lines : MakeQty(o, a, l) \in Nat
  BY <1>3 DEF MakeQty
<1>4. TypeOK'
  <2>1. line' \in [Lines -> [fs : FulfillmentStatus, alloc : Nat, shipped : Nat]]
    BY <1>1, <1>3 DEF TypeOK, PlannedLines, PlannedLine, FulfillmentStatus
  <2>2. wo' \in [Lines -> [status : WorkOrderStatus, qty : Nat]]
    BY <1>1, <1>m DEF TypeOK, WorkOrderStatus
  <2>3. requested' \in [Lines -> Nat]
    BY <1>1, <1>m DEF TypeOK
  <2>4. row' \in [Rows -> Quantities]
    BY <1>t, DrawBounds, ReserveKeeps DEF TypeOK
  <2>5. /\ shp' \in [Shipments -> [order : Orders \cup {NoOrder}, status : ShipmentStatus,
                                  verified : BOOLEAN]]
        /\ so' \in [Orders -> [status : OrderStatus, deposit : DepositStatus, gate : BOOLEAN]]
    <3>1. PlannedStatus(o, a) \in OrderStatus
      BY DEF OrderStatus, PlannedStatus
    <3>2. so' \in [Orders -> [status : OrderStatus, deposit : DepositStatus, gate : BOOLEAN]]
      BY <1>1, <3>1, OrderStatusWrite
    <3>3. shp' \in [Shipments -> [order : Orders \cup {NoOrder}, status : ShipmentStatus,
                                  verified : BOOLEAN]]
      <4>1. CASE UNCHANGED shp
        BY <4>1 DEF TypeOK
      <4>2. CASE EnsureShipment(o, "READY_TO_SHIP", PlannedLines(o, a))
        BY <4>2, EnsureShipmentType
      <4> QED BY <1>1, <4>1, <4>2
    <3> QED BY <3>2, <3>3
  <2> QED BY <1>2, <2>1, <2>2, <2>3, <2>4, <2>5 DEF TypeOK
<1>5. RowAccounting'
  <2> SUFFICES ASSUME NEW r \in Rows
               PROVE  /\ Covered(row'[r])
                      /\ IF where[r] = "RECEIVING"
                           THEN row'[r].avail = 0 /\ row'[r].commit = 0
                           ELSE Balanced(row'[r])
    BY <1>2 DEF RowAccounting
  <2>1. row[r] \in Quantities /\ t[r] \in Nat /\ t[r] <= row[r].avail
    BY DrawBounds DEF TypeOK
  <2>2. where[r] = "RECEIVING" => t[r] = 0
    BY DrawBounds
  <2>3. row'[r] = Reserve(row[r], t[r])
    BY <1>t
  <2> QED BY <2>1, <2>2, <2>3, ReserveKeeps DEF RowAccounting
<1>6. NoOverPlanning'
  <2> SUFFICES ASSUME NEW l \in Lines
               PROVE  line'[l].alloc + (IF LiveWorkOrder(l)' THEN wo'[l].qty ELSE 0)
                        <= LineQty[l]
    BY DEF NoOverPlanning
  <2>1. CASE l \notin Plannable(o)
    BY <1>1, <2>1 DEF NoOverPlanning, LiveWorkOrder, PlannedLines, NewWorkOrders
  <2>2. CASE l \in Plannable(o)
    <3>1. line[l].alloc \in Nat /\ LineQty[l] \in Nat /\ wo[l].qty \in Nat
      BY DEF TypeOK
    <3>2. line'[l].alloc = line[l].alloc + a[l]
      BY <1>1, <2>2 DEF PlannedLines, PlannedLine
    <3>3. line[l].alloc <= LineQty[l]
      BY <3>1 DEF NoOverPlanning
    <3>4. Short(l) = LineQty[l] - line[l].alloc
      BY <3>1, <3>3 DEF Short, Monus
    <3>5. CASE Short(l) - a[l] > 0 /\ LinePart[l] \in MakeParts
      <4>1. wo'[l].qty = Short(l) - a[l]
        BY <1>1, <2>2, <3>5 DEF NewWorkOrders, MakeQty
      <4> QED BY <1>3, <2>2, <3>1, <3>2, <3>4, <4>1
    <3>6. CASE ~(Short(l) - a[l] > 0 /\ LinePart[l] \in MakeParts)
      <4>1. wo'[l] = wo[l]
        BY <1>1, <2>2, <3>6 DEF NewWorkOrders, MakeQty
      <4>2. LiveWorkOrder(l) => Short(l) = 0 /\ a[l] = 0
        BY <1>3, <2>2 DEF Plannable
      <4>3. CASE LiveWorkOrder(l)
        BY <3>1, <3>2, <4>1, <4>2, <4>3 DEF NoOverPlanning, LiveWorkOrder
      <4>4. CASE ~LiveWorkOrder(l)
        BY <1>3, <2>2, <3>1, <3>2, <3>4, <4>1, <4>4 DEF LiveWorkOrder
      <4> QED BY <4>3, <4>4
    <3> QED BY <3>5, <3>6
  <2> QED BY <2>1, <2>2
<1>7. ShippedInFullAndBilledOnce'
  <2>1. \A l \in Lines : line'[l].shipped = line[l].shipped
    BY <1>1 DEF PlannedLines, PlannedLine, TypeOK
  <2>2. \A x \in Orders : so'[x].status = "SHIPPED" <=> so[x].status = "SHIPPED"
    BY <1>1, <1>2 DEF TypeOK, PlannedStatus
  <2> QED BY <1>2, <2>1, <2>2 DEF ShippedInFullAndBilledOnce, LinesOf
<1> QED BY <1>4, <1>5, <1>6, <1>7

\* Releasing keeps it: what a row loses in commitments it gains in free stock, and
\* a line loses no more than it had.
LEMMA ReleaseKeeps ==
  ASSUME IInv, NEW p \in Parts, NEW named \in Orders \cup {NoOrder}, NEW qty,
         ReleaseCommitment(p, named, qty)
  PROVE  IInv'
<1> USE DEF IInv
<1>1. PICK t \in LargestFirst([r \in RowsOf(p) |-> row[r].commit], qty) :
        /\ row' = [r \in Rows |->
                     IF r \in RowsOf(p) THEN Unreserve(row[r], t[r]) ELSE row[r]]
        /\ \/ UNCHANGED line
           \/ \E c \in Fills([l \in {x \in LinesOf(named) : LinePart[x] = p} |-> line[l].alloc],
                             Total(t)) :
                line' = [l \in Lines |->
                           IF l \in {x \in LinesOf(named) : LinePart[x] = p}
                             THEN [line[l] EXCEPT !.alloc = @ - c[l]]
                             ELSE line[l]]
  BY Zenon DEF ReleaseCommitment
<1>2. UNCHANGED <<so, wo, requested, where, shp, invoices>>
  BY DEF ReleaseCommitment
<1>3. \A l \in Lines : /\ line'[l].fs = line[l].fs /\ line'[l].shipped = line[l].shipped
                       /\ line'[l].alloc \in Nat /\ line'[l].alloc <= line[l].alloc
                       /\ line'[l] \in [fs : FulfillmentStatus, alloc : Nat, shipped : Nat]
  <2>1. CASE UNCHANGED line
    BY <2>1 DEF TypeOK
  <2>2. ASSUME NEW c \in Fills([l \in {x \in LinesOf(named) : LinePart[x] = p} |-> line[l].alloc],
                               Total(t)),
               line' = [l \in Lines |->
                          IF l \in {x \in LinesOf(named) : LinePart[x] = p}
                            THEN [line[l] EXCEPT !.alloc = @ - c[l]]
                            ELSE line[l]]
        PROVE  \A l \in Lines : /\ line'[l].fs = line[l].fs
                                /\ line'[l].shipped = line[l].shipped
                                /\ line'[l].alloc \in Nat /\ line'[l].alloc <= line[l].alloc
                                /\ line'[l] \in [fs : FulfillmentStatus, alloc : Nat, shipped : Nat]
    <3> DEFINE mine == {x \in LinesOf(named) : LinePart[x] = p}
               cap == [l \in mine |-> line[l].alloc]
    <3>1. c \in Takes(cap)
      BY <2>2, FillsAreTakes
    <3>2. \A x \in DOMAIN cap : cap[x] \in Nat
      BY DEF TypeOK, LinesOf
    <3>3. \A x \in mine : c[x] \in Nat /\ c[x] <= line[x].alloc
      BY <3>1, <3>2, TakesBounds
    <3> SUFFICES ASSUME NEW l \in Lines
                 PROVE  /\ line'[l].fs = line[l].fs
                        /\ line'[l].shipped = line[l].shipped
                        /\ line'[l].alloc \in Nat /\ line'[l].alloc <= line[l].alloc
                        /\ line'[l] \in [fs : FulfillmentStatus, alloc : Nat, shipped : Nat]
      OBVIOUS
    <3>4. line[l] \in [fs : FulfillmentStatus, alloc : Nat, shipped : Nat]
      BY DEF TypeOK
    <3>5. CASE l \notin mine
      BY <2>2, <3>4, <3>5
    <3>6. CASE l \in mine
      <4>1. line'[l] = [line[l] EXCEPT !.alloc = @ - c[l]]
        BY <2>2, <3>6
      <4> QED BY <3>3, <3>4, <3>6, <4>1
    <3> QED BY <3>5, <3>6
  <2> QED BY <1>1, <2>1, <2>2
<1>4. \A r \in RowsOf(p) : r \in Rows /\ t[r] \in Nat /\ t[r] <= row[r].commit
  BY ReleaseBounds DEF RowsOf
<1>5. TypeOK'
  <2>1. line' \in [Lines -> [fs : FulfillmentStatus, alloc : Nat, shipped : Nat]]
    <3>1. line' = [l \in Lines |-> line'[l]]
      BY <1>1 DEF TypeOK
    <3> QED BY <1>3, <3>1
  <2>2. row' \in [Rows -> Quantities]
    BY <1>1, <1>4, UnreserveKeeps DEF TypeOK
  <2> QED BY <1>2, <2>1, <2>2 DEF TypeOK
<1>6. RowAccounting'
  <2> SUFFICES ASSUME NEW r \in Rows
               PROVE  /\ Covered(row'[r])
                      /\ IF where[r] = "RECEIVING"
                           THEN row'[r].avail = 0 /\ row'[r].commit = 0
                           ELSE Balanced(row'[r])
    BY <1>2 DEF RowAccounting
  <2>1. CASE r \notin RowsOf(p)
    BY <1>1, <2>1 DEF RowAccounting
  <2>2. CASE r \in RowsOf(p)
    <3>1. row'[r] = Unreserve(row[r], t[r]) /\ row[r] \in Quantities
      BY <1>1, <2>2 DEF TypeOK
    <3>2. where[r] = "RECEIVING" => t[r] = 0
      BY <1>4, <2>2 DEF RowAccounting
    <3> QED BY <1>4, <2>2, <3>1, <3>2, UnreserveKeeps DEF RowAccounting
  <2> QED BY <2>1, <2>2
<1>7. NoOverPlanning'
  <2> SUFFICES ASSUME NEW l \in Lines
               PROVE  line'[l].alloc + (IF LiveWorkOrder(l) THEN wo[l].qty ELSE 0) <= LineQty[l]
    BY <1>2 DEF NoOverPlanning, LiveWorkOrder
  <2>1. line[l].alloc \in Nat /\ wo[l].qty \in Nat /\ LineQty[l] \in Nat
    BY DEF TypeOK
  <2> QED BY <1>3, <2>1 DEF NoOverPlanning
<1>8. ShippedInFullAndBilledOnce'
  BY <1>2, <1>3 DEF ShippedInFullAndBilledOnce, LinesOf
<1> QED BY <1>5, <1>6, <1>7, <1>8

\* Receiving keeps it: the receipt stays unpromised at the dock.
LEMMA ReceiveKeeps ==
  ASSUME IInv, NEW r \in Rows, ReceiveStock(r)
  PROVE  IInv'
<1> USE DEF IInv
<1>1. PICK q \in ReceiptQtys : row' = [row EXCEPT ![r].onHand = @ + q]
  BY DEF ReceiveStock
<1>2. /\ q \in Nat /\ where' = [where EXCEPT ![r] = "RECEIVING"]
      /\ UNCHANGED <<so, line, wo, requested, shp, invoices>>
      /\ where[r] = "RECEIVING" \/ row[r] = EmptyRow
  BY DEF ReceiveStock
<1>3. row[r] \in Quantities /\ row[r].avail = 0 /\ row[r].commit = 0
  BY <1>2 DEF TypeOK, RowAccounting, EmptyRow
<1>4. TypeOK'
  <2>1. [row[r] EXCEPT !.onHand = @ + q] \in Quantities
    BY <1>2, <1>3 DEF Quantities
  <2>2. row' \in [Rows -> Quantities]
    BY <1>1, <2>1 DEF TypeOK
  <2> QED BY <1>2, <2>2 DEF TypeOK, LocationType
<1>5. RowAccounting'
  BY <1>1, <1>2, <1>3 DEF TypeOK, RowAccounting, Quantities, Covered, Balanced
<1>6. NoOverPlanning' /\ ShippedInFullAndBilledOnce'
  BY <1>2 DEF NoOverPlanning, LiveWorkOrder, ShippedInFullAndBilledOnce, LinesOf
<1> QED BY <1>4, <1>5, <1>6

\* Putting away keeps it: shelving balances the row.
LEMMA PutAwayKeeps ==
  ASSUME IInv, NEW r \in Rows, PutAway(r)
  PROVE  IInv'
<1> USE DEF IInv
<1>1. PICK dest \in PutAwayAreas : where' = [where EXCEPT ![r] = dest]
  BY DEF PutAway
<1>2. /\ dest \in {"STORAGE", "GFP"} /\ row' = [row EXCEPT ![r] = Shelved(@)]
      /\ UNCHANGED <<so, line, wo, requested, shp, invoices>>
  BY DEF PutAway
<1>3. /\ Shelved(row[r]) \in Quantities
      /\ Covered(Shelved(row[r])) /\ Balanced(Shelved(row[r]))
  BY ShelvedIsBalanced DEF TypeOK, RowAccounting
<1>4. TypeOK'
  BY <1>1, <1>2, <1>3 DEF TypeOK, LocationType
<1>5. RowAccounting'
  BY <1>1, <1>2, <1>3 DEF TypeOK, RowAccounting
<1>6. NoOverPlanning' /\ ShippedInFullAndBilledOnce'
  BY <1>2 DEF NoOverPlanning, LiveWorkOrder, ShippedInFullAndBilledOnce, LinesOf
<1> QED BY <1>4, <1>5, <1>6

\* A build that comes back keeps it: its units move from in production to
\* allocated, in a row that was empty.
LEMMA CompleteToStockKeeps ==
  ASSUME IInv, NEW l \in Lines, NEW r \in Rows, CompleteToStock(l, r)
  PROVE  IInv'
<1> USE DEF IInv
<1> DEFINE alloc == line[l].alloc + wo[l].qty
           ln == [line EXCEPT ![l] =
                    [fs |-> IF alloc >= LineQty[l] THEN "READY" ELSE "PARTIAL",
                     alloc |-> alloc, shipped |-> @.shipped]]
<1>1. /\ wo[l].status = "READY_FOR_PUTAWAY"
      /\ row' = [row EXCEPT ![r] = Built(wo[l].qty, TRUE)]
      /\ where' = [where EXCEPT ![r] = "STORAGE"]
      /\ wo' = [wo EXCEPT ![l].status = "COMPLETED"]
      /\ line' = ln /\ SyncReadyStatus(LineOrder[l], ln)
      /\ UNCHANGED <<requested, invoices>>
  BY DEF CompleteToStock
<1>2. /\ LineOrder[l] \in Orders /\ wo[l].qty \in Nat /\ line[l].alloc \in Nat
      /\ LineQty[l] \in Nat /\ line[l].shipped \in Nat
  BY DEF TypeOK
<1>3. /\ Built(wo[l].qty, TRUE) \in Quantities
      /\ Covered(Built(wo[l].qty, TRUE)) /\ Balanced(Built(wo[l].qty, TRUE))
  BY <1>2, BuiltIsBalanced
<1>4. \/ UNCHANGED <<so, shp>>
      \/ /\ so[LineOrder[l]].status \notin {"NONE", "SHIPPED"}
         /\ so' = [so EXCEPT ![LineOrder[l]].status = "READY_TO_SHIP"]
         /\ EnsureShipment(LineOrder[l], "READY_TO_SHIP", ln)
  BY <1>1 DEF SyncReadyStatus
<1>5. TypeOK'
  <2>1. line' \in [Lines -> [fs : FulfillmentStatus, alloc : Nat, shipped : Nat]]
    BY <1>1, <1>2 DEF TypeOK, FulfillmentStatus
  <2>2. wo' \in [Lines -> [status : WorkOrderStatus, qty : Nat]]
    BY <1>1, WorkOrderStatusWrite DEF WorkOrderStatus
  <2>3. row' \in [Rows -> Quantities] /\ where' \in [Rows -> LocationType]
    BY <1>1, <1>3 DEF TypeOK, LocationType
  <2>4. /\ shp' \in [Shipments -> [order : Orders \cup {NoOrder}, status : ShipmentStatus,
                                   verified : BOOLEAN]]
        /\ so' \in [Orders -> [status : OrderStatus, deposit : DepositStatus, gate : BOOLEAN]]
    <3>1. CASE UNCHANGED <<so, shp>>
      BY <3>1 DEF TypeOK
    <3>2. CASE ~UNCHANGED <<so, shp>>
      <4>1. "READY_TO_SHIP" \in OrderStatus
        BY DEF OrderStatus
      <4> QED BY <1>2, <1>4, <3>2, <4>1, EnsureShipmentType, OrderStatusWrite
    <3> QED BY <3>1, <3>2
  <2> QED BY <1>1, <2>1, <2>2, <2>3, <2>4 DEF TypeOK
<1>6. RowAccounting'
  BY <1>1, <1>3 DEF TypeOK, RowAccounting
<1>7. NoOverPlanning'
  <2> SUFFICES ASSUME NEW m \in Lines
               PROVE  line'[m].alloc + (IF LiveWorkOrder(m)' THEN wo'[m].qty ELSE 0)
                        <= LineQty[m]
    BY DEF NoOverPlanning
  <2>1. CASE m # l
    BY <1>1, <2>1 DEF TypeOK, NoOverPlanning, LiveWorkOrder
  <2>2. CASE m = l
    <3>1. LiveWorkOrder(l) /\ ~LiveWorkOrder(l)'
      BY <1>1 DEF LiveWorkOrder, TypeOK
    <3>2. line'[l].alloc = line[l].alloc + wo[l].qty
      BY <1>1 DEF TypeOK
    <3>3. line[l].alloc + wo[l].qty <= LineQty[l]
      BY <3>1 DEF NoOverPlanning
    <3> QED BY <1>2, <2>2, <3>1, <3>2, <3>3
  <2> QED BY <2>1, <2>2
<1>8. ShippedInFullAndBilledOnce'
  <2>1. \A m \in Lines : line'[m].shipped = line[m].shipped
    BY <1>1 DEF TypeOK
  <2>2. \A x \in Orders : so'[x].status = "SHIPPED" <=> so[x].status = "SHIPPED"
    <3>1. CASE UNCHANGED so
      BY <3>1
    <3>2. CASE ~UNCHANGED so
      <4>1. "READY_TO_SHIP" \in OrderStatus
        BY DEF OrderStatus
      <4> QED BY <1>2, <1>4, <3>2, <4>1, OrderStatusWrite
    <3> QED BY <3>1, <3>2
  <2> QED BY <1>1, <2>1, <2>2 DEF ShippedInFullAndBilledOnce, LinesOf
<1> QED BY <1>5, <1>6, <1>7, <1>8

\* Shipping keeps it: a row gives up at most its pool, and the lines, the order and
\* the invoice close together.
LEMMA ShipKeeps ==
  ASSUME IInv, NEW o \in Orders, NEW s \in Shipments, NEW force \in BOOLEAN,
         ShipSalesOrder(o, s, force)
  PROVE  IInv'
<1> USE DEF IInv
<1>1. PICK k \in PickPlans(o) : \E last \in LastTakers(o, k) : row' = RowsIssued(o, k, last)
  BY DEF ShipSalesOrder
<1>2. PICK last \in LastTakers(o, k) : row' = RowsIssued(o, k, last)
  BY <1>1
<1>3. /\ line' = [l \in Lines |->
            IF l \in Needy(o)
              THEN [fs |-> "SHIPPED", alloc |-> line[l].alloc, shipped |-> LineQty[l]]
              ELSE line[l]]
      /\ shp' = [shp EXCEPT ![s].status = "SHIPPED"]
      /\ so' = [so EXCEPT ![o].status = "SHIPPED"]
      /\ invoices' = [invoices EXCEPT ![o] = IF @ = 0 THEN 1 ELSE @]
      /\ UNCHANGED <<wo, requested, where>>
  BY DEF ShipSalesOrder, Billed
<1>4. \A r \in Rows : \/ row'[r] = row[r]
                      \/ \E n \in Nat : n <= Pool(row[r]) /\ row'[r] = IssueCommitted(row[r], n)
  <2> SUFFICES ASSUME NEW r \in Rows
               PROVE  \/ row'[r] = row[r]
                      \/ \E n \in Nat : /\ n <= Pool(row[r])
                                        /\ row'[r] = IssueCommitted(row[r], n)
    OBVIOUS
  <2>1. CASE Takers(o, k, r) = {}
    BY <1>2, <2>1 DEF RowsIssued
  <2>2. CASE Takers(o, k, r) # {}
    <3>1. row'[r] = IssueCommitted(row[r], k[last[r]][r]) /\ last[r] \in Takers(o, k, r)
      BY <1>2, <2>2 DEF RowsIssued, LastTakers
    <3>2. last[r] \in Lines /\ k[last[r]] \in Picks(last[r]) /\ r \in DOMAIN k[last[r]]
      BY <3>1 DEF Takers, PickPlans, Needy, LinesOf
    <3>3. k[last[r]][r] \in Nat /\ k[last[r]][r] <= Pool(row[r])
      BY <3>2, PickBounds
    <3> QED BY <3>1, <3>3
  <2> QED BY <2>1, <2>2
<1>5. \A r \in Rows : /\ row'[r] \in Quantities /\ Covered(row'[r])
                      /\ Balanced(row[r]) => Balanced(row'[r])
                      /\ row[r].avail = 0 /\ row[r].commit = 0 =>
                           row'[r].avail = 0 /\ row'[r].commit = 0
  BY <1>4, IssueKeeps DEF TypeOK, RowAccounting
<1>6. TypeOK'
  <2>1. line' \in [Lines -> [fs : FulfillmentStatus, alloc : Nat, shipped : Nat]]
    BY <1>3 DEF TypeOK, FulfillmentStatus
  <2>2. row' \in [Rows -> Quantities]
    <3>1. row' = [r \in Rows |-> row'[r]]
      BY <1>2 DEF RowsIssued
    <3> QED BY <1>5, <3>1
  <2>3. shp' \in [Shipments -> [order : Orders \cup {NoOrder}, status : ShipmentStatus,
                                verified : BOOLEAN]]
    BY <1>3, ShipmentStatusWrite DEF ShipmentStatus
  <2>4. so' \in [Orders -> [status : OrderStatus, deposit : DepositStatus, gate : BOOLEAN]]
    BY <1>3, OrderStatusWrite DEF OrderStatus
  <2>5. invoices' \in [Orders -> Nat]
    BY <1>3 DEF TypeOK
  <2> QED BY <1>3, <2>1, <2>2, <2>3, <2>4, <2>5 DEF TypeOK
<1>7. RowAccounting'
  BY <1>3, <1>5 DEF RowAccounting
<1>8. NoOverPlanning'
  <2>1. \A l \in Lines : line'[l].alloc = line[l].alloc
    BY <1>3 DEF TypeOK
  <2> QED BY <1>3, <2>1 DEF NoOverPlanning, LiveWorkOrder
<1>9. ShippedInFullAndBilledOnce'
  <2> SUFFICES ASSUME NEW x \in Orders
               PROVE  IF so'[x].status = "SHIPPED"
                        THEN invoices'[x] = 1 /\ \A l \in LinesOf(x) : line'[l].shipped = LineQty[l]
                        ELSE invoices'[x] = 0 /\ \A l \in LinesOf(x) : line'[l].shipped = 0
    BY DEF ShippedInFullAndBilledOnce, LinesOf
  <2>1. CASE x = o
    <3>1. so'[x].status = "SHIPPED" /\ invoices'[x] = 1
      BY <1>3, <2>1 DEF TypeOK, ShippedInFullAndBilledOnce
    <3>2. \A l \in LinesOf(x) : line'[l].shipped = LineQty[l]
      <4> SUFFICES ASSUME NEW l \in LinesOf(x) PROVE line'[l].shipped = LineQty[l]
        OBVIOUS
      <4>1. l \in Lines /\ LineQty[l] \in Nat /\ LineQty[l] > 0
        BY DEF LinesOf
      <4>2. line[l].shipped = 0 \/ line[l].shipped = LineQty[l]
        BY <2>1 DEF ShippedInFullAndBilledOnce
      <4>3. CASE l \in Needy(o)
        BY <1>3, <4>1, <4>3
      <4>4. CASE l \notin Needy(o)
        BY <1>3, <2>1, <4>1, <4>2, <4>4 DEF Needy, Need, Monus
      <4> QED BY <4>3, <4>4
    <3> QED BY <3>1, <3>2
  <2>2. CASE x # o
    <3>1. \A l \in LinesOf(x) : line'[l] = line[l]
      BY <1>3, <2>2 DEF Needy, LinesOf
    <3>2. so'[x] = so[x] /\ invoices'[x] = invoices[x]
      BY <1>3, <2>2, OrderStatusWrite DEF OrderStatus, TypeOK
    <3> QED BY <3>1, <3>2 DEF ShippedInFullAndBilledOnce
  <2> QED BY <2>1, <2>2
<1> QED BY <1>6, <1>7, <1>8, <1>9

-----------------------------------------------------------------------------
(* The handlers that change statuses only                                  *)

\* Creating an order, its deposit, its date and its queueing keep it.
LEMMA OrderHandlersKeep ==
  ASSUME IInv, NEW o \in Orders,
         CreateSalesOrder(o) \/ UpdateDepositStatus(o) \/ DateArrives(o)
  PROVE  /\ IInv'
         /\ \A x \in Orders : x # o => so'[x] = so[x]
         /\ \/ CreateSalesOrder(o) /\ so'[o].status = "OPEN"
            \/ UpdateDepositStatus(o) /\ so'[o].status = so[o].status
            \/ DateArrives(o) /\ so'[o].status = so[o].status /\ so'[o].deposit = so[o].deposit
<1> DEFINE T == [status : OrderStatus, deposit : DepositStatus, gate : BOOLEAN]
<1>1. UNCHANGED <<line, wo, requested, row, where, shp, invoices>>
  BY DEF CreateSalesOrder, UpdateDepositStatus, DateArrives
<1>2. so[o] \in T
  BY DEF IInv, TypeOK
<1>3. PICK rec \in T :
        /\ so' = [so EXCEPT ![o] = rec]
        /\ \/ CreateSalesOrder(o) /\ rec.status = "OPEN" /\ so[o].status = "NONE"
           \/ UpdateDepositStatus(o) /\ rec.status = so[o].status
           \/ DateArrives(o) /\ rec.status = so[o].status /\ rec.deposit = so[o].deposit
  <2>1. CASE CreateSalesOrder(o)
    BY <2>1 DEF CreateSalesOrder, OrderStatus, DepositStatus
  <2>2. CASE UpdateDepositStatus(o)
    <3>1. PICK d \in {"PENDING", "RECEIVED", "WAIVED"} : so' = [so EXCEPT ![o].deposit = d]
      BY <2>2 DEF UpdateDepositStatus
    <3>2. /\ [so[o] EXCEPT !.deposit = d] \in T
          /\ [so[o] EXCEPT !.deposit = d].status = so[o].status
      BY <1>2 DEF DepositStatus
    <3>3. so' = [so EXCEPT ![o] = [so[o] EXCEPT !.deposit = d]]
      BY <3>1 DEF IInv, TypeOK
    <3> QED BY <2>2, <3>2, <3>3
  <2>3. CASE DateArrives(o)
    <3>1. so' = [so EXCEPT ![o].gate = FALSE]
      BY <2>3 DEF DateArrives
    <3>2. /\ [so[o] EXCEPT !.gate = FALSE] \in T
          /\ [so[o] EXCEPT !.gate = FALSE].status = so[o].status
          /\ [so[o] EXCEPT !.gate = FALSE].deposit = so[o].deposit
      BY <1>2
    <3>3. so' = [so EXCEPT ![o] = [so[o] EXCEPT !.gate = FALSE]]
      BY <3>1 DEF IInv, TypeOK
    <3> QED BY <2>3, <3>2, <3>3
  <2> QED BY <2>1, <2>2, <2>3
<1>4. so'[o] = rec /\ \A x \in Orders : x # o => so'[x] = so[x]
  BY <1>3 DEF IInv, TypeOK
<1>5. so' \in [Orders -> T]
  BY <1>3 DEF IInv, TypeOK
<1>6. \A x \in Orders : so'[x].status = "SHIPPED" <=> so[x].status = "SHIPPED"
  BY <1>3, <1>4
<1>7. TypeOK'
  BY <1>1, <1>5 DEF IInv, TypeOK
<1>8. RowAccounting' /\ NoOverPlanning'
  BY <1>1 DEF IInv, RowAccounting, NoOverPlanning, LiveWorkOrder
<1>9. ShippedInFullAndBilledOnce'
  BY <1>1, <1>6 DEF IInv, ShippedInFullAndBilledOnce, LinesOf
<1> QED BY <1>3, <1>4, <1>7, <1>8, <1>9 DEF IInv

\* A work order that goes to receiving or is closed by the agent keeps it.
LEMMA WorkOrderHandlersKeep ==
  ASSUME IInv, NEW l \in Lines, SendToReceiving(l) \/ AgentFinishes(l)
  PROVE  IInv'
<1> USE DEF IInv
<1>1. /\ LiveWorkOrder(l)
      /\ \E st \in {"READY_FOR_PUTAWAY", "COMPLETED"} : wo' = [wo EXCEPT ![l].status = st]
      /\ UNCHANGED <<so, line, requested, row, where, shp, invoices>>
  BY DEF SendToReceiving, AgentFinishes, LiveWorkOrder
<1>2. PICK st \in {"READY_FOR_PUTAWAY", "COMPLETED"} : wo' = [wo EXCEPT ![l].status = st]
  BY <1>1
<1>3. /\ wo' \in [Lines -> [status : WorkOrderStatus, qty : Nat]]
      /\ wo'[l].qty = wo[l].qty
      /\ \A m \in Lines : m # l => wo'[m] = wo[m]
  BY <1>2, WorkOrderStatusWrite DEF WorkOrderStatus
<1>4. NoOverPlanning'
  <2> SUFFICES ASSUME NEW m \in Lines
               PROVE  line[m].alloc + (IF LiveWorkOrder(m)' THEN wo'[m].qty ELSE 0) <= LineQty[m]
    BY <1>1 DEF NoOverPlanning
  <2>1. line[m].alloc \in Nat /\ wo[m].qty \in Nat
    BY DEF TypeOK
  <2>2. line[m].alloc + (IF LiveWorkOrder(m) THEN wo[m].qty ELSE 0) <= LineQty[m]
    BY DEF NoOverPlanning
  <2>3. CASE m = l
    BY <1>1, <1>3, <2>1, <2>2, <2>3
  <2>4. CASE m # l
    BY <1>3, <2>2, <2>4 DEF LiveWorkOrder
  <2> QED BY <2>3, <2>4
<1>5. TypeOK' /\ RowAccounting' /\ ShippedInFullAndBilledOnce'
  BY <1>1, <1>3 DEF TypeOK, RowAccounting, ShippedInFullAndBilledOnce, LinesOf
<1> QED BY <1>4, <1>5

\* Manual shipments, verified lists and packing keep it.
LEMMA ShipmentHandlersKeep ==
  ASSUME IInv, \/ \E o \in Orders : QueueShipment(o)
               \/ \E o \in Orders, s \in Shipments : CreateManualShipment(o, s)
               \/ \E s \in Shipments : VerifyPackingList(s) \/ PackShipment(s)
  PROVE  IInv' /\ UNCHANGED <<so, line, wo, requested, row, where, invoices>>
<1> DEFINE T == [order : Orders \cup {NoOrder}, status : ShipmentStatus, verified : BOOLEAN]
<1>1. UNCHANGED <<so, line, wo, requested, row, where, invoices>>
  BY DEF QueueShipment, CreateManualShipment, VerifyPackingList, PackShipment
<1>2. shp' \in [Shipments -> T]
  <2> USE DEF IInv
  <2>1. ASSUME NEW o \in Orders, QueueShipment(o) PROVE shp' \in [Shipments -> T]
    BY <2>1, EnsureShipmentType DEF QueueShipment
  <2>2. ASSUME NEW o \in Orders, NEW s \in Shipments, CreateManualShipment(o, s)
        PROVE  shp' \in [Shipments -> T]
    BY <2>2 DEF CreateManualShipment, TypeOK, ShipmentStatus
  <2>3. ASSUME NEW s \in Shipments, VerifyPackingList(s) PROVE shp' \in [Shipments -> T]
    BY <2>3 DEF VerifyPackingList, TypeOK, ShipmentStatus
  <2>4. ASSUME NEW s \in Shipments, PackShipment(s) PROVE shp' \in [Shipments -> T]
    BY <2>4, ShipmentStatusWrite DEF PackShipment, ShipmentStatus
  <2> QED BY <2>1, <2>2, <2>3, <2>4
<1>3. TypeOK'
  BY <1>1, <1>2 DEF IInv, TypeOK
<1>4. RowAccounting' /\ NoOverPlanning' /\ ShippedInFullAndBilledOnce'
  BY <1>1 DEF IInv, RowAccounting, NoOverPlanning, LiveWorkOrder,
     ShippedInFullAndBilledOnce, LinesOf
<1> QED BY <1>1, <1>3, <1>4 DEF IInv

-----------------------------------------------------------------------------
(* The theorems                                                            *)

\* Every step of the specification keeps the inductive invariant.
LEMMA StepKeeps ==
  ASSUME IInv, [Next]_vars PROVE IInv'
<1>1. CASE UNCHANGED vars
  BY <1>1 DEF vars, IInv, TypeOK, RowAccounting, NoOverPlanning, LiveWorkOrder,
     ShippedInFullAndBilledOnce, LinesOf
<1>2. ASSUME NEW o \in Orders,
             CreateSalesOrder(o) \/ UpdateDepositStatus(o) \/ DateArrives(o)
      PROVE  IInv'
  BY <1>2, OrderHandlersKeep
<1>3. ASSUME \/ \E o \in Orders : QueueShipment(o)
             \/ \E o \in Orders, s \in Shipments : CreateManualShipment(o, s)
             \/ \E s \in Shipments : VerifyPackingList(s) \/ PackShipment(s)
      PROVE  IInv'
  BY <1>3, ShipmentHandlersKeep
<1>4. ASSUME NEW o \in Orders, NEW b \in BOOLEAN, PlanSalesOrder(o, b) PROVE IInv'
  BY <1>4, PlanKeeps
<1>5. ASSUME NEW o \in Orders, NEW s \in Shipments, NEW force \in BOOLEAN,
             ShipSalesOrder(o, s, force)
      PROVE  IInv'
  BY <1>5, ShipKeeps
<1>6. ASSUME NEW p \in Parts, NEW named \in Orders \cup {NoOrder}, NEW qty,
             ReleaseCommitment(p, named, qty)
      PROVE  IInv'
  BY <1>6, ReleaseKeeps
<1>7. ASSUME NEW r \in Rows, ReceiveStock(r) \/ PutAway(r) PROVE IInv'
  BY <1>7, ReceiveKeeps, PutAwayKeeps
<1>8. ASSUME NEW l \in Lines, SendToReceiving(l) \/ AgentFinishes(l) PROVE IInv'
  BY <1>8, WorkOrderHandlersKeep
<1>9. ASSUME NEW l \in Lines, NEW r \in Rows, CompleteToStock(l, r) PROVE IInv'
  BY <1>9, CompleteToStockKeeps
<1> QED BY <1>1, <1>2, <1>3, <1>4, <1>5, <1>6, <1>7, <1>8, <1>9 DEF Next

\* The inductive invariant holds of every run of the handlers.
THEOREM Inductive == Spec => []IInv
<1>1. Init => IInv
  BY InitIInv
<1>2. IInv /\ [Next]_vars => IInv'
  BY StepKeeps
<1> QED BY <1>1, <1>2, PTL DEF Spec

\* Type correctness: in particular no quantity of a row, a line, a work order or
\* a purchase request is ever negative, whatever is subtracted from it.
THEOREM TypeCorrect == Spec => []TypeOK
<1>1. IInv => TypeOK
  BY DEF IInv
<1> QED BY <1>1, Inductive, PTL

\* Planning, releasing, putting away, building and shipping, in any order and any
\* number, leave every unit of every row free or committed, and none promised twice.
THEOREM RowsAccountedFor == Spec => []RowAccounting
<1>1. IInv => RowAccounting
  BY DEF IInv
<1> QED BY <1>1, Inductive, PTL

\* No sequence of planning, releasing, agent closings and putaways allocates and
\* builds more for a line than was ordered.
THEOREM NothingOverPlanned == Spec => []NoOverPlanning
<1>1. IInv => NoOverPlanning
  BY DEF IInv
<1> QED BY <1>1, Inductive, PTL

\* Whole orders ship, and each is billed once, at that time.
THEOREM ShippedAndBilled == Spec => []ShippedInFullAndBilledOnce
<1>1. IInv => ShippedInFullAndBilledOnce
  BY DEF IInv
<1> QED BY <1>1, Inductive, PTL

-----------------------------------------------------------------------------
(* Refinement of OrderPromise                                              *)

\* What the promise is about, named here: the mapping of SalesFulfillment.
Stage == [o \in Orders |-> IF so[o].status = "NONE" THEN "none"
                           ELSE IF so[o].status = "SHIPPED" THEN "done" ELSE "open"]
Held == [o \in Orders |-> DepositHolds(o)]
Delivered == [l \in Lines |-> line[l].shipped]

\* A step that changes no stage, deposit, shipped quantity or invoice is none to
\* the customer and the books.
LEMMA NoStepOfThePromise ==
  ASSUME \A o \in Orders : /\ so'[o].deposit = so[o].deposit
                           /\ so'[o].status = "NONE" <=> so[o].status = "NONE"
                           /\ so'[o].status = "SHIPPED" <=> so[o].status = "SHIPPED",
         \A l \in Lines : line'[l].shipped = line[l].shipped,
         UNCHANGED invoices
  PROVE  UNCHANGED Promise!promise
<1>1. Stage' = Stage
  BY DEF Stage
<1>2. Held' = Held
  BY DEF Held, DepositHolds
<1>3. Delivered' = Delivered
  BY DEF Delivered
<1> QED BY <1>1, <1>2, <1>3 DEF Stage, Held, Delivered, Promise!promise

\* The initial states are initial states of the promise.
LEMMA InitPromises ==
  ASSUME Init PROVE Promise!Init
  BY DEF Init, Promise!Init, DepositHolds

\* Creating an order accepts it.
LEMMA CreateAccepts ==
  ASSUME IInv, NEW o \in Orders, CreateSalesOrder(o)
  PROVE  Promise!Accept(o)
<1>1. /\ so[o].status = "NONE" /\ so'[o].status = "OPEN"
      /\ \A x \in Orders : x # o => so'[x] = so[x]
      /\ UNCHANGED <<line, invoices>>
  BY DEF CreateSalesOrder, IInv, TypeOK
<1>2. Stage' = [Stage EXCEPT ![o] = "open"] /\ Stage[o] = "none"
  BY <1>1 DEF Stage
<1>3. Held' = [Held EXCEPT ![o] = DepositHolds(o)']
  BY <1>1 DEF Held, DepositHolds
<1>4. DepositHolds(o)' \in BOOLEAN /\ Delivered' = Delivered
  BY <1>1 DEF DepositHolds, Delivered
<1> QED BY <1>1, <1>2, <1>3, <1>4 DEF Stage, Held, Delivered, Promise!Accept

\* A deposit update puts the order on hold or takes it off.
LEMMA UpdateDeposits ==
  ASSUME IInv, NEW o \in Orders, UpdateDepositStatus(o)
  PROVE  Promise!Deposit(o)
<1>1. /\ so[o].status # "NONE" /\ so'[o].status = so[o].status
      /\ \A x \in Orders : x # o => so'[x] = so[x]
      /\ UNCHANGED <<line, invoices>>
  BY OrderHandlersKeep DEF CreateSalesOrder, UpdateDepositStatus, DateArrives
<1>2. Stage' = Stage /\ Stage[o] # "none"
  BY <1>1 DEF Stage
<1>3. Held' = [Held EXCEPT ![o] = DepositHolds(o)']
  BY <1>1 DEF Held, DepositHolds
<1>4. DepositHolds(o)' \in BOOLEAN /\ Delivered' = Delivered
  BY <1>1 DEF DepositHolds, Delivered
<1> QED BY <1>1, <1>2, <1>3, <1>4 DEF Stage, Held, Delivered, Promise!Deposit

\* Shipping an order that has not shipped delivers it; shipping one that has,
\* which a second packed shipment allows, delivers and bills nothing more.
LEMMA ShipDelivers ==
  ASSUME IInv, NEW o \in Orders, NEW s \in Shipments, NEW force \in BOOLEAN,
         ShipSalesOrder(o, s, force)
  PROVE  Promise!Deliver(o) \/ UNCHANGED Promise!promise
<1>1. /\ so[o].status # "NONE" /\ ~DepositHolds(o)
      /\ so'[o].status = "SHIPPED" /\ so'[o].deposit = so[o].deposit
      /\ \A x \in Orders : x # o => so'[x] = so[x]
      /\ invoices' = [invoices EXCEPT ![o] = IF @ = 0 THEN 1 ELSE @]
  BY OrderStatusWrite DEF ShipSalesOrder, CanShip, Billed, IInv, OrderStatus
<1>2. \A l \in Lines : IF LineOrder[l] = o THEN line'[l].shipped = LineQty[l]
                                           ELSE line'[l].shipped = line[l].shipped
  <2>1. ShippedInFullAndBilledOnce'
    BY ShipKeeps DEF IInv
  <2>2. \A l \in Lines : LineOrder[l] # o => line'[l] = line[l]
    BY DEF ShipSalesOrder, Needy, LinesOf
  <2> QED BY <1>1, <2>1, <2>2 DEF ShippedInFullAndBilledOnce, LinesOf
<1>3. CASE so[o].status = "SHIPPED"
  <2>1. \A l \in Lines : line'[l].shipped = line[l].shipped
    BY <1>2, <1>3 DEF IInv, ShippedInFullAndBilledOnce, LinesOf
  <2>2. invoices' = invoices
    BY <1>1, <1>3 DEF IInv, TypeOK, ShippedInFullAndBilledOnce
  <2>3. \A x \in Orders : /\ so'[x].deposit = so[x].deposit
                          /\ so'[x].status = "NONE" <=> so[x].status = "NONE"
                          /\ so'[x].status = "SHIPPED" <=> so[x].status = "SHIPPED"
    BY <1>1, <1>3
  <2> QED BY <2>1, <2>2, <2>3, NoStepOfThePromise
<1>4. CASE so[o].status # "SHIPPED"
  <2>1. Stage' = [Stage EXCEPT ![o] = "done"] /\ Stage[o] = "open"
    BY <1>1, <1>4 DEF Stage
  <2>2. Held' = Held /\ ~Held[o]
    BY <1>1 DEF Held, DepositHolds
  <2>3. Delivered' = [l \in Lines |-> IF LineOrder[l] = o THEN LineQty[l] ELSE Delivered[l]]
    BY <1>2 DEF Delivered
  <2>4. invoices' = [invoices EXCEPT ![o] = 1]
    BY <1>1, <1>4 DEF IInv, TypeOK, ShippedInFullAndBilledOnce
  <2> QED BY <2>1, <2>2, <2>3, <2>4 DEF Stage, Held, Delivered, Promise!Deliver
<1> QED BY <1>3, <1>4

\* Planning and the building of a line move an order between open statuses.
LEMMA StatusMovesAreSilent ==
  ASSUME IInv, NEW o \in Orders, NEW st \in OrderStatus,
         st \notin {"NONE", "SHIPPED"}, so[o].status \notin {"NONE", "SHIPPED"},
         so' = [so EXCEPT ![o].status = st],
         \A l \in Lines : line'[l].shipped = line[l].shipped,
         UNCHANGED invoices
  PROVE  UNCHANGED Promise!promise
<1>1. \A x \in Orders : /\ so'[x].deposit = so[x].deposit
                        /\ so'[x].status = "NONE" <=> so[x].status = "NONE"
                        /\ so'[x].status = "SHIPPED" <=> so[x].status = "SHIPPED"
  BY OrderStatusWrite DEF IInv
<1> QED BY <1>1, NoStepOfThePromise

\* A build that comes back changes nothing the customer or the books see.
LEMMA CompleteToStockIsSilent ==
  ASSUME IInv, NEW l \in Lines, NEW r \in Rows, CompleteToStock(l, r)
  PROVE  UNCHANGED Promise!promise
<1>1. /\ \A m \in Lines : line'[m].shipped = line[m].shipped
      /\ UNCHANGED invoices
  BY DEF CompleteToStock, IInv, TypeOK
<1>2. CASE UNCHANGED so
  BY <1>1, <1>2, NoStepOfThePromise
<1>3. CASE /\ so[LineOrder[l]].status \notin {"NONE", "SHIPPED"}
           /\ so' = [so EXCEPT ![LineOrder[l]].status = "READY_TO_SHIP"]
  <2>1. LineOrder[l] \in Orders /\ "READY_TO_SHIP" \in OrderStatus
    BY DEF OrderStatus
  <2>2. \A x \in Orders : /\ so'[x].deposit = so[x].deposit
                          /\ so'[x].status = "NONE" <=> so[x].status = "NONE"
                          /\ so'[x].status = "SHIPPED" <=> so[x].status = "SHIPPED"
    BY <1>3, <2>1, OrderStatusWrite DEF IInv
  <2> QED BY <1>1, <2>2, NoStepOfThePromise
<1> QED BY <1>2, <1>3 DEF CompleteToStock, SyncReadyStatus

\* Nor does a plan.
LEMMA PlanIsSilent ==
  ASSUME IInv, NEW o \in Orders, NEW b \in BOOLEAN, PlanSalesOrder(o, b)
  PROVE  UNCHANGED Promise!promise
<1>1. PICK a \in Allocations(o, b) : /\ line' = PlannedLines(o, a)
                                     /\ so' = [so EXCEPT ![o].status = PlannedStatus(o, a)]
  BY DEF PlanSalesOrder
<1>2. PlannedStatus(o, a) \in OrderStatus /\ PlannedStatus(o, a) \notin {"NONE", "SHIPPED"}
  BY DEF PlannedStatus, OrderStatus
<1>3. \A l \in Lines : line'[l].shipped = line[l].shipped
  BY <1>1 DEF PlannedLines, PlannedLine
<1>4. so[o].status \notin {"NONE", "SHIPPED"} /\ UNCHANGED invoices
  BY DEF PlanSalesOrder
<1> QED BY <1>1, <1>2, <1>3, <1>4, StatusMovesAreSilent

\* Nor does a release.
LEMMA ReleaseIsSilent ==
  ASSUME IInv, NEW p \in Parts, NEW named \in Orders \cup {NoOrder}, NEW qty,
         ReleaseCommitment(p, named, qty)
  PROVE  UNCHANGED Promise!promise
<1>1. UNCHANGED <<so, invoices>>
  BY DEF ReleaseCommitment
<1>2. \A l \in Lines : line'[l].shipped = line[l].shipped
  <2> SUFFICES ASSUME NEW l \in Lines PROVE line'[l].shipped = line[l].shipped
    OBVIOUS
  <2>1. line[l] \in [fs : FulfillmentStatus, alloc : Nat, shipped : Nat]
    BY DEF IInv, TypeOK
  <2>2. \/ line'[l] = line[l]
        \/ \E n : line'[l] = [line[l] EXCEPT !.alloc = @ - n]
    <3>1. CASE UNCHANGED line
      BY <3>1
    <3>2. ASSUME NEW t \in LargestFirst([r \in RowsOf(p) |-> row[r].commit], qty),
                 NEW c \in Fills([m \in {x \in LinesOf(named) : LinePart[x] = p} |->
                                   line[m].alloc], Total(t)),
                 line' = [m \in Lines |->
                            IF m \in {x \in LinesOf(named) : LinePart[x] = p}
                              THEN [line[m] EXCEPT !.alloc = @ - c[m]]
                              ELSE line[m]]
          PROVE  line'[l] = line[l] \/ line'[l] = [line[l] EXCEPT !.alloc = @ - c[l]]
      BY <3>2
    <3> QED BY Zenon, <3>1, <3>2 DEF ReleaseCommitment
  <2> QED BY <2>1, <2>2
<1> QED BY <1>1, <1>2, NoStepOfThePromise

\* Every step of the handlers is a step of the promise or none.
LEMMA StepPromises ==
  ASSUME IInv, [Next]_vars PROVE [Promise!Next]_Promise!promise
<1>1. CASE UNCHANGED vars
  BY <1>1, NoStepOfThePromise DEF vars
<1>2. ASSUME NEW o \in Orders, CreateSalesOrder(o) PROVE [Promise!Next]_Promise!promise
  BY <1>2, CreateAccepts DEF Promise!Next
<1>3. ASSUME NEW o \in Orders, UpdateDepositStatus(o) PROVE [Promise!Next]_Promise!promise
  BY <1>3, UpdateDeposits DEF Promise!Next
<1>4. ASSUME NEW o \in Orders, DateArrives(o) PROVE UNCHANGED Promise!promise
  <2>1. UNCHANGED <<line, invoices>>
    BY <1>4 DEF DateArrives
  <2>2. \A x \in Orders : so'[x].status = so[x].status /\ so'[x].deposit = so[x].deposit
    BY <1>4 DEF DateArrives, IInv, TypeOK
  <2> QED BY <2>1, <2>2, NoStepOfThePromise
<1>5. ASSUME \/ \E o \in Orders : QueueShipment(o)
             \/ \E o \in Orders, s \in Shipments : CreateManualShipment(o, s)
             \/ \E s \in Shipments : VerifyPackingList(s) \/ PackShipment(s)
      PROVE  UNCHANGED Promise!promise
  BY <1>5, ShipmentHandlersKeep, NoStepOfThePromise
<1>6. ASSUME NEW o \in Orders, NEW b \in BOOLEAN, PlanSalesOrder(o, b)
      PROVE  UNCHANGED Promise!promise
  BY <1>6, PlanIsSilent
<1>7. ASSUME NEW o \in Orders, NEW s \in Shipments, NEW force \in BOOLEAN,
             ShipSalesOrder(o, s, force)
      PROVE  [Promise!Next]_Promise!promise
  BY <1>7, ShipDelivers DEF Promise!Next
<1>8. ASSUME NEW p \in Parts, NEW named \in Orders \cup {NoOrder}, NEW qty,
             ReleaseCommitment(p, named, qty)
      PROVE  UNCHANGED Promise!promise
  BY <1>8, ReleaseIsSilent
<1>9. ASSUME \/ \E r \in Rows : ReceiveStock(r) \/ PutAway(r)
             \/ \E l \in Lines : SendToReceiving(l) \/ AgentFinishes(l)
      PROVE  UNCHANGED Promise!promise
  <2>1. UNCHANGED <<so, line, invoices>>
    BY <1>9 DEF ReceiveStock, PutAway, SendToReceiving, AgentFinishes
  <2> QED BY <2>1, NoStepOfThePromise
<1>10. ASSUME NEW l \in Lines, NEW r \in Rows, CompleteToStock(l, r)
       PROVE  UNCHANGED Promise!promise
  BY <1>10, CompleteToStockIsSilent
<1> QED BY <1>1, <1>2, <1>3, <1>4, <1>5, <1>6, <1>7, <1>8, <1>9, <1>10 DEF Next

\* Every run of the handlers is, to the customer and the books, a run of
\* OrderPromise: delivered whole, never on hold, billed once, nothing undone.
THEOREM Refinement == Spec => KeepsThePromise
<1>1. Init => Promise!Init
  BY InitPromises
<1>2. IInv /\ [Next]_vars => [Promise!Next]_Promise!promise
  BY StepPromises
<1> QED BY <1>1, <1>2, Inductive, PTL DEF Spec, KeepsThePromise, Promise!Spec

-----------------------------------------------------------------------------
(* The ship queue                                                          *)

\* A line's status tells what the line has: READY, all of it; SHIPPED, that the whole
\* order left.  No handler writes the statuses STOCK_CHECK and ALLOCATED.
LinesTell ==
  \A l \in Lines :
    /\ line[l].fs \notin {"STOCK_CHECK", "ALLOCATED"}
    /\ line[l].fs = "READY" => line[l].alloc >= LineQty[l]
    /\ line[l].fs = "SHIPPED" => so[LineOrder[l]].status = "SHIPPED"

ReadyInv == IInv /\ LinesTell /\ ReadyMeansAllocated

\* Orders move from one status to another only as the quiet handlers move them.
QuietOrders ==
  \A x \in Orders : so'[x].status = so[x].status
                    \/ (so[x].status = "NONE" /\ so'[x].status = "OPEN")

LEMMA ReadyQuiet ==
  ASSUME ReadyInv, IInv', UNCHANGED line, QuietOrders
  PROVE  ReadyInv'
BY DEF ReadyInv, LinesTell, ReadyMeansAllocated, QuietOrders, LinesOf

\* The handlers that change no line and no work order's quantity.
LEMMA QuietHandlers ==
  ASSUME IInv,
         \/ UNCHANGED vars
         \/ \E o \in Orders : \/ CreateSalesOrder(o) \/ UpdateDepositStatus(o) \/ DateArrives(o)
                              \/ QueueShipment(o)
                              \/ \E s \in Shipments : CreateManualShipment(o, s)
         \/ \E r \in Rows : ReceiveStock(r) \/ PutAway(r)
         \/ \E l \in Lines : SendToReceiving(l) \/ AgentFinishes(l)
         \/ \E s \in Shipments : VerifyPackingList(s) \/ PackShipment(s)
  PROVE  UNCHANGED <<line, requested>> /\ QuietOrders
<1>1. UNCHANGED <<line, requested>>
  BY DEF vars, CreateSalesOrder, UpdateDepositStatus, DateArrives, QueueShipment, CreateManualShipment,
     ReceiveStock, PutAway, SendToReceiving, AgentFinishes, VerifyPackingList, PackShipment
<1>2. ASSUME NEW o \in Orders, CreateSalesOrder(o) \/ UpdateDepositStatus(o) \/ DateArrives(o)
      PROVE  QuietOrders
  <2>1. CreateSalesOrder(o) => so[o].status = "NONE"
    BY DEF CreateSalesOrder
  <2> QED BY <1>2, <2>1, OrderHandlersKeep DEF QuietOrders
<1>3. ASSUME UNCHANGED so PROVE QuietOrders
  BY <1>3 DEF QuietOrders
<1> QED BY <1>1, <1>2, <1>3 DEF vars, QueueShipment, CreateManualShipment, ReceiveStock, PutAway,
     SendToReceiving, AgentFinishes, VerifyPackingList, PackShipment

\* What planning leaves a line of the order with: all it needs, or a work order or purchase
\* request for the rest, or the live work order it had.
LEMMA PlannedLineHas ==
  ASSUME ReadyInv, NEW o \in Orders, NEW b \in BOOLEAN, NEW a \in Allocations(o, b), NEW l \in LinesOf(o),
         so[o].status # "SHIPPED"
  PROVE  /\ PlannedLines(o, a)[l].fs \notin {"STOCK_CHECK", "ALLOCATED", "SHIPPED"}
         /\ PlannedLines(o, a)[l].fs = "READY" => PlannedLines(o, a)[l].alloc >= LineQty[l]
         /\ IsCovered(l, PlannedLines(o, a)) => PlannedLines(o, a)[l].alloc >= LineQty[l]
         /\ PlannedLines(o, a)[l].alloc \in Nat
         /\ l \in Plannable(o) =>
              /\ PlannedLines(o, a)[l].alloc + MakeQty(o, a, l) = LineQty[l]
              /\ MakeQty(o, a, l) \in Nat
         /\ l \notin Plannable(o) =>
              PlannedLines(o, a)[l].alloc >= LineQty[l] \/ (LiveWorkOrder(l) /\ PlannedLines(o, a)[l] = line[l])
<1> DEFINE p == PlannedLines(o, a)
<1>1. /\ l \in Lines /\ LineOrder[l] = o /\ LineQty[l] \in Nat /\ IInv /\ TypeOK
      /\ line[l].alloc \in Nat /\ Short(l) \in Nat
      /\ line[l].fs \notin {"STOCK_CHECK", "ALLOCATED", "SHIPPED"}
      /\ line[l].fs = "READY" => line[l].alloc >= LineQty[l]
  BY ShortIsNat DEF LinesOf, ReadyInv, IInv, TypeOK, LinesTell
<1>2. line[l].alloc <= LineQty[l]
  <2>1. line[l].alloc + (IF LiveWorkOrder(l) THEN wo[l].qty ELSE 0) <= LineQty[l] /\ wo[l].qty \in Nat
    BY <1>1 DEF IInv, NoOverPlanning, TypeOK
  <2> QED BY <1>1, <2>1
<1>3. Short(l) = LineQty[l] - line[l].alloc
  BY <1>1, <1>2 DEF Short, Monus
<1>4. CASE l \in Plannable(o)
  <2>1. a[l] \in Nat /\ a[l] <= Short(l)
    BY <1>1, <1>4, AllocationBounds
  <2>2. p[l] = PlannedLine(l, a[l]) /\ MakeQty(o, a, l) = Short(l) - a[l]
    BY <1>1, <1>4 DEF PlannedLines, MakeQty
  <2>3. /\ p[l].alloc = line[l].alloc + a[l]
        /\ p[l].fs \in {"READY", "PARTIAL", "MAKE_ORDERED", "OPEN"}
        /\ p[l].fs = "READY" => Short(l) - a[l] = 0
    BY <2>2 DEF PlannedLine
  <2> HIDE DEF p
  <2>4. p[l].alloc \in Nat /\ p[l].alloc + MakeQty(o, a, l) = LineQty[l] /\ MakeQty(o, a, l) \in Nat
    BY <1>1, <1>3, <2>1, <2>2, <2>3
  <2>5. p[l].fs = "READY" => p[l].alloc >= LineQty[l]
    BY <1>1, <1>3, <2>1, <2>3
  <2>6. IsCovered(l, p) => p[l].alloc >= LineQty[l]
    BY <2>3, <2>5 DEF IsCovered
  <2> QED BY <1>4, <2>3, <2>4, <2>5, <2>6 DEF p
<1>5. CASE l \notin Plannable(o)
  <2>1. p[l] = line[l]
    BY <1>1, <1>5 DEF PlannedLines
  <2>2. line[l].fs = "READY" \/ LiveWorkOrder(l)
    BY <1>1, <1>5 DEF Plannable
  <2> HIDE DEF p
  <2>3. IsCovered(l, p) => p[l].alloc >= LineQty[l]
    BY <1>1, <2>1 DEF IsCovered
  <2> QED BY <1>1, <1>5, <2>1, <2>2, <2>3 DEF p
<1> QED BY <1>4, <1>5

\* Planning queues an order only when every line has all it needs.
LEMMA PlanReady ==
  ASSUME ReadyInv, NEW o \in Orders, NEW b \in BOOLEAN, PlanSalesOrder(o, b)
  PROVE  ReadyInv'
<1>0. IInv'
  BY PlanKeeps DEF ReadyInv
<1>1. PICK a \in Allocations(o, b) : /\ line' = PlannedLines(o, a)
                                     /\ so' = [so EXCEPT ![o].status = PlannedStatus(o, a)]
  BY DEF PlanSalesOrder
<1>2. /\ so[o].status \notin {"NONE", "SHIPPED"} /\ PlannedStatus(o, a) \in OrderStatus
      /\ PlannedStatus(o, a) # "SHIPPED"
  BY DEF PlanSalesOrder, PlannedStatus, OrderStatus
<1>3. so'[o].status = PlannedStatus(o, a) /\ \A x \in Orders : x # o => so'[x] = so[x]
  BY <1>1, <1>2, OrderStatusWrite DEF ReadyInv, IInv
<1>4. \A l \in Lines : LineOrder[l] # o => line'[l] = line[l]
  BY <1>1 DEF PlannedLines, Plannable, LinesOf
<1>5. \A l \in Lines : LineOrder[l] = o =>
        /\ line'[l].fs \notin {"STOCK_CHECK", "ALLOCATED", "SHIPPED"}
        /\ line'[l].fs = "READY" => line'[l].alloc >= LineQty[l]
        /\ IsCovered(l, line') => line'[l].alloc >= LineQty[l]
  BY <1>1, <1>2, PlannedLineHas DEF LinesOf
<1>6. LinesTell'
  BY <1>3, <1>4, <1>5 DEF ReadyInv, LinesTell
<1>7. ReadyMeansAllocated'
  <2> SUFFICES ASSUME NEW x \in Orders, so'[x].status = "READY_TO_SHIP", NEW l \in LinesOf(x)
               PROVE  line'[l].alloc >= LineQty[l]
    BY DEF ReadyMeansAllocated, LinesOf
  <2>1. CASE x = o
    <3>1. IsCovered(l, PlannedLines(o, a))
      BY <1>3, <2>1 DEF PlannedStatus
    <3> QED BY <1>1, <1>5, <2>1, <3>1 DEF LinesOf
  <2>2. CASE x # o
    BY <1>3, <1>4, <2>2 DEF ReadyInv, ReadyMeansAllocated, LinesOf
  <2> QED BY <2>1, <2>2
<1> QED BY <1>0, <1>6, <1>7 DEF ReadyInv

\* What a build that comes back does to lines and orders.
LEMMA CompletionWrites ==
  ASSUME ReadyInv, NEW l \in Lines, NEW r \in Rows, CompleteToStock(l, r)
  PROVE  /\ wo[l].status = "READY_FOR_PUTAWAY" /\ UNCHANGED requested
         /\ wo'[l].status = "COMPLETED" /\ \A m \in Lines : m # l => wo'[m] = wo[m] /\ line'[m] = line[m]
         /\ line'[l].alloc = line[l].alloc + wo[l].qty
         /\ line'[l].fs \in {"READY", "PARTIAL"}
         /\ line'[l].fs = "READY" => line'[l].alloc >= LineQty[l]
         /\ \A x \in Orders : so'[x].status = so[x].status
              \/ /\ so[x].status \notin {"NONE", "SHIPPED"} /\ so'[x].status = "READY_TO_SHIP"
                 /\ \A m \in LinesOf(x) : line'[m].fs \in {"READY", "SHIPPED"} \/ line'[m].alloc >= LineQty[m]
<1> DEFINE alloc == line[l].alloc + wo[l].qty
           ln == [line EXCEPT ![l] =
                    [fs |-> IF alloc >= LineQty[l] THEN "READY" ELSE "PARTIAL",
                     alloc |-> alloc, shipped |-> @.shipped]]
<1>1. /\ wo[l].status = "READY_FOR_PUTAWAY" /\ UNCHANGED requested
      /\ wo' = [wo EXCEPT ![l].status = "COMPLETED"]
      /\ line' = ln /\ SyncReadyStatus(LineOrder[l], ln)
  BY DEF CompleteToStock
<1>2. TypeOK
  BY DEF ReadyInv, IInv
<1>3. wo'[l].status = "COMPLETED" /\ \A m \in Lines : m # l => wo'[m] = wo[m]
  BY <1>1, <1>2, WorkOrderStatusWrite DEF WorkOrderStatus
<1>4. /\ line'[l].alloc = alloc /\ \A m \in Lines : m # l => line'[m] = line[m]
      /\ line'[l].fs = IF alloc >= LineQty[l] THEN "READY" ELSE "PARTIAL"
  BY <1>1, <1>2 DEF TypeOK
<1>5. \A x \in Orders : so'[x].status = so[x].status
              \/ /\ so[x].status \notin {"NONE", "SHIPPED"} /\ so'[x].status = "READY_TO_SHIP"
                 /\ \A m \in LinesOf(x) : line'[m].fs \in {"READY", "SHIPPED"} \/ line'[m].alloc >= LineQty[m]
  <2> HIDE DEF ln
  <2>1. CASE UNCHANGED so
    BY <2>1
  <2>2. CASE so' # so
    <3>1. /\ so[LineOrder[l]].status \notin {"NONE", "SHIPPED"} /\ LineOrder[l] \in Orders
          /\ so' = [so EXCEPT ![LineOrder[l]].status = "READY_TO_SHIP"]
          /\ \A m \in LinesOf(LineOrder[l]) : line'[m].fs \in {"READY", "SHIPPED"} \/ line'[m].alloc >= LineQty[m]
      BY <1>1, <2>2 DEF SyncReadyStatus
    <3>2. /\ so'[LineOrder[l]].status = "READY_TO_SHIP"
          /\ \A x \in Orders : x # LineOrder[l] => so'[x] = so[x]
      BY <1>2, <3>1, OrderStatusWrite DEF OrderStatus
    <3> QED BY <3>1, <3>2
  <2> QED BY <2>1, <2>2
<1> QED BY <1>1, <1>3, <1>4, <1>5

\* A build that comes back queues the order only then, too.
LEMMA CompletionReady ==
  ASSUME ReadyInv, NEW l \in Lines, NEW r \in Rows, CompleteToStock(l, r)
  PROVE  ReadyInv'
<1>0. IInv'
  BY CompleteToStockKeeps DEF ReadyInv
<1>1. /\ \A m \in Lines : m # l => line'[m] = line[m]
      /\ line'[l].alloc = line[l].alloc + wo[l].qty /\ line'[l].fs \in {"READY", "PARTIAL"}
      /\ line'[l].fs = "READY" => line'[l].alloc >= LineQty[l]
      /\ \A x \in Orders : so'[x].status = so[x].status
           \/ /\ so[x].status \notin {"NONE", "SHIPPED"} /\ so'[x].status = "READY_TO_SHIP"
              /\ \A m \in LinesOf(x) : line'[m].fs \in {"READY", "SHIPPED"} \/ line'[m].alloc >= LineQty[m]
  BY CompletionWrites
<1>2. line[l].alloc \in Nat /\ wo[l].qty \in Nat /\ LineQty[l] \in Nat
  BY DEF ReadyInv, IInv, TypeOK
<1>3. LinesTell'
  BY <1>1 DEF ReadyInv, LinesTell
<1>4. ReadyMeansAllocated'
  <2> SUFFICES ASSUME NEW x \in Orders, so'[x].status = "READY_TO_SHIP", NEW m \in LinesOf(x)
               PROVE  line'[m].alloc >= LineQty[m]
    BY DEF ReadyMeansAllocated, LinesOf
  <2>0. m \in Lines /\ LineOrder[m] = x
    BY DEF LinesOf
  <2>1. CASE so[x].status = "READY_TO_SHIP"
    <3>1. line[m].alloc >= LineQty[m]
      BY <2>1 DEF ReadyInv, ReadyMeansAllocated
    <3> QED BY <1>1, <1>2, <2>0, <3>1
  <2>2. CASE so[x].status # "READY_TO_SHIP"
    <3>1. line'[m].fs \in {"READY", "SHIPPED"} \/ line'[m].alloc >= LineQty[m]
      BY <1>1, <2>2
    <3>2. line'[m].fs # "SHIPPED"
      BY <1>3, <2>0 DEF LinesTell
    <3> QED BY <1>3, <2>0, <3>1, <3>2 DEF LinesTell
  <2> QED BY <2>1, <2>2
<1> QED BY <1>0, <1>3, <1>4 DEF ReadyInv

LEMMA ShipReady ==
  ASSUME ReadyInv, NEW o \in Orders, NEW s \in Shipments, NEW force \in BOOLEAN,
         ShipSalesOrder(o, s, force)
  PROVE  ReadyInv'
<1>0. IInv'
  BY ShipKeeps DEF ReadyInv
<1>1. /\ so'[o].status = "SHIPPED" /\ \A x \in Orders : x # o => so'[x] = so[x]
  BY OrderStatusWrite DEF ShipSalesOrder, ReadyInv, IInv, OrderStatus
<1>2. \A l \in Lines : /\ line'[l].alloc = line[l].alloc
                       /\ \/ line'[l].fs = line[l].fs
                          \/ line'[l].fs = "SHIPPED" /\ LineOrder[l] = o
  BY DEF ShipSalesOrder, Needy, LinesOf
<1>3. LinesTell'
  BY <1>1, <1>2 DEF ReadyInv, LinesTell
<1>4. ReadyMeansAllocated'
  BY <1>1, <1>2 DEF ReadyInv, ReadyMeansAllocated, LinesOf
<1> QED BY <1>0, <1>3, <1>4 DEF ReadyInv

LEMMA ReadyInit == Init => ReadyInv
<1> SUFFICES ASSUME Init PROVE ReadyInv
  OBVIOUS
<1> QED BY InitIInv DEF Init, ReadyInv, LinesTell, ReadyMeansAllocated

LEMMA ReadyStep == ReleaseQtys = {} /\ ReadyInv /\ [Next]_vars => ReadyInv'
<1> SUFFICES ASSUME ReleaseQtys = {}, ReadyInv, [Next]_vars PROVE ReadyInv'
  OBVIOUS
<1>0. IInv /\ IInv'
  BY StepKeeps DEF ReadyInv
<1>1. ASSUME UNCHANGED <<line, requested>> /\ QuietOrders PROVE ReadyInv'
  BY <1>0, <1>1, ReadyQuiet
<1>2. ASSUME NEW p \in Parts, NEW named \in Orders \cup {NoOrder}, NEW qty \in ReleaseQtys,
             ReleaseCommitment(p, named, qty)
      PROVE  FALSE
  OBVIOUS
<1> QED BY <1>0, <1>1, <1>2, QuietHandlers, PlanReady, CompletionReady, ShipReady, Zenon DEF Next

\* Where no commitment is released, an order in the ship queue has all its lines
\* allocated, whatever is planned, built, received, shipped or closed by the agent.
THEOREM QueuedIsAllocated ==
  ASSUME ReleaseQtys = {}
  PROVE  Spec => []ReadyMeansAllocated
<1>1. ReadyInv => ReadyMeansAllocated
  BY DEF ReadyInv
<1>2. ReadyInv /\ [Next]_vars => ReadyInv'
  BY ReadyStep
<1> QED BY <1>1, <1>2, ReadyInit, PTL DEF Spec

-----------------------------------------------------------------------------
(* What is planned has a source                                            *)

\* What is being made was planned for an order, which is then no longer OPEN.
BuildsArePlanned ==
  \A l \in Lines : LiveWorkOrder(l) => so[LineOrder[l]].status \notin {"NONE", "OPEN"}

\* The units a line has, is promised by its live work order and has asked for.
Sourced(l) == line[l].alloc + (IF LiveWorkOrder(l) THEN wo[l].qty ELSE 0) + requested[l]

SourceInv == ReadyInv /\ BuildsArePlanned /\ PlannedIsSourced

LEMMA SourcedIsNat ==
  ASSUME TypeOK, NEW l \in Lines
  PROVE  /\ line[l].alloc \in Nat /\ wo[l].qty \in Nat /\ requested[l] \in Nat /\ LineQty[l] \in Nat
         /\ Sourced(l) \in Nat /\ Sourced(l) >= line[l].alloc
  BY DEF TypeOK, Sourced

\* A line whose source is as before, in an order whose status is as before or newly OPEN.
LEMMA SourcedAsBefore ==
  ASSUME SourceInv, NEW x \in Orders, NEW l \in LinesOf(x),
         so'[x].status = so[x].status \/ so'[x].status = "OPEN",
         so'[x].status \in {"PLANNED", "IN_PRODUCTION", "READY_TO_SHIP"},
         LinePart[l] \in MakeParts \cup BuyParts, Sourced(l)' = Sourced(l)
  PROVE  Sourced(l)' >= LineQty[l]
<1>1. Sourced(l) >= LineQty[l]
  BY DEF SourceInv, PlannedIsSourced, Sourced
<1> QED BY <1>1

LEMMA QuietSourced ==
  ASSUME SourceInv, ReadyInv', UNCHANGED <<line, requested>>, QuietOrders,
         \A l \in Lines : (LiveWorkOrder(l)' <=> LiveWorkOrder(l)) /\ wo'[l].qty = wo[l].qty
  PROVE  SourceInv'
<1>1. \A l \in Lines : Sourced(l)' = Sourced(l)
  BY DEF Sourced
<1>2. BuildsArePlanned'
  <2> SUFFICES ASSUME NEW l \in Lines, LiveWorkOrder(l)' PROVE so'[LineOrder[l]].status \notin {"NONE", "OPEN"}
    BY DEF BuildsArePlanned, LiveWorkOrder
  <2>1. LiveWorkOrder(l) /\ LineOrder[l] \in Orders
    OBVIOUS
  <2> QED BY <2>1 DEF SourceInv, BuildsArePlanned, QuietOrders
<1>3. PlannedIsSourced'
  <2> SUFFICES ASSUME NEW x \in Orders, so'[x].status \in {"PLANNED", "IN_PRODUCTION", "READY_TO_SHIP"},
                      NEW l \in LinesOf(x), LinePart[l] \in MakeParts \cup BuyParts
               PROVE  Sourced(l)' >= LineQty[l]
    BY DEF PlannedIsSourced, LinesOf, Sourced, LiveWorkOrder
  <2>1. l \in Lines
    BY DEF LinesOf
  <2> QED BY <1>1, <2>1, SourcedAsBefore DEF QuietOrders
<1> QED BY <1>2, <1>3 DEF SourceInv

\* Planning gives every line of the order its source.
LEMMA PlanSourced ==
  ASSUME SourceInv, NEW o \in Orders, NEW b \in BOOLEAN, PlanSalesOrder(o, b)
  PROVE  SourceInv'
<1>0. ReadyInv' /\ ReadyInv /\ TypeOK /\ IInv' /\ IInv
  BY PlanReady, PlanKeeps DEF SourceInv, ReadyInv, IInv
<1>1. PICK a \in Allocations(o, b) :
        /\ line' = PlannedLines(o, a)
        /\ wo' = [l \in Lines |-> IF l \in NewWorkOrders(o, a)
                                    THEN [status |-> "OPEN", qty |-> MakeQty(o, a, l)]
                                    ELSE wo[l]]
        /\ requested' = [l \in Lines |-> requested[l] +
                           (IF LinePart[l] \in BuyParts THEN MakeQty(o, a, l) ELSE 0)]
        /\ so' = [so EXCEPT ![o].status = PlannedStatus(o, a)]
  BY DEF PlanSalesOrder
<1>2. /\ so[o].status \notin {"NONE", "SHIPPED"} /\ PlannedStatus(o, a) \in OrderStatus
      /\ PlannedStatus(o, a) \notin {"NONE", "OPEN", "SHIPPED"}
  BY DEF PlanSalesOrder, PlannedStatus, OrderStatus
<1>3. so'[o].status = PlannedStatus(o, a) /\ \A x \in Orders : x # o => so'[x] = so[x]
  BY <1>0, <1>1, <1>2, OrderStatusWrite
<1>4. ASSUME NEW l \in Lines, LineOrder[l] # o
      PROVE  line'[l] = line[l] /\ wo'[l] = wo[l] /\ Sourced(l)' = Sourced(l)
  <2>1. l \notin Plannable(o)
    BY <1>4 DEF Plannable, LinesOf
  <2>2. line'[l] = line[l] /\ wo'[l] = wo[l] /\ requested'[l] = requested[l]
    BY <1>0, <1>1, <2>1 DEF PlannedLines, NewWorkOrders, MakeQty, TypeOK
  <2> QED BY <2>2 DEF Sourced, LiveWorkOrder
<1>5. BuildsArePlanned'
  BY <1>2, <1>3, <1>4 DEF SourceInv, BuildsArePlanned, LiveWorkOrder
<1>6. ASSUME NEW l \in LinesOf(o), LinePart[l] \in MakeParts \cup BuyParts
      PROVE  Sourced(l)' >= LineQty[l]
  <2> DEFINE p == PlannedLines(o, a)
  <2>1. /\ p[l].alloc \in Nat /\ l \in Lines /\ LineQty[l] \in Nat /\ LineOrder[l] = o
        /\ l \in Plannable(o) => p[l].alloc + MakeQty(o, a, l) = LineQty[l] /\ MakeQty(o, a, l) \in Nat
        /\ l \notin Plannable(o) =>
             p[l].alloc >= LineQty[l] \/ (LiveWorkOrder(l) /\ p[l] = line[l])
    BY <1>0, <1>2, PlannedLineHas DEF LinesOf
  <2>2. line'[l] = p[l]
    BY <1>1
  <2> HIDE DEF p
  <2>3. /\ Sourced(l)' \in Nat /\ Sourced(l)' >= line'[l].alloc
        /\ requested[l] \in Nat /\ wo'[l].qty \in Nat /\ requested'[l] \in Nat
    <3>1. TypeOK'
      BY <1>0 DEF IInv
    <3>2. line'[l].alloc \in Nat /\ wo'[l].qty \in Nat /\ requested'[l] \in Nat /\ requested[l] \in Nat
      BY <1>0, <2>1, <3>1 DEF TypeOK
    <3> QED BY <3>2 DEF Sourced
  <2>4. CASE l \in Plannable(o)
    <3>1. CASE MakeQty(o, a, l) = 0
      BY <2>1, <2>2, <2>3, <2>4, <3>1
    <3>2. CASE MakeQty(o, a, l) > 0 /\ LinePart[l] \in MakeParts
      <4>1. wo'[l] = [status |-> "OPEN", qty |-> MakeQty(o, a, l)]
        BY <1>1, <2>1, <2>4, <3>2 DEF NewWorkOrders
      <4>2. Sourced(l)' = p[l].alloc + MakeQty(o, a, l) + requested'[l]
        BY <2>2, <4>1 DEF Sourced, LiveWorkOrder
      <4> QED BY <2>1, <2>3, <2>4, <4>2
    <3>3. CASE MakeQty(o, a, l) > 0 /\ LinePart[l] \in BuyParts
      <4>1. requested'[l] = requested[l] + MakeQty(o, a, l)
        BY <1>1, <2>1, <3>3
      <4>2. Sourced(l)' = p[l].alloc + (IF LiveWorkOrder(l)' THEN wo'[l].qty ELSE 0) + requested'[l]
        BY <2>2 DEF Sourced
      <4> QED BY <2>1, <2>3, <2>4, <4>1, <4>2
    <3> QED BY <1>6, <2>1, <2>4, <3>1, <3>2, <3>3
  <2>5. CASE l \notin Plannable(o) /\ p[l].alloc >= LineQty[l]
    BY <2>1, <2>2, <2>3, <2>5
  <2>6. CASE l \notin Plannable(o) /\ LiveWorkOrder(l) /\ p[l] = line[l]
    <3>1. so[o].status \in {"PLANNED", "IN_PRODUCTION", "READY_TO_SHIP"}
      BY <1>0, <1>2, <2>1, <2>6 DEF SourceInv, BuildsArePlanned, TypeOK, OrderStatus
    <3>2. Sourced(l) >= LineQty[l]
      BY <1>6, <3>1 DEF SourceInv, PlannedIsSourced, Sourced
    <3>3. wo'[l] = wo[l] /\ requested'[l] = requested[l]
      BY <1>0, <1>1, <2>1, <2>6 DEF NewWorkOrders, MakeQty, TypeOK
    <3> QED BY <2>2, <2>6, <3>2, <3>3 DEF Sourced, LiveWorkOrder
  <2> QED BY <2>1, <2>4, <2>5, <2>6
<1>7. PlannedIsSourced'
  <2> SUFFICES ASSUME NEW x \in Orders, so'[x].status \in {"PLANNED", "IN_PRODUCTION", "READY_TO_SHIP"},
                      NEW l \in LinesOf(x), LinePart[l] \in MakeParts \cup BuyParts
               PROVE  Sourced(l)' >= LineQty[l]
    BY DEF PlannedIsSourced, LinesOf, Sourced, LiveWorkOrder
  <2>1. CASE x = o
    BY <1>6, <2>1
  <2>2. CASE x # o
    <3>1. l \in Lines /\ LineOrder[l] # o
      BY <2>2 DEF LinesOf
    <3> QED BY <1>3, <1>4, <2>2, <3>1, SourcedAsBefore
  <2> QED BY <2>1, <2>2
<1> QED BY <1>0, <1>5, <1>7 DEF SourceInv

\* A build that comes back turns units in production into allocated ones.
LEMMA CompletionSourced ==
  ASSUME SourceInv, NEW l \in Lines, NEW r \in Rows, CompleteToStock(l, r)
  PROVE  SourceInv'
<1>0. ReadyInv' /\ ReadyInv /\ TypeOK
  BY CompletionReady DEF SourceInv, ReadyInv, IInv
<1>1. /\ wo[l].status = "READY_FOR_PUTAWAY" /\ UNCHANGED requested
      /\ wo'[l].status = "COMPLETED" /\ \A m \in Lines : m # l => wo'[m] = wo[m] /\ line'[m] = line[m]
      /\ line'[l].alloc = line[l].alloc + wo[l].qty
      /\ \A x \in Orders : so'[x].status = so[x].status
           \/ (so[x].status \notin {"NONE", "SHIPPED"} /\ so'[x].status = "READY_TO_SHIP")
  BY <1>0, CompletionWrites
<1>2. \A m \in Lines : Sourced(m)' = Sourced(m)
  <2> TAKE m \in Lines
  <2>1. CASE m = l
    <3>1. Sourced(l) = line[l].alloc + wo[l].qty + requested[l]
      BY <1>1 DEF Sourced, LiveWorkOrder
    <3>2. Sourced(l)' = line'[l].alloc + 0 + requested'[l]
      BY <1>1 DEF Sourced, LiveWorkOrder
    <3> QED BY <1>0, <1>1, <2>1, <3>1, <3>2, SourcedIsNat
  <2>2. CASE m # l
    BY <1>1, <2>2 DEF Sourced, LiveWorkOrder
  <2> QED BY <2>1, <2>2
<1>3. BuildsArePlanned'
  <2> SUFFICES ASSUME NEW m \in Lines, LiveWorkOrder(m)' PROVE so'[LineOrder[m]].status \notin {"NONE", "OPEN"}
    BY DEF BuildsArePlanned, LiveWorkOrder
  <2>1. LiveWorkOrder(m) /\ LineOrder[m] \in Orders
    BY <1>1 DEF LiveWorkOrder
  <2> QED BY <1>1, <2>1 DEF SourceInv, BuildsArePlanned
<1>4. PlannedIsSourced'
  <2> SUFFICES ASSUME NEW x \in Orders, so'[x].status \in {"PLANNED", "IN_PRODUCTION", "READY_TO_SHIP"},
                      NEW m \in LinesOf(x), LinePart[m] \in MakeParts \cup BuyParts
               PROVE  Sourced(m)' >= LineQty[m]
    BY DEF PlannedIsSourced, LinesOf, Sourced, LiveWorkOrder
  <2>0. m \in Lines /\ LineOrder[m] = x
    BY DEF LinesOf
  <2>1. CASE so'[x].status = so[x].status
    BY <1>2, <2>0, <2>1, SourcedAsBefore
  <2>2. CASE so'[x].status = "READY_TO_SHIP"
    <3>1. line'[m].alloc >= LineQty[m]
      BY <1>0, <2>2 DEF ReadyInv, ReadyMeansAllocated, LinesOf
    <3>2. line'[m].alloc \in Nat /\ wo'[m].qty \in Nat /\ requested'[m] \in Nat /\ LineQty[m] \in Nat
      BY <1>0, <2>0 DEF ReadyInv, IInv, TypeOK
    <3> QED BY <3>1, <3>2 DEF Sourced
  <2> QED BY <1>1, <2>1, <2>2
<1> QED BY <1>0, <1>3, <1>4 DEF SourceInv

\* Shipping closes one order and leaves the sources of the others.
LEMMA ShipSourced ==
  ASSUME SourceInv, NEW o \in Orders, NEW s \in Shipments, NEW force \in BOOLEAN,
         ShipSalesOrder(o, s, force)
  PROVE  SourceInv'
<1>0. ReadyInv' /\ ReadyInv
  BY ShipReady DEF SourceInv
<1>1. /\ so'[o].status = "SHIPPED" /\ \A x \in Orders : x # o => so'[x] = so[x]
  BY OrderStatusWrite DEF ShipSalesOrder, SourceInv, ReadyInv, IInv, OrderStatus
<1>2. UNCHANGED <<wo, requested>> /\ \A l \in Lines : line'[l].alloc = line[l].alloc
  BY DEF ShipSalesOrder
<1>3. \A l \in Lines : Sourced(l)' = Sourced(l)
  BY <1>2 DEF Sourced, LiveWorkOrder
<1>4. BuildsArePlanned'
  BY <1>1, <1>2 DEF SourceInv, BuildsArePlanned, LiveWorkOrder
<1>5. PlannedIsSourced'
  <2> SUFFICES ASSUME NEW x \in Orders, so'[x].status \in {"PLANNED", "IN_PRODUCTION", "READY_TO_SHIP"},
                      NEW l \in LinesOf(x), LinePart[l] \in MakeParts \cup BuyParts
               PROVE  Sourced(l)' >= LineQty[l]
    BY DEF PlannedIsSourced, LinesOf, Sourced, LiveWorkOrder
  <2>1. x # o /\ l \in Lines
    BY <1>1 DEF LinesOf
  <2> QED BY <1>1, <1>3, <2>1, SourcedAsBefore
<1> QED BY <1>0, <1>4, <1>5 DEF SourceInv

LEMMA SourceInit == Init => SourceInv
<1> SUFFICES ASSUME Init PROVE SourceInv
  OBVIOUS
<1> QED BY ReadyInit DEF Init, SourceInv, BuildsArePlanned, PlannedIsSourced, LiveWorkOrder

LEMMA SourceStep == ReleaseQtys = {} /\ ~AgentEnabled /\ SourceInv /\ [Next]_vars => SourceInv'
<1> SUFFICES ASSUME ReleaseQtys = {}, ~AgentEnabled, SourceInv, [Next]_vars PROVE SourceInv'
  OBVIOUS
<1>0. IInv /\ TypeOK /\ ReadyInv'
  BY ReadyStep DEF SourceInv, ReadyInv, IInv
<1>1. ASSUME UNCHANGED <<line, requested>> /\ QuietOrders,
             \A l \in Lines : (LiveWorkOrder(l)' <=> LiveWorkOrder(l)) /\ wo'[l].qty = wo[l].qty
      PROVE  SourceInv'
  BY <1>0, <1>1, QuietSourced
<1>2. ASSUME UNCHANGED wo
      PROVE  \A l \in Lines : (LiveWorkOrder(l)' <=> LiveWorkOrder(l)) /\ wo'[l].qty = wo[l].qty
  BY <1>2 DEF LiveWorkOrder
<1>3. CASE UNCHANGED vars
  BY <1>0, <1>1, <1>2, <1>3, QuietHandlers DEF vars
<1>4. ASSUME NEW o \in Orders,
             \/ CreateSalesOrder(o) \/ UpdateDepositStatus(o) \/ DateArrives(o) \/ QueueShipment(o)
             \/ \E s \in Shipments : CreateManualShipment(o, s)
      PROVE  SourceInv'
  <2>1. UNCHANGED wo
    BY <1>4 DEF CreateSalesOrder, UpdateDepositStatus, DateArrives, QueueShipment, CreateManualShipment
  <2> QED BY <1>0, <1>1, <1>2, <1>4, <2>1, QuietHandlers
<1>5. ASSUME NEW r \in Rows, ReceiveStock(r) \/ PutAway(r) PROVE SourceInv'
  <2>1. UNCHANGED wo
    BY <1>5 DEF ReceiveStock, PutAway
  <2> QED BY <1>0, <1>1, <1>2, <1>5, <2>1, QuietHandlers
<1>6. ASSUME NEW s \in Shipments, VerifyPackingList(s) \/ PackShipment(s) PROVE SourceInv'
  <2>1. UNCHANGED wo
    BY <1>6 DEF VerifyPackingList, PackShipment
  <2> QED BY <1>0, <1>1, <1>2, <1>6, <2>1, QuietHandlers
<1>7. ASSUME NEW l \in Lines, SendToReceiving(l) PROVE SourceInv'
  <2>1. /\ wo[l].status = "OPEN" /\ wo'[l].status = "READY_FOR_PUTAWAY" /\ wo'[l].qty = wo[l].qty
        /\ \A m \in Lines : m # l => wo'[m] = wo[m]
    BY <1>0, <1>7, WorkOrderStatusWrite DEF SendToReceiving, WorkOrderStatus
  <2>2. \A m \in Lines : (LiveWorkOrder(m)' <=> LiveWorkOrder(m)) /\ wo'[m].qty = wo[m].qty
    BY <2>1 DEF LiveWorkOrder
  <2> QED BY <1>0, <1>1, <1>7, <2>2, QuietHandlers
<1>8. \A l \in Lines : ~AgentFinishes(l)
  BY DEF AgentFinishes
<1>9. ASSUME NEW p \in Parts, NEW named \in Orders \cup {NoOrder}, NEW qty \in ReleaseQtys,
             ReleaseCommitment(p, named, qty)
      PROVE  FALSE
  OBVIOUS
<1> QED BY <1>3, <1>4, <1>5, <1>6, <1>7, <1>8, <1>9, PlanSourced, CompletionSourced, ShipSourced, Zenon DEF Next

\* Where no commitment is released and the agent closes no work order, every unit of a
\* planned order that can be made or bought is allocated, in production or requested.
THEOREM PlannedHasSource ==
  ASSUME ReleaseQtys = {}, ~AgentEnabled
  PROVE  Spec => []PlannedIsSourced
<1>1. SourceInv => PlannedIsSourced
  BY DEF SourceInv
<1>2. SourceInv /\ [Next]_vars => SourceInv'
  BY SourceStep
<1> QED BY <1>1, <1>2, SourceInit, PTL DEF Spec

-----------------------------------------------------------------------------
(* No unit is lost or doubled                                              *)

\* An order asks for a part on one line only: two lines of one part may be issued from
\* one row, and then the later write undoes the earlier one.
PartOncePerOrder ==
  \A l, m \in Lines : LineOrder[l] = LineOrder[m] /\ LinePart[l] = LinePart[m] => l = m

LinesFor(p) == {l \in Lines : LinePart[l] = p}

LEMMA PartsAreFinite == \A p : IsFiniteSet(RowsOf(p)) /\ IsFiniteSet(LinesFor(p))
<1> TAKE p
<1>1. RowsOf(p) \subseteq Rows /\ LinesFor(p) \subseteq Lines
  BY DEF RowsOf, LinesFor
<1> QED BY <1>1, FS_Subset

\* A step that leaves the units on the rows of a part and on its lines alone.
LEMMA UnitsUntouched ==
  ASSUME NEW p \in Parts,
         \A r \in RowsOf(p) : row'[r].onHand = row[r].onHand,
         \A l \in LinesFor(p) : line'[l].shipped = line[l].shipped
  PROVE  Units(p)' = Units(p)
<1>1. [r \in RowsOf(p) |-> row'[r].onHand] = [r \in RowsOf(p) |-> row[r].onHand]
  OBVIOUS
<1>2. [l \in LinesFor(p) |-> line'[l].shipped] = [l \in LinesFor(p) |-> line[l].shipped]
  OBVIOUS
<1> QED BY <1>1, <1>2 DEF Units, LinesFor, RowsOf

\* What a shipment takes from the rows of a part it records on the one line of that part.
LEMMA ShipConserves ==
  ASSUME PartOncePerOrder, IInv, NEW o \in Orders, NEW s \in Shipments, NEW force \in BOOLEAN,
         ShipSalesOrder(o, s, force), NEW p \in Parts
  PROVE  Units(p)' = Units(p)
<1>1. PICK k \in PickPlans(o) : \E last \in LastTakers(o, k) : row' = RowsIssued(o, k, last)
  BY DEF ShipSalesOrder
<1>2. PICK last \in LastTakers(o, k) : row' = RowsIssued(o, k, last)
  BY <1>1
<1>3. \A l \in Lines : line'[l].shipped = IF l \in Needy(o) THEN LineQty[l] ELSE line[l].shipped
  BY DEF ShipSalesOrder
<1>4. ASSUME NEW l \in Needy(o)
      PROVE  l \in Lines /\ LineOrder[l] = o /\ k[l] \in Picks(l) /\ DOMAIN k[l] = RowsOf(LinePart[l])
  <2>1. l \in Lines /\ LineOrder[l] = o /\ k[l] \in Picks(l)
    BY DEF Needy, LinesOf, PickPlans
  <2>2. k[l] \in Takes([r \in RowsOf(LinePart[l]) |-> Pool(row[r])])
    BY <2>1, FillsAreTakes DEF Picks
  <2> QED BY <2>1, <2>2 DEF Takes
<1>5. ASSUME NEW r \in RowsOf(p), NEW l \in Takers(o, k, r)
      PROVE  l \in Needy(o) /\ LinePart[l] = p /\ k[l][r] > 0
  BY <1>4 DEF Takers, RowsOf
<1>6. ASSUME NEW r \in RowsOf(p)
      PROVE  /\ r \in Rows /\ row[r] \in Quantities
             /\ Takers(o, k, r) = {} => row'[r] = row[r]
             /\ Takers(o, k, r) # {} => /\ last[r] \in Takers(o, k, r)
                                        /\ row'[r] = IssueCommitted(row[r], k[last[r]][r])
  BY <1>2 DEF RowsIssued, LastTakers, RowsOf, IInv, TypeOK
<1>7. CASE \A l \in Needy(o) : LinePart[l] # p
  <2>1. \A r \in RowsOf(p) : row'[r] = row[r]
    BY <1>5, <1>6, <1>7
  <2>2. \A l \in LinesFor(p) : line'[l].shipped = line[l].shipped
    BY <1>3, <1>7 DEF LinesFor
  <2> QED BY <2>1, <2>2, UnitsUntouched
<1>8. ASSUME NEW l \in Needy(o), LinePart[l] = p PROVE Units(p)' = Units(p)
  <2> DEFINE before == [r \in RowsOf(p) |-> row[r].onHand]
             after == [r \in RowsOf(p) |-> row'[r].onHand]
             gone == [m \in LinesFor(p) |-> line[m].shipped]
             gone2 == [m \in LinesFor(p) |-> line'[m].shipped]
  <2>0. l \in Lines /\ LineOrder[l] = o /\ k[l] \in Picks(l) /\ DOMAIN k[l] = RowsOf(p)
    BY <1>4, <1>8
  <2>1. \A m \in Needy(o) : LinePart[m] = p => m = l
    BY <1>4, <1>8, <2>0 DEF PartOncePerOrder
  <2>2. \A r \in RowsOf(p) : k[l][r] \in Nat /\ k[l][r] <= Pool(row[r])
    BY <2>0, PickBounds DEF IInv
  <2>3. \A r \in RowsOf(p) : before[r] \in Int /\ after[r] \in Int /\ before[r] = after[r] + k[l][r]
    <3> TAKE r \in RowsOf(p)
    <3>1. k[l][r] \in Nat /\ k[l][r] <= Pool(row[r]) /\ row[r] \in Quantities /\ row[r].onHand \in Nat
      BY <1>6, <2>2 DEF Quantities
    <3>2. CASE Takers(o, k, r) = {}
      <4>1. k[l][r] = 0
        BY <2>0, <3>1, <3>2 DEF Takers
      <4> QED BY <1>6, <3>1, <3>2, <4>1
    <3>3. CASE Takers(o, k, r) # {}
      <4>1. last[r] = l
        BY <1>5, <1>6, <2>1, <3>3
      <4>2. row'[r] = IssueCommitted(row[r], k[l][r])
        BY <1>6, <3>3, <4>1
      <4>3. row'[r].onHand = row[r].onHand - k[l][r]
        BY <3>1, <4>2, IssueKeeps
      <4> QED BY <3>1, <4>3
    <3> QED BY <3>2, <3>3
  <2>4. /\ LineQty[l] \in Nat /\ line[l].shipped \in Nat /\ Need(l) = LineQty[l] - line[l].shipped
        /\ l \in LinesFor(p)
    BY <1>8, <2>0 DEF IInv, TypeOK, Needy, Need, Monus, LinesFor
  <2>5. /\ \A m \in LinesFor(p) : gone[m] \in Int /\ (m # l => gone2[m] = gone[m])
        /\ gone2[l] = LineQty[l] /\ gone[l] = line[l].shipped
    <3>1. \A m \in LinesFor(p) : m \in Lines /\ (m # l => m \notin Needy(o))
      BY <2>1 DEF LinesFor
    <3> QED BY <1>3, <2>4, <3>1 DEF IInv, TypeOK
  <2>6. Total(k[l]) = Need(l) /\ Total(k[l]) = SumFunctionOnSet(k[l], RowsOf(p))
    BY <2>0, TotalOver DEF Picks
  <2>7. /\ Total(before) = SumFunctionOnSet(before, RowsOf(p))
        /\ Total(after) = SumFunctionOnSet(after, RowsOf(p))
        /\ Total(gone) = SumFunctionOnSet(gone, LinesFor(p))
        /\ Total(gone2) = SumFunctionOnSet(gone2, LinesFor(p))
    BY TotalOver
  <2>8. Units(p) = Total(before) + Total(gone) /\ Units(p)' = Total(after) + Total(gone2)
    BY DEF Units, LinesFor, RowsOf
  <2>9. IsFiniteSet(RowsOf(p)) /\ IsFiniteSet(LinesFor(p))
    BY PartsAreFinite
  <2> HIDE DEF before, after, gone, gone2
  <2>10. SumFunctionOnSet(before, RowsOf(p)) = SumFunctionOnSet(after, RowsOf(p)) + SumFunctionOnSet(k[l], RowsOf(p))
    BY <2>2, <2>3, <2>9, SumAdds
  <2>11. SumFunctionOnSet(gone2, LinesFor(p)) = SumFunctionOnSet(gone, LinesFor(p)) + gone2[l] - gone[l]
    BY <2>4, <2>5, <2>9, SumChanged
  <2>12. SumFunctionOnSet(after, RowsOf(p)) \in Int /\ SumFunctionOnSet(gone, LinesFor(p)) \in Int
    BY <2>3, <2>5, <2>9, SumPick
  <2> QED BY <2>4, <2>5, <2>6, <2>7, <2>8, <2>10, <2>11, <2>12
<1> QED BY <1>7, <1>8

\* The other steps neither take units from rows nor record any, except receipts and builds.
LEMMA OthersConserve ==
  ASSUME IInv, NEW p \in Parts,
         \/ UNCHANGED vars
         \/ \E o \in Orders : \/ CreateSalesOrder(o) \/ UpdateDepositStatus(o) \/ DateArrives(o)
                              \/ QueueShipment(o)
                              \/ \E b \in BOOLEAN : PlanSalesOrder(o, b)
                              \/ \E s \in Shipments : CreateManualShipment(o, s)
         \/ \E q \in Parts, named \in Orders \cup {NoOrder}, qty \in ReleaseQtys : ReleaseCommitment(q, named, qty)
         \/ \E r \in Rows : ReceiveStock(r) \/ PutAway(r)
         \/ \E l \in Lines : SendToReceiving(l) \/ AgentFinishes(l)
         \/ \E l \in Lines, r \in Rows : CompleteToStock(l, r)
         \/ \E s \in Shipments : VerifyPackingList(s) \/ PackShipment(s)
  PROVE  Units(p)' = Units(p) \/ BringsIn(p)
<1>0. RowsOf(p) \subseteq Rows /\ LinesFor(p) \subseteq Lines
  BY DEF RowsOf, LinesFor
<1>1. ASSUME UNCHANGED <<row, line>> PROVE Units(p)' = Units(p)
  BY <1>1, UnitsUntouched
<1>2. ASSUME NEW o \in Orders, NEW b \in BOOLEAN, PlanSalesOrder(o, b) PROVE Units(p)' = Units(p)
  <2>1. PICK a \in Allocations(o, b) : /\ \E t \in Draws(a) : row' = [r \in Rows |-> Reserve(row[r], t[r])]
                                       /\ line' = PlannedLines(o, a)
    BY <1>2 DEF PlanSalesOrder
  <2>2. \A r \in Rows : row'[r].onHand = row[r].onHand
    BY <2>1 DEF Reserve
  <2>3. \A l \in Lines : line'[l].shipped = line[l].shipped
    BY <2>1 DEF PlannedLines, PlannedLine
  <2> QED BY <1>0, <2>2, <2>3, UnitsUntouched
<1>3. ASSUME NEW q \in Parts, NEW named \in Orders \cup {NoOrder}, NEW qty \in ReleaseQtys,
             ReleaseCommitment(q, named, qty)
      PROVE  Units(p)' = Units(p)
  <2>1. PICK t \in LargestFirst([r \in RowsOf(q) |-> row[r].commit], qty) :
          row' = [r \in Rows |-> IF r \in RowsOf(q) THEN Unreserve(row[r], t[r]) ELSE row[r]]
    BY <1>3, Zenon DEF ReleaseCommitment
  <2>2. \A r \in Rows : row'[r].onHand = row[r].onHand
    BY <2>1 DEF Unreserve
  <2>3. Delivered' = Delivered
    BY <1>3, ReleaseIsSilent DEF Promise!promise, Delivered
  <2>4. \A l \in Lines : line'[l].shipped = line[l].shipped
    <3>1. \A l \in Lines : Delivered[l] = line[l].shipped /\ Delivered'[l] = line'[l].shipped
      BY DEF Delivered
    <3> QED BY <2>3, <3>1
  <2> QED BY <1>0, <2>2, <2>4, UnitsUntouched
<1>4. ASSUME NEW r \in Rows, ReceiveStock(r) PROVE Units(p)' = Units(p) \/ BringsIn(p)
  <2>1. CASE r \in RowsOf(p)
    BY <1>4, <2>1 DEF BringsIn
  <2>2. CASE r \notin RowsOf(p)
    <3>1. UNCHANGED line /\ \A x \in Rows : x # r => row'[x] = row[x]
      BY <1>4 DEF ReceiveStock, IInv, TypeOK
    <3> QED BY <1>0, <2>2, <3>1, UnitsUntouched
  <2> QED BY <2>1, <2>2
<1>5. ASSUME NEW r \in Rows, PutAway(r) PROVE Units(p)' = Units(p)
  <2>1. UNCHANGED line /\ row' = [row EXCEPT ![r] = Shelved(row[r])]
    BY <1>5 DEF PutAway
  <2>2. \A x \in Rows : row'[x].onHand = row[x].onHand
    BY <2>1 DEF IInv, TypeOK, Quantities, Shelved
  <2> QED BY <1>0, <2>1, <2>2, UnitsUntouched
<1>6. ASSUME NEW l \in Lines, NEW r \in Rows, CompleteToStock(l, r)
      PROVE  Units(p)' = Units(p) \/ BringsIn(p)
  <2>1. CASE r \in RowsOf(p)
    BY <1>6, <2>1, Zenon DEF BringsIn
  <2>2. CASE r \notin RowsOf(p)
    <3>1. \A x \in Rows : x # r => row'[x] = row[x]
      BY <1>6 DEF CompleteToStock, IInv, TypeOK
    <3>2. \A m \in Lines : line'[m].shipped = line[m].shipped
      BY <1>6 DEF CompleteToStock, IInv, TypeOK
    <3> QED BY <1>0, <2>2, <3>1, <3>2, UnitsUntouched
  <2> QED BY <2>1, <2>2
<1> QED BY <1>1, <1>2, <1>3, <1>4, <1>5, <1>6 DEF vars, CreateSalesOrder, UpdateDepositStatus, DateArrives,
     QueueShipment, CreateManualShipment, SendToReceiving, AgentFinishes, VerifyPackingList, PackShipment

\* As long as no order asks for a part on two lines, a unit of stock comes from a receipt
\* or a build and leaves on a line that records it, whatever is planned, released, shelved,
\* shipped or packed again.
THEOREM UnitsAreConserved ==
  ASSUME PartOncePerOrder
  PROVE  Spec => UnitsConserved
<1> DEFINE A == \A p \in Parts : Units(p)' = Units(p) \/ BringsIn(p)
<1>1. IInv /\ [Next]_vars => [A]_vars
  <2> SUFFICES ASSUME IInv, [Next]_vars, NEW p \in Parts PROVE Units(p)' = Units(p) \/ BringsIn(p)
    OBVIOUS
  <2>1. ASSUME NEW o \in Orders, NEW s \in Shipments, NEW force \in BOOLEAN, ShipSalesOrder(o, s, force)
        PROVE  Units(p)' = Units(p)
    BY <2>1, ShipConserves
  <2> QED BY <2>1, OthersConserve, Zenon DEF Next
<1> HIDE DEF A
<1>2. Spec => [][A]_vars
  BY <1>1, Inductive, PTL DEF Spec
<1> QED BY <1>2 DEF UnitsConserved, A
=============================================================================
