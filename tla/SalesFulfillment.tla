--------------------------- MODULE SalesFulfillment ---------------------------
(***************************************************************************)
(* From a sales order to the invoice of its shipment: the handlers of      *)
(* src/lib/services/order-fulfillment.ts, commitments.ts and billing.ts,   *)
(* each taken as one step.  What remains are the orders in which people    *)
(* call them: planning twice, shipping before a build comes back,          *)
(* releasing what was promised, packing again what has left.  Module       *)
(* ShipRace opens the handlers up at their awaits.                         *)
(*                                                                         *)
(* Quantities are whole numbers.  A work order is known by the sales order *)
(* line it was planned for, since a line has at most one live work order   *)
(* (planSalesOrderFulfillment); the work order's life between PLANNED and  *)
(* IN_PROGRESS belongs to module Kitting and is the single status OPEN.    *)
(***************************************************************************)
EXTENDS StockRows

CONSTANTS
  Orders,        \* sales orders that may be created
  Lines,         \* their lines
  Parts,
  Rows,          \* InventoryItem ids
  Shipments,     \* Shipment ids
  LineOrder,     \* [Lines -> Orders]
  LinePart,      \* [Lines -> Parts]
  LineQty,       \* [Lines -> Nat \ {0}]
  RowPart,       \* [Rows -> Parts]
  OpeningStock,  \* [Rows -> Nat], on the shelf and free at the start
  MakeParts,     \* parts with a CERTIFIED BOM
  BuyParts,      \* parts without one, of type BUY
  Deposits,      \* input: deposit statuses a new order may get from its credit check
  Gates,         \* input: may a new order be held until a date?
  PutAwayAreas,  \* input: where putaway may put material
  ReceiptQtys,   \* bound: the quantities a receipt may bring
  ReleaseQtys,   \* bound: the quantities a release may ask for
  MaxOnHand,     \* bound: receipts stop at this many units in a row
  MaxRequested,  \* bound: purchase requests stop at this many units of a line
  AgentEnabled,  \* does the tenant use the Carina agent?
  NoOrder        \* stands for a null salesOrderId

ASSUME LinesAssumption ==
  /\ IsFiniteSet(Lines) /\ LineOrder \in [Lines -> Orders]
  /\ LinePart \in [Lines -> Parts]
  /\ LineQty \in [Lines -> Nat \ {0}]
  /\ NoOrder \notin Orders
ASSUME RowsAssumption ==
  /\ IsFiniteSet(Rows) /\ RowPart \in [Rows -> Parts]
  /\ OpeningStock \in [Rows -> Nat]
ASSUME PartsAssumption ==
  MakeParts \subseteq Parts /\ BuyParts \subseteq Parts \ MakeParts
ASSUME InputsAssumption ==
  /\ Deposits \subseteq {"N_A", "PENDING"} /\ Gates \subseteq BOOLEAN
  /\ PutAwayAreas \subseteq {"STORAGE", "GFP"}
ASSUME BoundsAssumption ==
  /\ ReceiptQtys \subseteq Nat \ {0} /\ ReleaseQtys \subseteq Nat \ {0}
  /\ MaxOnHand \in Nat /\ MaxRequested \in Nat /\ AgentEnabled \in BOOLEAN

VARIABLES
  so,        \* [Orders -> SalesOrder status, deposit and date gate]
  line,      \* [Lines -> fulfillmentStatus, quantityAllocated, quantityShipped]
  wo,        \* [Lines -> status and quantity of the line's latest WorkOrder]
  requested, \* [Lines -> units on the purchase requests planning opened]
  row,       \* [Rows -> Quantities]
  where,     \* [Rows -> type of the row's location]
  shp,       \* [Shipments -> order, status, packingListVerified]
  invoices   \* [Orders -> number of AR invoices]

vars == <<so, line, wo, requested, row, where, shp, invoices>>

OrderStatus ==
  {"NONE", "OPEN", "PLANNED", "IN_PRODUCTION", "READY_TO_SHIP", "SHIPPED"}
DepositStatus == {"N_A", "PENDING", "RECEIVED", "WAIVED"}
FulfillmentStatus ==
  {"OPEN", "STOCK_CHECK", "ALLOCATED", "MAKE_ORDERED", "PARTIAL", "READY", "SHIPPED"}
WorkOrderStatus == {"NONE", "OPEN", "READY_FOR_PUTAWAY", "COMPLETED"}
ShipmentStatus == {"NONE", "DRAFT", "PICKING", "VERIFIED", "PACKED", "SHIPPED"}
LocationType == {"RECEIVING", "STORAGE", "GFP"}

\* The types; in particular nothing the handlers subtract (allocating, releasing,
\* putting away, shipping) leaves a quantity negative.
TypeOK ==
  /\ so \in [Orders -> [status : OrderStatus, deposit : DepositStatus, gate : BOOLEAN]]
  /\ line \in [Lines -> [fs : FulfillmentStatus, alloc : Nat, shipped : Nat]]
  /\ wo \in [Lines -> [status : WorkOrderStatus, qty : Nat]]
  /\ requested \in [Lines -> Nat]
  /\ row \in [Rows -> Quantities]
  /\ where \in [Rows -> LocationType]
  /\ shp \in [Shipments -> [order : Orders \cup {NoOrder}, status : ShipmentStatus,
                            verified : BOOLEAN]]
  /\ invoices \in [Orders -> Nat]

Init ==
  /\ so = [o \in Orders |-> [status |-> "NONE", deposit |-> "N_A", gate |-> FALSE]]
  /\ line = [l \in Lines |-> [fs |-> "OPEN", alloc |-> 0, shipped |-> 0]]
  /\ wo = [l \in Lines |-> [status |-> "NONE", qty |-> 0]]
  /\ requested = [l \in Lines |-> 0]
  /\ row = [r \in Rows |-> Built(OpeningStock[r], FALSE)]
  /\ where = [r \in Rows |-> IF OpeningStock[r] > 0 THEN "STORAGE" ELSE "RECEIVING"]
  /\ shp = [s \in Shipments |-> [order |-> NoOrder, status |-> "NONE", verified |-> FALSE]]
  /\ invoices = [o \in Orders |-> 0]

-----------------------------------------------------------------------------
(* Vocabulary of the handlers                                              *)

LinesOf(o) == {l \in Lines : LineOrder[l] = o}
RowsOf(p) == {r \in Rows : RowPart[r] = p}

\* What an order still lacks on a line: max(0, quantity - quantityAllocated).
Short(l) == Monus(LineQty[l], line[l].alloc)

LiveWorkOrder(l) == wo[l].status \in {"OPEN", "READY_FOR_PUTAWAY"}

\* getAvailableQty: free stock in STORAGE.  getAvailableInventory, which the
\* allocation then draws on, looks in the government property area too.
AvailableQty(p) ==
  Total([r \in {x \in RowsOf(p) : where[x] = "STORAGE"} |-> row[r].avail])
Allocatable(p) == {r \in RowsOf(p) : where[r] \in {"STORAGE", "GFP"}}

DepositHolds(o) == so[o].deposit = "PENDING"

\* canShipNow: the deposit is a hard block, the date gate gives way to force.
\* (Mutant: force overrides both.)
CanShipIfForced(o, force) == DepositHolds(o) \/ so[o].gate => force
CanShip(o, force) == ~DepositHolds(o) /\ (so[o].gate => force)

\* A line that needs nothing more before it ships.  (Mutant: half is enough.)
IsCoveredInPart(l, ln) ==
  ln[l].fs \in {"READY", "ALLOCATED", "SHIPPED", "PARTIAL"} \/ ln[l].alloc >= LineQty[l]
IsCovered(l, ln) ==
  ln[l].fs \in {"READY", "ALLOCATED", "SHIPPED"} \/ ln[l].alloc >= LineQty[l]

\* ensureShipmentForSalesOrder, run on an order of status st and lines ln: an
\* open shipment is found again, otherwise a new one is queued.
FindsOpenShipment(o) ==
  \E s \in Shipments : shp[s].order = o /\ shp[s].status \in {"DRAFT", "PICKING", "PACKED"}

NothingToQueue(o, st, ln) ==
  /\ st \notin {"READY_TO_SHIP", "IN_PRODUCTION"}
  /\ \A l \in LinesOf(o) : ln[l].fs # "READY" /\ ln[l].alloc = 0

QueueNewShipment(o) ==
  \E s \in Shipments :
    /\ shp[s].status = "NONE"
    /\ shp' = [shp EXCEPT ![s] =
                 [order |-> o, verified |-> FALSE,
                  status |-> IF CanShip(o, FALSE) THEN "PICKING" ELSE "DRAFT"]]

EnsureShipment(o, st, ln) ==
  IF FindsOpenShipment(o) \/ NothingToQueue(o, st, ln)
    THEN UNCHANGED shp
    ELSE QueueNewShipment(o)

-----------------------------------------------------------------------------
(* Orders                                                                  *)

\* createSalesOrder.  The customer's credit at that moment decides whether a
\* deposit is due; early shipment may be allowed or gated by a date.
CreateSalesOrder(o) ==
  /\ so[o].status = "NONE"
  /\ \E d \in Deposits, g \in Gates :
       so' = [so EXCEPT ![o] = [status |-> "OPEN", deposit |-> d, gate |-> g]]
  /\ UNCHANGED <<line, wo, requested, row, where, shp, invoices>>

\* actionUpdateDepositStatus: any status at any time, on an order that needs one.
UpdateDepositStatus(o) ==
  /\ so[o].status # "NONE" /\ so[o].deposit # "N_A"
  /\ \E d \in {"PENDING", "RECEIVED", "WAIVED"} : so' = [so EXCEPT ![o].deposit = d]
  /\ UNCHANGED <<line, wo, requested, row, where, shp, invoices>>

\* The date of shipNotBefore or requiredDate arrives.
DateArrives(o) ==
  /\ so[o].gate
  /\ so' = [so EXCEPT ![o].gate = FALSE]
  /\ UNCHANGED <<line, wo, requested, row, where, shp, invoices>>

-----------------------------------------------------------------------------
(* Planning                                                                *)

\* The lines a plan works on: READY and SHIPPED ones are skipped, and so is one
\* whose live work order is to cover what is short.  (Mutant: planning again
\* forgets what is being made.)
PlannableWhileMade(o) == {l \in LinesOf(o) : line[l].fs \notin {"READY", "SHIPPED"}}
Plannable(o) ==
  {l \in LinesOf(o) : /\ line[l].fs \notin {"READY", "SHIPPED"}
                      /\ ~(LiveWorkOrder(l) /\ Short(l) > 0)}

\* How the stock check may divide free stock over the lines, in any line order.
Allocations(o, bypass) ==
  {a \in [LinesOf(o) -> UNION {0 .. LineQty[l] : l \in LinesOf(o)}] :
     \A p \in Parts :
       [l \in {x \in LinesOf(o) : LinePart[x] = p} |-> a[l]] \in
         Fills([l \in {x \in LinesOf(o) : LinePart[x] = p} |->
                  IF l \in Plannable(o) THEN Short(l) ELSE 0],
               IF bypass THEN 0 ELSE AvailableQty(p))}

\* The units lines of one part were allocated together.
OfPart(a, p) == Total([l \in {x \in DOMAIN a : LinePart[x] = p} |-> a[l]])

\* How allocateFinishedGoods may draw them from the rows.
Draws(a) ==
  {t \in Takes([r \in Rows |-> row[r].avail]) :
     /\ \A r \in Rows : t[r] > 0 => r \in Allocatable(RowPart[r])
     /\ \A p \in Parts :
          Total([r \in RowsOf(p) |-> t[r]]) = OfPart(a, p)}

\* The line after its stock check: ready, or short by make units.
PlannedLine(l, a) ==
  LET make == Short(l) - a
  IN  [fs      |-> IF make = 0 THEN "READY"
                   ELSE IF a > 0 THEN "PARTIAL"
                   ELSE IF LinePart[l] \in MakeParts THEN "MAKE_ORDERED"
                   ELSE "OPEN",
       alloc   |-> line[l].alloc + a,
       shipped |-> line[l].shipped]

PlannedLines(o, a) ==
  [l \in Lines |-> IF l \in Plannable(o) THEN PlannedLine(l, a[l]) ELSE line[l]]

\* What the stock check leaves to make or buy, and the lines a work order is
\* created for.  (Mutant: nothing is made for a line that got some stock.)
MakeQtyUnlessPartial(o, a, l) ==
  IF l \in Plannable(o) /\ a[l] = 0 THEN Short(l) ELSE 0
MakeQty(o, a, l) == IF l \in Plannable(o) THEN Short(l) - a[l] ELSE 0
NewWorkOrders(o, a) == {l \in Plannable(o) : MakeQty(o, a, l) > 0 /\ LinePart[l] \in MakeParts}

\* The lines a work order, new or live, is making units for.
InMake(o, a) ==
  NewWorkOrders(o, a) \cup
  {l \in LinesOf(o) : /\ line[l].fs \notin {"READY", "SHIPPED"}
                      /\ LiveWorkOrder(l) /\ Short(l) > 0}

PlannedStatus(o, a) ==
  IF \A l \in LinesOf(o) : IsCovered(l, PlannedLines(o, a)) THEN "READY_TO_SHIP"
  ELSE IF InMake(o, a) # {} THEN "IN_PRODUCTION"
  ELSE "PLANNED"

\* planSalesOrderFulfillment: stock check, allocation, then a work order or a
\* purchase request for what is short; the order's status; the ship queue.
PlanSalesOrder(o, bypass) ==
  /\ so[o].status \notin {"NONE", "SHIPPED"}
  /\ \E a \in Allocations(o, bypass) :
       /\ \E t \in Draws(a) : row' = [r \in Rows |-> Reserve(row[r], t[r])]
       /\ line' = PlannedLines(o, a)
       /\ wo' = [l \in Lines |-> IF l \in NewWorkOrders(o, a)
                                   THEN [status |-> "OPEN", qty |-> MakeQty(o, a, l)]
                                   ELSE wo[l]]
       /\ requested' = [l \in Lines |-> requested[l] +
                          (IF LinePart[l] \in BuyParts THEN MakeQty(o, a, l) ELSE 0)]
       /\ \A l \in Lines : requested'[l] <= MaxRequested
       /\ so' = [so EXCEPT ![o].status = PlannedStatus(o, a)]
       /\ IF PlannedStatus(o, a) = "READY_TO_SHIP"
            THEN EnsureShipment(o, "READY_TO_SHIP", PlannedLines(o, a))
            ELSE UNCHANGED shp
  /\ UNCHANGED <<where, invoices>>

\* releaseCommitment: promised units become free again, from the rows that hold
\* most of them.  A line forgets its share only when its order is named.
ReleaseCommitment(p, named, qty) ==
  /\ \E r \in RowsOf(p) : row[r].commit > 0
  /\ \E t \in LargestFirst([r \in RowsOf(p) |-> row[r].commit], qty) :
       /\ row' = [r \in Rows |->
                    IF r \in RowsOf(p) THEN Unreserve(row[r], t[r]) ELSE row[r]]
       /\ IF named = NoOrder
            THEN UNCHANGED line
            ELSE LET mine == {l \in LinesOf(named) : LinePart[l] = p}
                 IN  \E c \in Fills([l \in mine |-> line[l].alloc], Total(t)) :
                       line' = [l \in Lines |->
                                  IF l \in mine
                                    THEN [line[l] EXCEPT !.alloc = @ - c[l]]
                                    ELSE line[l]]
  /\ UNCHANGED <<so, wo, requested, where, shp, invoices>>

-----------------------------------------------------------------------------
(* Stock and production                                                    *)

\* The part of receivePurchaseOrder that touches stock: the receipt joins the
\* row that waits at the dock or makes one, and is free only after putaway.
ReceiveStock(r) ==
  /\ where[r] = "RECEIVING" \/ row[r] = EmptyRow
  /\ \E q \in ReceiptQtys :
       /\ row[r].onHand + q <= MaxOnHand
       /\ row' = [row EXCEPT ![r].onHand = @ + q]
  /\ where' = [where EXCEPT ![r] = "RECEIVING"]
  /\ UNCHANGED <<so, line, wo, requested, shp, invoices>>

\* putAwayInventory, to a shelf or to the government property area.
PutAway(r) ==
  /\ row[r].onHand > 0
  /\ \E dest \in PutAwayAreas : where' = [where EXCEPT ![r] = dest]
  /\ row' = [row EXCEPT ![r] = Shelved(@)]
  /\ UNCHANGED <<so, line, wo, requested, shp, invoices>>

\* sendWorkOrderToReceivingPutaway, after the last traveler step is signed.
SendToReceiving(l) ==
  /\ wo[l].status = "OPEN"
  /\ wo' = [wo EXCEPT ![l].status = "READY_FOR_PUTAWAY"]
  /\ UNCHANGED <<so, line, requested, row, where, shp, invoices>>

\* executeFinishWo: the agent closes a work order that is not at receiving.
AgentFinishes(l) ==
  /\ AgentEnabled
  /\ wo[l].status = "OPEN"
  /\ wo' = [wo EXCEPT ![l].status = "COMPLETED"]
  /\ UNCHANGED <<so, line, requested, row, where, shp, invoices>>

\* syncSalesOrderReadyStatus, for an order whose lines have become ln.  (Mutant: a
\* late build sends an order that has left back to the ship queue.)
SyncReadyStatusAlways(o, ln) ==
  IF \A l \in LinesOf(o) : ln[l].fs \in {"READY", "SHIPPED"} \/ ln[l].alloc >= LineQty[l]
    THEN /\ so' = [so EXCEPT ![o].status = "READY_TO_SHIP"]
         /\ EnsureShipment(o, "READY_TO_SHIP", ln)
    ELSE UNCHANGED <<so, shp>>
SyncReadyStatus(o, ln) ==
  IF /\ \A l \in LinesOf(o) : ln[l].fs \in {"READY", "SHIPPED"} \/ ln[l].alloc >= LineQty[l]
     /\ so[o].status \notin {"NONE", "SHIPPED"}
    THEN /\ so' = [so EXCEPT ![o].status = "READY_TO_SHIP"]
         /\ EnsureShipment(o, "READY_TO_SHIP", ln)
    ELSE UNCHANGED <<so, shp>>

\* completeWorkOrderToStock: a new row, committed to the sale it was built for.
CompleteToStock(l, r) ==
  /\ wo[l].status = "READY_FOR_PUTAWAY"
  /\ RowPart[r] = LinePart[l] /\ row[r] = EmptyRow
  /\ row' = [row EXCEPT ![r] = Built(wo[l].qty, TRUE)]
  /\ where' = [where EXCEPT ![r] = "STORAGE"]
  /\ wo' = [wo EXCEPT ![l].status = "COMPLETED"]
  /\ LET alloc == line[l].alloc + wo[l].qty
         ln    == [line EXCEPT ![l] =
                     [fs |-> IF alloc >= LineQty[l] THEN "READY" ELSE "PARTIAL",
                      alloc |-> alloc, shipped |-> @.shipped]]
     IN  line' = ln /\ SyncReadyStatus(LineOrder[l], ln)
  /\ UNCHANGED <<requested, invoices>>

-----------------------------------------------------------------------------
(* Shipping                                                                *)

\* actionQueueShipment.
QueueShipment(o) ==
  /\ so[o].status # "NONE"
  /\ EnsureShipment(o, so[o].status, line)
  /\ UNCHANGED <<so, line, wo, requested, row, where, invoices>>

\* createManualShipment on an order: no look at what is open already.
CreateManualShipment(o, s) ==
  /\ so[o].status # "NONE" /\ shp[s].status = "NONE"
  /\ shp' = [shp EXCEPT ![s] = [order |-> o, status |-> "DRAFT", verified |-> FALSE]]
  /\ UNCHANGED <<so, line, wo, requested, row, where, invoices>>

VerifyPackingList(s) ==
  /\ shp[s].status \notin {"NONE", "SHIPPED"}
  /\ shp' = [shp EXCEPT ![s] =
                [order |-> @.order, verified |-> TRUE,
                 status |-> IF @.status = "DRAFT" THEN "PICKING"
                            ELSE IF @.status = "PICKING" THEN "VERIFIED"
                            ELSE @.status]]
  /\ UNCHANGED <<so, line, wo, requested, row, where, invoices>>

\* packShipment asks only that the packing list was verified once.
PackShipment(s) ==
  /\ shp[s].verified
  /\ shp' = [shp EXCEPT ![s].status = "PACKED"]
  /\ UNCHANGED <<so, line, wo, requested, row, where, invoices>>

\* What is still to leave on a line.  (Mutant: what left before is forgotten.)
NeedAll(l) == LineQty[l]
Need(l) == Monus(LineQty[l], line[l].shipped)
Needy(o) == {l \in LinesOf(o) : Need(l) > 0}

\* The preflight of shipSalesOrder: every needy line finds its units among all
\* the part's rows, whoever they are promised to.  Each line is checked against
\* the same rows.
Picks(l) ==
  {t \in Fills([r \in RowsOf(LinePart[l]) |-> Pool(row[r])], Need(l)) :
     Total(t) = Need(l)}
PickPlans(o) ==
  {k \in [Needy(o) -> UNION {Picks(l) : l \in Needy(o)}] :
     \A l \in Needy(o) : k[l] \in Picks(l)}

Takers(o, k, r) == {l \in Needy(o) : r \in DOMAIN k[l] /\ k[l][r] > 0}

\* The lines are then written one after the other, in the order the database
\* returned them, each row as the preflight saw it minus that line's take: of
\* two takes from a row the later one stays.
LastTakers(o, k) ==
  {last \in [Rows -> Lines] :
     \E rank \in Injection(Needy(o), 1 .. Cardinality(Needy(o))) :
       \A r \in Rows : Takers(o, k, r) # {} =>
         /\ last[r] \in Takers(o, k, r)
         /\ \A l \in Takers(o, k, r) : rank[l] <= rank[last[r]]}
RowsIssued(o, k, last) ==
  [r \in Rows |-> IF Takers(o, k, r) = {}
                    THEN row[r]
                    ELSE IssueCommitted(row[r], k[last[r]][r])]

\* raiseArInvoiceForShipment: once per sales order, for orders that are worth
\* something.
Billed(o) == [invoices EXCEPT ![o] = IF @ = 0 THEN 1 ELSE @]

\* shipSalesOrder: gate, packed shipment, preflight, issue, close, bill.
ShipSalesOrder(o, s, force) ==
  /\ so[o].status # "NONE" /\ CanShip(o, force)
  /\ shp[s].order = o /\ shp[s].status = "PACKED"
  /\ \E k \in PickPlans(o) : \E last \in LastTakers(o, k) : row' = RowsIssued(o, k, last)
  /\ line' = [l \in Lines |->
                IF l \in Needy(o)
                  THEN [fs |-> "SHIPPED", alloc |-> line[l].alloc, shipped |-> LineQty[l]]
                  ELSE line[l]]
  /\ shp' = [shp EXCEPT ![s].status = "SHIPPED"]
  /\ so' = [so EXCEPT ![o].status = "SHIPPED"]
  /\ invoices' = Billed(o)
  /\ UNCHANGED <<wo, requested, where>>

-----------------------------------------------------------------------------
Next ==
  \/ \E o \in Orders :
       \/ CreateSalesOrder(o)
       \/ UpdateDepositStatus(o)
       \/ DateArrives(o)
       \/ QueueShipment(o)
       \/ \E bypass \in BOOLEAN : PlanSalesOrder(o, bypass)
       \/ \E s \in Shipments : CreateManualShipment(o, s)
       \/ \E s \in Shipments, force \in BOOLEAN : ShipSalesOrder(o, s, force)
  \/ \E p \in Parts, named \in Orders \cup {NoOrder}, qty \in ReleaseQtys :
       ReleaseCommitment(p, named, qty)
  \/ \E r \in Rows : ReceiveStock(r) \/ PutAway(r)
  \/ \E l \in Lines : SendToReceiving(l) \/ AgentFinishes(l)
  \/ \E l \in Lines, r \in Rows : CompleteToStock(l, r)
  \/ \E s \in Shipments : VerifyPackingList(s) \/ PackShipment(s)

Spec == Init /\ [][Next]_vars

\* The staff of the planning, receiving and shipping boards take up whatever
\* is waiting there.  Nobody has to force, release, queue or create anything.
Fairness ==
  /\ \A o \in Orders : WF_vars(DateArrives(o)) /\ WF_vars(PlanSalesOrder(o, FALSE))
  /\ \A l \in Lines : WF_vars(SendToReceiving(l))
  /\ \A l \in Lines : WF_vars(\E r \in Rows : CompleteToStock(l, r))
  /\ \A s \in Shipments : WF_vars(VerifyPackingList(s)) /\ WF_vars(PackShipment(s))
  /\ \A o \in Orders, s \in Shipments : WF_vars(ShipSalesOrder(o, s, FALSE))

FairSpec == Spec /\ Fairness

-----------------------------------------------------------------------------
(* Properties                                                              *)

\* No handler ever promises a unit that is not there, and none loses sight of
\* one: on a shelf every unit is free or committed, at the dock none is either.
\* The handlers write the three counters of a row separately, and no database
\* constraint relates them.
RowAccounting ==
  \A r \in Rows :
    /\ Covered(row[r])
    /\ IF where[r] = "RECEIVING"
         THEN row[r].avail = 0 /\ row[r].commit = 0
         ELSE Balanced(row[r])

\* However often an order is planned, stock is released and builds come back,
\* a line never has more allocated and in production than was ordered.
NoOverPlanning ==
  \A l \in Lines :
    line[l].alloc + (IF LiveWorkOrder(l) THEN wo[l].qty ELSE 0) <= LineQty[l]

\* An order is SHIPPED exactly when all its lines left in full, and then, and
\* only then, there is one invoice for it.
ShippedInFullAndBilledOnce ==
  \A o \in Orders :
    IF so[o].status = "SHIPPED"
      THEN invoices[o] = 1 /\ \A l \in LinesOf(o) : line[l].shipped = LineQty[l]
      ELSE invoices[o] = 0 /\ \A l \in LinesOf(o) : line[l].shipped = 0

\* An order in the ship queue has all it needs allocated ("Ready only when every
\* line is fully allocated/ready"), as long as no commitment is released: a release
\* takes the stock and leaves the line and the order where they are.
ReadyMeansAllocated ==
  \A o \in Orders : so[o].status = "READY_TO_SHIP" =>
    \A l \in LinesOf(o) : line[l].alloc >= LineQty[l]

\* After planning, each unit of a line that can be made or bought is allocated,
\* in production or asked for on a purchase request: planning again, with or
\* without stock, or shipping in between drops none.
PlannedIsSourced ==
  \A o \in Orders : so[o].status \in {"PLANNED", "IN_PRODUCTION", "READY_TO_SHIP"} =>
    \A l \in LinesOf(o) : LinePart[l] \in MakeParts \cup BuyParts =>
      line[l].alloc + (IF LiveWorkOrder(l) THEN wo[l].qty ELSE 0) + requested[l]
        >= LineQty[l]

\* A unit of stock comes from a receipt or a build, and leaves on a line that
\* records it: planning, releasing, shelving and shipping neither lose nor double one.
Units(p) ==
  Total([r \in RowsOf(p) |-> row[r].onHand])
    + Total([l \in {x \in Lines : LinePart[x] = p} |-> line[l].shipped])
BringsIn(p) ==
  \E r \in RowsOf(p) : ReceiveStock(r) \/ \E l \in Lines : CompleteToStock(l, r)
UnitsConserved == [][\A p \in Parts : Units(p)' = Units(p) \/ BringsIn(p)]_vars

\* An order that is accepted, and not held for a deposit, ships in the end: no
\* sequence of planning, releasing, building and queueing leaves it stuck.
OrdersShip ==
  \A o \in Orders :
    so[o].status # "NONE" ~> so[o].status = "SHIPPED" \/ DepositHolds(o)

\* The promise to the customer and the books: every step of the handlers is a
\* step of OrderPromise or none.
Promise ==
  INSTANCE OrderPromise WITH
    stage <- [o \in Orders |-> IF so[o].status = "NONE" THEN "none"
                               ELSE IF so[o].status = "SHIPPED" THEN "done" ELSE "open"],
    held <- [o \in Orders |-> DepositHolds(o)],
    delivered <- [l \in Lines |-> line[l].shipped],
    bills <- invoices
KeepsThePromise == Promise!Spec
=============================================================================
