-------------------------------- MODULE Kitting --------------------------------
(***************************************************************************)
(* From a work order to its finished unit: the material check, the kit     *)
(* order that travels with the work order, the pick, and the start of      *)
(* production (src/lib/services/order-fulfillment.ts, kitting.ts,          *)
(* wip-locations.ts, work-orders.ts).  The pick is opened up: a request    *)
(* reads the kit once and then works through its lines, and the shelves,   *)
(* the sales orders and other picks move between two lines.  Every other   *)
(* handler is one step.                                                    *)
(*                                                                         *)
(* Quantities are whole numbers and scrap is part of a line's quantity.    *)
(* The purchase requests a shortage opens do not act back on anything here *)
(* and are left out; so is where staged material stands on the floor.      *)
(***************************************************************************)
EXTENDS StockRows

CONSTANTS
  WorkOrders,    \* of type PRODUCTION, each with a BOM
  Kits,          \* KitOrder ids
  BomLines, Parts, Rows,
  Pickers,       \* requests that run completeKitOrder
  Bom,           \* [WorkOrders -> SUBSET BomLines]
  LinePart,      \* [BomLines -> Parts]
  PerUnit,       \* [BomLines -> Nat \ {0}], scrap included
  WoQty,         \* [WorkOrders -> Nat \ {0}]
  Charge,        \* [WorkOrders -> may it use government stock?]
  Builds,        \* [WorkOrders -> the component it makes, or NoPart]
  RowPart,       \* [Rows -> Parts]
  OpeningStock,  \* [Rows -> Nat]
  OpeningArea,   \* [Rows -> where the row stands at the start]
  PutAwayAreas,  \* input: where putaway may put material
  SaleRows,      \* input: rows that sales orders draw on as well
  MayBypass,     \* input: work orders that may be planned past the stock check
  MaxOnHand,     \* bound: receipts stop at this many units in a row
  MaxStaged,     \* bound: a pick starts only below this many units of each line
  Crashes,       \* input: may a request die between two lines?
  NoKit, NoPart, NoWorkOrder

LocationType == {"RECEIVING", "STORAGE", "GFP"}

\* No project; a project whose contract matches the government property; another.
ChargeType == {"NONE", "MATCHES", "OTHER"}

ASSUME BomAssumption ==
  /\ IsFiniteSet(BomLines) /\ IsFiniteSet(Kits)
  /\ Bom \in [WorkOrders -> SUBSET BomLines]
  /\ LinePart \in [BomLines -> Parts]
  /\ PerUnit \in [BomLines -> Nat \ {0}]
  /\ WoQty \in [WorkOrders -> Nat \ {0}]
  /\ Charge \in [WorkOrders -> ChargeType]
  /\ Builds \in [WorkOrders -> Parts \cup {NoPart}]
ASSUME StockAssumption ==
  /\ IsFiniteSet(Rows)
  /\ RowPart \in [Rows -> Parts]
  /\ OpeningStock \in [Rows -> Nat]
  /\ OpeningArea \in [Rows -> LocationType \ {"RECEIVING"}]
  /\ PutAwayAreas \subseteq LocationType \ {"RECEIVING"}
  /\ SaleRows \subseteq Rows /\ MayBypass \subseteq WorkOrders
  /\ Crashes \in BOOLEAN
  /\ MaxOnHand \in Nat /\ MaxStaged \in Nat
ASSUME NullsAssumption ==
  NoKit \notin Kits /\ NoPart \notin Parts /\ NoWorkOrder \notin WorkOrders

VARIABLES
  wo,        \* [WorkOrders -> status, kitStatus, was it planned past the stock?]
  kit,       \* [Kits -> work order, status, quantityPicked of each line]
  row,       \* [Rows -> Quantities]
  where,     \* [Rows -> type of the row's location]
  pick,      \* [Pickers -> the kit in hand, lines to do, quantityPicked as read]
  staged,    \* [WorkOrders -> [BomLines -> units in rows tagged to the work order]]
  consumed   \* [WorkOrders -> [BomLines -> units issued as WIP_CONSUMED]]

vars == <<wo, kit, row, where, pick, staged, consumed>>

WorkOrderStatus ==
  {"NONE", "PLANNED", "RELEASED", "WAITING_MATERIAL", "READY_TO_KIT", "KITTING",
   "KITTED", "IN_PROGRESS", "ON_HOLD", "READY_FOR_PUTAWAY", "COMPLETED"}
KitStatus == {"NOT_STARTED", "WAITING_MATERIAL", "READY_TO_KIT", "KITTING", "KITTED"}
KitOrderStatus == {"NONE", "OPEN", "PICKING", "SHORT", "COMPLETE"}
Amounts == [BomLines -> Nat]

\* The types; in particular no pick, sale or release leaves a quantity negative.
TypeOK ==
  /\ wo \in [WorkOrders -> [status : WorkOrderStatus, kit : KitStatus, bypassed : BOOLEAN]]
  /\ kit \in [Kits -> [wo : WorkOrders \cup {NoWorkOrder}, status : KitOrderStatus,
                       picked : Amounts]]
  /\ row \in [Rows -> Quantities]
  /\ where \in [Rows -> LocationType]
  /\ pick \in [Pickers -> [kit : Kits \cup {NoKit}, todo : SUBSET BomLines, read : Amounts]]
  /\ staged \in [WorkOrders -> Amounts]
  /\ consumed \in [WorkOrders -> Amounts]

Nothing == [b \in BomLines |-> 0]
Idle == [kit |-> NoKit, todo |-> {}, read |-> Nothing]

Init ==
  /\ wo = [w \in WorkOrders |->
             [status |-> "NONE", kit |-> "NOT_STARTED", bypassed |-> FALSE]]
  /\ kit = [k \in Kits |-> [wo |-> NoWorkOrder, status |-> "NONE", picked |-> Nothing]]
  /\ row = [r \in Rows |-> Built(OpeningStock[r], FALSE)]
  /\ where = [r \in Rows |-> IF OpeningStock[r] > 0 THEN OpeningArea[r] ELSE "RECEIVING"]
  /\ pick = [p \in Pickers |-> Idle]
  /\ staged = [w \in WorkOrders |-> Nothing]
  /\ consumed = [w \in WorkOrders |-> Nothing]

-----------------------------------------------------------------------------
(* Vocabulary of the handlers                                              *)

RowsOf(p) == {r \in Rows : RowPart[r] = p}
Required(w, b) == PerUnit[b] * WoQty[w]

\* getAvailableQty: free stock in STORAGE.
AvailableQty(p, rows, place) ==
  Total([r \in {x \in RowsOf(p) : place[x] = "STORAGE"} |-> rows[r].avail])

\* checkBomMaterialAvailability: each line against the same stock, whatever other
\* lines, kits or work orders are about to take of it.
AllAvailable(w, rows, place) ==
  \A b \in Bom[w] : Required(w, b) <= AvailableQty(LinePart[b], rows, place)

\* refreshWorkOrderMaterialReadiness on a work order as it stands.  (Mutant: only
\* a planned one is promoted.)
PromotableIfPlanned == {"PLANNED"}
Promotable == {"WAITING_MATERIAL", "PLANNED"}
Refreshed(w, rows, place) ==
  IF AllAvailable(w, rows, place)
    THEN IF wo[w].status \in Promotable
           THEN [wo[w] EXCEPT !.status = "READY_TO_KIT", !.kit = "READY_TO_KIT"]
           ELSE wo[w]
    ELSE IF "READY_TO_KIT" \in {wo[w].status, wo[w].kit}
           THEN [wo[w] EXCEPT !.status = "WAITING_MATERIAL", !.kit = "WAITING_MATERIAL"]
           ELSE wo[w]

\* refreshAllWaitingMaterial.
RefreshAllWaiting(rows, place) ==
  [w \in WorkOrders |-> IF wo[w].status = "WAITING_MATERIAL"
                          THEN Refreshed(w, rows, place)
                          ELSE wo[w]]

HasKit(w, statuses) == \E k \in Kits : kit[k].wo = w /\ kit[k].status \in statuses

-----------------------------------------------------------------------------
(* Work orders and the material check                                      *)

CreateWorkOrder(w) ==
  /\ wo[w].status = "NONE"
  /\ wo' = [wo EXCEPT ![w].status = "PLANNED"]
  /\ UNCHANGED <<kit, row, where, pick, staged, consumed>>

\* The work order a sales plan creates, with its planWorkOrderMaterials: ready, or
\* waiting for what is short, which past the stock check is the whole BOM.
PlanForSale(w) ==
  /\ wo[w].status = "NONE"
  /\ \E bypass \in BOOLEAN :
       LET ready == Bom[w] = {} \/ (~bypass /\ AllAvailable(w, row, where))
           s == IF ready THEN "READY_TO_KIT" ELSE "WAITING_MATERIAL"
       IN  /\ bypass => w \in MayBypass
           /\ wo' = [wo EXCEPT ![w] = [status |-> s, kit |-> s, bypassed |-> bypass]]
  /\ UNCHANGED <<kit, row, where, pick, staged, consumed>>

\* actionCheckWoMaterials; also what a refused kit creation falls back to.
CheckMaterials(w) ==
  /\ wo[w].status # "NONE"
  /\ wo' = [wo EXCEPT ![w] = Refreshed(w, row, where)]
  /\ UNCHANGED <<kit, row, where, pick, staged, consumed>>

\* The status buttons of the work order page.
StatusButtons ==
  {<<"PLANNED", "RELEASED">>, <<"IN_PROGRESS", "ON_HOLD">>, <<"ON_HOLD", "IN_PROGRESS">>}

UpdateStatus(w) ==
  /\ \E b \in StatusButtons :
       wo[w].status = b[1] /\ wo' = [wo EXCEPT ![w].status = b[2]]
  /\ UNCHANGED <<kit, row, where, pick, staged, consumed>>

-----------------------------------------------------------------------------
(* Kits                                                                    *)

\* What createKitOrder writes, for the work orders in the domain of new.
OpenKits(new) ==
  /\ kit' = [k \in Kits |->
               IF \E w \in DOMAIN new : new[w] = k
                 THEN [wo |-> CHOOSE w \in DOMAIN new : new[w] = k,
                       status |-> "OPEN", picked |-> Nothing]
                 ELSE kit[k]]
  /\ wo' = [w \in WorkOrders |->
              IF w \in DOMAIN new
                THEN [wo[w] EXCEPT !.status = "KITTING", !.kit = "KITTING"]
                ELSE wo[w]]
  /\ UNCHANGED <<row, where, pick, staged, consumed>>

UnusedKits == {k \in Kits : kit[k].status = "NONE"}

\* createKitOrder: stock for the whole BOM, and no kit that is OPEN or PICKING.  It
\* asks nothing else of the work order, and a SHORT or COMPLETE kit is no obstacle.
CreateKit(w, k) ==
  /\ wo[w].status # "NONE"
  /\ AllAvailable(w, row, where)
  /\ ~HasKit(w, {"OPEN", "PICKING"})
  /\ k \in UnusedKits
  /\ OpenKits([x \in {w} |-> k])

\* sweepKitReadiness: kits for the upcoming work orders whose material is there.
\* Which of them start within two days is left open.
Upcoming ==
  {w \in WorkOrders :
     /\ wo[w].status \in {"PLANNED", "RELEASED", "READY_TO_KIT", "ON_HOLD"}
     /\ ~HasKit(w, {"OPEN", "PICKING", "COMPLETE"})}

SweepKits ==
  /\ \E due \in SUBSET {w \in Upcoming : AllAvailable(w, row, where)} :
       due # {} /\ \E new \in Injection(due, UnusedKits) : OpenKits(new)

\* The lines a pick works through, done or not.  (Mutant: the ones it never touched.)
LinesToPickUntouched(k) == {b \in Bom[kit[k].wo] : kit[k].picked[b] = 0}
LinesToPick(k) == Bom[kit[k].wo]

\* completeKitOrder, up to its loop: the request keeps the lines as it read them.
StartPicking(p, k) ==
  /\ pick[p] = Idle
  /\ kit[k].status \notin {"NONE", "COMPLETE"}
  /\ \A b \in Bom[kit[k].wo] :
       staged[kit[k].wo][b] + consumed[kit[k].wo][b] < MaxStaged
  /\ pick' = [pick EXCEPT ![p] = [kit |-> k, todo |-> LinesToPick(k),
                                   read |-> kit[k].picked]]
  /\ kit' = [kit EXCEPT ![k].status = "PICKING"]
  /\ UNCHANGED <<wo, row, where, staged, consumed>>

\* The rows a pick may draw on: government stock only for a matching charge.
CompanyRows(b) ==
  {r \in RowsOf(LinePart[b]) : where[r] = "STORAGE" /\ row[r].avail > 0}
GfpRows(b) ==
  {r \in RowsOf(LinePart[b]) : where[r] = "GFP" /\ row[r].avail > 0}
PickRows(w, b) ==
  CompanyRows(b) \cup (IF Charge[w] = "MATCHES" THEN GfpRows(b) ELSE {})

\* All there is belongs to a government contract the work order does not charge.
GfpRefused(w, b) ==
  Charge[w] = "OTHER" /\ GfpRows(b) # {} /\ CompanyRows(b) = {}

\* What a line still needs, by the quantityPicked read at the start.  (Mutant:
\* what was picked before is forgotten.)
RemainingAll(w, b, read) == Required(w, b)
Remaining(w, b, read) == Monus(Required(w, b), read[b])

\* The row that stages a picked line, whatever this request itself took for it.
\* (Mutant: it holds what this request took.)
StagedQtyTaken(w, b, took) == took
StagedQty(w, b, took) == Required(w, b)

\* One turn of the loop: the line is picked and staged, or it is short, which ends
\* the request and leaves the lines after it untouched.  The page may ask for any
\* row first.
PickLine(p, b) ==
  LET k == pick[p].kit
      w == kit[k].wo
      need == Remaining(w, b, pick[p].read)
  IN  /\ b \in pick[p].todo
      /\ ~GfpRefused(w, b)
      /\ \E t \in Fills([r \in PickRows(w, b) |-> row[r].avail], need) :
           /\ row' = [r \in Rows |->
                        IF r \in DOMAIN t THEN PickFree(row[r], t[r]) ELSE row[r]]
           /\ IF Total(t) < need
                THEN /\ kit' = [kit EXCEPT ![k].status = "SHORT",
                                           ![k].picked[b] = pick[p].read[b] + Total(t)]
                     /\ wo' = [wo EXCEPT ![w].status = "WAITING_MATERIAL",
                                         ![w].kit = "WAITING_MATERIAL"]
                     /\ pick' = [pick EXCEPT ![p] = Idle]
                     /\ UNCHANGED staged
                ELSE /\ kit' = [kit EXCEPT ![k].picked[b] = Required(w, b)]
                     /\ staged' = [staged EXCEPT ![w][b] = @ + StagedQty(w, b, Total(t))]
                     /\ pick' = [pick EXCEPT ![p].todo = @ \ {b}]
                     /\ UNCHANGED wo
      /\ UNCHANGED <<where, consumed>>

\* Refused government stock throws; the kit stays PICKING.
ThrowGfp(p, b) ==
  /\ b \in pick[p].todo
  /\ GfpRefused(kit[pick[p].kit].wo, b)
  /\ pick' = [pick EXCEPT ![p] = Idle]
  /\ UNCHANGED <<wo, kit, row, where, staged, consumed>>

\* completeKitOrder, after its loop.
FinishPicking(p) ==
  LET k == pick[p].kit
      w == kit[k].wo
  IN  /\ k # NoKit /\ pick[p].todo = {}
      /\ kit' = [kit EXCEPT ![k].status = "COMPLETE"]
      /\ wo' = [wo EXCEPT ![w].status = "KITTED", ![w].kit = "KITTED"]
      /\ pick' = [pick EXCEPT ![p] = Idle]
      /\ UNCHANGED <<row, where, staged, consumed>>

\* The request dies between two lines: nothing is rolled back.
Crash(p) ==
  /\ Crashes /\ pick[p].kit # NoKit
  /\ pick' = [pick EXCEPT ![p] = Idle]
  /\ UNCHANGED <<wo, kit, row, where, staged, consumed>>

-----------------------------------------------------------------------------
(* Production                                                              *)

\* startWorkOrderProduction, without the override no caller uses.
StartProduction(w) ==
  /\ wo[w].kit = "KITTED"
  /\ wo[w].status # "IN_PROGRESS"
  /\ wo' = [wo EXCEPT ![w].status = "IN_PROGRESS"]
  /\ UNCHANGED <<kit, row, where, pick, staged, consumed>>

\* actionScanWorkOrderToStation starts work too, and does not ask for a kit.
ScanToStation(w) ==
  /\ wo[w].status \in {"PLANNED", "RELEASED", "KITTED"}
  /\ wo' = [wo EXCEPT ![w].status = "IN_PROGRESS"]
  /\ UNCHANGED <<kit, row, where, pick, staged, consumed>>

\* signOffStep, when the last traveler step is signed.
SignOffLastStep(w) ==
  /\ wo[w].status \in {"IN_PROGRESS", "RELEASED", "KITTED"}
  /\ wo' = [wo EXCEPT ![w].status = "READY_FOR_PUTAWAY"]
  /\ UNCHANGED <<kit, row, where, pick, staged, consumed>>

\* completeWorkOrderToStock: what is staged is consumed.  A work order for a sale
\* makes no component of these BOMs; one that makes a component shelves it, free.
CompleteToStock(w) ==
  /\ wo[w].status = "READY_FOR_PUTAWAY"
  /\ wo' = [wo EXCEPT ![w].status = "COMPLETED"]
  /\ consumed' = [consumed EXCEPT ![w] = [b \in BomLines |-> @[b] + staged[w][b]]]
  /\ staged' = [staged EXCEPT ![w] = Nothing]
  /\ IF Builds[w] = NoPart
       THEN UNCHANGED <<row, where>>
       ELSE \E r \in RowsOf(Builds[w]) :
              /\ row[r] = EmptyRow
              /\ row' = [row EXCEPT ![r] = Built(WoQty[w], FALSE)]
              /\ where' = [where EXCEPT ![r] = "STORAGE"]
  /\ UNCHANGED <<kit, pick>>

-----------------------------------------------------------------------------
(* The shelves                                                             *)

\* The part of receivePurchaseOrder that touches stock, one unit at a time.
ReceiveStock(r) ==
  /\ where[r] = "RECEIVING" \/ row[r] = EmptyRow
  /\ row[r].onHand < MaxOnHand
  /\ row' = [row EXCEPT ![r].onHand = @ + 1]
  /\ where' = [where EXCEPT ![r] = "RECEIVING"]
  /\ UNCHANGED <<wo, kit, pick, staged, consumed>>

\* putAwayInventory, offered for what stands at the dock.
PutAway(r) ==
  /\ where[r] = "RECEIVING" /\ row[r].onHand > 0
  /\ row' = [row EXCEPT ![r] = Shelved(@)]
  /\ \E area \in PutAwayAreas : where' = [where EXCEPT ![r] = area]
  /\ wo' = RefreshAllWaiting(row', where')
  /\ UNCHANGED <<kit, pick, staged, consumed>>

\* allocateFinishedGoods: a sales order takes a unit for itself.
ReserveForSale(r) ==
  /\ r \in SaleRows /\ where[r] # "RECEIVING" /\ row[r].avail > 0
  /\ row' = [row EXCEPT ![r] = Reserve(@, 1)]
  /\ UNCHANGED <<wo, kit, where, pick, staged, consumed>>

\* actionReleaseCommitment gives it back.
ReleaseCommitment(r) ==
  /\ row[r].commit > 0
  /\ row' = [row EXCEPT ![r] = Unreserve(@, 1)]
  /\ wo' = RefreshAllWaiting(row', where)
  /\ UNCHANGED <<kit, where, pick, staged, consumed>>

-----------------------------------------------------------------------------
Next ==
  \/ \E w \in WorkOrders :
       \/ CreateWorkOrder(w) \/ PlanForSale(w) \/ CheckMaterials(w) \/ UpdateStatus(w)
       \/ \E k \in Kits : CreateKit(w, k)
       \/ StartProduction(w) \/ ScanToStation(w) \/ SignOffLastStep(w) \/ CompleteToStock(w)
  \/ SweepKits
  \/ \E p \in Pickers :
       \/ \E k \in Kits : StartPicking(p, k)
       \/ \E b \in BomLines : PickLine(p, b) \/ ThrowGfp(p, b)
       \/ FinishPicking(p) \/ Crash(p)
  \/ \E r \in Rows :
       ReceiveStock(r) \/ PutAway(r) \/ ReserveForSale(r) \/ ReleaseCommitment(r)

Spec == Init /\ [][Next]_vars

-----------------------------------------------------------------------------
(* Properties                                                              *)

\* A component comes from a receipt or a build and leaves a shelf only onto a kit
\* line that records it, through short picks, retries and requests that die between
\* two lines.
Units(p) ==
  Total([r \in RowsOf(p) |-> row[r].onHand])
    + Total([k \in Kits |-> Total([b \in {x \in BomLines : LinePart[x] = p} |->
                                     kit[k].picked[b]])])
BringsIn(p) ==
  \/ \E r \in RowsOf(p) : ReceiveStock(r)
  \/ \E w \in WorkOrders : Builds[w] = p /\ CompleteToStock(w)
PicksConserved == [][\A p \in Parts : Units(p)' = Units(p) \/ BringsIn(p)]_vars

\* KITTED, the word production starts on, means that a kit of the work order has
\* every line of the BOM in full, however many attempts the pick took.
FullyPicked(k, w) ==
  /\ kit[k].wo = w /\ kit[k].status = "COMPLETE"
  /\ \A b \in Bom[w] : kit[k].picked[b] = Required(w, b)
KittedInFull ==
  \A w \in WorkOrders : wo[w].kit = "KITTED" => \E k \in Kits : FullyPicked(k, w)

\* What was picked for a work order in full stands on the floor or went into it:
\* no order of picking, retrying and completing loses staged material.
PickedInFull(w, b) ==
  {k \in Kits : kit[k].wo = w /\ kit[k].picked[b] = Required(w, b)}
StagedCoversPicks ==
  \A w \in WorkOrders : \A b \in Bom[w] :
    staged[w][b] + consumed[w][b] >= Cardinality(PickedInFull(w, b)) * Required(w, b)

\* A work order that waits for material lacks some: whatever made stock free has
\* looked at who was waiting ("After any putaway, refresh WOs that were waiting on
\* material").  One that was planned past the stock check waits for its own receipt.
NoNeedlessWait ==
  \A w \in WorkOrders :
    wo[w].status = "WAITING_MATERIAL" /\ ~wo[w].bypassed => ~AllAvailable(w, row, where)
=============================================================================
