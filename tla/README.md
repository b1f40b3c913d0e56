# A formal model of the ERP's core

This directory holds TLA+ modules for the part of the system where orders, stock,
production, purchasing, receiving and the ledger meet, the TLC configurations that check them, and proofs checked by
TLAPS. Paths below are relative to the repository; `services/` stands for
`src/lib/services/`.

Run a configuration with `tlc -config TwoOrders.cfg MCSalesFulfillment`, a proof with
`tlapm SalesFulfillment_proofs.tla`.

## 1. The system

A multi-tenant ERP: Next.js pages and server actions (`src/app`), services on a Prisma
schema (`services/`, `prisma/schema.prisma`) over PostgreSQL. All state is in
the database. Each server action runs as its own request, on a serverless function that may
be stopped; the services of the order flow use no transaction, so what a request reads with
one `await` and writes with another is separated by whatever other requests do. That, and
the freedom of users to press any button of any board in any order, is where the hard
behaviour is.

### Components

| Component | State | Operations | Talks to | Hard behaviour | Correct when |
|---|---|---|---|---|---|
| Sales orders (`order-fulfillment.ts`) | `SalesOrder`, its lines, `Shipment` | create, plan, queue, verify, pack, ship, quotes | stock rows, work orders, purchase requests, invoices, credit | re-planning, shipping before builds return, two shipments, overlapping requests | ships whole, once, not under a deposit hold; stock and books agree |
| Stock rows and commitments (`InventoryItem`, `commitments.ts`) | on hand, available, committed, location | reserve, release, receive, put away, issue, build | every other component | three counters written as absolute values from old reads | units are conserved, every unit free or promised |
| Shipment invoicing (`billing.ts`) | `ArInvoice` | find or create | shipping, ledger, credit | find-then-create, `count()+1` numbers, stops in between | one invoice for each shipped order |
| Kitting (`kitting.ts`, `order-fulfillment.ts`, `wip-locations.ts`) | `KitOrder` and lines, kit status of the work order, staged rows | material check, create, sweep, pick, consume | stock rows, work orders, government property | availability that nobody reserves; short picks and retries; double clicks | KITTED means a full kit; nothing picked is lost or doubled |
| Work orders (`work-orders.ts`) | status, traveler steps, station | create, start, scan, sign off, hold, send to receiving | kitting, stock, sales orders | several ways to start and to finish | a build reaches stock once |
| Credit (`credit.ts`) | none of its own: orders and invoices | snapshot, deposit requirement | order creation | read before create; an order between shipping and billing counts nowhere | exposure within the limit or a deposit asked |
| Receiving, inspection, MRB (`supply-chain.ts`, `receiving*.ts`) | PO lines, receipts, travelers, inspections, NCR and MRB cases | receive, split, inspect, disposition | purchasing, stock, kitting | partial and double receipts, quarantine and release | received is counted; only what passed, or what the board lets go, is stocked, and it is stocked in the end |
| Purchasing (`purchase-requests.ts`, `pr-approval.ts`, `pr-buyer.ts`, `po-amend.ts`) | PR, approval chain, buyer package, PO and amendments | submit, decide, package, convert, amend | planning, kanban, budgets | two approvers of one step, amendment after approval | a PO only after its whole chain, and one PO; receivable only while approved |
| Kanban (`kanban-replenishment.ts`) | none: min/max of parts and open PRs | find shortages, open PRs | purchasing | called after kits, shipments and receipts that overlap | at most one order per shortage |
| Cycle counts (`cycle-counts.ts`) | count sheets | create, record, complete, cancel | stock rows | rows move between sheet and completion | stock equals the count plus what moved since |
| Planning and capacity (`planning.ts`, `capacity.ts`, `schedule.ts`) | forecasts, requisitions, calendars | forecast, generate, release | purchasing, work orders | mostly computation | requisition covers the forecast |
| Budgets, timesheets, payroll (`budgets.ts`, `timesheets.ts`) | charges, buckets, pay runs | charge, submit, approve, process | ledger | entry charged twice, processed twice | each hour is charged and paid once |
| Ledger and banking (`gaap.ts`, `recurring-journals.ts`, `banking.ts`) | journals, payments, close date | post, void, pay, reverse, recur | billing, budgets | overlapping payments, recurrences run twice | balances are the sum of posted entries; nothing is reversed or posted twice; closed periods stay; paid means paid in full |
| Engineering and CM (`engineering-work.ts`, `bom.ts`, `cm-*.ts`, `work-instructions.ts`) | BOMs, documents, change requests, number registry | revise, certify, release, number | work orders | concurrent numbering | one released revision, unique numbers |
| Quality, serials, government property (`serials.ts`, `gfp.ts`, `quality-*.ts`, `shelf-life.ts`) | serial genealogy, property custody, incidents | install, remove, check out, consume | kitting, receiving | a serial in two assemblies | one parent for each serial |
| RMA and field service (`rma.ts`, `field-service.ts`) | RMAs, tickets, visits | issue, quote, repair, part usage | orders, work orders, stock | long protocols | repair billed as quoted |
| Tenancy and subscription (`tenancy.ts`, `subscription.ts`, `stripe.ts`) | schemas, demo pool, seats, plan | provision, sweep, invite, webhook | all | pool races, repeated webhooks | a tenant has one schema, seats within plan |
| Agent (`carina-actions.ts`) | none | tools that call the services | work orders, others | closes work orders by another path | same rules as the pages |
| CRM, people, projects, assets, support, reports, sign-in, pages | records of their own | edit and list | - | little | - |

`PROJECT.json` lists them with their status; each hazard is there with its source line and
the properties that look for it.

### How an order travels

An order is accepted (perhaps held for a deposit, perhaps gated by a date), then planned:
free stock is committed to its lines, and what is short becomes a work order or a purchase
request. A work order gets its material checked, a kit opened and picked line by line into
rows tagged with the work order, is built, signed off, sent to receiving and completed:
the staged rows are consumed and a new row, committed to the sale, appears. When all lines
are covered the order is READY_TO_SHIP and a shipment is queued, which is verified, packed
and shipped: rows are issued, lines, shipment and order closed, and an invoice raised.

### How a purchase travels

A purchase request (typed in, or opened by planning, kanban or a work order) goes through the
steps of the company's approval policy one after the other; at one of them the buyer fills in
a package of suppliers and prices. An approved request is converted into a purchase order,
which may be amended; an amendment blocks receiving until its own chain approves. A receipt
adds to the order lines, makes inventory rows at the dock, and splits the order's traveler:
what needs inspection gets a child traveler and inspections, what remains to come a remainder
traveler. An inspection that fails puts the row into quarantine under a case of the review
board. What passes is put away, with three buttons, into storage, where kits and orders find
it. Cycle counts correct what is there. Receipts of money, and journals entered by hand, by
templates and by accruals that reverse themselves, move the account balances until the month
is closed.

## 2. Modules

| Module | Models | State |
|---|---|---|
| `StockRows` | the arithmetic each handler does on one row, and the loop "take `Math.min` from each in turn" as a set of possible outcomes | none |
| `OrderPromise` | abstract specification: an order is accepted, delivered whole and billed at one instant, never under a deposit hold | stage, hold, delivered, bills |
| `SalesFulfillment` | the handlers of the order flow, each as one step | orders, lines, their work orders and requests, rows, shipments, invoices |
| `ShipRace` | planning's allocation, shipping and invoicing taken apart at their awaits, with several requests and crashes | the same for one line per order, plus each request's local variables |
| `Kitting` | a work order from creation to putaway; the pick one kit line at a time | work orders, kits, rows, running picks, staged and consumed material |
| `GoodsInward` | abstract specification: a delivery waits at the dock, is cleared, stocked, held or gone | the stage of each delivery |
| `Receiving` | a purchase order from arrival to the shelf: receipts (read and write apart), travelers, inspections, quarantine and board, put-away, early close | order and lines, receipts, rows, inspections, travelers, cases, running receipts |
| `Purchasing` | one request through its approval steps to an order, amendments and receipts, each statement that another request can come before a step of its own | request, approval rows, order, amendment rows, what each running request has read |
| `Books` | journals, one account balance, a recurring template, the close date, payments of one invoice; one statement a step, requests may stop | journals, balance, template, invoice and receipts, month, running requests |
| `CycleCount` | count sheets over the bins of one part while its stock moves | rows, sheets, lines still to post, what moved since each sheet was made |
| `..._proofs` (of `StockRows`, `SalesFulfillment`, `ShipRace`, `Kitting`, `Receiving`, `Purchasing`, `Books`, `CycleCount`) | lemmas and theorems | - |
| `MC...` | constants for TLC | - |

`SalesFulfillment` refines `OrderPromise` (`KeepsThePromise`): stage is the order's status,
hold its deposit, delivered the lines' shipped quantity, bills the invoices. `ShipRace` is
the finer grain of three of its handlers; `Kitting` is what `SalesFulfillment` calls the
single status OPEN of a work order. `Receiving` refines `GoodsInward` (`PromiseOfReceiving`):
the stage of a delivery is read off its row, the case that holds it and its inspections.
`Receiving` begins where `Purchasing` ends, with an issued order, and ends where
`SalesFulfillment!ReceiveStock` and `PutAway` take stock up; `Purchasing` has receipts only as
far as they read and write the order's status. `CycleCount` uses the rows of `StockRows`.
`PROJECT.json` maps every definition to the lines it
translates.

Correspondence, where it is not one action for one function:

- **Order of rows and lines.** A loop over rows in an order the database or the page
  chooses is the set `Fills` of its possible outcomes; `LargestFirst` where the query sorts
  by quantity.
- **Shipping an order with several lines.** The preflight of `shipSalesOrder` reads all rows
  for each line, then writes row by row what it read minus that line's take.
  `PickPlans` are the reads, `LastTakers` which write to a row stays.
- **A work order of a line** is known by the line: planning opens none while one is live.
  Cancelled work orders are not modelled.
- **Dates** are a flag that time clears. **Credit** is a choice at creation.
- **Putting away** in `SalesFulfillment` is allowed on any row with stock, which is what
  `putAwayInventory` checks; in `Kitting` only at the dock, where the page offers it.
- **GFP rows in `Kitting`**: a work order's charge is one of three (none, matching the
  contract, another), which is all the rules of `completeKitOrder` distinguish.
- **Purchase requests** are a number of units in `SalesFulfillment` and absent from
  `Kitting`, where nothing reads them. The branch of `planWorkOrderMaterials` that reuses
  an existing request cannot run: it is called only for a work order just created.
- **`startWorkOrderProduction`** accepts any status once the kit status is KITTED, so its
  action does too; no caller passes `allowWithoutKit`.
- **A receipt** (`Receiving`) is `BeginReceive`, what it reads, and `FinishReceive`, all it
  writes; an absolute write of a quantity read before is where overlapping receipts meet. The
  item <<n, l>> (line l of receipt n) names the row, the child traveler and the inspections it
  creates; `rowOf` says which row it joined when lot and place were those of an earlier one.
- **Who may approve** (`Purchasing`) is `MayDecide`: requester, owner, director, buyers,
  finance and administrators, as `canUserApproveStep` has them. Steps that do not apply at
  the amount of submission have no row.
- **Accounts** (`Books`): one account stands for both sides of an entry, because
  `applyJournalBalances` treats the lines alike; what a balance must equal is the sum of the
  posted entries. A month is one moment; a template is monthly.
- **Separate** (`Books`) is an input: whether each request works on a journal, template,
  invoice or close date that no other request is in the middle of. `Free` reads it.
- **Completing a count** (`CycleCount`) takes one step for each line, and leaves a row
  alone when the lines of code compute no change for it.

## 3. Runs

All configurations are small enough to be explored completely. State counts are distinct
states.

| Run | Asks | Instance |
|---|---|---|
| `TwoOrders` | `TypeOK`, `RowAccounting`, `NoOverPlanning`, `UnitsConserved` with two orders competing | 118,716 states: 2 orders of one unit, one made part, 2 rows (one with a unit, one empty for receipts and builds), 2 interchangeable shipments, releases, GFP putaway, the agent |
| `BuyMakeGates` | `PlannedIsSourced`, `ReadyMeansAllocated`, `ShippedInFullAndBilledOnce`, `KeepsThePromise` | 102,433: one order of a bought line (2) and a made line (1), deposit and date gate on or off, receipts, no releases |
| `Progress` | `OrdersShip` under fairness | 14,937: one order of two made lines, releases, two shipments |
| `ClerksRacing` | what survives any overlap and any stop: `TypeOK`, `BooksFollowGoods` | 659,001: two interchangeable requests that ship and plan two orders over one row of one unit, crashes |
| `ClerkAlone` | what overlap breaks holds without it: `UnitsKept`, `AtMostOneInvoice`, `ShippedGetsBilled`, `ShippedStaysShipped` | 13,427: one request, three orders, stock for some of them in two rows |
| `KitRoom` | `TypeOK`, `KittedInFull`, `StagedCoversPicks`, `NoNeedlessWait`, `PicksConserved` | 916,772: two work orders and kits, BOM lines of 2 and 1 of one part, a company and a government row, sales, receipts, crashes |
| `DockToStock` | `TypeOK`, `ReceivedIsCounted`, `StockedIsInspected`, `TravelerTellsTruth`, `InspectedGetsStocked` (fair), `PromiseOfReceiving` | 112,386: a line of two with all inspections and a line of one with none, up to three receipts one after the other, all failures, decisions and orders of put-away, early close |
| `DockRushed` | what survives two receivers, repeated lots and the button that puts everything away: `UnitsAccounted`, `CageHolds` | 562,000: one inspected line of two, two receipts |
| `BuyDesk` | `TypeOK`, `NoStepSkipped`, `OneOrder`, `ReceivableIsApproved` | 2.5 million: two requests, a pipeline of the three core steps and a threshold step, amounts below and at the threshold, three people, stops |
| `LedgerMonth` | `TypeOK`, `BalanceFollowsJournals`, `ReversedOnce`, `DuePostedOnce`, `PaidInFull`, `ClosedBooksStay` | 4.2 million: one request loads the page again and again and may stop once, another does everything else; two months, three journals, an invoice of two |
| `CountedShelves` | `TypeOK`, `CountKeepsMoves` | 1.5 million: two interchangeable sheets, a bin of two rows and a bin of one, receipts, issues and commitments |

One run ends in a violation, of a sentence the repository says of itself:

| Run | Property | What happens |
|---|---|---|
| `SiblingStocked` | `StockedIsInspected` | Two inspected lines arrive in one receipt. Completing the put-away of the first child traveler also shelves the second line, whose visual inspection passed and whose dimensional inspection is pending. |

The passing run `DockToStock` has only one inspected line, which the first child traveler's
wide reach cannot harm.

### Bounds and why they suffice

- Quantities 0 to 3. The handlers only add, subtract, compare and take minima of them, so
  what matters is: none, part, exactly enough, and one more. One unit for each of two orders
  and one on the shelf is the smallest contest; two of a line with one in stock the smallest
  partial allocation.
- Two rows: the smallest number in which a demand is split and the two writes can be told
  apart; one of them starts empty so that receipts and builds have a place.
- Two shipments: one that leaves, one that stays behind.
- `MaxOnHand`, `MaxRequested` stop receipts and repeated purchase requests (each re-plan of
  a bought line opens another), which would otherwise grow for ever. `MaxRequested` is 3
  in `BuyMakeGates`, one unit more than is ordered: an order planned past the stock check
  and then again after a partial receipt is explored. A plan that would exceed the bound is
  not taken; only `PlannedIsSourced`, a lower bound on what is requested, reads it.
- `MaxStaged` in `Kitting` lets a pick start only below that many staged units of a line,
  because retries stage without limit. It is above one full kit, so a retry after a
  complete pick of a line is explored.
- `Kitting` has one picker in `KitRoom`; see the list of what is known to fail below.
- Symmetry is used for shipments, requests, kits, sheets and lots of one bin in runs of safety properties only; none
  of the properties or constants tells their members apart.
- `MaxReceipts` in `Receiving`: three receipts for three ordered units, so that every
  splitting of a delivery over receipts, with one that leaves a remainder of a remainder, is
  explored. With `DockRushed`, two receipts are what it takes for one to join the other's row.
- `BuyDesk` has two requests, so every pair of handlers overlaps, one of them a converter:
  with two converters two orders are made (section 5). `AmendOverlaps` is FALSE: the decisions
  on an amendment do not overlap receipts or each other. The pipeline has each routing that
  the chain treats apart, with a step that applies to one of the amounts only.
- `LedgerMonth`: `Horizon` 2 gives a month that is closed while the next is open, and a date
  of reversal that comes due. `MaxJournals` 3 is an entry, its reversal and one more.
  `Amounts` {1} and `Total` 2: one receipt leaves the invoice partial, two pay it. `MaxStops`
  1, for the page load: `DuePostedOnce` is weakened by each stop. What stops of the other
  request do to the other properties is in the theorems, which allow any request to stop.
- `CountedShelves`: `MaxQty` 1 a row and `MaxCount` 2 a bin let a count be less than, equal
  to and more than what the bin holds, with two rows to drain; a second sheet posts in between.
  `MaxQty` bounds receipts only; a count may put more on a row.
- Deadlock is not checked: an instance ends when everything has shipped, been built, received
  or counted, or the bound on journals is reached.

### Fairness

`SalesFulfillment!FairSpec` assumes weak fairness of what somebody's board shows as the next
thing to do: the date arrives, an order is planned (without bypass), a finished build is sent
to receiving and put away, a shipment is verified, packed and shipped. Weak
fairness is enough, as the run shows; strong fairness is assumed of nothing. Creating,
releasing, forcing, queueing and the agent carry none; the liveness property excuses an order
held for a deposit because nobody must pay. `ShipRace!FairSpec` assumes that a running
request goes on (with crashes off), which is what the event loop gives it: nothing in a
request waits for another one. `Receiving!FairSpec` assumes that every inspection that is
open is done, one way or the other, and that every traveler that can be put away is; receipts,
board decisions and closing carry none, and the property excuses what failed an inspection.

## 4. Theorems

TLAPS checks, for all values of the constants that satisfy the `ASSUME`s (any number of
orders, lines, parts, rows, shipments; any quantities; any bound). Every invariant and action
property that a passing run checks is stated by a theorem below; the runs show it on an
instance, the theorem for every instance.

Some theorems have a hypothesis, written `ASSUME` in the theorem. Each hypothesis is a
condition under which the code does keep the promise; without it the property is false of the
code, and section 5 says how. Each is a condition on the constants alone, true in the run that
checks the property:

| Hypothesis | Says | Theorems | Run |
|---|---|---|---|
| `OneAtATime` (`ShipRace`) | no two requests overlap | `OneInvoiceAlone`, `ShippedStaysAlone`, `UnitsKeptAlone` | `ClerkAlone` |
| `~Crashes` (`ShipRace`) | no request stops half-way | `UnitsKeptAlone` | `ClerkAlone` |
| `ReleaseQtys = {}` | no commitment is released by hand | `QueuedIsAllocated`, `PlannedHasSource` | `BuyMakeGates` |
| `~AgentEnabled` | the agent finishes no work order (it leaves the line without units and without a build) | `PlannedHasSource` | `BuyMakeGates` |
| `PartOncePerOrder` | no order has two lines of one part | `UnitsAreConserved` | `TwoOrders` |
| `NothingBuiltIsPicked` | no work order builds a part that another picks | `WaitsWithReason` | `KitRoom` |
| `OneAtATime` (`Kitting`) | one pick at a time; picks may stop and be retried | `OneAtATimeKitsInFull`, `OneAtATimePicksConserve` | `KitRoom` |
| one clerk | receipts do not overlap | `AloneReceivedIsCounted` | `DockToStock` |
| `OneInspectedLine` | lots are not repeated, the button that puts everything away is not used, one line of the order is inspected; receipts may overlap | `OneLine...` | `DockToStock` |
| `OneConverter`, `~AmendOverlaps` | one converter; decisions on an amendment overlap no receipt | `ConvertedOnce`, `ReceivedOnlyIfApproved` | `BuyDesk` |
| `Separate = TRUE` | no two requests work on one entry, template or close date | `EntriesReversedOnce`, `ClosedMonthsStay`, `DueMonthsPostedOnce`, `BalanceIsTheSum` | `LedgerMonth` |

About the constants themselves little is assumed: quantities are natural numbers and what is
ordered or needed is positive; sets that the code adds up over (rows, lines, kits, orders, BOM
lines) are finite; made and bought parts are disjoint; the marks for "none" (`NoKit`, `NoOrder`,
`NoCase`, `Dock` ...) are not among what they mark the absence of; a request of `ShipRace` names
some order, so there is one. Each module names its assumptions.

### Sums

Units are counted with `SumFunctionOnSet`, a fold, whose value cannot be computed by
induction on the set with the library's theorems, since those take an operator. `StockRows_proofs`
therefore states induction over finite sets with the property given as a set of subsets
(`FiniteInduction`), shows that partial sums along an enumeration exist and are unique
(`PartialSums...`), and from these what the other modules cite: a sum is a natural number
(`TotalOver`), what changing one summand does to it, and that what is taken from several rows in
turn adds up to what was wanted (`SumPick`, `FillsBounds`). `Books_proofs` does the same over
the positions of the journal (`SetInduction`, `TalliesExist`, `TallyMoves`); the recursive
function that adds up the posted entries is proved to exist before its equation is used.

### SalesFulfillment

| Theorem | States |
|---|---|
| `TypeCorrect` | `Spec => []TypeOK`: no subtraction anywhere makes a quantity negative |
| `RowsAccountedFor` | `Spec => []RowAccounting` |
| `NothingOverPlanned` | `Spec => []NoOverPlanning` |
| `ShippedAndBilled` | `Spec => []ShippedInFullAndBilledOnce` |
| `Refinement` | `Spec => KeepsThePromise`: every step maps to a step of `OrderPromise` or to none |
| `QueuedIsAllocated` | `Spec => []ReadyMeansAllocated`, for `ReleaseQtys = {}` |
| `PlannedHasSource` | `Spec => []PlannedIsSourced`, for `ReleaseQtys = {}` and `~AgentEnabled` |
| `UnitsAreConserved` | `Spec => UnitsConserved`, for `PartOncePerOrder` |

The inductive invariant `IInv` is the conjunction of the first four. None of them is
inductive alone: putting away subtracts what is committed from what is on hand, so types need
`RowAccounting`; shipping takes from `Pool`, which is within the row only if the row is
covered; a build adds its quantity to what is allocated, which stays within the order only by
`NoOverPlanning`, whose own step for a new work order needs that no live one exists; and the
step of shipping an order needs that nothing of an open one has left, which
`ShippedInFullAndBilledOnce` says in its second half. There is one lemma for each handler
that touches stock (`PlanKeeps`, `ReleaseKeeps`, `ReceiveKeeps`, `PutAwayKeeps`,
`CompleteToStockKeeps`, `ShipKeeps`), three for the rest, and below them lemmas that bound
what the choices inside a handler can be (`AllocationBounds`, `DrawBounds`, `ReleaseBounds`,
`PickBounds`) and what the row operators keep (`StockRows_proofs`).

`ReadyInv` adds for the ship queue what a line's status tells (`LinesTell`): READY that the line
is fully allocated, SHIPPED that its order has left; and that no handler leaves the statuses
STOCK_CHECK and ALLOCATED behind. It is needed because `syncSalesOrderReadyStatus` and planning
take a line that says READY for covered, whatever its quantity. A release takes units and leaves READY, which
is why the theorem excludes it. `SourceInv` adds that only orders that were planned have live
builds (`BuildsArePlanned`), so that a first plan cannot find its need covered by a build that
it did not open. `UnitsAreConserved` needs no more than `IInv` and the sums: for each handler
what leaves the rows of a part equals what its lines record; with one line of a part in an
order, the absolute write of each row is the read less that line's take.

### ShipRace

| Theorem | States | For |
|---|---|---|
| `BooksNeverAhead` | `Spec => []BooksFollowGoods` | any number of requests, any overlap and stop |
| `OneInvoiceAlone` | `Spec => []AtMostOneInvoice` | one request at a time (`OneAtATime`), stops included |
| `ShippedStaysAlone` | `Spec => ShippedStaysShipped` | the same |
| `TypeCorrect` | `Spec => []TypeOK` | any number of requests, any overlap and stop |
| `UnitsKeptAlone` | `Spec => []UnitsKept` | one request at a time, none stopped half-way |

`BooksInv` adds to `BooksFollowGoods` that a line is shipped whole or not at all, and what a
request relies on at each of its statements (`Knows`): before it writes the line, what it read
plus what it will add is the whole line; after that the line has left. The second survives
other requests because no statement takes a shipped quantity back: planning writes it as it
is, and another shipper writes the whole line again. `AloneInv` adds what the only running
request has found out and what is therefore still so (`StillTrue`): no invoice of the order
between the look-up and the insert, an order not shipped while it is planned. Two overlapping
requests break both, as section 5 says.

Types need one fact more (`RaceInv`): what a request is about to reserve was free when it read
the rows (`TakesFree`). It is about the request's own copy, so it survives any overlap, and the
absolute write of the copy less the take never is negative, stale as it may be. `KeptInv` is
what makes `UnitsKept` inductive: while a request runs, the units it has taken off rows and not
recorded yet (`Carries`) make up the difference, what it read and has still to use is what is
there (`Current`), and each row stays balanced. A stop after the row and before the line loses
what is carried, which is why stops are excluded.

### Kitting

| Theorem | States | For |
|---|---|---|
| `TypeCorrect` | `Spec => []TypeOK` | any number of work orders, kits and pickers, any overlap and stop |
| `StagedIsKept` | `Spec => []StagedCoversPicks` | the same |
| `WaitsWithReason` | `Spec => []NoNeedlessWait` | `NothingBuiltIsPicked` |
| `OneAtATimeKitsInFull` | `Spec => []KittedInFull` | `OneAtATime`, stops and retries included |
| `OneAtATimePicksConserve` | `Spec => PicksConserved` | the same |

`KitInv` adds to the types that a row promises no more than it has (`RowsCovered`, so that what
a pick takes is there), that an opened kit belongs to a work order (`KitsBelong`), and that a
request works on lines of the kit it has in hand (`LinesInHand`). `StagedCoversPicks` is then
kept step by step: a line that becomes fully picked stages at least the whole requirement, because
the code stages the requirement and not what this attempt took. `NoNeedlessWait` looks at
every step that makes stock free; `MovesShelf` and `WaitsRightly` say what it must refresh.
`AloneInv` adds what the request in hand has done so far (`HandRecords`): the kit is in PICKING,
the lines still to do are as they were read, the lines done are full; and no line has more than
it needs (`PickedWithin`). A second picker changes the lines under the first one's read.

### Receiving

| Theorem | States | For |
|---|---|---|
| `TypeCorrect` | `Spec => []TypeOK` | any order, any number of receipts, any overlap |
| `NothingEarly` | `Spec => []FreshInv` | the same |
| `CageIsKept` | `Spec => CageHolds` | the same |
| `UnitsAreAccounted` | `Spec => []UnitsAccounted` | the same |
| `AloneReceivedIsCounted` | `Spec => []ReceivedIsCounted` | one clerk |
| `OneLineStockedIsInspected` | `Spec => []StockedIsInspected` | `OneInspectedLine`, any number of clerks |
| `OneLineTravelerTellsTruth` | `Spec => []TravelerTellsTruth` | the same |
| `OneLineKeepsThePromise` | `Spec => PromiseOfReceiving` | the same |

`FreshInv` says that nothing of a receipt to come is in any table, which is what makes the rows,
travelers and inspections that a receipt creates new. `CageInv` adds that nothing at the dock is
held, so a receipt that joins a row never joins a held one. `ReadInv` is that a receiver who
works alone finds, when it writes, what it read.

`OwnInv` carries the last three. It says of each delivery (`OwnOf`) that it has a row of its own,
which inspections and cases it can have for its checks, that a case belongs to a failed
inspection of its row, that the child traveler a receipt is tracked by is that of its inspected
line, and that units are free only when the checks passed or the board released them. `StepOwn`
shows it for every handler, together with `Advances`, what `GoodsInward` lets a step do to one
delivery; the refinement is `Advances` for the deliveries a step touches. With two inspected
lines the last clause fails (run `SiblingStocked`); with repeated lots the first does.

### Purchasing

| Theorem | States | For |
|---|---|---|
| `TypeCorrect` | `Spec => []TypeOK` | pipelines of any length, any people, any number of requests, any overlap and stop |
| `NobodySkipped` | `Spec => []NoStepSkipped` | the same |
| `ConvertedOnce` | `Spec => []OneOrder` | one converter at a time (`OneConverter`) |
| `ReceivedOnlyIfApproved` | `Spec => []ReceivableIsApproved` | decisions on an amendment and receipts that do not overlap each other (`~AmendOverlaps`) |

`NoStepSkipped` speaks of the database, and a request writes what it read earlier, so
`ChainInv` adds what a request in the middle may rely on (`Behind`): nothing before its step is
open, nothing between its step and the one it takes for the next is, and a conversion that
read APPROVED finds nothing open. Those facts survive other requests because rows are only
ever decided, never opened again (`OnlyDecided`, `BehindKept`). `CurrentIsFirst` is needed
because a decision starts from `currentStepOrder`, and `Started` because an approved request
without rows would let a first submission open them again. `OrderInv` adds that a conversion
past its look-up has found no order, and `AmendInv` that an open amendment row and a rejected
one do not occur together. The assumption about `Routing` is the order of
`DEFAULT_PIPELINE_STEPS`.

### Books

| Theorem | States | For |
|---|---|---|
| `TypeCorrect` | `Spec => []TypeOK` | any requests, tasks, entries, months, stops |
| `PaidMeansReceived` | `Spec => []PaidInFull` | the same |
| `EntriesReversedOnce` | `Spec => []ReversedOnce` | `Separate` |
| `ClosedMonthsStay` | `Spec => ClosedBooksStay` | `Separate` |
| `DueMonthsPostedOnce` | `Spec => []DuePostedOnce` | `Separate` |
| `BalanceIsTheSum` | `Spec => []BalanceFollowsJournals` | `Separate` |

`IInv` is what `TypeOK` and `PaidInFull` need: an invoice's paid amount is backed by receipts
(`Backed`), settling entries are negative (`SettlesPay`), and what a request carries between
statements refers to entries that exist and adds no more to the invoice than the receipts it
recorded (`Sane`). It holds under any overlap, because receipts only grow and entries are
never removed (`Grows`, `SaneKept`). `LInv` strengthens it for the other two: no two requests
work on one entry (`Apart`), an entry has one live reversal (`OnceIn`), and what a request saw
when it passed its guard is still so when it writes (`Guarded`): no live reversal, awaiting
approval, not in a closed month.

`DInv` is about the template. The months before its next date may be posted; from that date on,
or from the month a running loop has come to (`Position`), the journal holds a month at most as
often as loops stopped after posting it (`FreshFrom`). With one request on the template at a time
(`OnTemplate`) the loop's next posting is then the first of its month, but for those stops. The
template is never ahead of the month to come, and the variables of a loop fit where it is
(`LoopFits`). `BInv` says that the balance is the tally of the posted entries without those that
a request has marked and not yet applied to the balance, or has yet to take out (`Pending`), and
that what is being applied is posted (`Posts`); when nobody is half-way that is
`BalanceFollowsJournals`. Both invariants were explored with TLC beyond the bounds of
`LedgerMonth` before they were proved.

Without `Separate` the last four theorems are false, as section 5 says.

### CycleCount

| Theorem | States | For |
|---|---|---|
| `TypeCorrect` | `Spec => []TypeOK` | any bins, rows and sheets, any overlap |
| `CountsKeepMoves` | `Spec => CountKeepsMoves` | the same |

`CountInv` adds to the types that what is still to post was counted (`PostsCounted`) and that each
bin holds what each sheet took down of it plus what moved since (`SnapshotAndMoves`), where
postings of other sheets count as moves. From it the difference a completion posts, spread over
the rows of the bin until nothing is left to take, brings the bin to the count plus the moves, or
to nothing.

### Only model-checked

Liveness: `OrdersShip`, `ShippedGetsBilled` and `InspectedGetsStocked`. They rest on fairness
and ENABLED, which TLAPS does not reach. And, since it is a violation, `SiblingStocked`.

## 5. What is known to fail

Besides `SiblingStocked` these were seen while modelling, many of them as counterexamples of
the properties above under wider constants, and have no run of their own. What the passing
runs leave out because of them is said with each.

### Orders, shipping, kits

- **Two lines of one part.** `shipSalesOrder` checks every line of an order against the same
  unmodified rows (order-fulfillment.ts:2420) and then writes each row as that read minus one
  line's take: two units ship, one is deducted (`UnitsConserved` of one order with two lines
  of one part). The comment at 2394 says "Preflight stock so we never partially deduct then fail".
- **Shipping twice.** Only the shipment's status is checked (2403), so a second packed
  shipment of a shipped order ships again, which `scripts/verify/chunk-c2-money-path.ts:214`
  expects to be refused. Nothing is left to ship, so no unit leaves a second time.
- **Two invoices.** `raiseArInvoiceForShipment` looks for an invoice (billing.ts:27) and
  creates one later: two overlapping requests both create one, though 21 says "idempotent per
  SO" (`AtMostOneInvoice` with two requests).
- **No invoice.** The number is `count() + 1` (billing.ts:45) and unique: of two requests
  that count at the same time one fails after its order is SHIPPED, and nothing bills it later
  (`ShippedGetsBilled` with two requests).
- **Staged twice.** A short pick tried again stages the lines it had picked before once more
  (order-fulfillment.ts:1617); completion then issues more than was picked.
- **Waiting for nothing.** A build of a component reaches the shelf (1712) and work
  orders that wait for it are not refreshed, though 1027 says "After any putaway, refresh WOs
  that were waiting on material" (`NoNeedlessWait` with `Builds` naming a component).
- **Last unit.** Two requests ship two orders from the last unit of a row at once: both
  preflights pass and both ship (`UnitsKept` with two requests).
- **Late plan.** A plan that overlaps a shipment writes READY_TO_SHIP over SHIPPED
  (`ShippedStaysShipped` with two requests), although planning refuses a shipped order.
- **Release of a ready order.** `releaseCommitment` leaves the line READY and the order
  READY_TO_SHIP, without their stock, and planning passes READY lines over
  (`ReadyMeansAllocated` with releases; `PlannedIsSourced` too, since the release opens no
  work order or request in place of what it took).
- **The agent finishes a build** (carina-actions.ts) by its status alone: no units come in, and
  the line of the order waits for a work order that is done until it is planned again
  (`PlannedIsSourced` with the agent).
- **Stop between row and line.** A shipping request that stops after it has written a row and
  before it writes the line loses the units from both (`UnitsKept` with stops); the retry takes
  others.
- **Breakdown of commitments.** `getPartCommitments` reads allocations, issues and releases
  but not WO_COMPLETE, so stock committed by a build belongs to nobody in it.
- **Two pickers on one kit** (a double click). Both use the picked quantities they read
  first: material is taken twice (`PicksConserved`), and the slower one, finding the shelf
  empty, records a line as not picked just before the other calls the kit complete
  (`KittedInFull`).
- **Stop inside a kit line.** The row is written before the line; the units taken are
  forgotten. The model's steps are whole lines.
- **A SHORT kit does not stop a second one**, though the pages treat it as open; completing
  both takes the material twice, and the late one sets a finished work order back to KITTED.

### Receiving

- **Put away everything.** `putAwayAllReceiving` checks no inspection (comment at
  order-fulfillment.ts:1264), so `StockedIsInspected` is not asked where that button is used.
- **Repeated lots.** A receipt with the lot of an earlier one, or none, joins that row at the
  dock, also when its traveler is READY_TO_STOCK; the functional test is opened once per row,
  so what joins later is never tested.
- **Overlapping receipts.** Both read the line's received quantity; one is lost
  (`ReceivedIsCounted` with two clerks). A receipt that overlaps a close re-opens the order.
- **Travelers that never end.** A remainder traveler that receives inspected material while
  the order stays open is replaced by a second remainder and stays PARTIAL; after USE_AS_IS the
  traveler stays IN_INSPECTION; an unsigned dock-only line that is attested after its
  siblings' child traveler completed is put away by no traveler.
- **Root too early.** A final receipt without inspections completes the root traveler while
  a child is still in inspection.
- **Two cases for a row.** Two failed inspections of a row open two cases and only the later
  one holds it.

### Purchasing

- **Threshold missed.** Which steps apply is decided on the amount at submission; the buyer's
  package can raise it until conversion, also after approval, and nothing routes the request
  again. An amendment copies the steps the request had.
- **Overlaps.** An approval that overlaps a rejection writes APPROVED over REJECTED; a slow
  confirmation by the buyer writes SUBMITTED over REJECTED, APPROVED or CONVERTED; two
  overlapping conversions create two orders, though actions.ts:2349 says "never issue a
  duplicate"; an approval of an old amendment that overlaps a new amendment, or a receipt that
  overlaps one, lifts the block.
- **Stops.** After a rejected row and before the status of the request, the next open step can
  be approved; after the last approved row, the request stays SUBMITTED without an open step.
- **Closed orders.** `decidePoAmendment` does not look at the order's status: a closed order is
  issued again, a received one becomes ISSUED.
- `confirmBuyerPackageStep` does not refuse the requester's own request.

### Ledger

- **Two page loads at once** post the template twice and reverse an accrual twice, though
  recurring-journals.ts says "safe to call on every accounting page load". A load that stops
  before it writes the next run date makes the next load post all occurrences again, which
  `DuePostedOnce` counts; a load between the two writes of arming back-fills.
- **Numbers.** `count() + 1` is unique: in a collision, `runDueRecurringJournals` swallows the
  error and skips the month for ever; `recordArPayment` leaves a receipt and a paid invoice
  with no entry. A closed period refuses that entry as late.
- **Torn balances.** Two approvals or two voids of one entry at once, or a stop between its
  status and the balances, leave `Account.balance` off (`BalanceFollowsJournals` is asked of
  runs without a stop).
- **Closing during a post** lets the entry into the closed month.
- **Voiding** a reversed original leaves its reversal; a voided reversal is posted again by
  the next page load; voiding a settling entry leaves the invoice settled.
- **Payments.** An overpayment posts more than the invoice; of two at once one is forgotten on
  the invoice.

### Counts

- On-hand does not become the counted quantity when rows moved since the snapshot, as the
  comment at cycle-counts.ts:107 says, but the counted quantity plus the moves
  (`CountKeepsMoves`, which is what one would want of it).
- Two sheets over one bin post the same difference twice. Two completions of one sheet at once,
  or a completion that stops and is repeated, post lines again; a record that overlaps a
  completion may write COUNTING over COMPLETE.
- On-hand can fall below what is committed.

## 6. Not modelled

Inside the modelled components: quotes, serial and lot numbers, prices and totals (an order
is worth something), audit and trace records, toasts, the ledger entries of invoices, quality
holds, cancelled and closed work orders, `allowWithoutKit`, and where staged material stands.
In `Kitting` the agent's way of finishing a work order (`AgentFinishes` in
`SalesFulfillment`) is left out too. `ShipRace` leaves out parts that are made and orders with several lines, whose
interplay `SalesFulfillment` has. Work orders that build a component of another (`Builds` in
`Kitting`) are left out of `KitRoom`, as section 5 says.

In `Receiving`: travelers of government property, serial numbers, receiving time, supplier
returns after the decision, AP invoices, and the hook that fails an inspection for a
demonstration. In `Purchasing`: several requests competing for a budget, edits of the policy
while a request runs, a slow submission that overlaps a decision, supplier approval, mail
(except the import that acknowledges an order). In `Books`: reports, bank import and matching,
AP payments (the same shape as AR), reclassification, drafts, template deletion, the cap of
twelve back-filled occurrences, and accounts other than one. In `CycleCount`: quarantined
units of a row, scopes, several parts (bins and parts are independent).

Kanban is not modelled; two things were seen: `findKanbanShortages` does not count orders in
PENDING_REAPPROVAL as supply, and shortages are found and requests created in two steps. The
other components are listed with reasons in
`PROJECT.json`.

## 7. Plan

Done: `StockRows`, `OrderPromise`, `SalesFulfillment`, `Kitting`, `Receiving` with `GoodsInward`,
`ShipRace`, `Purchasing`, `Books`, `CycleCount`, with every safety property of their runs proved.
Next, the most important first:

1. Weaker hypotheses where the code allows them: `UnitsKept` with stops, saying what a stopped
   request had taken; `StockedIsInspected` for several inspected lines that never arrive
   together; `KittedInFull` for two pickers of different kits.
2. What `ReadyMeansAllocated` becomes with releases: the preflight of `shipSalesOrder` is then
   what keeps an order from shipping short, and `ShippedAndBilled` already says that it does.
3. `Kanban` on `Purchasing`: at most one order per shortage when its callers do not overlap.
4. `CreditHold`: exposure read before the order is created, and orders that have shipped
   but are not billed; `issueManualShipmentInventory` as a module composed with
   `SalesFulfillment` on the rows.
5. Budgets and timesheets: charged and paid once.
6. Serials and RMA; the demo pool and seats of tenancy.
