------------------------------- MODULE ShipRace -------------------------------
(***************************************************************************)
(* shipSalesOrder, the allocation inside planSalesOrderFulfillment and     *)
(* raiseArInvoiceForShipment, taken apart at their awaits.  None of the    *)
(* three runs in a database transaction: between two statements of one     *)
(* call any number of statements of other calls may run, and a serverless  *)
(* function may be stopped for good.  What a call read it keeps; what it   *)
(* writes are absolute values computed from what it read.                  *)
(*                                                                         *)
(* Every order has one line, of one bought part, and one shipment, made by *)
(* hand and packed.  Deposits, date gates, production and the shipments    *)
(* that planning queues are in module SalesFulfillment.  Reads that follow *)
(* each other without a write between them are one step.                   *)
(***************************************************************************)
EXTENDS StockRows

CONSTANTS
  Clerks,       \* requests that may be running
  Orders,
  Rows,
  OrderQty,     \* [Orders -> Nat \ {0}]
  Opening,      \* [Rows -> Nat]
  Planning,     \* may requests plan as well as ship?
  Crashes       \* may a request be stopped between two statements?

ASSUME RaceAssumption ==
  /\ IsFiniteSet(Orders) /\ Orders # {} /\ IsFiniteSet(Rows)
  /\ OrderQty \in [Orders -> Nat \ {0}] /\ Opening \in [Rows -> Nat]
  /\ Planning \in BOOLEAN /\ Crashes \in BOOLEAN

VARIABLES
  row,       \* [Rows -> Quantities]
  line,      \* [Orders -> fulfillmentStatus, quantityAllocated, quantityShipped]
  shipment,  \* [Orders -> "PACKED" or "SHIPPED"]
  status,    \* [Orders -> SalesOrder status]
  invoices,  \* [Orders -> Nat]
  call       \* [Clerks -> what a running request holds in its local variables]

vars == <<row, line, shipment, status, invoices, call>>

Nothing == [r \in Rows |-> 0]
Unread == [r \in Rows |-> EmptyRow]
Idle == [pc |-> "idle", order |-> CHOOSE o \in Orders : TRUE,
         was |-> [fs |-> "OPEN", alloc |-> 0, shipped |-> 0],
         need |-> 0, seen |-> Unread, take |-> Nothing]

Steps == {"idle", "preflight", "issue", "closeLine", "closeShipment", "closeOrder",
          "find", "count", "invoice", "available", "reserve", "short", "closePlan",
          "planStatus"}

LineState ==
  [fs : {"OPEN", "PARTIAL", "READY", "SHIPPED"}, alloc : Nat, shipped : Nat]

\* The types; in particular no interleaving and no crash drives a counter of a row
\* below zero, although the writers do not see each other ("Inventory relieved (not
\* negative)").
TypeOK ==
  /\ row \in [Rows -> Quantities]
  /\ line \in [Orders -> LineState]
  /\ shipment \in [Orders -> {"PACKED", "SHIPPED"}]
  /\ status \in [Orders -> {"OPEN", "PLANNED", "READY_TO_SHIP", "SHIPPED"}]
  /\ invoices \in [Orders -> Nat]
  /\ call \in [Clerks -> [pc : Steps, order : Orders, was : LineState, need : Nat,
                          seen : [Rows -> Quantities], take : [Rows -> Nat]]]

Init ==
  /\ row = [r \in Rows |-> Built(Opening[r], FALSE)]
  /\ line = [o \in Orders |-> Idle.was]
  /\ shipment = [o \in Orders |-> "PACKED"]
  /\ status = [o \in Orders |-> "OPEN"]
  /\ invoices = [o \in Orders |-> 0]
  /\ call = [c \in Clerks |-> Idle]

At(c, pc) == call[c].pc = pc
Goto(c, pc) == call' = [call EXCEPT ![c].pc = pc]
Return(c) == call' = [call EXCEPT ![c] = Idle]
Unwritten(c) == {r \in Rows : call[c].take[r] > 0}

-----------------------------------------------------------------------------
(* shipSalesOrder                                                          *)

\* The order is read with its line and shipment, which must be packed.
StartShipping(c, o) ==
  /\ At(c, "idle") /\ shipment[o] = "PACKED"
  /\ call' = [call EXCEPT ![c] =
                [Idle EXCEPT !.pc = "preflight", !.order = o, !.was = line[o]]]
  /\ UNCHANGED <<row, line, shipment, status, invoices>>

\* The preflight reads all rows at once; short of stock it throws.  (Mutant: it
\* is content with a part of the stock.)
InsufficientIfNone(t, need) == need > 0 /\ Total(t) = 0
Insufficient(t, need) == Total(t) < need

Preflight(c) ==
  /\ At(c, "preflight")
  /\ LET need == Monus(OrderQty[call[c].order], call[c].was.shipped)
     IN  \E t \in Fills([r \in Rows |-> Pool(row[r])], need) :
           IF Insufficient(t, need)
             THEN Return(c)
             ELSE call' = [call EXCEPT ![c] =
                    [@ EXCEPT !.pc = IF need = 0 THEN "closeShipment" ELSE "issue",
                              !.need = need, !.seen = row, !.take = t]]
  /\ UNCHANGED <<row, line, shipment, status, invoices>>

\* Each row is written as it was seen, minus the take.  (Mutant: as it is now,
\* which is what an atomic decrement would do, but unguarded.)
WrittenByDecrement(c, r) ==
  [onHand |-> row[r].onHand - call[c].take[r],
   avail |-> row[r].avail - call[c].take[r], commit |-> row[r].commit]
Written(c, r) == IssueCommitted(call[c].seen[r], call[c].take[r])

IssueRow(c, r) ==
  /\ At(c, "issue") /\ r \in Unwritten(c)
  /\ row' = [row EXCEPT ![r] = Written(c, r)]
  /\ call' = [call EXCEPT ![c].take[r] = 0,
                          ![c].pc = IF Unwritten(c) = {r} THEN "closeLine" ELSE @]
  /\ UNCHANGED <<line, shipment, status, invoices>>

\* (Mutant: quantityShipped is not written.)
LineShippedForgotten(c) == call[c].was.shipped
LineShipped(c) == call[c].was.shipped + call[c].need

CloseLine(c) ==
  /\ At(c, "closeLine")
  /\ line' = [line EXCEPT ![call[c].order] =
                [fs |-> "SHIPPED", alloc |-> @.alloc, shipped |-> LineShipped(c)]]
  /\ Goto(c, "closeShipment")
  /\ UNCHANGED <<row, shipment, status, invoices>>

CloseShipment(c) ==
  /\ At(c, "closeShipment")
  /\ shipment' = [shipment EXCEPT ![call[c].order] = "SHIPPED"]
  /\ Goto(c, "closeOrder")
  /\ UNCHANGED <<row, line, status, invoices>>

\* The lines are read again: the order is SHIPPED, and billed, when all have left.
AllShipped(o) == line[o].shipped >= OrderQty[o]

CloseOrder(c) ==
  /\ At(c, "closeOrder")
  /\ LET o == call[c].order
     IN  IF AllShipped(o)
           THEN status' = [status EXCEPT ![o] = "SHIPPED"] /\ Goto(c, "find")
           ELSE UNCHANGED status /\ Return(c)
  /\ UNCHANGED <<row, line, shipment, invoices>>

-----------------------------------------------------------------------------
(* raiseArInvoiceForShipment                                               *)

\* An order that has an invoice gets no other.  (Mutants: nobody looks; the
\* invoices of all orders are looked at.)
NeverBilled(o) == FALSE
AnyBilled(o) == \E p \in Orders : invoices[p] > 0
AlreadyBilled(o) == invoices[o] > 0

FindInvoice(c) ==
  /\ At(c, "find")
  /\ IF AlreadyBilled(call[c].order) THEN Return(c) ELSE Goto(c, "count")
  /\ UNCHANGED <<row, line, shipment, status, invoices>>

\* The invoice number is the number of invoices plus one.
CountInvoices(c) ==
  /\ At(c, "count")
  /\ call' = [call EXCEPT ![c] = [@ EXCEPT !.pc = "invoice", !.need = Total(invoices)]]
  /\ UNCHANGED <<row, line, shipment, status, invoices>>

\* The number is unique: a request that counted before another one's invoice was
\* written throws, and has then shipped without billing.
CreateInvoice(c) ==
  /\ At(c, "invoice")
  /\ IF call[c].need = Total(invoices)
       THEN invoices' = [invoices EXCEPT ![call[c].order] = @ + 1]
       ELSE UNCHANGED invoices
  /\ Return(c)
  /\ UNCHANGED <<row, line, shipment, status>>

-----------------------------------------------------------------------------
(* The allocation of planSalesOrderFulfillment                             *)

\* Orders that have left are not planned, and lines that are ready or have left
\* are passed over.  (Mutant: the order's status is not looked at.)
MayPlanAnything(o) == TRUE
MayPlan(o) == status[o] # "SHIPPED"

StartPlanning(c, o) ==
  /\ Planning /\ At(c, "idle") /\ MayPlan(o)
  /\ LET free == Total([r \in Rows |-> row[r].avail])
         qty  == Lesser(free, Monus(OrderQty[o], line[o].alloc))
     IN  call' = [call EXCEPT ![c] =
           [Idle EXCEPT !.pc = IF line[o].fs \in {"READY", "SHIPPED"} THEN "planStatus"
                               ELSE IF qty > 0 THEN "available" ELSE "closePlan",
                        !.order = o, !.was = line[o], !.need = qty]]
  /\ UNCHANGED <<row, line, shipment, status, invoices>>

\* allocateFinishedGoods reads the free rows anew, writes what it can of them, and
\* throws afterwards if that was not enough.
ReadAvailable(c) ==
  /\ At(c, "available")
  /\ \E t \in Fills([r \in Rows |-> row[r].avail], call[c].need) :
       call' = [call EXCEPT ![c] =
         [@ EXCEPT !.pc = IF Total(t) = call[c].need THEN "reserve" ELSE "short",
                   !.seen = row, !.take = t]]
  /\ UNCHANGED <<row, line, shipment, status, invoices>>

\* Two of the three counters are written, as they were seen.
ReserveRow(c, r) ==
  /\ call[c].pc \in {"reserve", "short"} /\ r \in Unwritten(c)
  /\ LET q == Reserve(call[c].seen[r], call[c].take[r])
     IN  row' = [row EXCEPT ![r].avail = q.avail, ![r].commit = q.commit]
  /\ call' = [call EXCEPT ![c].take[r] = 0,
                ![c].pc = IF @ = "reserve" /\ Unwritten(c) = {r} THEN "closePlan" ELSE @]
  /\ UNCHANGED <<line, shipment, status, invoices>>

ThrowShort(c) ==
  /\ At(c, "short") /\ Unwritten(c) = {}
  /\ Return(c)
  /\ UNCHANGED <<row, line, shipment, status, invoices>>

\* The line is ready, or a purchase request is opened for what is short.
ClosePlan(c) ==
  /\ At(c, "closePlan")
  /\ LET o     == call[c].order
         alloc == call[c].was.alloc + call[c].need
     IN  line' = [line EXCEPT ![o] =
           [fs |-> IF alloc >= OrderQty[o] THEN "READY"
                   ELSE IF call[c].need > 0 THEN "PARTIAL" ELSE "OPEN",
            alloc |-> IF call[c].need > 0 THEN alloc ELSE @.alloc,
            shipped |-> @.shipped]]
  /\ Goto(c, "planStatus")
  /\ UNCHANGED <<row, shipment, status, invoices>>

\* Last, and without another look at it, the order's status is written.
ClosePlanning(c) ==
  /\ At(c, "planStatus")
  /\ LET o == call[c].order
         covered == line[o].fs \in {"READY", "SHIPPED"} \/ line[o].alloc >= OrderQty[o]
     IN  status' = [status EXCEPT ![o] = IF covered THEN "READY_TO_SHIP" ELSE "PLANNED"]
  /\ Return(c)
  /\ UNCHANGED <<row, line, shipment, invoices>>

-----------------------------------------------------------------------------
\* packShipment has no objection to a shipment that has left.
Repack(o) ==
  /\ shipment[o] = "SHIPPED"
  /\ shipment' = [shipment EXCEPT ![o] = "PACKED"]
  /\ UNCHANGED <<row, line, status, invoices, call>>

Crash(c) ==
  /\ Crashes /\ ~At(c, "idle")
  /\ Return(c)
  /\ UNCHANGED <<row, line, shipment, status, invoices>>

Proceed(c) ==
  \/ Preflight(c) \/ CloseLine(c) \/ CloseShipment(c) \/ CloseOrder(c)
  \/ FindInvoice(c) \/ CountInvoices(c) \/ CreateInvoice(c)
  \/ ReadAvailable(c) \/ ThrowShort(c) \/ ClosePlan(c) \/ ClosePlanning(c)
  \/ \E r \in Rows : IssueRow(c, r) \/ ReserveRow(c, r)

Next ==
  \/ \E c \in Clerks, o \in Orders : StartShipping(c, o) \/ StartPlanning(c, o)
  \/ \E c \in Clerks : Proceed(c) \/ Crash(c)
  \/ \E o \in Orders : Repack(o)

Spec == Init /\ [][Next]_vars

\* A request that is running goes on: nothing in it waits for another one.
FairSpec == Spec /\ \A c \in Clerks : WF_vars(Proceed(c))

-----------------------------------------------------------------------------
(* Properties                                                              *)

\* Wherever a request stops, all units of the line are recorded as shipped when
\* the shipment or the order is SHIPPED or an invoice exists: the statements are
\* ordered so that the books never run ahead of the goods.
BooksFollowGoods ==
  \A o \in Orders :
    shipment[o] = "SHIPPED" \/ status[o] = "SHIPPED" \/ invoices[o] > 0
      => line[o].shipped = OrderQty[o]

AllIdle == \A c \in Clerks : At(c, "idle")

\* When no request is running every unit that was there is still on a row or was
\* shipped, and every unit on a row is free or committed.
UnitsKept ==
  AllIdle =>
    /\ Total([r \in Rows |-> row[r].onHand])
         + Total([o \in Orders |-> line[o].shipped]) = Total(Opening)
    /\ \A r \in Rows : Balanced(row[r])

\* raiseArInvoiceForShipment is "idempotent per SO".
AtMostOneInvoice == \A o \in Orders : invoices[o] <= 1

\* "Shipping closes the revenue loop": what has shipped is billed in the end.
ShippedGetsBilled ==
  \A o \in Orders : status[o] = "SHIPPED" ~> invoices[o] > 0

\* "Cannot plan SO in status SHIPPED": once an order has shipped, nothing sends
\* it back to the planning board or the ship queue.
ShippedStaysShipped ==
  [][\A o \in Orders : status[o] = "SHIPPED" => status'[o] = "SHIPPED"]_vars
=============================================================================
