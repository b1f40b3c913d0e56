---------------------------- MODULE ShipRace_proofs ----------------------------
(***************************************************************************)
(* What survives any overlap and any stop of shipping, planning and        *)
(* invoicing, and what holds when requests come one after the other, for   *)
(* any number of requests, orders and rows and any quantities.             *)
(***************************************************************************)
EXTENDS ShipRace, StockRows_proofs, TLAPS

-----------------------------------------------------------------------------
(* A running request                                                       *)

\* A record with the fields that a request holds, whatever is in them.
IsCall(k) == DOMAIN k = {"pc", "order", "was", "need", "seen", "take"}

\* What the steps of shipping go by.
Holds(k, pc, order, was, need) ==
  IsCall(k) /\ k.pc = pc /\ k.order = order /\ k.was = was /\ k.need = need

LEMMA CallWrites ==
  ASSUME NEW k, IsCall(k), NEW pc
  PROVE  Holds([k EXCEPT !.pc = pc], pc, k.order, k.was, k.need)
BY DEF IsCall, Holds

LEMMA NeedWrites ==
  ASSUME NEW k, IsCall(k), NEW pc, NEW need
  PROVE  Holds([k EXCEPT !.pc = pc, !.need = need], pc, k.order, k.was, need)
BY DEF IsCall, Holds

LEMMA TakeWrites ==
  ASSUME NEW k, IsCall(k), NEW pc, NEW seen, NEW take
  PROVE  Holds([k EXCEPT !.pc = pc, !.seen = seen, !.take = take],
               pc, k.order, k.was, k.need)
BY DEF IsCall, Holds

LEMMA PreflightWrites ==
  ASSUME NEW k, IsCall(k), NEW pc, NEW need, NEW seen, NEW take
  PROVE  Holds([k EXCEPT !.pc = pc, !.need = need, !.seen = seen, !.take = take],
               pc, k.order, k.was, need)
BY DEF IsCall, Holds

LEMMA RowWrites ==
  ASSUME NEW k, IsCall(k), NEW pc, NEW r
  PROVE  Holds([k EXCEPT !.take[r] = 0, !.pc = pc], pc, k.order, k.was, k.need)
BY DEF IsCall, Holds

LEMMA IdleIsCall == IsCall(Idle)
BY DEF Idle, IsCall

LEMMA Starts ==
  ASSUME NEW pc, NEW o, NEW was
  PROVE  Holds([Idle EXCEPT !.pc = pc, !.order = o, !.was = was], pc, o, was, Idle.need)
BY IdleIsCall DEF IsCall, Holds

LEMMA PlanStarts ==
  ASSUME NEW pc, NEW o, NEW was, NEW need
  PROVE  Holds([Idle EXCEPT !.pc = pc, !.order = o, !.was = was, !.need = need],
               pc, o, was, need)
BY IdleIsCall DEF IsCall, Holds

\* What the steps with a choice in them make of the request.
LEMMA PlanningStarts ==
  ASSUME NEW c, NEW o, StartPlanning(c, o)
  PROVE  \E k, pc, need :
           /\ call' = [call EXCEPT ![c] = k] /\ Holds(k, pc, o, line[o], need)
           /\ pc \in {"planStatus", "available", "closePlan"}
<1> DEFINE need == Lesser(Total([r \in Rows |-> row[r].avail]), Monus(OrderQty[o], line[o].alloc))
           pc == IF line[o].fs \in {"READY", "SHIPPED"} THEN "planStatus"
                 ELSE IF need > 0 THEN "available" ELSE "closePlan"
           k == [Idle EXCEPT !.pc = pc, !.order = o, !.was = line[o], !.need = need]
<1>1. call' = [call EXCEPT ![c] = k]
  BY Zenon DEF StartPlanning
<1>2. pc \in {"planStatus", "available", "closePlan"}
  OBVIOUS
<1> HIDE DEF need, pc
<1>3. Holds(k, pc, o, line[o], need)
  BY PlanStarts
<1> HIDE DEF k
<1> QED BY <1>1, <1>2, <1>3

LEMMA ReadsRows ==
  ASSUME NEW c, IsCall(call[c]), ReadAvailable(c)
  PROVE  \E k, pc :
           /\ call' = [call EXCEPT ![c] = k]
           /\ Holds(k, pc, call[c].order, call[c].was, call[c].need)
           /\ pc \in {"reserve", "short"}
<1>1. PICK t : call' = [call EXCEPT ![c] =
                 [call[c] EXCEPT !.pc = IF Total(t) = call[c].need THEN "reserve" ELSE "short",
                                 !.seen = row, !.take = t]]
  BY Zenon DEF ReadAvailable
<1> DEFINE pc == IF Total(t) = call[c].need THEN "reserve" ELSE "short"
           k == [call[c] EXCEPT !.pc = pc, !.seen = row, !.take = t]
<1>2. call' = [call EXCEPT ![c] = k]
  BY <1>1, Zenon
<1>3. pc \in {"reserve", "short"}
  OBVIOUS
<1> HIDE DEF pc
<1>4. Holds(k, pc, call[c].order, call[c].was, call[c].need)
  BY TakeWrites
<1> HIDE DEF k
<1> QED BY <1>2, <1>3, <1>4

LEMMA FillsShipment ==
  ASSUME NEW c, IsCall(call[c]), Preflight(c), ~Return(c)
  PROVE  \E k, pc :
           /\ call' = [call EXCEPT ![c] = k]
           /\ Holds(k, pc, call[c].order, call[c].was,
                    Monus(OrderQty[call[c].order], call[c].was.shipped))
           /\ pc = IF Monus(OrderQty[call[c].order], call[c].was.shipped) = 0
                   THEN "closeShipment" ELSE "issue"
<1> DEFINE need == Monus(OrderQty[call[c].order], call[c].was.shipped)
           pc == IF need = 0 THEN "closeShipment" ELSE "issue"
<1>1. PICK t : call' = [call EXCEPT ![c] =
                 [call[c] EXCEPT !.pc = pc, !.need = need, !.seen = row, !.take = t]]
  BY Zenon DEF Preflight
<1> DEFINE k == [call[c] EXCEPT !.pc = pc, !.need = need, !.seen = row, !.take = t]
<1>2. call' = [call EXCEPT ![c] = k]
  BY <1>1
<1>3. Holds(k, pc, call[c].order, call[c].was, need)
  BY PreflightWrites
<1> HIDE DEF k
<1> QED BY <1>2, <1>3

-----------------------------------------------------------------------------
(* The books follow the goods                                              *)

Gone(l) == [o \in Orders |-> l[o].shipped = OrderQty[o]]

\* What a request that ships relies on: the line was unshipped or shipped whole when it
\* was read; what it is about to write is the whole line; and past that write the line
\* is shipped, which nothing undoes.
Knows(k, gone) ==
  /\ k.pc # "idle" => k.order \in Orders
  /\ k.pc = "preflight" =>
       /\ k.was.shipped \in {0, OrderQty[k.order]}
       /\ k.was.shipped # 0 => gone[k.order]
  /\ k.pc \in {"issue", "closeLine"} => k.was.shipped + k.need = OrderQty[k.order]
  /\ k.pc \in {"closeShipment", "closeOrder", "find", "count", "invoice"} => gone[k.order]

BooksInv ==
  /\ shipment \in [Orders -> {"PACKED", "SHIPPED"}]
  /\ DOMAIN status = Orders
  /\ invoices \in [Orders -> Nat]
  /\ DOMAIN line = Orders /\ \A o \in Orders : line[o].shipped \in {0, OrderQty[o]}
  /\ DOMAIN call = Clerks
  /\ \A c \in Clerks : IsCall(call[c]) /\ Knows(call[c], Gone(line))
  /\ BooksFollowGoods

LEMMA KnowsKept ==
  ASSUME NEW k, NEW g, NEW h, Knows(k, g),
         \A o \in Orders : g[o] => h[o]
  PROVE  Knows(k, h)
BY DEF Knows

LEMMA IdleKnows == IsCall(Idle) /\ \A g : Knows(Idle, g)
BY DEF Idle, IsCall, Knows

LEMMA BooksInit == Init => BooksInv
<1> SUFFICES ASSUME Init PROVE BooksInv
  OBVIOUS
<1>1. Idle.was = [fs |-> "OPEN", alloc |-> 0, shipped |-> 0]
  BY DEF Idle
<1> QED BY <1>1, IdleKnows DEF Init, BooksInv, BooksFollowGoods

\* A step of one request that leaves lines, shipments, orders and invoices alone.
LEMMA LocalStep ==
  ASSUME BooksInv, UNCHANGED <<line, shipment, status, invoices>>,
         NEW c \in Clerks, NEW k, call' = [call EXCEPT ![c] = k],
         IsCall(k), Knows(k, Gone(line))
  PROVE  BooksInv'
<1>1. Gone(line)' = Gone(line)
  BY DEF Gone
<1>2. \A d \in Clerks : IsCall(call'[d]) /\ Knows(call'[d], Gone(line))
  BY DEF BooksInv
<1>3. DOMAIN call' = Clerks
  BY DEF BooksInv
<1> QED BY <1>1, <1>2, <1>3 DEF BooksInv, BooksFollowGoods

\* A step that writes the record of one order.
LEMMA OthersKnow ==
  ASSUME BooksInv, NEW l, \A o \in Orders : Gone(line)[o] => Gone(l)[o],
         NEW c \in Clerks, NEW k, NEW f, f = [call EXCEPT ![c] = k],
         IsCall(k), Knows(k, Gone(l))
  PROVE  DOMAIN f = Clerks /\ \A d \in Clerks : IsCall(f[d]) /\ Knows(f[d], Gone(l))
BY KnowsKept DEF BooksInv

LEMMA BooksStep == BooksInv /\ [Next]_vars => BooksInv'
<1> SUFFICES ASSUME BooksInv, [Next]_vars PROVE BooksInv'
  OBVIOUS
<1>a. \A o \in Orders : OrderQty[o] \in Nat \ {0}
  BY RaceAssumption
<1>b. \A o \in Orders : Gone(line)[o] <=> line[o].shipped = OrderQty[o]
  BY DEF Gone
<1>c. \A c \in Clerks : IsCall(call[c]) /\ Knows(call[c], Gone(line))
  BY DEF BooksInv
<1>1. CASE UNCHANGED vars
  BY <1>1 DEF BooksInv, BooksFollowGoods, vars, Gone
<1>2. ASSUME NEW c \in Clerks, NEW o \in Orders, StartShipping(c, o) PROVE BooksInv'
  <2> DEFINE k == [Idle EXCEPT !.pc = "preflight", !.order = o, !.was = line[o]]
  <2>1. Holds(k, "preflight", o, line[o], Idle.need)
    BY Starts
  <2>2. line[o].shipped \in {0, OrderQty[o]}
    BY DEF BooksInv
  <2>3. IsCall(k) /\ Knows(k, Gone(line))
    BY <1>b, <2>1, <2>2 DEF Holds, Knows
  <2> QED BY <1>2, <2>3, LocalStep DEF StartShipping
<1>3. ASSUME NEW c \in Clerks, NEW o \in Orders, StartPlanning(c, o) PROVE BooksInv'
  <2>1. PICK k, pc, need :
          /\ call' = [call EXCEPT ![c] = k] /\ Holds(k, pc, o, line[o], need)
          /\ pc \in {"planStatus", "available", "closePlan"}
    BY <1>3, PlanningStarts
  <2>2. IsCall(k) /\ Knows(k, Gone(line))
    BY <2>1 DEF Holds, Knows
  <2>3. UNCHANGED <<line, shipment, status, invoices>>
    BY <1>3 DEF StartPlanning
  <2> QED BY <2>1, <2>2, <2>3, LocalStep
<1>4. ASSUME NEW c \in Clerks, Preflight(c) PROVE BooksInv'
  <2> DEFINE need == Monus(OrderQty[call[c].order], call[c].was.shipped)
  <2>1. CASE Return(c)
    BY <1>4, <2>1, IdleKnows, LocalStep DEF Preflight, Return
  <2>2. CASE ~Return(c)
    <3>1. PICK k, pc : /\ call' = [call EXCEPT ![c] = k]
                       /\ Holds(k, pc, call[c].order, call[c].was, need)
                       /\ pc = IF need = 0 THEN "closeShipment" ELSE "issue"
      BY <1>4, <1>c, <2>2, FillsShipment
    <3>2. UNCHANGED <<line, shipment, status, invoices>>
      BY <1>4 DEF Preflight
    <3>3. /\ call[c].order \in Orders /\ call[c].was.shipped \in {0, OrderQty[call[c].order]}
          /\ call[c].was.shipped # 0 => Gone(line)[call[c].order]
      BY <1>4, <1>c DEF Preflight, At, Knows
    <3>4. /\ call[c].was.shipped + need = OrderQty[call[c].order]
          /\ need = 0 => Gone(line)[call[c].order]
      BY <1>a, <3>3 DEF Monus
    <3> HIDE DEF need
    <3>5. IsCall(k) /\ Knows(k, Gone(line))
      BY <3>1, <3>3, <3>4 DEF Holds, Knows
    <3> QED BY <3>1, <3>2, <3>5, LocalStep
  <2> QED BY <2>1, <2>2
<1>5. ASSUME NEW c \in Clerks, NEW r \in Rows, IssueRow(c, r) PROVE BooksInv'
  <2>1. PICK pc \in {"issue", "closeLine"} :
          call' = [call EXCEPT ![c] = [call[c] EXCEPT !.take[r] = 0, !.pc = pc]]
    BY <1>5, Zenon DEF IssueRow, At
  <2> DEFINE k == [call[c] EXCEPT !.take[r] = 0, !.pc = pc]
  <2>2. Holds(k, pc, call[c].order, call[c].was, call[c].need)
    BY <1>c, RowWrites
  <2>3. IsCall(k)
    BY <2>2 DEF Holds
  <2>4. Knows(k, Gone(line))
    BY <1>5, <1>c, <2>2 DEF Holds, Knows, IssueRow, At
  <2> QED BY <1>5, <2>1, <2>3, <2>4, LocalStep DEF IssueRow
<1>6. ASSUME NEW c \in Clerks, CloseLine(c) PROVE BooksInv'
  <2> DEFINE o == call[c].order
             k == [call[c] EXCEPT !.pc = "closeShipment"]
  <2>1. o \in Orders /\ LineShipped(c) = OrderQty[o]
    BY <1>6, <1>c DEF CloseLine, At, Knows, LineShipped
  <2>2. Holds(k, "closeShipment", o, call[c].was, call[c].need)
    BY <1>c, CallWrites
  <2>3. /\ DOMAIN line' = Orders /\ line'[o].shipped = OrderQty[o]
        /\ \A p \in Orders : p # o => line'[p] = line[p]
    BY <1>6, <2>1 DEF CloseLine, BooksInv
  <2>4. Gone(line')[o] /\ \A p \in Orders : Gone(line)[p] => Gone(line')[p]
    BY <2>1, <2>3 DEF Gone
  <2>5. IsCall(k) /\ Knows(k, Gone(line'))
    BY <2>1, <2>2, <2>4 DEF Holds, Knows
  <2>6. call' = [call EXCEPT ![c] = k]
    BY <1>6 DEF CloseLine, Goto
  <2>7. DOMAIN call' = Clerks /\ \A d \in Clerks : IsCall(call'[d]) /\ Knows(call'[d], Gone(line'))
    BY <2>4, <2>5, <2>6, OthersKnow
  <2>8. BooksFollowGoods' /\ \A p \in Orders : line'[p].shipped \in {0, OrderQty[p]}
    BY <1>6, <2>1, <2>3 DEF CloseLine, BooksInv, BooksFollowGoods
  <2> QED BY <1>6, <2>3, <2>7, <2>8 DEF CloseLine, BooksInv
<1>7. ASSUME NEW c \in Clerks, CloseShipment(c) PROVE BooksInv'
  <2> DEFINE k == [call[c] EXCEPT !.pc = "closeOrder"]
  <2>1. call[c].order \in Orders /\ Gone(line)[call[c].order]
    BY <1>7, <1>c DEF CloseShipment, At, Knows
  <2>2. Holds(k, "closeOrder", call[c].order, call[c].was, call[c].need)
    BY <1>c, CallWrites
  <2>3. IsCall(k) /\ Knows(k, Gone(line))
    BY <2>1, <2>2 DEF Holds, Knows
  <2>4. DOMAIN call' = Clerks /\ \A d \in Clerks : IsCall(call'[d]) /\ Knows(call'[d], Gone(line))
    BY <1>7, <2>3, OthersKnow DEF CloseShipment, Goto
  <2>5. BooksFollowGoods' /\ shipment' \in [Orders -> {"PACKED", "SHIPPED"}]
    BY <1>7, <1>b, <2>1 DEF CloseShipment, BooksInv, BooksFollowGoods
  <2> QED BY <1>7, <2>4, <2>5 DEF CloseShipment, BooksInv, Gone
<1>8. ASSUME NEW c \in Clerks, CloseOrder(c) PROVE BooksInv'
  <2> DEFINE k == [call[c] EXCEPT !.pc = "find"]
  <2>1. call[c].order \in Orders /\ Gone(line)[call[c].order]
    BY <1>8, <1>c DEF CloseOrder, At, Knows
  <2>2. Holds(k, "find", call[c].order, call[c].was, call[c].need)
    BY <1>c, CallWrites
  <2>3. IsCall(k) /\ Knows(k, Gone(line))
    BY <2>1, <2>2 DEF Holds, Knows
  <2>4. CASE AllShipped(call[c].order)
    <3>1. DOMAIN call' = Clerks /\ \A d \in Clerks : IsCall(call'[d]) /\ Knows(call'[d], Gone(line))
      BY <1>8, <2>3, <2>4, OthersKnow DEF CloseOrder, Goto
    <3>2. BooksFollowGoods' /\ DOMAIN status' = Orders
      BY <1>8, <1>b, <2>1, <2>4 DEF CloseOrder, BooksInv, BooksFollowGoods
    <3> QED BY <1>8, <3>1, <3>2 DEF CloseOrder, BooksInv, Gone
  <2>5. CASE ~AllShipped(call[c].order)
    BY <1>8, <2>5, IdleKnows, LocalStep DEF CloseOrder, Return
  <2> QED BY <2>4, <2>5
<1>9. ASSUME NEW c \in Clerks, FindInvoice(c) PROVE BooksInv'
  <2> DEFINE k == [call[c] EXCEPT !.pc = "count"]
  <2>1. call[c].order \in Orders /\ Gone(line)[call[c].order]
    BY <1>9, <1>c DEF FindInvoice, At, Knows
  <2>2. Holds(k, "count", call[c].order, call[c].was, call[c].need)
    BY <1>c, CallWrites
  <2>3. IsCall(k) /\ Knows(k, Gone(line))
    BY <2>1, <2>2 DEF Holds, Knows
  <2>4. CASE Return(c)
    BY <1>9, <2>4, IdleKnows, LocalStep DEF FindInvoice, Return
  <2>5. CASE Goto(c, "count")
    BY <1>9, <2>3, <2>5, LocalStep DEF FindInvoice, Goto
  <2> QED BY <1>9, <2>4, <2>5 DEF FindInvoice
<1>10. ASSUME NEW c \in Clerks, CountInvoices(c) PROVE BooksInv'
  <2> DEFINE k == [call[c] EXCEPT !.pc = "invoice", !.need = Total(invoices)]
  <2>1. call[c].order \in Orders /\ Gone(line)[call[c].order]
    BY <1>10, <1>c DEF CountInvoices, At, Knows
  <2>2. Holds(k, "invoice", call[c].order, call[c].was, Total(invoices))
    BY <1>c, NeedWrites
  <2>3. IsCall(k) /\ Knows(k, Gone(line))
    BY <2>1, <2>2 DEF Holds, Knows
  <2> QED BY <1>10, <2>3, LocalStep DEF CountInvoices
<1>11. ASSUME NEW c \in Clerks, CreateInvoice(c) PROVE BooksInv'
  <2>1. call[c].order \in Orders /\ Gone(line)[call[c].order]
    BY <1>11, <1>c DEF CreateInvoice, At, Knows
  <2>2. DOMAIN call' = Clerks /\ \A d \in Clerks : IsCall(call'[d]) /\ Knows(call'[d], Gone(line))
    BY <1>11, IdleKnows, OthersKnow DEF CreateInvoice, Return
  <2>3. invoices' \in [Orders -> Nat] /\ BooksFollowGoods'
    BY <1>11, <1>b, <2>1 DEF CreateInvoice, BooksInv, BooksFollowGoods
  <2> QED BY <1>11, <2>2, <2>3 DEF CreateInvoice, BooksInv, Gone
<1>12. ASSUME NEW c \in Clerks, ReadAvailable(c) PROVE BooksInv'
  <2>1. PICK k, pc : /\ call' = [call EXCEPT ![c] = k]
                     /\ Holds(k, pc, call[c].order, call[c].was, call[c].need)
                     /\ pc \in {"reserve", "short"}
    BY <1>12, <1>c, ReadsRows
  <2>2. call[c].pc = "available" /\ UNCHANGED <<line, shipment, status, invoices>>
    BY <1>12 DEF ReadAvailable, At
  <2>3. IsCall(k) /\ Knows(k, Gone(line))
    BY <1>c, <2>1, <2>2 DEF Holds, Knows
  <2> QED BY <2>1, <2>2, <2>3, LocalStep
<1>13. ASSUME NEW c \in Clerks, NEW r \in Rows, ReserveRow(c, r) PROVE BooksInv'
  <2>1. PICK pc \in {"reserve", "short", "closePlan"} :
          call' = [call EXCEPT ![c] = [call[c] EXCEPT !.take[r] = 0, !.pc = pc]]
    BY <1>13, Zenon DEF ReserveRow
  <2> DEFINE k == [call[c] EXCEPT !.take[r] = 0, !.pc = pc]
  <2>2. Holds(k, pc, call[c].order, call[c].was, call[c].need)
    BY <1>c, RowWrites
  <2>3. IsCall(k)
    BY <2>2 DEF Holds
  <2>4. Knows(k, Gone(line))
    BY <1>13, <1>c, <2>2 DEF Holds, Knows, ReserveRow
  <2> QED BY <1>13, <2>1, <2>3, <2>4, LocalStep DEF ReserveRow
<1>14. ASSUME NEW c \in Clerks, ThrowShort(c) \/ Crash(c) PROVE BooksInv'
  BY <1>14, IdleKnows, LocalStep DEF ThrowShort, Crash, Return
<1>15. ASSUME NEW c \in Clerks, ClosePlan(c) PROVE BooksInv'
  <2> DEFINE o == call[c].order
             k == [call[c] EXCEPT !.pc = "planStatus"]
  <2>1. o \in Orders
    BY <1>15, <1>c DEF ClosePlan, At, Knows
  <2>2. Holds(k, "planStatus", o, call[c].was, call[c].need)
    BY <1>c, CallWrites
  <2>3. DOMAIN line' = Orders /\ \A p \in Orders : line'[p].shipped = line[p].shipped
    BY <1>15, <2>1 DEF ClosePlan, BooksInv
  <2>4. \A p \in Orders : Gone(line)[p] => Gone(line')[p]
    BY <2>3 DEF Gone
  <2>5. IsCall(k) /\ Knows(k, Gone(line'))
    BY <2>1, <2>2 DEF Holds, Knows
  <2>6. call' = [call EXCEPT ![c] = k]
    BY <1>15 DEF ClosePlan, Goto
  <2>7. DOMAIN call' = Clerks /\ \A d \in Clerks : IsCall(call'[d]) /\ Knows(call'[d], Gone(line'))
    BY <2>4, <2>5, <2>6, OthersKnow
  <2> QED BY <1>15, <2>3, <2>7 DEF ClosePlan, BooksInv, BooksFollowGoods
<1>16. ASSUME NEW c \in Clerks, ClosePlanning(c) PROVE BooksInv'
  <2>1. DOMAIN call' = Clerks /\ \A d \in Clerks : IsCall(call'[d]) /\ Knows(call'[d], Gone(line))
    BY <1>16, IdleKnows, OthersKnow DEF ClosePlanning, Return
  <2>2. PICK s \in {"READY_TO_SHIP", "PLANNED"} : status' = [status EXCEPT ![call[c].order] = s]
    BY <1>16 DEF ClosePlanning
  <2>3. DOMAIN status' = Orders /\ \A o \in Orders : status'[o] = "SHIPPED" => status[o] = "SHIPPED"
    BY <2>2 DEF BooksInv
  <2> QED BY <1>16, <2>1, <2>3 DEF ClosePlanning, BooksInv, BooksFollowGoods, Gone
<1>17. ASSUME NEW o \in Orders, Repack(o) PROVE BooksInv'
  BY <1>17 DEF Repack, BooksInv, BooksFollowGoods, Gone
<1> QED
  BY <1>1, <1>2, <1>3, <1>4, <1>5, <1>6, <1>7, <1>8, <1>9, <1>10, <1>11, <1>12, <1>13, <1>14,
     <1>15, <1>16, <1>17, Zenon DEF Next, Proceed

\* The books never run ahead of the goods, however many requests ship, plan and bill the
\* same orders and wherever they stop: the statements of shipSalesOrder are in the order
\* that makes a stop leave goods unbilled rather than bills without goods.
THEOREM BooksNeverAhead == Spec => []BooksFollowGoods
<1>1. BooksInv => BooksFollowGoods
  BY DEF BooksInv
<1> QED BY <1>1, BooksInit, BooksStep, PTL DEF Spec
-----------------------------------------------------------------------------
(* One request at a time                                                   *)

OneAtATime == \A c, d \in Clerks : c = d

\* What a request found out when it looked, and nobody else can have changed: the order
\* it bills has no invoice, the order it plans has not left.
StillTrue(k, bills, st) ==
  /\ k.pc \in {"count", "invoice"} => bills[k.order] = 0
  /\ k.pc \in {"available", "reserve", "short", "closePlan", "planStatus"} =>
       st[k.order] # "SHIPPED"

AloneInv ==
  /\ BooksInv
  /\ AtMostOneInvoice
  /\ \A c \in Clerks : StillTrue(call[c], invoices, status)

LEMMA IdleIsTrue == \A b, st : StillTrue(Idle, b, st)
BY DEF StillTrue, Idle

LEMMA AloneInit == Init => AloneInv
BY BooksInit, IdleIsTrue DEF Init, AloneInv, AtMostOneInvoice

\* A step of the only request that leaves orders and invoices alone.
LEMMA AloneLocal ==
  ASSUME OneAtATime, AloneInv, BooksInv', UNCHANGED <<status, invoices>>,
         NEW c \in Clerks, NEW k, call' = [call EXCEPT ![c] = k],
         StillTrue(k, invoices, status)
  PROVE  AloneInv'
<1>1. \A d \in Clerks : call'[d] = k
  BY DEF OneAtATime, AloneInv, BooksInv
<1> QED BY <1>1 DEF AloneInv, AtMostOneInvoice

\* A step of it that goes on with what it found out.
LEMMA AloneOn ==
  ASSUME OneAtATime, AloneInv, BooksInv', UNCHANGED <<status, invoices>>,
         NEW c \in Clerks, NEW k, NEW pc, NEW was, NEW need,
         call' = [call EXCEPT ![c] = k],
         Holds(k, pc, call[c].order, was, need),
         pc \in {"count", "invoice"} => call[c].pc \in {"count", "invoice"},
         pc \in {"available", "reserve", "short", "closePlan", "planStatus"} =>
           call[c].pc \in {"available", "reserve", "short", "closePlan"}
  PROVE  AloneInv'
<1>1. StillTrue(k, invoices, status)
  BY DEF Holds, StillTrue, AloneInv
<1> QED BY <1>1, AloneLocal

LEMMA AloneStep ==
  OneAtATime /\ AloneInv /\ [Next]_vars =>
    AloneInv' /\ \A o \in Orders : status[o] = "SHIPPED" => status'[o] = "SHIPPED"
<1> SUFFICES ASSUME OneAtATime, AloneInv, [Next]_vars
             PROVE  AloneInv' /\ \A o \in Orders : status[o] = "SHIPPED" => status'[o] = "SHIPPED"
  OBVIOUS
<1> DEFINE Goal == AloneInv' /\ \A o \in Orders : status[o] = "SHIPPED" => status'[o] = "SHIPPED"
<1>a. BooksInv'
  BY BooksStep DEF AloneInv
<1>b. \A c \in Clerks : IsCall(call[c])
  BY DEF AloneInv, BooksInv
<1>c. \A c \in Clerks : StillTrue(call[c], invoices, status)
  BY DEF AloneInv
<1>d. \A c, d \in Clerks : c = d
  BY DEF OneAtATime
<1>1. CASE UNCHANGED vars
  BY <1>1, <1>a DEF AloneInv, AtMostOneInvoice, vars
<1>2. ASSUME NEW c \in Clerks, NEW o \in Orders, StartShipping(c, o) PROVE Goal
  <2> DEFINE k == [Idle EXCEPT !.pc = "preflight", !.order = o, !.was = line[o]]
  <2>1. Holds(k, "preflight", o, line[o], Idle.need)
    BY Starts
  <2>2. StillTrue(k, invoices, status)
    BY <2>1 DEF Holds, StillTrue
  <2> QED BY <1>2, <1>a, <2>2, AloneLocal DEF StartShipping
<1>3. ASSUME NEW c \in Clerks, NEW o \in Orders, StartPlanning(c, o) PROVE Goal
  <2>1. PICK k, pc, need :
          /\ call' = [call EXCEPT ![c] = k] /\ Holds(k, pc, o, line[o], need)
          /\ pc \in {"planStatus", "available", "closePlan"}
    BY <1>3, PlanningStarts
  <2>2. status[o] # "SHIPPED" /\ UNCHANGED <<status, invoices>>
    BY <1>3 DEF StartPlanning, MayPlan
  <2>3. StillTrue(k, invoices, status)
    BY <2>1, <2>2 DEF Holds, StillTrue
  <2> QED BY <1>a, <2>1, <2>2, <2>3, AloneLocal
<1>4. ASSUME NEW c \in Clerks, Preflight(c) PROVE Goal
  <2>1. CASE Return(c)
    BY <1>4, <1>a, <2>1, IdleIsTrue, AloneLocal DEF Preflight, Return
  <2>2. CASE ~Return(c)
    <3>1. PICK k, pc : /\ call' = [call EXCEPT ![c] = k]
                       /\ Holds(k, pc, call[c].order, call[c].was,
                                Monus(OrderQty[call[c].order], call[c].was.shipped))
                       /\ pc \in {"closeShipment", "issue"}
      BY <1>4, <1>b, <2>2, FillsShipment
    <3>2. UNCHANGED <<status, invoices>>
      BY <1>4 DEF Preflight
    <3>3. StillTrue(k, invoices, status)
      BY <3>1 DEF Holds, StillTrue
    <3> QED BY <1>a, <3>1, <3>2, <3>3, AloneLocal
  <2> QED BY <2>1, <2>2
<1>5. ASSUME NEW c \in Clerks, NEW r \in Rows, IssueRow(c, r) PROVE Goal
  <2>1. PICK pc \in {"issue", "closeLine"} :
          call' = [call EXCEPT ![c] = [call[c] EXCEPT !.take[r] = 0, !.pc = pc]]
    BY <1>5, Zenon DEF IssueRow, At
  <2> DEFINE k == [call[c] EXCEPT !.take[r] = 0, !.pc = pc]
  <2>2. Holds(k, pc, call[c].order, call[c].was, call[c].need)
    BY <1>b, RowWrites
  <2> QED BY <1>5, <1>a, <2>1, <2>2, AloneOn DEF IssueRow
<1>6. ASSUME NEW c \in Clerks, CloseLine(c) \/ CloseShipment(c) PROVE Goal
  <2>1. PICK pc \in {"closeShipment", "closeOrder"} :
          call' = [call EXCEPT ![c] = [call[c] EXCEPT !.pc = pc]]
    BY <1>6 DEF CloseLine, CloseShipment, Goto
  <2>2. Holds([call[c] EXCEPT !.pc = pc], pc, call[c].order, call[c].was, call[c].need)
    BY <1>b, CallWrites
  <2> QED BY <1>6, <1>a, <2>1, <2>2, AloneOn DEF CloseLine, CloseShipment
<1>7. ASSUME NEW c \in Clerks, CloseOrder(c) PROVE Goal
  <2> DEFINE k == [call[c] EXCEPT !.pc = "find"]
  <2>1. CASE AllShipped(call[c].order)
    <3>1. Holds(k, "find", call[c].order, call[c].was, call[c].need)
      BY <1>b, CallWrites
    <3>2. call' = [call EXCEPT ![c] = k] /\ UNCHANGED invoices
      BY <1>7, <2>1 DEF CloseOrder, Goto
    <3>3. \A d \in Clerks : StillTrue(call'[d], invoices', status')
      BY <1>d, <3>1, <3>2 DEF Holds, StillTrue, AloneInv, BooksInv
    <3>4. \A o \in Orders : status[o] = "SHIPPED" => status'[o] = "SHIPPED"
      BY <1>7, <2>1 DEF CloseOrder, AloneInv, BooksInv
    <3> QED BY <1>a, <3>2, <3>3, <3>4 DEF AloneInv, AtMostOneInvoice
  <2>2. CASE ~AllShipped(call[c].order)
    BY <1>7, <1>a, <2>2, IdleIsTrue, AloneLocal DEF CloseOrder, Return
  <2> QED BY <2>1, <2>2
<1>8. ASSUME NEW c \in Clerks, FindInvoice(c) PROVE Goal
  <2>1. CASE AlreadyBilled(call[c].order)
    BY <1>8, <1>a, <2>1, IdleIsTrue, AloneLocal DEF FindInvoice, Return
  <2>2. CASE ~AlreadyBilled(call[c].order)
    <3> DEFINE k == [call[c] EXCEPT !.pc = "count"]
    <3>1. Holds(k, "count", call[c].order, call[c].was, call[c].need)
      BY <1>b, CallWrites
    <3>2. call[c].order \in Orders
      BY <1>8 DEF FindInvoice, At, AloneInv, BooksInv, Knows
    <3>3. invoices[call[c].order] = 0
      BY <2>2, <3>2 DEF AlreadyBilled, AloneInv, BooksInv
    <3>4. StillTrue(k, invoices, status)
      BY <3>1, <3>3 DEF Holds, StillTrue
    <3> QED BY <1>8, <1>a, <2>2, <3>4, AloneLocal DEF FindInvoice, Goto
  <2> QED BY <2>1, <2>2
<1>9. ASSUME NEW c \in Clerks, CountInvoices(c) PROVE Goal
  <2> DEFINE k == [call[c] EXCEPT !.pc = "invoice", !.need = Total(invoices)]
  <2>1. Holds(k, "invoice", call[c].order, call[c].was, Total(invoices))
    BY <1>b, NeedWrites
  <2> QED BY <1>9, <1>a, <2>1, AloneOn DEF CountInvoices, At
<1>10. ASSUME NEW c \in Clerks, CreateInvoice(c) PROVE Goal
  <2>1. call[c].order \in Orders /\ invoices[call[c].order] = 0
    BY <1>10, <1>c DEF CreateInvoice, At, StillTrue, AloneInv, BooksInv, Knows
  <2>2. AtMostOneInvoice'
    BY <1>10, <2>1 DEF CreateInvoice, AtMostOneInvoice, AloneInv, BooksInv
  <2>3. \A d \in Clerks : call'[d] = Idle
    BY <1>10, <1>d DEF CreateInvoice, Return, AloneInv, BooksInv
  <2> QED BY <1>10, <1>a, <2>2, <2>3, IdleIsTrue DEF CreateInvoice, AloneInv
<1>11. ASSUME NEW c \in Clerks, ReadAvailable(c) PROVE Goal
  <2>1. PICK k, pc : /\ call' = [call EXCEPT ![c] = k]
                     /\ Holds(k, pc, call[c].order, call[c].was, call[c].need)
                     /\ pc \in {"reserve", "short"}
    BY <1>11, <1>b, ReadsRows
  <2>2. call[c].pc = "available" /\ UNCHANGED <<status, invoices>>
    BY <1>11 DEF ReadAvailable, At
  <2>3. StillTrue(k, invoices, status)
    BY <1>c, <2>1, <2>2 DEF Holds, StillTrue
  <2> QED BY <1>a, <2>1, <2>2, <2>3, AloneLocal
<1>12. ASSUME NEW c \in Clerks, NEW r \in Rows, ReserveRow(c, r) PROVE Goal
  <2>1. PICK pc \in {"reserve", "short", "closePlan"} :
          call' = [call EXCEPT ![c] = [call[c] EXCEPT !.take[r] = 0, !.pc = pc]]
    BY <1>12, Zenon DEF ReserveRow
  <2> DEFINE k == [call[c] EXCEPT !.take[r] = 0, !.pc = pc]
  <2>2. Holds(k, pc, call[c].order, call[c].was, call[c].need)
    BY <1>b, RowWrites
  <2> QED BY <1>12, <1>a, <2>1, <2>2, AloneOn DEF ReserveRow
<1>13. ASSUME NEW c \in Clerks, ThrowShort(c) \/ Crash(c) PROVE Goal
  BY <1>13, <1>a, IdleIsTrue, AloneLocal DEF ThrowShort, Crash, Return
<1>14. ASSUME NEW c \in Clerks, ClosePlan(c) PROVE Goal
  <2> DEFINE k == [call[c] EXCEPT !.pc = "planStatus"]
  <2>1. Holds(k, "planStatus", call[c].order, call[c].was, call[c].need)
    BY <1>b, CallWrites
  <2>2. call[c].pc = "closePlan" /\ call' = [call EXCEPT ![c] = k] /\ UNCHANGED <<status, invoices>>
    BY <1>14 DEF ClosePlan, At, Goto
  <2>3. StillTrue(k, invoices, status)
    BY <1>c, <2>1, <2>2 DEF Holds, StillTrue
  <2> QED BY <1>a, <2>2, <2>3, AloneLocal
<1>15. ASSUME NEW c \in Clerks, ClosePlanning(c) PROVE Goal
  <2>1. status[call[c].order] # "SHIPPED"
    BY <1>15, <1>c DEF ClosePlanning, At, StillTrue
  <2>2. PICK s \in {"READY_TO_SHIP", "PLANNED"} : status' = [status EXCEPT ![call[c].order] = s]
    BY <1>15 DEF ClosePlanning
  <2>3. \A o \in Orders : status[o] = "SHIPPED" => status'[o] = "SHIPPED"
    BY <2>1, <2>2 DEF AloneInv, BooksInv
  <2>4. \A d \in Clerks : call'[d] = Idle
    BY <1>15, <1>d DEF ClosePlanning, Return, AloneInv, BooksInv
  <2> QED BY <1>15, <1>a, <2>3, <2>4, IdleIsTrue DEF ClosePlanning, AloneInv, AtMostOneInvoice
<1>16. ASSUME NEW o \in Orders, Repack(o) PROVE Goal
  BY <1>16, <1>a DEF Repack, AloneInv, AtMostOneInvoice
<1> QED
  BY <1>1, <1>2, <1>3, <1>4, <1>5, <1>6, <1>7, <1>8, <1>9, <1>10, <1>11, <1>12, <1>13, <1>14,
     <1>15, <1>16, Zenon DEF Next, Proceed

\* As long as requests come one after the other, wherever they stop, the check of
\* raiseArInvoiceForShipment is enough: an order has at most one invoice.
THEOREM OneInvoiceAlone ==
  ASSUME OneAtATime
  PROVE  Spec => []AtMostOneInvoice
<1>1. AloneInv => AtMostOneInvoice
  BY DEF AloneInv
<1>2. AloneInv /\ [Next]_vars => AloneInv'
  BY AloneStep
<1> QED BY <1>1, <1>2, AloneInit, PTL DEF Spec

\* As long as requests come one after the other, the check at the start of planning is
\* enough, although the status is written at its end without another look: an order
\* that has shipped stays shipped.
THEOREM ShippedStaysAlone ==
  ASSUME OneAtATime
  PROVE  Spec => ShippedStaysShipped
<1>1. AloneInv /\ [Next]_vars => AloneInv'
  BY AloneStep
<1>2. AloneInv /\ [Next]_vars =>
        [\A o \in Orders : status[o] = "SHIPPED" => status'[o] = "SHIPPED"]_vars
  BY AloneStep
<1> QED BY <1>1, <1>2, AloneInit, PTL DEF Spec, ShippedStaysShipped

-----------------------------------------------------------------------------
(* The types                                                               *)

CallType == [pc : Steps, order : Orders, was : LineState, need : Nat,
             seen : [Rows -> Quantities], take : [Rows -> Nat]]

\* What a request is about to reserve was free when it read the rows.
TakesFree(k) == k.pc \in {"reserve", "short"} => \A r \in Rows : k.take[r] <= k.seen[r].avail

RaceInv == TypeOK /\ \A c \in Clerks : TakesFree(call[c])

\* A request that is over holds nothing.
LEMMA IdleType == Idle \in CallType /\ TakesFree(Idle)
<1>1. (CHOOSE o \in Orders : TRUE) \in Orders
  BY RaceAssumption
<1>2. EmptyRow \in Quantities
  BY DEF EmptyRow, Quantities
<1>3. Unread \in [Rows -> Quantities] /\ Nothing \in [Rows -> Nat]
  BY <1>2 DEF Unread, Nothing
<1> QED BY <1>1, <1>3 DEF Idle, CallType, TakesFree, Steps, LineState

\* The sum of whole numbers over the rows or over the orders is one.
LEMMA TotalsAreNat ==
  /\ \A f \in [Rows -> Nat] : Total(f) = SumFunctionOnSet(f, Rows) /\ Total(f) \in Nat
  /\ \A f \in [Orders -> Nat] : Total(f) = SumFunctionOnSet(f, Orders) /\ Total(f) \in Nat
<1>1. ASSUME NEW f \in [Rows -> Nat] PROVE Total(f) = SumFunctionOnSet(f, Rows) /\ Total(f) \in Nat
  <2>1. SumFunctionOnSet(f, Rows) \in Nat
    BY RaceAssumption, SumOfNat
  <2> QED BY <2>1, TotalOver
<1>2. ASSUME NEW f \in [Orders -> Nat] PROVE Total(f) = SumFunctionOnSet(f, Orders) /\ Total(f) \in Nat
  <2>1. SumFunctionOnSet(f, Orders) \in Nat
    BY RaceAssumption, SumOfNat
  <2> QED BY <2>1, TotalOver
<1> QED BY <1>1, <1>2

\* A step of one request, whose record stays one of a request.
LEMMA TypedStep ==
  ASSUME RaceInv, NEW c \in Clerks, NEW k \in CallType, TakesFree(k), call' = [call EXCEPT ![c] = k],
         row' \in [Rows -> Quantities], line' \in [Orders -> LineState],
         shipment' \in [Orders -> {"PACKED", "SHIPPED"}],
         status' \in [Orders -> {"OPEN", "PLANNED", "READY_TO_SHIP", "SHIPPED"}],
         invoices' \in [Orders -> Nat]
  PROVE  RaceInv'
<1>1. call \in [Clerks -> CallType] /\ \A d \in Clerks : TakesFree(call[d])
  BY DEF RaceInv, TypeOK, CallType
<1>2. call' \in [Clerks -> CallType]
  BY <1>1
<1>3. \A d \in Clerks : TakesFree(call'[d])
  BY <1>1
<1>4. TypeOK'
  BY <1>2 DEF TypeOK, CallType, Steps, LineState, Quantities
<1> QED BY <1>3, <1>4 DEF RaceInv, TakesFree

\* The same where nothing else is written.
LEMMA TypedLocal ==
  ASSUME RaceInv, NEW c \in Clerks, NEW k \in CallType, TakesFree(k), call' = [call EXCEPT ![c] = k],
         UNCHANGED <<row, line, shipment, status, invoices>>
  PROVE  RaceInv'
BY TypedStep DEF RaceInv, TypeOK

\* What the preflight and the reading of free rows make of the request.
LEMMA PreflightTypes ==
  ASSUME RaceInv, NEW c \in Clerks, Preflight(c), ~Return(c)
  PROVE  \E k \in CallType :
           /\ call' = [call EXCEPT ![c] = k] /\ TakesFree(k) /\ k.pc \in {"closeShipment", "issue"}
           /\ k.order = call[c].order /\ k.was = call[c].was /\ k.seen = row
           /\ k.need = Monus(OrderQty[k.order], k.was.shipped)
           /\ SumFunctionOnSet(k.take, Rows) = k.need
           /\ \A r \in Rows : k.take[r] <= Pool(row[r])
<1> DEFINE need == Monus(OrderQty[call[c].order], call[c].was.shipped)
           pc == IF need = 0 THEN "closeShipment" ELSE "issue"
           cap == [r \in Rows |-> Pool(row[r])]
<1>1. call[c] \in CallType /\ row \in [Rows -> Quantities]
  BY DEF RaceInv, TypeOK, CallType
<1>2. need \in Nat
  BY <1>1, RaceAssumption DEF CallType, LineState, Monus
<1>3. PICK t \in Fills(cap, need) :
        /\ ~Insufficient(t, need)
        /\ call' = [call EXCEPT ![c] =
             [call[c] EXCEPT !.pc = pc, !.need = need, !.seen = row, !.take = t]]
  BY Zenon DEF Preflight
<1>4. DOMAIN cap = Rows /\ \A r \in Rows : cap[r] \in Nat /\ cap[r] = Pool(row[r])
  BY <1>1, PoolBounds
<1> HIDE DEF cap, need
<1>5. /\ DOMAIN t = Rows /\ \A r \in Rows : t[r] \in Nat /\ t[r] <= cap[r]
      /\ Total(t) = SumFunctionOnSet(t, Rows) /\ Total(t) \in Nat /\ Total(t) <= need
  BY <1>2, <1>4, RaceAssumption, FillsBounds
<1>6. t \in [Rows -> Nat]
  <2>1. t \in Takes(cap)
    BY FillsAreTakes
  <2>2. t = [r \in DOMAIN t |-> t[r]]
    BY <2>1 DEF Takes
  <2> QED BY <1>5, <2>2
<1>7. SumFunctionOnSet(t, Rows) = need
  BY <1>2, <1>3, <1>5 DEF Insufficient
<1> DEFINE k == [call[c] EXCEPT !.pc = pc, !.need = need, !.seen = row, !.take = t]
<1>8. /\ k \in CallType /\ k.pc = pc /\ k.order = call[c].order /\ k.was = call[c].was
      /\ k.need = need /\ k.seen = row /\ k.take = t
  BY <1>1, <1>2, <1>6 DEF CallType, Steps
<1>9. k.pc \in {"closeShipment", "issue"} /\ call' = [call EXCEPT ![c] = k]
  BY <1>3, <1>8
<1> HIDE DEF k
<1>10. TakesFree(k)
  BY <1>9 DEF TakesFree
<1> QED BY <1>4, <1>5, <1>7, <1>8, <1>9, <1>10 DEF need

\* The same for the reading of free rows.
LEMMA ReadTypes ==
  ASSUME RaceInv, NEW c \in Clerks, ReadAvailable(c)
  PROVE  \E k \in CallType :
           /\ call' = [call EXCEPT ![c] = k] /\ TakesFree(k) /\ k.pc \in {"reserve", "short"}
           /\ k.order = call[c].order /\ k.was = call[c].was /\ k.seen = row
           /\ \A r \in Rows : k.take[r] <= row[r].avail
<1> DEFINE cap == [r \in Rows |-> row[r].avail]
<1>1. call[c] \in CallType /\ row \in [Rows -> Quantities]
  BY DEF RaceInv, TypeOK, CallType
<1>2. PICK t \in Fills(cap, call[c].need) :
        call' = [call EXCEPT ![c] =
          [call[c] EXCEPT !.pc = IF Total(t) = call[c].need THEN "reserve" ELSE "short",
                          !.seen = row, !.take = t]]
  BY Zenon DEF ReadAvailable
<1>3. DOMAIN cap = Rows /\ \A r \in Rows : cap[r] \in Nat /\ cap[r] = row[r].avail
  BY <1>1 DEF Quantities
<1>4. call[c].need \in Nat
  BY <1>1 DEF CallType
<1> HIDE DEF cap
<1>5. DOMAIN t = Rows /\ \A r \in Rows : t[r] \in Nat /\ t[r] <= cap[r]
  BY <1>3, <1>4, RaceAssumption, FillsBounds
<1>6. t \in [Rows -> Nat]
  <2>1. t \in Takes(cap)
    BY FillsAreTakes
  <2>2. t = [r \in DOMAIN t |-> t[r]]
    BY <2>1 DEF Takes
  <2> QED BY <1>5, <2>2
<1> DEFINE pc == IF Total(t) = call[c].need THEN "reserve" ELSE "short"
           k == [call[c] EXCEPT !.pc = pc, !.seen = row, !.take = t]
<1>7. call' = [call EXCEPT ![c] = k] /\ pc \in {"reserve", "short"}
  BY <1>2
<1> HIDE DEF pc
<1>8. /\ k \in CallType /\ k.pc = pc /\ k.order = call[c].order /\ k.was = call[c].was
      /\ k.seen = row /\ k.take = t
  BY <1>1, <1>6, <1>7 DEF CallType, Steps
<1> HIDE DEF k
<1>9. TakesFree(k)
  BY <1>3, <1>5, <1>8 DEF TakesFree
<1> QED BY <1>3, <1>5, <1>7, <1>8, <1>9

\* A row that is issued or reserved by a request stays one, whatever was written since it
\* was read: shipping cuts off at zero, and what planning reserves was free when read.
LEMMA RowWriteTypes ==
  ASSUME RaceInv, NEW c \in Clerks, NEW r \in Rows, IssueRow(c, r) \/ ReserveRow(c, r)
  PROVE  /\ row' \in [Rows -> Quantities]
         /\ \E k \in CallType :
              /\ call' = [call EXCEPT ![c] = k] /\ TakesFree(k)
              /\ k.pc = call[c].pc \/ (k.pc \in {"closeLine", "closePlan"} /\ Unwritten(c) = {r})
              /\ k.order = call[c].order /\ k.was = call[c].was /\ k.need = call[c].need
              /\ k.seen = call[c].seen /\ k.take = [call[c].take EXCEPT ![r] = 0]
<1>1. call[c] \in CallType /\ row \in [Rows -> Quantities] /\ TakesFree(call[c])
  BY DEF RaceInv, TypeOK, CallType
<1> DEFINE q == call[c].seen[r]
           n == call[c].take[r]
<1>2. q \in Quantities /\ n \in Nat
  BY <1>1 DEF CallType
<1>3. row' \in [Rows -> Quantities]
  <2>1. CASE IssueRow(c, r)
    <3>1. IssueCommitted(q, n) \in Quantities
      BY <1>2 DEF IssueCommitted, Quantities, Lesser, Monus
    <3>2. row' = [row EXCEPT ![r] = IssueCommitted(q, n)]
      BY <2>1 DEF IssueRow, Written
    <3> QED BY <1>1, <3>1, <3>2
  <2>2. CASE ReserveRow(c, r)
    <3>1. n <= q.avail
      BY <1>1, <2>2 DEF ReserveRow, TakesFree
    <3>2. Reserve(q, n) \in Quantities
      BY <1>2, <3>1, ReserveKeeps
    <3>3. row' = [row EXCEPT ![r].avail = Reserve(q, n).avail, ![r].commit = Reserve(q, n).commit]
      BY <2>2 DEF ReserveRow
    <3> QED BY <1>1, <3>2, <3>3 DEF Quantities
  <2> QED BY <2>1, <2>2
<1>4. PICK pc \in Steps :
        /\ call' = [call EXCEPT ![c] = [call[c] EXCEPT !.take[r] = 0, !.pc = pc]]
        /\ pc = call[c].pc \/ (pc \in {"closeLine", "closePlan"} /\ Unwritten(c) = {r})
  <2>1. CASE IssueRow(c, r)
    <3> DEFINE pc == IF Unwritten(c) = {r} THEN "closeLine" ELSE call[c].pc
    <3>1. call' = [call EXCEPT ![c] = [call[c] EXCEPT !.take[r] = 0, !.pc = pc]]
      BY <2>1 DEF IssueRow
    <3>2. pc \in Steps /\ (pc = call[c].pc \/ (pc \in {"closeLine", "closePlan"} /\ Unwritten(c) = {r}))
      BY <1>1 DEF CallType, Steps
    <3> HIDE DEF pc
    <3> QED BY <3>1, <3>2
  <2>2. CASE ReserveRow(c, r)
    <3> DEFINE pc == IF call[c].pc = "reserve" /\ Unwritten(c) = {r} THEN "closePlan" ELSE call[c].pc
    <3>1. call' = [call EXCEPT ![c] = [call[c] EXCEPT !.take[r] = 0, !.pc = pc]]
      BY <2>2 DEF ReserveRow
    <3>2. pc \in Steps /\ (pc = call[c].pc \/ (pc \in {"closeLine", "closePlan"} /\ Unwritten(c) = {r}))
      BY <1>1 DEF CallType, Steps
    <3> HIDE DEF pc
    <3> QED BY <3>1, <3>2
  <2> QED BY <2>1, <2>2
<1> DEFINE take == [call[c].take EXCEPT ![r] = 0]
           k == [call[c] EXCEPT !.take[r] = 0, !.pc = pc]
<1>5. take \in [Rows -> Nat] /\ \A x \in Rows : take[x] <= call[c].take[x]
  BY <1>1 DEF CallType
<1>6. /\ k \in CallType /\ k.pc = pc /\ k.order = call[c].order /\ k.was = call[c].was
      /\ k.need = call[c].need /\ k.seen = call[c].seen /\ k.take = take
  <2>1. k = [call[c] EXCEPT !.take = take, !.pc = pc]
    BY <1>1 DEF CallType
  <2> HIDE DEF k, take
  <2> QED BY <1>1, <1>4, <1>5, <2>1 DEF CallType
<1>7. call' = [call EXCEPT ![c] = k]
  BY <1>4
<1> HIDE DEF k
<1>8. TakesFree(k)
  <2> SUFFICES ASSUME pc \in {"reserve", "short"}, NEW x \in Rows PROVE take[x] <= call[c].seen[x].avail
    BY <1>6 DEF TakesFree
  <2>1. call[c].take[x] <= call[c].seen[x].avail
    BY <1>1, <1>4 DEF TakesFree
  <2>2. take[x] \in Nat /\ call[c].take[x] \in Nat /\ call[c].seen[x].avail \in Nat /\ take[x] <= call[c].take[x]
    BY <1>1, <1>5 DEF CallType, Quantities
  <2> QED BY <2>1, <2>2
<1> QED BY <1>3, <1>4, <1>6, <1>7, <1>8

\* The statements of the request c that begin one, end one or look things up.
LEMMA TypedLookups ==
  ASSUME RaceInv, NEW c \in Clerks, NEW o \in Orders,
         \/ StartShipping(c, o) \/ StartPlanning(c, o) \/ Preflight(c) \/ FindInvoice(c)
         \/ CountInvoices(c) \/ ReadAvailable(c) \/ ThrowShort(c) \/ Crash(c)
  PROVE  RaceInv'
<1>1. call[c] \in CallType /\ row \in [Rows -> Quantities] /\ line[o] \in LineState /\ TakesFree(call[c])
  BY DEF RaceInv, TypeOK, CallType
<1>2. ASSUME Return(c), UNCHANGED <<row, line, shipment, status, invoices>> PROVE RaceInv'
  BY <1>2, IdleType, TypedLocal DEF Return
<1>3. CASE StartShipping(c, o)
  <2> DEFINE k == [Idle EXCEPT !.pc = "preflight", !.order = o, !.was = line[o]]
  <2>1. k \in CallType /\ k.pc = "preflight"
    BY <1>1, IdleType DEF CallType, Steps
  <2>2. call' = [call EXCEPT ![c] = k] /\ UNCHANGED <<row, line, shipment, status, invoices>>
    BY <1>3 DEF StartShipping
  <2> HIDE DEF k
  <2> QED BY <2>1, <2>2, TypedLocal DEF TakesFree
<1>4. CASE StartPlanning(c, o)
  <2> DEFINE qty == Lesser(Total([r \in Rows |-> row[r].avail]), Monus(OrderQty[o], line[o].alloc))
             pc == IF line[o].fs \in {"READY", "SHIPPED"} THEN "planStatus"
                   ELSE IF qty > 0 THEN "available" ELSE "closePlan"
             k == [Idle EXCEPT !.pc = pc, !.order = o, !.was = line[o], !.need = qty]
  <2>1. [r \in Rows |-> row[r].avail] \in [Rows -> Nat]
    BY <1>1 DEF Quantities
  <2>2. Total([r \in Rows |-> row[r].avail]) \in Nat
    BY <2>1, TotalsAreNat
  <2>3. Monus(OrderQty[o], line[o].alloc) \in Nat
    BY <1>1, RaceAssumption DEF Monus, LineState
  <2>4. qty \in Nat
    BY <2>2, <2>3 DEF Lesser
  <2>5. pc \in {"planStatus", "available", "closePlan"}
    OBVIOUS
  <2>6. call' = [call EXCEPT ![c] = k] /\ UNCHANGED <<row, line, shipment, status, invoices>>
    BY <1>4, Zenon DEF StartPlanning
  <2> HIDE DEF qty, pc
  <2>7. k \in CallType /\ k.pc = pc
    BY <1>1, <2>4, <2>5, IdleType DEF CallType, Steps
  <2> HIDE DEF k
  <2> QED BY <2>5, <2>6, <2>7, TypedLocal DEF TakesFree
<1>5. CASE Preflight(c)
  <2>1. UNCHANGED <<row, line, shipment, status, invoices>>
    BY <1>5 DEF Preflight
  <2>2. CASE Return(c)
    BY <1>2, <2>1, <2>2
  <2>3. CASE ~Return(c)
    <3>1. PICK k \in CallType : call' = [call EXCEPT ![c] = k] /\ TakesFree(k)
      BY <1>5, <2>3, PreflightTypes
    <3> QED BY <2>1, <3>1, TypedLocal
  <2> QED BY <2>2, <2>3
<1>6. CASE FindInvoice(c)
  <2>1. UNCHANGED <<row, line, shipment, status, invoices>> /\ (Return(c) \/ Goto(c, "count"))
    BY <1>6 DEF FindInvoice
  <2>2. CASE Return(c)
    BY <1>2, <2>1, <2>2
  <2>3. CASE Goto(c, "count")
    <3> DEFINE k == [call[c] EXCEPT !.pc = "count"]
    <3>1. k \in CallType /\ k.pc = "count"
      BY <1>1 DEF CallType, Steps
    <3>2. call' = [call EXCEPT ![c] = k]
      BY <2>3 DEF Goto
    <3> HIDE DEF k
    <3> QED BY <2>1, <3>1, <3>2, TypedLocal DEF TakesFree
  <2> QED BY <2>1, <2>2, <2>3
<1>7. CASE CountInvoices(c)
  <2> DEFINE k == [call[c] EXCEPT !.pc = "invoice", !.need = Total(invoices)]
  <2>1. Total(invoices) \in Nat
    BY TotalsAreNat DEF RaceInv, TypeOK
  <2>2. k \in CallType /\ k.pc = "invoice"
    BY <1>1, <2>1 DEF CallType, Steps
  <2>3. call' = [call EXCEPT ![c] = k] /\ UNCHANGED <<row, line, shipment, status, invoices>>
    BY <1>7 DEF CountInvoices
  <2> HIDE DEF k
  <2> QED BY <2>2, <2>3, TypedLocal DEF TakesFree
<1>8. CASE ReadAvailable(c)
  <2>1. UNCHANGED <<row, line, shipment, status, invoices>>
    BY <1>8 DEF ReadAvailable
  <2>2. PICK k \in CallType : call' = [call EXCEPT ![c] = k] /\ TakesFree(k)
    BY <1>8, ReadTypes
  <2> QED BY <2>1, <2>2, TypedLocal
<1>9. CASE ThrowShort(c)
  BY <1>2, <1>9 DEF ThrowShort
<1>10. CASE Crash(c)
  BY <1>2, <1>10 DEF Crash
<1> QED BY <1>3, <1>4, <1>5, <1>6, <1>7, <1>8, <1>9, <1>10

\* The statements of it that write.
LEMMA TypedWrites ==
  ASSUME RaceInv, NEW c \in Clerks,
         \/ CloseLine(c) \/ CloseShipment(c) \/ CloseOrder(c) \/ CreateInvoice(c)
         \/ ClosePlan(c) \/ ClosePlanning(c) \/ \E r \in Rows : IssueRow(c, r) \/ ReserveRow(c, r)
  PROVE  RaceInv'
<1> DEFINE o == call[c].order
           typed == /\ row' \in [Rows -> Quantities] /\ line' \in [Orders -> LineState]
                    /\ shipment' \in [Orders -> {"PACKED", "SHIPPED"}]
                    /\ status' \in [Orders -> {"OPEN", "PLANNED", "READY_TO_SHIP", "SHIPPED"}]
                    /\ invoices' \in [Orders -> Nat]
<1>1. /\ call[c] \in CallType /\ o \in Orders
      /\ row \in [Rows -> Quantities] /\ line \in [Orders -> LineState]
      /\ shipment \in [Orders -> {"PACKED", "SHIPPED"}]
      /\ status \in [Orders -> {"OPEN", "PLANNED", "READY_TO_SHIP", "SHIPPED"}]
      /\ invoices \in [Orders -> Nat]
  BY DEF RaceInv, TypeOK, CallType
<1>2. ASSUME Return(c), typed PROVE RaceInv'
  <2>1. call' = [call EXCEPT ![c] = Idle]
    BY <1>2 DEF Return
  <2> QED BY <1>2, <2>1, IdleType, TypedStep
<1>3. ASSUME NEW pc \in Steps \ {"reserve", "short"}, Goto(c, pc), typed PROVE RaceInv'
  <2> DEFINE k == [call[c] EXCEPT !.pc = pc]
  <2>1. k \in CallType /\ k.pc = pc
    BY <1>1 DEF CallType
  <2>2. call' = [call EXCEPT ![c] = k]
    BY <1>3 DEF Goto
  <2> HIDE DEF k
  <2>3. TakesFree(k)
    BY <2>1 DEF TakesFree
  <2> QED BY <1>3, <2>1, <2>2, <2>3, TypedStep
<1>4. CASE CloseLine(c)
  <2> DEFINE l == [fs |-> "SHIPPED", alloc |-> line[o].alloc, shipped |-> LineShipped(c)]
  <2>1. LineShipped(c) \in Nat
    BY <1>1 DEF CallType, LineState, LineShipped
  <2>2. l \in LineState
    BY <1>1, <2>1 DEF LineState
  <2>3. line' = [line EXCEPT ![o] = l] /\ Goto(c, "closeShipment") /\ UNCHANGED <<row, shipment, status, invoices>>
    BY <1>4 DEF CloseLine
  <2> HIDE DEF l
  <2> QED BY <1>1, <1>3, <2>2, <2>3 DEF Steps
<1>5. CASE CloseShipment(c)
  BY <1>1, <1>3, <1>5 DEF CloseShipment, Steps
<1>6. CASE CloseOrder(c)
  <2>1. typed /\ (Return(c) \/ Goto(c, "find"))
    BY <1>1, <1>6 DEF CloseOrder
  <2> QED BY <1>2, <1>3, <2>1 DEF Steps
<1>7. CASE CreateInvoice(c)
  <2>1. UNCHANGED invoices \/ invoices' = [invoices EXCEPT ![o] = invoices[o] + 1]
    BY <1>7 DEF CreateInvoice
  <2>2. invoices' \in [Orders -> Nat]
    BY <1>1, <2>1
  <2> QED BY <1>1, <1>2, <1>7, <2>2 DEF CreateInvoice
<1>8. CASE ClosePlan(c)
  <2> DEFINE alloc == call[c].was.alloc + call[c].need
             l == [fs |-> IF alloc >= OrderQty[o] THEN "READY"
                          ELSE IF call[c].need > 0 THEN "PARTIAL" ELSE "OPEN",
                   alloc |-> IF call[c].need > 0 THEN alloc ELSE line[o].alloc,
                   shipped |-> line[o].shipped]
  <2>1. alloc \in Nat
    BY <1>1 DEF CallType, LineState
  <2>2. line' = [line EXCEPT ![o] = l] /\ Goto(c, "planStatus") /\ UNCHANGED <<row, shipment, status, invoices>>
    BY <1>8 DEF ClosePlan
  <2> HIDE DEF alloc
  <2>3. l \in LineState
    BY <1>1, <2>1 DEF LineState
  <2> HIDE DEF l
  <2> QED BY <1>1, <1>3, <2>2, <2>3 DEF Steps
<1>9. CASE ClosePlanning(c)
  <2>1. typed /\ Return(c)
    BY <1>1, <1>9 DEF ClosePlanning
  <2> QED BY <1>2, <2>1
<1>10. ASSUME NEW r \in Rows, IssueRow(c, r) \/ ReserveRow(c, r) PROVE RaceInv'
  <2>1. /\ row' \in [Rows -> Quantities]
        /\ \E k \in CallType : call' = [call EXCEPT ![c] = k] /\ TakesFree(k)
    BY <1>10, RowWriteTypes
  <2>2. UNCHANGED <<line, shipment, status, invoices>>
    BY <1>10 DEF IssueRow, ReserveRow
  <2> QED BY <1>1, <2>1, <2>2, TypedStep
<1> QED BY <1>4, <1>5, <1>6, <1>7, <1>8, <1>9, <1>10

LEMMA RaceInit == Init => RaceInv
<1> SUFFICES ASSUME Init PROVE RaceInv
  OBVIOUS
<1>1. row \in [Rows -> Quantities]
  BY RaceAssumption, BuiltIsBalanced DEF Init
<1>2. Idle.was \in LineState
  BY IdleType DEF CallType
<1>3. TypeOK
  BY <1>1, <1>2, IdleType DEF Init, TypeOK, CallType
<1> QED BY <1>3, IdleType DEF Init, RaceInv

LEMMA RaceStep == RaceInv /\ [Next]_vars => RaceInv'
<1> SUFFICES ASSUME RaceInv, [Next]_vars PROVE RaceInv'
  OBVIOUS
<1>1. CASE UNCHANGED vars
  BY <1>1 DEF vars, RaceInv, TypeOK, TakesFree
<1>2. ASSUME NEW o \in Orders, Repack(o) PROVE RaceInv'
  BY <1>2 DEF Repack, RaceInv, TypeOK, TakesFree
<1>3. PICK o \in Orders : TRUE
  BY RaceAssumption
<1> QED BY <1>1, <1>2, <1>3, TypedLookups, TypedWrites, Zenon DEF Next, Proceed

\* However shipments, plannings and invoicings overlap, and wherever one of them is
\* stopped, no counter of a row, a line or the invoices leaves its type: no row is
\* driven below zero by a request that writes what it computed from a row it read
\* earlier.
THEOREM TypeCorrect == Spec => []TypeOK
<1>1. RaceInv => TypeOK
  BY DEF RaceInv
<1> QED BY <1>1, RaceInit, RaceStep, PTL DEF Spec

-----------------------------------------------------------------------------
(* Where the units are                                                     *)

OnHandNow == SumFunctionOnSet([r \in Rows |-> row[r].onHand], Rows)
ShippedNow == SumFunctionOnSet([o \in Orders |-> line[o].shipped], Orders)

\* The units that a request has taken from rows and not yet recorded as shipped.
Carries(k) ==
  IF k.pc \in {"issue", "closeLine"} THEN k.need - SumFunctionOnSet(k.take, Rows) ELSE 0

\* What a request read and has still to use is what is there.
Current(k, rows, lines) ==
  /\ k.pc \in {"preflight", "issue", "closeLine"} => lines[k.order].shipped = k.was.shipped
  /\ k.pc \in {"issue", "reserve", "short"} =>
       \A r \in Rows : k.take[r] > 0 => rows[r] = k.seen[r]
  /\ k.pc = "issue" => \A r \in Rows : k.take[r] <= Pool(k.seen[r])
  /\ k.pc = "closeLine" => \A r \in Rows : k.take[r] = 0

KeptInv ==
  /\ RaceInv
  /\ UnitsKept
  /\ \A r \in Rows : Balanced(row[r])
  /\ \A c \in Clerks : /\ Current(call[c], row, line)
                       /\ OnHandNow + ShippedNow + Carries(call[c]) = Total(Opening)

\* The sums over all rows and over all orders are whole numbers, and the totals that
\* UnitsKept speaks of.
LEMMA SumsAreNat ==
  ASSUME RaceInv
  PROVE  /\ OnHandNow \in Nat /\ OnHandNow = Total([r \in Rows |-> row[r].onHand])
         /\ ShippedNow \in Nat /\ ShippedNow = Total([o \in Orders |-> line[o].shipped])
         /\ Total(Opening) \in Nat
         /\ \A c \in Clerks : Carries(call[c]) \in Int
<1>1. /\ [r \in Rows |-> row[r].onHand] \in [Rows -> Nat]
      /\ [o \in Orders |-> line[o].shipped] \in [Orders -> Nat]
  BY DEF RaceInv, TypeOK, Quantities, LineState
<1>2. ASSUME NEW c \in Clerks PROVE Carries(call[c]) \in Int
  <2>1. call[c].take \in [Rows -> Nat] /\ call[c].need \in Nat
    BY DEF RaceInv, TypeOK
  <2>2. SumFunctionOnSet(call[c].take, Rows) \in Nat
    BY <2>1, TotalsAreNat
  <2> QED BY <2>1, <2>2 DEF Carries
<1> QED BY <1>1, <1>2, TotalsAreNat, RaceAssumption DEF OnHandNow, ShippedNow

\* A request that is over carries nothing.
LEMMA IdleIsCurrent == Carries(Idle) = 0 /\ \A rows, lines : Current(Idle, rows, lines)
BY DEF Carries, Current, Idle

LEMMA KeptInit == Init => KeptInv
<1> SUFFICES ASSUME Init PROVE KeptInv
  OBVIOUS
<1>1. RaceInv
  BY RaceInit
<1>2. \A r \in Rows : row[r] = Built(Opening[r], FALSE) /\ Opening[r] \in Nat
  BY RaceAssumption DEF Init
<1>3. ASSUME NEW r \in Rows PROVE Balanced(row[r]) /\ row[r].onHand = Opening[r]
  <2>1. Balanced(Built(Opening[r], FALSE))
    BY <1>2, BuiltIsBalanced
  <2> QED BY <1>2, <2>1 DEF Built
<1>4. [r \in Rows |-> row[r].onHand] = Opening
  BY <1>3, RaceAssumption
<1>5. OnHandNow = Total(Opening)
  BY <1>1, <1>4, SumsAreNat
<1>6. ShippedNow = 0
  <2>1. \A o \in Orders : line[o].shipped = 0
    BY DEF Init, Idle
  <2> QED BY <2>1, SumOfZeros, RaceAssumption DEF ShippedNow
<1>7. UnitsKept
  BY <1>1, <1>3, <1>5, <1>6, SumsAreNat DEF UnitsKept
<1>8. \A c \in Clerks : call[c] = Idle
  BY DEF Init
<1>9. \A c \in Clerks : Current(call[c], row, line) /\ Carries(call[c]) = 0
  BY <1>8, IdleIsCurrent
<1> QED BY <1>1, <1>3, <1>5, <1>6, <1>7, <1>9, SumsAreNat DEF KeptInv

\* A step of the only request that moves units between the rows, its hands and the lines.
LEMMA KeptMove ==
  ASSUME OneAtATime, KeptInv, RaceInv', NEW c \in Clerks, NEW k, call' = [call EXCEPT ![c] = k],
         \A r \in Rows : Balanced(row'[r]),
         Current(k, row', line'),
         OnHandNow' + ShippedNow' + Carries(k) = OnHandNow + ShippedNow + Carries(call[c])
  PROVE  KeptInv'
<1>1. DOMAIN call = Clerks
  BY DEF KeptInv, RaceInv, TypeOK
<1>2. \A d \in Clerks : d = c /\ call'[d] = k
  BY <1>1 DEF OneAtATime
<1>3. OnHandNow' + ShippedNow' + Carries(k) = Total(Opening)
  BY DEF KeptInv
<1>4. UnitsKept'
  <2> SUFFICES ASSUME AllIdle'
               PROVE  /\ Total([r \in Rows |-> row'[r].onHand])
                           + Total([o \in Orders |-> line'[o].shipped]) = Total(Opening)
                      /\ \A r \in Rows : Balanced(row'[r])
    BY DEF UnitsKept
  <2>1. Carries(k) = 0
    BY <1>2 DEF AllIdle, At, Carries
  <2>2. /\ OnHandNow' \in Nat /\ OnHandNow' = Total([r \in Rows |-> row'[r].onHand])
        /\ ShippedNow' \in Nat /\ ShippedNow' = Total([o \in Orders |-> line'[o].shipped])
    <3>1. /\ [r \in Rows |-> row'[r].onHand] \in [Rows -> Nat]
          /\ [o \in Orders |-> line'[o].shipped] \in [Orders -> Nat]
      BY DEF RaceInv, TypeOK, Quantities, LineState
    <3> QED BY <3>1, TotalsAreNat DEF OnHandNow, ShippedNow
  <2> QED BY <1>3, <2>1, <2>2
<1>5. \A d \in Clerks : Current(call'[d], row', line') /\ OnHandNow' + ShippedNow' + Carries(call'[d]) = Total(Opening)
  BY <1>2, <1>3
<1> QED BY <1>4, <1>5 DEF KeptInv, Current, Carries, Balanced

\* A step of it that moves none.
LEMMA KeptLocal ==
  ASSUME OneAtATime, KeptInv, RaceInv', NEW c \in Clerks, NEW k, call' = [call EXCEPT ![c] = k],
         UNCHANGED row, \A o \in Orders : line'[o].shipped = line[o].shipped,
         Current(k, row, line'), Carries(k) = Carries(call[c])
  PROVE  KeptInv'
<1>1. OnHandNow' = OnHandNow
  BY DEF OnHandNow
<1>2. ShippedNow' = ShippedNow
  <2>1. [o \in Orders |-> line'[o].shipped] = [o \in Orders |-> line[o].shipped]
    OBVIOUS
  <2> QED BY <2>1 DEF ShippedNow
<1>3. \A r \in Rows : Balanced(row'[r])
  BY DEF KeptInv
<1> QED BY <1>1, <1>2, <1>3, KeptMove

\* The end of a request that carries nothing.
LEMMA KeptReturn ==
  ASSUME OneAtATime, KeptInv, RaceInv', NEW c \in Clerks, Return(c),
         UNCHANGED row, \A o \in Orders : line'[o].shipped = line[o].shipped,
         call[c].pc \notin {"issue", "closeLine"}
  PROVE  KeptInv'
<1>1. Carries(call[c]) = 0
  BY DEF Carries
<1> QED BY <1>1, IdleIsCurrent, KeptLocal DEF Return

\* The statements of the only request that begin it or look things up.
LEMMA KeptLookups ==
  ASSUME OneAtATime, KeptInv, RaceInv', NEW c \in Clerks, NEW o \in Orders,
         \/ StartShipping(c, o) \/ StartPlanning(c, o) \/ Preflight(c) \/ FindInvoice(c)
         \/ CountInvoices(c) \/ ReadAvailable(c) \/ ThrowShort(c)
  PROVE  KeptInv'
<1>1. call[c] \in CallType /\ RaceInv /\ Current(call[c], row, line)
  BY DEF KeptInv, RaceInv, TypeOK, CallType
<1>2. UNCHANGED <<row, line>>
  BY DEF StartShipping, StartPlanning, Preflight, FindInvoice, CountInvoices, ReadAvailable, ThrowShort
<1>3. CASE StartShipping(c, o)
  <2> DEFINE k == [Idle EXCEPT !.pc = "preflight", !.order = o, !.was = line[o]]
  <2>1. call' = [call EXCEPT ![c] = k] /\ call[c].pc = "idle"
    BY <1>3 DEF StartShipping, At
  <2>2. k.pc = "preflight" /\ k.order = o /\ k.was = line[o]
    BY DEF Idle
  <2> HIDE DEF k
  <2>3. Current(k, row, line) /\ Carries(k) = 0 /\ Carries(call[c]) = 0
    BY <2>1, <2>2 DEF Current, Carries
  <2> QED BY <1>2, <2>1, <2>3, KeptLocal
<1>4. CASE StartPlanning(c, o)
  <2>1. PICK k, pc, need :
          /\ call' = [call EXCEPT ![c] = k] /\ Holds(k, pc, o, line[o], need)
          /\ pc \in {"planStatus", "available", "closePlan"}
    BY <1>4, PlanningStarts
  <2>2. Current(k, row, line) /\ Carries(k) = 0 /\ Carries(call[c]) = 0
    BY <1>4, <2>1 DEF Current, Carries, Holds, StartPlanning, At
  <2> QED BY <1>2, <2>1, <2>2, KeptLocal
<1>5. CASE Preflight(c)
  <2>1. call[c].pc = "preflight"
    BY <1>5 DEF Preflight, At
  <2>2. CASE Return(c)
    BY <1>2, <2>1, <2>2, KeptReturn
  <2>3. CASE ~Return(c)
    <3>1. PICK k \in CallType :
            /\ call' = [call EXCEPT ![c] = k] /\ TakesFree(k) /\ k.pc \in {"closeShipment", "issue"}
            /\ k.order = call[c].order /\ k.was = call[c].was /\ k.seen = row
            /\ k.need = Monus(OrderQty[k.order], k.was.shipped)
            /\ SumFunctionOnSet(k.take, Rows) = k.need
            /\ \A r \in Rows : k.take[r] <= Pool(row[r])
      BY <1>1, <1>5, <2>3, PreflightTypes
    <3>2. k.need \in Nat
      BY <3>1 DEF CallType
    <3>3. Carries(k) = 0 /\ Carries(call[c]) = 0
      BY <2>1, <3>1, <3>2 DEF Carries
    <3>4. Current(k, row, line)
      BY <1>1, <2>1, <3>1 DEF Current
    <3> QED BY <1>2, <3>1, <3>3, <3>4, KeptLocal
  <2> QED BY <2>2, <2>3
<1>6. CASE FindInvoice(c)
  <2>1. call[c].pc = "find" /\ (Return(c) \/ Goto(c, "count"))
    BY <1>6 DEF FindInvoice, At
  <2>2. CASE Return(c)
    BY <1>2, <2>1, <2>2, KeptReturn
  <2>3. CASE Goto(c, "count")
    <3> DEFINE k == [call[c] EXCEPT !.pc = "count"]
    <3>1. call' = [call EXCEPT ![c] = k]
      BY <2>3 DEF Goto
    <3>2. k.pc = "count"
      BY <1>1 DEF CallType
    <3> HIDE DEF k
    <3>3. Current(k, row, line) /\ Carries(k) = 0 /\ Carries(call[c]) = 0
      BY <2>1, <3>2 DEF Current, Carries
    <3> QED BY <1>2, <3>1, <3>3, KeptLocal
  <2> QED BY <2>1, <2>2, <2>3
<1>7. CASE CountInvoices(c)
  <2> DEFINE k == [call[c] EXCEPT !.pc = "invoice", !.need = Total(invoices)]
  <2>1. call' = [call EXCEPT ![c] = k] /\ call[c].pc = "count"
    BY <1>7 DEF CountInvoices, At
  <2>2. k.pc = "invoice"
    BY <1>1 DEF CallType
  <2> HIDE DEF k
  <2>3. Current(k, row, line) /\ Carries(k) = 0 /\ Carries(call[c]) = 0
    BY <2>1, <2>2 DEF Current, Carries
  <2> QED BY <1>2, <2>1, <2>3, KeptLocal
<1>8. CASE ReadAvailable(c)
  <2>1. PICK k \in CallType :
          /\ call' = [call EXCEPT ![c] = k] /\ TakesFree(k) /\ k.pc \in {"reserve", "short"}
          /\ k.order = call[c].order /\ k.was = call[c].was /\ k.seen = row
          /\ \A r \in Rows : k.take[r] <= row[r].avail
    BY <1>1, <1>8, ReadTypes
  <2>2. call[c].pc = "available"
    BY <1>8 DEF ReadAvailable, At
  <2>3. Current(k, row, line) /\ Carries(k) = 0 /\ Carries(call[c]) = 0
    BY <2>1, <2>2 DEF Current, Carries
  <2> QED BY <1>2, <2>1, <2>3, KeptLocal
<1>9. CASE ThrowShort(c)
  BY <1>2, <1>9, KeptReturn DEF ThrowShort, At
<1> QED BY <1>3, <1>4, <1>5, <1>6, <1>7, <1>8, <1>9

\* A row that the only request writes is as it read it, so that no unit of it is lost: what
\* leaves the row is in its hands.
LEMMA KeptRow ==
  ASSUME OneAtATime, KeptInv, RaceInv', NEW c \in Clerks, NEW r \in Rows, IssueRow(c, r) \/ ReserveRow(c, r)
  PROVE  KeptInv'
<1> DEFINE q == row[r]
           n == call[c].take[r]
           before == [x \in Rows |-> row[x].onHand]
           after == [x \in Rows |-> row'[x].onHand]
<1>1. /\ call[c] \in CallType /\ RaceInv /\ Current(call[c], row, line) /\ TakesFree(call[c])
      /\ row \in [Rows -> Quantities] /\ row' \in [Rows -> Quantities]
      /\ \A x \in Rows : Balanced(row[x])
  BY DEF KeptInv, RaceInv, TypeOK, CallType
<1>2. PICK k \in CallType :
        /\ call' = [call EXCEPT ![c] = k] /\ TakesFree(k)
        /\ k.pc = call[c].pc \/ (k.pc \in {"closeLine", "closePlan"} /\ Unwritten(c) = {r})
        /\ k.order = call[c].order /\ k.was = call[c].was /\ k.need = call[c].need
        /\ k.seen = call[c].seen /\ k.take = [call[c].take EXCEPT ![r] = 0]
  BY <1>1, RowWriteTypes, Zenon
<1>3. /\ call[c].pc \in {"issue", "reserve", "short"} /\ UNCHANGED line
      /\ k.pc \in {call[c].pc, "closePlan", "closeLine"}
      /\ q = call[c].seen[r] /\ n > 0 /\ q \in Quantities /\ n \in Nat
  BY <1>1, <1>2 DEF IssueRow, ReserveRow, At, Unwritten, Current, CallType
<1>4. /\ k.take \in [Rows -> Nat] /\ call[c].take \in [Rows -> Nat]
      /\ k.take[r] = 0 /\ \A x \in Rows : x # r => k.take[x] = call[c].take[x]
  BY <1>1, <1>2 DEF CallType
<1>5. \A x \in Rows : k.take[x] <= call[c].take[x]
  BY <1>4
<1>6. k.pc \in {"closeLine", "closePlan"} /\ call[c].pc # k.pc => \A x \in Rows : k.take[x] = 0
  BY <1>2, <1>3, <1>4 DEF Unwritten
<1>7. SumFunctionOnSet(k.take, Rows) = SumFunctionOnSet(call[c].take, Rows) - n
  <2>1. SumFunctionOnSet(k.take, Rows) = SumFunctionOnSet(call[c].take, Rows) + k.take[r] - call[c].take[r]
    BY <1>4, SumChanged, RaceAssumption
  <2>2. SumFunctionOnSet(call[c].take, Rows) \in Nat
    BY <1>4, TotalsAreNat
  <2> QED BY <1>3, <1>4, <2>1, <2>2
<1>8. SumFunctionOnSet(call[c].take, Rows) \in Nat /\ k.need \in Nat /\ OnHandNow \in Nat /\ ShippedNow \in Nat
  BY <1>1, <1>2, <1>4, TotalsAreNat, SumsAreNat DEF CallType
<1>9. ShippedNow' = ShippedNow
  BY <1>3 DEF ShippedNow
<1>10. /\ \A x \in Rows : before[x] \in Int /\ after[x] \in Int
       /\ OnHandNow = SumFunctionOnSet(before, Rows) /\ OnHandNow' = SumFunctionOnSet(after, Rows)
  BY <1>1 DEF Quantities, OnHandNow
<1>11. CASE IssueRow(c, r)
  <2>1. row' = [row EXCEPT ![r] = IssueCommitted(q, n)] /\ call[c].pc = "issue"
    BY <1>3, <1>11 DEF IssueRow, Written, At
  <2>2. n <= Pool(q)
    BY <1>1, <1>3, <2>1 DEF Current
  <2>3. Balanced(IssueCommitted(q, n)) /\ IssueCommitted(q, n).onHand = q.onHand - n
    BY <1>1, <1>3, <2>2, IssueKeeps
  <2>4. row'[r] = IssueCommitted(q, n) /\ \A x \in Rows : x # r => row'[x] = row[x]
    BY <1>1, <2>1
  <2>5. \A x \in Rows : Balanced(row'[x])
    BY <1>1, <2>3, <2>4
  <2>6. before[r] = q.onHand /\ after[r] = q.onHand - n /\ q.onHand \in Nat
    BY <1>3, <2>3, <2>4 DEF Quantities
  <2>7. \A x \in Rows : x # r => after[x] = before[x]
    BY <2>4
  <2> HIDE DEF before, after
  <2>8. OnHandNow' = OnHandNow + after[r] - before[r]
    BY <1>10, <2>7, SumChanged, RaceAssumption
  <2>9. k.pc \in {"issue", "closeLine"} /\ (k.pc = "closeLine" => \A x \in Rows : k.take[x] = 0)
    <3>1. DOMAIN call = Clerks /\ k.pc = call'[c].pc
      BY <1>1, <1>2 DEF RaceInv, TypeOK
    <3>2. call'[c].pc = IF Unwritten(c) = {r} THEN "closeLine" ELSE call[c].pc
      BY <1>1, <1>11, <3>1 DEF IssueRow, CallType
    <3> QED BY <1>6, <2>1, <3>1, <3>2
  <2>10. Carries(k) = Carries(call[c]) + n
    <3>1. /\ Carries(k) = k.need - SumFunctionOnSet(k.take, Rows)
          /\ Carries(call[c]) = k.need - SumFunctionOnSet(call[c].take, Rows)
      BY <1>2, <2>1, <2>9 DEF Carries
    <3> QED BY <1>3, <1>7, <1>8, <3>1
  <2>11. OnHandNow' + ShippedNow' + Carries(k) = OnHandNow + ShippedNow + Carries(call[c])
    <3>1. Carries(call[c]) \in Int
      BY <1>1, SumsAreNat
    <3> QED BY <1>3, <1>8, <1>9, <2>6, <2>8, <2>10, <3>1
  <2>12. Current(k, row', line')
    <3>1. \A x \in Rows : k.take[x] > 0 => row'[x] = k.seen[x]
      BY <1>1, <1>2, <1>4, <2>1, <2>4 DEF Current
    <3>2. \A x \in Rows : k.take[x] <= Pool(k.seen[x])
      <4> TAKE x \in Rows
      <4>1. k.seen[x] \in Quantities /\ call[c].take[x] <= Pool(k.seen[x]) /\ k.take[x] <= call[c].take[x]
        BY <1>1, <1>2, <1>5, <2>1 DEF Current, CallType
      <4>2. Pool(k.seen[x]) \in Nat /\ k.take[x] \in Nat /\ call[c].take[x] \in Nat
        BY <1>4, <4>1, PoolBounds
      <4> QED BY <4>1, <4>2
    <3>3. line'[k.order].shipped = k.was.shipped
      BY <1>1, <1>2, <1>3, <2>1 DEF Current
    <3> QED BY <2>9, <3>1, <3>2, <3>3 DEF Current
  <2> QED BY <1>2, <2>5, <2>11, <2>12, KeptMove
<1>12. CASE ReserveRow(c, r)
  <2>1. /\ row' = [row EXCEPT ![r].avail = Reserve(q, n).avail, ![r].commit = Reserve(q, n).commit]
        /\ call[c].pc \in {"reserve", "short"}
    BY <1>3, <1>12 DEF ReserveRow
  <2>2. n <= q.avail
    BY <1>1, <1>3, <2>1 DEF TakesFree
  <2>3. Balanced(Reserve(q, n)) /\ Reserve(q, n).onHand = q.onHand
    BY <1>1, <1>3, <2>2, ReserveKeeps
  <2>4. /\ row'[r] = [q EXCEPT !.avail = Reserve(q, n).avail, !.commit = Reserve(q, n).commit]
        /\ \A x \in Rows : x # r => row'[x] = row[x]
    BY <1>1, <2>1
  <2>5. row'[r].onHand = q.onHand /\ Balanced(row'[r])
    BY <1>3, <2>3, <2>4 DEF Quantities, Balanced
  <2>6. \A x \in Rows : Balanced(row'[x]) /\ row'[x].onHand = row[x].onHand
    BY <1>1, <2>4, <2>5
  <2>7. OnHandNow' = OnHandNow
    <3>1. after = before
      BY <2>6
    <3> HIDE DEF before, after
    <3> QED BY <1>10, <3>1
  <2>8. k.pc \in {"reserve", "short", "closePlan"}
    <3>1. DOMAIN call = Clerks /\ k.pc = call'[c].pc
      BY <1>1, <1>2 DEF RaceInv, TypeOK
    <3>2. call'[c].pc = IF call[c].pc = "reserve" /\ Unwritten(c) = {r} THEN "closePlan" ELSE call[c].pc
      BY <1>1, <1>12, <3>1 DEF ReserveRow, CallType
    <3> QED BY <2>1, <3>1, <3>2
  <2>9. Carries(k) = 0 /\ Carries(call[c]) = 0
    BY <2>1, <2>8 DEF Carries
  <2>10. Current(k, row', line')
    <3>1. \A x \in Rows : k.take[x] > 0 => row'[x] = k.seen[x]
      BY <1>1, <1>2, <1>4, <2>1, <2>4 DEF Current
    <3> QED BY <2>8, <3>1 DEF Current
  <2> QED BY <1>2, <1>8, <1>9, <2>6, <2>7, <2>9, <2>10, KeptMove
<1> QED BY <1>11, <1>12

\* The other statements of it that write.
LEMMA KeptWrites ==
  ASSUME OneAtATime, KeptInv, RaceInv', NEW c \in Clerks,
         \/ CloseLine(c) \/ CloseShipment(c) \/ CloseOrder(c) \/ CreateInvoice(c)
         \/ ClosePlan(c) \/ ClosePlanning(c)
  PROVE  KeptInv'
<1> DEFINE o == call[c].order
<1>1. /\ call[c] \in CallType /\ RaceInv /\ Current(call[c], row, line) /\ o \in Orders
      /\ line \in [Orders -> LineState] /\ line' \in [Orders -> LineState]
      /\ \A r \in Rows : Balanced(row[r])
  BY DEF KeptInv, RaceInv, TypeOK, CallType
<1>2. ASSUME NEW pc \in {"closeShipment", "closeOrder", "find", "planStatus"}, Goto(c, pc)
      PROVE  \E k \in CallType : /\ call' = [call EXCEPT ![c] = k] /\ k.pc = pc
                                 /\ Carries(k) = 0 /\ Current(k, row', line')
  <2> DEFINE k == [call[c] EXCEPT !.pc = pc]
  <2>1. k \in CallType /\ k.pc = pc
    BY <1>1 DEF CallType, Steps
  <2>2. call' = [call EXCEPT ![c] = k]
    BY <1>2 DEF Goto
  <2> HIDE DEF k
  <2>3. Carries(k) = 0 /\ Current(k, row', line')
    BY <2>1 DEF Carries, Current
  <2> QED BY <2>1, <2>2, <2>3
<1>3. ASSUME NEW pc \in {"closeShipment", "closeOrder", "find", "planStatus"}, Goto(c, pc),
             UNCHANGED row, \A p \in Orders : line'[p].shipped = line[p].shipped,
             call[c].pc \notin {"issue", "closeLine"}
      PROVE  KeptInv'
  <2>1. Carries(call[c]) = 0
    BY <1>3 DEF Carries
  <2>2. PICK k \in CallType : /\ call' = [call EXCEPT ![c] = k] /\ k.pc = pc
                              /\ Carries(k) = 0 /\ Current(k, row', line')
    BY <1>2, <1>3
  <2>3. Current(k, row, line')
    BY <1>3, <2>2
  <2> QED BY <1>3, <2>1, <2>2, <2>3, KeptLocal
<1>4. CASE CloseLine(c)
  <2> DEFINE before == [p \in Orders |-> line[p].shipped]
             after == [p \in Orders |-> line'[p].shipped]
  <2>1. /\ call[c].pc = "closeLine" /\ UNCHANGED row /\ Goto(c, "closeShipment")
        /\ line' = [line EXCEPT ![o] = [fs |-> "SHIPPED", alloc |-> line[o].alloc, shipped |-> LineShipped(c)]]
    BY <1>4 DEF CloseLine, At
  <2>2. PICK k \in CallType : /\ call' = [call EXCEPT ![c] = k] /\ k.pc = "closeShipment"
                              /\ Carries(k) = 0 /\ Current(k, row', line')
    BY <1>2, <2>1
  <2>3. /\ line[o].shipped = call[c].was.shipped /\ call[c].was.shipped \in Nat /\ call[c].need \in Nat
        /\ \A r \in Rows : call[c].take[r] = 0
    BY <1>1, <2>1 DEF Current, CallType, LineState
  <2>4. Carries(call[c]) = call[c].need
    <3>1. SumFunctionOnSet(call[c].take, Rows) = 0
      BY <2>3, SumOfZeros, RaceAssumption
    <3> QED BY <2>1, <2>3, <3>1 DEF Carries
  <2>5. /\ \A p \in Orders : before[p] \in Int /\ after[p] \in Int
        /\ ShippedNow = SumFunctionOnSet(before, Orders) /\ ShippedNow' = SumFunctionOnSet(after, Orders)
    BY <1>1 DEF LineState, ShippedNow
  <2>6. /\ before[o] = call[c].was.shipped /\ after[o] = call[c].was.shipped + call[c].need
        /\ \A p \in Orders : p # o => after[p] = before[p]
    BY <1>1, <2>1, <2>3 DEF LineShipped
  <2> HIDE DEF before, after
  <2>7. ShippedNow' = ShippedNow + after[o] - before[o]
    BY <1>1, <2>5, <2>6, SumChanged, RaceAssumption
  <2>8. OnHandNow' = OnHandNow /\ OnHandNow \in Nat /\ ShippedNow \in Nat
    BY <1>1, <2>1, SumsAreNat DEF OnHandNow
  <2>9. OnHandNow' + ShippedNow' + Carries(k) = OnHandNow + ShippedNow + Carries(call[c])
    BY <2>2, <2>3, <2>4, <2>6, <2>7, <2>8
  <2>10. \A r \in Rows : Balanced(row'[r])
    BY <1>1, <2>1
  <2> QED BY <2>2, <2>9, <2>10, KeptMove
<1>5. CASE CloseShipment(c)
  BY <1>3, <1>5 DEF CloseShipment, At
<1>6. CASE CloseOrder(c)
  <2>1. /\ call[c].pc = "closeOrder" /\ UNCHANGED <<row, line>>
        /\ Return(c) \/ Goto(c, "find")
    BY <1>6 DEF CloseOrder, At
  <2> QED BY <1>3, <2>1, KeptReturn
<1>7. CASE CreateInvoice(c)
  BY <1>7, KeptReturn DEF CreateInvoice, At
<1>8. CASE ClosePlan(c)
  <2> DEFINE l == [fs |-> IF call[c].was.alloc + call[c].need >= OrderQty[o] THEN "READY"
                          ELSE IF call[c].need > 0 THEN "PARTIAL" ELSE "OPEN",
                   alloc |-> IF call[c].need > 0 THEN call[c].was.alloc + call[c].need ELSE line[o].alloc,
                   shipped |-> line[o].shipped]
  <2>1. /\ call[c].pc = "closePlan" /\ UNCHANGED row /\ Goto(c, "planStatus")
        /\ line' = [line EXCEPT ![o] = l]
    BY <1>8 DEF ClosePlan, At
  <2>2. l.shipped = line[o].shipped
    OBVIOUS
  <2> HIDE DEF l
  <2>3. \A p \in Orders : line'[p].shipped = line[p].shipped
    BY <1>1, <2>1, <2>2
  <2> QED BY <1>3, <2>1, <2>3
<1>9. CASE ClosePlanning(c)
  BY <1>9, KeptReturn DEF ClosePlanning, At
<1> QED BY <1>4, <1>5, <1>6, <1>7, <1>8, <1>9

LEMMA KeptStep == OneAtATime /\ ~Crashes /\ KeptInv /\ [Next]_vars => KeptInv'
<1> SUFFICES ASSUME OneAtATime, ~Crashes, KeptInv, [Next]_vars PROVE KeptInv'
  OBVIOUS
<1>0. RaceInv'
  BY RaceStep DEF KeptInv
<1>1. ASSUME UNCHANGED <<row, line, call>> PROVE KeptInv'
  BY <1>0, <1>1 DEF KeptInv, UnitsKept, AllIdle, At, Balanced, Current, Carries, OnHandNow, ShippedNow
<1>2. CASE UNCHANGED vars
  BY <1>1, <1>2 DEF vars
<1>3. ASSUME NEW o \in Orders, Repack(o) PROVE KeptInv'
  BY <1>1, <1>3 DEF Repack
<1>4. \A c \in Clerks : ~Crash(c)
  BY DEF Crash
<1>5. PICK o \in Orders : TRUE
  BY RaceAssumption
<1> QED BY <1>0, <1>2, <1>3, <1>4, <1>5, KeptLookups, KeptRow, KeptWrites, Zenon DEF Next, Proceed

\* As long as requests come one after the other and none is stopped half-way, shipping
\* and planning lose no unit of stock: between two requests every unit there was at the
\* start is on a row or recorded as shipped, and every unit on a row is free or
\* committed.
THEOREM UnitsKeptAlone ==
  ASSUME OneAtATime, ~Crashes
  PROVE  Spec => []UnitsKept
<1>1. KeptInv => UnitsKept
  BY DEF KeptInv
<1>2. KeptInv /\ [Next]_vars => KeptInv'
  BY KeptStep
<1> QED BY <1>1, <1>2, KeptInit, PTL DEF Spec
=============================================================================
