------------------------------ MODULE Purchasing ------------------------------
(***************************************************************************)
(* From a purchase request to an order, and the amendments of the order    *)
(* (pr-approval.ts, pr-buyer.ts, po-amend.ts, actionConvertPrToPo).        *)
(*                                                                         *)
(* One purchase request, its chain of approval rows, and the order it      *)
(* becomes.  No handler runs in a transaction: a decision reads the row it *)
(* is about, writes the row and then writes the request, and other         *)
(* requests run between those steps or the request stops there.            *)
(***************************************************************************)
EXTENDS Integers, FiniteSets

CONSTANTS
  N,             \* length of the approval pipeline
  Routing,       \* [1 .. N -> Routings], the routing key of each step
  MinAmount,     \* [1 .. N -> Nat], the threshold of each step
  Amounts,       \* amounts that a request or an order can come to
  People, Admins, Requester, Owner, Director, Buyers, Finance,
  Requests,      \* requests that may run at the same time
  Converters,    \* SUBSET Requests: those that turn the request into an order
  AmendOverlaps, \* may a decision on an amendment, or a receipt, overlap another?
  NoOne          \* null value

Steps == 1 .. N
Routings == {"REQUEST_CONFIRM", "BUYER_PACKAGE", "PURCHASE_APPROVAL",
             "CHARGE_ESCALATION", "ROLE"}

ASSUME PurchasingAssumption ==
  /\ N \in Nat \ {0}
  /\ Routing \in [Steps -> Routings]
  /\ MinAmount \in [Steps -> Nat]
  \* the order of DEFAULT_PIPELINE_STEPS
  /\ \A s \in Steps : /\ Routing[s] = "REQUEST_CONFIRM" <=> s = 1
                      /\ Routing[s] = "BUYER_PACKAGE" => s = 2
  /\ Amounts \subseteq Nat /\ Amounts # {}
  /\ {Requester, Owner, Director} \subseteq People
  /\ Admins \cup Buyers \cup Finance \subseteq People
  /\ Converters \subseteq Requests
  /\ AmendOverlaps \in BOOLEAN
  /\ NoOne \notin People

VARIABLES
  pr,       \* status of the purchase request
  estimate, \* PurchaseRequest.totalEstimate
  packaged, \* has the buyer confirmed prices or attached a quote?
  rows,     \* [Steps -> status of the approval row], "NONE" where there is none
  by,       \* [Steps -> who decided the row]
  cur,      \* PurchaseRequest.currentStepOrder, whose 0 is step 1
  orders,   \* number of purchase orders made from the request
  po,       \* status of the latest of them, "NONE" before
  total,    \* its total amount
  amend,    \* [Steps -> status of the approval row of its last amendment]
  call      \* [Requests -> what a running request has read]

vars == <<pr, estimate, packaged, rows, by, cur, orders, po, total, amend, call>>
chain == <<rows, by, cur>>
order == <<orders, po, total, amend>>

Marks == {"NONE", "PENDING", "APPROVED", "REJECTED"}
Decisions == {"APPROVED", "REJECTED"}
Idle == [op |-> "idle", step |-> 1, what |-> "APPROVED", who |-> NoOne,
         next |-> 0, amount |-> 0]
Calls == [op : {"idle", "row", "decided", "confirm", "confirmed", "create", "mark",
                "amended", "receipt"},
          step : Steps, what : Decisions, who : People \cup {NoOne},
          next : 0 .. N, amount : Amounts \cup {0}]

TypeOK ==
  /\ pr \in {"DRAFT", "SUBMITTED", "APPROVED", "REJECTED", "CONVERTED"}
  /\ estimate \in Amounts
  /\ packaged \in BOOLEAN
  /\ rows \in [Steps -> Marks]
  /\ by \in [Steps -> People \cup {NoOne}]
  /\ cur \in Steps
  /\ orders \in Nat
  /\ po \in {"NONE", "ISSUED", "ACKNOWLEDGED", "PARTIAL_RECEIPT", "RECEIVED", "CLOSED",
             "PENDING_REAPPROVAL"}
  /\ total \in Amounts \cup {0}
  /\ amend \in [Steps -> Marks]
  /\ call \in [Requests -> Calls]

Init ==
  /\ pr = "DRAFT"
  /\ estimate \in Amounts
  /\ packaged = FALSE
  /\ rows = [s \in Steps |-> "NONE"]
  /\ by = [s \in Steps |-> NoOne]
  /\ cur = 1
  /\ orders = 0 /\ po = "NONE" /\ total = 0
  /\ amend = [s \in Steps |-> "NONE"]
  /\ call = [c \in Requests |-> Idle]

Pending(r) == {s \in Steps : r[s] = "PENDING"}
IsFirst(s, S) == s \in S /\ \A t \in S : s <= t
After(s, S) == {t \in S : t > s}

-----------------------------------------------------------------------------
(* The chain                                                               *)

Core == {"REQUEST_CONFIRM", "BUYER_PACKAGE", "PURCHASE_APPROVAL"}

\* Threshold steps run when the amount of the day of submission crosses them, and an
\* escalation to the charge owner is left out.
Applies(s, amount) ==
  \/ Routing[s] \in Core
  \/ amount >= MinAmount[s] /\ ~(Routing[s] = "CHARGE_ESCALATION" /\ Director = Owner)

StartWorkflow ==
  /\ rows' = [s \in Steps |-> IF Applies(s, estimate) THEN "PENDING" ELSE "NONE"]
  /\ by' = [s \in Steps |-> NoOne]
  /\ cur' = 1

\* (Mutant: the step number is cleared to what stands for no step.)
ClearedToNone == 0
Cleared == 1

\* The status is written before the rows: the request may stop between the two.
Submit ==
  /\ pr = "DRAFT"
  /\ pr' = "SUBMITTED"
  /\ StartWorkflow \/ UNCHANGED chain
  /\ UNCHANGED <<estimate, packaged, order, call>>

\* A decision on a request without rows starts the chain.
StartLate ==
  /\ pr = "SUBMITTED" /\ \A s \in Steps : rows[s] = "NONE"
  /\ StartWorkflow
  /\ UNCHANGED <<pr, estimate, packaged, order, call>>

MayDecide(s, u) ==
  \/ u \in Admins
  \/ Routing[s] \in {"REQUEST_CONFIRM", "PURCHASE_APPROVAL"} /\ u = Owner
  \/ Routing[s] = "BUYER_PACKAGE" /\ u \in Buyers
  \/ Routing[s] = "CHARGE_ESCALATION" /\ u = Director
  \/ Routing[s] = "ROLE" /\ u \in Finance

\* The request's own step if it is open, or else the first one that is.  (Mutant: any
\* step that the person may decide.)
CurrentAny(s) == s \in Pending(rows)
Current(s) ==
  IF rows[cur] = "PENDING" THEN s = cur ELSE IsFirst(s, Pending(rows))

\* decidePrApproval up to its first write.
ReadDecision(c, u, s, d) ==
  /\ call[c].op = "idle"
  /\ pr = "SUBMITTED"
  /\ Current(s) /\ MayDecide(s, u)
  /\ d = "APPROVED" =>
       /\ u = Requester => u \in Admins
       /\ Routing[s] = "BUYER_PACKAGE" => packaged
  /\ call' = [call EXCEPT ![c] = [op |-> "row", step |-> s, what |-> d, who |-> u,
                                  next |-> 0, amount |-> 0]]
  /\ UNCHANGED <<pr, estimate, packaged, chain, order>>

\* confirmBuyerPackageStep up to its first write; what comes next is looked up here.
\* A package that is already confirmed has the request moved on to what is open.
ReadConfirm(c, u, s) ==
  LET later == After(s, Pending(rows)) IN
  /\ call[c].op = "idle"
  /\ pr = "SUBMITTED" /\ packaged
  /\ u \in Buyers \cup Admins
  /\ Routing[s] = "BUYER_PACKAGE"
  /\ \A t \in Steps : Routing[t] = "REQUEST_CONFIRM" => rows[t] # "PENDING"
  /\ \/ /\ rows[s] = "PENDING"
        /\ \E n \in 0 .. N :
             /\ IF later = {} THEN n = 0 ELSE IsFirst(n, later)
             /\ call' = [call EXCEPT ![c] = [op |-> "confirm", step |-> s,
                           what |-> "APPROVED", who |-> u, next |-> n, amount |-> 0]]
        /\ UNCHANGED cur
     \/ /\ rows[s] = "APPROVED"
        /\ IF later = {} THEN UNCHANGED cur ELSE IsFirst(cur', later)
        /\ UNCHANGED call
  /\ UNCHANGED <<pr, estimate, packaged, rows, by, order>>

WriteRow(c) ==
  /\ call[c].op \in {"row", "confirm"}
  /\ rows' = [rows EXCEPT ![call[c].step] = call[c].what]
  /\ by' = [by EXCEPT ![call[c].step] = call[c].who]
  /\ call' = [call EXCEPT ![c].op = IF @ = "row" THEN "decided" ELSE "confirmed"]
  /\ UNCHANGED <<pr, estimate, packaged, cur, order>>

\* What is left to decide after step s.
Later(s) == After(s, Pending(rows))

\* decidePrApproval writes what follows from the row.
WriteDecision(c) ==
  LET k == call[c] IN
  /\ k.op = "decided"
  /\ IF k.what = "REJECTED"
       THEN pr' = "REJECTED" /\ cur' = Cleared
     ELSE IF Later(k.step) = {}
       THEN pr' = "APPROVED" /\ cur' = Cleared
     ELSE IsFirst(cur', Later(k.step)) /\ UNCHANGED pr
  /\ call' = [call EXCEPT ![c] = Idle]
  /\ UNCHANGED <<estimate, packaged, rows, by, order>>

\* confirmBuyerPackageStep does it from what it looked up, and writes the status.
WriteConfirm(c) ==
  LET k == call[c] IN
  /\ k.op = "confirmed"
  /\ pr' = IF k.next = 0 THEN "APPROVED" ELSE "SUBMITTED"
  /\ cur' = IF k.next = 0 THEN Cleared ELSE k.next
  /\ call' = [call EXCEPT ![c] = Idle]
  /\ UNCHANGED <<estimate, packaged, rows, by, order>>

\* saveBuyerPackage: prices and the confirmation may change until the request is
\* converted or rejected.
SavePackage ==
  /\ pr \notin {"CONVERTED", "REJECTED"}
  /\ estimate' \in Amounts
  /\ packaged' \in BOOLEAN
  /\ UNCHANGED <<pr, chain, order, call>>

-----------------------------------------------------------------------------
(* The order                                                               *)

\* actionConvertPrToPo looks for an order of this request first.  (Mutant: it relies on
\* the status.)
NoOrderLooked == TRUE
NoOrder == orders = 0

ReadConvert(c) ==
  /\ c \in Converters /\ call[c].op = "idle"
  /\ pr = "APPROVED"
  /\ IF NoOrder
       THEN /\ call' = [call EXCEPT ![c] = [Idle EXCEPT !.op = "create", !.amount = estimate]]
            /\ UNCHANGED pr
       ELSE pr' = "CONVERTED" /\ UNCHANGED call
  /\ UNCHANGED <<estimate, packaged, chain, order>>

CreateOrder(c) ==
  /\ call[c].op = "create"
  /\ orders' = orders + 1 /\ po' = "ISSUED" /\ total' = call[c].amount
  /\ amend' = [s \in Steps |-> "NONE"]
  /\ call' = [call EXCEPT ![c].op = "mark"]
  /\ UNCHANGED <<pr, estimate, packaged, chain>>

MarkConverted(c) ==
  /\ call[c].op = "mark"
  /\ pr' = "CONVERTED"
  /\ call' = [call EXCEPT ![c] = Idle]
  /\ UNCHANGED <<estimate, packaged, chain, order>>

\* The process ends between two statements.
Crash(c) ==
  /\ call[c].op # "idle"
  /\ call' = [call EXCEPT ![c] = Idle]
  /\ UNCHANGED <<pr, estimate, packaged, chain, order>>

Quiet == AmendOverlaps \/ \A c \in Requests : call[c].op \notin {"amended", "receipt"}

\* The chain of an amendment: the decision steps that the request went through, where
\* the new total still crosses them.
Decisive == {"PURCHASE_APPROVAL", "CHARGE_ESCALATION", "ROLE"}
AmendmentRows(a) ==
  [s \in Steps |-> IF rows[s] # "NONE" /\ Routing[s] \in Decisive /\ a >= MinAmount[s]
                     THEN "PENDING" ELSE "NONE"]

AmendOrder(a) ==
  /\ Quiet /\ po \notin {"NONE", "CLOSED"}
  /\ po' = "PENDING_REAPPROVAL" /\ total' = a
  /\ amend' = AmendmentRows(a)
  /\ UNCHANGED <<pr, estimate, packaged, chain, orders, call>>

RejectAmendment(u, s) ==
  /\ Quiet /\ IsFirst(s, Pending(amend))
  /\ u = by[s] \/ u \in Admins
  /\ amend' = [t \in Steps |-> IF amend[t] = "PENDING" THEN "REJECTED" ELSE amend[t]]
  /\ UNCHANGED <<pr, estimate, packaged, chain, orders, po, total, call>>

\* decidePoAmendment does not look at the status of the order.
ApproveAmendment(c, u, s) ==
  /\ Quiet /\ call[c].op = "idle"
  /\ IsFirst(s, Pending(amend))
  /\ u = by[s] \/ u \in Admins
  /\ amend' = [amend EXCEPT ![s] = "APPROVED"]
  /\ call' = [call EXCEPT ![c] = [Idle EXCEPT !.op = "amended"]]
  /\ UNCHANGED <<pr, estimate, packaged, chain, orders, po, total>>

\* (Mutant: one open row is taken for none.)
NothingLeftButOne == \A s, t \in Pending(amend) : s = t
NothingLeft == Pending(amend) = {}

Reissue(c) ==
  /\ call[c].op = "amended"
  /\ po' = IF NothingLeft THEN "ISSUED" ELSE po
  /\ call' = [call EXCEPT ![c] = Idle]
  /\ UNCHANGED <<pr, estimate, packaged, chain, orders, total, amend>>

Acknowledge ==
  /\ Quiet /\ po = "ISSUED" /\ po' = "ACKNOWLEDGED"
  /\ UNCHANGED <<pr, estimate, packaged, chain, orders, total, amend, call>>

\* receivePurchaseOrder reads the status at its start and writes it near its end.
Receivable == {"ISSUED", "ACKNOWLEDGED", "PARTIAL_RECEIPT", "RECEIVED"}
StartReceipt(c) ==
  /\ Quiet /\ call[c].op = "idle" /\ po \in Receivable
  /\ call' = [call EXCEPT ![c] = [Idle EXCEPT !.op = "receipt"]]
  /\ UNCHANGED <<pr, estimate, packaged, chain, order>>

FinishReceipt(c) ==
  /\ call[c].op = "receipt"
  /\ po' \in {"PARTIAL_RECEIPT", "RECEIVED"}
  /\ call' = [call EXCEPT ![c] = Idle]
  /\ UNCHANGED <<pr, estimate, packaged, chain, orders, total, amend>>

CloseOrder ==
  /\ Quiet /\ po \notin {"NONE", "CLOSED"} /\ po' = "CLOSED"
  /\ UNCHANGED <<pr, estimate, packaged, chain, orders, total, amend, call>>

Next ==
  \/ Submit \/ StartLate \/ SavePackage \/ Acknowledge \/ CloseOrder
  \/ \E c \in Requests, u \in People, s \in Steps :
       \/ \E d \in Decisions : ReadDecision(c, u, s, d)
       \/ ReadConfirm(c, u, s)
       \/ ApproveAmendment(c, u, s)
  \/ \E u \in People, s \in Steps : RejectAmendment(u, s)
  \/ \E a \in Amounts : AmendOrder(a)
  \/ \E c \in Requests :
       \/ WriteRow(c) \/ WriteDecision(c) \/ WriteConfirm(c)
       \/ ReadConvert(c) \/ CreateOrder(c) \/ MarkConverted(c)
       \/ Reissue(c) \/ StartReceipt(c) \/ FinishReceipt(c) \/ Crash(c)

Spec == Init /\ [][Next]_vars

-----------------------------------------------------------------------------
(* Properties                                                              *)

\* Steps are decided in the order of the pipeline, and a request is approved or
\* converted only when no step is open, whatever overlaps or stops: nobody is skipped.
NoStepSkipped ==
  /\ \A s, t \in Steps : s < t /\ rows[s] = "PENDING" => rows[t] \in {"NONE", "PENDING"}
  /\ pr \in {"APPROVED", "CONVERTED"} => Pending(rows) = {}

\* "Never issue a duplicate": a request becomes one order, also when a conversion
\* stops between creating the order and marking the request, and when a late decision
\* sets a converted request back to approved.
OneOrder == orders <= 1 /\ (pr = "CONVERTED" => orders = 1)

\* "Receiving is blocked until the chain approves": an order that can be received has
\* every row of its last amendment approved, none open and none rejected.
ReceivableIsApproved ==
  po \in Receivable => \A s \in Steps : amend[s] \in {"NONE", "APPROVED"}
=============================================================================
