----------------------------- MODULE OrderPromise -----------------------------
(***************************************************************************)
(* What order-to-cash promises a customer and the books, with no word of   *)
(* stock, shipments or work orders: an accepted order is delivered in full *)
(* at one time, never while its deposit is outstanding, is billed exactly  *)
(* once at that time, and nothing that was delivered or billed is undone.  *)
(***************************************************************************)
EXTENDS Naturals

CONSTANTS Orders, Lines, LineOrder, LineQty

VARIABLES
  stage,     \* [Orders -> {"none", "open", "done"}]
  held,      \* [Orders -> BOOLEAN], waiting for a deposit
  delivered, \* [Lines -> Nat]
  bills      \* [Orders -> Nat]

promise == <<stage, held, delivered, bills>>

Init ==
  /\ stage = [o \in Orders |-> "none"]
  /\ held = [o \in Orders |-> FALSE]
  /\ delivered = [l \in Lines |-> 0]
  /\ bills = [o \in Orders |-> 0]

Accept(o) ==
  /\ stage[o] = "none"
  /\ stage' = [stage EXCEPT ![o] = "open"]
  /\ \E h \in BOOLEAN : held' = [held EXCEPT ![o] = h]
  /\ UNCHANGED <<delivered, bills>>

\* A deposit is asked for, paid, waived or asked for again.
Deposit(o) ==
  /\ stage[o] # "none"
  /\ \E h \in BOOLEAN : held' = [held EXCEPT ![o] = h]
  /\ UNCHANGED <<stage, delivered, bills>>

Deliver(o) ==
  /\ stage[o] = "open" /\ ~held[o]
  /\ stage' = [stage EXCEPT ![o] = "done"]
  /\ delivered' = [l \in Lines |-> IF LineOrder[l] = o THEN LineQty[l] ELSE delivered[l]]
  /\ bills' = [bills EXCEPT ![o] = 1]
  /\ UNCHANGED held

Next == \E o \in Orders : Accept(o) \/ Deposit(o) \/ Deliver(o)

Spec == Init /\ [][Next]_promise
=============================================================================
