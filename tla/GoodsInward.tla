------------------------------ MODULE GoodsInward ------------------------------
(***************************************************************************)
(* What receiving promises, with no word of orders, travelers, rows or     *)
(* inspection records: material that has arrived waits at the dock, is     *)
(* cleared by every check its part calls for, and only then stocked; or it *)
(* fails a check, is held, and is then used after all or gone.  A check    *)
(* that fails late calls material back from the shelf.                     *)
(***************************************************************************)
CONSTANTS
  Deliveries,  \* what a receipt brings of one line
  Checked      \* SUBSET Deliveries: those whose part calls for a check

VARIABLE stage \* [Deliveries -> Stages]

Stages == {"expected", "dock", "cleared", "stocked", "held", "gone"}

Init == stage = [d \in Deliveries |-> "expected"]

\* Material without checks may be put away as it is received.
Arrived(d) == {"dock"} \cup (IF d \in Checked THEN {} ELSE {"cleared", "stocked"})

\* The ways forward of a delivery.  Rejected material may be used after all, or go.
Onward(d) ==
  CASE stage[d] = "expected" -> Arrived(d)
    [] stage[d] = "dock"     -> {"cleared", "held"}
    [] stage[d] = "cleared"  -> {"stocked"}
    [] stage[d] = "held"     -> {"stocked", "gone"}
    [] stage[d] = "stocked"  -> IF d \in Checked THEN {"held"} ELSE {}
    [] OTHER                 -> {}

\* One step may bring, inspect or stock several deliveries at once.
Next ==
  /\ stage' \in [Deliveries -> Stages]
  /\ \A d \in Deliveries : stage'[d] # stage[d] => stage'[d] \in Onward(d)

Spec == Init /\ [][Next]_stage
=============================================================================
