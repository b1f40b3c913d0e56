-------------------------------- MODULE MCBooks --------------------------------
(* Instances of Books: what the two requests are for, and the entries made. *)
EXTENDS Books, TLC

CONSTANTS r1, r2

\* One opens the accounting page again and again, the other is the clerk.
PageAndClerk == r1 :> {"load", "stop"} @@ r2 :> AllTasks \ {"load", "stop"}
SomeEntries == {[status |-> "PENDING_APPROVAL", settles |-> TRUE, accrual |-> FALSE]}
================================================================================
