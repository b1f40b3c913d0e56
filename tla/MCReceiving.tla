------------------------------ MODULE MCReceiving ------------------------------
(* Instances of Receiving: two lines, one or both of them inspected. *)
EXTENDS Receiving, TLC
CONSTANTS l1, l2

AnyClerk == Permutations(Clerks)
TwoAndOne == l1 :> 2 @@ l2 :> 1
OneEach == l1 :> 1 @@ l2 :> 1
FirstChecked == l1 :> {"QA", "TEST"} @@ l2 :> {}
TwoOfOne == l1 :> 2
OnlyVisual == l1 :> {"QA"}
BothChecked == l1 :> {"QA"} @@ l2 :> {"QA"}
=============================================================================
