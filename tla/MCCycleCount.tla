----------------------------- MODULE MCCycleCount -----------------------------
(* Instances of CycleCount: one bin holds two lots, the other one. *)
EXTENDS CycleCount, TLC

CONSTANTS x1, x2, x3, b1, b2

TwoLots == x1 :> b1 @@ x2 :> b1 @@ x3 :> b2

\* Sheets are interchangeable, and so are the two rows of one bin.
AnySheetOrLot ==
  {p @@ q : p \in Permutations(Sheets), q \in Permutations({x1, x2})}
=============================================================================
