------------------------------- MODULE MCKitting -------------------------------
(* Small instances of Kitting for TLC: two work orders, two kits, two BOM lines, *)
(* two rows.                                                                     *)
EXTENDS Kitting, TLC
CONSTANTS w1, w2, b1, b2, p1, r1, r2

TwoLinesAndOne == [w \in WorkOrders |-> IF w = w1 THEN {b1, b2} ELSE {b2}]
LinesOfOnePart == b1 :> p1 @@ b2 :> p1
TwoAndOne == b1 :> 2 @@ b2 :> 1
OneEach == [w \in WorkOrders |-> 1]
MatchesAndOther == [w \in WorkOrders |-> IF w = w1 THEN "MATCHES" ELSE "OTHER"]
NoComponent == [w \in WorkOrders |-> NoPart]
RowsOfOnePart == r1 :> p1 @@ r2 :> p1
Opening == r1 :> 2 @@ r2 :> 1
Areas == r1 :> "STORAGE" @@ r2 :> "GFP"

AnyKit == Permutations(Kits)
=============================================================================
