-------------------------- MODULE MCSalesFulfillment --------------------------
(* Small instances of SalesFulfillment for TLC: at most two orders, two lines, *)
(* two parts, three rows of stock and two shipments.                           *)
EXTENDS SalesFulfillment, TLC
CONSTANTS o1, o2, l1, l2, p1, p2, r1, r2, r3, s1, s2

OneOrderTwoLines == l1 :> o1 @@ l2 :> o1
TwoOrders == l1 :> o1 @@ l2 :> o2

OnePart == l1 :> p1 @@ l2 :> p1
TwoParts == l1 :> p1 @@ l2 :> p2

Qty11 == l1 :> 1 @@ l2 :> 1
Qty21 == l1 :> 2 @@ l2 :> 1

RowsOfOnePart == r1 :> p1 @@ r2 :> p1
ThreeRows == r1 :> p1 @@ r2 :> p1 @@ r3 :> p2

Opening1 == r1 :> 1 @@ r2 :> 0
OpeningThree == r1 :> 1 @@ r2 :> 0 @@ r3 :> 0

AnyShipment == Permutations(Shipments)
=============================================================================
