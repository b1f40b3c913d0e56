------------------------------ MODULE MCShipRace ------------------------------
(* Instances of ShipRace: up to three orders for up to three units on two rows. *)
EXTENDS ShipRace, TLC
CONSTANTS c1, c2, o1, o2, o3, r1, r2

Qty211 == o1 :> 2 @@ o2 :> 1 @@ o3 :> 1
Qty11 == o1 :> 1 @@ o2 :> 1
Opening21 == r1 :> 2 @@ r2 :> 1
Opening1 == r1 :> 1
AnyClerk == Permutations(Clerks)
=============================================================================
