------------------------------- MODULE MCCart -------------------------------
(* An instance of Cart for TLC. *)
EXTENDS Cart, TLC

CONSTANTS p1, p2, i1, i2, i3, r1, r2

mcPrice == p1 :> 2 @@ p2 :> 3

\* Ids of rows and request slots are interchangeable.
cartSymmetry == Permutations(Item) \cup Permutations(Req)
=============================================================================
