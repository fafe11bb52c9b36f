----------------------------- MODULE MCSalePrice -----------------------------
(* An instance of SalePrice for TLC. *)
EXTENDS SalePrice, TLC

CONSTANTS p1, p2, w1, w2

\* A new product has a consumer price and may have an offer without a special
\* price; an edit may take the first away and give the second.
mcPricing == [new |-> {[consumer |-> 8, sale |-> 8]}, edit |-> {[consumer |-> Absent, sale |-> 5]}]
mcDeal == [new |-> {[amount |-> Absent, special |-> Absent]}, edit |-> {[amount |-> 2, special |-> 6]}]
mcWindow == [new |-> {[start |-> 1, end |-> 1]},
             edit |-> {[start |-> 2, end |-> 3]}]

salePriceSymmetry == Permutations(Proc) \cup Permutations(Product)
=============================================================================
