--------------------------- MODULE MCCouponWallet ---------------------------
(* Instances of CouponWallet for TLC. *)
EXTENDS CouponWallet, TLC

CONSTANTS u1, u2, p1, p2, c1, c2

KindOf(auto, perm, dated, all) ==
    [auto |-> auto, perm |-> perm, dated |-> dated, all |-> all, targets |-> User]

\* An auto-issue coupon for everybody, and a permanent one for some grades
\* that is issued with dates when it is created.
kinds == {KindOf(TRUE, FALSE, FALSE, TRUE), KindOf(FALSE, TRUE, TRUE, FALSE)}
bothByOne == p1 :> u1 @@ p2 :> u1
symmetry == Permutations(CronRun) \cup Permutations(Payment)
=============================================================================
