--------------------------- MODULE MCOrderPayment ---------------------------
(* Instances of OrderPayment for TLC. *)
EXTENDS OrderPayment, TLC

CONSTANTS g1, g2, k1, k2, k3, p1, p2, r1, r2

mcLevel == {"LV1", "LV2", "LV3"}
mcMinPrice == "LV1" :> 0 @@ "LV2" :> 2000 @@ "LV3" :> 3000
mcCouponLevel == {"LV2", "LV3"}
mcRate == "LV1" :> 10 @@ "LV2" :> 20 @@ "LV3" :> 25
noRewards == [l \in Level |-> 0]

\* A single tier with a reward, for runs that are not about the ladder.
oneLevel == {"LV1"}
noLevel == {}
oneMinPrice == "LV1" :> 0
oneRate == "LV1" :> 10

\* The server's request slots are interchangeable.
requestSymmetry == Permutations(Req)

Asks(amount, fee, pts, p, direct, coupon) ==
    [amount |-> amount, fee |-> fee, pts |-> pts, direct |-> direct,
     coupon |-> coupon, qty |-> [q \in Product |-> IF q = p THEN 1 ELSE 0]]

\* One order group, two payment attempts.
oneGroup == {g1}
twoAttempts == k1 :> g1 @@ k2 :> g1
oneAttempt == k1 :> g1
oneCheckout == g1 :> Asks(1000, 300, 0, p1, FALSE, TRUE)

\* Large enough for a higher tier.
largeCheckout == g1 :> Asks(2500, 300, 0, p1, FALSE, TRUE)

\* Two order groups for the same cart; the second also tried directly.
twoGroups == {g1, g2}
attemptsThree == k1 :> g1 @@ k2 :> g2 @@ k3 :> g2
twoCheckouts == g1 :> Asks(1000, 0, 50, p1, FALSE, TRUE)
                  @@ g2 :> Asks(2000, 0, 0, p1, TRUE, TRUE)

NoEdits == {}
EditOf(sit, final, waybill) ==
    [sit |-> sit, final |-> final, fee |-> Absent, pts |-> Absent, waybill |-> waybill]
\* Ship with courier and invoice; later mark as delivered.
shipping == {EditOf(Absent, Absent, TRUE), EditOf("SHIPPED", Absent, FALSE)}
delivered == {EditOf("SHIPPED", Absent, TRUE)}

origin3 == [p \in Product |-> 3]
someKeys == {k1}
noKeys == {}
=============================================================================
