\* One order group, lost answers and failing jobs: what is promised eventually comes.
CONSTANTS
    g1 = g1  g2 = g2  k1 = k1  k2 = k2  k3 = k3  p1 = p1  p2 = p2  r1 = r1  r2 = r2
    Absent = Absent
    Level <- mcLevel
    MinPrice <- mcMinPrice
    Rate <- mcRate
    Group <- oneGroup
    Key = {k1, k2}
    GroupOf <- twoAttempts
    Product = {p1}
    Tracked = {p1}
    Checkout <- largeCheckout
    Req = {r1, r2}
    Edit <- NoEdits
    PartialAmount = {}
    CouponLevel <- mcCouponLevel
    SyncKey <- noKeys
    MetadataUser = TRUE
    VirtualKey = {k2}
    Faults = {"lost", "job", "queue"}
    MaxCrashes = 0
    InitOrigin <- origin3
    InitStockQty <- origin3
    InitPoints = 100
    InitCoupons = 1
SPECIFICATION FairSpec
INVARIANTS BonusIssuedOnce TakenIsHeld
PROPERTIES TakenGetsRow JobsEnd
CHECK_DEADLOCK FALSE
