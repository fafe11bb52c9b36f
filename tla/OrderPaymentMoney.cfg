\* One order group, one attempt, every fault: what the rows say of the money.
CONSTANTS
    g1 = g1  g2 = g2  k1 = k1  k2 = k2  k3 = k3  p1 = p1  p2 = p2  r1 = r1  r2 = r2
    Absent = Absent
    Level <- oneLevel
    MinPrice <- oneMinPrice
    Rate <- oneRate
    Group <- oneGroup
    Key = {k1}
    GroupOf <- oneAttempt
    Product = {p1}
    Tracked = {p1}
    Checkout <- oneCheckout
    Req = {r1, r2}
    Edit <- delivered
    PartialAmount = {400}
    CouponLevel <- noLevel
    SyncKey <- someKeys
    MetadataUser = TRUE
    VirtualKey = {}
    Faults = {"lost", "db"}
    MaxCrashes = 1
    InitOrigin <- origin3
    InitStockQty <- origin3
    InitPoints = 100
    InitCoupons = 1
SPECIFICATION Spec
SYMMETRY requestSymmetry
INVARIANTS TypeOK RowsFollowGateway SettledMeansTaken
CHECK_DEADLOCK FALSE
