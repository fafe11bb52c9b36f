\* An edit in flight while the payment is cancelled.
CONSTANTS
    g1 = g1  g2 = g2  k1 = k1  k2 = k2  k3 = k3  p1 = p1  p2 = p2  r1 = r1  r2 = r2
    Absent = Absent
    Level <- mcLevel
    MinPrice <- mcMinPrice
    Rate <- mcRate
    Group <- oneGroup
    Key = {k1}
    GroupOf <- oneAttempt
    Product = {p1}
    Tracked = {p1}
    Checkout <- oneCheckout
    Req = {r1, r2}
    Edit <- shipping
    PartialAmount = {}
    CouponLevel <- mcCouponLevel
    SyncKey <- noKeys
    MetadataUser = TRUE
    VirtualKey = {}
    Faults = {}
    MaxCrashes = 0
    InitOrigin <- origin3
    InitStockQty <- origin3
    InitPoints = 100
    InitCoupons = 1
SPECIFICATION Spec
PROPERTY EditsRespectFinal
CHECK_DEADLOCK FALSE
