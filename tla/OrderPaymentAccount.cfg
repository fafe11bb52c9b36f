\* Two order groups in one account, full cancellations: what is booked and what the customer gets.
CONSTANTS
    g1 = g1  g2 = g2  k1 = k1  k2 = k2  k3 = k3  p1 = p1  p2 = p2  r1 = r1  r2 = r2
    Absent = Absent
    Level <- mcLevel
    MinPrice <- mcMinPrice
    Rate <- noRewards
    Group <- twoGroups
    Key = {k1, k2, k3}
    GroupOf <- attemptsThree
    Product = {p1}
    Tracked = {p1}
    Checkout <- twoCheckouts
    Req = {r1, r2}
    Edit <- NoEdits
    PartialAmount = {}
    CouponLevel <- mcCouponLevel
    SyncKey <- noKeys
    MetadataUser = TRUE
    VirtualKey = {}
    Faults = {}
    MaxCrashes = 0
    InitOrigin <- origin3
    InitStockQty <- origin3
    InitPoints = 100
    InitCoupons = 1
SPECIFICATION Spec
SYMMETRY requestSymmetry
INVARIANTS BooksAgree SettledRowsAgree LevelSettles EffectsHavePayment
PROPERTY KeepsTheBook
CHECK_DEADLOCK FALSE
