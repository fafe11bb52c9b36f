\* Two processes run the job on two products; one request of an admin.
CONSTANTS
    p1 = p1  p2 = p2  w1 = w1  w2 = w2
    Absent = Absent
    Product = {p1, p2}
    Proc = {w1, w2}
    Pricing <- mcPricing
    Rate = {50}
    Window <- mcWindow
    Deal <- mcDeal
    Faults = {"db", "crash"}
    LastDay = 2
    MaxEdits = 2
SPECIFICATION Spec
SYMMETRY salePriceSymmetry
INVARIANTS TypeOK Settled
PROPERTY NobodyLeftOut
CHECK_DEADLOCK FALSE
