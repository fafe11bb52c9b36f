\* One process; an admin edits the discount between two steps of the job.
CONSTANTS
    p1 = p1  p2 = p2  w1 = w1  w2 = w2
    Absent = Absent
    Product = {p1}
    Proc = {w1}
    Pricing <- mcPricing
    Rate = {50}
    Window <- mcWindow
    Deal <- mcDeal
    Faults = {}
    LastDay = 2
    MaxEdits = 2
SPECIFICATION Spec
PROPERTY DeletesOnlyExpired
CHECK_DEADLOCK FALSE
