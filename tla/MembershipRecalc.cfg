\* Two customers, one of whom pays; one edit and one request to recalculate.
CONSTANTS
    u1 = u1  u2 = u2  t1 = t1  t2 = t2  t3 = t3  p1 = p1  e1 = e1
    Absent = Absent
    Worker = Worker
    Payments = Payments
    User = {u1, u2}
    Tier = {t1, t2, t3}
    Pay = {p1}
    Payer <- byOne
    Worth <- worth
    Part <- part
    Price <- prices
    FirstTiers <- ladder
    Wish <- wishes
    Edit = {e1}
    MaxEdits <- mcEdits
    MaxFaults = 1
SPECIFICATION Spec
INVARIANTS TypeOK Settled NobodyLeftOut
CHECK_DEADLOCK FALSE
