\* One customer, two payments, two processes with the monthly job.
CONSTANTS
    u1 = u1  u2 = u2  p1 = p1  p2 = p2  c1 = c1  c2 = c2
    Absent = Absent
    User = {u1}
    Kind <- kinds
    Payment = {p1, p2}
    Payer <- bothByOne
    Req = {r1}
    CronRun = {c1, c2}
    Faults = {"queue", "job", "cron"}
    MaxRows = 2
    MaxMonth = 1
    MaxBegun = 3
SPECIFICATION Spec
SYMMETRY symmetry
INVARIANTS TypeOK GrantedOnce CronNoDuplicates SpecialOnce
PROPERTY NeverReissued
CHECK_DEADLOCK FALSE
