\* Two sockets of one customer and one of another, an admin whose job creates rooms.
CONSTANTS
    u1 = u1  u2 = u2  u3 = u3  s1 = s1  s2 = s2  s3 = s3  r1 = r1  r2 = r2
    Absent = Absent
    User = {u1, u2, u3}
    Creator = {u1}
    Customer = {u2}
    Socket = {s1, s2, s3}
    Owner <- mcOwner
    Room = {r1, r2}
    Id = {1, 2, 3, 4}
    Limit = 1
    Start <- mcStart
    Faults = {"db"}
    LastMoment = 2
    MaxRequests = 3
SPECIFICATION Spec
SYMMETRY chatSymmetry
INVARIANTS TypeOK PresenceTrue OnlyMembersHear PagesComplete
PROPERTY SeatKept
CHECK_DEADLOCK FALSE
