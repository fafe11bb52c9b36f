\* Two requests at a time on one cart: additions, edits, removals, checkout, clear, payment.
CONSTANTS
    p1 = p1  p2 = p2  i1 = i1  i2 = i2  i3 = i3  r1 = r1  r2 = r2
    Absent = Absent
    Item = {i1, i2, i3}
    Product = {p1, p2}
    Price <- mcPrice
    Quantity = {1}
    Req = {r1, r2}
    Faults = {"db"}
    MaxRequests = 5
SPECIFICATION Spec
SYMMETRY cartSymmetry
INVARIANTS TypeOK TotalRight
PROPERTY ClearKeepsCheckedOut
CHECK_DEADLOCK FALSE
