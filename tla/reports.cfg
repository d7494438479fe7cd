SPECIFICATION Spec
CONSTANTS
    None = None
    Users = {u1}
    Seats = {s1}
    External = {s1}
    Taken = {}
    Bookings = {b1}
    PayIds = {p1, p2}
    Orders = {o1}
    Requests = {r1, r2}
    Jobs = {j1, j2, j3}
    MaxFaults = 0
    MaxDeliveries = 2
    MaxAttempts = 2
    MaxWorkers = 2
    WorkersHaveClient = TRUE
SYMMETRY Symmetry
INVARIANTS
    TypeOK
    PaymentLedger
    PaymentInductive
PROPERTIES
    OnlyPaidIsRefunded
CHECK_DEADLOCK FALSE
