SPECIFICATION Spec
CONSTANTS
    None = None
    Users = {u1, u2}
    Seats = {s1, s2}
    External = {s1, s2}
    Taken = {}
    Bookings = {b1, b2}
    PayIds = {p1}
    Orders = {o1}
    Requests = {r1, r2}
    Jobs = {j1, j2}
    MaxFaults = 0
    MaxDeliveries = 1
    MaxAttempts = 2
    MaxWorkers = 2
    WorkersHaveClient = TRUE
SYMMETRY Symmetry
INVARIANTS
    SeatLedger
    Inductive
PROPERTIES
    AmountIsCurrent
    SeatsAreInventory
CHECK_DEADLOCK FALSE
