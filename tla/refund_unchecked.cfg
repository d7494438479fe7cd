SPECIFICATION FairSpec
CONSTANTS
    None = None
    Users = {u1}
    Seats = {s1}
    External = {s1}
    Taken = {}
    Bookings = {b1}
    PayIds = {p1}
    Orders = {o1}
    Requests = {r1}
    Jobs = {j1, j2, j3}
    MaxFaults = 0
    MaxDeliveries = 1
    MaxAttempts = 2
    MaxWorkers = 2
    WorkersHaveClient = TRUE
INVARIANTS
    RefundedAtGateway
CHECK_DEADLOCK FALSE
