SPECIFICATION FairSpec
CONSTANTS
    None = None
    Users = {u1}
    Seats = {s1}
    External = {s1}
    Taken = {}
    Bookings = {b1}
    PayIds = {p1}
    Orders = {o1, o2}
    Requests = {r1}
    Jobs = {j1, j2}
    MaxFaults = 0
    MaxDeliveries = 1
    MaxAttempts = 2
    MaxWorkers = 2
    WorkersHaveClient = FALSE
PROPERTIES
    PaidSeatsAreSold
CHECK_DEADLOCK FALSE
