SPECIFICATION FairSpec
CONSTANTS
    None = None
    Users = {u1}
    Seats = {s1}
    External = {s1}
    Taken = {}
    Bookings = {b1}
    PayIds = {p1}
    Orders = {o1, o2}
    Requests = {r1}
    Jobs = {j1, j2, j3}
    MaxFaults = 1
    MaxDeliveries = 1
    MaxAttempts = 2
    MaxWorkers = 2
    WorkersHaveClient = TRUE
INVARIANTS
    SoldIsConfirmed
    SubmittedIsPaid
    FulfilmentInductive
    LockDiscipline
PROPERTIES
    JobsSettle
    LockIsReleased
CHECK_DEADLOCK FALSE
