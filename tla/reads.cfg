SPECIFICATION Spec
CONSTANTS
    None = None
    Invalid = Invalid
    UserRows <- SomeUsers
    EventRows <- SomeEvents
    SeatRows <- SomeSeats
    BookingRows <- SomeBookings
    DefaultPageSize = 2
    MaxPageSize = 3
    RequestSet <- SomeRequests
    WalkSet <- SomeWalks
INVARIANTS
    TypeOK
    WalkIsComplete
    Inductive
PROPERTIES
    SessionWhereNeeded
    OwnBookings
    AnalyticsAddUp
