SPECIFICATION MCSpec
CONSTANTS
    Requests = {p, q}
    hall = hall
    Rooms = {hall}
    Bookings = {b}
    Learners = {ann, bob}
    Periods = {m, n}
    SlotsPerDay = 4
    DbZone = 1
    Windows <- SomeWindows
    PeriodRows <- SomePeriods
    Days = {0, 1}
    Capacities = {0, 1, 2}
    Seats = {1}
    Parties = {1, 2}
    MaxRequests = 3
    MaxChanges = 2
    NULL = NULL
INVARIANTS TypeOK HoldFitsRoom HoldJustified PrecheckAgrees SeatsCounted
PROPERTY SeatsTakenWhileConfirmed
SYMMETRY Symmetry
CHECK_DEADLOCK FALSE
