SPECIFICATION Spec
CONSTANTS
    Requests = {p1, p2}
    Worker = worker1
    Bookings = {b1, b2}
    Rooms = {r1}
    Instructors = {i1}
    Windows <- OverlappingWindows
    Refused <- NoneRefused
    Ops = {"hold", "confirm", "cancel", "check_in", "reschedule"}
    HoldTTL = 1
    Cutoff = 1
    RescheduleLimit = 1
    MaxLag = 2
    MaxClock = 2
    MaxRequests = 3
    MaxFaults = 1
    NULL = null
SYMMETRY Symmetry
INVARIANTS TypeOK LocksOwned AuditTruthful IInv WaitsEnd
PROPERTIES Lifecycle OnlyLateConfirms ImplementsCalendar
