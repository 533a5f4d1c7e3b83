SPECIFICATION Spec
CONSTANTS
    Requests = {p1, p2}
    Worker = worker1
    Bookings = {b1, b2}
    Rooms = {r1, r2}
    Instructors = {i1}
    Windows <- OneWindow
    Refused <- NoneRefused
    Ops = {"hold"}
    HoldTTL = 1
    Cutoff = 1
    RescheduleLimit = 1
    MaxLag = 1
    MaxClock = 2
    MaxRequests = 4
    MaxFaults = 0
    NULL = null

SYMMETRY Symmetry
INVARIANT InstructorExclusive
