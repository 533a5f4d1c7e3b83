SPECIFICATION LiveSpec
CONSTANTS
    Requests = {p1, p2}
    Worker = worker1
    Bookings = {b1, b2}
    Rooms = {r1}
    Instructors = {i1}
    Windows <- AdjacentWindows
    Refused <- WideRefused
    Ops = {"confirm", "reschedule"}
    HoldTTL = 1
    Cutoff = 1
    RescheduleLimit = 1
    MaxLag = 1
    MaxClock = 1
    MaxRequests = 4
    MaxFaults = 0
    NULL = null
VIEW NoAudit
INVARIANTS RoomExclusive RescheduleBound
PROPERTIES LapsedHoldsExpire RequestsAnswered
