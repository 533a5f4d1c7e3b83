SPECIFICATION Spec
CONSTANTS
    Requests = {p1}
    Ids = {t1, t2}
    Ops = {"create", "update"}
    MaxVersion = 2
    MaxRequests = 6
    MaxFaults = 0
INVARIANT NoCycles
SYMMETRY Symmetry
CHECK_DEADLOCK FALSE
