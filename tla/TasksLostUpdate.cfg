SPECIFICATION Spec
CONSTANTS
    Requests = {p1, p2}
    Ids = {t1, t2}
    Ops = {"create", "update"}
    MaxVersion = 2
    MaxRequests = 6
    MaxFaults = 0
PROPERTY VersionsIncrease
SYMMETRY Symmetry
CHECK_DEADLOCK FALSE
