SPECIFICATION Spec
CONSTANTS
    Requests = {p1}
    Ids = {t1, t2, t3}
    Ops = {"create", "update", "delete", "depend"}
    MaxVersion = 2
    MaxRequests = 6
    MaxFaults = 1
INVARIANT SerialInv
PROPERTIES VersionsIncrease ValidatedWritesSafe
SYMMETRY Symmetry
CHECK_DEADLOCK FALSE
