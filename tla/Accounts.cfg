SPECIFICATION MCSpec
CONSTANTS
    Requests = {p, q}
    acme = acme
    globex = globex
    Tenants = {acme, globex}
    DefaultTenant = acme
    ann = ann
    bob = bob
    Emails = {ann, bob}
    Roles = {"admin", "learner"}
    s1 = s1
    s2 = s2
    Sessions = {s1, s2}
    SessionTTL = 2
    MaxClock = 3
    MaxRequests = 3
    MaxFaults = 1
    NULL = NULL
INVARIANTS TypeOK TenantAdministered OneRole StaleRoleBounded SessionEnds
PROPERTY SetupCloses
CONSTRAINT TimeMatters
SYMMETRY Symmetry
CHECK_DEADLOCK FALSE
