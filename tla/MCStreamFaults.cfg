SPECIFICATION Spec
CONSTANTS
    e1 = e1
    e2 = e2
    e3 = e3
    p1 = p1
    p2 = p2
    n1 = n1
    r1 = r1
    s1 = s1
    None = None
    Events = {e1}
    Workers = {p1, p2, n1, r1, s1}
    RoleOf <- AllRoles
    Malformed <- NoEvents
    Flaky <- FlakyEverywhere
    Poison <- NoEvents
    Rejected = {}
    MaxAttempts = 1
    MaxFaults = 2
CHECK_DEADLOCK FALSE
SYMMETRY ParserSymmetry
INVARIANTS TypeOK OwnerSkipsNothing DuplicatesBounded RetryBudgetShared
PROPERTIES CommitsOnlyAdvance ImplementsDelivery
