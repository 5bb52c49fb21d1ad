SPECIFICATION FairSpec
CONSTANTS
    e1 = e1
    e2 = e2
    e3 = e3
    p1 = p1
    p2 = p2
    n1 = n1
    r1 = r1
    s1 = s1
    None = None
    Events = {e1, e2, e3}
    Workers = {p1, n1, r1, s1}
    RoleOf <- AllRoles
    Malformed <- BadEnvelope
    Flaky <- FlakyNormalizing
    Poison <- NaiveTimestamp
    Rejected = {e1}
    MaxAttempts = 1
    MaxFaults = 1
CHECK_DEADLOCK FALSE
INVARIANT DeadLettersJustified
PROPERTY EventuallySettled
