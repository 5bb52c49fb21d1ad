SPECIFICATION FairSpec
CONSTANTS
    e1 = e1
    e2 = e2
    e3 = e3
    p1 = p1
    p2 = p2
    n1 = n1
    r1 = r1
    s1 = s1
    None = None
    Events = {e3}
    Workers = {p1, n1, r1, s1}
    RoleOf <- AllRoles
    Malformed <- NoEvents
    Flaky <- NoEvents
    Poison <- NaiveTimestamp
    Rejected = {}
    MaxAttempts = 1
    MaxFaults = 0
CHECK_DEADLOCK FALSE
PROPERTY PoisonEntersDeadLetter
