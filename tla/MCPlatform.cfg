SPECIFICATION Spec
CONSTANTS
    tcp = tcp
    a = a
    empty = empty
    p1 = p1
    n1 = n1
    s1 = s1
    None = None
    Threads = {tcp}
    Payloads = {a}
    Unfit = {empty}
    CacheSize = 1
    MaxEvents = 2
    Workers = {p1, n1, s1}
    RoleOf <- AllRoles
    Malformed <- NoEvents
    Flaky <- NoEvents
    Poison <- NormalizerRaises
    Rejected = {}
    MaxAttempts = 1
    MaxFaults = 1
CHECK_DEADLOCK FALSE
INVARIANT AcceptedReachesWorkers
PROPERTY ImplementsDelivery
