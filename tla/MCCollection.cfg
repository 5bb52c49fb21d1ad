SPECIFICATION Spec
CONSTANTS
    udp = udp
    tcp = tcp
    a = a
    b = b
    empty = empty
    None = None
    Threads = {udp, tcp}
    Payloads = {a, b}
    Unfit = {empty}
    CacheSize = 1
    MaxEvents = 3
    MaxFaults = 1
SYMMETRY ThreadSymmetry
CHECK_DEADLOCK FALSE
INVARIANTS TypeOK AcceptedIsDurable FailedPublishReplayable RejectionsExplained CountersAddUp DuplicateFlagExact
PROPERTY ImplementsDelivery
