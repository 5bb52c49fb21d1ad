SPECIFICATION Spec
CONSTANTS
    Count = 4
    Failing = {2, 3}
    Refused = {3}
    Interval = 2
    MaxFaults = 2
CHECK_DEADLOCK FALSE
INVARIANTS TypeOK OnlyRefusedUndelivered
PROPERTIES CommittedGrows NoCommitAfterError
