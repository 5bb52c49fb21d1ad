SPECIFICATION Spec
CONSTANTS
    Count = 3
    Failing = {2}
    Refused = {2}
    Interval = 2
    MaxFaults = 0
CHECK_DEADLOCK FALSE
INVARIANT NeverPastUndelivered
