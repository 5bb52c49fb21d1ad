SPECIFICATION FairSpec
CONSTANTS
    Count = 2
    Failing = {}
    Refused = {}
    Interval = 2
    MaxFaults = 1
CHECK_DEADLOCK FALSE
PROPERTY RestartsAfterError
