SPECIFICATION FairSpec
CONSTANTS
    w1 = w1
    w2 = w2
    q1 = q1
    q2 = q2
    None = None
    Workers = {w1}
    Partitions = {q1, q2}
    Cap = 1
    Slack = 1
    Skew = 1
    MaxTime = 2
    MaxRecords <- Uneven
    MaxFaults = 1
CHECK_DEADLOCK FALSE
PROPERTY EventuallyRetried
