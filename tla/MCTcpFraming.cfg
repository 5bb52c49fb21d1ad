SPECIFICATION Spec
CONSTANTS
    MaxEventSize = 3
    RecvLimit = 3
    MaxBytes = 8
CHECK_DEADLOCK FALSE
INVARIANTS TypeOK FramesAreTheStream OversizeIsSeenEarly
