SPECIFICATION Spec
CONSTANTS
    Req = {r1, r2}
    NoRecord = NoRecord
    ExpiresAt = 1
    MaxTime = 2
    PutMaxAttempts = 3
    Faults = {"put"}
PROPERTIES RetriedCreateIsComplete
CHECK_DEADLOCK FALSE
