SPECIFICATION Spec
CONSTANTS
    Creator = creator
    Verifiers = {v1}
    Redeemers = {r1}
    Simulators = {}
    Pollers = {}
    MaxSends = 1
    Outages = {}
    ExpiresAt = 1
    MaxTime = 1
    PutMaxAttempts = 1
    Faults = {}
    NoRecord = NoRecord
INVARIANTS FailedWriteIsUnbilled
CHECK_DEADLOCK FALSE
