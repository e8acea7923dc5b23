SPECIFICATION Spec
CONSTANTS
    Creator = creator
    Verifiers = {v1, v2}
    Redeemers = {r1, r2}
    Simulators = {s1}
    Pollers = {}
    MaxSends = 1
    Outages = {"credit"}
    ExpiresAt = 1
    MaxTime = 2
    PutMaxAttempts = 1
    Faults = {}
    NoRecord = NoRecord
SYMMETRY FlowSymmetry
INVARIANTS TypeOK OneVerdict VerdictIsProved
PROPERTIES ImplementsRedemption
CHECK_DEADLOCK FALSE
