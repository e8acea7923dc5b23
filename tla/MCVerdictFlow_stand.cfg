SPECIFICATION Spec
CONSTANTS
    Creator = creator
    Verifiers = {v1}
    Redeemers = {r1}
    Simulators = {}
    Pollers = {p1}
    MaxSends = 2
    Outages = {"nonce"}
    ExpiresAt = 1
    MaxTime = 1
    PutMaxAttempts = 1
    Faults = {"delete"}
    NoRecord = NoRecord
INVARIANTS AnswersStand RecordHasCode
PROPERTIES UsesObjectAsSpecified FollowsLifecycle
CHECK_DEADLOCK FALSE
