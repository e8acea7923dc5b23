SPECIFICATION FairSpec
CONSTANTS
    Req = {r1, r2, r3}
    NoRecord = NoRecord
    ExpiresAt = 1
    MaxTime = 2
    PutMaxAttempts = 3
    Faults = {"read", "put", "delete"}
INVARIANTS TypeOK SecretOnlyWhilePending EvidenceMatchesState
PROPERTIES EvidenceOutlivesRequests EveryRequestAnswered
CHECK_DEADLOCK FALSE
