SPECIFICATION FairSpec
CONSTANTS
    Issuer = {i1}
    Lookup = {l1, l2}
    Background = {b1, b2}
    CacheTtl = 1
    StaleTtl = 2
    HardMax = 3
    MaxFailures = 2
    BreakerReset = 1
    FetchTime = 1
    MaxEpoch = 1
    Faults = {"get", "stop"}
INVARIANTS TypeOK PushIsFinal ServedIsRecent OneBackground
PROPERTIES FlagIsReleased Recovers
