SPECIFICATION Spec
CONSTANTS
    Redeemers = {r1, r2}
    Pollers = {p1}
    MaxRedeemAttempts = 1
    MaxStatusChecks = 1
    MaxVisible = 2
SYMMETRY HostedSymmetry
INVARIANTS TypeOK OneCookie CookieIsBacked ClientsSeeProgress SessionTrailsChallenge
PROPERTIES ImplementsRedemption
CHECK_DEADLOCK FALSE
