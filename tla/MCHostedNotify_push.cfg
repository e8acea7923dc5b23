SPECIFICATION FairSpec
CONSTANTS
    Upgrade = {u1, u2}
    SessionTtl = 4
    AlarmTtl = 4
    MarkerTtl = 4
    Floor = 2
    Lag = 1
    None = None
INVARIANTS TypeOK TicketIsSpent AlarmGuardsSockets MessageIsTrue
PROPERTIES SocketsAreClosed
