SPECIFICATION FairAuthSpec
CONSTANTS
    client = client
    internal = internal
    Tag <- BothMessages
    ClientMessage = {client}
    InternalMessage = {internal}
    Requester = {r1, r2, r3}
    None = None
    Ttl = {1, 3}
    ClientTtl = 1
    InternalTtl = 3
    Window = 1
    Ahead = 2
    Delay = 1
    AlarmInterval = 2
    Faults = {"put"}
INVARIANTS AuthTypeOK SingleUse BearerAcceptedOnce
PROPERTIES ExpiredEntriesGo
