SPECIFICATION AuthSpec
CONSTANTS
    client = client
    internal = internal
    Tag = {client}
    ClientMessage = {client}
    InternalMessage = {}
    Requester = {r1, r2}
    None = None
    Ttl = {1, 2}
    ClientTtl = 1
    InternalTtl = 2
    Window = 1
    Ahead = 1
    Delay = 0
    AlarmInterval = 2
    Faults = {}
INVARIANTS ClientAcceptedOnce
