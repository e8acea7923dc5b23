SPECIFICATION Spec
CONSTANTS
    Creator = creator
    Verifiers = {v1}
    Redeemers = {r1}
    Simulators = {}
    Pollers = {}
    MaxSends = 2
    Outages = {}
    ExpiresAt = 1
    MaxTime = 1
    PutMaxAttempts = 2
    Faults = {"put"}
    NoRecord = NoRecord
PROPERTIES TerminalStatesAreFinal
CHECK_DEADLOCK FALSE
