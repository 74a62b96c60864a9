SPECIFICATION FairSpec
CONSTANTS
    Sessions = {s1, s2}
    Handlers = {h1, h2}
    MaxSessions = 1
    TicketTTL = 1
    IdleTimeout = 1
    MaxLifetime = 2
    MaxTime = 3
    None = None
CHECK_DEADLOCK FALSE
INVARIANTS
    OneRelayPerTicket
    CapacityKept
    NoSlotLeak
PROPERTIES
    SessionEnds
