SPECIFICATION FairSpec
CONSTANTS
    Threads = {t1, t2}
    CallKinds <- ProgramCalls
    TTL = 1
    MaxTime = 1
    MaxCalls = 3
    MaxEdits = 1
    MaxInvalidations = 1
    Defaults = Defaults
    Override = Override
    None = None
CHECK_DEADLOCK FALSE
INVARIANTS
    SingleFlight
    InvalidationForcesFetch
PROPERTIES
    DefaultsExplained
    CallsReturn
