SPECIFICATION FairSpec
CONSTANTS
    t1 = t1
    t2 = t2
    p = p
    q = q
    Tasks = {t1, t2}
    Payloads = {p, q}
    Jobs <- TwoJobs
    Ids = {1, 2, 3, 4, 5, 6}
    MaxRetries = 1
    RefetchRounds = 2
    MaxTrouble = 2
    None = None
CHECK_DEADLOCK FALSE
INVARIANTS
    Converge
    ReachesDesired
    NoNeedlessDuplicate
    LandsOnce
PROPERTIES
    TasksEnd
