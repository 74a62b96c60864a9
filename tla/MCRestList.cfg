SPECIFICATION FairSpec
CONSTANTS
    a = a
    b = b
    c = c
    d = d
    e = e
    Records = {a, b, c, d, e}
    Initial <- ThreeRecords
    Queries <- ManyQueries
    Workloads <- AllWorkloads
    HardPages = 4
    HardRecords = 4
    MaxRetries = 1
    MaxEdits = 2
    None = None
CHECK_DEADLOCK FALSE
INVARIANTS
    ReturnsSnapshot
    OwnWritesSeen
    CollectedOnce
    WithinLimits
PROPERTIES
    Terminates
