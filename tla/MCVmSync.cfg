SPECIFICATION Spec
CONSTANTS
    LastVm = 2
    Run = {r1, r2}
    MaxId = 4
    MaxActive = 2
    MaxFaults = 2
    None = None
SYMMETRY Symmetry
CHECK_DEADLOCK FALSE
INVARIANTS
    SweepSparesSynced
    BoundToItsGuest
    IdentityUnique
    SweepExplained
    NamesCoexist
