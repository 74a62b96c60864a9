SPECIFICATION Spec
CONSTANTS
    Reqs = {r1, r2}
    IdemKeys = {k1}
    Verbs = {"snapshot", "migrate", "migrate_cancel"}
    JournalIds = {j1}
    Flights = {f1, f2}
    None = None
SYMMETRY Symmetry
INVARIANTS
    SuccessIsAudited
