SPECIFICATION Spec
CONSTANTS
    Reqs = {r1, r2}
    IdemKeys = {k1}
    Verbs = {"start"}
    JournalIds = {j1, j2}
    Flights = {f1}
    None = None
SYMMETRY Symmetry
INVARIANTS
    AtMostOneCall
    FailedPatchIsRetryable
    JournalTruthful
    CacheAgreesWithJournal
PROPERTIES
    OneCallPerWindow
