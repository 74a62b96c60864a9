SPECIFICATION FairSpec
CONSTANTS
    Reqs = {r1, r2}
    IdemKeys = {k1}
    Verbs = {"delete"}
    JournalIds = {j1}
    Flights = {f1, f2}
    None = None
INVARIANTS
    CancellationClosesEntry
PROPERTIES
    RequestsAnswered
