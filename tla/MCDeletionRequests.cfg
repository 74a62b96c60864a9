SPECIFICATION Spec
CONSTANTS
    Reqs = {r1, r2, r3}
    MaxRequests = 4
    None = None
SYMMETRY Symmetry
INVARIANTS
    DestroyWasApproved
    OutcomeIsTrue
    AtMostOneDestroy
