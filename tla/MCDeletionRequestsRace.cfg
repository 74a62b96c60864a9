SPECIFICATION Spec
CONSTANTS
    Reqs = {r1, r2}
    MaxRequests = 3
    None = None
PROPERTIES
    ExecuteRequiresApproved
