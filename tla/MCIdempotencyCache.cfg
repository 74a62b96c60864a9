SPECIFICATION FairCacheSpec
CONSTANTS
    Clients = {c1, c2, c3}
    Keys = {k1, k2}
    Flights = {f1, f2, f3}
    Bodies = {b1}
    None = None
INVARIANTS
    SingleFlight
    NoFlightLeak
PROPERTIES
    WaiterProgress
