SPECIFICATION FairSpec
CONSTANTS
    Clients = {c1, c2}
    Requests = {r1}
    None = None
    MaxAttempts = 2
    Invalidations = 1
INVARIANTS TypeOK EarlyRequestFailsFast OneLiveConnection WatchAgrees
PROPERTIES RequestsEnd InvalidateRecycles
CHECK_DEADLOCK FALSE
