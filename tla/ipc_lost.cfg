SPECIFICATION FairSpec
CONSTANTS
    Clients = {c1, c2}
    Requests = {}
    None = None
    MaxAttempts = 0
    Invalidations = 0
PROPERTIES
    LostLinkIsReplaced
CHECK_DEADLOCK FALSE
