SPECIFICATION FairSpec
CONSTANTS
    Ids = {i1, i2}
    None = None
    Interval = 2
    Ttl = 3
    Retries = 1
    Resumes = 1
INVARIANTS
    TypeOK
    NoneForgotten
    PushIsWanted
PROPERTIES
    EventuallyQuiet
CHECK_DEADLOCK FALSE
