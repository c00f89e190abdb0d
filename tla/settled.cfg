SPECIFICATION FairSpec
CONSTANTS
    None = None
    Servers = {s1}
    Calls = {c1}
    Drops = {d1}
    Asks = {a1}
    Kinds = {"ssh", "guided"}
    Serialised = FALSE
    QueueCap = 2
    LinkMoves = 2
    Noise = TRUE
INVARIANTS
    SettledHealth
PROPERTIES
    LossIsShown
CHECK_DEADLOCK FALSE
