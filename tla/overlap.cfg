SPECIFICATION FairSpec
CONSTANTS
    None = None
    Servers = {s1}
    Calls = {c1, c2}
    Drops = {d1}
    Asks = {}
    Kinds = {"direct", "bridges"}
    Serialised = FALSE
    QueueCap = 1
    LinkMoves = 0
    Noise = FALSE
INVARIANTS CurrentSessionHasReader StaleReaderEmitsOnce
PROPERTIES
    RetiredIsClosed
CHECK_DEADLOCK FALSE
