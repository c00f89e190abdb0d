SPECIFICATION Spec
CONSTANTS
    None = None
    Servers = {s1}
    Calls = {c1, c2}
    Drops = {d1}
    Asks = {}
    Kinds = {"direct", "alleycat", "ssh", "guided"}
    Serialised = TRUE
    QueueCap = 1
    LinkMoves = 0
    Noise = FALSE
SYMMETRY CallSymmetry
INVARIANTS
    NoLeakedSession
    RegisteredHasEntry
PROPERTIES
    SlotSpec
CHECK_DEADLOCK FALSE
