SPECIFICATION FairSpec
CONSTANTS
    m1 = m1
    m2 = m2
    Messages = {m1, m2}
    Calls <- MCCalls
    IpcCalls <- MCIpcCalls
    None = None
    CallLimit = 3
    OtherTurns = 1
    Faults = 1
INVARIANTS TypeOK RunsOnce NoDoubleBubble
PROPERTIES OverlayEnds TurnEndIsShown
CHECK_DEADLOCK FALSE
