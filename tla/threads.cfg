SPECIFICATION MCFairSpec
CONSTANTS
    None = None
    c1 = c1
    x = x
    y = y
    Threads = {x, y}
    Runtimes = {codex, pi}
    Codex = codex
    RuntimeOf <- MCRuntimeOf
    Calls = {c1, c2}
    Kinds <- MCKinds
    ToolLimit = 1
    MaxChanges = 1
INVARIANTS TurnIsNotIdle
PROPERTIES PruneSparesLiving FreshListAgrees ListCallsEnd
CHECK_DEADLOCK FALSE
