SPECIFICATION FairSpec
CONSTANTS
 Runtimes = {codex, claude}
 Primary = codex
 Commands = {r1, r2}
 OneShot = {r2}
 MaxAttempts = 2
 QueueCap = 1
 LinkDrops = 1
 None = None
 Shutdown = Shutdown
INVARIANTS TypeOK
PROPERTIES  EveryCommandAnswered DisconnectStopsWorkers
CHECK_DEADLOCK FALSE
