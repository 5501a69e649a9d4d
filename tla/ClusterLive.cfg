SPECIFICATION FairSpec
CONSTANTS
    Workers = 1
    MaxWorkers = 1
    RestartWorkers = TRUE
    MaxRestarts = 1
    RespawnThreshold = 2
    ExitOnShutdown = TRUE
    MaxSpawns = 6
    Rolls = {r1, r2}
    MayCrash = {1, 2}
    Events = {"shutdown"}
INVARIANT RollingKeepsCapacity
PROPERTIES RollsFinish ShutdownTerminates
CHECK_DEADLOCK FALSE
