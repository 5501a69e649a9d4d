SPECIFICATION Spec
CONSTANTS
    Workers = 1
    MaxWorkers = 1
    RestartWorkers = TRUE
    MaxRestarts = 1
    RespawnThreshold = 3
    ExitOnShutdown = TRUE
    MaxSpawns = 4
    Rolls = {}
    MayCrash = {1, 2, 3, 4}
    Events = {}
INVARIANT RestartsBounded
CHECK_DEADLOCK FALSE
