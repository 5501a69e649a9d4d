SPECIFICATION Spec
CONSTANTS
    Workers = 2
    MaxWorkers = 1
    RestartWorkers = TRUE
    MaxRestarts = 1
    RespawnThreshold = 2
    ExitOnShutdown = TRUE
    MaxSpawns = 3
    Rolls = {}
    MayCrash = {1, 2}
    Events = {"shutdown"}
PROPERTY RestartsOnlyIfWanted
CHECK_DEADLOCK FALSE
