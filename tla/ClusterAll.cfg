SPECIFICATION Spec
CONSTANTS
    Workers = 2
    MaxWorkers = 3
    RestartWorkers = TRUE
    MaxRestarts = 1
    RespawnThreshold = 2
    ExitOnShutdown = TRUE
    MaxSpawns = 4
    Rolls = {r1}
    MayCrash = {1, 2, 3, 4}
    Events = {"spawnFail", "scale", "signal", "shutdown"}
INVARIANTS TypeOK RegistryIsExact OneProcessPerId NoOrphans RollReplacesOld
PROPERTY KeepsSlots
CHECK_DEADLOCK FALSE
