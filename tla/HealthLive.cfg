SPECIFICATION MCFairSpec
CONSTANTS
    Urls = {a, b, c, d}
    InitialUrls = {a, b, c}
    FailureThreshold = 2
    SuccessThreshold = 1
    MinHealthy = 3
    MaxObjects = 4
    MaxChanges = 2
    Events = {"add", "remove"}
PROPERTIES PoolConverges RoundsEnd FlipsFollowUrl FloorDueKept
