SPECIFICATION Spec
CONSTANTS
    Urls = {a, b, c}
    InitialUrls = {a, b, c}
    FailureThreshold = 2
    SuccessThreshold = 1
    MinHealthy = 2
    MaxObjects = 3
    MaxChanges = 2
    Events = {"remove", "update", "stop"}
SYMMETRY UrlSymmetry
INVARIANT TypeOK
PROPERTIES FloorKept FlipsEarned
