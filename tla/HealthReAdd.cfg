SPECIFICATION Spec
CONSTANTS
    Urls = {a, b}
    InitialUrls = {a, b}
    FailureThreshold = 2
    SuccessThreshold = 2
    MinHealthy = 1
    MaxObjects = 3
    MaxChanges = 3
    Events = {"add", "remove"}
PROPERTY FlipsEarned
