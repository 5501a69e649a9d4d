SPECIFICATION Spec
CONSTANTS
    a = a
    b = b
    c = c
    Urls <- MCUrls
    Weight <- MCWeight
    InitialUrls = {a, b}
    Strategies = {"least-connections"}
    MaxRedirects = 1
    Requests = {r1, r2}
    Latencies = {0}
    Events = {}
PROPERTY FewestActive
CHECK_DEADLOCK FALSE
