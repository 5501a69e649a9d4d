SPECIFICATION Spec
CONSTANTS
    a = a
    b = b
    c = c
    Urls <- MCUrls
    Weight <- MCWeight
    InitialUrls = {a, c}
    Strategies = {"round-robin", "least-connections", "p2c", "latency", "weighted-least-connections", "any"}
    MaxRedirects = 1
    Requests = {r1, r2, r3}
    Latencies = {0, 1}
    Events = {"add", "remove", "health", "sticky"}
SYMMETRY Symmetry
INVARIANTS TypeOK NeverOvercharged CountsExact RoundRobinFair
PROPERTY LoadAware
