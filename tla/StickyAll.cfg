SPECIFICATION Spec
CONSTANTS
    Clients = {c1, c2}
    Urls = {a, b}
    MaxSessions = 2
    Ttl = 2
    UnknownCookiePolicy = "ignore"
    MaxMade = 3
    MaxFlight = 2
    Events = {"health", "foreign", "clear", "loss"}
SYMMETRY ClientUrlSymmetry
INVARIANTS TypeOK SessionsBounded NoSharedSession CookieNamesItsServer
PROPERTIES Affinity SessionsKept
