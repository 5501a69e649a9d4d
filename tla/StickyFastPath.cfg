SPECIFICATION Spec
CONSTANTS
    Clients = {c1}
    Urls = {a, b}
    MaxSessions = 2
    Ttl = 2
    UnknownCookiePolicy = "ignore"
    MaxMade = 3
    MaxFlight = 1
    Events = {"health"}
INVARIANT ActiveSessionsLive
