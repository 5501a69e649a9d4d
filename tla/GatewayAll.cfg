\* Keys may stop: their clock is bounded.
SPECIFICATION MCSpec
CONSTANTS
    KeyBound = 2
    GracePeriod = 1
    WeakKeys = {}
    Verifiers = {v1}
    KeyClockBound = 3
    SessionIds = {i1, i2, i3}
    Targets = {u1, u2}
    SessionTtl = 1
    SessClockBound = 5
    Nothing = Nothing
    Unseen = Unseen
    GatewayConfigs <- MCGatewayConfigs
    RouteConfigs <- MCRouteConfigs
    RequestSizes <- MCRequestSizes
    RequestInputs <- MCRequestInputs
    ClientHeaders <- MCClientHeaders
    GivenStatuses <- MCGivenStatuses
    HandlerStatuses = {200, 500}
    ByteBits = 2
    V4Bytes = 2
    V6Bytes = 2
    TrustConfigs <- MCTrustConfigs
    KnownRanges <- MCKnownRanges
    Peers <- MCPeers
    ChainEntries <- MCChainEntries
    SingleEntries <- MCSingleEntries
    ChainBound = 3
    NoServer = NoServer
    ServerConfigs <- MCServerConfigs
    ListenBound = 3
    Ports = {80, 443}
    RequestHosts <- MCRequestHosts
INVARIANTS TypeOK VerdictSound GraceHonoured NothingUnchecked AnswersSound  TlsOrNothing
PROPERTIES ImplementsStore RequestsAnswered CloseStopsAll
CHECK_DEADLOCK FALSE
