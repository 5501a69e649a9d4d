------------------------------ MODULE MCGateway ------------------------------
(* Model checking of Gateway: its configurations and addresses.  The parts *)
(* share no variable, and every property is about one of them, so that it  *)
(* is enough to let each move while the others stand still: which one it   *)
(* is, is chosen at the start of a behaviour.                              *)
EXTENDS Gateway

VARIABLE part
MCParts == {"keys", "sessions", "requests", "addresses", "lifecycle"}
MCInit  == part \in MCParts /\ GatewayInit
MCNext  == /\ UNCHANGED part
           /\ \/ part = "keys" /\ KeysMove
              \/ part = "sessions" /\ SessionsMove
              \/ part = "requests" /\ RequestsMove
              \/ part = "addresses" /\ AddressesMove
              \/ part = "lifecycle" /\ LifecycleMove
MCSpec  == MCInit /\ [][MCNext]_<<part, gatewayVars>> /\ WF_pipelineVars(PipelineStep)

(* Configurations.  Authentication: by token, by either kind and optional, *)
(* by key and optional, and without any kind, which is refused.            *)
ByToken  == [modes |-> {"token"}, optional |-> FALSE]
Either   == [modes |-> {"token", "apiKey"}, optional |-> TRUE]
ByKey    == [modes |-> {"apiKey"}, optional |-> FALSE]
Neither  == [modes |-> {}, optional |-> FALSE]

GatewayOf(s, a, c, u, e) ==
    [stages |-> s, auth |-> a, cors |-> c, corsPolicy |-> {"noWildcardCredentials"},
     used |-> u, errorHandler |-> e]
MCGatewayConfigs ==
    { GatewayOf(GlobalStages, ByToken, {"on"}, "production", "none"),
      GatewayOf(GlobalStages, Either, {}, "none", "throws"),
      GatewayOf({"headers"}, Neither, {"on", "wildcard", "credentials"}, "none", "none"),
      GatewayOf({"headers"}, Neither, {"on", "wildcard"}, "development", "answers"),
      GatewayOf({"auth"}, ByKey, {}, "passing", "declines"),
      GatewayOf({"auth"}, Neither, {}, "none", "none") }

Route(s, a, ms, v, hs, ks) ==
    [stages |-> s, auth |-> a, methods |-> ms, serves |-> v, headers |-> hs, hooks |-> ks]
MCRouteConfigs ==
    { Route(RouteStages, Either, {"GET", "POST"}, "balanced", {"host", "cookie"}, Hooks),
      Route({"middleware"}, Neither, {"GET", "OPTIONS"}, "handler", {}, Hooks),
      Route({"routeAuth"}, ByKey, {"POST"}, "target", {}, {"onError"}),
      Route({}, Neither, {}, "nothing", {}, {}),
      Route({"routeAuth"}, Neither, {}, "nothing", {}, {}) }

MCRequestSizes   == { {}, {"headerCount", "body"}, {"length"} }
MCRequestInputs  == [layers : {DecodeBudget, DecodeBudget + 1}, canonical : {TRUE},
                     faults : { {}, {"hidden"} }]
                    \cup {[layers |-> 0, canonical |-> FALSE, faults |-> {}]}
MCClientHeaders  == { <<{"cookie", "accept", "x-custom", "te"}, {}>>,
                      <<{"x-custom", "x-forwarded-for"}, {"x-custom", "x-forwarded-for"}>> }

MCGivenStatuses  == {0, 200, 700}

(* Addresses of two octets, or two bytes, of two bits each.                *)
Word(a, b)   == <<a \div 2, a % 2, b \div 2, b % 2>>
Dotted(a, b) == IPv4(Word(a, b), "dotted")
NotAnAddress == NotAnIP("text")
MCPeers == { Dotted(2, 1), Dotted(2, 3), Dotted(3, 1),
             IPv6(Word(1, 2), "full"), IPv6(Word(1, 0), "short") }
MCChainEntries  == MCPeers \cup {NotAnAddress}
MCSingleEntries == { NoAddress, NotAnAddress, Dotted(1, 1) }
MCNetworks == { Cidr(Dotted(2, 1), p) : p \in -1..5 }
              \cup { Cidr(IPv6(Word(1, 2), "full"), p) : p \in -1..5 }
MCKnownRanges == { Cidr(Dotted(3, 0), 2) }
Trusting(n, k, d, x) ==
    [enabled |-> TRUE, trustAll |-> FALSE, trustedIPs |-> n, networks |-> k,
     maxDepth |-> d, trustCloudflare |-> ~x, trustXRealIP |-> x]
MCTrustConfigs ==
    { Trusting({n}, {"known", "other"}, 0, TRUE) : n \in MCNetworks }
    \cup { Trusting({n}, {"other"}, 2, FALSE) : n \in MCNetworks }
    \cup { [Trusting({}, {"known"}, 0, TRUE) EXCEPT !.enabled = e, !.trustAll = e] :
           e \in BOOLEAN }

Ours(sub) == [domain |-> "ours", sub |-> sub]
MCRequestHosts == { Ours(FALSE), Ours(TRUE), [domain |-> "theirs", sub |-> FALSE] }
TlsOff ==
    [enabled |-> FALSE, cert |-> "none", key |-> "none", ca |-> "none",
     minVersion |-> "none", emptyCiphers |-> FALSE, requestCert |-> FALSE,
     redirectHTTP |-> FALSE, redirectPort |-> 0]
TlsOn == [TlsOff EXCEPT !.enabled = TRUE, !.cert = "file", !.key = "file",
                        !.redirectHTTP = TRUE, !.redirectPort = 80]
Serving(p, t) ==
    [process |-> p, tls |-> t, entropyBits |-> 128, ttl |-> 1, maxBodySize |-> 1,
     maxHeaderSize |-> 1, trustAll |-> FALSE, wildcardCredentials |-> FALSE,
     redisMissing |-> FALSE, hostname |-> NoServer, allowHosts |-> {}]
MCServerConfigs ==
    { Serving("single", TlsOff), Serving("worker", TlsOff), Serving("worker", TlsOn),
      Serving("master", TlsOn),
      [Serving("single", TlsOn) EXCEPT !.hostname = Ours(FALSE)],
      [Serving("single", [TlsOn EXCEPT !.ca = "file", !.requestCert = TRUE,
                                       !.cert = "buffer"])
          EXCEPT !.allowHosts = {[host |-> Ours(FALSE), wild |-> TRUE]}],
      Serving("single", [TlsOn EXCEPT !.key = "none"]),
      Serving("single", [TlsOn EXCEPT !.redirectPort = 70000]),
      [Serving("single", TlsOff) EXCEPT !.entropyBits = 64] }

=============================================================================
