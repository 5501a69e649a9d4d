---------------------------- MODULE RequestChecks ----------------------------
(***************************************************************************)
(* What the stages of the gateway decide about one request, as operators:  *)
(* the size limiter, the input validator, the authentication middleware,   *)
(* the headers that are forwarded and the status of a failure.             *)
(***************************************************************************)
EXTENDS Naturals, Sequences

-----------------------------------------------------------------------------
(* size-limiter.ts.  A request by the limits it exceeds; "body" is its     *)
(* Content-Length, "length" a Content-Length that is not a number.         *)
SizeOrder == <<"url", "headerCount", "headerSize", "query", "length", "body">>
BodyLimits == {"length", "body"}

(* The limits that are reported, by their place in the order.              *)
SizeErrors(method, exceeded) ==
    {i \in DOMAIN SizeOrder :
        /\ SizeOrder[i] \in exceeded
        /\ SizeOrder[i] \in BodyLimits => method \notin {"GET", "HEAD"}}

First(places) == CHOOSE i \in places : \A j \in places : i <= j

(* By the words of the message: "Header count" has no lower-case "header". *)
SizeStatus == [url |-> 414, headerCount |-> 400, headerSize |-> 431,
               query |-> 414, length |-> 431, body |-> 413]

-----------------------------------------------------------------------------
(* input-validator.ts.  A path by the layers of percent-encoding on it and *)
(* whether they are canonical; what is wrong with the path as it stands    *)
(* ("blocked"), once decoded, or with the headers and the query.           *)
DecodeBudget == 5
InputFaults  == {"blocked", "hidden", "long", "characters", "header", "query"}

Decodes(input) == input.canonical /\ input.layers <= DecodeBudget

(* A path that does not decode throws; what was found before is dropped.   *)
InputVerdict(input) ==
    IF ~Decodes(input) THEN "encoding"
    ELSE IF input.faults = {} THEN "valid" ELSE "invalid"

-----------------------------------------------------------------------------
(* jwt-auth.ts.  modes: the kinds of credential that are configured.       *)
AuthOptions == [modes : SUBSET {"token", "apiKey"}, optional : BOOLEAN]

(* What a request carries.  An API key's validator may throw.              *)
Credentials == [apiKey : {"none", "wrong", "right", "throws"},
                token  : {"none", "wrong", "right"}]

(* Mutant: the API key's answer is tested as optional, like a token's.     *)
AuthVerdictKeyOptional(o, c) ==
    IF "apiKey" \in o.modes /\ c.apiKey # "none"
    THEN IF c.apiKey = "right" \/ o.optional THEN "next" ELSE "unauthorized"
    ELSE IF c.token = "right" \/ o.optional THEN "next" ELSE "unauthorized"

(* The catch lets an optional request pass, unless it carries an API key.  *)
AuthVerdict(o, c) ==
    IF "apiKey" \in o.modes /\ c.apiKey # "none"
    THEN IF c.apiKey = "right" THEN "next" ELSE "unauthorized"
    ELSE IF c.token = "none"
    THEN IF o.optional THEN "next" ELSE "unauthorized"
    ELSE IF "token" \notin o.modes THEN "unauthorized"
    ELSE IF c.token = "right" \/ o.optional THEN "next" ELSE "unauthorized"

-----------------------------------------------------------------------------
(* validateCORSConfig.  A policy is a set of rules, a CORS configuration   *)
(* the set of what is remarkable about it.                                 *)
CorsRefused(policy, cors) ==
    \/ "noWildcardCredentials" \in policy /\ {"wildcard", "credentials"} \subseteq cors
    \/ "requireHttps" \in policy /\ "http" \in cors
    \/ "maxOrigins" \in policy /\ "many" \in cors

-----------------------------------------------------------------------------
(* sanitizeProxyRequest: where each header of the forwarded request comes  *)
(* from.  sent: the headers of the client; named: those its Connection     *)
(* header names; routed: those of route.proxy.headers.                     *)
HopByHop == {"connection", "te", "transfer-encoding", "upgrade"}
Stripped == {"cookie", "authorization", "x-real-ip"}
Derived  == {"x-forwarded-for", "x-forwarded-proto", "x-forwarded-port",
             "x-forwarded-host", "host"}
Plain    == {"accept", "x-custom"}
HeaderNames == HopByHop \cup Stripped \cup Derived \cup Plain

(* Mutant: the derived headers are set before the others are filtered.     *)
ForwardedTooEarly(sent, named, routed) ==
    [h \in HeaderNames |->
        IF h \in routed THEN "route"
        ELSE IF h \in HopByHop \cup named \cup Stripped THEN "absent"
        ELSE IF h \in Derived THEN "gateway"
        ELSE IF h \in sent THEN "client" ELSE "absent"]

Forwarded(sent, named, routed) ==
    [h \in HeaderNames |->
        IF h \in routed THEN "route"
        ELSE IF h \in Derived THEN "gateway"
        ELSE IF h \in HopByHop \cup named \cup Stripped THEN "absent"
        ELSE IF h \in sent THEN "client" ELSE "absent"]

-----------------------------------------------------------------------------
(* error-handler.ts.  An error by the status it brings (statusCode, or     *)
(* status), or 0, and by the words in its name and in its message.         *)
Failure(given, name, message) ==
    [given |-> given, name |-> name, message |-> message]

ErrorWords == {"validation", "unauthorized", "forbidden", "notfound", "not found",
               "timeout", "toolarge", "too large", "invalid", "econnrefused",
               "circuit", "circuit breaker", "circuit is open", "rangeerror"}

StatusPatterns ==
    << <<"name", "validation", 400>>,  <<"name", "unauthorized", 401>>,
       <<"name", "forbidden", 403>>,   <<"name", "notfound", 404>>,
       <<"name", "timeout", 504>>,     <<"name", "toolarge", 413>>,
       <<"message", "not found", 404>>, <<"message", "unauthorized", 401>>,
       <<"message", "forbidden", 403>>, <<"message", "invalid", 400>>,
       <<"message", "timeout", 504>>,  <<"message", "too large", 413>> >>

(* Mutant: there is no default, and Response makes 200 of undefined.       *)
GetStatusCodeNoDefault(e) ==
    LET Hits(i) == LET p == StatusPatterns[i] IN p[2] \in e[p[1]]
        hits    == {i \in DOMAIN StatusPatterns : Hits(i)}
    IN  IF e.given # 0 THEN e.given
        ELSE IF hits = {} THEN 200 ELSE StatusPatterns[First(hits)][3]

(* Its own status, or else the first pattern in this order decides.        *)
GetStatusCode(e) ==
    LET Hits(i) == LET p == StatusPatterns[i] IN p[2] \in e[p[1]]
        hits    == {i \in DOMAIN StatusPatterns : Hits(i)}
    IN  IF e.given # 0 THEN e.given
        ELSE IF hits = {} THEN 500 ELSE StatusPatterns[First(hits)][3]

IsCircuitBreakerError(e) ==
    \/ "circuit" \in e.name
    \/ e.message \cap {"circuit breaker", "circuit is open"} # {}

IsBackendServiceError(e) == ~IsCircuitBreakerError(e) /\ "econnrefused" \in e.message

(* The answer of the error-handling middleware, to a failure of a backend  *)
(* as to any other.  In development the text of the error is part of it,   *)
(* in production a general one.                                            *)
ErrorAnswer(e, production) ==
    [status |-> IF IsCircuitBreakerError(e) THEN 503 ELSE GetStatusCode(e),
     text   |-> IF production THEN "general" ELSE "own"]

=============================================================================
