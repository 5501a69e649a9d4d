--------------------------- MODULE RequestPipeline ---------------------------
(***************************************************************************)
(* One request on its way through the gateway: the chain of stages that    *)
(* the constructor, use and addRoute of src/src/gateway/gateway.ts build,  *)
(* the final handler of a route with its hooks, and the way back, on which *)
(* a failure is turned into an answer.                                     *)
(*                                                                         *)
(* What a request carries is revealed when the first stage looks at it.    *)
(* Stages written as "return next()" are not on the way back: the promise  *)
(* they return is that of the stages after them.  Only the security        *)
(* headers and the error-handling middleware await it, and fetch.          *)
(***************************************************************************)
EXTENDS RequestChecks

CONSTANTS
    GatewayConfigs, \* the configurations of a gateway that are considered
    RouteConfigs,   \* those of its route
    RequestSizes,   \* the sets of limits that a request may exceed
    RequestInputs,  \* paths, headers and queries as the validator tells them apart
    ClientHeaders,  \* the headers of a client: <<sent, named in Connection>>
    GivenStatuses,  \* what the program's errors say as statusCode or status
    HandlerStatuses, \* the statuses that config.errorHandler answers with
    Nothing,        \* null
    Unseen          \* what no stage has looked at yet

(* What Response takes for a status; it throws a RangeError otherwise.     *)
Statuses == {101} \cup 200..599

GlobalStages == {"rateLimit", "validation", "headers", "auth", "bodyParser"}
RouteStages  == {"routeAuth", "routeRateLimit", "middleware"}
Hooks        == {"beforeRequest", "afterResponse", "onError"}

(* used: the error-handling middleware that the program registers by use,  *)
(* with catchAll or without.  errorHandler: what config.errorHandler does. *)
GatewayConfig ==
    [stages : SUBSET GlobalStages, auth : AuthOptions,
     cors : SUBSET {"on", "wildcard", "credentials", "http", "many"},
     corsPolicy : SUBSET {"noWildcardCredentials", "requireHttps", "maxOrigins"},
     used : {"none", "passing", "production", "development"},
     errorHandler : {"none", "answers", "declines", "throws"}]

RouteConfig ==
    [stages : SUBSET RouteStages, auth : AuthOptions,
     methods : SUBSET {"GET", "POST", "OPTIONS"},
     serves : {"handler", "balanced", "target", "nothing"},
     headers : SUBSET HeaderNames, hooks : SUBSET Hooks]

ASSUME PipelineAssumption ==
    /\ GatewayConfigs \subseteq GatewayConfig
    /\ RouteConfigs \subseteq RouteConfig
    /\ ClientHeaders \subseteq (SUBSET HeaderNames) \X (SUBSET HeaderNames)
    /\ GivenStatuses \subseteq Nat
    /\ HandlerStatuses \subseteq Statuses

(* An answer, and an error that is thrown; null and what is yet unseen are *)
(* unlike anything else.                                                   *)
Answers  == [status : Statuses, text : {"general", "route", "own"}, headed : BOOLEAN]
Failures == [given : GivenStatuses \cup {0}, name : SUBSET ErrorWords,
             message : SUBSET ErrorWords]

ASSUME NothingAssumption ==
    /\ Nothing \notin GatewayConfigs \cup RouteConfigs
    /\ Nothing \notin Answers /\ Nothing \notin Failures
    /\ Unseen \notin RequestSizes \cup RequestInputs \cup Credentials \cup ClientHeaders

VARIABLES
    gatewayConfig, \* the configuration, once the constructor has accepted it
    routeConfig,   \* that of the route, once addRoute has
    chain,         \* the stages before the request, its route's among them
    position,      \* the stage that the request or its answer is at
    fate,          \* "idle", "inward", at a step of the final handler,
                   \* "outward", "answered", or "rejected" by fetch
    request,       \* what is known of the request
    failure,       \* the error that was thrown last, or Nothing
    response,      \* the answer, or Nothing
    passed,        \* history: the stages that let the request through
    reached,       \* history: code of the route has seen the request
    upstream,      \* history: the headers that were forwarded, or Nothing
    told           \* history: the onError hook has been called

configVars   == <<gatewayConfig, routeConfig>>
answerVars   == <<failure, response, told>>
pipelineVars == <<configVars, chain, position, fate, request, answerVars,
                  passed, reached, upstream>>

(* The parts of a request; each is Unseen until a stage has looked at it.  *)
FreshRequest(m) ==
    [method |-> m, exceeded |-> Unseen, input |-> Unseen, credentials |-> Unseen,
     headers |-> Unseen, excused |-> {}]

Answer(status, text) == [status |-> status, text |-> text, headed |-> FALSE]

PipelineInit ==
    /\ gatewayConfig = Nothing /\ routeConfig = Nothing
    /\ chain = <<>> /\ position = 0 /\ fate = "idle"
    /\ request = FreshRequest("GET")
    /\ failure = Nothing /\ response = Nothing
    /\ passed = {} /\ reached = FALSE /\ upstream = Nothing /\ told = FALSE

-----------------------------------------------------------------------------
(* The chain, in the order of registration.  The size limiter is always    *)
(* there; the error-handling middleware is used before the route is added. *)
Registered(on, stage) == IF stage \in on THEN <<stage>> ELSE <<>>

GlobalOn(o) == o.stages \cup {"size"} \cup (IF o.used = "none" THEN {} ELSE {"errors"})
RouteOn(o, r) == r.stages \cup {"handler"} \cup (IF "on" \in o.cors THEN {"cors"} ELSE {})

GlobalChain(o) ==
    LET on == GlobalOn(o)
    IN  Registered(on, "rateLimit") \o Registered(on, "size")
          \o Registered(on, "validation") \o Registered(on, "headers")
          \o Registered(on, "auth") \o Registered(on, "bodyParser")
          \o Registered(on, "errors")

(* Mutant: the route's own middlewares come first.                         *)
RouteChainCustomFirst(o, r) ==
    LET on == RouteOn(o, r)
    IN  Registered(on, "middleware") \o Registered(on, "cors")
          \o Registered(on, "routeAuth") \o Registered(on, "routeRateLimit")
          \o Registered(on, "handler")

RouteChain(o, r) ==
    LET on == RouteOn(o, r)
    IN  Registered(on, "cors") \o Registered(on, "routeAuth")
          \o Registered(on, "routeRateLimit") \o Registered(on, "middleware")
          \o Registered(on, "handler")

RouteMethods(r) == IF r.methods = {} THEN {"GET"} ELSE r.methods

(* createJWTAuth throws without any kind of credential.                    *)
BuildGateway(o) ==
    /\ gatewayConfig = Nothing
    /\ "auth" \in o.stages => o.auth.modes # {}
    /\ gatewayConfig' = o
    /\ UNCHANGED <<routeConfig, chain, position, fate, request, answerVars,
                   passed, reached, upstream>>

(* addRoute throws for a CORS configuration that the policy forbids, and   *)
(* as the constructor does for the authentication.                         *)
AddRoute(r) ==
    /\ gatewayConfig # Nothing /\ routeConfig = Nothing
    /\ "on" \in gatewayConfig.cors =>
           ~CorsRefused(gatewayConfig.corsPolicy, gatewayConfig.cors)
    /\ "routeAuth" \in r.stages => r.auth.modes # {}
    /\ routeConfig' = r
    /\ UNCHANGED <<gatewayConfig, chain, position, fate, request, answerVars,
                   passed, reached, upstream>>

(* A request comes in, for the route's pattern or another one.             *)
Receive(m, matches) ==
    /\ gatewayConfig # Nothing /\ routeConfig # Nothing
    /\ fate \in {"idle", "answered", "rejected"}
    /\ fate' = "inward" /\ position' = 1
    /\ chain' = GlobalChain(gatewayConfig) \o
                (IF matches /\ m \in RouteMethods(routeConfig)
                 THEN RouteChain(gatewayConfig, routeConfig) ELSE <<"default">>)
    /\ request' = FreshRequest(m)
    /\ failure' = Nothing /\ response' = Nothing /\ told' = FALSE
    /\ passed' = {} /\ reached' = FALSE /\ upstream' = Nothing
    /\ UNCHANGED configVars

-----------------------------------------------------------------------------
(* The way in.                                                             *)
Stage == chain[position]
At(some) == fate = "inward" /\ Stage \in some

(* A part of the request, seen by this stage or by one before it.          *)
Look(part, values) ==
    {[request EXCEPT ![part] = v] :
        v \in IF request[part] = Unseen THEN values ELSE {request[part]}}

(* Mutant: a stage lets the request through without calling next.          *)
LetThroughStuck ==
    /\ fate' = "inward"
    /\ position' = IF Stage = "cors" THEN position ELSE position + 1
    /\ passed' = passed \cup {Stage}
    /\ UNCHANGED <<configVars, chain, answerVars, reached, upstream>>

LetThrough ==
    /\ fate' = "inward" /\ position' = position + 1
    /\ passed' = passed \cup {Stage}
    /\ UNCHANGED <<configVars, chain, answerVars, reached, upstream>>

AnswerHere(status, text) ==
    /\ fate' = "outward" /\ response' = Answer(status, text)
    /\ UNCHANGED <<configVars, chain, position, failure, told, passed, upstream>>

FailHere(e) ==
    /\ fate' = "outward" /\ failure' = e
    /\ UNCHANGED <<configVars, chain, position, response, told, passed, upstream>>

Excuse ==
    /\ request' = [request EXCEPT !.excused = @ \cup {Stage}]
    /\ LetThrough

(* The limiter of @jkyberneees/ratelimit behind matchesExcludedPath.       *)
LimitRate ==
    /\ At({"rateLimit", "routeRateLimit"})
    /\ \/ Excuse
       \/ UNCHANGED request /\ LetThrough
       \/ UNCHANGED <<request, reached>> /\ AnswerHere(429, "general")

CheckSize ==
    /\ At({"size"})
    /\ request' \in Look("exceeded", RequestSizes)
    /\ LET errors == SizeErrors(request.method, request'.exceeded) IN
       IF errors = {} THEN LetThrough
       ELSE /\ UNCHANGED reached
            /\ AnswerHere(SizeStatus[SizeOrder[First(errors)]], "general")

ValidateInput ==
    /\ At({"validation"})
    /\ request' \in Look("input", RequestInputs)
    /\ IF InputVerdict(request'.input) = "valid" THEN LetThrough
       ELSE UNCHANGED reached /\ AnswerHere(400, "general")

(* Errors of code that the program gives: any status, or none.             *)
Thrown(name, message) == {Failure(s, name, message) : s \in GivenStatuses}

(* onError, which the program gives, may throw.                            *)
Authenticate ==
    /\ At({"auth", "routeAuth"})
    /\ \/ Excuse
       \/ LET o == IF Stage = "auth" THEN gatewayConfig.auth ELSE routeConfig.auth IN
          /\ request' \in Look("credentials", Credentials)
          /\ IF AuthVerdict(o, request'.credentials) = "next" THEN LetThrough
             ELSE /\ UNCHANGED reached
                  /\ \/ AnswerHere(401, "general")
                     \/ \E e \in Thrown({}, {}) : FailHere(e)

(* The security headers and the error handling act on the way back.        *)
Await ==
    /\ At({"headers", "errors"})
    /\ LetThrough /\ UNCHANGED request

(* The body parser and CORS, both libraries: a body that does not parse,   *)
(* and a preflight request, are answered.                                  *)
ParseBody ==
    /\ At({"bodyParser"})
    /\ UNCHANGED request
    /\ \/ LetThrough
       \/ UNCHANGED reached /\ AnswerHere(400, "general")

ApplyCors ==
    /\ At({"cors"})
    /\ UNCHANGED request
    /\ IF request.method = "OPTIONS"
       THEN UNCHANGED reached /\ AnswerHere(204, "general")
       ELSE LetThrough

(* A middleware of the program: it calls next, answers or throws.          *)
RunMiddleware ==
    /\ At({"middleware"})
    /\ UNCHANGED request
    /\ \/ /\ fate' = "inward" /\ position' = position + 1
          /\ passed' = passed \cup {Stage} /\ reached' = TRUE
          /\ UNCHANGED <<configVars, chain, answerVars, upstream>>
       \/ reached' = TRUE /\ AnswerHere(200, "route")
       \/ reached' = TRUE /\ \E e \in Thrown({}, {"invalid"}) : FailHere(e)

(* No route, or not for this method: the default route.                    *)
DefaultRoute ==
    /\ At({"default"})
    /\ AnswerHere(404, "general") /\ UNCHANGED <<request, reached>>

-----------------------------------------------------------------------------
(* The final handler.                                                      *)
Hooked(h) == h \in routeConfig.hooks
HookFailures == Thrown({"validation"}, {})

(* Its try block: a step succeeds, or throws to the catch.                 *)
Proceed(to) ==
    /\ fate' = to
    /\ UNCHANGED <<configVars, chain, position, failure, told, passed>>
Throw(e) ==
    /\ fate' = "catch" /\ failure' = e
    /\ UNCHANGED <<configVars, chain, position, response, told, passed>>

BeforeRequest ==
    /\ At({"handler"})
    /\ reached' = TRUE
    /\ UNCHANGED <<request, response, upstream>>
    /\ \/ Proceed("serve")
       \/ Hooked("beforeRequest") /\ \E e \in HookFailures : Throw(e)

CallHandler ==
    /\ fate = "serve" /\ routeConfig.serves = "handler"
    /\ UNCHANGED <<request, reached, upstream>>
    /\ \/ Proceed("after") /\ response' = Answer(200, "route")
       \/ \E e \in Thrown({}, {"not found"}) : Throw(e)

(* Mutant: a route that serves nothing falls through without an answer.    *)
NotImplementedSilent ==
    /\ fate = "serve" /\ routeConfig.serves = "nothing"
    /\ Proceed("after")
    /\ UNCHANGED <<request, response, reached, upstream>>

NotImplemented ==
    /\ fate = "serve" /\ routeConfig.serves = "nothing"
    /\ Proceed("after") /\ response' = Answer(501, "general")
    /\ UNCHANGED <<request, reached, upstream>>

(* selectTarget finds no healthy target.                                   *)
NoTarget ==
    /\ fate = "serve" /\ routeConfig.serves = "balanced"
    /\ Throw(Failure(0, {}, {}))
    /\ UNCHANGED <<request, reached, upstream>>

(* pathRewrite, which the program may give, or the making of the request   *)
(* for the upstream throws before anything is sent.                        *)
NotProxied ==
    /\ fate = "serve" /\ routeConfig.serves \in {"balanced", "target"}
    /\ \E e \in Thrown({}, {"invalid"}) : Throw(e)
    /\ UNCHANGED <<request, reached, upstream>>

(* What fetch-gate throws: an open circuit, a refused connection, a        *)
(* timeout.                                                                *)
UpstreamFailures == {Failure(0, {}, {"circuit breaker"}),
                     Failure(0, {}, {"econnrefused"}), Failure(0, {"timeout"}, {})}

(* It tells the hook of a failure before it throws, or answers itself.     *)
Proxy ==
    /\ fate = "serve" /\ routeConfig.serves \in {"balanced", "target"}
    /\ request' \in Look("headers", ClientHeaders)
    /\ upstream' = Forwarded(request'.headers[1], request'.headers[2],
                             routeConfig.headers)
    /\ UNCHANGED reached
    /\ \/ Proceed("after") /\ response' = Answer(200, "route")
       \/ Proceed("after") /\ response' = Answer(502, "general")
       \/ \E e \in UpstreamFailures : Throw(e)

AfterResponse ==
    /\ fate = "after"
    /\ UNCHANGED <<request, reached, upstream>>
    /\ \/ Proceed("outward") /\ UNCHANGED response
       \/ /\ Hooked("afterResponse")
          /\ fate' = "catch" /\ failure' \in HookFailures /\ response' = Nothing
          /\ UNCHANGED <<configVars, chain, position, told, passed>>

(* Mutant: the hook is told only of what the upstream did.                 *)
ToldOfUpstream == Hooked("onError") /\ upstream # Nothing
Told == Hooked("onError")

(* The catch: the hook, which may throw instead, and the error again.      *)
OnErrorHook ==
    /\ fate = "catch"
    /\ fate' = "outward"
    /\ told' = Told
    /\ \/ UNCHANGED failure
       \/ Told /\ failure' \in HookFailures
    /\ UNCHANGED <<configVars, chain, position, request, response, passed,
                   reached, upstream>>

-----------------------------------------------------------------------------
(* The way back, to the nearest stage that awaits the stages after it.     *)
Awaiting == {i \in 1..(position - 1) : chain[i] \in {"headers", "errors"}}
Nearest  == CHOOSE i \in Awaiting : \A j \in Awaiting : j <= i

ApplyHeaders ==
    /\ fate = "outward" /\ Awaiting # {} /\ chain[Nearest] = "headers"
    /\ position' = Nearest
    /\ response' = IF response = Nothing THEN Nothing
                   ELSE [response EXCEPT !.headed = TRUE]
    /\ UNCHANGED <<configVars, chain, fate, request, failure, told, passed,
                   reached, upstream>>

(* What the middleware throws itself when it cannot make its answer.       *)
Unanswerable == Failure(0, {"rangeerror"}, {})

(* The error-handling middleware, its own onError being guarded.  Response *)
(* refuses some of the statuses that an error may say, and in development  *)
(* the URL of the backend, taken from the error, may not parse.            *)
HandleFailure ==
    /\ fate = "outward" /\ Awaiting # {} /\ chain[Nearest] = "errors"
    /\ position' = Nearest
    /\ LET a == ErrorAnswer(failure, gatewayConfig.used = "production") IN
       IF response # Nothing \/ gatewayConfig.used = "passing"
       THEN UNCHANGED <<response, failure>>
       ELSE \/ /\ a.status \in Statuses
               /\ response' = Answer(a.status, a.text) /\ UNCHANGED failure
            \/ /\ \/ a.status \notin Statuses
                  \/ gatewayConfig.used = "development" /\ IsBackendServiceError(failure)
               /\ failure' = Unanswerable /\ UNCHANGED response
    /\ UNCHANGED <<configVars, chain, fate, request, told, passed, reached, upstream>>

Answered(a) == [fate |-> "answered", response |-> a]
Rejected    == [fate |-> "rejected", response |-> Nothing]

(* Mutant: fetch returns the promise of the router without awaiting it.    *)
SettledUnawaited ==
    IF response # Nothing THEN {Answered(response)} ELSE {Rejected}

(* fetch: the answer of the router, or handleError's for its failure,      *)
(* which is any Response that config.errorHandler returns.                 *)
Settled ==
    IF response # Nothing THEN {Answered(response)}
    ELSE CASE gatewayConfig.errorHandler = "throws"  -> {Rejected}
           [] gatewayConfig.errorHandler = "answers" ->
                  {Answered(Answer(s, "route")) : s \in HandlerStatuses}
           [] OTHER -> {Answered(Answer(500, "general"))}

FetchSettles ==
    /\ fate = "outward" /\ Awaiting = {}
    /\ \E s \in Settled : fate' = s.fate /\ response' = s.response
    /\ UNCHANGED <<configVars, chain, position, request, failure, told, passed,
                   reached, upstream>>

HandlerStep == \/ BeforeRequest \/ CallHandler \/ NotImplemented \/ NoTarget
               \/ NotProxied \/ Proxy \/ AfterResponse \/ OnErrorHook
PipelineStep == \/ LimitRate \/ CheckSize \/ ValidateInput \/ Authenticate
                \/ Await \/ ParseBody \/ ApplyCors \/ RunMiddleware
                \/ DefaultRoute \/ HandlerStep
                \/ ApplyHeaders \/ HandleFailure \/ FetchSettles

PipelineNext ==
    \/ \E o \in GatewayConfigs : BuildGateway(o)
    \/ \E r \in RouteConfigs : AddRoute(r)
    \/ \E m \in {"GET", "POST", "OPTIONS"}, matches \in BOOLEAN : Receive(m, matches)
    \/ PipelineStep

PipelineSpec == PipelineInit /\ [][PipelineNext]_pipelineVars
                /\ WF_pipelineVars(PipelineStep)

-----------------------------------------------------------------------------
(* The types of the variables; an answer or a failure goes outward.        *)
PipelineTypeOK ==
    /\ gatewayConfig \in GatewayConfigs \cup {Nothing}
    /\ routeConfig \in RouteConfigs \cup {Nothing}
    /\ fate \in {"idle", "inward", "serve", "after", "catch", "outward",
                 "answered", "rejected"}
    /\ fate # "idle" => position \in 1..Len(chain)
    /\ fate \in {"after", "answered"} => response # Nothing
    /\ fate = "outward" => response # Nothing \/ failure # Nothing
    /\ response \in Answers \cup {Nothing} /\ failure \in Failures \cup {Nothing}
    /\ reached \in BOOLEAN /\ told \in BOOLEAN

(* What a configured authentication asks of a request, put without the     *)
(* order of its tests: an API key that is sent has to be right, a request  *)
(* that sends nothing needs a good credential unless they are optional.    *)
Entitled(o, c) ==
    /\ "apiKey" \in o.modes => c.apiKey \in {"none", "right"}
    /\ \/ "apiKey" \in o.modes /\ c.apiKey = "right"
       \/ "token" \in o.modes /\ c.token = "right"
       \/ o.optional

Checked(stage, o) ==
    \/ stage \in request.excused
    \/ request.credentials # Unseen /\ Entitled(o, request.credentials)

(* Code of the route, a middleware, a hook or the handler, sees a request  *)
(* only after every check that is configured: sizes, input, both           *)
(* authentications and both rate limits.  And what goes upstream carries   *)
(* no address, host, credential or hop-by-hop header of the client's.      *)
NothingUnchecked ==
    /\ reached =>
          /\ SizeErrors(request.method, request.exceeded) = {}
          /\ "validation" \in gatewayConfig.stages =>
                /\ request.input.layers <= DecodeBudget
                /\ request.input.faults = {}
          /\ "auth" \in gatewayConfig.stages => Checked("auth", gatewayConfig.auth)
          /\ "routeAuth" \in routeConfig.stages =>
                Checked("routeAuth", routeConfig.auth)
          /\ {"rateLimit"} \cap gatewayConfig.stages \subseteq passed
          /\ {"routeRateLimit"} \cap routeConfig.stages \subseteq passed
    /\ upstream # Nothing =>
          /\ \A h \in HeaderNames \ Plain : upstream[h] # "client"
          /\ \A h \in Derived : upstream[h] \in {"gateway", "route"}
          /\ \A h \in request.headers[2] : upstream[h] # "client"

(* fetch rejects only if the program's own errorHandler throws.  A failure *)
(* reaches the client as an error, unless the program asks for something   *)
(* else: its errorHandler answers, or the error that it threw says which   *)
(* status to answer with.  In its own words it comes only through an error *)
(* handling set to development; the route's onError hook has heard of      *)
(* every failure of the final handler; and every answer that comes back    *)
(* past the security headers carries them, that of a failure only if the   *)
(* error-handling middleware has made it.                                  *)
Repaired == /\ gatewayConfig.used \in {"production", "development"}
            /\ "errors" \in passed /\ failure # Unanswerable
Asked    == IF Repaired THEN response.status = failure.given
                        ELSE gatewayConfig.errorHandler = "answers"

AnswersSound ==
    /\ fate = "rejected" => gatewayConfig.errorHandler = "throws"
    /\ fate = "answered" =>
          /\ failure # Nothing => response.status >= 400 \/ Asked
          /\ response.text = "own" => gatewayConfig.used = "development"
          /\ response.headed <=>
                "headers" \in passed /\ (failure = Nothing \/ Repaired)
    /\ fate = "outward" /\ failure # Nothing /\ Stage = "handler" =>
          (Hooked("onError") => told)

(* Every request is answered, or rejected by the program's errorHandler,   *)
(* if what the gateway awaits is settled: the upstream, which has a        *)
(* timeout, and the functions that the program gives.                      *)
RequestsAnswered == (fate = "inward") ~> (fate \in {"answered", "rejected"})

=============================================================================
