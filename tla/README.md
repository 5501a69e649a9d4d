# A formal model of bungate

bungate is an API gateway for the Bun runtime: a master process that manages
worker processes, and in every worker a router with security middlewares, load
balancers with health checks and sticky sessions, and proxies. This directory
holds TLA+ models of its stateful parts, the TLC runs that check them, and
proofs checked by TLAPS. Paths such as `cluster-manager.ts:297` are relative to
their directory under `src/src/`.

## 1. Inventory

| Component | State it keeps | Operations | Talks to | What is hard about it |
|---|---|---|---|---|
| Cluster manager `cluster/cluster-manager.ts` | the Map of workers (id, process, restart counters, `isExiting`), `nextWorkerId`, `isShuttingDown`, `started` | start, spawn, exit callback with delayed restart, rolling restart on SIGUSR2, graceful shutdown on SIGINT and SIGTERM, scaleTo/Up/Down, signals to workers | the OS: spawn, kill, exits, timers; `gateway.listen` | restarts wait up to 30 s between decision and spawn; a rolling restart holds references across timers; shutdown races both; an id is reused |
| Load balancer, pool and health `load-balancer/http-load-balancer.ts` | the Map of targets with health, counters; the round flag, the interval | add, remove and update a target, rounds of probes, start, stop, destroy | backends over fetch; selectTarget reads `healthy` | probes end in any order, after the pool has changed; a floor of healthy targets |
| Load balancer, sticky sessions (same file) | the Map of sessions, cap, TTL, policy | lookup, refresh, create, evict, clean up | the gateway attaches the Set-Cookie after the upstream answers | concurrent requests of a client; expiry against presence; cookies of other workers |
| Load balancer, strategies and statistics (same file) | round-robin index, connections, response times, request counts | eight strategies, increment, decrement, record | the gateway's proxy hooks | counts of removed targets; a changing pool under an index |
| Gateway `gateway/gateway.ts` | router, Maps of proxies and balancers, server, managers | constructor, addRoute, request pipeline, listen, close | all the others | which middleware awaits the ones after it; error paths; awaits in listen; what close does not close |
| Gateway proxy `proxy/gateway-proxy.ts` | options | proxy with a redirect loop | fetch-gate (external: circuit breaker, pools) | redirect bound, hooks called once per hop |
| JWT key rotation `security/jwt-key-rotation*.ts` | list of keys (primary, deprecated, expiry), JWKS cache, timer | sign, verify, rotate, clean up, refresh | jose (external) | verification awaits while keys rotate; a fallback primary |
| JWT authentication `security/jwt-auth.ts` | none | decision per request | jose | order of the checks: keys before tokens, exclusions, optional requests, the catch |
| Session manager `security/session-manager.ts` | Map of sessions, timer | create, get, refresh, regenerate, delete, clean up, get-or-create | load balancer uses its id generator | lazy expiry, tested by several operations on several readings of the clock |
| Trusted proxies, addresses `security/trusted-proxy.ts`, `utils.ts` | CIDR lists | walk of the forwarded chain, CIDR matching | gateway, ip-hash | edges of the prefix, order of the walk |
| Size limiter `security/size-limiter*.ts` | limits | checks per request | pipeline | order of checks, status of each |
| Error handling `security/error-handler*.ts` | none | status and text of an error, middleware | pipeline | which failures pass it, and which only `fetch` |
| Input validation, security headers | none | checks of path, headers, query; headers of an answer | pipeline | when a path counts as decoded; which answers come back past the headers |
| Logger, configuration | the configuration | merge, validation | all | not a matter for a model checker, except what construction refuses |
| TLS manager, HTTP redirect | certificates, a second server | load, validate, start, stop | gateway.listen, close | the files are read twice; the second server can fail after the first has started |

What makes each correct:

* **Cluster**: the Map is exactly the set of workers not yet accounted for; an
  id names one process; a rolling restart replaces what ran and never costs
  capacity; a shutdown ends, and leaves nothing behind.
* **Health**: a target's health is earned by its own results; failing targets
  never take the pool below the floor; the pool comes to agree with the
  backends; a round always ends.
* **Sticky sessions**: bounded; private to a client; the cookie names the server
  that answered; a live session is followed and kept.
* **Routing**: every connection counted is uncounted once, at the target it was
  counted at; the round robin is fair; the strategies err about the load of a target only
  by the requests whose redirect is followed.
* **Keys**: a verification agrees with the keys at some moment of it, though it
  awaits while they change; a token signed now verifies until its key's grace is
  over.
* **Sessions**: the callers see a store that drops a session the moment it
  expires, unless an operation has just found it alive and is about to renew or
  replace it, and that never takes an id back.
* **Addresses**: a client's address does not depend on what the client sends.
* **Pipeline**: the route's code sees no request that a configured check has not
  passed; every request is answered, a failure as a success only if the program
  itself says so, and no answer betrays a failure's own words.
* **Life cycle**: TLS or nothing; closing stops every server that was started.

## 2. Modules

| Module | Role |
|---|---|
| `ClusterManager` | the master process |
| `WorkerSlots` | abstract specification: the life cycle of a worker id |
| `MCClusterManager` | instance for TLC |
| `ClusterManagerProofs` | the registry, orphans, rolling restarts, capacity and the refinement of `WorkerSlots`, proved |
| `HealthCheck` | target pool and health checks |
| `MCHealthCheck` | instance for TLC, with the symmetry of URLs |
| `HealthCheckProofs` | the floor and the flips of health, with and without additions at runtime, proved |
| `StickySessions` | session map, cookies, answers in flight |
| `MCStickySessions` | instance for TLC, with the symmetry of clients and URLs |
| `StickySessionsProofs` | the cap, privacy, affinity and life of sessions, proved |
| `Routing` | strategies, connection counts, hooks and redirects |
| `MCRouting` | instance for TLC, with the symmetry of requests and of two targets |
| `RoutingProofs` | the counts, the choices that rest on them and the round robin, proved |
| `JwtKeyRotation` | keys, signing, verification across awaits |
| `JwtKeyRotationProofs` | verdicts and the grace period, proved |
| `SessionStore` | abstract specification: a store with eager expiry |
| `SessionManager` | the session map with its lazy expiry |
| `RequestChecks` | operators: what each stage decides about a request |
| `RequestPipeline` | one request through the stages, the handler and back |
| `RequestPipelineProofs` | nothing unchecked and sound answers, proved |
| `AddressMatch` | operators: CIDR matching on the bits of words, and its reference definition |
| `TrustedProxy` | the client's address from peer, chain and headers |
| `ClientProofs` | that `SessionManager` implements `SessionStore`; that CIDR matching is what it should be, and the client's address; proved |
| `GatewayLifecycle` | construction, listen, close, certificates, redirect server |
| `Gateway` | the composition of keys, sessions, requests, addresses and life cycle |
| `GatewayProofs` | TLS or nothing, what close stops, and the types of the whole process, proved |
| `MCGateway` | instance for TLC of `Gateway` |

`ClusterManager`, `HealthCheck`, `StickySessions` and `Routing` each hold the part
of the composition their properties need: `Routing` has the gateway's handler, the
proxy's redirect loop and the pool together, `StickySessions` the selection and
the answers. The five parts in `Gateway` share no state in the code. They are put
side by side, and any of them may move at any time (`GatewayNext`). For TLC,
`MCGateway` chooses at the start of a behaviour which one moves (`part`): every
property is about the variables of one part, so that interleaving them would only
multiply states. That each part behaves in `GatewaySpec` as it does alone
follows from how the parts are put together and says nothing about the code, so it
is only a lemma (`PartsAlone`).

A definition whose comment begins with "Mutant" is a plausible bug; nothing
uses it in the specification. It stands before the definition it varies, and
each checked property is known to fail under one of them.

### 2.1 ClusterManager

JavaScript runs to completion, so an action is what the code does between two
awaits that really wait. `spawnWorker` is `async` but awaits nothing, so a loop
over it (start, scaleTo) is one action; `handleWorkerExit` is two
(`HandleWorkerExit`, then `Respawn` after the delay), an iteration of
`restartAllWorkers` is two (`RollLoop` up to the first 250 ms wait, `RollKill`),
and `gracefulShutdown` is three: the marking (`GracefulShutdown`), the poll
(`ShutdownPoll`) and the timer (`ShutdownTimeout`), which nobody clears.

A **handle** is one call of `spawnWorker`, with its `WorkerInfo` (`info[h]`) and
its subprocess (`proc[h]`). `workers` is the Map, as the set of handles that are
registered under their ids; a Map entry that is overwritten (`set` with an id
that is there) drops the other handle. `pending` are the handles that wait out
the restart delay. Backoff and jitter are a wait of any length; the sliding
window of `respawnThreshold` is a choice of how many stamps it still keeps.
After SIGTERM a worker may end at any time or never. A worker that was sent
nothing may still end, if `MayCrash` has its handle.

`configured` is `config.workers`, which `scaleTo` overwrites.

`KeepsSlots` is a refinement: `ClusterManager` implements `WorkerSlots`, where an
id goes from unused to up, between up and backoff, and to gone for ever.

### 2.2 HealthCheck

A target **object** is what `addTarget` makes; `targets` maps a URL to the object
the pool holds now. A round (`StartRound`) captures the objects and the floor;
a probe (`ProbeEnds`) counts its result on the captured object and applies the
thresholds to the URL, that is to whatever object is there then. `RoundEnds` is
the `finally` after `allSettled`. `AddTarget` replaces an object under the same
URL as `Map.set` does. `good[u]` says what a probe of u returns (a 200 with the
expected body, or anything else, an abort of the timeout included) and changes
at any time, `MaxChanges` times in all. `results` is a history variable with the last results of
each object.

The configured targets may start healthy or not (`healthy: false` in the
configuration), each by itself. `HealthSafe` starts from every mix; `HealthLive`
from three healthy ones, numbered one way, since a temporal property rules
out the symmetry that would make the mixes cheap.

The counters saturate at their thresholds in the model; the code only compares
them with the thresholds, so nothing is lost.

### 2.3 StickySessions

`selectTarget` is one step per request, in its three forms: `SingleHealthy` (the
fast path), `StickyHit`, and `StrategyChoice`, where any healthy target may be
chosen: what is checked holds for each of the eight strategies. The answer waits
in `flight` with the cookie that `selectTarget` put on this request's copy of the
target; `Answer` delivers it, `AnswerLost` is an upstream error or a broken
connection. A cookie that this process does not know (another worker of the
cluster, an earlier run) is `Foreign`. Time is a countdown in each session, so
the clock needs no bound: `left = 0` is `now > expiresAt`. Ids grow, which gives
the order of `createdAt` and of the Map. `due` is a history variable. When no target is healthy `selectTarget` returns null and changes
nothing, so there is no action for it.

### 2.4 Routing

The state of the pool is kept by URL: `place` is the order of the Map, `healthy`
the targets that `getHealthyTargets` returns, `conn` and `lat` what the target
object at the URL records. A request is routed and its connection counted in
one step (`RouteSingle`, `RouteSticky`, `RouteByStrategy`), since the handler
waits for nothing between `selectTarget` and `incrementConnections`; what runs
there, a `pathRewrite` of the program and the making of the upstream request, may
throw, and then the request ends uncounted although the index of the round robin
has moved (`Drop`). Then each
hop of `GatewayProxy.proxy` ends in `HopReturns` or `HopRedirects`; in both
fetch-gate has called `afterResponse`, `onError`, or one after the other, and the
first call finds `connectionsDecremented` false (`counted` here). The hooks work
on the URL, that is on whatever object the pool holds there now. That
fetch-gate calls at least one hook each time is taken from how the handler
uses it. A redirect is followed to the same origin only, because the gateway passes
the proxy no `redirectAllowlist` (`gateway.ts:498`, `gateway-proxy.ts:55`). So the target
still works on the request after that, and `ActiveAt`, what a target works on, has
two parts: the requests on their first hop (`FirstHopAt`), which the counts are
about, and those whose redirect is followed (`FollowedAt`), which no count includes.
What sessions and health checks decide is a choice here; their own
modules say what they may decide. Random, weighted and ip-hash may choose every
target and are one value of `strategy`. A target that is added starts with no
connections: `addTarget` would take a number from its configuration, which
nothing sets.

`replaced`, `picks` and `blurred` are history variables: the requests whose
object has left the pool, the choices of the round robin since the list of
healthy targets last changed, and the URLs at which a request of a replaced
object has lowered its successor's count. The last is a real inexactness of the
code: `decrementConnections` clamps at 0 and cannot tell objects apart.

### 2.5 JwtKeyRotation

A key is named by the order in which it joined `config.secrets`. The operator
adds a key by pushing it onto that array (`AddKey`; the documents say so, no
function does it); `RotateKeys` demotes the key that signs and gives it the grace
period; `CleanupExpiredKeys` replaces the array by a filtered one. A
`verifyToken` is cut at each await: `Present` up to the remote set or the first
key, `JwksAnswers`, then `KeyAnswers` for each key. Its loop holds the
array it began with. `left` is what it still has to try; `live` says whether that
array is still `config.secrets`, in which case a pushed key joins the walk.
While a walk asks the remote set, `live` says whether that is still the cached
one: the late answer of a set that `refreshJWKS` has replaced does not warm the new one.
`Construct` and `Refuse` are the constructor, for every configuration that is
`Sensible`: an expiry is given to other keys than the one in use. `signedAt` (when
each key last signed), `undercut` (a rotation left no primary key, so signing
fell back to a key that is about to expire) and a walk's `seen` are history
variables.

### 2.6 SessionManager and SessionStore

`SessionStore` is the promise: a session leaves the store in the tick that ends its
time, unless an operation holds it. `SessionManager` is the code, which looks at
`expiresAt` in every operation by itself and keeps expired sessions in the map until one
of them or the clean-up passes by; the mapping forgets those. An operation
that tests a session and then gives it a new expiry reads the clock anew for the second:
`refreshSession` at `session-manager.ts:138` and `:156`, `rotateSessionId` at `:138` and `:303`,
and `getOrCreateSession` up to three times, in `getSession`, again in the `getSession` of
`refreshSession`, and at `:156`, or at the creation. The model cuts them there:
`RefreshSession` and `RotateSessionId` find the session (`FindTo`) and leave the rest to
`Renew` and `Rotate`; `FindForRequest` goes on to `RefreshForRequest`, and that to
`Renew`, or to `CreateSession`. Between these steps only the clock moves, since JavaScript
runs the operation to its end.

So a session that expires between the test and the write is renewed all the same. The
store says so: `held` is the session that an operation has found alive and will give
a new expiry, and only that one outlives its time, until that operation ends. `getOrCreateSession` may
in this way return the id of a session that has expired since; the store knows no such
session, and its id never comes back to life. `retired` has the ids that
were given up by rotation.

### 2.7 RequestChecks and RequestPipeline

`BuildGateway` and `AddRoute` are the constructor and `addRoute`, with what they
refuse; `GlobalChain` and `RouteChain` are the middlewares in their order of
registration, each there if its configuration has it on (`GlobalOn`, `RouteOn`). `Receive` starts a request, and each stage is an action. A part of
the request (its sizes, its input, its credentials) is revealed when the first
stage looks at it, so that TLC does not multiply what is never
read. The final handler is a step for each hook and for the proxy. On the way back
only the stages that await `next()` take part: security headers, the
error-handling middleware that a program may `use`, and `fetch`; the others return
the promise of the stages after them, so a failure passes them by. The body
parser, CORS, the rate limiter and the router are libraries and modelled from how
the gateway uses them, a synchronous throw counting as a rejection. A
failure is a record of what `getStatusCode` matches in it: the words in its name and
message, and `given`, its own `statusCode` or `status`, which is any of `GivenStatuses` for
errors that code of the program throws (`Thrown`) and none for those of fetch-gate. The
program's `errorHandler` answers with any of `HandlerStatuses`. `Response` takes 101 and 200 to
599 and throws for any other status; so the error-handling middleware may fail itself
(`Unanswerable`), as it does in development when the backend's URL that it takes
from the error does not parse, and then its failure goes on to `fetch`. Answers of upstreams and
of the program's handlers and middlewares that are not failures have the status 200, which stands
for any: nothing looks at it. The load-balanced
branch is in `Routing`; here it is one step, or a throw before it (`NotProxied`).

### 2.8 AddressMatch and TrustedProxy

A word is a function from its bits, the most significant first, to 0 and 1, of
`ByteBits` × `V4Bytes` bits for IPv4. JavaScript's operators are defined on it bit
by bit (`And`, `Complement`, `ShiftLeft`, `MinusOne`), and the mask is computed as in
the code, with a shift count that wraps at the width. IPv6 is compared byte by byte
and then under a mask of the next byte. `Covers` is the reference: the family is the
same and the leading bits agree. An address carries how it was written, because exact entries compare
text. `ConfigureTrust` is the validator's constructor, `RequestFrom` a request
with its peer and headers; `client` is what `getClientIP` answers and what
`getClientId` of the load balancer makes of it. `KnownRanges` stands for the table
`TRUSTED_NETWORKS`.

### 2.9 GatewayLifecycle

`BuildServer` is the constructor with `validateSecurityConfig` and the TLS
manager's `validateConfig`. `listen` with TLS gives way twice, so it is three
actions (`Listen`, `ValidateCertificates`, `ServeTls`), between which anything may
be called, files may become unreadable and ports may be taken by others. `Serve`
starts the gateway's server and then the redirect server, either of which throws if
its port is in use. `Close` stops what `this` still refers to. `careless` records
that a listen was called over a running server, or anything during a listen.

## 3. Runs

All runs explore the whole state space. The bounds are in the .cfg files.

| Run | Properties | What it shows |
|---|---|---|
| `ClusterAll` | `TypeOK`, `RegistryIsExact`, `OneProcessPerId`, `NoOrphans`, `RollReplacesOld`, `KeepsSlots` | two workers, every kind of event in every order, one rolling restart: the Map stays exact, nothing is orphaned, the roll replaces what ran, ids keep the life cycle of `WorkerSlots` |
| `ClusterLive` | `RollingKeepsCapacity`, `RollsFinish`, `ShutdownTerminates` | two overlapping rolls and two crashes cost no capacity and end; a shutdown brings everything down |
| `HealthSafe` | `TypeOK`, `FloorKept`, `FlipsEarned` | three targets with a floor of two, healthy at first or not: probes against removals, updates, stopped and destroyed pools |
| `HealthLive` | `PoolConverges`, `RoundsEnd`, `FlipsFollowUrl`, `FloorDueKept` | targets added, replaced and removed while probes are out: the pool comes to agree with the backends, rounds end, health changes only on a run of one object that had the URL, and the lower of the round's floor and the present one is kept |
| `StickyAll` | `TypeOK`, `SessionsBounded`, `NoSharedSession`, `CookieNamesItsServer`, `Affinity`, `SessionsKept` | two clients, two sessions, two requests in flight, every kind of event, policy `ignore` |
| `RoutingAll` | `TypeOK`, `NeverOvercharged`, `CountsExact`, `RoundRobinFair`, `LoadAware` | three requests over three targets, each strategy, one redirect each: counts are exact through removals and additions, the round robin is fair, least-connections and p2c prefer a busier target only for redirects that it follows |
| `GatewayAll` | `TypeOK`, `VerdictSound`, `GraceHonoured`, `NothingUnchecked`, `AnswersSound`, `ClientAddress`, `TlsOrNothing`, `ImplementsStore`, `RequestsAnswered`, `CloseStopsAll` | verification agrees with the keys at some moment of it, and a signed token keeps its grace period; the session map implements `SessionStore`; no request reaches the route unchecked, every one is answered; a client's address cannot be changed by what it sends; a gateway with TLS never answers in plain text; close leaves no server |

**Why the bounds are enough.** Cluster: what can go wrong needs a worker that
crashes, its restart, a replacement and one bystander; four spawns give every
order of these. Two rolls are enough for an overlap. `ClusterLive` has one
configured worker and two handles that may crash by themselves, so that the
rolls and the restarts together never need more than `MaxSpawns` = 6: a roll is then
never held up by the bound, which a liveness property would otherwise see.
`RollingKeepsCapacity` counts a worker that is about to be restarted, since a
crash itself cannot be prevented. Health: a floor of two needs three targets;
three or four objects under as many URLs give removal and re-addition with a probe
of the old object out. `HealthLive` has a floor of three, because a floor below two is
not enforced: with a pool of two, after a removal, a round begins with the floor two, and a
target added during it raises the present one to three, so that the two differ where
`FloorDueKept` looks. Sticky: two clients are enough to share something, two
sessions and three of them made to evict, two requests in flight to overtake each
other. Routing: three targets make the index of the round robin wrap at two
sizes; three requests give loads of two against one, with a target replaced under
one of them; one target has twice the weight; two latencies tell faster from
slower. Keys: two keys, both strong enough to sign (a key too weak
for its algorithm is never signed with; the proofs cover those), so that one
is demoted while the other takes over, with a
third name for the remote set and a fourth for a stranger; a grace period of one and a
clock of three let a key be used, demoted, expire and be removed with a
verification out; one verifier, because verifiers share only the keys. Sessions: an id
can be rotated twice, two targets tell a kept binding from a new one, and the clock can
tick between any two readings.
Requests: the six gateway and five route configurations have every stage present and
absent, every mode of authentication, of error handling and of serving; the
properties are about one request, and nothing of a request outlives it. Errors
of the program say no status, the status of a success, or one that `Response` refuses;
its `errorHandler` answers with a success or an error.
Addresses: words of two bytes of two bits have every kind of prefix: none, zero,
within the first byte, at its border, within the second, the whole word, and one bit
too long; chains
of three are longer than the greatest depth tried. The life cycle: three listens
give one that fails, one that succeeds, and one after a close; two ports make them
collide.

**Deadlock** is not checked in the cluster runs: a master that has exited, or one
that has used up `MaxSpawns`, stops; nor in `RoutingRedirect`, which is over when its
two requests are answered; nor in `GatewayAll`, whose clocks are bounded and whose
listens are used up. The other runs check it.

**Symmetry** is used in `HealthSafe`, `StickyAll` and `RoutingAll`, which check
safety only; no definition distinguishes URLs, clients or requests. In `MCRouting`
only the two targets of equal weight, both of the initial pool, are
interchangeable.

**Fairness.** `ClusterManager`: weak fairness of the event loop's own work (exit
callbacks, restart timers, the steps of a roll, the poll, the shutdown timer),
which Bun runs when due, and of the death of a process that got SIGKILL. Nothing
is assumed of a process that got SIGTERM. `HealthCheck`: weak fairness of the
interval, of each probe (its `AbortController` ends it after `timeout`) and of
the `finally`. Callers and backends owe nothing, but backends change
only `MaxChanges` times, which is what `PoolConverges` is about. `StickySessions`
and `Routing` are checked for safety only. `RequestPipeline`: weak fairness of
the steps of a request under way, since an upstream call ends by its timeout (30 s
unless configured) and the functions a program supplies are assumed to settle.

### Where the code and its documents disagree

Each of these runs checks one sentence of the repository and TLC finds a
behaviour of the code that contradicts it.

| Run | Property | The sentence | What happens |
|---|---|---|---|
| `ClusterRestartCap` | `RestartsBounded` | `interfaces/gateway.ts:38` maximum restart attempts per worker | each restart starts with fresh counters, so neither limit is ever reached |
| `ClusterLateRestart` | `RestartsOnlyIfWanted` | `cluster-manager.ts:274` no restart when shutting down or intentionally killed | a restart decided before the delay is carried out after it, whatever has happened since |
| `HealthReAdd` | `FlipsEarned` | `http-load-balancer.ts:427` unhealthy until they pass probes | a late probe of the removed object marks its successor |
| `StickyFastPath` | `ActiveSessionsLive` | `http-load-balancer.ts:316` refresh on every hit | the single-healthy path does not |
| `RoutingRedirect` | `FewestActive` | `docs/LOAD_BALANCING.md:97` fewest active connections | while a redirect is followed the request is active and no longer counted |

Read from the source while modelling, and left without a run of their own:

* `cluster-manager.ts:345` promises a replacement first; a replacement that
  fails to spawn is only logged (line 260) and the old worker is stopped.
* `interfaces/gateway.ts:71`, `exitOnShutdown` false: with an empty Map
  `gracefulShutdown` exits all the same (`cluster-manager.ts:370`). The model does
  so too, in `GracefulShutdown`.
* `docs/CLUSTERING.md:241`, exact worker count: `scaleTo` counts terminating
  workers and not those about to be restarted.
* `http-load-balancer.ts:1252`, at least minHealthy stay up: a target added
  during a round raises the floor, but the round keeps the one it read. So
  `FloorKept` is checked and proved without `addTarget`.
* `interfaces/load-balancer.ts:149`, not all targets go down at once: a floor of
  one, which is the default, is never enforced, as the comment at
  `http-load-balancer.ts:1271` intends. `FloorKept` and `FloorDueKept` are about
  floors of two and more.
* `docs/LOAD_BALANCING.md:522`, LRU eviction: the session made first is evicted,
  however recently used.
* `interfaces/load-balancer.ts:183`, `ignore` treats an unknown cookie as none: no
  session is made, so there is no affinity until the browser drops the cookie.
* `http-load-balancer.ts:846`, expired cookies mint nothing: they do until the
  cleanup has run.
* `jwt-key-rotation.ts:4`, without service downtime: a rotation that is not
  preceded by adding a new primary key leaves none; `getPrimaryKey` falls back to
  the first key, which expires after the grace period, and tokens signed with it near
  the end verify no longer than that. `GraceHonoured` is about the other
  rotations (`undercut`).
* `interfaces/route.ts:51`, methods: by default seven of them; the code takes
  `['GET']` (`gateway.ts:399`).
* `interfaces/route.ts`, onError can return a custom response; the handler
  ignores what it returns and rethrows (`gateway.ts:676`). With a load balancer the
  hook is called by the proxy, not awaited, and again in the catch.
* `size-limiter-middleware.ts`: the status follows from words of the message, so
  too many headers give 400 while headers too large give 431, as does a
  malformed Content-Length.
* An answer that `fetch` makes of a failure has passed no middleware and carries no
  security headers. `AnswersSound` says so exactly.
* `gateway.ts:943`: if the redirect server cannot start, `listen` rejects with the
  HTTPS server running; `close` stops it. Workers of a cluster share the gateway's
  port but each tries to bind the redirect port for itself.
* `gateway.ts:893`: a close during the awaits of `listen` is without effect, and a
  second `listen` loses the first server. `CloseStopsAll` is about programs that do
  neither (`careless`).
* `interfaces/gateway.ts:439`, close performs cleanup: it leaves load balancers with
  their health timers, and proxies, as they are.
* `utils.ts:330`: an IPv6 address counts as 0 in IPv4 arithmetic, so an IPv4 network
  whose leading bits are all zero, in the reserved block 0.0.0.0/8, matches it;
  `ClientAddress` leaves out such networks (`Reserved`). An IPv4 prefix of 0 matches
  every address of either family.

## 4. Proofs

The theorems hold for every value of the constants that satisfies the named
assumption of the module (`ClusterAssumption`, `HealthAssumption`,
`StickyAssumption`, `RoutingAssumption` with `NoneAssumption`, `JwtKeyAssumption`,
`SessionAssumption`, `AddressAssumption` with `TrustAssumption`,
`LifecycleAssumption`, `PipelineAssumption` with `NothingAssumption`); TLC evaluates these in every run of the module. Three theorems
(`RollingKeepsCapacityHolds`, `FloorKeptHolds` and `FlipsEarnedHolds`) have a
hypothesis of their own, stated in them and explained below.

* `RegistryInvariant`, `ClusterTypes`, `RegistryIsExactHolds`,
  `OneProcessPerIdHolds`: `RegInv` adds to `TypeOK`,
  `RegistryIsExact` and `OneProcessPerId` what makes them inductive: every id
  given out is below `nextWorkerId`, and every handle spawned so far has such an
  id, handles above `spawned` are blank. A restart under an old id is safe
  because the exit callback removed the id from the Map in the same step in which
  the handle became pending, and nothing else can spawn under that id.
* `NoOrphansHolds`: the master exits only with an empty Map, after the poll found
  one, or in the step that kills everything in it; by `RegistryIsExact` the Map
  has every live process.
* `RollReplacesOldHolds`: `RollInv` says that every process spawned before the
  roll is still to be visited, is held by the roll, or no longer serves. Restarts
  make new handles, which is why it does not depend on them.
* `KeepsSlotsHolds`: every action of the cluster manager is a step of
  `WorkerSlots` or leaves its slots alone. `FreshOpens` is the step in which
  several workers are spawned and some fail; `RespawnReturns` and `ExitLeaves`
  are a restart and an exit callback; everything else only signals processes
  (`SlotsStutter`). The registry's invariant tells that an id has one handle to
  speak for it.
* `RollingKeepsCapacityHolds` has the hypothesis `Undisturbed`: spawns succeed,
  nobody scales the cluster or signals it otherwise, and the configuration allows
  restarts. Without it the property is false of the code: a replacement that fails to
  spawn does not stop the roll (section 3). Crashes, any number of overlapping
  rolls and a shutdown are in. `CapInv` is the strengthening: there is one
  worker to spare for each roll that waits for its replacement to settle, and
  `RollKill`, which stops the old one, uses it up.
* `FloorKeptHolds`: `FloorInv` says that a round's floor may be out of date but
  not too low, which is true as long as nothing is added; hence the assumption
  `"add" \notin Events`: with additions the property is false (section 3). The
  step for a probe rests on lemmas about each function it calls, stated for every
  bound from two up to the floor that the function is given
  (`CountResultIs`, `MarkUnhealthyIs`, `ApplyThresholdsIs`).
* `FloorDueKeptHolds` is what remains of the floor with additions: the lower of the
  floor that the round read and the present one is kept by every step that leaves
  the Map alone. (A step that changes it may go below by itself: adding a target under
  the URL of a healthy one replaces it.) All it needs beside the types is that
  probes are out only during a round (`RoundOut`), for then each of them is held to
  the round's floor, and that `updateTargetHealthWithFloor` keeps every count from two
  up to the floor it is given.
* `FlipsFollowUrlHolds`: `EarnedInv` says that the counters of an object never count
  more than the unbroken run at the end of its results (`Earned`), whatever is added.
  So a change of health that nobody else asked for comes from the probe that ends in
  this step, whose object has a run as long as the threshold (`FlipBy`), and falls on the object
  that the pool holds under the same URL. That may be a successor of the probed object,
  which is the behaviour that `HealthReAdd` shows.
* `FlipsEarnedHolds`: without additions the two are the same object, since a probe
  that is out is for the object that its URL names or for one that has left the pool
  (`OwnUrl`); hence the assumption `"add" \notin Events` here, and only here and in
  `FloorKeptHolds`.
* `SessionsBoundedHolds`: an eviction at the cap removes exactly one session
  because the smallest id exists (`EvictionMakesRoom`).
* `NoSharedSessionHolds`: cookies held or under way are at most `made`, so a new
  session is new to everybody, and a hit only hands a client its own cookie.
* `CookieNamesItsServerHolds`, `AffinityHolds`, `SessionsKeptHolds`: a session
  keeps the server it was made for, and a cookie under way is of a session that is made
  (`StickyTypes`, `CookieInv`); the rest is a look at each action with the types at
  hand (`StickyTypesHold`).
* `NeverOverchargedHolds`, `CountsExactHolds`: `RoutingInv` adds `Bookkeeping`, that
  a request is counted exactly while on its first hop and that its target is in
  the pool unless it is recorded as replaced. Each kind of step then changes a
  count and the set it counts together (`SendCounts`, `HopCounts`,
  `ForgetCounts`).
* `LoadAwareHolds`: the strategies compare counts, which are exact for first hops by
  the invariant; the requests whose redirect is followed make up the difference to what
  the targets work on (`ActiveIs`).
* `RoundRobinFairHolds`: fairness is not inductive, for it does not say whose turn
  it is. `Turns` does: of two targets the one that comes sooner has been chosen as
  often as the other or once less. It needs that the places of the targets are
  distinct (`Places`), that their indexes are then 0 to n - 1 (`IndexIs`), and how a
  choice moves everybody's wait (`WaitStep`, which rests on `ModStep`).
* `VerdictSoundHolds`, `GraceHonouredHolds`: `KeysInv` adds to the types `Listed`
  (a key leaves the list only as an expired one, and a primary key has no expiry) and
  `Signed` (unless undercut, the key that signs is a primary one, and one that has
  signed expires no sooner than a grace period after it). `WalksSound` is the argument about a verification under way: as long
  as its token has been verifiable throughout, the key that signed it is still to be
  tried; and if that key is the one being tried, the token was verifiable when it was
  chosen. Rotation, clean-up and the clock keep this because `seen` notes at
  each of them what a verification would have found (`WitnessSound`). That there is an earliest
  key is by well-foundedness of the naturals (`EarliestIsLeast`).
* `SessionManagerImplementsStore`: each operation on the map is the operation of
  the same name on the live sessions or, when it only removes expired ones, a
  stutter. A session that an operation holds is in the map (`HeldIsThere`), so that
  `Renew` and `Rotate` are the store's operations on it, even if it has expired since.
* `ClientAddressHolds` has two halves. `MatchIsCovers` says that `isIPInCIDR` decides
  whether a network covers an address, for words and bytes of any width, but for the
  networks in the reserved block: the mask is computed to be the one of its prefix
  (`NetworkMaskIs`; the shift count wraps only for a prefix of 0, which the code
  takes out before), two words agree under it exactly if their leading bits do
  (`MaskedEqual`), and whole bytes with a masked one are again a prefix
  (`V6MatchIs`, with the arithmetic of bits in bytes, `ByteOfBit`). The other half is
  the walk: it stops at an entry after which all are trusted (`WalkStops`), and an
  untrusted entry at which it stops is the only one (`StopsOnce`), so entries in front
  of it change nothing but the length (`FrontEntry`). `TrustInv` notes that the client is
  what the headers of the request under way make of it.
* `TlsOrNothingHolds`, `CloseStopsAllHolds`: `LifecycleInv` says that nothing runs
  before construction (`BuiltFirst`), that a listen which has validated its
  certificates has both loaded (`Loaded`), that every open server is one that
  `close` knows unless somebody was careless (`Known`), that a server of a gateway
  with TLS has its parts (`Certified`), that a redirect server leads to an open
  one (`Led`), and that it was told of the hosts it has sent to (`HostsTold`).
  `ServeStep` has the one hard step, in which one of two servers may fail.
* `NothingUncheckedHolds`, `AnswersSoundHolds`, `PipelineTypes`: a chain is `Built`
  if it has exactly the stages that are on, in the order of their `Rank`
  (`WholeBuilt`); all that is used of the order afterwards is `ChainFacts`.
  `PipelineInv` follows the request along it: on the way in, the stages behind it
  are those that have passed it (`Placed`); each of them knows what it has made
  sure of (`Examined`, kept because a part of a request, once seen, stays the same:
  `StaysKnown`); code of the route comes after them all (`Guarded`, from
  `BeforeRoute`). For the answers, `Answering` says what is known of the answer and the
  failure at each step; on the way back that an answer has its headers exactly if
  the stage that sets them has been passed again (`WayBack`), and that a failure
  which has met an answering error handler is an answer. That every status is that of an error
  rests on the tables (`SizeStatusIs`, `StatusCodeIs`), whose first hit exists
  by well-foundedness (`FirstIs`); for every set of statuses that errors may say and
  that the `errorHandler` may answer with.
* `GatewayTypes`: a step of `Gateway` is a step or a stutter of each part
  (`StepOfPart`), so the types proved of each part hold of the process. The other
  properties are proved of the parts' own specifications.

Only model-checked: liveness (`RollsFinish`, `ShutdownTerminates`, `RoundsEnd`,
`PoolConverges`, `RequestsAnswered`), because an argument from weak fairness needs
ENABLED, which the provers do not take. Every other property of a passing run is
stated by a theorem.

## 5. Not modelled, and why

* Worker script validation, worker environment, log pumping: no state.
* SIGHUP and other signals to workers that do not end them.
* The content of requests, cookies, URLs, probe bodies: only what decides a
  branch is kept.
* The request log and the Prometheus stages of the pipeline, and the logger: they
  observe, and let every request through.
* The patterns of the input validator and the text of security headers and of
  error messages: which request has which fault is a choice, what follows from it is
  modelled.
* The string helpers of `utils.ts`, its entropy estimate and redaction: pure
  functions on text.
* Which algorithms a JWT configuration allows: decided once, by jose's rules.
* `updateConnections`, which nothing calls, and the totals of `getStats`.
* An empty `redirectAllowedHosts`, which refuses every host.
* fetch-gate (circuit breaker, pools), 0http-bun, jose, the rate limiter and body
  parser, Bun: outside the repository.
* Random choices (weights, jitter, entropy): any outcome is allowed.
* Clocks that run backwards.
* `src/examples`, `src/docs` and the tests: programs and texts about the gateway.

## 6. Plan

Every component has its module. What is left, in this order:

1. The totals of `getStats`, with an exactness property of their own.
2. A capacity statement for a cluster that is scaled while it rolls.
