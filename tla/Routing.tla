------------------------------ MODULE Routing ------------------------------
(***************************************************************************)
(* How a load-balanced route serves its requests: the strategies and the   *)
(* connection counts of src/src/load-balancer/http-load-balancer.ts, the   *)
(* request handler of src/src/gateway/gateway.ts that raises and lowers    *)
(* the counts, and the redirect loop of src/src/proxy/gateway-proxy.ts     *)
(* under it.                                                               *)
(*                                                                         *)
(* A request is routed, and its connection counted, in one step of the     *)
(* event loop.  Each hop of its proxying ends with fetch-gate's hooks; the *)
(* first of them lowers the count of whatever object the pool holds under  *)
(* the target's URL at that moment.  A redirect is followed to the same    *)
(* origin only, as the gateway passes the proxy no list of hosts: the      *)
(* target works on the request until its last hop, but no hop after the    *)
(* first is counted.                                                       *)
(***************************************************************************)
EXTENDS Integers, FiniteSets

CONSTANTS
    Urls,         \* the target URLs that may be used
    InitialUrls,  \* config.targets
    Weight,       \* the weight of the target at each URL
    Strategies,   \* the values of config.strategy that are considered
    MaxRedirects, \* maxRedirects, or 0 without followRedirects
    Requests,     \* bound: the requests that may come in
    Latencies,    \* the average response times that are told apart
    Events        \* what else may happen: a subset of EventKinds

(* "any": random, weighted and ip-hash, which may choose every target.     *)
StrategyKinds == {"round-robin", "least-connections", "p2c", "latency",
                  "weighted-least-connections", "any"}
EventKinds == {"add", "remove", "health", "sticky"}

ASSUME RoutingAssumption ==
    /\ IsFiniteSet(Urls) /\ IsFiniteSet(Requests)
    /\ InitialUrls \subseteq Urls
    /\ Weight \in [Urls -> Nat \ {0}]
    /\ Strategies \subseteq StrategyKinds
    /\ MaxRedirects \in Nat
    /\ Latencies \subseteq Nat /\ 0 \in Latencies
    /\ Events \subseteq EventKinds

None == "none"
ASSUME NoneAssumption == None \notin Urls

VARIABLES
    strategy, \* config.strategy
    place,    \* the Map of targets: the place of each URL in it, or 0
    healthy,  \* the URLs of the pool whose target is healthy
    conn,     \* connections of the target at each URL
    lat,      \* averageResponseTime of the target at each URL
    turn,     \* currentIndex of the round robin
    req,      \* the state of each request
    replaced, \* history: requests whose target object has left the pool
    picks,    \* history: round-robin choices since the healthy list changed
    blurred   \* history: URLs whose count a request of a replaced target lowered

poolVars == <<strategy, place, healthy>>
vars == <<strategy, place, healthy, conn, lat, turn, req, replaced, picks,
          blurred>>

(* counted: connectionsDecremented is still false.                         *)
Request == [phase : {"new", "upstream", "done"}, url : Urls \cup {None},
            counted : BOOLEAN, hops : 0..MaxRedirects]
Idle(phase) == [phase |-> phase, url |-> None, counted |-> FALSE, hops |-> 0]

InPool  == {u \in Urls : place[u] # 0}
NoPicks == [u \in Urls |-> 0]

(* The requests under way that were routed to the target now at u, which   *)
(* works on them: those of which no redirect has been followed, and those  *)
(* that are on a later hop.                                                *)
ActiveAt(u) == {r \in Requests \ replaced :
                   req[r].phase = "upstream" /\ req[r].url = u}
FirstHopAt(u) == {r \in ActiveAt(u) : req[r].hops = 0}
FollowedAt(u) == ActiveAt(u) \ FirstHopAt(u)

Init ==
    /\ strategy \in Strategies
    /\ place \in {p \in [Urls -> 0..Cardinality(InitialUrls)] :
                     /\ \A u \in Urls : p[u] = 0 <=> u \notin InitialUrls
                     /\ \A u, v \in InitialUrls : p[u] = p[v] => u = v}
    /\ healthy = InitialUrls
    /\ conn = [u \in Urls |-> 0]
    /\ lat = [u \in Urls |-> 0]
    /\ turn = 0
    /\ req = [r \in Requests |-> Idle("new")]
    /\ replaced = {}
    /\ picks = NoPicks
    /\ blurred = {}

-----------------------------------------------------------------------------
(* The strategies.  Several targets that are equally good are told apart   *)
(* by their place in the list.                                             *)
Index(u) == Cardinality({v \in healthy : place[v] < place[u]})
Sooner(u, v) == place[u] <= place[v]

SelectRoundRobin(u) == Index(u) = turn % Cardinality(healthy)

(* Mutant: the comparison of the reduce is turned round.                   *)
SelectMostConnections(u) ==
    \A v \in healthy : \/ conn[u] > conn[v]
                       \/ conn[u] = conn[v] /\ Sooner(u, v)

SelectLeastConnections(u) ==
    \A v \in healthy : \/ conn[u] < conn[v]
                       \/ conn[u] = conn[v] /\ Sooner(u, v)

(* The better of any two distinct targets.                                 *)
SelectPowerOfTwoChoices(u) ==
    \E v \in healthy \ {u} : \/ conn[u] < conn[v]
                             \/ conn[u] = conn[v] /\ lat[u] <= lat[v]

(* averageResponseTime starts at 0, so it is never missing.                *)
SelectByLatency(u) ==
    \A v \in healthy : \/ lat[u] < lat[v]
                       \/ lat[u] = lat[v] /\ Sooner(u, v)

(* (connections + 1) / weight, cross-multiplied; ties go by latency.       *)
SelectWeightedLeastConnections(u) ==
    \A v \in healthy :
        LET mine == (conn[u] + 1) * Weight[v]
            his  == (conn[v] + 1) * Weight[u]
        IN  \/ mine < his
            \/ mine = his /\ lat[u] < lat[v]
            \/ mine = his /\ lat[u] = lat[v] /\ Sooner(u, v)

Selects(u) ==
    \/ strategy = "round-robin" /\ SelectRoundRobin(u)
    \/ strategy = "least-connections" /\ SelectLeastConnections(u)
    \/ strategy = "p2c" /\ SelectPowerOfTwoChoices(u)
    \/ strategy = "latency" /\ SelectByLatency(u)
    \/ strategy = "weighted-least-connections" /\ SelectWeightedLeastConnections(u)
    \/ strategy = "any"

(* incrementConnections, and the request leaves.                           *)
Send(r, u) ==
    /\ req' = [req EXCEPT ![r] = [phase |-> "upstream", url |-> u,
                                  counted |-> TRUE, hops |-> 0]]
    /\ conn' = [conn EXCEPT ![u] = @ + 1]

(* pathRewrite or the making of the upstream request throws, after the     *)
(* choice and before the count: the request ends here.                     *)
Drop(r) ==
    /\ req' = [req EXCEPT ![r] = Idle("done")]
    /\ UNCHANGED conn

(* selectTarget returns null: the handler throws.                          *)
Unavailable(r) ==
    /\ req[r].phase = "new" /\ healthy = {}
    /\ req' = [req EXCEPT ![r] = Idle("done")]
    /\ UNCHANGED <<poolVars, conn, lat, turn, replaced, picks, blurred>>

(* The fast path of selectTarget.                                          *)
RouteSingle(r) ==
    /\ req[r].phase = "new" /\ Cardinality(healthy) = 1
    /\ Drop(r) \/ \E u \in healthy : Send(r, u)
    /\ UNCHANGED <<poolVars, lat, turn, replaced, picks, blurred>>

(* A sticky session decides: see StickySessions.                           *)
RouteSticky(r) ==
    /\ "sticky" \in Events
    /\ req[r].phase = "new" /\ Cardinality(healthy) > 1
    /\ Drop(r) \/ \E u \in healthy : Send(r, u)
    /\ UNCHANGED <<poolVars, lat, turn, replaced, picks, blurred>>

(* Mutant: the index is advanced in the selection and after it.            *)
AdvanceTwice == (turn + 2) % Cardinality(healthy)
Advance == (turn + 1) % Cardinality(healthy)

(* The strategy decides.                                                   *)
RouteByStrategy(r) ==
    /\ req[r].phase = "new" /\ Cardinality(healthy) > 1
    /\ \E u \in healthy :
          /\ Selects(u)
          /\ Drop(r) \/ Send(r, u)
          /\ picks' = IF strategy = "round-robin" THEN [picks EXCEPT ![u] = @ + 1]
                                                  ELSE picks
    /\ turn' = IF strategy = "round-robin" THEN Advance ELSE turn
    /\ UNCHANGED <<poolVars, lat, replaced, blurred>>

-----------------------------------------------------------------------------
(* Mutant: no Math.max.                                                    *)
LoweredUnclamped(u, n) == conn[u] - n
Lowered(u, n) == IF conn[u] <= n THEN 0 ELSE conn[u] - n

(* Mutant: every call of a hook lowers the count.                          *)
HooksCalledUnguarded(r, calls) ==
    LET u == req[r].url IN
    IF u \in InPool
    THEN /\ conn' = [conn EXCEPT ![u] = Lowered(u, calls)]
         /\ lat' \in {[lat EXCEPT ![u] = l] : l \in Latencies}
    ELSE UNCHANGED <<conn, lat>>

(* Mutant: onError does not lower the count.                               *)
HooksCalledOnAnswer(r, calls) ==
    LET u == req[r].url IN
    IF req[r].counted /\ u \in InPool
    THEN /\ conn' \in {conn, [conn EXCEPT ![u] = Lowered(u, 1)]}
         /\ lat' \in {[lat EXCEPT ![u] = l] : l \in Latencies}
    ELSE UNCHANGED <<conn, lat>>

(* fetch-gate calls afterResponse, onError, or one after the other: the    *)
(* first call lowers the count and records the time.                       *)
HooksCalled(r, calls) ==
    LET u == req[r].url IN
    IF req[r].counted /\ u \in InPool
    THEN /\ conn' = [conn EXCEPT ![u] = Lowered(u, 1)]
         /\ lat' \in {[lat EXCEPT ![u] = l] : l \in Latencies}
    ELSE UNCHANGED <<conn, lat>>

(* The count at r's URL is lowered for a target that is no longer there.   *)
Blurs(r) ==
    blurred' = IF req[r].counted /\ r \in replaced
               THEN blurred \cup ({req[r].url} \cap InPool)
               ELSE blurred

(* The last hop: an answer for the client, or an error.                    *)
HopReturns(r) ==
    /\ req[r].phase = "upstream"
    /\ \E calls \in 1..2 : HooksCalled(r, calls)
    /\ req' = [req EXCEPT ![r] = Idle("done")]
    /\ replaced' = replaced \ {r}
    /\ Blurs(r)
    /\ UNCHANGED <<poolVars, turn, picks>>

(* A redirect that is followed: GET or HEAD, to the same origin.           *)
HopRedirects(r) ==
    /\ req[r].phase = "upstream" /\ req[r].hops < MaxRedirects
    /\ \E calls \in 1..2 : HooksCalled(r, calls)
    /\ req' = [req EXCEPT ![r].hops = @ + 1, ![r].counted = FALSE]
    /\ Blurs(r)
    /\ UNCHANGED <<poolVars, turn, replaced, picks>>

-----------------------------------------------------------------------------
(* The target objects at the URLs of S leave the pool.                     *)
Forget(S) ==
    /\ conn' = [u \in Urls |-> IF u \in S THEN 0 ELSE conn[u]]
    /\ lat' = [u \in Urls |-> IF u \in S THEN 0 ELSE lat[u]]
    /\ replaced' = replaced \cup {r \in Requests : req[r].url \in S}
    /\ blurred' = blurred \ S
    /\ picks' = NoPicks

(* addTarget: Map.set keeps the place of a key that is there.              *)
AddTarget(u, flag) ==
    /\ "add" \in Events
    /\ place' = [place EXCEPT ![u] = IF @ = 0 THEN Cardinality(InPool) + 1 ELSE @]
    /\ healthy' = IF flag THEN healthy \cup {u} ELSE healthy \ {u}
    /\ Forget({u})
    /\ UNCHANGED <<strategy, turn, req>>

RemoveTarget(u) ==
    /\ "remove" \in Events
    /\ u \in InPool
    /\ place' = [v \in Urls |-> IF v = u THEN 0
                                ELSE IF place[v] > place[u] THEN place[v] - 1
                                ELSE place[v]]
    /\ healthy' = healthy \ {u}
    /\ Forget({u})
    /\ UNCHANGED <<strategy, turn, req>>

Destroy ==
    /\ "remove" \in Events
    /\ place' = [u \in Urls |-> 0]
    /\ healthy' = {}
    /\ Forget(Urls)
    /\ UNCHANGED <<strategy, turn, req>>

(* A health check or a caller changes a target's health: see HealthCheck.  *)
HealthChanges(u) ==
    /\ "health" \in Events
    /\ u \in InPool
    /\ healthy' = IF u \in healthy THEN healthy \ {u} ELSE healthy \cup {u}
    /\ picks' = NoPicks
    /\ UNCHANGED <<strategy, place, conn, lat, turn, req, replaced, blurred>>

Next ==
    \/ \E r \in Requests : Unavailable(r)
    \/ \E r \in Requests : RouteSingle(r)
    \/ \E r \in Requests : RouteSticky(r)
    \/ \E r \in Requests : RouteByStrategy(r)
    \/ \E r \in Requests : HopReturns(r)
    \/ \E r \in Requests : HopRedirects(r)
    \/ \E u \in Urls, flag \in BOOLEAN : AddTarget(u, flag)
    \/ \E u \in Urls : RemoveTarget(u)
    \/ Destroy
    \/ \E u \in Urls : HealthChanges(u)

Spec == Init /\ [][Next]_vars

-----------------------------------------------------------------------------
TypeOK ==
    /\ strategy \in StrategyKinds
    /\ place \in [Urls -> Nat]
    /\ healthy \subseteq InPool
    /\ conn \in [Urls -> Nat]
    /\ lat \in [Urls -> Latencies]
    /\ turn \in Nat
    /\ req \in [Requests -> Request]
    /\ \A r \in Requests : req[r].phase = "upstream" <=> req[r].url # None
    /\ replaced \subseteq Requests
    /\ picks \in [Urls -> Nat]
    /\ blurred \subseteq InPool

(* A target of the pool is never charged for a request that has ended:      *)
(* were a connection to leak, the strategies that count connections would  *)
(* shun its target for ever.  The count is lowered by URL (gateway.ts:573, *)
(* 591), after any removals and additions.                                 *)
NeverOvercharged ==
    \A u \in InPool : conn[u] <= Cardinality(FirstHopAt(u))

(* The count is exactly the number of requests of the target that are on   *)
(* their first hop, whichever hooks are called and however often, unless a *)
(* request of an object that this target replaced has ended at its URL.    *)
CountsExact ==
    \A u \in InPool \ blurred : conn[u] = Cardinality(FirstHopAt(u))

(* Between two changes of the healthy list the round robin is fair to      *)
(* within one choice, wherever  the index stood before, and whatever       *)
(* sticky sessions and the single-target path decide in between.           *)
RoundRobinFair ==
    strategy = "round-robin" =>
        \A u, v \in healthy : picks[u] <= picks[v] + 1

(* least-connections sends a request to a target that works on no more     *)
(* requests than any other healthy one, not counting requests of its own   *)
(* whose redirect is followed; p2c to one of which this holds towards some *)
(* other target.  So a target is preferred wrongly only for followed       *)
(* redirects, and by no more than there are of them (FewestActive).        *)
NoBusier(u, v) == Cardinality(ActiveAt(u))
                     <= Cardinality(ActiveAt(v)) + Cardinality(FollowedAt(u))

LoadAware ==
    [][\A r \in Requests :
          (/\ req[r].phase = "new" /\ req'[r].phase = "upstream"
           /\ healthy \cap blurred = {}) =>
          LET u == req'[r].url IN
          /\ strategy = "least-connections" /\ RouteByStrategy(r) =>
                \A v \in healthy : NoBusier(u, v)
          /\ strategy = "p2c" /\ RouteByStrategy(r) =>
                \E v \in healthy \ {u} : NoBusier(u, v)]_vars

-----------------------------------------------------------------------------
(* What a document says, and the code does not do.                         *)

(* LOAD_BALANCING.md:97, "Routes traffic to the server with the fewest     *)
(* active connections".                                                    *)
FewestActive ==
    [][strategy = "least-connections" =>
          \A r \in Requests : RouteByStrategy(r) /\ req'[r].phase = "upstream" =>
              \A v \in healthy : Cardinality(ActiveAt(req'[r].url))
                                    <= Cardinality(ActiveAt(v))]_vars

=============================================================================
