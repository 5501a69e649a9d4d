--------------------------- MODULE StickySessions ---------------------------
(***************************************************************************)
(* Sticky sessions of the load balancer: the session map and its cookies,  *)
(* src/src/load-balancer/http-load-balancer.ts, and the gateway's use of   *)
(* them, src/src/gateway/gateway.ts.                                       *)
(*                                                                         *)
(* selectTarget runs in one step of the event loop when a request comes    *)
(* in; its Set-Cookie waits, on that request's own copy of the target, for *)
(* the upstream's answer, so the answers of one client may overtake each   *)
(* other.  Sessions are numbered in the order of their creation, which is  *)
(* the order of their createdAt and of the Map.                            *)
(***************************************************************************)
EXTENDS Integers, FiniteSets

CONSTANTS
    Clients,             \* browsers, each with at most one session cookie
    Urls,                \* the target URLs
    MaxSessions,         \* stickySession.maxSessions, at least 1
    Ttl,                 \* stickySession.ttl, in ticks of the clock
    UnknownCookiePolicy, \* stickySession.unknownCookiePolicy
    MaxMade,             \* bound: sessions ever made
    MaxFlight,           \* bound: requests waiting for an answer
    Events               \* what the environment does: a subset of EventKinds

EventKinds == {"health", "foreign", "clear", "loss"}

ASSUME StickyAssumption ==
    /\ IsFiniteSet(Urls)
    /\ MaxSessions \in Nat \ {0}
    /\ Ttl \in Nat \ {0}
    /\ UnknownCookiePolicy \in {"ignore", "create"}
    /\ MaxMade \in Nat
    /\ MaxFlight \in Nat
    /\ Events \subseteq EventKinds

Ids     == 1..MaxMade
None    == 0
Foreign == -1   \* a cookie this process did not make, or no longer knows

VARIABLES
    healthy,  \* the targets of the pool that are healthy
    live,     \* the sessions in the Map
    session,  \* Session of each id: its target, and the ticks it has left
    made,     \* number of sessions made so far
    cookie,   \* the cookie each client holds
    flight,   \* requests that were routed and not yet answered
    due       \* history: the ticks left, had every hit refreshed the TTL

sessionVars == <<live, session, made>>
vars == <<healthy, live, session, made, cookie, flight, due>>

Session == [url : Urls \cup {None}, left : 0..Ttl]
Routed  == [client : Clients, url : Urls, setCookie : {None} \cup Ids]

Init ==
    /\ healthy = Urls
    /\ live = {}
    /\ session = [k \in Ids |-> [url |-> None, left |-> 0]]
    /\ made = 0
    /\ cookie = [c \in Clients |-> None]
    /\ flight = {}
    /\ due = [k \in Ids |-> 0]

-----------------------------------------------------------------------------
Expired(k) == session[k].left = 0

(* getStickyTarget returns a target.                                       *)
Sticky(k) == k \in live /\ ~Expired(k) /\ session[k].url \in healthy

(* The history of a request that carries session k to its own target.      *)
Used(k)  == due' = [due EXCEPT ![k] = Ttl]
Unused   == UNCHANGED due

(* Mutant: the cookie is put on the pool's target object, which every      *)
(* request to that target shares.                                          *)
SendShared(c, url, k) ==
    LET given(f) == IF f.url = url /\ k # None THEN [f EXCEPT !.setCookie = k] ELSE f
    IN  /\ Cardinality(flight) < MaxFlight
        /\ flight' = {given(f) : f \in flight}
                        \cup {[client |-> c, url |-> url, setCookie |-> k]}

(* A request leaves for url; its answer is to set the cookie k.            *)
Send(c, url, k) ==
    /\ Cardinality(flight) < MaxFlight
    /\ flight' = flight \cup {[client |-> c, url |-> url, setCookie |-> k]}

(* selectTarget with one healthy target: sessions are not looked at.       *)
SingleHealthy(c) ==
    \E only \in healthy :
        /\ healthy = {only}
        /\ Send(c, only, None)
        /\ IF Sticky(cookie[c]) THEN Used(cookie[c]) ELSE Unused
        /\ UNCHANGED <<healthy, sessionVars, cookie>>

(* Mutant: a hit adds the TTL to what is left of it.                       *)
StickyHitAdds(c) ==
    LET k == cookie[c] IN
    /\ Cardinality(healthy) > 1
    /\ Sticky(k)
    /\ session' = [session EXCEPT ![k].left = @ + Ttl]
    /\ Send(c, session[k].url, k)
    /\ Used(k)
    /\ UNCHANGED <<healthy, live, made, cookie>>

(* selectTarget follows a session, refreshStickySession.                   *)
StickyHit(c) ==
    LET k == cookie[c] IN
    /\ Cardinality(healthy) > 1
    /\ Sticky(k)
    /\ session' = [session EXCEPT ![k].left = Ttl]
    /\ Send(c, session[k].url, k)
    /\ Used(k)
    /\ UNCHANGED <<healthy, live, made, cookie>>

(* Mutant: the cap is compared with <=.                                    *)
AfterEvictionLate ==
    IF Cardinality(live) <= MaxSessions THEN live
    ELSE {k \in live : \E older \in live : older < k}

(* evictOldestSessionIfNeeded.                                             *)
AfterEviction ==
    IF Cardinality(live) < MaxSessions THEN live
    ELSE {k \in live : \E older \in live : older < k}

(* No session is made for a cookie that is not known.                      *)
Refused(k) == k # None /\ k \notin live /\ UnknownCookiePolicy = "ignore"

NewSession(c, url) ==
    /\ made < MaxMade
    /\ made' = made + 1
    /\ live' = AfterEviction \cup {made'}
    /\ session' = [session EXCEPT ![made'] = [url |-> url, left |-> Ttl]]
    /\ due' = [due EXCEPT ![made'] = Ttl]
    /\ Send(c, url, made')

(* Mutant: a session whose target is down is refreshed, not replaced.      *)
CreateStickySessionReuse(c, url) ==
    \/ /\ cookie[c] \in live
       /\ session' = [session EXCEPT ![cookie[c]].left = Ttl]
       /\ Send(c, url, cookie[c])
       /\ Used(cookie[c])
       /\ UNCHANGED <<live, made>>
    \/ ~Refused(cookie[c]) /\ cookie[c] \notin live /\ NewSession(c, url)

(* createStickySession, for the target the strategy chose.                 *)
CreateStickySession(c, url) ==
    \/ Refused(cookie[c]) /\ Send(c, url, None) /\ Unused /\ UNCHANGED sessionVars
    \/ ~Refused(cookie[c]) /\ NewSession(c, url)

(* Mutant: sessions are made but never looked up.                          *)
StrategyChoiceAlways(c) ==
    /\ Cardinality(healthy) > 1
    /\ \E url \in healthy : CreateStickySession(c, url)
    /\ UNCHANGED <<healthy, cookie>>

(* selectTarget lets the strategy choose a target, and makes a session.    *)
StrategyChoice(c) ==
    /\ Cardinality(healthy) > 1
    /\ ~Sticky(cookie[c])
    /\ \E url \in healthy : CreateStickySession(c, url)
    /\ UNCHANGED <<healthy, cookie>>

Request(c) == SingleHealthy(c) \/ StickyHit(c) \/ StrategyChoice(c)

(* The proxied answer reaches the client, with the cookie of its request.  *)
Answer(f) ==
    /\ flight' = flight \ {f}
    /\ cookie' = [cookie EXCEPT ![f.client] =
                     IF f.setCookie # None THEN f.setCookie ELSE @]
    /\ UNCHANGED <<healthy, sessionVars, due>>

(* proxy.proxy throws, or the answer is lost on the way.                   *)
AnswerLost(f) ==
    /\ "loss" \in Events
    /\ flight' = flight \ {f}
    /\ UNCHANGED <<healthy, sessionVars, cookie, due>>

-----------------------------------------------------------------------------
(* Mutant: the cleanup also drops the sessions of targets that are down.   *)
CleanupDown ==
    /\ live' = {k \in live : ~Expired(k) /\ session[k].url \in healthy}
    /\ UNCHANGED <<healthy, session, made, cookie, flight, due>>

(* startSessionCleanup's interval fires.                                   *)
Cleanup ==
    /\ live' = {k \in live : ~Expired(k)}
    /\ UNCHANGED <<healthy, session, made, cookie, flight, due>>

Tick ==
    /\ session' = [k \in Ids |-> [session[k] EXCEPT !.left = IF @ = 0 THEN 0 ELSE @ - 1]]
    /\ due' = [k \in Ids |-> IF due[k] = 0 THEN 0 ELSE due[k] - 1]
    /\ UNCHANGED <<healthy, live, made, cookie, flight>>

(* addTarget, removeTarget, updateTargetHealth, a health check.            *)
PoolChanges(url) ==
    /\ "health" \in Events
    /\ healthy' \in {healthy \cup {url}, healthy \ {url}}
    /\ UNCHANGED <<sessionVars, cookie, flight, due>>

(* destroy.                                                                *)
Destroy ==
    /\ "health" \in Events
    /\ live' = {}
    /\ healthy' = {}
    /\ UNCHANGED <<session, made, cookie, flight, due>>

(* Another worker of the cluster answers the client with its own cookie.   *)
ForeignAnswer(c) ==
    /\ "foreign" \in Events
    /\ cookie' = [cookie EXCEPT ![c] = Foreign]
    /\ UNCHANGED <<healthy, sessionVars, flight, due>>

(* Max-Age has passed, or the user clears the cookie.                      *)
CookieGone(c) ==
    /\ "clear" \in Events
    /\ cookie' = [cookie EXCEPT ![c] = None]
    /\ UNCHANGED <<healthy, sessionVars, flight, due>>

Next ==
    \/ \E c \in Clients : Request(c)
    \/ \E f \in flight : Answer(f)
    \/ \E f \in flight : AnswerLost(f)
    \/ Cleanup
    \/ Tick
    \/ \E url \in Urls : PoolChanges(url)
    \/ Destroy
    \/ \E c \in Clients : ForeignAnswer(c)
    \/ \E c \in Clients : CookieGone(c)

Spec == Init /\ [][Next]_vars

-----------------------------------------------------------------------------
TypeOK ==
    /\ healthy \subseteq Urls
    /\ live \subseteq 1..made
    /\ session \in [Ids -> Session]
    /\ made \in 0..MaxMade
    /\ cookie \in [Clients -> {None, Foreign} \cup 1..made]
    /\ flight \subseteq Routed
    /\ \A f \in flight : f.setCookie <= made
    /\ due \in [Ids -> 0..Ttl]

(* The Map never outgrows maxSessions, whatever cookies clients send.      *)
SessionsBounded == Cardinality(live) <= MaxSessions

(* No two clients ever hold, or are about to be given, the same session:   *)
(* the Set-Cookie waits out the upstream call on the target object (lines  *)
(* 328 and 394), and other requests to the same target pass in between.    *)
Holds(c, k) == \/ cookie[c] = k
               \/ \E f \in flight : f.client = c /\ f.setCookie = k

NoSharedSession ==
    \A k \in Ids : \A c, d \in Clients : Holds(c, k) /\ Holds(d, k) => c = d

(* An answer that sets a cookie comes from the server the cookie's session *)
(* sends its client back to.                                               *)
CookieNamesItsServer ==
    \A f \in flight : f.setCookie # None => session[f.setCookie].url = f.url

(* A client with a session that has not expired is sent to its target as   *)
(* long as that is healthy, on the single-healthy path as well.            *)
Affinity ==
    [][\A c \in Clients, f \in flight' \ flight :
          f.client = c /\ Sticky(cookie[c]) => f.url = session[cookie[c]].url]_vars

(* A session that has not expired leaves the Map only to make room for a   *)
(* new one at the cap, or with the whole balancer.                         *)
SessionsKept ==
    [][\A k \in live \ live' :
          \/ Expired(k)
          \/ Cardinality(live) = MaxSessions /\ made' = made + 1
          \/ live' = {} /\ healthy' = {}]_vars

-----------------------------------------------------------------------------
(* What a comment of the source says, and the code does not do.           *)

(* http-load-balancer.ts:316, "Refresh TTL and re-issue the cookie on      *)
(* every hit so active sessions do not expire prematurely".                *)
ActiveSessionsLive == \A k \in live : session[k].left >= due[k]

=============================================================================
