---------------------------- MODULE HealthCheck ----------------------------
(***************************************************************************)
(* The target pool of the load balancer and its health checks:             *)
(* src/src/load-balancer/http-load-balancer.ts.                            *)
(*                                                                         *)
(* A round probes every target object in the pool at its start.  Probes    *)
(* end one by one, in any order; each counts on the object it was started  *)
(* for and then changes the health of whatever object the pool holds under *)
(* that URL at that moment.  Targets may be added, removed and updated     *)
(* while probes are out.                                                   *)
(***************************************************************************)
EXTENDS Integers, FiniteSets

CONSTANTS
    Urls,             \* the target URLs that may be used
    InitialUrls,      \* config.targets
    FailureThreshold, \* healthCheck.failureThreshold
    SuccessThreshold, \* healthCheck.successThreshold
    MinHealthy,       \* healthCheck.minHealthyTargets
    MaxObjects,       \* bound: target objects ever made
    MaxChanges,       \* bound: how often a backend goes up or down
    Events            \* calls from outside: a subset of EventKinds

EventKinds == {"add", "remove", "update", "stop"}

ASSUME HealthAssumption ==
    /\ IsFiniteSet(Urls)
    /\ InitialUrls \subseteq Urls
    /\ FailureThreshold \in Nat \ {0}
    /\ SuccessThreshold \in Nat \ {0}
    /\ MinHealthy \in Nat
    /\ MaxObjects \in Nat
    /\ Cardinality(InitialUrls) <= MaxObjects
    /\ MaxChanges \in Nat
    /\ Events \subseteq EventKinds

Objects == 1..MaxObjects
None    == 0
AtMost(a, b) == IF a <= b THEN a ELSE b
Threshold(ok) == IF ok THEN SuccessThreshold ELSE FailureThreshold

VARIABLES
    targets,    \* the Map: URL -> object, or None
    obj,        \* InternalTarget of each object
    made,       \* number of objects made so far
    timerOn,    \* healthCheckInterval is set
    inProgress, \* healthCheckInProgress
    probing,    \* objects whose probe of this round is out
    floor,      \* minHealthyTargets as the round computed it
    good,       \* whether the backend at a URL answers as expected
    changes,    \* number of changes of `good`
    results     \* history: the run of equal results each object ends with

poolVars == <<targets, made>>
vars == <<targets, obj, made, timerOn, inProgress, probing, floor, good,
          changes, results>>

InternalTarget == [healthy : BOOLEAN, failures : 0..FailureThreshold,
                   successes : 0..SuccessThreshold, url : Urls \cup {None}]

InPool  == {u \in Urls : targets[u] # None}
Healthy == {u \in InPool : obj[targets[u]].healthy}

(* The floor the code computes from the size of the pool.                  *)
Floor == AtMost(MinHealthy, IF InPool = {} THEN 1 ELSE Cardinality(InPool))

(* History: a run of equal probe results, counted up to the threshold.     *)
Run   == [ok : BOOLEAN, length : Nat]
NoRun == [ok |-> TRUE, length |-> 0]

Extend(run, ok) ==
    [ok |-> ok,
     length |-> IF run.ok = ok THEN AtMost(run.length + 1, Threshold(ok)) ELSE 1]

NewTarget(url, healthy) ==
    [healthy |-> healthy, failures |-> 0, successes |-> 0, url |-> url]

(* An object of its own for each of the configured targets.                *)
FirstTargets ==
    {t \in [Urls -> 0..Cardinality(InitialUrls)] :
        /\ \A u \in Urls : t[u] = None <=> u \notin InitialUrls
        /\ \A u, v \in InitialUrls : t[u] = t[v] => u = v}

(* The constructor: config.targets are healthy unless the configuration    *)
(* says otherwise; checks start.                                           *)
Init ==
    /\ made = Cardinality(InitialUrls)
    /\ targets \in FirstTargets
    /\ \E up \in SUBSET InitialUrls :
          obj = [o \in Objects |->
                   IF \E u \in InitialUrls : targets[u] = o
                   THEN LET url == CHOOSE u \in InitialUrls : targets[u] = o
                        IN  NewTarget(url, url \in up)
                   ELSE NewTarget(None, FALSE)]
    /\ timerOn = TRUE
    /\ inProgress = FALSE
    /\ probing = {}
    /\ floor = 0
    /\ good = [u \in Urls |-> TRUE]
    /\ changes = 0
    /\ results = [o \in Objects |-> NoRun]

-----------------------------------------------------------------------------
(* applyHealthState, on the object the pool holds under url.               *)
ApplyHealthState(objs, url, healthy) ==
    IF targets[url] = None THEN objs
    ELSE [objs EXCEPT ![targets[url]].healthy = healthy,
                      ![targets[url]].failures = IF healthy THEN 0 ELSE @,
                      ![targets[url]].successes = IF healthy THEN @ ELSE 0]

(* Mutant: the floor is off by one.                                        *)
MarkUnhealthyOffByOne(objs, url, min) ==
    LET others == Cardinality(Healthy \ {url})
    IN  IF others > 0 /\ others < min - 1 THEN objs
        ELSE ApplyHealthState(objs, url, FALSE)

(* Mutant: the floor counts the target itself.                             *)
MarkUnhealthyTimid(objs, url, min) ==
    LET others == Cardinality(Healthy \ {url})
    IN  IF others > 0 /\ others <= min THEN objs
        ELSE ApplyHealthState(objs, url, FALSE)

(* Mutant: no floor once an addition has raised it above the round's.      *)
MarkUnhealthyStale(objs, url, min) ==
    LET others == Cardinality(Healthy \ {url})
    IN  IF others > 0 /\ others < min /\ Floor <= min THEN objs
        ELSE ApplyHealthState(objs, url, FALSE)

(* updateTargetHealthWithFloor(url, false, min).                           *)
MarkUnhealthy(objs, url, min) ==
    LET others == Cardinality(Healthy \ {url})
    IN  IF others > 0 /\ others < min THEN objs
        ELSE ApplyHealthState(objs, url, FALSE)

(* Mutant: a success does not break a run of failures.                     *)
CountResultNoReset(o, ok) ==
    [obj EXCEPT
        ![o].failures = IF ok THEN @ ELSE AtMost(@ + 1, FailureThreshold),
        ![o].successes = IF ok THEN AtMost(@ + 1, SuccessThreshold) ELSE 0]

(* One probe result: the counters (which saturate at their thresholds      *)
(* here: the code only compares them), then the thresholds.                *)
CountResult(o, ok) ==
    [obj EXCEPT
        ![o].failures = IF ok THEN 0 ELSE AtMost(@ + 1, FailureThreshold),
        ![o].successes = IF ok THEN AtMost(@ + 1, SuccessThreshold) ELSE 0]

ApplyThresholds(objs, o, min) ==
    IF objs[o].failures >= FailureThreshold
    THEN MarkUnhealthy(objs, objs[o].url, min)
    ELSE IF objs[o].successes >= SuccessThreshold
    THEN ApplyHealthState(objs, objs[o].url, TRUE)
    ELSE objs

(* Mutant: a round also probes the URLs that were removed.                 *)
StartRoundOfAll ==
    /\ timerOn /\ ~inProgress
    /\ inProgress' = TRUE
    /\ probing' = {targets[u] : u \in Urls}
    /\ floor' = Floor
    /\ UNCHANGED <<poolVars, obj, timerOn, good, changes, results>>

(* The interval fires: performHealthChecks, up to the fetches.             *)
StartRound ==
    /\ timerOn /\ ~inProgress
    /\ inProgress' = TRUE
    /\ probing' = {targets[u] : u \in InPool}
    /\ floor' = Floor
    /\ UNCHANGED <<poolVars, obj, timerOn, good, changes, results>>

(* A probe ends: an answer, an error, or the abort of its timeout.         *)
ProbeEnds(o) ==
    LET ok == good[obj[o].url] IN
    /\ o \in probing
    /\ probing' = probing \ {o}
    /\ obj' = ApplyThresholds(CountResult(o, ok), o, floor)
    /\ results' = [results EXCEPT ![o] = Extend(@, ok)]
    /\ UNCHANGED <<poolVars, timerOn, inProgress, floor, good, changes>>

(* Mutant: with an empty pool the flag is left set.                        *)
RoundEndsNotEmpty ==
    /\ inProgress /\ probing = {} /\ InPool # {}
    /\ inProgress' = FALSE
    /\ UNCHANGED <<poolVars, obj, timerOn, probing, floor, good, changes, results>>

(* Promise.allSettled resolves.                                            *)
RoundEnds ==
    /\ inProgress /\ probing = {}
    /\ inProgress' = FALSE
    /\ UNCHANGED <<poolVars, obj, timerOn, probing, floor, good, changes, results>>

-----------------------------------------------------------------------------
(* Mutant: a target added over another takes over its counters.            *)
AddTargetCounting(url, flag) ==
    LET old == IF targets[url] = None THEN NewTarget(url, flag)
               ELSE obj[targets[url]]
    IN
    /\ "add" \in Events
    /\ made < MaxObjects
    /\ made' = made + 1
    /\ targets' = [targets EXCEPT ![url] = made + 1]
    /\ obj' = [obj EXCEPT ![made + 1] =
                  [NewTarget(url, flag) EXCEPT !.failures = old.failures,
                                               !.successes = old.successes]]
    /\ UNCHANGED <<timerOn, inProgress, probing, floor, good, changes, results>>

(* addTarget at runtime: unhealthy unless the caller says otherwise.       *)
AddTarget(url, flag) ==
    /\ "add" \in Events
    /\ made < MaxObjects
    /\ made' = made + 1
    /\ targets' = [targets EXCEPT ![url] = made + 1]
    /\ obj' = [obj EXCEPT ![made + 1] = NewTarget(url, flag)]
    /\ UNCHANGED <<timerOn, inProgress, probing, floor, good, changes, results>>

RemoveTarget(url) ==
    /\ "remove" \in Events
    /\ targets[url] # None
    /\ targets' = [targets EXCEPT ![url] = None]
    /\ UNCHANGED <<obj, made, timerOn, inProgress, probing, floor, good,
                   changes, results>>

(* updateTargetHealth, called by something else than the health checks.    *)
UpdateTargetHealth(url, healthy) ==
    /\ "update" \in Events
    /\ obj' = IF healthy THEN ApplyHealthState(obj, url, TRUE)
                         ELSE MarkUnhealthy(obj, url, Floor)
    /\ UNCHANGED <<poolVars, timerOn, inProgress, probing, floor, good,
                   changes, results>>

StopHealthChecks ==
    /\ "stop" \in Events /\ timerOn
    /\ timerOn' = FALSE
    /\ UNCHANGED <<poolVars, obj, inProgress, probing, floor, good, changes, results>>

StartHealthChecks ==
    /\ "stop" \in Events /\ ~timerOn
    /\ timerOn' = TRUE
    /\ UNCHANGED <<poolVars, obj, inProgress, probing, floor, good, changes, results>>

(* destroy: the probes of the current round stay out.                      *)
Destroy ==
    /\ "stop" \in Events
    /\ timerOn' = FALSE
    /\ targets' = [u \in Urls |-> None]
    /\ UNCHANGED <<obj, made, inProgress, probing, floor, good, changes, results>>

(* A backend goes up or down.                                              *)
BackendChanges(url) ==
    /\ changes < MaxChanges
    /\ changes' = changes + 1
    /\ good' = [good EXCEPT ![url] = ~@]
    /\ UNCHANGED <<poolVars, obj, timerOn, inProgress, probing, floor, results>>

Next ==
    \/ StartRound
    \/ \E o \in Objects : ProbeEnds(o)
    \/ RoundEnds
    \/ \E u \in Urls, flag \in BOOLEAN : AddTarget(u, flag)
    \/ \E u \in Urls : RemoveTarget(u)
    \/ \E u \in Urls, healthy \in BOOLEAN : UpdateTargetHealth(u, healthy)
    \/ StopHealthChecks
    \/ StartHealthChecks
    \/ Destroy
    \/ \E u \in Urls : BackendChanges(u)

Spec == Init /\ [][Next]_vars

(* The interval keeps firing while it is set, and the abort timeout ends   *)
(* every probe.                                                            *)
Fairness ==
    /\ WF_vars(StartRound)
    /\ \A o \in Objects : WF_vars(ProbeEnds(o))
    /\ WF_vars(RoundEnds)

FairSpec == Spec /\ Fairness

-----------------------------------------------------------------------------
(* Types, and: the pool holds every object under its own URL.              *)
TypeOK ==
    /\ made \in 0..MaxObjects
    /\ targets \in [Urls -> 0..made]
    /\ obj \in [Objects -> InternalTarget]
    /\ timerOn \in BOOLEAN
    /\ inProgress \in BOOLEAN
    /\ probing \subseteq 1..made
    /\ floor \in Nat
    /\ good \in [Urls -> BOOLEAN]
    /\ changes \in 0..MaxChanges
    /\ results \in [Objects -> Run]
    /\ \A u \in InPool : obj[targets[u]].url = u

(* Health checks and updates never take a pool whose floor is two or more  *)
(* from the floor to below it, whatever probes fail in whatever order: the *)
(* floor is read at the start of a round (line 1018), the pool when a      *)
(* probe ends.                                                             *)
FloorKept ==
    [][InPool' = InPool /\ Floor >= 2 /\ Cardinality(Healthy) >= Floor
          => Cardinality(Healthy') >= Floor]_vars

(* A target added while a round is out raises the floor and not the        *)
(* round's: what the checks and updates answer for then is the lower one.  *)
FloorDue == IF inProgress THEN AtMost(floor, Floor) ELSE Floor

(* That one they keep from step to step, whatever is added, replaced and   *)
(* removed in between (replacing a healthy target may itself go below).    *)
FloorDueKept ==
    [][targets' = targets /\ FloorDue >= 2 /\ Cardinality(Healthy) >= FloorDue
          => Cardinality(Healthy') >= FloorDue]_vars

(* The latest n results of object o, this step's included, are all ok.     *)
LastAre(o, n, ok) == results'[o].ok = ok /\ results'[o].length >= n

(* Unless somebody else sets it (updateTargetHealth), a target changes its *)
(* health only on an unbroken run of its own probe results as long as the  *)
(* threshold (load-balancer.ts:140, 146), whichever probes were out when   *)
(* targets were removed or the checks were stopped.                        *)
FlipsEarned ==
    [][\A o \in 1..made :
          \/ obj'[o].healthy = obj[o].healthy
          \/ \E u \in Urls, flag \in BOOLEAN : UpdateTargetHealth(u, flag)
          \/ obj'[o].healthy /\ LastAre(o, SuccessThreshold, TRUE)
          \/ ~obj'[o].healthy /\ LastAre(o, FailureThreshold, FALSE)]_vars

(* A target added under a URL whose probe is still out takes that probe's  *)
(* verdict (updateTargetHealthWithFloor finds it by its URL, line 1117),   *)
(* and no other: unless somebody else sets it, health changes only on an   *)
(* unbroken run, as long as the threshold, of the results of one object    *)
(* that had this URL.  Runs of two objects never add up.                   *)
FlipsFollowUrl ==
    [][\A o \in 1..made :
          \/ obj'[o].healthy = obj[o].healthy
          \/ \E u \in Urls, flag \in BOOLEAN : UpdateTargetHealth(u, flag)
          \/ \E p \in 1..made :
                /\ obj[p].url = obj[o].url
                /\ \/ obj'[o].healthy /\ LastAre(p, SuccessThreshold, TRUE)
                   \/ ~obj'[o].healthy /\ LastAre(p, FailureThreshold, FALSE)]_vars

(* Once the backends settle with at least a floor of them good, the pool   *)
(* comes to agree with them for good: no target is locked in or out by     *)
(* the counters or by the floor.                                           *)
PoolConverges ==
    <>[](Cardinality({u \in InPool : good[u]}) >= Floor
            => \A u \in InPool : u \in Healthy <=> good[u])

(* A round always ends, also when targets are removed, added again or      *)
(* destroyed while their probes are out: a flag left set would silence     *)
(* every later round (line 585).                                           *)
RoundsEnd == inProgress ~> ~inProgress

=============================================================================
