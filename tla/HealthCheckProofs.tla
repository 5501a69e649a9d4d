------------------------- MODULE HealthCheckProofs -------------------------
(***************************************************************************)
(* The types of the target pool, its floor of healthy targets, and that    *)
(* the changes of health are earned, for pools of every size and every     *)
(* choice of thresholds.  While targets are added at runtime, a change is  *)
(* earned by an object that had the URL, and the lower of the round's      *)
(* floor and the present one is kept; that the present one is, and that    *)
(* the object is the target itself, need that none is added.               *)
(***************************************************************************)
EXTENDS HealthCheck, FiniteSetTheorems, TLAPS

(* The part of the types the floor depends on ...                          *)
PoolOK ==
    /\ made \in 0..MaxObjects
    /\ targets \in [Urls -> 0..made]
    /\ obj \in [Objects -> InternalTarget]
    /\ probing \subseteq 1..made
    /\ floor \in Nat
    /\ \A u \in InPool : obj[targets[u]].url = u
    /\ \A o \in probing : obj[o].url \in Urls

(* ... and the round's floor, which may be out of date but never too low.  *)
RoundFloor == /\ probing # {} => inProgress
              /\ inProgress => floor >= Floor

FloorInv == PoolOK /\ RoundFloor

(* Objects of the right types that still carry the URLs of obj.            *)
Update(objs) == /\ objs \in [Objects -> InternalTarget]
                /\ \A o \in Objects : objs[o].url = obj[o].url

HealthyIn(objs) == {u \in InPool : objs[targets[u]].healthy}

-----------------------------------------------------------------------------
LEMMA PoolFinite ==
  /\ IsFiniteSet(InPool) /\ Cardinality(InPool) \in Nat
  /\ IsFiniteSet(Healthy) /\ Cardinality(Healthy) \in Nat
<1>1. InPool \subseteq Urls /\ Healthy \subseteq Urls
  BY DEF InPool, Healthy
<1> QED BY <1>1, HealthAssumption, FS_Subset, FS_CardinalityType

LEMMA FloorType == Floor \in Nat
  BY PoolFinite, HealthAssumption DEF Floor, AtMost

(* Removing targets can only lower the floor.                              *)
LEMMA FloorShrinks ==
  ASSUME InPool' \subseteq InPool
  PROVE  Floor' \in Nat /\ Floor' <= Floor
<1>1. IsFiniteSet(InPool') /\ Cardinality(InPool') <= Cardinality(InPool)
      /\ Cardinality(InPool') \in Nat
  BY PoolFinite, FS_Subset, FS_CardinalityType
<1>2. InPool' # {} => Cardinality(InPool') >= 1
  BY <1>1, FS_EmptySet
<1>3. InPool = {} => InPool' = {}
  OBVIOUS
<1>4. InPool # {} => Cardinality(InPool) >= 1
  BY PoolFinite, FS_EmptySet
<1> QED BY <1>1, <1>2, <1>3, <1>4, PoolFinite, HealthAssumption DEF Floor, AtMost

(* applyHealthState changes the health of its URL only.                    *)
LEMMA ApplyHealthStateIs ==
  ASSUME PoolOK, NEW objs, Update(objs),
         NEW url \in Urls, NEW h \in BOOLEAN
  PROVE  /\ Update(ApplyHealthState(objs, url, h))
         /\ h => HealthyIn(objs) \subseteq HealthyIn(ApplyHealthState(objs, url, h))
         /\ ~h => HealthyIn(ApplyHealthState(objs, url, h)) = HealthyIn(objs) \ {url}
<1> DEFINE new == ApplyHealthState(objs, url, h)
<1>1. targets \in [Urls -> 0..made] /\ made \in Nat /\ made <= MaxObjects
  BY DEF PoolOK
<1>2. \A u \in InPool : targets[u] \in Objects
  BY <1>1, HealthAssumption DEF InPool, Objects, None
<1>3. \A u \in InPool : targets[u] = targets[url] /\ url \in InPool => u = url
  BY DEF PoolOK
<1>4. CASE targets[url] = None
  <2>1. new = objs /\ url \notin InPool
    BY <1>4 DEF ApplyHealthState, InPool
  <2> QED BY <2>1 DEF HealthyIn
<1>5. CASE targets[url] # None
  <2>1. url \in InPool /\ targets[url] \in Objects
    BY <1>2, <1>5 DEF InPool
  <2>2. new = [objs EXCEPT ![targets[url]].healthy = h,
                      ![targets[url]].failures = IF h THEN 0 ELSE @,
                      ![targets[url]].successes = IF h THEN @ ELSE 0]
    BY <1>5 DEF ApplyHealthState
  <2>3. /\ new \in [Objects -> InternalTarget]
        /\ \A o \in Objects : new[o].url = objs[o].url
        /\ new[targets[url]].healthy = h
        /\ \A o \in Objects \ {targets[url]} : new[o] = objs[o]
    BY <2>1, <2>2, HealthAssumption DEF InternalTarget, Update
  <2>4. \A u \in InPool : u # url => new[targets[u]] = objs[targets[u]]
    BY <1>2, <1>3, <2>1, <2>3
  <2> HIDE DEF new
  <2>5. h => HealthyIn(objs) \subseteq HealthyIn(new)
    BY <2>1, <2>3, <2>4 DEF HealthyIn
  <2>6. ~h => HealthyIn(new) = HealthyIn(objs) \ {url}
    BY <2>1, <2>3, <2>4 DEF HealthyIn
  <2>7. Update(new)
    BY <2>3 DEF Update
  <2> QED BY <2>5, <2>6, <2>7 DEF new
<1> QED BY <1>4, <1>5

LEMMA UnhealthyApplied ==
  ASSUME PoolOK, NEW objs, Update(objs), NEW url \in Urls
  PROVE  /\ Update(ApplyHealthState(objs, url, FALSE))
         /\ HealthyIn(ApplyHealthState(objs, url, FALSE)) = HealthyIn(objs) \ {url}
<1> DEFINE h == FALSE
<1>1. h \in BOOLEAN /\ ~h
  OBVIOUS
<1> HIDE DEF h
<1>2. /\ Update(ApplyHealthState(objs, url, h))
      /\ HealthyIn(ApplyHealthState(objs, url, h)) = HealthyIn(objs) \ {url}
  BY <1>1, ApplyHealthStateIs, Zenon
<1> QED BY <1>2 DEF h

LEMMA HealthyApplied ==
  ASSUME PoolOK, NEW objs, Update(objs), NEW url \in Urls
  PROVE  /\ Update(ApplyHealthState(objs, url, TRUE))
         /\ HealthyIn(objs) \subseteq HealthyIn(ApplyHealthState(objs, url, TRUE))
<1> DEFINE h == TRUE
<1>1. h \in BOOLEAN /\ h
  OBVIOUS
<1> HIDE DEF h
<1>2. /\ Update(ApplyHealthState(objs, url, h))
      /\ HealthyIn(objs) \subseteq HealthyIn(ApplyHealthState(objs, url, h))
  BY <1>1, ApplyHealthStateIs
<1> QED BY <1>2 DEF h

(* updateTargetHealthWithFloor respects a floor of two or more, if it is   *)
(* given one that is not too low.                                          *)
LEMMA MarkUnhealthyIs ==
  ASSUME PoolOK, NEW objs, Update(objs),
         HealthyIn(objs) = Healthy,
         NEW url \in Urls, NEW min \in Nat
  PROVE  /\ Update(MarkUnhealthy(objs, url, min))
         /\ \A low \in 2..min :
               Cardinality(Healthy) >= low
                  => Cardinality(HealthyIn(MarkUnhealthy(objs, url, min))) >= low
<1> DEFINE new == MarkUnhealthy(objs, url, min)
           others == Cardinality(Healthy \ {url})
<1>1. others \in Nat /\ others >= Cardinality(Healthy) - 1
  <2>1. CASE url \in Healthy
    <3>1. others = Cardinality(Healthy) - 1
      BY <2>1, PoolFinite, FS_RemoveElement
    <3>2. IsFiniteSet(Healthy \ {url})
      BY PoolFinite, FS_Subset
    <3> QED BY <3>1, <3>2, PoolFinite, FS_CardinalityType
  <2>2. CASE url \notin Healthy
    <3>1. others = Cardinality(Healthy)
      <4>1. Healthy \ {url} = Healthy
        BY <2>2
      <4> QED BY <4>1
    <3> HIDE DEF others
    <3> QED BY <3>1, PoolFinite
  <2> QED BY <2>1, <2>2
<1>0. Cardinality(Healthy) \in Nat
  BY PoolFinite
<1>2. CASE others > 0 /\ others < min
  <2>1. MarkUnhealthy(objs, url, min) = objs
    BY <1>2 DEF MarkUnhealthy
  <2> QED BY <2>1
<1>3. CASE ~(others > 0 /\ others < min)
  <2>1. new = ApplyHealthState(objs, url, FALSE)
    BY <1>3 DEF MarkUnhealthy
  <2>2. /\ Update(new)
        /\ HealthyIn(new) = Healthy \ {url}
    BY <2>1, UnhealthyApplied
  <2> HIDE DEF new, others
  <2>3. ASSUME NEW low \in 2..min, Cardinality(Healthy) >= low
        PROVE  Cardinality(HealthyIn(new)) >= low
    <3>1. others >= 1
      BY <1>0, <1>1, <2>3
    <3>2. others >= min
      BY <1>1, <1>3, <3>1
    <3>3. Cardinality(HealthyIn(new)) = others
      BY <2>2 DEF others
    <3> QED BY <1>0, <1>1, <2>3, <3>2, <3>3
  <2> QED BY <2>2, <2>3 DEF new
<1> QED BY <1>2, <1>3

(* A probe's result only counts before the thresholds are applied.         *)
Counters(o, f, s) == [obj EXCEPT ![o].failures = f, ![o].successes = s]

LEMMA Counted ==
  ASSUME PoolOK, NEW o \in Objects, NEW f \in 0..FailureThreshold,
         NEW s \in 0..SuccessThreshold
  PROVE  Update(Counters(o, f, s)) /\ HealthyIn(Counters(o, f, s)) = Healthy
<1> DEFINE new == Counters(o, f, s)
<1>1. obj \in [Objects -> InternalTarget]
  BY DEF PoolOK
<1>2. /\ new \in [Objects -> InternalTarget]
      /\ \A p \in Objects : new[p].url = obj[p].url /\ new[p].healthy = obj[p].healthy
  BY <1>1 DEF Counters, InternalTarget
<1>3. \A u \in InPool : targets[u] \in Objects
  BY HealthAssumption DEF PoolOK, InPool, Objects, None
<1>4. HealthyIn(new) = Healthy
  BY <1>2, <1>3 DEF HealthyIn, Healthy
<1>5. Update(new)
  BY <1>2 DEF Update
<1> QED BY <1>4, <1>5

LEMMA CountResultIs ==
  ASSUME PoolOK, NEW o \in Objects, NEW ok, NEW new,
         new = CountResult(o, ok)
  PROVE  /\ Update(new)
         /\ HealthyIn(new) = Healthy
<1>1. /\ AtMost(obj[o].failures + 1, FailureThreshold) \in 0..FailureThreshold
      /\ AtMost(obj[o].successes + 1, SuccessThreshold) \in 0..SuccessThreshold
      /\ 0 \in 0..FailureThreshold /\ 0 \in 0..SuccessThreshold
  BY HealthAssumption DEF PoolOK, InternalTarget, AtMost
<1>2. CASE ok
  <2> DEFINE s == AtMost(obj[o].successes + 1, SuccessThreshold)
  <2>1. new = Counters(o, 0, s)
    BY <1>2 DEF Counters, CountResult, PoolOK, InternalTarget
  <2>2. s \in 0..SuccessThreshold
    BY <1>1
  <2> HIDE DEF s
  <2> QED BY <1>1, <2>1, <2>2, Counted
<1>3. CASE ~ok
  <2> DEFINE f == AtMost(obj[o].failures + 1, FailureThreshold)
  <2>1. new = Counters(o, f, 0)
    BY <1>3 DEF Counters, CountResult, PoolOK, InternalTarget
  <2>2. f \in 0..FailureThreshold
    BY <1>1
  <2> HIDE DEF f
  <2> QED BY <1>1, <2>1, <2>2, Counted
<1> QED BY <1>2, <1>3

LEMMA ApplyThresholdsIs ==
  ASSUME PoolOK, NEW o \in probing, NEW ok, NEW min \in Nat,
         NEW new, new = ApplyThresholds(CountResult(o, ok), o, min)
  PROVE  /\ Update(new)
         /\ \A low \in 2..min :
               Cardinality(Healthy) >= low => Cardinality(HealthyIn(new)) >= low
<1> DEFINE c == CountResult(o, ok)
<1>1. o \in Objects /\ obj[o].url \in Urls
  BY HealthAssumption DEF PoolOK, Objects
<1>2. Update(c) /\ HealthyIn(c) = Healthy
  BY <1>1, CountResultIs
<1>3. c[o].url \in Urls
  BY <1>1, <1>2 DEF Update
<1> HIDE DEF c
<1>4. CASE new = MarkUnhealthy(c, c[o].url, min)
  BY <1>2, <1>3, <1>4, MarkUnhealthyIs
<1>5. CASE new = ApplyHealthState(c, c[o].url, TRUE)
  <2>1. /\ Update(new)
        /\ Healthy \subseteq HealthyIn(new)
    BY <1>2, <1>3, <1>5, HealthyApplied
  <2>2. HealthyIn(new) \subseteq Urls
    BY DEF HealthyIn, InPool
  <2>3. /\ Cardinality(HealthyIn(new)) >= Cardinality(Healthy)
        /\ Cardinality(HealthyIn(new)) \in Nat
    BY <2>1, <2>2, HealthAssumption, FS_Subset, FS_CardinalityType
  <2> QED BY <2>1, <2>3, PoolFinite
<1>6. CASE new = c
  BY <1>2, <1>6
<1> QED BY <1>4, <1>5, <1>6 DEF ApplyThresholds, c

-----------------------------------------------------------------------------
LEMMA FloorInit == Init => FloorInv
<1> SUFFICES ASSUME Init PROVE FloorInv
  OBVIOUS
<1>1. made \in Nat /\ made <= MaxObjects
  <2>1. IsFiniteSet(InitialUrls)
    BY HealthAssumption, FS_Subset
  <2> QED BY <2>1, HealthAssumption, FS_CardinalityType DEF Init
<1>2. /\ targets \in [Urls -> 0..made]
      /\ InPool = InitialUrls
      /\ \A u, v \in InitialUrls : targets[u] = targets[v] => u = v
  BY HealthAssumption DEF Init, FirstTargets, InPool
<1>3. \A u \in InitialUrls : targets[u] \in Objects
  BY <1>1, <1>2, HealthAssumption DEF InPool, Objects, None
<1> DEFINE url(o) == CHOOSE u \in InitialUrls : targets[u] = o
<1>a. PICK up \in SUBSET InitialUrls :
         obj = [o \in Objects |-> IF \E u \in InitialUrls : targets[u] = o
                                 THEN NewTarget(url(o), url(o) \in up)
                                 ELSE NewTarget(None, FALSE)]
  BY DEF Init
<1>4. obj \in [Objects -> InternalTarget]
  <2>1. \A o \in Objects : (\E u \in InitialUrls : targets[u] = o) => url(o) \in Urls
    BY HealthAssumption
  <2> HIDE DEF url
  <2> QED BY <1>a, <2>1, HealthAssumption DEF NewTarget, InternalTarget
<1>5. \A u \in InPool : obj[targets[u]].url = u
  <2> SUFFICES ASSUME NEW u \in InitialUrls PROVE obj[targets[u]].url = u
    BY <1>2
  <2>1. url(targets[u]) \in InitialUrls /\ targets[url(targets[u])] = targets[u]
    OBVIOUS
  <2> HIDE DEF url
  <2>2. url(targets[u]) = u
    BY <1>2, <2>1
  <2>3. obj[targets[u]] = NewTarget(u, u \in up)
    BY <1>3, <1>a, <2>2
  <2> QED BY <2>3 DEF NewTarget
<1>6. probing = {} /\ floor = 0 /\ ~inProgress
  BY DEF Init
<1> QED BY <1>1, <1>2, <1>4, <1>5, <1>6 DEF FloorInv, PoolOK, RoundFloor

(* One step, of a pool to which nothing is added: FloorInv is kept, and so *)
(* is a floor of two or more.                                              *)
LEMMA FloorStep ==
  ASSUME FloorInv, [Next]_vars, "add" \notin Events
  PROVE  /\ FloorInv'
         /\ InPool' = InPool /\ Floor >= 2 /\ Cardinality(Healthy) >= Floor
               => Cardinality(Healthy') >= Floor
<1> DEFINE Kept == InPool' = InPool /\ Floor >= 2 /\ Cardinality(Healthy) >= Floor
                       => Cardinality(Healthy') >= Floor
<1> SUFFICES FloorInv' /\ Kept
  OBVIOUS
<1>0. /\ PoolOK /\ RoundFloor /\ Floor \in Nat
      /\ made \in Nat /\ made <= MaxObjects /\ targets \in [Urls -> 0..made]
      /\ obj \in [Objects -> InternalTarget]
      /\ 1..made \subseteq Objects
  BY FloorType, HealthAssumption DEF FloorInv, PoolOK, Objects
(* An update of the objects of an unchanged pool.                          *)
<1>1. ASSUME UNCHANGED poolVars, Update(obj'),
             UNCHANGED <<inProgress, floor>>, probing' \subseteq probing,
             Floor >= 2 /\ Cardinality(Healthy) >= Floor
                => Cardinality(HealthyIn(obj')) >= Floor
      PROVE  FloorInv' /\ Kept
  <2>1. InPool' = InPool /\ Floor' = Floor /\ Healthy' = HealthyIn(obj')
    BY <1>1 DEF poolVars, InPool, Floor, Healthy, HealthyIn
  <2>2. \A u \in InPool : targets[u] \in Objects
    BY <1>0, HealthAssumption DEF InPool, Objects, None
  <2>3. PoolOK'
    BY <1>0, <1>1, <2>1, <2>2 DEF PoolOK, poolVars, Update
  <2>4. RoundFloor'
    BY <1>0, <1>1, <2>1 DEF RoundFloor
  <2> QED BY <1>1, <2>1, <2>3, <2>4 DEF FloorInv
(* The same objects, with fewer or the same targets.                       *)
<1>2. ASSUME UNCHANGED <<obj, made>>, targets' \in [Urls -> 0..made],
             InPool' \subseteq InPool, \A u \in InPool' : targets'[u] = targets[u],
             UNCHANGED <<probing, inProgress, floor>>
      PROVE  FloorInv' /\ Kept
  <2>1. Floor' \in Nat /\ Floor' <= Floor
    BY <1>2, FloorShrinks
  <2>2. PoolOK'
    BY <1>0, <1>2 DEF PoolOK
  <2>3. RoundFloor'
    BY <1>0, <1>2, <2>1 DEF RoundFloor, PoolOK
  <2>4. InPool' = InPool => Healthy' = Healthy
    BY <1>2 DEF Healthy
  <2> QED BY <2>2, <2>3, <2>4 DEF FloorInv
<1>3. Update(obj) /\ HealthyIn(obj) = Healthy
  BY <1>0 DEF Update, HealthyIn, Healthy
<1>4. CASE StartRound
  <2>1. Floor' = Floor /\ InPool' = InPool /\ Healthy' = Healthy /\ floor' = Floor
    BY <1>4 DEF StartRound, poolVars, InPool, Floor, Healthy
  <2>2. probing' \subseteq 1..made
    BY <1>0, <1>4 DEF StartRound, InPool, None
  <2>a. \A o \in probing' : obj[o].url \in Urls
    BY <1>0, <1>4 DEF StartRound, InPool, PoolOK
  <2>3. PoolOK'
    BY <1>0, <1>4, <2>1, <2>2, <2>a, FloorType DEF StartRound, poolVars, PoolOK
  <2>4. RoundFloor'
    BY <1>0, <1>4, <2>1 DEF StartRound, RoundFloor
  <2> QED BY <2>1, <2>3, <2>4 DEF FloorInv
<1>5. ASSUME NEW o \in Objects, ProbeEnds(o) PROVE FloorInv' /\ Kept
  <2> DEFINE ok == good[obj[o].url]
  <2>1. o \in probing /\ o \in 1..made /\ inProgress /\ floor \in Nat /\ floor >= Floor
    BY <1>0, <1>5 DEF ProbeEnds, RoundFloor, PoolOK
  <2>2. obj' = ApplyThresholds(CountResult(o, ok), o, floor)
    BY <1>5 DEF ProbeEnds
  <2> HIDE DEF ok
  <2>3. Update(obj') /\ \A low \in 2..floor :
           Cardinality(Healthy) >= low => Cardinality(HealthyIn(obj')) >= low
    BY <1>0, <2>1, <2>2, ApplyThresholdsIs
  <2>4. Floor >= 2 => Floor \in 2..floor
    BY <1>0, <2>1
  <2> QED BY <1>1, <1>5, <2>3, <2>4 DEF ProbeEnds
<1>6. CASE RoundEnds
  <2>1. PoolOK' /\ Floor' = Floor /\ InPool' = InPool /\ Healthy' = Healthy
    BY <1>0, <1>6 DEF RoundEnds, poolVars, PoolOK, InPool, Floor, Healthy
  <2> QED BY <1>6, <2>1 DEF RoundEnds, RoundFloor, FloorInv
<1>7. ASSUME NEW u \in Urls, RemoveTarget(u) PROVE FloorInv' /\ Kept
  <2>1. targets' = [targets EXCEPT ![u] = None]
    BY <1>7 DEF RemoveTarget
  <2>2. targets' \in [Urls -> 0..made]
    BY <1>0, <2>1 DEF None
  <2>3. InPool' \subseteq InPool /\ \A v \in InPool' : targets'[v] = targets[v]
    BY <1>0, <2>1 DEF InPool
  <2> QED BY <1>2, <1>7, <2>2, <2>3 DEF RemoveTarget
<1>8. ASSUME NEW u \in Urls, NEW healthy \in BOOLEAN, UpdateTargetHealth(u, healthy)
      PROVE  FloorInv' /\ Kept
  <2>1. CASE obj' = ApplyHealthState(obj, u, TRUE)
    <3>1. Update(obj') /\ Healthy \subseteq HealthyIn(obj')
      BY <1>0, <1>3, <2>1, HealthyApplied
    <3>2. HealthyIn(obj') \subseteq Urls
      BY DEF HealthyIn, InPool
    <3>3. /\ Cardinality(HealthyIn(obj')) >= Cardinality(Healthy)
          /\ Cardinality(HealthyIn(obj')) \in Nat
      BY <3>1, <3>2, HealthAssumption, FS_Subset, FS_CardinalityType
    <3>4. Floor >= 2 /\ Cardinality(Healthy) >= Floor
             => Cardinality(HealthyIn(obj')) >= Floor
      BY <1>0, <3>3, PoolFinite
    <3> QED BY <1>1, <1>8, <3>1, <3>4 DEF UpdateTargetHealth
  <2>2. CASE obj' = MarkUnhealthy(obj, u, Floor)
    <3>1. Update(obj') /\ \A low \in 2..Floor :
             Cardinality(Healthy) >= low => Cardinality(HealthyIn(obj')) >= low
      BY <1>0, <1>3, <2>2, MarkUnhealthyIs
    <3>2. Floor >= 2 => Floor \in 2..Floor
      BY <1>0
    <3> QED BY <1>1, <1>8, <3>1, <3>2 DEF UpdateTargetHealth
  <2> QED BY <1>8, <2>1, <2>2 DEF UpdateTargetHealth
<1>9. CASE Destroy
  <2>1. targets' \in [Urls -> 0..made] /\ InPool' = {}
    BY <1>0, <1>9 DEF Destroy, InPool, None
  <2> QED BY <1>2, <1>9, <2>1 DEF Destroy
<1>10. CASE UNCHANGED <<targets, made, obj, probing, inProgress, floor>>
  <2>1. UNCHANGED poolVars /\ Update(obj') /\ HealthyIn(obj') = Healthy
    BY <1>3, <1>10 DEF poolVars, Update
  <2> QED BY <1>1, <1>10, <2>1
<1>11. ASSUME NEW u \in Urls, NEW flag \in BOOLEAN, AddTarget(u, flag)
       PROVE  FloorInv' /\ Kept
  BY <1>11 DEF AddTarget
<1>12. CASE StopHealthChecks \/ StartHealthChecks \/ \E u \in Urls : BackendChanges(u)
  BY <1>10, <1>12 DEF StopHealthChecks, StartHealthChecks, BackendChanges, poolVars
<1>13. CASE UNCHANGED vars
  BY <1>10, <1>13 DEF vars
<1> QED BY <1>4, <1>5, <1>6, <1>7, <1>8, <1>9, <1>11, <1>12, <1>13 DEF Next

(* Health checks keep a floor of two or more.                              *)
THEOREM FloorKeptHolds == ASSUME "add" \notin Events PROVE Spec => FloorKept
<1> DEFINE Kept == InPool' = InPool /\ Floor >= 2 /\ Cardinality(Healthy) >= Floor
                       => Cardinality(Healthy') >= Floor
<1>1. FloorInv /\ [Next]_vars => FloorInv' /\ Kept
  BY FloorStep
<1>2. FloorInv /\ [Next]_vars => [Kept]_vars
  BY <1>1
<1> QED BY <1>1, <1>2, FloorInit, PTL DEF Spec, FloorKept

-----------------------------------------------------------------------------
(* The types, whatever is called: a target whose probe is out has a URL,   *)
(* also when the pool no longer holds it.                                  *)
ProbedUrls == \A o \in probing : obj[o].url \in Urls

LEMMA PoolTypes == TypeOK /\ ProbedUrls => PoolOK
  BY DEF TypeOK, ProbedUrls, PoolOK

LEMMA PoolTypesNext == TypeOK' /\ ProbedUrls' => PoolOK'
  BY DEF TypeOK, ProbedUrls, PoolOK

LEMMA Thresholds ==
  /\ Threshold(TRUE) = SuccessThreshold /\ Threshold(FALSE) = FailureThreshold
  /\ \A ok \in BOOLEAN : Threshold(ok) \in Nat /\ Threshold(ok) >= 1
  BY HealthAssumption DEF Threshold

LEMMA ExtendIs ==
  ASSUME NEW run \in Run, NEW ok \in BOOLEAN
  PROVE  Extend(run, ok) \in Run
  BY Thresholds DEF Run, Extend, AtMost

(* The run stands for n results that are all ok.                           *)
Latest(run, n, ok) == n = 0 \/ (run.ok = ok /\ run.length >= n)

(* A counter that goes up to its threshold is followed by the run.         *)
LEMMA LatestGrows ==
  ASSUME NEW run \in Run, NEW ok \in BOOLEAN, NEW n \in Nat,
         n <= Threshold(ok), Latest(run, n, ok)
  PROVE  Latest(Extend(run, ok), AtMost(n + 1, Threshold(ok)), ok)
  BY Thresholds DEF Run, Latest, Extend, AtMost

-----------------------------------------------------------------------------
LEMMA InitTypes == Init => TypeOK /\ ProbedUrls
<1> SUFFICES ASSUME Init PROVE TypeOK /\ ProbedUrls
  OBVIOUS
<1>1. PoolOK
  BY FloorInit DEF FloorInv
<1>2. /\ timerOn \in BOOLEAN /\ inProgress \in BOOLEAN
      /\ good \in [Urls -> BOOLEAN]
  BY Zenon DEF Init
<1>3. results \in [Objects -> Run] /\ changes \in 0..MaxChanges
  BY HealthAssumption DEF Init, NoRun, Run
<1> QED BY <1>1, <1>2, <1>3 DEF PoolOK, TypeOK, ProbedUrls

LEMMA NextTypes ==
  ASSUME TypeOK, ProbedUrls, [Next]_vars
  PROVE  TypeOK' /\ ProbedUrls'
<1>0. /\ PoolOK /\ 1..made \subseteq Objects /\ probing \subseteq Objects
      /\ Update(obj) /\ HealthyIn(obj) = Healthy
      /\ \A u \in InPool : targets[u] \in Objects /\ targets[u] \in 1..made
  BY PoolTypes, HealthAssumption
     DEF PoolOK, TypeOK, Objects, Update, HealthyIn, Healthy, InPool, None
(* Steps that change the objects of an unchanged pool.                     *)
<1>1. ASSUME UNCHANGED <<targets, made, floor, good, changes>>, Update(obj'),
             results' \in [Objects -> Run], probing' \subseteq probing,
             timerOn' \in BOOLEAN, inProgress' \in BOOLEAN
      PROVE  TypeOK' /\ ProbedUrls'
  <2>1. \A u \in InPool' : obj'[targets'[u]].url = u
    BY <1>0, <1>1 DEF InPool, TypeOK, Update
  <2>2. ProbedUrls'
    BY <1>0, <1>1 DEF ProbedUrls, Update
  <2> QED BY <1>1, <2>1, <2>2 DEF TypeOK, Update
(* Steps that leave the objects as they are, and those in the pool there.  *)
<1>2. ASSUME UNCHANGED <<obj, made, results>>,
             targets' \in [Urls -> 0..made],
             \A u \in Urls : targets'[u] \in {targets[u], None},
             probing' \subseteq 1..made, \A p \in probing' : obj[p].url \in Urls,
             floor' \in Nat, good' \in [Urls -> BOOLEAN], changes' \in 0..MaxChanges,
             timerOn' \in BOOLEAN, inProgress' \in BOOLEAN
      PROVE  TypeOK' /\ ProbedUrls'
  <2>1. \A u \in InPool' : obj'[targets'[u]].url = u
    BY <1>0, <1>2 DEF InPool, TypeOK
  <2>2. ProbedUrls'
    BY <1>2 DEF ProbedUrls
  <2> QED BY <1>2, <2>1, <2>2 DEF TypeOK
<1>3. CASE StartRound
  <2>1. probing' \subseteq 1..made /\ \A p \in probing' : obj[p].url \in Urls
    BY <1>0, <1>3 DEF StartRound, TypeOK, InPool
  <2> QED BY <1>2, <1>3, <2>1, FloorType DEF StartRound, poolVars, TypeOK
<1>4. ASSUME NEW o \in Objects, ProbeEnds(o) PROVE TypeOK' /\ ProbedUrls'
  <2> DEFINE ok == good[obj[o].url]
  <2>1. o \in probing /\ floor \in Nat /\ obj[o].url \in Urls
        /\ obj' = ApplyThresholds(CountResult(o, ok), o, floor)
        /\ results' = [results EXCEPT ![o] = Extend(@, ok)]
    BY <1>4 DEF ProbeEnds, TypeOK, ProbedUrls
  <2>2. ok \in BOOLEAN
    BY <2>1 DEF TypeOK
  <2> HIDE DEF ok
  <2>3. Update(obj')
    BY <1>0, <2>1, ApplyThresholdsIs
  <2>4. Extend(results[o], ok) \in Run
    BY <2>2, ExtendIs DEF TypeOK
  <2>5. results' \in [Objects -> Run]
    BY <2>1, <2>4 DEF TypeOK
  <2> QED BY <1>1, <1>4, <2>3, <2>5 DEF ProbeEnds, poolVars, TypeOK
<1>5. CASE RoundEnds \/ StopHealthChecks \/ StartHealthChecks \/ UNCHANGED vars
  BY <1>0, <1>1, <1>5
     DEF RoundEnds, StopHealthChecks, StartHealthChecks, poolVars, vars, TypeOK
<1>6. ASSUME NEW u \in Urls, NEW flag \in BOOLEAN, AddTarget(u, flag)
      PROVE  TypeOK' /\ ProbedUrls'
  <2>1. /\ made' = made + 1 /\ made + 1 \in Objects /\ made \in Nat /\ made' <= MaxObjects
        /\ targets' = [targets EXCEPT ![u] = made + 1]
        /\ obj' = [obj EXCEPT ![made + 1] = NewTarget(u, flag)]
        /\ UNCHANGED <<timerOn, inProgress, probing, floor, good, changes, results>>
    BY <1>6, HealthAssumption DEF AddTarget, TypeOK, Objects
  <2>2. NewTarget(u, flag) \in InternalTarget /\ NewTarget(u, flag).url = u
    BY HealthAssumption DEF NewTarget, InternalTarget
  <2>3. /\ obj' \in [Objects -> InternalTarget]
        /\ obj'[made + 1].url = u
        /\ \A p \in 1..made : obj'[p] = obj[p]
    BY <1>0, <2>1, <2>2 DEF TypeOK
  <2>4. /\ targets' \in [Urls -> 0..made']
        /\ \A v \in InPool' : \/ v = u /\ targets'[v] = made + 1
                              \/ v \in InPool /\ targets'[v] = targets[v]
    BY <2>1 DEF TypeOK, InPool
  <2>5. \A v \in InPool' : obj'[targets'[v]].url = v
    BY <1>0, <2>3, <2>4 DEF TypeOK
  <2>6. ProbedUrls' /\ probing' \subseteq 1..made'
    BY <2>1, <2>3 DEF ProbedUrls, TypeOK
  <2> QED BY <2>1, <2>3, <2>4, <2>5, <2>6 DEF TypeOK
<1>7. ASSUME NEW u \in Urls, RemoveTarget(u) PROVE TypeOK' /\ ProbedUrls'
  <2>1. targets' \in [Urls -> 0..made] /\ \A v \in Urls : targets'[v] \in {targets[v], None}
    BY <1>7 DEF RemoveTarget, TypeOK, None
  <2> QED BY <1>2, <1>7, <2>1 DEF RemoveTarget, TypeOK, ProbedUrls
<1>8. ASSUME NEW u \in Urls, NEW healthy \in BOOLEAN, UpdateTargetHealth(u, healthy)
      PROVE  TypeOK' /\ ProbedUrls'
  <2>1. CASE obj' = ApplyHealthState(obj, u, TRUE)
    <3>1. Update(obj')
      BY <1>0, <2>1, HealthyApplied
    <3> QED BY <1>1, <1>8, <3>1 DEF UpdateTargetHealth, poolVars, TypeOK
  <2>2. CASE obj' = MarkUnhealthy(obj, u, Floor)
    <3>1. Update(obj')
      BY <1>0, <2>2, FloorType, MarkUnhealthyIs
    <3> QED BY <1>1, <1>8, <3>1 DEF UpdateTargetHealth, poolVars, TypeOK
  <2> QED BY <1>8, <2>1, <2>2 DEF UpdateTargetHealth
<1>9. CASE Destroy
  <2>1. targets' \in [Urls -> 0..made] /\ \A v \in Urls : targets'[v] \in {targets[v], None}
    BY <1>9 DEF Destroy, TypeOK, None
  <2> QED BY <1>2, <1>9, <2>1 DEF Destroy, TypeOK, ProbedUrls
<1>10. ASSUME NEW u \in Urls, BackendChanges(u) PROVE TypeOK' /\ ProbedUrls'
  <2>1. good' \in [Urls -> BOOLEAN] /\ changes' \in 0..MaxChanges
    BY <1>10, HealthAssumption DEF BackendChanges, TypeOK
  <2> QED BY <1>2, <1>10, <2>1 DEF BackendChanges, poolVars, TypeOK, ProbedUrls
<1> QED BY <1>3, <1>4, <1>5, <1>6, <1>7, <1>8, <1>9, <1>10 DEF Next

(* The types of the pool and of its health checks, whatever is called      *)
(* while probes are out; the pool holds every target under its own URL.    *)
THEOREM HealthTypes == Spec => []TypeOK
<1>1. TypeOK /\ ProbedUrls /\ [Next]_vars => TypeOK' /\ ProbedUrls'
  BY NextTypes
<1> QED BY <1>1, InitTypes, PTL DEF Spec

-----------------------------------------------------------------------------
(* Probes are out only during a round.                                     *)
RoundOut == probing # {} => inProgress

LEMMA RoundOutStep == RoundOut /\ [Next]_vars => RoundOut'
<1> SUFFICES ASSUME RoundOut, [Next]_vars PROVE RoundOut'
  OBVIOUS
<1>1. ASSUME NEW o \in Objects, ProbeEnds(o) PROVE RoundOut'
  BY <1>1 DEF ProbeEnds, RoundOut
<1>2. CASE StartRound \/ RoundEnds
  BY <1>2 DEF StartRound, RoundEnds, RoundOut
<1>3. CASE UNCHANGED <<probing, inProgress>>
  BY <1>3 DEF RoundOut
<1> QED BY <1>1, <1>2, <1>3
     DEF Next, AddTarget, RemoveTarget, UpdateTargetHealth, StopHealthChecks,
         StartHealthChecks, Destroy, BackendChanges, vars

(* One step keeps the floor that the checks and updates answer for.        *)
LEMMA FloorDueStep ==
  ASSUME PoolOK, RoundOut, [Next]_vars
  PROVE  targets' = targets /\ FloorDue >= 2 /\ Cardinality(Healthy) >= FloorDue
            => Cardinality(Healthy') >= FloorDue
<1> SUFFICES ASSUME targets' = targets, FloorDue >= 2, Cardinality(Healthy) >= FloorDue
             PROVE  Cardinality(Healthy') >= FloorDue
  OBVIOUS
<1>1. /\ FloorDue \in Nat /\ FloorDue \in 2..Floor
      /\ inProgress => FloorDue \in 2..floor
  BY FloorType DEF FloorDue, AtMost, PoolOK
<1>2. Healthy' = HealthyIn(obj') /\ InPool' = InPool
  BY DEF Healthy, HealthyIn, InPool
<1>3. /\ obj \in [Objects -> InternalTarget] /\ targets \in [Urls -> 0..made]
      /\ Update(obj) /\ HealthyIn(obj) = Healthy
  BY DEF PoolOK, Update, HealthyIn, Healthy
<1>4. CASE obj' = obj
  BY <1>2, <1>3, <1>4
<1>5. ASSUME NEW o \in Objects, ProbeEnds(o) PROVE Cardinality(Healthy') >= FloorDue
  <2> DEFINE ok == good[obj[o].url]
  <2>1. o \in probing /\ floor \in Nat /\ inProgress
        /\ obj' = ApplyThresholds(CountResult(o, ok), o, floor)
    BY <1>5 DEF ProbeEnds, PoolOK, RoundOut
  <2> HIDE DEF ok
  <2>2. \A low \in 2..floor :
           Cardinality(Healthy) >= low => Cardinality(HealthyIn(obj')) >= low
    BY <2>1, ApplyThresholdsIs
  <2> QED BY <1>1, <1>2, <2>1, <2>2
<1>6. ASSUME NEW u \in Urls, NEW healthy \in BOOLEAN, UpdateTargetHealth(u, healthy)
      PROVE  Cardinality(Healthy') >= FloorDue
  <2>1. CASE obj' = ApplyHealthState(obj, u, TRUE)
    <3>1. Healthy \subseteq Healthy' /\ Healthy' \subseteq Urls
      BY <1>2, <1>3, <2>1, HealthyApplied DEF HealthyIn, InPool
    <3>2. /\ Cardinality(Healthy') >= Cardinality(Healthy)
          /\ Cardinality(Healthy') \in Nat
      BY <3>1, HealthAssumption, FS_Subset, FS_CardinalityType
    <3> QED BY <1>1, <3>2, PoolFinite
  <2>2. CASE obj' = MarkUnhealthy(obj, u, Floor)
    <3>1. \A low \in 2..Floor :
             Cardinality(Healthy) >= low => Cardinality(HealthyIn(obj')) >= low
      BY <1>3, <2>2, FloorType, MarkUnhealthyIs
    <3> QED BY <1>1, <1>2, <3>1
  <2> QED BY <1>6, <2>1, <2>2 DEF UpdateTargetHealth
<1>7. ASSUME NEW u \in Urls, NEW flag \in BOOLEAN, AddTarget(u, flag) PROVE FALSE
  <2>1. targets'[u] = made + 1 /\ targets[u] \in 0..made /\ made \in Nat
    BY <1>3, <1>7 DEF AddTarget, PoolOK
  <2> QED BY <2>1
<1> QED BY <1>4, <1>5, <1>6, <1>7
     DEF Next, StartRound, RoundEnds, RemoveTarget, StopHealthChecks,
         StartHealthChecks, Destroy, BackendChanges, vars

(* Health checks and updates keep a floor of two or more as it was when    *)
(* the round began or is now, whichever is lower, also while targets are   *)
(* added (performHealthChecks reads minHealthyTargets once per round).     *)
THEOREM FloorDueKeptHolds == Spec => FloorDueKept
<1> DEFINE Kept == targets' = targets /\ FloorDue >= 2 /\ Cardinality(Healthy) >= FloorDue
                       => Cardinality(Healthy') >= FloorDue
           Inv  == TypeOK /\ ProbedUrls /\ RoundOut
<1>1. Inv /\ [Next]_vars => [Kept]_vars
  BY PoolTypes, FloorDueStep
<1>2. Inv /\ [Next]_vars => Inv'
  <2>1. TypeOK /\ ProbedUrls /\ [Next]_vars => TypeOK' /\ ProbedUrls'
    BY NextTypes
  <2> QED BY <2>1, RoundOutStep
<1>3. Init => Inv
  BY InitTypes DEF Init, RoundOut
<1> QED BY <1>1, <1>2, <1>3, PTL DEF Spec, FloorDueKept

-----------------------------------------------------------------------------
(* The counters of an object are earned by its latest results.             *)
Earned == \A o \in Objects : /\ Latest(results[o], obj[o].failures, FALSE)
                             /\ Latest(results[o], obj[o].successes, TRUE)
ResultsType == results \in [Objects -> Run] /\ good \in [Urls -> BOOLEAN]

EarnedInv == PoolOK /\ ResultsType /\ Earned

(* What one result does to the counters and to the results.                *)
LEMMA ResultEarns ==
  ASSUME PoolOK, ResultsType, Earned, NEW o \in Objects, NEW ok \in BOOLEAN,
         NEW c, c = CountResult(o, ok)
  PROVE  /\ Latest(Extend(results[o], ok), c[o].failures, FALSE)
         /\ Latest(Extend(results[o], ok), c[o].successes, TRUE)
         /\ \A p \in Objects \ {o} : c[p] = obj[p]
         /\ c[o].healthy = obj[o].healthy
<1>1. /\ results[o] \in Run /\ obj \in [Objects -> InternalTarget]
      /\ obj[o].failures \in 0..FailureThreshold
      /\ obj[o].successes \in 0..SuccessThreshold
      /\ 0 \in 0..FailureThreshold /\ 0 \in 0..SuccessThreshold
  BY HealthAssumption DEF PoolOK, ResultsType, InternalTarget
<1>2. /\ c[o].failures = IF ok THEN 0 ELSE AtMost(obj[o].failures + 1, FailureThreshold)
      /\ c[o].successes = IF ok THEN AtMost(obj[o].successes + 1, SuccessThreshold) ELSE 0
      /\ c[o].healthy = obj[o].healthy
      /\ \A p \in Objects \ {o} : c[p] = obj[p]
  BY <1>1 DEF CountResult, InternalTarget
<1>3. \A b \in BOOLEAN : Latest(Extend(results[o], ok), 0, b)
  BY DEF Latest
<1>4. Latest(results[o], obj[o].failures, FALSE)
      /\ Latest(results[o], obj[o].successes, TRUE)
  BY DEF Earned
<1>5. ~ok => Latest(Extend(results[o], ok), c[o].failures, FALSE)
  <2> SUFFICES ASSUME ok = FALSE PROVE Latest(Extend(results[o], ok), c[o].failures, ok)
    OBVIOUS
  <2>1. c[o].failures = AtMost(obj[o].failures + 1, FailureThreshold)
    BY <1>2
  <2>2. Latest(results[o], obj[o].failures, ok)
    BY <1>4, Zenon
  <2>t. Threshold(ok) = FailureThreshold
    BY Thresholds, Zenon
  <2>3. obj[o].failures \in Nat /\ obj[o].failures <= Threshold(ok)
    BY <1>1, <2>t
  <2> QED BY <1>1, <2>1, <2>2, <2>3, <2>t, LatestGrows
<1>6. ok => Latest(Extend(results[o], ok), c[o].successes, TRUE)
  <2> SUFFICES ASSUME ok = TRUE PROVE Latest(Extend(results[o], ok), c[o].successes, ok)
    OBVIOUS
  <2>1. c[o].successes = AtMost(obj[o].successes + 1, SuccessThreshold)
    BY <1>2
  <2>2. Latest(results[o], obj[o].successes, ok)
    BY <1>4, Zenon
  <2>t. Threshold(ok) = SuccessThreshold
    BY Thresholds, Zenon
  <2>3. obj[o].successes \in Nat /\ obj[o].successes <= Threshold(ok)
    BY <1>1, <2>t
  <2> QED BY <1>1, <2>1, <2>2, <2>3, <2>t, LatestGrows
<1> QED BY <1>2, <1>3, <1>5, <1>6

(* applyHealthState: the health of one object and the loss of a counter.   *)
Loses(objs, new, url, h) ==
    \A p \in Objects :
        /\ new[p].failures \in {0, objs[p].failures}
        /\ new[p].successes \in {0, objs[p].successes}
        /\ new[p].healthy # objs[p].healthy => p = targets[url] /\ new[p].healthy = h

LEMMA ApplyHealthStateLoses ==
  ASSUME PoolOK, NEW objs, Update(objs), NEW url \in Urls, NEW h \in BOOLEAN
  PROVE  Loses(objs, ApplyHealthState(objs, url, h), url, h)
<1> DEFINE new == ApplyHealthState(objs, url, h)
<1>1. CASE targets[url] = None
  BY <1>1 DEF ApplyHealthState, Loses
<1>2. CASE targets[url] # None
  <2>1. targets[url] \in Objects /\ objs \in [Objects -> InternalTarget]
    BY <1>2, HealthAssumption DEF PoolOK, Objects, None, Update
  <2>2. new = [objs EXCEPT ![targets[url]].healthy = h,
                      ![targets[url]].failures = IF h THEN 0 ELSE @,
                      ![targets[url]].successes = IF h THEN @ ELSE 0]
    BY <1>2 DEF ApplyHealthState
  <2> HIDE DEF new
  <2>3. Loses(objs, new, url, h)
    BY <2>1, <2>2 DEF InternalTarget, Loses
  <2> QED BY <2>3 DEF new
<1> QED BY <1>1, <1>2

LEMMA MarkedLoses ==
  ASSUME PoolOK, NEW objs, Update(objs), NEW url \in Urls
  PROVE  /\ Loses(objs, ApplyHealthState(objs, url, TRUE), url, TRUE)
         /\ Loses(objs, ApplyHealthState(objs, url, FALSE), url, FALSE)
<1> DEFINE Marked(h) == Loses(objs, ApplyHealthState(objs, url, h), url, h)
<1>1. \A h \in BOOLEAN : Marked(h)
  BY ApplyHealthStateLoses, Zenon
<1> HIDE DEF Marked
<1>2. Marked(TRUE) /\ Marked(FALSE)
  BY <1>1, Zenon
<1> QED BY <1>2, Zenon DEF Marked

(* One step keeps the counters earned, and a target changes its health     *)
(* only when it is told to, or on a run of results of the object whose     *)
(* probe ends: the object itself or one that had its URL before.           *)
Told == \E u \in Urls, flag \in BOOLEAN : UpdateTargetHealth(u, flag)
FlipBy(o) ==
    \/ obj'[o].healthy = obj[o].healthy
    \/ Told
    \/ \E p \in probing :
          /\ o = targets[obj[p].url]
          /\ \/ obj'[o].healthy /\ LastAre(p, SuccessThreshold, TRUE)
             \/ ~obj'[o].healthy /\ LastAre(p, FailureThreshold, FALSE)

LEMMA EarnedStep ==
  ASSUME EarnedInv, [Next]_vars
  PROVE  ResultsType' /\ Earned' /\ \A o \in 1..made : FlipBy(o)
<1>0. /\ PoolOK /\ ResultsType /\ Earned
      /\ 1..made \subseteq Objects /\ probing \subseteq Objects
      /\ targets \in [Urls -> 0..made] /\ obj \in [Objects -> InternalTarget]
      /\ \A o \in probing : obj[o].url \in Urls
  BY HealthAssumption DEF EarnedInv, PoolOK, Objects
<1>1. \A o \in Objects : /\ results[o] \in Run
                         /\ Latest(results[o], 0, TRUE) /\ Latest(results[o], 0, FALSE)
  BY <1>0 DEF ResultsType, Latest
(* Steps that touch neither the objects nor the results.                   *)
<1>2. ASSUME UNCHANGED <<obj, results>>, good' \in [Urls -> BOOLEAN]
      PROVE  ResultsType' /\ Earned' /\ \A o \in 1..made : FlipBy(o)
  BY <1>0, <1>2 DEF ResultsType, Earned, FlipBy
<1>3. ASSUME NEW o \in Objects, ProbeEnds(o)
      PROVE  ResultsType' /\ Earned' /\ \A p \in 1..made : FlipBy(p)
  <2> DEFINE ok == good[obj[o].url]
             c  == CountResult(o, ok)
  <2>1. /\ o \in probing /\ probing' = probing \ {o} /\ floor \in Nat
        /\ obj' = ApplyThresholds(c, o, floor)
        /\ results' = [results EXCEPT ![o] = Extend(@, ok)]
        /\ UNCHANGED <<targets, good>>
    BY <1>0, <1>3 DEF ProbeEnds, poolVars, PoolOK
  <2>2. ok \in BOOLEAN
    BY <1>0, <2>1 DEF ResultsType
  <2> HIDE DEF ok
  <2>3. Update(c)
    BY <1>0, CountResultIs
  <2>4. /\ Latest(Extend(results[o], ok), c[o].failures, FALSE)
        /\ Latest(Extend(results[o], ok), c[o].successes, TRUE)
        /\ \A p \in Objects \ {o} : c[p] = obj[p]
        /\ c[o].healthy = obj[o].healthy
    BY <1>0, <2>2, ResultEarns, ZenonT(60)
  <2>5. Extend(results[o], ok) \in Run
    BY <1>1, <2>2, ExtendIs
  <2>6. c[o].url = obj[o].url /\ c[o].url \in Urls
    BY <1>0, <2>1, <2>3 DEF Update
  <2> HIDE DEF c
  <2>7. \/ obj' = c
        \/ obj' = ApplyHealthState(c, c[o].url, FALSE) /\ c[o].failures >= FailureThreshold
        \/ obj' = ApplyHealthState(c, c[o].url, TRUE) /\ c[o].successes >= SuccessThreshold
    BY <2>1 DEF ApplyThresholds, MarkUnhealthy
  <2>a. /\ Loses(c, ApplyHealthState(c, c[o].url, TRUE), c[o].url, TRUE)
        /\ Loses(c, ApplyHealthState(c, c[o].url, FALSE), c[o].url, FALSE)
    BY <1>0, <2>3, <2>6, MarkedLoses, Zenon
  <2>b. \/ obj' = c
        \/ Loses(c, obj', c[o].url, FALSE) /\ c[o].failures >= FailureThreshold
        \/ Loses(c, obj', c[o].url, TRUE) /\ c[o].successes >= SuccessThreshold
    BY <2>7, <2>a, Zenon
  <2>8. ASSUME NEW p \in Objects
        PROVE  /\ obj'[p].failures \in {0, c[p].failures}
               /\ obj'[p].successes \in {0, c[p].successes}
               /\ obj'[p].healthy # c[p].healthy =>
                     /\ p = targets[c[o].url]
                     /\ \/ obj'[p].healthy = TRUE /\ c[o].successes >= SuccessThreshold
                        \/ obj'[p].healthy = FALSE /\ c[o].failures >= FailureThreshold
    BY <2>b, Zenon DEF Loses
  <2>10. results' \in [Objects -> Run] /\ results'[o] = Extend(results[o], ok)
         /\ \A p \in Objects \ {o} : results'[p] = results[p]
    BY <1>0, <2>1, <2>5 DEF ResultsType
  <2>11. ResultsType'
    BY <1>0, <2>1, <2>10 DEF ResultsType
  <2>12. \A p \in Objects : Latest(results'[p], 0, FALSE) /\ Latest(results'[p], 0, TRUE)
    BY <2>10 DEF Latest
  <2>13. \A p \in Objects : /\ Latest(results'[p], c[p].failures, FALSE)
                            /\ Latest(results'[p], c[p].successes, TRUE)
    BY <1>0, <2>4, <2>10 DEF Earned
  <2>14. Earned'
    BY <2>8, <2>12, <2>13 DEF Earned
  <2>15. ASSUME NEW p \in 1..made PROVE FlipBy(p)
    <3> SUFFICES ASSUME obj'[p].healthy # obj[p].healthy
                 PROVE  /\ p = targets[obj[o].url]
                        /\ \/ obj'[p].healthy /\ LastAre(o, SuccessThreshold, TRUE)
                           \/ ~obj'[p].healthy /\ LastAre(o, FailureThreshold, FALSE)
      BY <2>1 DEF FlipBy
    <3>1. p \in Objects /\ obj'[p].healthy # c[p].healthy
      BY <1>0, <2>4
    <3>2. /\ p = targets[c[o].url]
          /\ \/ obj'[p].healthy = TRUE /\ c[o].successes >= SuccessThreshold
             \/ obj'[p].healthy = FALSE /\ c[o].failures >= FailureThreshold
      BY <2>8, <3>1, Zenon
    <3>3. p = targets[obj[o].url]
      BY <2>6, <3>2
    <3>4. \A n \in Nat \ {0}, b \in BOOLEAN :
             Latest(results'[o], n, b) => LastAre(o, n, b)
      BY DEF Latest, LastAre
    <3>5. /\ c[o].failures \in 0..FailureThreshold
          /\ c[o].successes \in 0..SuccessThreshold
      BY <2>3 DEF Update, InternalTarget
    <3>6. CASE obj'[p].healthy = TRUE /\ c[o].successes >= SuccessThreshold
      <4>1. c[o].successes = SuccessThreshold /\ SuccessThreshold \in Nat \ {0}
        BY <3>5, <3>6, HealthAssumption
      <4>2. LastAre(o, SuccessThreshold, TRUE)
        BY <2>13, <3>4, <4>1, Zenon
      <4> QED BY <3>3, <3>6, <4>2, Zenon
    <3>7. CASE obj'[p].healthy = FALSE /\ c[o].failures >= FailureThreshold
      <4>1. c[o].failures = FailureThreshold /\ FailureThreshold \in Nat \ {0}
        BY <3>5, <3>7, HealthAssumption
      <4>2. LastAre(o, FailureThreshold, FALSE)
        BY <2>13, <3>4, <4>1, Zenon
      <4> QED BY <3>3, <3>7, <4>2, Zenon
    <3> QED BY <3>2, <3>6, <3>7
  <2> QED BY <2>11, <2>14, <2>15
<1>4. ASSUME NEW u \in Urls, NEW healthy \in BOOLEAN, UpdateTargetHealth(u, healthy)
      PROVE  ResultsType' /\ Earned' /\ \A p \in 1..made : FlipBy(p)
  <2>1. /\ UNCHANGED <<good, results>>
        /\ \/ obj' = obj
           \/ obj' = ApplyHealthState(obj, u, TRUE)
           \/ obj' = ApplyHealthState(obj, u, FALSE)
    BY <1>4 DEF UpdateTargetHealth, MarkUnhealthy, poolVars
  <2>2. Update(obj)
    BY <1>0 DEF Update
  <2>3. /\ Loses(obj, ApplyHealthState(obj, u, TRUE), u, TRUE)
        /\ Loses(obj, ApplyHealthState(obj, u, FALSE), u, FALSE)
    BY <1>0, <2>2, MarkedLoses, Zenon
  <2>4. obj' = obj \/ Loses(obj, obj', u, TRUE) \/ Loses(obj, obj', u, FALSE)
    BY <2>1, <2>3, Zenon
  <2>5. ASSUME NEW p \in Objects
        PROVE  /\ obj'[p].failures \in {0, obj[p].failures}
               /\ obj'[p].successes \in {0, obj[p].successes}
    BY <2>4 DEF Loses
  <2>6. ResultsType' /\ Earned'
    BY <1>0, <1>1, <2>1, <2>5 DEF ResultsType, Earned
  <2>7. \A p \in 1..made : FlipBy(p)
    BY <1>4 DEF FlipBy, Told
  <2> QED BY <2>6, <2>7
<1>5. CASE StartRound \/ RoundEnds \/ StopHealthChecks \/ StartHealthChecks \/ UNCHANGED vars
  BY <1>0, <1>2, <1>5
     DEF StartRound, RoundEnds, StopHealthChecks, StartHealthChecks, vars, ResultsType
<1>6. CASE Destroy \/ \E u \in Urls : RemoveTarget(u)
  BY <1>0, <1>2, <1>6 DEF Destroy, RemoveTarget, ResultsType
<1>7. ASSUME NEW u \in Urls, BackendChanges(u)
      PROVE  ResultsType' /\ Earned' /\ \A p \in 1..made : FlipBy(p)
  <2>1. good' \in [Urls -> BOOLEAN]
    BY <1>0, <1>7 DEF BackendChanges, ResultsType
  <2> QED BY <1>2, <1>7, <2>1 DEF BackendChanges
<1>8. ASSUME NEW u \in Urls, NEW flag \in BOOLEAN, AddTarget(u, flag)
      PROVE  ResultsType' /\ Earned' /\ \A p \in 1..made : FlipBy(p)
  <2>1. /\ obj' = [obj EXCEPT ![made + 1] = NewTarget(u, flag)]
        /\ UNCHANGED <<good, results>> /\ made \in Nat
    BY <1>0, <1>8 DEF AddTarget, PoolOK
  <2>2. NewTarget(u, flag).failures = 0 /\ NewTarget(u, flag).successes = 0
    BY DEF NewTarget
  <2>3. \A p \in Objects : \/ obj'[p] = obj[p]
                           \/ obj'[p].failures = 0 /\ obj'[p].successes = 0
    BY <1>0, <2>1, <2>2
  <2>4. Earned'
    <3> SUFFICES ASSUME NEW p \in Objects
                 PROVE  /\ Latest(results[p], obj'[p].failures, FALSE)
                        /\ Latest(results[p], obj'[p].successes, TRUE)
      BY <2>1, Zenon DEF Earned
    <3>1. CASE obj'[p] = obj[p]
      BY <1>0, <3>1, Zenon DEF Earned
    <3>2. CASE obj'[p].failures = 0 /\ obj'[p].successes = 0
      BY <1>1, <3>2, Zenon
    <3>3. \/ obj'[p] = obj[p]
          \/ obj'[p].failures = 0 /\ obj'[p].successes = 0
      BY <2>3, Zenon
    <3> QED BY <3>1, <3>2, <3>3, Zenon
  <2>5. \A p \in 1..made : FlipBy(p)
    <3>1. \A p \in 1..made : p \in Objects /\ p # made + 1
      BY <1>0, <2>1
    <3>2. \A p \in 1..made : obj'[p] = obj[p]
      BY <1>0, <2>1, <3>1
    <3> QED BY <3>2, Zenon DEF FlipBy
  <2> QED BY <1>0, <2>1, <2>4, <2>5 DEF ResultsType
<1> QED BY <1>3, <1>4, <1>5, <1>6, <1>7, <1>8 DEF Next

LEMMA EarnedInit == Init => EarnedInv
<1> SUFFICES ASSUME Init PROVE EarnedInv
  OBVIOUS
<1>1. PoolOK
  BY FloorInit DEF FloorInv
<1>2. ResultsType /\ \A o \in Objects : results[o] = NoRun
  BY DEF Init, ResultsType, Run, NoRun
<1>3. \A o \in Objects : obj[o].failures = 0 /\ obj[o].successes = 0
  BY DEF Init, NewTarget
<1>4. Earned
  BY <1>2, <1>3 DEF Earned, Latest
<1> QED BY <1>1, <1>2, <1>4 DEF EarnedInv

(* Counters are earned whatever is called while probes are out.            *)
LEMMA EarnedInvariant == Spec => []EarnedInv
<1>1. TypeOK /\ ProbedUrls /\ [Next]_vars => TypeOK' /\ ProbedUrls'
  BY NextTypes
<1>2. EarnedInv /\ TypeOK' /\ ProbedUrls' /\ [Next]_vars => EarnedInv'
  BY EarnedStep, PoolTypesNext DEF EarnedInv
<1> QED BY <1>1, <1>2, InitTypes, EarnedInit, PTL DEF Spec

-----------------------------------------------------------------------------
(* Unless somebody else sets it, the health of a target changes only on an *)
(* unbroken run of results of one object that had its URL, as long as the  *)
(* threshold, whatever targets are added and removed while probes are out  *)
(* (performHealthChecks, updateTargetHealthWithFloor).                     *)
THEOREM FlipsFollowUrlHolds == Spec => FlipsFollowUrl
<1> DEFINE Flips == \A o \in 1..made :
               \/ obj'[o].healthy = obj[o].healthy
               \/ \E u \in Urls, flag \in BOOLEAN : UpdateTargetHealth(u, flag)
               \/ \E p \in 1..made :
                     /\ obj[p].url = obj[o].url
                     /\ \/ obj'[o].healthy /\ LastAre(p, SuccessThreshold, TRUE)
                        \/ ~obj'[o].healthy /\ LastAre(p, FailureThreshold, FALSE)
<1>1. ASSUME EarnedInv, [Next]_vars PROVE Flips
  <2>1. \A o \in 1..made : FlipBy(o)
    BY <1>1, EarnedStep
  <2>2. ASSUME NEW o \in 1..made, NEW p \in probing, o = targets[obj[p].url]
        PROVE  p \in 1..made /\ obj[p].url = obj[o].url
    <3>1. p \in 1..made /\ obj[p].url \in InPool
      BY <1>1, <2>2 DEF EarnedInv, PoolOK, InPool, None
    <3> QED BY <1>1, <2>2, <3>1 DEF EarnedInv, PoolOK
  <2> QED BY <2>1, <2>2, ZenonT(60) DEF FlipBy, Told
<1>2. EarnedInv /\ [Next]_vars => [Flips]_vars
  BY <1>1
<1> QED BY <1>2, EarnedInvariant, PTL DEF Spec, FlipsFollowUrl

(* Without additions a target whose probe is out is the one the pool holds *)
(* under its URL, if any: the object that had the URL is the target        *)
(* itself, and a removed one never comes to share it.                      *)
OwnUrl == \A o \in probing : targets[obj[o].url] \in {o, None}

LEMMA UrlsKept ==
  ASSUME PoolOK, [Next]_vars, "add" \notin Events
  PROVE  Update(obj')
<1>1. Update(obj) /\ HealthyIn(obj) = Healthy
  BY DEF PoolOK, Update, HealthyIn, Healthy
<1>2. ASSUME NEW o \in Objects, ProbeEnds(o) PROVE Update(obj')
  <2> DEFINE ok == good[obj[o].url]
  <2>1. o \in probing /\ floor \in Nat
        /\ obj' = ApplyThresholds(CountResult(o, ok), o, floor)
    BY <1>2 DEF ProbeEnds, PoolOK
  <2> HIDE DEF ok
  <2> QED BY <2>1, ApplyThresholdsIs
<1>3. ASSUME NEW u \in Urls, NEW healthy \in BOOLEAN, UpdateTargetHealth(u, healthy)
      PROVE  Update(obj')
  <2>1. obj' = ApplyHealthState(obj, u, TRUE) \/ obj' = MarkUnhealthy(obj, u, Floor)
    BY <1>3 DEF UpdateTargetHealth
  <2>2. Update(ApplyHealthState(obj, u, TRUE))
    BY <1>1, HealthyApplied
  <2>3. Update(MarkUnhealthy(obj, u, Floor))
    BY <1>1, FloorType, MarkUnhealthyIs
  <2> QED BY <2>1, <2>2, <2>3
<1>4. CASE obj' = obj
  BY <1>1, <1>4
<1> QED BY <1>2, <1>3, <1>4
     DEF Next, StartRound, RoundEnds, AddTarget, RemoveTarget, StopHealthChecks,
         StartHealthChecks, Destroy, BackendChanges, vars

LEMMA OwnUrlStep ==
  ASSUME PoolOK, OwnUrl, [Next]_vars, "add" \notin Events
  PROVE  OwnUrl'
<1>1. /\ Update(obj') /\ targets \in [Urls -> 0..made]
      /\ \A o \in probing : o \in Objects /\ obj[o].url \in Urls
  BY UrlsKept, HealthAssumption DEF PoolOK, Objects
<1>2. CASE StartRound
  <2>1. /\ probing' = {targets[u] : u \in InPool} /\ UNCHANGED <<targets, obj>>
        /\ \A u \in InPool : obj[targets[u]].url = u
    BY <1>2 DEF StartRound, poolVars, PoolOK
  <2> QED BY <2>1 DEF OwnUrl
<1>3. ASSUME probing' \subseteq probing, \A u \in Urls : targets'[u] \in {targets[u], None}
      PROVE  OwnUrl'
  BY <1>1, <1>3 DEF OwnUrl, Update
<1>4. CASE RoundEnds \/ StopHealthChecks \/ StartHealthChecks \/ UNCHANGED vars
  BY <1>3, <1>4 DEF RoundEnds, StopHealthChecks, StartHealthChecks, poolVars, vars
<1>5. CASE \/ \E o \in Objects : ProbeEnds(o)
           \/ \E u \in Urls : BackendChanges(u)
           \/ \E u \in Urls, healthy \in BOOLEAN : UpdateTargetHealth(u, healthy)
  BY <1>3, <1>5 DEF ProbeEnds, BackendChanges, UpdateTargetHealth, poolVars
<1>6. CASE Destroy \/ \E u \in Urls : RemoveTarget(u)
  BY <1>1, <1>3, <1>6 DEF Destroy, RemoveTarget
<1>7. ASSUME NEW u \in Urls, NEW flag \in BOOLEAN, AddTarget(u, flag) PROVE FALSE
  BY <1>7 DEF AddTarget
<1> QED BY <1>2, <1>4, <1>5, <1>6, <1>7 DEF Next

(* Unless somebody else sets it, a target changes its health only on an    *)
(* unbroken run of its own probe results as long as the threshold, for     *)
(* pools and thresholds of any size, as long as no target is added while   *)
(* probes are out (performHealthChecks, updateTargetHealthWithFloor).      *)
THEOREM FlipsEarnedHolds == ASSUME "add" \notin Events PROVE Spec => FlipsEarned
<1> DEFINE Flips == \A o \in 1..made :
               \/ obj'[o].healthy = obj[o].healthy
               \/ \E u \in Urls, flag \in BOOLEAN : UpdateTargetHealth(u, flag)
               \/ obj'[o].healthy /\ LastAre(o, SuccessThreshold, TRUE)
               \/ ~obj'[o].healthy /\ LastAre(o, FailureThreshold, FALSE)
<1>1. ASSUME EarnedInv, OwnUrl, [Next]_vars PROVE Flips
  <2>1. \A o \in 1..made : FlipBy(o)
    BY <1>1, EarnedStep
  <2>2. ASSUME NEW o \in 1..made, NEW p \in probing, o = targets[obj[p].url]
        PROVE  p = o
    <3>1. o # None /\ targets[obj[p].url] \in {p, None}
      BY <1>1, <2>2 DEF OwnUrl, None
    <3> QED BY <2>2, <3>1
  <2> QED BY <2>1, <2>2 DEF FlipBy, Told
<1>2. EarnedInv /\ OwnUrl /\ [Next]_vars => [Flips]_vars
  BY <1>1
<1>3. Init => OwnUrl
  BY DEF Init, OwnUrl
<1>4. EarnedInv /\ OwnUrl /\ [Next]_vars => OwnUrl'
  BY OwnUrlStep DEF EarnedInv
<1> QED BY <1>2, <1>3, <1>4, EarnedInvariant, PTL DEF Spec, FlipsEarned

=============================================================================
