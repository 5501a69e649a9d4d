--------------------------- MODULE RoutingProofs ---------------------------
(***************************************************************************)
(* The connection counts are right, the strategies that go by them choose  *)
(* well, and the round robin is fair, for any number of targets, requests  *)
(* and redirects.                                                          *)
(***************************************************************************)
EXTENDS Routing, FiniteSetTheorems, TLAPS

(* What each request knows of its place: a request is counted exactly      *)
(* while on its first hop, and its target is in the pool unless it is      *)
(* recorded as replaced.                                                   *)
Bookkeeping ==
    \A r \in Requests :
        /\ req[r].counted <=> req[r].phase = "upstream" /\ req[r].hops = 0
        /\ r \in replaced => req[r].phase = "upstream"
        /\ req[r].phase = "upstream" => r \in replaced \/ req[r].url \in InPool

Counts == NeverOvercharged /\ CountsExact

RoutingInv == TypeOK /\ Bookkeeping /\ Counts

-----------------------------------------------------------------------------
LEMMA FirstHopFinite ==
  ASSUME NEW u
  PROVE  IsFiniteSet(FirstHopAt(u)) /\ Cardinality(FirstHopAt(u)) \in Nat
<1>1. FirstHopAt(u) \subseteq Requests
  BY DEF FirstHopAt, ActiveAt
<1> QED BY <1>1, RoutingAssumption, FS_Subset, FS_CardinalityType

LEMMA PoolFinite ==
  /\ IsFiniteSet(InPool) /\ Cardinality(InPool) \in Nat
  /\ TypeOK => IsFiniteSet(healthy) /\ Cardinality(healthy) \in Nat
<1>1. InPool \subseteq Urls
  BY DEF InPool
<1>2. TypeOK => healthy \subseteq Urls
  BY <1>1 DEF TypeOK
<1> QED BY <1>1, <1>2, RoutingAssumption, FS_Subset, FS_CardinalityType

-----------------------------------------------------------------------------
LEMMA InitType == Init => TypeOK
<1> SUFFICES ASSUME Init PROVE TypeOK
  OBVIOUS
<1>1. Cardinality(InitialUrls) \in Nat
  BY RoutingAssumption, FS_Subset, FS_CardinalityType
<1>2. place \in [Urls -> Nat] /\ InPool = InitialUrls
  BY <1>1, RoutingAssumption DEF Init, InPool
<1>3. req \in [Requests -> Request] /\ \A r \in Requests : req[r] = Idle("new")
  BY RoutingAssumption DEF Init, Request, Idle
<1> QED
  BY <1>2, <1>3, RoutingAssumption DEF Init, TypeOK, NoPicks, Idle

LEMMA TypeOfSend ==
  ASSUME TypeOK, NEW r \in Requests, NEW u \in healthy, Drop(r) \/ Send(r, u)
  PROVE  /\ conn' \in [Urls -> Nat]
         /\ req' \in [Requests -> Request]
         /\ \A q \in Requests : req'[q].phase = "upstream" <=> req'[q].url # None
<1>1. u \in Urls /\ u # None
  BY NoneAssumption DEF TypeOK, InPool
<1>2. conn' \in [Urls -> Nat]
  BY <1>1 DEF TypeOK, Drop, Send
<1>3. /\ [phase |-> "upstream", url |-> u, counted |-> TRUE, hops |-> 0] \in Request
      /\ Idle("done") \in Request
  BY <1>1, RoutingAssumption DEF Request, Idle
<1>4. CASE Drop(r)
  BY <1>1, <1>2, <1>3, <1>4 DEF TypeOK, Drop, Idle
<1>5. CASE Send(r, u)
  BY <1>1, <1>2, <1>3, <1>5 DEF TypeOK, Send
<1> QED
  BY <1>4, <1>5

(* What is not empty has a member.                                         *)
LEMMA HasMember == Cardinality(healthy) > 0 => \E u \in healthy : TRUE
BY FS_EmptySet

LEMMA TypeOfHop ==
  ASSUME TypeOK, NEW r \in Requests, NEW calls \in 1..2,
         req[r].phase = "upstream", HooksCalled(r, calls)
  PROVE  conn' \in [Urls -> Nat] /\ lat' \in [Urls -> Latencies]
<1>1. \A u \in Urls : Lowered(u, 1) \in Nat
  BY DEF TypeOK, Lowered
<1> QED
  BY <1>1 DEF TypeOK, HooksCalled, InPool

LEMMA TypeOfForget ==
  ASSUME TypeOK, NEW S \in SUBSET Urls, Forget(S)
  PROVE  /\ conn' \in [Urls -> Nat] /\ lat' \in [Urls -> Latencies]
         /\ replaced' \subseteq Requests /\ picks' \in [Urls -> Nat]
         /\ blurred' = blurred \ S
  BY RoutingAssumption DEF TypeOK, Forget, NoPicks

LEMMA NextType == TypeOK /\ [Next]_vars => TypeOK'
<1> SUFFICES ASSUME TypeOK, [Next]_vars PROVE TypeOK'
  OBVIOUS
<1>1. ASSUME NEW r \in Requests, Unavailable(r) PROVE TypeOK'
  <2>1. Idle("done") \in Request
    BY RoutingAssumption DEF Idle, Request
  <2> QED BY <1>1, <2>1 DEF Unavailable, TypeOK, Idle, poolVars, InPool
<1>2. ASSUME NEW r \in Requests, RouteSingle(r) PROVE TypeOK'
  <2>1. PICK u \in healthy : Drop(r) \/ Send(r, u)
    BY <1>2, HasMember DEF RouteSingle
  <2> QED BY <1>2, <2>1, TypeOfSend DEF RouteSingle, TypeOK, poolVars, InPool
<1>3. ASSUME NEW r \in Requests, RouteSticky(r) PROVE TypeOK'
  <2>1. PICK u \in healthy : Drop(r) \/ Send(r, u)
    BY <1>3, HasMember, PoolFinite DEF RouteSticky
  <2> QED BY <1>3, <2>1, TypeOfSend DEF RouteSticky, TypeOK, poolVars, InPool
<1>4. ASSUME NEW r \in Requests, RouteByStrategy(r) PROVE TypeOK'
  <2>1. PICK u \in healthy :
           /\ Drop(r) \/ Send(r, u)
           /\ picks' = IF strategy = "round-robin" THEN [picks EXCEPT ![u] = @ + 1]
                                                   ELSE picks
    BY <1>4 DEF RouteByStrategy
  <2>2. Cardinality(healthy) \in Nat /\ Cardinality(healthy) > 1
    BY <1>4, PoolFinite DEF RouteByStrategy
  <2>3. turn' \in Nat
    <3>1. Advance \in Nat
      BY <2>2, SMT DEF Advance, TypeOK
    <3> QED BY <1>4, <3>1 DEF RouteByStrategy, TypeOK
  <2>4. picks' \in [Urls -> Nat]
    <3>1. u \in Urls /\ picks[u] + 1 \in Nat
      BY DEF TypeOK, InPool
    <3> QED BY <2>1, <3>1 DEF TypeOK
  <2> QED
    BY <1>4, <2>1, <2>3, <2>4, TypeOfSend DEF RouteByStrategy, TypeOK, poolVars, InPool
<1>5. ASSUME NEW r \in Requests, HopReturns(r) PROVE TypeOK'
  <2>1. conn' \in [Urls -> Nat] /\ lat' \in [Urls -> Latencies]
    BY <1>5, TypeOfHop DEF HopReturns
  <2>2. Idle("done") \in Request
    BY RoutingAssumption DEF Idle, Request
  <2>3. /\ req' \in [Requests -> Request]
        /\ \A q \in Requests : req'[q].phase = "upstream" <=> req'[q].url # None
    BY <1>5, <2>2 DEF HopReturns, TypeOK, Idle
  <2>4. blurred' \subseteq InPool
    BY <1>5 DEF HopReturns, Blurs, TypeOK
  <2> QED
    BY <1>5, <2>1, <2>3, <2>4 DEF HopReturns, TypeOK, poolVars, InPool
<1>6. ASSUME NEW r \in Requests, HopRedirects(r) PROVE TypeOK'
  <2>1. conn' \in [Urls -> Nat] /\ lat' \in [Urls -> Latencies]
    BY <1>6, TypeOfHop DEF HopRedirects
  <2>2. [req[r] EXCEPT !.hops = @ + 1, !.counted = FALSE] \in Request
    <3>1. req[r] \in Request
      BY DEF TypeOK
    <3>2. req[r].hops + 1 \in 0..MaxRedirects
      BY <1>6, <3>1, RoutingAssumption DEF HopRedirects, Request
    <3> QED BY <3>1, <3>2 DEF Request
  <2>3. req' = [req EXCEPT ![r] = [req[r] EXCEPT !.hops = @ + 1, !.counted = FALSE]]
    BY <1>6 DEF HopRedirects, TypeOK
  <2>4. /\ req' \in [Requests -> Request]
        /\ \A q \in Requests : req'[q].phase = req[q].phase /\ req'[q].url = req[q].url
    BY <2>2, <2>3 DEF TypeOK, Request
  <2>5. blurred' \subseteq InPool
    BY <1>6 DEF HopRedirects, Blurs, TypeOK
  <2> QED
    BY <1>6, <2>1, <2>4, <2>5 DEF HopRedirects, TypeOK, poolVars, InPool
<1>7. ASSUME NEW u \in Urls, NEW flag \in BOOLEAN, AddTarget(u, flag) PROVE TypeOK'
  <2>1. place' \in [Urls -> Nat] /\ InPool' = InPool \cup {u}
    <3>1. (IF place[u] = 0 THEN Cardinality(InPool) + 1 ELSE place[u]) \in Nat \ {0}
      BY PoolFinite DEF TypeOK
    <3>2. PICK k \in Nat \ {0} : place' = [place EXCEPT ![u] = k]
      BY <1>7, <3>1 DEF AddTarget
    <3> QED BY <3>2 DEF TypeOK, InPool
  <2>2. healthy' \subseteq InPool'
    BY <1>7, <2>1 DEF AddTarget, TypeOK
  <2> QED
    BY <1>7, <2>1, <2>2, TypeOfForget DEF AddTarget, TypeOK
<1>8. ASSUME NEW u \in Urls, RemoveTarget(u) PROVE TypeOK'
  <2>1. place' \in [Urls -> Nat] /\ InPool' = InPool \ {u}
    BY <1>8 DEF RemoveTarget, TypeOK, InPool
  <2>2. healthy' \subseteq InPool'
    BY <1>8, <2>1 DEF RemoveTarget, TypeOK
  <2> QED
    BY <1>8, <2>1, <2>2, TypeOfForget DEF RemoveTarget, TypeOK
<1>9. ASSUME Destroy PROVE TypeOK'
  <2>1. place' \in [Urls -> Nat] /\ blurred' = {}
    BY <1>9, TypeOfForget DEF Destroy, TypeOK, InPool
  <2> QED
    BY <1>9, <2>1, TypeOfForget DEF Destroy, TypeOK
<1>10. ASSUME NEW u \in Urls, HealthChanges(u) PROVE TypeOK'
  BY <1>10 DEF HealthChanges, TypeOK, NoPicks, InPool
<1>11. ASSUME UNCHANGED vars PROVE TypeOK'
  BY <1>11 DEF vars, poolVars, TypeOK, InPool
<1> QED
  BY <1>1, <1>2, <1>3, <1>4, <1>5, <1>6, <1>7, <1>8, <1>9, <1>10, <1>11 DEF Next

(* For every pool and every mix of events the variables keep their types.  *)
THEOREM TypeCorrect == Spec => []TypeOK
  BY InitType, NextType, PTL DEF Spec

-----------------------------------------------------------------------------
LEMMA InitBookkeeping == Init => Bookkeeping /\ Counts
<1> SUFFICES ASSUME Init PROVE Bookkeeping /\ Counts
  OBVIOUS
<1>1. \A r \in Requests : req[r].phase = "new" /\ req[r].counted = FALSE
  BY DEF Init, Idle
<1>2. \A u \in Urls : FirstHopAt(u) = {} /\ conn[u] = 0
  BY <1>1 DEF Init, FirstHopAt, ActiveAt
<1> QED
  <2>1. Bookkeeping
    BY <1>1 DEF Init, Bookkeeping
  <2>2. \A u \in InPool : conn[u] = 0 /\ Cardinality(FirstHopAt(u)) = 0
    BY <1>2, FS_EmptySet DEF InPool
  <2> QED BY <2>1, <2>2 DEF Counts, NeverOvercharged, CountsExact

(* A request that has not been sent may end: it is counted nowhere.        *)
LEMMA DropCounts ==
  ASSUME RoutingInv, NEW r \in Requests, req[r].phase = "new", Drop(r),
         UNCHANGED <<poolVars, replaced, blurred>>
  PROVE  Bookkeeping' /\ Counts'
<1>1. /\ req'[r] = Idle("done") /\ r \notin replaced /\ conn' = conn
      /\ \A q \in Requests \ {r} : req'[q] = req[q]
  BY DEF Drop, RoutingInv, TypeOK, Bookkeeping
<1>2. Bookkeeping' /\ \A u \in Urls : FirstHopAt(u)' = FirstHopAt(u)
  BY <1>1 DEF RoutingInv, Bookkeeping, Idle, FirstHopAt, ActiveAt, poolVars, InPool
<1> QED
  BY <1>1, <1>2
  DEF RoutingInv, Counts, NeverOvercharged, CountsExact, poolVars, InPool

(* A request that is sent is one more on its first hop at its target.      *)
LEMMA SendCounts ==
  ASSUME RoutingInv, NEW r \in Requests, NEW u \in healthy,
         req[r].phase = "new", Send(r, u),
         UNCHANGED <<poolVars, replaced, blurred>>
  PROVE  Bookkeeping' /\ Counts'
<1>1. /\ u \in InPool /\ u \in Urls /\ r \notin replaced /\ InPool' = InPool
      /\ req \in [Requests -> Request] /\ conn \in [Urls -> Nat]
  BY DEF RoutingInv, TypeOK, Bookkeeping, InPool, poolVars
<1>2. /\ req'[r] = [phase |-> "upstream", url |-> u, counted |-> TRUE, hops |-> 0]
      /\ \A q \in Requests \ {r} : req'[q] = req[q]
  BY <1>1 DEF Send
<1>3. Bookkeeping'
  BY <1>1, <1>2 DEF RoutingInv, Bookkeeping
<1>4. /\ r \notin FirstHopAt(u)
      /\ FirstHopAt(u)' = FirstHopAt(u) \cup {r}
      /\ \A v \in Urls \ {u} : FirstHopAt(v)' = FirstHopAt(v)
  BY <1>1, <1>2 DEF FirstHopAt, ActiveAt
<1>5. conn'[u] = conn[u] + 1 /\ \A v \in Urls \ {u} : conn'[v] = conn[v]
  BY <1>1 DEF Send
<1>6. Cardinality(FirstHopAt(u)') = Cardinality(FirstHopAt(u)) + 1
  BY <1>4, FirstHopFinite, FS_AddElement
<1>7. \A v \in InPool : Cardinality(FirstHopAt(v)) \in Nat /\ conn[v] \in Nat /\ v \in Urls
  BY <1>1, FirstHopFinite DEF InPool
<1>8. ASSUME NEW v \in InPool
      PROVE  /\ conn'[v] <= Cardinality(FirstHopAt(v)')
             /\ v \notin blurred => conn'[v] = Cardinality(FirstHopAt(v)')
  <2>1. /\ conn[v] <= Cardinality(FirstHopAt(v))
        /\ v \notin blurred => conn[v] = Cardinality(FirstHopAt(v))
    BY DEF RoutingInv, Counts, NeverOvercharged, CountsExact
  <2>2. CASE v = u
    BY <1>5, <1>6, <1>7, <2>1, <2>2
  <2>3. CASE v # u
    BY <1>4, <1>5, <1>7, <2>1, <2>3
  <2> QED BY <2>2, <2>3
<1>9. Counts'
  BY <1>1, <1>8 DEF Counts, NeverOvercharged, CountsExact
<1> QED BY <1>3, <1>9

(* A hop of a request that is counted at its own target ends its first hop *)
(* and lowers the count by one; any other hop takes nothing off the first  *)
(* hops of anybody, and lowers a count only at a URL that it blurs.        *)
LEMMA HopCounts ==
  ASSUME RoutingInv, NEW r \in Requests, NEW calls \in 1..2,
         req[r].phase = "upstream", HooksCalled(r, calls), Blurs(r),
         UNCHANGED poolVars,
         req' \in [Requests -> Request],
         \A q \in Requests \ {r} : req'[q] = req[q],
         ~ (req'[r].phase = "upstream" /\ req'[r].hops = 0),
         replaced \ {r} \subseteq replaced', replaced' \subseteq replaced
  PROVE  Counts'
<1>0. PICK u \in Urls : u = req[r].url
  BY DEF RoutingInv, TypeOK, Request
<1>1. /\ u = req[r].url /\ InPool' = InPool /\ InPool \subseteq Urls
      /\ conn \in [Urls -> Nat] /\ conn[u] \in Nat
  BY <1>0 DEF RoutingInv, TypeOK, InPool, poolVars
<1>2. \A v \in Urls : FirstHopAt(v)' = FirstHopAt(v) \ {r}
  BY DEF FirstHopAt, ActiveAt
<1>3. r \in FirstHopAt(u) <=> req[r].counted /\ r \notin replaced
  BY <1>1 DEF RoutingInv, Bookkeeping, FirstHopAt, ActiveAt
<1>4. \A v \in Urls \ {u} : r \notin FirstHopAt(v)
  BY <1>1 DEF FirstHopAt, ActiveAt
<1>5. /\ \A v \in Urls \ {u} : conn'[v] = conn[v] /\ FirstHopAt(v)' = FirstHopAt(v)
      /\ blurred \subseteq blurred'
  <2>1. ASSUME NEW v \in Urls \ {u} PROVE FirstHopAt(v)' = FirstHopAt(v)
    <3>1. FirstHopAt(v)' = FirstHopAt(v) \ {r} /\ r \notin FirstHopAt(v)
      BY <1>2, <1>4
    <3> QED BY <3>1
  <2>2. \A v \in Urls \ {u} : conn'[v] = conn[v]
    BY <1>1 DEF HooksCalled
  <2> QED BY <2>1, <2>2 DEF Blurs
<1>6. \A v \in InPool : Cardinality(FirstHopAt(v)) \in Nat /\ conn[v] \in Nat
  BY <1>1, FirstHopFinite
<1>7. u \in InPool => /\ conn'[u] <= Cardinality(FirstHopAt(u)')
                      /\ u \notin blurred' => conn'[u] = Cardinality(FirstHopAt(u)')
  <2> SUFFICES ASSUME u \in InPool
               PROVE  /\ conn'[u] <= Cardinality(FirstHopAt(u)')
                      /\ u \notin blurred' => conn'[u] = Cardinality(FirstHopAt(u)')
    OBVIOUS
  <2>0. /\ conn[u] <= Cardinality(FirstHopAt(u))
        /\ u \notin blurred => conn[u] = Cardinality(FirstHopAt(u))
    BY DEF RoutingInv, Counts, NeverOvercharged, CountsExact
  <2>1. CASE req[r].counted /\ r \notin replaced
    <3>0. r \in FirstHopAt(u) /\ FirstHopAt(u)' = FirstHopAt(u) \ {r}
      BY <1>1, <1>2, <1>3, <2>1
    <3>1. Cardinality(FirstHopAt(u)') = Cardinality(FirstHopAt(u)) - 1
      BY <3>0, FirstHopFinite, FS_RemoveElement
    <3>2. conn'[u] = IF conn[u] <= 1 THEN 0 ELSE conn[u] - 1
      BY <1>1, <2>1 DEF HooksCalled, Lowered
    <3>3. Cardinality(FirstHopAt(u)) >= 1
      BY <3>0, <1>6, FirstHopFinite, FS_EmptySet
    <3> QED BY <1>5, <1>6, <2>0, <3>1, <3>2, <3>3
  <2>2. CASE req[r].counted /\ r \in replaced
    <3>0. r \notin FirstHopAt(u) /\ FirstHopAt(u)' = FirstHopAt(u) \ {r}
      BY <1>1, <1>2, <1>3, <2>2
    <3>1. FirstHopAt(u)' = FirstHopAt(u) /\ u \in blurred'
      BY <1>1, <3>0, <2>2 DEF Blurs
    <3>2. conn'[u] <= conn[u] /\ conn'[u] \in Nat
      BY <1>1, <2>2 DEF HooksCalled, Lowered
    <3> QED BY <1>6, <2>0, <3>1, <3>2
  <2>3. CASE ~ req[r].counted
    <3>0. r \notin FirstHopAt(u) /\ FirstHopAt(u)' = FirstHopAt(u) \ {r}
      BY <1>1, <1>2, <1>3, <2>3
    <3>1. FirstHopAt(u)' = FirstHopAt(u)
      BY <3>0
    <3>2. conn' = conn /\ blurred' = blurred
      BY <2>3 DEF Blurs, HooksCalled
    <3> QED BY <2>0, <3>1, <3>2
  <2> QED BY <2>1, <2>2, <2>3
<1>8. ASSUME NEW v \in InPool, v # u
      PROVE  /\ conn'[v] <= Cardinality(FirstHopAt(v)')
             /\ v \notin blurred' => conn'[v] = Cardinality(FirstHopAt(v)')
  <2>1. /\ conn[v] <= Cardinality(FirstHopAt(v))
        /\ v \notin blurred => conn[v] = Cardinality(FirstHopAt(v))
    BY DEF RoutingInv, Counts, NeverOvercharged, CountsExact
  <2>2. conn'[v] = conn[v] /\ FirstHopAt(v)' = FirstHopAt(v)
    BY <1>1, <1>5, <1>8
  <2> QED BY <1>5, <2>1, <2>2
<1>9. \A v \in InPool : /\ conn'[v] <= Cardinality(FirstHopAt(v)')
                        /\ v \notin blurred' => conn'[v] = Cardinality(FirstHopAt(v)')
  BY <1>7, <1>8
<1> QED
  BY <1>1, <1>9 DEF Counts, NeverOvercharged, CountsExact

(* Targets that leave the pool take their counts with them.                *)
LEMMA ForgetCounts ==
  ASSUME RoutingInv, NEW S \in SUBSET Urls, Forget(S), UNCHANGED req,
         InPool \ S \subseteq InPool', InPool' \subseteq InPool \cup S
  PROVE  Bookkeeping' /\ Counts'
<1>1. /\ conn' = [u \in Urls |-> IF u \in S THEN 0 ELSE conn[u]]
      /\ replaced' = replaced \cup {r \in Requests : req[r].url \in S}
      /\ blurred' = blurred \ S /\ req' = req
  BY DEF Forget
<1>2. \A r \in Requests : req[r].url \in S => req[r].phase = "upstream"
  BY NoneAssumption DEF RoutingInv, TypeOK
<1>3. Bookkeeping'
  BY <1>1, <1>2 DEF RoutingInv, Bookkeeping
<1>4. \A u \in S : FirstHopAt(u)' = {} /\ conn'[u] = 0
  BY <1>1 DEF FirstHopAt, ActiveAt
<1>5. \A u \in Urls \ S : FirstHopAt(u)' = FirstHopAt(u) /\ conn'[u] = conn[u]
  BY <1>1 DEF FirstHopAt, ActiveAt
<1>6. ASSUME NEW u \in InPool'
      PROVE  /\ conn'[u] <= Cardinality(FirstHopAt(u)')
             /\ u \notin blurred' => conn'[u] = Cardinality(FirstHopAt(u)')
  <2>1. CASE u \in S
    BY <1>4, <2>1, FS_EmptySet
  <2>2. CASE u \notin S
    <3>1. u \in InPool /\ u \in Urls \ S
      BY <2>2 DEF InPool
    <3>2. /\ conn[u] <= Cardinality(FirstHopAt(u))
          /\ u \notin blurred => conn[u] = Cardinality(FirstHopAt(u))
      BY <3>1 DEF RoutingInv, Counts, NeverOvercharged, CountsExact
    <3> QED BY <1>1, <1>5, <3>1, <3>2
  <2> QED BY <2>1, <2>2
<1>7. Counts'
  BY <1>6 DEF Counts, NeverOvercharged, CountsExact
<1> QED BY <1>3, <1>7

-----------------------------------------------------------------------------
LEMMA NextCounts == RoutingInv /\ [Next]_vars => Bookkeeping' /\ Counts'
<1> SUFFICES ASSUME RoutingInv, [Next]_vars PROVE Bookkeeping' /\ Counts'
  OBVIOUS
<1>1. ASSUME NEW r \in Requests, Unavailable(r) PROVE Bookkeeping' /\ Counts'
  BY <1>1, DropCounts DEF Unavailable, Drop
<1>2. ASSUME NEW r \in Requests, RouteSingle(r) PROVE Bookkeeping' /\ Counts'
  BY <1>2, DropCounts, SendCounts DEF RouteSingle
<1>3. ASSUME NEW r \in Requests, RouteSticky(r) PROVE Bookkeeping' /\ Counts'
  BY <1>3, DropCounts, SendCounts DEF RouteSticky
<1>4. ASSUME NEW r \in Requests, RouteByStrategy(r) PROVE Bookkeeping' /\ Counts'
  BY <1>4, DropCounts, SendCounts DEF RouteByStrategy
<1>5. ASSUME NEW r \in Requests, HopReturns(r) PROVE Bookkeeping' /\ Counts'
  <2>1. PICK calls \in 1..2 : HooksCalled(r, calls)
    BY <1>5 DEF HopReturns
  <2>2. /\ req' = [req EXCEPT ![r] = Idle("done")] /\ replaced' = replaced \ {r}
        /\ req[r].phase = "upstream" /\ Blurs(r) /\ UNCHANGED poolVars
        /\ req \in [Requests -> Request]
    BY <1>5 DEF HopReturns, RoutingInv, TypeOK
  <2>3. req' \in [Requests -> Request]
    BY <2>2, RoutingAssumption DEF Idle, Request
  <2>4. /\ req'[r] = Idle("done") /\ req'[r].phase = "done"
        /\ \A q \in Requests \ {r} : req'[q] = req[q]
    BY <2>2 DEF Idle
  <2>5. Bookkeeping'
    BY <2>2, <2>4 DEF RoutingInv, Bookkeeping, Idle, poolVars, InPool
  <2> QED BY <2>1, <2>2, <2>3, <2>4, <2>5, HopCounts
<1>6. ASSUME NEW r \in Requests, HopRedirects(r) PROVE Bookkeeping' /\ Counts'
  <2>1. PICK calls \in 1..2 : HooksCalled(r, calls)
    BY <1>6 DEF HopRedirects
  <2>2. /\ req' = [req EXCEPT ![r] = [req[r] EXCEPT !.hops = @ + 1, !.counted = FALSE]]
        /\ req[r].phase = "upstream" /\ Blurs(r) /\ UNCHANGED <<poolVars, replaced>>
        /\ req[r] \in Request /\ req \in [Requests -> Request]
    BY <1>6 DEF HopRedirects, RoutingInv, TypeOK
  <2>3. req'[r].hops = req[r].hops + 1 /\ req[r].hops \in Nat
    BY <2>2, RoutingAssumption DEF Request
  <2>4. /\ req'[r].phase = "upstream" /\ req'[r].url = req[r].url
        /\ req'[r].counted = FALSE /\ req'[r].hops # 0
        /\ \A q \in Requests \ {r} : req'[q] = req[q]
    BY <2>2, <2>3 DEF Request
  <2>5. Bookkeeping'
    BY <2>2, <2>4 DEF RoutingInv, Bookkeeping, poolVars, InPool
  <2>6. req' \in [Requests -> Request]
    BY NextType DEF RoutingInv, TypeOK
  <2> QED BY <2>1, <2>2, <2>4, <2>5, <2>6, HopCounts
<1>7. ASSUME NEW u \in Urls, NEW flag \in BOOLEAN, AddTarget(u, flag)
      PROVE  Bookkeeping' /\ Counts'
  <2>1. \A v \in Urls \ {u} : place'[v] = place[v]
    BY <1>7 DEF AddTarget, RoutingInv, TypeOK
  <2>2. InPool \ {u} \subseteq InPool' /\ InPool' \subseteq InPool \cup {u}
    BY <2>1 DEF InPool
  <2> QED BY <1>7, <2>2, ForgetCounts DEF AddTarget
<1>8. ASSUME NEW u \in Urls, RemoveTarget(u) PROVE Bookkeeping' /\ Counts'
  <2>1. InPool' = InPool \ {u}
    BY <1>8 DEF RemoveTarget, RoutingInv, TypeOK, InPool
  <2> QED BY <1>8, <2>1, ForgetCounts DEF RemoveTarget
<1>9. ASSUME Destroy PROVE Bookkeeping' /\ Counts'
  <2>1. InPool' = {} /\ InPool \subseteq Urls
    BY <1>9 DEF Destroy, InPool
  <2> QED BY <1>9, <2>1, ForgetCounts DEF Destroy
<1>10. ASSUME NEW u \in Urls, HealthChanges(u) PROVE Bookkeeping' /\ Counts'
  BY <1>10 DEF HealthChanges, RoutingInv, Bookkeeping, Counts, NeverOvercharged,
               CountsExact, FirstHopAt, ActiveAt, InPool
<1>11. ASSUME UNCHANGED vars PROVE Bookkeeping' /\ Counts'
  BY <1>11 DEF vars, poolVars, RoutingInv, Bookkeeping, Counts, NeverOvercharged,
               CountsExact, FirstHopAt, ActiveAt, InPool
<1> QED
  BY <1>1, <1>2, <1>3, <1>4, <1>5, <1>6, <1>7, <1>8, <1>9, <1>10, <1>11 DEF Next

LEMMA Invariance == Spec => []RoutingInv
<1>1. Init => RoutingInv
  BY InitType, InitBookkeeping DEF RoutingInv
<1>2. RoutingInv /\ [Next]_vars => RoutingInv'
  BY NextType, NextCounts DEF RoutingInv
<1> QED BY <1>1, <1>2, PTL DEF Spec

(* No connection leaks: whatever is removed, added again, redirected or    *)
(* answered in whatever order, no target is charged for more requests than *)
(* it has on their first hop.                                              *)
THEOREM NeverOverchargedHolds == Spec => []NeverOvercharged
<1>1. RoutingInv => NeverOvercharged
  BY DEF RoutingInv, Counts
<1> QED BY <1>1, Invariance, PTL

(* The counts are exact but where a replaced target's request ended.       *)
THEOREM CountsExactHolds == Spec => []CountsExact
<1>1. RoutingInv => CountsExact
  BY DEF RoutingInv, Counts
<1> QED BY <1>1, Invariance, PTL

(* The requests that a target works on are those on their first hop and    *)
(* those whose redirect is followed.                                       *)
LEMMA ActiveIs ==
  ASSUME NEW u
  PROVE  /\ Cardinality(ActiveAt(u)) \in Nat /\ Cardinality(FollowedAt(u)) \in Nat
         /\ Cardinality(FirstHopAt(u)) \in Nat
         /\ Cardinality(FirstHopAt(u)) <= Cardinality(ActiveAt(u))
         /\ Cardinality(ActiveAt(u))
               <= Cardinality(FirstHopAt(u)) + Cardinality(FollowedAt(u))
<1>1. /\ IsFiniteSet(ActiveAt(u)) /\ FirstHopAt(u) \subseteq ActiveAt(u)
      /\ FollowedAt(u) \subseteq ActiveAt(u)
  <2>1. ActiveAt(u) \subseteq Requests
    BY DEF ActiveAt
  <2> QED BY <2>1, RoutingAssumption, FS_Subset DEF FirstHopAt, FollowedAt
<1>2. /\ ActiveAt(u) = FirstHopAt(u) \cup FollowedAt(u)
      /\ FirstHopAt(u) \cap FollowedAt(u) = {}
  BY <1>1 DEF FollowedAt
<1>3. IsFiniteSet(FirstHopAt(u)) /\ IsFiniteSet(FollowedAt(u))
  BY <1>1, FS_Subset
<1>4. Cardinality(ActiveAt(u)) = Cardinality(FirstHopAt(u)) + Cardinality(FollowedAt(u)) - 0
  BY <1>2, <1>3, FS_Union, FS_EmptySet
<1> QED
  BY <1>1, <1>3, <1>4, FS_CardinalityType

(* For any number of requests and redirects: least-connections and p2c err *)
(* in favour of a target by no more requests than it has redirects that    *)
(* are followed.                                                           *)
THEOREM LoadAwareHolds == Spec => LoadAware
<1> DEFINE A(r) ==
      (/\ req[r].phase = "new" /\ req'[r].phase = "upstream"
       /\ healthy \cap blurred = {}) =>
      LET u == req'[r].url IN
      /\ strategy = "least-connections" /\ RouteByStrategy(r) =>
            \A v \in healthy : NoBusier(u, v)
      /\ strategy = "p2c" /\ RouteByStrategy(r) =>
            \E v \in healthy \ {u} : NoBusier(u, v)
<1>1. RoutingInv => \A r \in Requests : A(r)
  <2> SUFFICES ASSUME RoutingInv, NEW r \in Requests, healthy \cap blurred = {},
                      RouteByStrategy(r), req'[r].phase = "upstream"
               PROVE  /\ strategy = "least-connections" =>
                            \A v \in healthy : NoBusier(req'[r].url, v)
                      /\ strategy = "p2c" =>
                            \E v \in healthy \ {req'[r].url} : NoBusier(req'[r].url, v)
    OBVIOUS
  <2>1. PICK u \in healthy : Selects(u) /\ Send(r, u)
    BY DEF RouteByStrategy, Drop, Idle, RoutingInv, TypeOK
  <2>2. req'[r].url = u
    BY <2>1 DEF Send, RoutingInv, TypeOK
  <2>3. \A v \in healthy : conn[v] = Cardinality(FirstHopAt(v)) /\ conn[v] \in Nat
    BY DEF RoutingInv, Counts, CountsExact, TypeOK, InPool
  <2>4. \A v \in healthy : conn[u] <= conn[v] => NoBusier(u, v)
    <3> SUFFICES ASSUME NEW v \in healthy, conn[u] <= conn[v] PROVE NoBusier(u, v)
      OBVIOUS
    <3>1. Cardinality(FirstHopAt(u)) <= Cardinality(FirstHopAt(v))
      BY <2>3
    <3>2. /\ Cardinality(ActiveAt(u))
               <= Cardinality(FirstHopAt(u)) + Cardinality(FollowedAt(u))
          /\ Cardinality(FirstHopAt(v)) <= Cardinality(ActiveAt(v))
          /\ {Cardinality(ActiveAt(u)), Cardinality(ActiveAt(v)),
              Cardinality(FollowedAt(u)), Cardinality(FirstHopAt(u)),
              Cardinality(FirstHopAt(v))} \subseteq Nat
      BY ActiveIs
    <3> QED BY <3>1, <3>2 DEF NoBusier
  <2>5. ASSUME strategy = "least-connections", NEW v \in healthy
        PROVE  NoBusier(u, v)
    <3>1. SelectLeastConnections(u)
      BY <2>1, <2>5 DEF Selects
    <3> QED BY <2>3, <2>4, <3>1 DEF SelectLeastConnections
  <2>6. ASSUME strategy = "p2c"
        PROVE  \E v \in healthy \ {u} : NoBusier(u, v)
    <3>1. SelectPowerOfTwoChoices(u)
      BY <2>1, <2>6 DEF Selects
    <3> QED BY <2>3, <2>4, <3>1 DEF SelectPowerOfTwoChoices
  <2> QED BY <2>2, <2>5, <2>6
<1>2. RoutingInv => [\A r \in Requests : A(r)]_vars
  BY <1>1
<1> QED BY <1>2, Invariance, PTL DEF LoadAware

-----------------------------------------------------------------------------
(* The targets of the pool stand in distinct places of the Map.            *)
Places == /\ \A u \in InPool : place[u] \in 1..Cardinality(InPool)
          /\ \A u, v \in InPool : place[u] = place[v] => u = v

(* How many targets come before u when the round robin goes on.            *)
Wait(u) == LET n == Cardinality(healthy)
               t == turn % n
           IN  IF Index(u) >= t THEN Index(u) - t ELSE Index(u) - t + n

(* The inductive form of RoundRobinFair: of two targets the one that comes *)
(* sooner has been chosen as often as the other, or once less.             *)
Turns ==
    strategy = "round-robin" =>
        \A u, v \in healthy :
            Wait(u) < Wait(v) => picks[v] = picks[u] \/ picks[v] = picks[u] + 1

RoundRobinInv == TypeOK /\ Places /\ Turns

-----------------------------------------------------------------------------
LEMMA ModStep ==
  ASSUME NEW t \in Nat, NEW n \in Nat \ {0}
  PROVE  /\ t % n \in 0..(n - 1)
         /\ (t + 1) % n = IF (t % n) + 1 = n THEN 0 ELSE (t % n) + 1
<1> DEFINE q == t \div n
           m == t % n
<1>1. m \in 0..(n - 1)
  OBVIOUS
<1>2. q \in Int
  OBVIOUS
<1>3. t = n * q + m
  OBVIOUS
<1>4. ASSUME NEW p \in Int, NEW r \in 0..(n - 1) PROVE (n * p + r) % n = r
  OBVIOUS
<1> HIDE DEF q, m
<1>5. CASE m + 1 = n
  <2>1. t + 1 = n * (q + 1) + 0 /\ q + 1 \in Int /\ 0 \in 0..(n - 1)
    BY <1>1, <1>2, <1>3, <1>5
  <2>2. (n * (q + 1) + 0) % n = 0
    BY <1>4, <2>1
  <2> QED BY <1>1, <1>5, <2>1, <2>2 DEF m
<1>6. CASE m + 1 # n
  <2>1. t + 1 = n * q + (m + 1) /\ m + 1 \in 0..(n - 1)
    BY <1>1, <1>2, <1>3, <1>6
  <2>2. (n * q + (m + 1)) % n = m + 1
    BY <1>2, <1>4, <2>1
  <2> QED BY <1>1, <1>6, <2>1, <2>2 DEF m
<1> QED BY <1>5, <1>6

LEMMA ModSmall ==
  ASSUME NEW n \in Nat \ {0}, NEW t \in 0..(n - 1)
  PROVE  t % n = t
  OBVIOUS

(* The indices of the healthy targets are distinct and below their number. *)
LEMMA IndexIs ==
  ASSUME TypeOK, Places, NEW u \in healthy, NEW v \in healthy
  PROVE  /\ Cardinality(healthy) \in Nat \ {0}
         /\ Index(u) \in 0..(Cardinality(healthy) - 1)
         /\ u # v => Index(u) # Index(v)
<1> DEFINE Before(w) == {x \in healthy : place[x] < place[w]}
<1>1. IsFiniteSet(healthy) /\ Cardinality(healthy) \in Nat
  BY PoolFinite
<1>2. ASSUME NEW S \in SUBSET healthy, NEW w \in healthy \ S
      PROVE  Cardinality(S) \in Nat /\ Cardinality(S) < Cardinality(healthy)
  <2>1. S # healthy
    BY <1>2
  <2> QED BY <1>1, <2>1, FS_Subset, FS_CardinalityType
<1>3. ASSUME NEW w \in healthy
      PROVE  Cardinality(Before(w)) \in Nat /\ Cardinality(Before(w)) < Cardinality(healthy)
  <2>1. Before(w) \in SUBSET healthy /\ w \notin Before(w)
    BY DEF TypeOK, InPool
  <2> HIDE DEF Before
  <2> QED BY <1>2, <2>1
<1>4. ASSUME NEW w \in healthy, NEW x \in healthy, place[w] < place[x]
      PROVE  Cardinality(Before(w)) # Cardinality(Before(x))
  <2>1. Before(w) \subseteq Before(x) /\ w \in Before(x) /\ w \notin Before(w)
        /\ Before(x) \subseteq healthy
    BY <1>4 DEF TypeOK, InPool
  <2> HIDE DEF Before
  <2>2. IsFiniteSet(Before(x)) /\ Before(w) # Before(x)
    BY <1>1, <2>1, FS_Subset
  <2> QED BY <2>1, <2>2, FS_Subset
<1>5. u # v => place[u] < place[v] \/ place[v] < place[u]
  BY DEF TypeOK, Places, InPool
<1>6. Index(u) = Cardinality(Before(u)) /\ Index(v) = Cardinality(Before(v))
  BY DEF Index
<1> HIDE DEF Before
<1> QED BY <1>1, <1>3, <1>4, <1>5, <1>6

(* One turn of the round robin: the chosen target goes to the end, and all *)
(* others come one place nearer.                                           *)
LEMMA WaitStep ==
  ASSUME TypeOK, Places, NEW w \in healthy, SelectRoundRobin(w),
         turn' = Advance, UNCHANGED <<place, healthy>>,
         NEW u \in healthy
  PROVE  /\ Wait(u) \in 0..(Cardinality(healthy) - 1)
         /\ u = w => Wait(u) = 0 /\ Wait(u)' = Cardinality(healthy) - 1
         /\ u # w => Wait(u) > 0 /\ Wait(u)' = Wait(u) - 1
<1> DEFINE n == Cardinality(healthy)
           t == turn % n
           i == Index(u)
<1>1. /\ n \in Nat \ {0} /\ i \in 0..(n - 1) /\ Index(w) \in 0..(n - 1)
      /\ u # w => i # Index(w)
  BY IndexIs
<1>2. turn \in Nat
  BY DEF TypeOK
<1>3. /\ Wait(u) = IF i >= t THEN i - t ELSE i - t + n
      /\ Wait(u)' = IF i >= turn' % n THEN i - (turn' % n) ELSE i - (turn' % n) + n
      /\ Index(w) = t /\ turn' = (turn + 1) % n
  BY DEF Wait, Index, SelectRoundRobin, Advance
<1> HIDE DEF n, i
<1>4. t \in 0..(n - 1) /\ turn' = (IF t + 1 = n THEN 0 ELSE t + 1)
  BY <1>1, <1>2, <1>3, ModStep
<1>5. turn' \in 0..(n - 1)
  BY <1>1, <1>4
<1>6. turn' % n = turn'
  BY <1>1, <1>5, ModSmall
<1> HIDE DEF t
<1>7. /\ Wait(u) \in 0..(n - 1)
      /\ i = t => Wait(u) = 0 /\ Wait(u)' = n - 1
      /\ i # t => Wait(u) > 0 /\ Wait(u)' = Wait(u) - 1
  BY <1>1, <1>3, <1>4, <1>6
<1>8. u = w <=> i = t
  BY <1>1, <1>3 DEF i
<1> QED BY <1>7, <1>8 DEF n

-----------------------------------------------------------------------------
LEMMA PlacesStep ==
  ASSUME TypeOK, Places, [Next]_vars
  PROVE  Places'
<1> DEFINE n == Cardinality(InPool)
<1>0. /\ n \in Nat /\ IsFiniteSet(InPool) /\ InPool \subseteq Urls
      /\ place \in [Urls -> Nat] /\ \A u \in Urls : u \in InPool <=> place[u] # 0
      /\ \A u \in InPool : place[u] \in 1..n
      /\ \A u, v \in InPool : place[u] = place[v] => u = v
  BY PoolFinite DEF TypeOK, InPool, Places
<1> HIDE DEF n
<1>1. CASE UNCHANGED place
  BY <1>1 DEF Places, InPool
<1>2. ASSUME NEW u \in Urls, NEW flag \in BOOLEAN, AddTarget(u, flag) PROVE Places'
  <2>1. CASE u \in InPool
    <3>1. place' = place
      BY <1>0, <1>2, <2>1 DEF AddTarget
    <3> QED BY <1>1, <3>1
  <2>2. CASE u \notin InPool
    <3>1. place' = [place EXCEPT ![u] = n + 1]
      BY <1>0, <1>2, <2>2 DEF AddTarget, n
    <3>2. \A v \in Urls : place'[v] = IF v = u THEN n + 1 ELSE place[v]
      BY <1>0, <3>1
    <3>3. InPool' = InPool \cup {u}
      BY <1>0, <2>2, <3>2 DEF InPool
    <3>4. Cardinality(InPool') = n + 1
      BY <1>0, <2>2, <3>3, FS_AddElement DEF n
    <3> QED BY <1>0, <3>2, <3>3, <3>4, <2>2 DEF Places
  <2> QED BY <2>1, <2>2
<1>3. ASSUME NEW u \in Urls, RemoveTarget(u) PROVE Places'
  <2>1. /\ u \in InPool
        /\ \A v \in Urls : place'[v] = IF v = u THEN 0
                                       ELSE IF place[v] > place[u] THEN place[v] - 1
                                       ELSE place[v]
    BY <1>0, <1>3 DEF RemoveTarget
  <2>2. InPool' = InPool \ {u}
    BY <1>0, <2>1 DEF InPool
  <2>3. Cardinality(InPool') = n - 1
    BY <1>0, <2>1, <2>2, FS_RemoveElement DEF n
  <2>4. \A v \in InPool' : /\ v \in InPool /\ v # u /\ place[v] # place[u]
                           /\ place[v] \in 1..n /\ place[u] \in 1..n
                           /\ place'[v] = IF place[v] > place[u] THEN place[v] - 1
                                          ELSE place[v]
    BY <1>0, <2>1, <2>2
  <2>5. \A v \in InPool' : place'[v] \in 1..(n - 1)
    BY <1>0, <2>4
  <2>6. \A v, x \in InPool' : place'[v] = place'[x] => v = x
    BY <1>0, <2>4
  <2> QED BY <2>3, <2>5, <2>6 DEF Places
<1>4. CASE Destroy
  BY <1>4 DEF Destroy, Places, InPool
<1>5. ASSUME NEW r \in Requests,
             \/ Unavailable(r) \/ RouteSingle(r) \/ RouteSticky(r) \/ RouteByStrategy(r)
             \/ HopReturns(r) \/ HopRedirects(r)
      PROVE  Places'
  BY <1>1, <1>5 DEF Unavailable, RouteSingle, RouteSticky, RouteByStrategy, HopReturns,
                    HopRedirects, poolVars
<1>6. ASSUME NEW u \in Urls, HealthChanges(u) PROVE Places'
  BY <1>1, <1>6 DEF HealthChanges
<1>7. CASE UNCHANGED vars
  BY <1>1, <1>7 DEF vars, poolVars
<1> QED BY <1>2, <1>3, <1>4, <1>5, <1>6, <1>7 DEF Next

LEMMA TurnsStep ==
  ASSUME TypeOK, Places, Turns, [Next]_vars
  PROVE  Turns'
<1>1. CASE picks' = NoPicks /\ healthy' \subseteq Urls
  BY <1>1 DEF Turns, NoPicks
<1>2. CASE UNCHANGED <<strategy, place, healthy, turn, picks>>
  BY <1>2 DEF Turns, Wait, Index
<1>3. ASSUME NEW r \in Requests, RouteByStrategy(r) PROVE Turns'
  <2>1. CASE strategy = "round-robin"
    <3>1. /\ turn' = Advance /\ UNCHANGED <<strategy, place, healthy>>
          /\ \E w \in healthy : SelectRoundRobin(w) /\ picks' = [picks EXCEPT ![w] = @ + 1]
      BY <1>3, <2>1 DEF RouteByStrategy, Selects, poolVars
    <3>2. PICK w \in healthy : SelectRoundRobin(w) /\ picks' = [picks EXCEPT ![w] = @ + 1]
      BY <3>1
    <3> DEFINE n == Cardinality(healthy)
    <3>3. /\ n \in Nat /\ healthy \subseteq Urls
          /\ \A u \in healthy : picks[u] \in Nat
          /\ \A u \in healthy : picks'[u] = IF u = w THEN picks[u] + 1 ELSE picks[u]
      BY <3>2, PoolFinite DEF TypeOK, InPool
    <3>4. \A u \in healthy : /\ Wait(u) \in 0..(n - 1)
                             /\ u = w => Wait(u) = 0 /\ Wait(u)' = n - 1
                             /\ u # w => Wait(u) > 0 /\ Wait(u)' = Wait(u) - 1
      BY <3>1, <3>2, WaitStep
    <3>5. \A u, v \in healthy :
             Wait(u) < Wait(v) => picks[v] = picks[u] \/ picks[v] = picks[u] + 1
      BY <2>1 DEF Turns
    <3> HIDE DEF n
    <3>6. ASSUME NEW u \in healthy, NEW v \in healthy, Wait(u)' < Wait(v)'
          PROVE  picks'[v] = picks'[u] \/ picks'[v] = picks'[u] + 1
      <4>1. CASE u = w
        BY <3>3, <3>4, <3>6, <4>1
      <4>2. CASE u # w /\ v = w
        <5>1. Wait(w) < Wait(u)
          BY <3>3, <3>4, <4>2
        <5>2. picks[u] = picks[w] \/ picks[u] = picks[w] + 1
          BY <3>5, <5>1
        <5> QED BY <3>3, <4>2, <5>2
      <4>3. CASE u # w /\ v # w
        <5>1. Wait(u) < Wait(v)
          BY <3>3, <3>4, <3>6, <4>3
        <5> QED BY <3>3, <3>5, <4>3, <5>1
      <4> QED BY <4>1, <4>2, <4>3
    <3> QED BY <3>1, <3>6 DEF Turns
  <2>2. CASE strategy # "round-robin"
    BY <1>3, <2>2 DEF RouteByStrategy, poolVars, Turns
  <2> QED BY <2>1, <2>2
<1>4. ASSUME NEW r \in Requests,
             \/ Unavailable(r) \/ RouteSingle(r) \/ RouteSticky(r)
             \/ HopReturns(r) \/ HopRedirects(r)
      PROVE  Turns'
  BY <1>2, <1>4 DEF Unavailable, RouteSingle, RouteSticky, HopReturns, HopRedirects, poolVars
<1>5. healthy' \subseteq Urls
  BY NextType DEF TypeOK, InPool
<1>6. CASE \/ \E u \in Urls, flag \in BOOLEAN : AddTarget(u, flag)
           \/ \E u \in Urls : RemoveTarget(u)
           \/ Destroy
           \/ \E u \in Urls : HealthChanges(u)
  BY <1>1, <1>5, <1>6 DEF AddTarget, RemoveTarget, Destroy, HealthChanges, Forget
<1>7. CASE UNCHANGED vars
  BY <1>2, <1>7 DEF vars, poolVars
<1> QED BY <1>3, <1>4, <1>6, <1>7 DEF Next

LEMMA RoundRobinInit == Init => RoundRobinInv
<1> SUFFICES ASSUME Init PROVE RoundRobinInv
  OBVIOUS
<1>1. InPool = InitialUrls /\ Cardinality(InitialUrls) \in Nat
  BY RoutingAssumption, FS_Subset, FS_CardinalityType DEF Init, InPool
<1>2. Places
  BY <1>1, RoutingAssumption DEF Init, Places
<1>3. Turns
  BY RoutingAssumption DEF Init, Turns, NoPicks
<1> QED BY <1>2, <1>3, InitType DEF RoundRobinInv

(* Between two changes of the healthy list the round robin is fair to      *)
(* within one request, for pools of every size, wherever the index stood   *)
(* before and whatever sticky sessions and the single-target path decide   *)
(* in between (selectRoundRobin).                                          *)
THEOREM RoundRobinFairHolds == Spec => []RoundRobinFair
<1>1. RoundRobinInv /\ [Next]_vars => RoundRobinInv'
  BY NextType, PlacesStep, TurnsStep DEF RoundRobinInv
<1>2. RoundRobinInv => RoundRobinFair
  <2> SUFFICES ASSUME RoundRobinInv, strategy = "round-robin",
                      NEW u \in healthy, NEW v \in healthy
               PROVE  picks[u] <= picks[v] + 1
    BY DEF RoundRobinFair
  <2>1. /\ TypeOK /\ Places /\ picks[u] \in Nat /\ picks[v] \in Nat
        /\ Wait(u) < Wait(v) => picks[v] = picks[u] \/ picks[v] = picks[u] + 1
        /\ Wait(v) < Wait(u) => picks[u] = picks[v] \/ picks[u] = picks[v] + 1
    BY DEF RoundRobinInv, Turns, TypeOK, InPool
  <2>2. u = v \/ Wait(u) < Wait(v) \/ Wait(v) < Wait(u)
    <3> DEFINE n == Cardinality(healthy)
               t == turn % n
    <3>1. /\ n \in Nat \ {0} /\ Index(u) \in 0..(n - 1) /\ Index(v) \in 0..(n - 1)
          /\ u # v => Index(u) # Index(v)
      BY <2>1, IndexIs
    <3>2. t \in 0..(n - 1)
      BY <2>1, <3>1, ModStep DEF TypeOK
    <3>3. /\ Wait(u) = IF Index(u) >= t THEN Index(u) - t ELSE Index(u) - t + n
          /\ Wait(v) = IF Index(v) >= t THEN Index(v) - t ELSE Index(v) - t + n
      BY DEF Wait
    <3> HIDE DEF t, n
    <3> QED BY <3>1, <3>2, <3>3
  <2> QED BY <2>1, <2>2
<1> QED BY <1>1, <1>2, RoundRobinInit, PTL DEF Spec

=============================================================================
