------------------------ MODULE StickySessionsProofs ------------------------
(***************************************************************************)
(* The bound on the session map, that clients never share a session, that  *)
(* cookies name their servers, that clients return to their targets, and   *)
(* that sessions last, for any number of clients, targets, sessions and    *)
(* requests in flight.                                                     *)
(***************************************************************************)
EXTENDS StickySessions, FiniteSetTheorems, WellFoundedInduction, TLAPS

(* The sessions in the Map were made by this process, and are within the   *)
(* cap.                                                                    *)
MapInv ==
    /\ made \in 0..MaxMade
    /\ live \subseteq 1..made
    /\ SessionsBounded

(* Every cookie that is held or under way names a session already made:    *)
(* the next one made is new to everybody.                                  *)
CookieInv ==
    /\ made \in 0..MaxMade
    /\ cookie \in [Clients -> {None, Foreign} \cup 1..made]
    /\ \A f \in flight : f.setCookie \in {None} \cup 1..made
    /\ NoSharedSession

-----------------------------------------------------------------------------
LEMMA LiveFinite ==
  ASSUME MapInv
  PROVE  IsFiniteSet(live) /\ Cardinality(live) \in Nat /\ made \in Nat
<1>1. made \in Nat
  BY StickyAssumption DEF MapInv
<1>2. IsFiniteSet(1..made)
  BY <1>1, FS_Interval
<1> QED BY <1>1, <1>2, FS_Subset, FS_CardinalityType DEF MapInv

(* Evicting the oldest leaves room for one session.                        *)
LEMMA EvictionMakesRoom ==
  ASSUME MapInv
  PROVE  /\ AfterEviction \subseteq live
         /\ IsFiniteSet(AfterEviction)
         /\ Cardinality(AfterEviction) < MaxSessions
<1>0. /\ IsFiniteSet(live) /\ Cardinality(live) \in Nat /\ live \subseteq Nat
      /\ MaxSessions \in Nat /\ MaxSessions >= 1 /\ Cardinality(live) <= MaxSessions
  BY LiveFinite, StickyAssumption DEF MapInv, SessionsBounded
<1>1. AfterEviction \subseteq live
  BY DEF AfterEviction
<1>2. IsFiniteSet(AfterEviction)
  BY <1>0, <1>1, FS_Subset
<1>3. CASE Cardinality(live) < MaxSessions
  BY <1>1, <1>2, <1>3 DEF AfterEviction
<1>4. CASE ~(Cardinality(live) < MaxSessions)
  <2>1. live # {}
    BY <1>0, <1>4, FS_EmptySet
  <2>2. PICK m \in live : \A k \in live : m <= k
    <3>1. PICK m \in live : \A k \in live : <<k, m>> \notin OpToRel(<, Nat)
      BY <1>0, <2>1, NatLessThanWellFounded, WFMin
    <3>2. ASSUME NEW k \in live PROVE m <= k
      <4>1. k \in Nat /\ m \in Nat
        BY <1>0
      <4>2. k < m => <<k, m>> \in OpToRel(<, Nat)
        BY <4>1 DEF OpToRel
      <4>3. ~(k < m)
        BY <3>1, <4>2, Zenon
      <4> QED BY <4>1, <4>3
    <3> QED BY <3>2
  <2>3. m \notin AfterEviction
    BY <1>0, <1>4, <2>2 DEF AfterEviction
  <2>4. Cardinality(live \ {m}) = Cardinality(live) - 1 /\ IsFiniteSet(live \ {m})
    BY <1>0, <2>2, FS_RemoveElement
  <2>5. AfterEviction \subseteq live \ {m}
    BY <1>1, <2>3
  <2>6. Cardinality(AfterEviction) <= Cardinality(live) - 1
    BY <2>4, <2>5, FS_Subset
  <2> QED BY <1>0, <1>1, <1>2, <2>6, FS_CardinalityType
<1> QED BY <1>3, <1>4

LEMMA MapInit == Init => MapInv
<1> SUFFICES ASSUME Init PROVE MapInv
  OBVIOUS
<1>1. Cardinality(live) = 0
  BY FS_EmptySet DEF Init
<1> QED BY <1>1, StickyAssumption DEF Init, MapInv, SessionsBounded

LEMMA MapStep ==
  ASSUME MapInv, [Next]_vars
  PROVE  MapInv'
<1>0. /\ IsFiniteSet(live) /\ Cardinality(live) \in Nat /\ made \in Nat
      /\ MaxMade \in Nat /\ MaxSessions \in Nat
      /\ made <= MaxMade /\ live \subseteq 1..made /\ Cardinality(live) <= MaxSessions
  BY LiveFinite, StickyAssumption DEF MapInv, SessionsBounded
(* A step that makes no session.                                           *)
<1>1. ASSUME made' = made, live' \subseteq live
      PROVE  MapInv'
  <2>1. Cardinality(live') <= Cardinality(live) /\ Cardinality(live') \in Nat
    BY <1>0, <1>1, FS_Subset, FS_CardinalityType
  <2> QED BY <1>0, <1>1, <2>1 DEF MapInv, SessionsBounded
<1>2. ASSUME NEW c, NEW url, NewSession(c, url)
      PROVE  MapInv'
  <2>1. /\ made' = made + 1 /\ made < MaxMade
        /\ live' = AfterEviction \cup {made + 1}
    BY <1>2 DEF NewSession
  <2>2. /\ AfterEviction \subseteq live /\ IsFiniteSet(AfterEviction)
        /\ Cardinality(AfterEviction) < MaxSessions
        /\ Cardinality(AfterEviction) \in Nat
    BY EvictionMakesRoom, FS_CardinalityType
  <2>3. made + 1 \notin AfterEviction
    BY <1>0, <2>2
  <2>4. Cardinality(live') = Cardinality(AfterEviction) + 1
    BY <2>1, <2>2, <2>3, FS_AddElement
  <2> QED BY <1>0, <2>1, <2>2, <2>4 DEF MapInv, SessionsBounded
<1>3. ASSUME NEW c \in Clients, Request(c) PROVE MapInv'
  <2>1. CASE SingleHealthy(c)
    BY <1>1, <2>1 DEF SingleHealthy, sessionVars
  <2>2. CASE StickyHit(c)
    BY <1>1, <2>2 DEF StickyHit
  <2>3. CASE StrategyChoice(c)
    BY <1>1, <1>2, <2>3 DEF StrategyChoice, CreateStickySession, sessionVars
  <2> QED BY <1>3, <2>1, <2>2, <2>3 DEF Request
<1>4. CASE \E f \in flight : Answer(f) \/ AnswerLost(f)
  BY <1>1, <1>4 DEF Answer, AnswerLost, sessionVars
<1>5. CASE Cleanup \/ Destroy
  BY <1>1, <1>5 DEF Cleanup, Destroy
<1>6. CASE Tick
  BY <1>1, <1>6 DEF Tick
<1>7. CASE \E url \in Urls : PoolChanges(url)
  BY <1>1, <1>7 DEF PoolChanges, sessionVars
<1>8. CASE \E c \in Clients : ForeignAnswer(c) \/ CookieGone(c)
  BY <1>1, <1>8 DEF ForeignAnswer, CookieGone, sessionVars
<1>9. CASE UNCHANGED vars
  BY <1>1, <1>9 DEF vars, sessionVars
<1> QED BY <1>3, <1>4, <1>5, <1>6, <1>7, <1>8, <1>9 DEF Next

(* The session map never outgrows its cap.                                 *)
THEOREM SessionsBoundedHolds == Spec => []SessionsBounded
<1>1. Init => MapInv
  BY MapInit
<1>2. MapInv /\ [Next]_vars => MapInv'
  BY MapStep
<1>3. MapInv => SessionsBounded
  BY DEF MapInv
<1> QED BY <1>1, <1>2, <1>3, PTL DEF Spec

-----------------------------------------------------------------------------
LEMMA CookieStep ==
  ASSUME MapInv, CookieInv, [Next]_vars
  PROVE  CookieInv'
<1>0. /\ made \in Nat /\ MaxMade \in Nat /\ made <= MaxMade
      /\ cookie \in [Clients -> {None, Foreign} \cup 1..made]
      /\ \A f \in flight : f.setCookie \in {None} \cup 1..made
  BY StickyAssumption DEF CookieInv
(* A step after which nobody holds more than before.                       *)
<1>1. ASSUME made' = made,
             cookie' \in [Clients -> {None, Foreign} \cup 1..made],
             \A f \in flight' : f.setCookie \in {None} \cup 1..made,
             \A k \in Ids, c \in Clients : Holds(c, k)' => Holds(c, k)
      PROVE  CookieInv'
  <2>1. NoSharedSession'
    BY <1>1 DEF CookieInv, NoSharedSession
  <2> QED BY <1>0, <1>1, <2>1 DEF CookieInv
(* A request whose answer sets no cookie, or the one its client has.       *)
<1>2. ASSUME NEW c \in Clients, NEW url, NEW k, Send(c, url, k),
             k = None \/ (k = cookie[c] /\ k \in Ids),
             UNCHANGED <<made, cookie>>
      PROVE  CookieInv'
  <2>1. flight' = flight \cup {[client |-> c, url |-> url, setCookie |-> k]}
    BY <1>2 DEF Send
  <2>2. k \in {None} \cup 1..made
    BY <1>0, <1>2, StickyAssumption DEF Ids, None, Foreign
  <2>3. \A f \in flight' : f.setCookie \in {None} \cup 1..made
    BY <1>0, <2>1, <2>2
  <2>4. ASSUME NEW i \in Ids, NEW d \in Clients, Holds(d, i)'
        PROVE  Holds(d, i)
    <3>1. i # None
      BY DEF Ids, None
    <3> QED BY <1>2, <2>1, <2>4, <3>1 DEF Holds
  <2> QED BY <1>0, <1>1, <1>2, <2>3, <2>4
(* A new session is held by the client it is made for only.                *)
<1>3. ASSUME NEW c \in Clients, NEW url, NewSession(c, url), UNCHANGED cookie
      PROVE  CookieInv'
  <2>1. /\ made' = made + 1 /\ made < MaxMade
        /\ flight' = flight \cup {[client |-> c, url |-> url, setCookie |-> made + 1]}
    BY <1>3 DEF NewSession, Send
  <2>2. /\ made' \in 0..MaxMade
        /\ cookie' \in [Clients -> {None, Foreign} \cup 1..made']
        /\ \A f \in flight' : f.setCookie \in {None} \cup 1..made'
    <3>1. 1..made \subseteq 1..made' /\ made + 1 \in 1..made'
      BY <1>0, <2>1
    <3>2. made' \in 0..MaxMade
      BY <1>0, <2>1
    <3>3. \A f \in flight' : f.setCookie \in {None} \cup 1..made'
      BY <1>0, <2>1, <3>1
    <3> QED BY <1>0, <1>3, <3>1, <3>2, <3>3
  <2>3. ASSUME NEW i \in Ids, NEW d \in Clients, Holds(d, i)'
        PROVE  Holds(d, i) \/ (i = made + 1 /\ d = c)
    BY <1>3, <2>1, <2>3 DEF Holds
  <2>4. ASSUME NEW d \in Clients PROVE ~Holds(d, made + 1)
    <3>1. made + 1 \notin {None, Foreign} \cup 1..made
      BY <1>0 DEF None, Foreign
    <3> HIDE DEF None, Foreign
    <3> QED BY <1>0, <3>1 DEF Holds
  <2>5. NoSharedSession'
    BY <2>3, <2>4 DEF CookieInv, NoSharedSession
  <2> QED BY <2>2, <2>5 DEF CookieInv
<1>4. ASSUME NEW c \in Clients, Request(c) PROVE CookieInv'
  <2>1. CASE SingleHealthy(c)
    BY <1>2, <2>1 DEF SingleHealthy, sessionVars
  <2>2. CASE StickyHit(c)
    <3> DEFINE k == cookie[c]
    <3>1. Send(c, session[k].url, k) /\ k \in live /\ UNCHANGED <<made, cookie>>
      BY <2>2 DEF StickyHit, Sticky
    <3>2. CASE k = None
      BY <1>2, <3>1, <3>2
    <3>3. CASE k \in Ids
      BY <1>2, <3>1, <3>3
    <3>4. CASE k = Foreign
      <4>1. live \subseteq 1..made
        BY DEF MapInv
      <4> QED BY <3>1, <3>4, <4>1 DEF Foreign
    <3>5. k \in {None, Foreign} \cup Ids
      BY <1>0, StickyAssumption DEF Ids
    <3> QED BY <3>2, <3>3, <3>4, <3>5
  <2>3. CASE StrategyChoice(c)
    BY <1>2, <1>3, <2>3 DEF StrategyChoice, CreateStickySession, sessionVars
  <2> QED BY <1>4, <2>1, <2>2, <2>3 DEF Request
<1>5. ASSUME NEW f \in flight, Answer(f) PROVE CookieInv'
  <2>1. /\ cookie' \in [Clients -> {None, Foreign} \cup 1..made]
        /\ flight' \subseteq flight /\ made' = made
        /\ \A d \in Clients :
              cookie'[d] = cookie[d] \/ (d = f.client /\ cookie'[d] = f.setCookie)
    BY <1>0, <1>5 DEF Answer, sessionVars
  <2>2. \A k \in Ids, d \in Clients : Holds(d, k)' => Holds(d, k)
    BY <2>1 DEF Holds
  <2> QED BY <1>0, <1>1, <2>1, <2>2
<1>6. ASSUME NEW f \in flight, AnswerLost(f) PROVE CookieInv'
  BY <1>0, <1>1, <1>6 DEF AnswerLost, sessionVars, Holds
<1>7. ASSUME NEW c \in Clients, ForeignAnswer(c) \/ CookieGone(c) PROVE CookieInv'
  <2>1. /\ cookie' \in [Clients -> {None, Foreign} \cup 1..made]
        /\ UNCHANGED <<made, flight>>
        /\ \A d \in Clients : cookie'[d] \in {cookie[d], None, Foreign}
    BY <1>0, <1>7 DEF ForeignAnswer, CookieGone, sessionVars
  <2>2. None \notin Ids /\ Foreign \notin Ids
    BY DEF None, Foreign, Ids
  <2>3. \A k \in Ids, d \in Clients : Holds(d, k)' => Holds(d, k)
    BY <2>1, <2>2 DEF Holds
  <2> QED BY <1>0, <1>1, <2>1, <2>3
<1>8. CASE UNCHANGED <<made, cookie, flight>>
  BY <1>0, <1>1, <1>8 DEF Holds
<1>9. CASE Cleanup \/ Tick \/ Destroy \/ \E url \in Urls : PoolChanges(url)
  BY <1>8, <1>9 DEF Cleanup, Tick, Destroy, PoolChanges, sessionVars
<1>10. CASE UNCHANGED vars
  BY <1>8, <1>10 DEF vars, sessionVars
<1> QED BY <1>4, <1>5, <1>6, <1>7, <1>9, <1>10 DEF Next

(* No two clients ever hold or are about to be given the same session.     *)
THEOREM NoSharedSessionHolds == Spec => []NoSharedSession
<1>1. Init => MapInv /\ CookieInv
  BY MapInit, StickyAssumption DEF Init, CookieInv, NoSharedSession, Holds, Ids, None
<1>2. MapInv /\ CookieInv /\ [Next]_vars => MapInv' /\ CookieInv'
  BY MapStep, CookieStep
<1>3. CookieInv => NoSharedSession
  BY DEF CookieInv
<1> QED BY <1>1, <1>2, <1>3, PTL DEF Spec

-----------------------------------------------------------------------------
(* The types, with the cookies under way known to the server that answers. *)
StickyTypes == TypeOK /\ CookieNamesItsServer

LEMMA InitStickyTypes == Init => StickyTypes
<1> SUFFICES ASSUME Init PROVE StickyTypes
  OBVIOUS
<1>1. [url |-> None, left |-> 0] \in Session
  BY StickyAssumption DEF Session
<1>2. session \in [Ids -> Session]
  BY <1>1 DEF Init
<1>3. due \in [Ids -> 0..Ttl] /\ made \in 0..MaxMade
  BY StickyAssumption DEF Init
<1> QED BY <1>2, <1>3 DEF Init, StickyTypes, TypeOK, CookieNamesItsServer, Routed

LEMMA NextStickyTypes ==
  ASSUME StickyTypes, [Next]_vars
  PROVE  StickyTypes'
<1>0. /\ TypeOK /\ CookieNamesItsServer
      /\ made \in Nat /\ MaxMade \in Nat /\ made <= MaxMade /\ Ttl \in Nat /\ 0 \in 0..Ttl
      /\ 1..made \subseteq Ids /\ None \notin Ids /\ Foreign \notin Ids
  BY StickyAssumption DEF StickyTypes, TypeOK, Ids, None, Foreign
(* Steps that make no session and leave the sessions their targets.        *)
<1>1. ASSUME made' = made, live' \subseteq live, healthy' \subseteq Urls,
             session' \in [Ids -> Session], due' \in [Ids -> 0..Ttl],
             cookie' \in [Clients -> {None, Foreign} \cup 1..made],
             flight' \subseteq Routed,
             \A k \in Ids : session'[k].url = session[k].url,
             \A f \in flight' : \/ f \in flight
                                \/ /\ f.setCookie <= made
                                   /\ f.setCookie # None =>
                                         session[f.setCookie].url = f.url
      PROVE  StickyTypes'
  <2>1. TypeOK'
    BY <1>0, <1>1 DEF TypeOK
  <2>2. \A f \in flight' : f.setCookie # None => f.setCookie \in Ids
    BY <1>1 DEF Routed
  <2>3. CookieNamesItsServer'
    BY <1>0, <1>1, <2>2 DEF CookieNamesItsServer
  <2> QED BY <2>1, <2>3 DEF StickyTypes
<1>2. ASSUME NEW c \in Clients, NEW url \in Urls, NEW k \in {None} \cup 1..made,
             Send(c, url, k), k # None => session[k].url = url
      PROVE  /\ flight' \subseteq Routed
             /\ \A f \in flight' : \/ f \in flight
                                   \/ /\ f.setCookie <= made
                                      /\ f.setCookie # None =>
                                            session[f.setCookie].url = f.url
  <2>1. flight' = flight \cup {[client |-> c, url |-> url, setCookie |-> k]}
    BY <1>2 DEF Send
  <2>2. k \in {None} \cup Ids /\ k <= made
    BY <1>0, <1>2 DEF None
  <2> QED BY <1>0, <1>2, <2>1, <2>2 DEF TypeOK, Routed
<1>3. ASSUME NEW k \in Ids PROVE [due EXCEPT ![k] = Ttl] \in [Ids -> 0..Ttl]
  BY <1>0 DEF TypeOK
<1>4. ASSUME NEW c \in Clients, NEW url \in Urls, NewSession(c, url),
             UNCHANGED <<healthy, cookie>>
      PROVE  StickyTypes'
  <2>1. /\ made' = made + 1 /\ made + 1 \in Ids /\ made' <= MaxMade
        /\ live' = AfterEviction \cup {made + 1}
        /\ session' = [session EXCEPT ![made + 1] = [url |-> url, left |-> Ttl]]
        /\ due' = [due EXCEPT ![made + 1] = Ttl]
        /\ flight' = flight \cup {[client |-> c, url |-> url, setCookie |-> made + 1]}
    BY <1>0, <1>4 DEF NewSession, Send, Ids
  <2>2. 1..made \subseteq 1..made' /\ made + 1 \in 1..made' /\ made' \in 0..MaxMade
    BY <1>0, <2>1
  <2>3. AfterEviction \subseteq live
    BY DEF AfterEviction
  <2>4. [url |-> url, left |-> Ttl] \in Session
    BY <1>0 DEF Session
  <2>5. /\ session' \in [Ids -> Session] /\ session'[made + 1].url = url
        /\ \A k \in Ids \ {made + 1} : session'[k] = session[k]
    BY <1>0, <2>1, <2>4 DEF TypeOK
  <2>6. flight' \subseteq Routed
    BY <1>0, <2>1 DEF TypeOK, Routed
  <2>7. \A f \in flight' : f.setCookie <= made'
    BY <1>0, <2>1 DEF TypeOK, Routed, Ids, None
  <2>8. \A f \in flight : f.setCookie # None => f.setCookie \in Ids \ {made + 1}
    BY <1>0 DEF TypeOK, Routed, Ids, None
  <2>9. CookieNamesItsServer'
    BY <1>0, <2>1, <2>5, <2>8 DEF CookieNamesItsServer
  <2>10. due' \in [Ids -> 0..Ttl]
    BY <1>3, <2>1
  <2>11. cookie' \in [Clients -> {None, Foreign} \cup 1..made'] /\ live' \subseteq 1..made'
    BY <1>0, <1>4, <2>1, <2>2, <2>3 DEF TypeOK
  <2>12. healthy' \subseteq Urls
    BY <1>0, <1>4 DEF TypeOK
  <2> QED BY <2>2, <2>5, <2>6, <2>7, <2>9, <2>10, <2>11, <2>12 DEF StickyTypes, TypeOK
<1>5. ASSUME NEW c \in Clients, Request(c) PROVE StickyTypes'
  <2>1. CASE SingleHealthy(c)
    <3>1. PICK only \in healthy :
              /\ Send(c, only, None)
              /\ IF Sticky(cookie[c]) THEN Used(cookie[c]) ELSE Unused
      BY <2>1 DEF SingleHealthy
    <3>2. UNCHANGED <<healthy, sessionVars, cookie>>
      BY <2>1 DEF SingleHealthy
    <3>3. only \in Urls /\ None \in {None} \cup 1..made
      BY <1>0 DEF TypeOK
    <3>4. due' \in [Ids -> 0..Ttl]
      BY <1>0, <1>3, <3>1 DEF Sticky, Used, Unused, TypeOK
    <3>5. /\ flight' \subseteq Routed
          /\ \A f \in flight' : \/ f \in flight
                                \/ /\ f.setCookie <= made
                                   /\ f.setCookie # None =>
                                         session[f.setCookie].url = f.url
      BY <1>2, <3>1, <3>3
    <3> QED BY <1>0, <1>1, <3>2, <3>4, <3>5 DEF sessionVars, TypeOK
  <2>2. CASE StickyHit(c)
    <3> DEFINE k == cookie[c]
    <3>1. /\ Sticky(k) /\ Send(c, session[k].url, k) /\ Used(k)
          /\ session' = [session EXCEPT ![k].left = Ttl]
          /\ UNCHANGED <<healthy, live, made, cookie>>
      BY <2>2 DEF StickyHit
    <3>2. k \in 1..made /\ k \in Ids /\ session[k].url \in Urls
      BY <1>0, <3>1 DEF Sticky, TypeOK
    <3>3. session' \in [Ids -> Session] /\ \A i \in Ids : session'[i].url = session[i].url
      BY <1>0, <3>1, <3>2 DEF TypeOK, Session
    <3>4. due' \in [Ids -> 0..Ttl]
      BY <1>3, <3>1, <3>2 DEF Used
    <3> HIDE DEF k
    <3>5. /\ flight' \subseteq Routed
          /\ \A f \in flight' : \/ f \in flight
                                \/ /\ f.setCookie <= made
                                   /\ f.setCookie # None =>
                                         session[f.setCookie].url = f.url
      BY <1>2, <3>1, <3>2
    <3> QED BY <1>0, <1>1, <3>1, <3>3, <3>4, <3>5 DEF TypeOK
  <2>3. CASE StrategyChoice(c)
    <3>1. PICK url \in healthy : CreateStickySession(c, url)
      BY <2>3 DEF StrategyChoice
    <3>2. url \in Urls /\ UNCHANGED <<healthy, cookie>>
      BY <1>0, <2>3 DEF StrategyChoice, TypeOK
    <3>3. CASE NewSession(c, url)
      BY <1>4, <3>2, <3>3
    <3>4. CASE Send(c, url, None) /\ Unused /\ UNCHANGED sessionVars
      <4>1. None \in {None} \cup 1..made
        OBVIOUS
      <4>2. /\ flight' \subseteq Routed
            /\ \A f \in flight' : \/ f \in flight
                                  \/ /\ f.setCookie <= made
                                     /\ f.setCookie # None =>
                                           session[f.setCookie].url = f.url
        BY <1>2, <3>2, <3>4, <4>1
      <4> QED BY <1>0, <1>1, <3>2, <3>4, <4>2 DEF sessionVars, Unused, TypeOK
    <3> QED BY <3>1, <3>3, <3>4 DEF CreateStickySession
  <2> QED BY <1>5, <2>1, <2>2, <2>3 DEF Request
<1>6. ASSUME NEW f \in flight, Answer(f) PROVE StickyTypes'
  <2>1. cookie' \in [Clients -> {None, Foreign} \cup 1..made]
    BY <1>0, <1>6 DEF Answer, TypeOK, Routed, Ids, None
  <2> QED BY <1>0, <1>1, <1>6, <2>1 DEF Answer, sessionVars, TypeOK
<1>7. ASSUME NEW f \in flight, AnswerLost(f) PROVE StickyTypes'
  BY <1>0, <1>1, <1>7 DEF AnswerLost, sessionVars, TypeOK
<1>8. CASE Cleanup \/ Destroy \/ \E url \in Urls : PoolChanges(url)
  BY <1>0, <1>1, <1>8 DEF Cleanup, Destroy, PoolChanges, sessionVars, TypeOK
<1>9. CASE Tick
  <2>1. /\ session' = [k \in Ids |->
                         [session[k] EXCEPT !.left = IF @ = 0 THEN 0 ELSE @ - 1]]
        /\ due' = [k \in Ids |-> IF due[k] = 0 THEN 0 ELSE due[k] - 1]
        /\ UNCHANGED <<healthy, live, made, cookie, flight>>
    BY <1>9 DEF Tick
  <2>2. session' \in [Ids -> Session] /\ \A k \in Ids : session'[k].url = session[k].url
    <3>1. ASSUME NEW k \in Ids
          PROVE  /\ [session[k] EXCEPT !.left = IF @ = 0 THEN 0 ELSE @ - 1] \in Session
                 /\ [session[k] EXCEPT !.left = IF @ = 0 THEN 0 ELSE @ - 1].url
                       = session[k].url
      <4>1. session[k] \in Session
        BY <1>0 DEF TypeOK
      <4> QED BY <1>0, <4>1 DEF Session
    <3> QED BY <2>1, <3>1
  <2>3. due' \in [Ids -> 0..Ttl]
    BY <1>0, <2>1 DEF TypeOK
  <2> QED BY <1>0, <1>1, <2>1, <2>2, <2>3 DEF TypeOK
<1>10. ASSUME NEW c \in Clients, ForeignAnswer(c) \/ CookieGone(c) PROVE StickyTypes'
  <2>1. cookie' \in [Clients -> {None, Foreign} \cup 1..made]
    BY <1>0, <1>10 DEF ForeignAnswer, CookieGone, TypeOK
  <2> QED BY <1>0, <1>1, <1>10, <2>1 DEF ForeignAnswer, CookieGone, sessionVars, TypeOK
<1>11. CASE UNCHANGED vars
  BY <1>0, <1>1, <1>11 DEF vars, sessionVars, TypeOK
<1> QED BY <1>5, <1>6, <1>7, <1>8, <1>9, <1>10, <1>11 DEF Next

(* The types of the sessions, the cookies and the requests in flight.      *)
THEOREM StickyTypesHold == Spec => []TypeOK
<1>1. StickyTypes => TypeOK
  BY DEF StickyTypes
<1> QED BY <1>1, InitStickyTypes, NextStickyTypes, PTL DEF Spec

(* An answer that sets a cookie comes from the server the cookie's session *)
(* sends its client back to, however the answers overtake one another.     *)
THEOREM CookieNamesItsServerHolds == Spec => []CookieNamesItsServer
<1>1. StickyTypes => CookieNamesItsServer
  BY DEF StickyTypes
<1> QED BY <1>1, InitStickyTypes, NextStickyTypes, PTL DEF Spec

(* A client with a session that has not expired is sent to its target as   *)
(* long as that is healthy, whichever path of selectTarget is taken.       *)
THEOREM AffinityHolds == Spec => Affinity
<1> DEFINE Faithful ==
      \A c \in Clients, f \in flight' \ flight :
          f.client = c /\ Sticky(cookie[c]) => f.url = session[cookie[c]].url
<1>1. [Next]_vars => Faithful
  <2> SUFFICES ASSUME [Next]_vars, NEW c \in Clients, NEW f \in flight' \ flight,
                      f.client = c, Sticky(cookie[c])
               PROVE  f.url = session[cookie[c]].url
    OBVIOUS
  <2>1. \A d, url, k : Send(d, url, k) => f = [client |-> d, url |-> url, setCookie |-> k]
    BY DEF Send
  <2>2. PICK d \in Clients : Request(d)
    BY DEF Next, vars, Answer, AnswerLost, Cleanup, Tick, PoolChanges, Destroy,
           ForeignAnswer, CookieGone
  <2>3. CASE SingleHealthy(d)
    <3>1. PICK only \in healthy : healthy = {only} /\ Send(d, only, None)
      BY <2>3 DEF SingleHealthy
    <3> QED BY <2>1, <3>1 DEF Sticky
  <2>4. CASE StickyHit(d)
    <3>1. Send(d, session[cookie[d]].url, cookie[d])
      BY <2>4 DEF StickyHit
    <3> QED BY <2>1, <3>1
  <2>5. CASE StrategyChoice(d)
    <3>1. ~Sticky(cookie[d]) /\ \E url, k : Send(d, url, k)
      BY <2>5 DEF StrategyChoice, CreateStickySession, NewSession
    <3> QED BY <2>1, <3>1
  <2> QED BY <2>2, <2>3, <2>4, <2>5 DEF Request
<1>2. [Next]_vars => [Faithful]_vars
  BY <1>1
<1> QED BY <1>2, PTL DEF Spec, Affinity

(* A session that has not expired leaves the Map only to make room for a   *)
(* new one at the cap, or with the whole balancer.                         *)
THEOREM SessionsKeptHolds == Spec => SessionsKept
<1> DEFINE Kept ==
      \A k \in live \ live' :
          \/ Expired(k)
          \/ Cardinality(live) = MaxSessions /\ made' = made + 1
          \/ live' = {} /\ healthy' = {}
<1>1. MapInv /\ [Next]_vars => Kept
  <2> SUFFICES ASSUME MapInv, [Next]_vars, NEW k \in live \ live'
               PROVE  \/ Expired(k)
                      \/ Cardinality(live) = MaxSessions /\ made' = made + 1
                      \/ live' = {} /\ healthy' = {}
    OBVIOUS
  <2>1. CASE Cleanup
    BY <2>1 DEF Cleanup
  <2>2. CASE Destroy
    BY <2>2 DEF Destroy
  <2>3. ASSUME NEW c, NEW url, NewSession(c, url)
        PROVE  Cardinality(live) = MaxSessions /\ made' = made + 1
    <3>1. made' = made + 1 /\ ~(Cardinality(live) < MaxSessions)
      BY <2>3 DEF NewSession, AfterEviction
    <3> QED BY <3>1, LiveFinite, StickyAssumption DEF MapInv, SessionsBounded
  <2>4. ASSUME NEW c \in Clients, Request(c)
        PROVE  Cardinality(live) = MaxSessions /\ made' = made + 1
    BY <2>3, <2>4 DEF Request, SingleHealthy, StickyHit, StrategyChoice,
                      CreateStickySession, sessionVars
  <2> QED BY <2>1, <2>2, <2>4 DEF Next, vars, sessionVars, Answer, AnswerLost, Tick,
             PoolChanges, ForeignAnswer, CookieGone
<1>2. MapInv /\ [Next]_vars => [Kept]_vars
  BY <1>1
<1> QED BY <1>2, MapInit, MapStep, PTL DEF Spec, SessionsKept

=============================================================================
