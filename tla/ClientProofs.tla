---------------------------- MODULE ClientProofs ----------------------------
(***************************************************************************)
(* How a gateway tells its clients apart: SessionManager implements        *)
(* SessionStore, and TrustedProxy cannot be talked into another address.   *)
(*                                                                         *)
(* Sessions, whatever the ids, the targets and the time to live: the       *)
(* inductive invariant is the type invariant and one fact about operations *)
(* that read the clock more than once: the session they found alive is     *)
(* still in the map when they give it its new expiry.                      *)
(*                                                                         *)
(* Addresses, whatever their width, the networks and the headers: that the *)
(* masks of isIPInCIDR leave what a network covers (MatchIsCovers), and    *)
(* that the walk along a chain has one place to stop at (StopsOnce).       *)
(***************************************************************************)
EXTENDS SessionManager, TrustedProxy, SequenceTheorems, WellFoundedInduction,
        TLAPS

USE SessionAssumption

(* The session that a refresh or a rotation holds is in the map.           *)
HeldIsThere == pending.then \in {"renew", "rotate"} => sessions[pending.id] # NoSession
SessionsInv == SessionsTypeOK /\ HeldIsThere

(* Every operation keeps the types and what is held.                       *)
LEMMA SessionsStep == SessionsInv /\ [SessionsNext]_sessVars => SessionsInv'
<1> SUFFICES ASSUME SessionsInv, [SessionsNext]_sessVars
             PROVE  SessionsInv'
  OBVIOUS
<1> USE DEF Goes, NoPending
<1> USE DEF SessionsInv, HeldIsThere, SessionsTypeOK, Calls, Without, GetSession, Renewed, UserSession,
            NoId, NoSession
<1>1. ASSUME NEW i \in SessionIds, LookUp(i) PROVE SessionsInv'
  BY <1>1 DEF LookUp
<1>2. ASSUME NEW i \in SessionIds, NEW then \in {"renew", "rotate"}, FindTo(i, then)
      PROVE  SessionsInv'
  BY <1>2 DEF FindTo
<1>3. ASSUME NEW i \in SessionIds, DeleteSession(i) PROVE SessionsInv'
  BY <1>3 DEF DeleteSession
<1>4. ASSUME NEW i \in SessionIds, FindForRequest(i) PROVE SessionsInv'
  BY <1>4 DEF FindForRequest
<1>5. ASSUME NEW i \in SessionIds, NEW u \in Targets, CreateSession(i, u)
      PROVE  SessionsInv'
  BY <1>5 DEF CreateSession
<1>6. ASSUME NEW j \in SessionIds, Rotate(j) PROVE SessionsInv'
  BY <1>6 DEF Rotate, Rotated
<1>7. CASE Renew
  BY <1>7 DEF Renew
<1>8. CASE RefreshForRequest
  BY <1>8 DEF RefreshForRequest
<1>9. CASE CleanupExpiredSessions
  BY <1>9 DEF CleanupExpiredSessions
<1>10. CASE DestroySessions
  BY <1>10 DEF DestroySessions
<1>11. CASE SessTick
  BY <1>11 DEF SessTick
<1>12. CASE UNCHANGED sessVars
  BY <1>12 DEF sessVars
<1> QED
  BY <1>1, <1>2, <1>3, <1>4, <1>5, <1>6, <1>7, <1>8, <1>9, <1>10, <1>11,
     <1>12 DEF SessionsNext, RefreshSession, RotateSessionId

LEMMA SessionsInvariant == SessionsSpec => []SessionsInv
<1>1. SessionsInit => SessionsInv
  BY DEF SessionsInit, SessionsInv, HeldIsThere, SessionsTypeOK, NoId, NoSession,
     Goes, NoPending
<1> QED
  BY <1>1, SessionsStep, PTL DEF SessionsSpec

(* The types of the variables; only generated ids are in the map.          *)
THEOREM SessionsTypes == SessionsSpec => []SessionsTypeOK
BY SessionsInvariant, PTL DEF SessionsInv

-----------------------------------------------------------------------------
(* A session that is made or refreshed now is in the store, since its time *)
(* to live is positive.                                                    *)
LEMMA RenewedIsLive ==
    ASSUME NEW i \in SessionIds, NEW u \in Targets,
           sessClock \in Nat, sessClock' = sessClock, sessions'[i] = Renewed(u)
    PROVE  LiveSessions'[i] = Store!Lasting(u)
<1>1. /\ Renewed(u) # NoSession /\ Renewed(u) = Store!Lasting(u)
      /\ ~(sessClock' > Renewed(u).expiresAt)
  BY DEF Renewed, NoSession, Store!Lasting
<1> QED
  BY <1>1 DEF LiveSessions, GetSession

(* Without an operation that holds a session the store has those that      *)
(* getSession finds.                                                       *)
LEMMA NoneHeld ==
    ASSUME SessionsTypeOK, pending.then \notin {"renew", "rotate"}
    PROVE  /\ Held = NoId
           /\ \A i \in SessionIds : i # Held
           /\ LiveSessions = [i \in SessionIds |->
                                 IF GetSession(i) THEN sessions[i] ELSE NoSession]
BY DEF Held, NoId, LiveSessions, SessionsTypeOK

(* What the callers of the session manager see is a SessionStore: every    *)
(* reading of the clock is one of the store's steps or nothing, and no     *)
(* other than the clock makes a session leave it.                          *)
THEOREM SessionManagerImplementsStore == SessionsSpec => ImplementsStore
<1> USE DEF NoSession, NoId, Store!NoSession, Store!NoId, Goes, NoPending
<1>1. SessionsInit => Store!StoreInit
  BY DEF SessionsInit, Store!StoreInit, LiveSessions, GetSession, Held
<1>2. SessionsInv /\ [SessionsNext]_sessVars => [Store!StoreNext]_(Store!storeVars)
  <2> SUFFICES ASSUME SessionsInv, [SessionsNext]_sessVars
               PROVE  Store!StoreNext \/ UNCHANGED Store!storeVars
    OBVIOUS
  <2>0. /\ SessionsTypeOK /\ HeldIsThere
        /\ sessClock \in Nat /\ SessionTtl \in Nat \ {0}
    BY DEF SessionsInv, SessionsTypeOK
  <2>a. pending = NoPending =>
            /\ Held = NoId
            /\ LiveSessions = [i \in SessionIds |->
                                  IF GetSession(i) THEN sessions[i] ELSE NoSession]
    BY <2>0, NoneHeld
  <2>b. SessionsTypeOK'
    BY <2>0, SessionsStep DEF SessionsInv
  <2>c. pending' = NoPending =>
            /\ Held' = NoId
            /\ LiveSessions' = [i \in SessionIds |->
                                   IF GetSession(i)' THEN sessions'[i] ELSE NoSession]
    BY <2>b DEF Held, LiveSessions, SessionsTypeOK
  <2>d. /\ LiveSessions = [k \in SessionIds |-> LiveSessions[k]]
        /\ LiveSessions' = [k \in SessionIds |-> LiveSessions'[k]]
    BY DEF LiveSessions
  <2> USE DEF SessionsTypeOK, Calls, Without, GetSession, Renewed, UserSession
  <2>1. ASSUME NEW i \in SessionIds, LookUp(i) PROVE Store!StoreGet(i)
    BY <2>0, <2>1, <2>a, <2>c DEF LookUp, Store!StoreGet
  <2>2. ASSUME NEW i \in SessionIds, NEW then \in {"renew", "rotate"}, FindTo(i, then)
        PROVE  Store!StoreHold(i) \/ Store!StoreGet(i)
    <3>1. CASE GetSession(i)
      <4>1. /\ pending = NoPending /\ pending' = Goes(i, then) /\ Held' = i
            /\ UNCHANGED <<sessions, used, retired, answer, sessClock>>
        BY <2>0, <2>2, <3>1 DEF FindTo, Held
      <4>2. LiveSessions' = LiveSessions
        BY <2>a, <3>1, <4>1 DEF LiveSessions
      <4> QED
        BY <2>a, <3>1, <4>1, <4>2 DEF Store!StoreHold
    <3>2. CASE ~GetSession(i)
      <4>1. /\ pending = NoPending /\ pending' = NoPending /\ sessions' = Without(i)
            /\ answer' = NoId /\ UNCHANGED <<used, retired, sessClock>>
        BY <2>2, <3>2 DEF FindTo
      <4>2. LiveSessions' = LiveSessions
        BY <2>0, <2>a, <2>c, <3>2, <4>1
      <4> QED
        BY <2>a, <2>c, <3>2, <4>1, <4>2 DEF Store!StoreGet
    <3> QED
      BY <3>1, <3>2
  <2>3. ASSUME NEW i \in SessionIds, DeleteSession(i) PROVE Store!StoreDelete(i)
    <3>1. LiveSessions' = [LiveSessions EXCEPT ![i] = NoSession]
      BY <2>0, <2>3, <2>a, <2>c DEF DeleteSession
    <3> QED
      BY <2>3, <2>a, <2>c, <3>1 DEF DeleteSession, Store!StoreDelete
  <2>4. ASSUME NEW i \in SessionIds, FindForRequest(i)
        PROVE  Store!StoreGet(i) \/ UNCHANGED Store!storeVars
    <3>1. /\ pending = NoPending /\ pending'.then \in {"check", "create"}
          /\ UNCHANGED <<used, retired, sessClock>>
      BY <2>4 DEF FindForRequest
    <3>2. Held' = NoId /\ LiveSessions' = LiveSessions
      BY <2>0, <2>4, <2>a, <3>1 DEF FindForRequest, Held, LiveSessions
    <3> QED
      BY <2>4, <2>a, <3>1, <3>2 DEF FindForRequest, Store!StoreGet, Store!storeVars
  <2>5. ASSUME NEW i \in SessionIds, NEW u \in Targets, CreateSession(i, u)
        PROVE  Store!StoreCreate(i, u)
    <3>1. Held = NoId /\ Held' = NoId /\ sessClock' = sessClock
      BY <2>5, <2>c DEF CreateSession, Held
    <3>2. LiveSessions'[i] = Store!Lasting(u)
      BY <2>0, <2>5, RenewedIsLive DEF CreateSession
    <3>3. ASSUME NEW k \in SessionIds \ {i} PROVE LiveSessions'[k] = LiveSessions[k]
      BY <2>0, <2>5, <3>1 DEF CreateSession, LiveSessions
    <3>4. LiveSessions' = [LiveSessions EXCEPT ![i] = Store!Lasting(u)]
      BY <2>d, <3>2, <3>3
    <3> QED
      BY <2>5, <3>1, <3>4 DEF CreateSession, Store!StoreCreate
  <2>6. ASSUME NEW j \in SessionIds, Rotate(j)
        PROVE  \E i \in SessionIds : j # i /\ Store!StoreRotate(i, j)
    <3>0. pending.id \in used /\ pending.id = Held /\ sessions[pending.id] # NoSession
      BY <2>0, <2>6 DEF Rotate, HeldIsThere, Held
    <3>1. PICK i \in SessionIds : /\ i = pending.id /\ i = Held /\ i # j
                                  /\ sessions[i].target \in Targets
                                  /\ LiveSessions[i] = sessions[i]
      BY <2>0, <2>6, <3>0 DEF Rotate, LiveSessions
    <3>2. LiveSessions'[j] = Store!Lasting(sessions[i].target)
      BY <2>0, <2>6, <3>1, RenewedIsLive DEF Rotate, Rotated
    <3>3. LiveSessions'[i] = NoSession
      BY <2>0, <2>6, <2>c, <3>1 DEF Rotate, Rotated
    <3>4. ASSUME NEW k \in SessionIds \ {i, j} PROVE LiveSessions'[k] = LiveSessions[k]
      BY <2>0, <2>6, <2>c, <3>1 DEF Rotate, Rotated, LiveSessions
    <3>5. LiveSessions' = [LiveSessions EXCEPT ![i] = NoSession,
                               ![j] = Store!Lasting(LiveSessions[i].target)]
      BY <2>d, <3>1, <3>2, <3>3, <3>4
    <3> QED
      BY <2>6, <2>c, <3>1, <3>5 DEF Rotate, Store!StoreRotate
  <2>7. CASE Renew
    <3>0. pending.id \in used /\ pending.id = Held /\ sessions[pending.id] # NoSession
      BY <2>0, <2>7 DEF Renew, HeldIsThere, Held
    <3>1. PICK i \in SessionIds : /\ i = pending.id /\ i = Held
                                  /\ sessions[i].target \in Targets
                                  /\ LiveSessions[i] = sessions[i]
      BY <2>0, <2>7, <3>0 DEF Renew, LiveSessions
    <3>2. LiveSessions'[i] = Store!Lasting(sessions[i].target)
      BY <2>0, <2>7, <3>1, RenewedIsLive DEF Renew
    <3>3. ASSUME NEW k \in SessionIds \ {i} PROVE LiveSessions'[k] = LiveSessions[k]
      BY <2>0, <2>7, <2>c, <3>1 DEF Renew, LiveSessions
    <3>4. LiveSessions' = [LiveSessions EXCEPT ![i] = Store!Lasting(LiveSessions[i].target)]
      BY <2>d, <3>1, <3>2, <3>3
    <3>5. Store!StoreRenew(i)
      BY <2>7, <2>c, <3>1, <3>4 DEF Renew, Store!StoreRenew
    <3> QED
      BY <3>5 DEF Store!StoreNext
  <2>8. CASE RefreshForRequest
    <3>1. PICK i \in SessionIds : i = pending.id
      BY <2>0, <2>8 DEF RefreshForRequest
    <3>2. /\ Held = NoId /\ UNCHANGED <<used, retired, answer, sessClock>>
          /\ LiveSessions = [k \in SessionIds |->
                                IF GetSession(k) THEN sessions[k] ELSE NoSession]
      BY <2>0, <2>8, NoneHeld DEF RefreshForRequest
    <3>3. CASE GetSession(i)
      <4>1. pending' = Goes(i, "renew") /\ sessions' = sessions /\ Held' = i
        BY <2>8, <3>1, <3>3 DEF RefreshForRequest, Held
      <4>2. LiveSessions' = LiveSessions
        BY <3>2, <3>3, <4>1 DEF LiveSessions
      <4>3. Store!StoreHold(i)
        BY <3>2, <3>3, <4>1, <4>2 DEF Store!StoreHold
      <4> QED
        BY <4>3 DEF Store!StoreNext
    <3>4. CASE ~GetSession(i)
      <4>1. pending' = NoPending /\ sessions' = Without(i)
        BY <2>8, <3>1, <3>4 DEF RefreshForRequest
      <4>2. LiveSessions' = LiveSessions
        BY <2>0, <2>c, <3>2, <3>4, <4>1
      <4> QED
        BY <2>c, <3>2, <4>1, <4>2 DEF Store!storeVars
    <3> QED
      BY <3>3, <3>4
  <2>9. CASE CleanupExpiredSessions
    <3>1. LiveSessions' = LiveSessions
      BY <2>0, <2>9, <2>a, <2>c DEF CleanupExpiredSessions
    <3> QED
      BY <2>9, <2>a, <2>c, <3>1 DEF CleanupExpiredSessions, Store!storeVars
  <2>10. CASE DestroySessions
    <3>1. LiveSessions' = [i \in SessionIds |-> NoSession]
      BY <2>0, <2>10, <2>a, <2>c DEF DestroySessions
    <3> QED
      BY <2>10, <2>a, <2>c, <3>1 DEF DestroySessions, Store!StoreNext, Store!StoreClear
  <2>11. CASE SessTick
    <3>1. Held' = Held /\ sessClock' = sessClock + 1
          /\ UNCHANGED <<sessions, used, retired, answer>>
      BY <2>11 DEF SessTick, Held
    <3>2. LiveSessions' = [i \in SessionIds |->
              IF sessClock' > LiveSessions[i].expiresAt /\ i # Held
              THEN NoSession ELSE LiveSessions[i]]
      BY <2>0, <3>1 DEF LiveSessions
    <3> QED
      BY <3>1, <3>2 DEF Store!StoreNext, Store!StoreTick
  <2>12. CASE UNCHANGED sessVars
    BY <2>12 DEF sessVars, Store!storeVars, LiveSessions, Held
  <2> QED
    BY <2>1, <2>2, <2>3, <2>4, <2>5, <2>6, <2>7, <2>8, <2>9, <2>10, <2>11,
       <2>12 DEF SessionsNext, RefreshSession, RotateSessionId, Store!StoreNext
<1> QED
  BY <1>1, <1>2, SessionsInvariant, PTL DEF SessionsSpec, ImplementsStore,
     Store!StoreSpec

-----------------------------------------------------------------------------
USE AddressAssumption, TrustAssumption

(* The widths of addresses.                                                *)
LEMMA Widths == V4Width \in Nat \ {0} /\ V6Width \in Nat \ {0}
BY DEF V4Width, V6Width

(* A mask of a prefix: its first bits are 1.                               *)
PrefixMask(width, len) == [i \in 1..width |-> IF i <= len THEN 1 ELSE 0]

(* Two words agree under it if their first bits do.                        *)
LEMMA MaskedEqual ==
    ASSUME NEW width \in Nat, NEW len \in 0..width,
           NEW x \in Words(width), NEW y \in Words(width)
    PROVE  And(x, PrefixMask(width, len)) = And(y, PrefixMask(width, len))
           <=> \A i \in 1..len : x[i] = y[i]
<1> DEFINE m == PrefixMask(width, len)
<1>1. \A z \in Words(width) : And(z, m) = [i \in 1..width |-> IF i <= len THEN z[i] ELSE 0]
  <2>1. ASSUME NEW z \in Words(width), NEW i \in 1..width
        PROVE  z[i] * m[i] = IF i <= len THEN z[i] ELSE 0
    BY DEF Words, PrefixMask
  <2> QED BY <2>1 DEF And, Words
<1> HIDE DEF m
<1>2. ASSUME And(x, m) = And(y, m), NEW i \in 1..len
      PROVE  x[i] = y[i]
  <2>1. i \in 1..width /\ i <= len
    OBVIOUS
  <2> QED BY <1>1, <1>2, <2>1
<1>3. ASSUME \A i \in 1..len : x[i] = y[i]
      PROVE  And(x, m) = And(y, m)
  <2>1. \A i \in 1..width : i <= len => x[i] = y[i]
    BY <1>3
  <2> QED BY <1>1, <2>1
<1> QED BY <1>2, <1>3 DEF m

(* The mask of isIPInCIDR is the one of its prefix, as long as that is not *)
(* 0: the shift count of V4Width - len is then less than the width.        *)
LEMMA NetworkMaskIs ==
    ASSUME NEW len \in 1..V4Width
    PROVE  NetworkMask(len) = PrefixMask(V4Width, len)
<1> DEFINE one == ShiftLeft(V4One, V4Width - len)
<1>1. V4Width \in Nat \ {0} /\ (V4Width - len) % V4Width = V4Width - len
  BY Widths
<1>2. one = [i \in 1..V4Width |-> IF i = len THEN 1 ELSE 0]
  BY <1>1 DEF ShiftLeft, V4One
<1> HIDE DEF one
<1>3. \A i \in 1..V4Width : (\A j \in 1..V4Width : j > i => one[j] = 0) <=> i >= len
  BY <1>1, <1>2
<1>4. MinusOne(one) = [i \in 1..V4Width |-> IF i <= len THEN 0 ELSE 1]
  BY <1>1, <1>2, <1>3 DEF MinusOne
<1>5. Complement(MinusOne(one)) = PrefixMask(V4Width, len)
  BY <1>4 DEF Complement, PrefixMask
<1> QED BY <1>1, <1>5 DEF NetworkMask, one

LEMMA ByteMaskIs ==
    ASSUME NEW rest \in 1..(ByteBits - 1)
    PROVE  ByteMask(rest) = PrefixMask(ByteBits, rest)
BY DEF ByteMask, ShiftLeft, PrefixMask

(* Division with remainder.                                                *)
LEMMA DivMod ==
    ASSUME NEW n \in Nat, NEW d \in Nat \ {0}
    PROVE  /\ n \div d \in Nat /\ n % d \in 0..(d - 1)
           /\ n = d * (n \div d) + (n % d)
<1> DEFINE q == n \div d
           r == n % d
<1>1. r \in 0..(d - 1)
  OBVIOUS
<1>2. q \in Int
  OBVIOUS
<1>3. n = d * q + r
  OBVIOUS
<1> HIDE DEF q, r
<1>4. q >= 0
  <2>1. q \in Int /\ r \in 0..(d - 1) /\ n = d * q + r
    BY <1>1, <1>2, <1>3
  <2>2. ASSUME q < 0 PROVE FALSE
    <3>1. q <= -1
      BY <2>1, <2>2
    <3>2. d * q <= -d
      BY <2>1, <3>1
    <3> QED BY <2>1, <3>2
  <2> QED BY <2>1, <2>2
<1>5. q \in Nat
  BY <1>2, <1>4
<1> QED BY <1>1, <1>3, <1>5 DEF q, r

(* Where the bits of the bytes are.                                        *)
LEMMA BitInByte ==
    ASSUME NEW k \in Nat \ {0}, NEW j \in 1..ByteBits, NEW i, NEW n \in Nat,
           i = ByteBits * (k - 1) + j
    PROVE  /\ i \in Nat \ {0}
           /\ k <= n => i <= ByteBits * n
           /\ i <= ByteBits * n => k <= n
<1> DEFINE b == ByteBits * (k - 1)
<1>1. ByteBits \in Nat \ {0} /\ b \in Nat /\ i = b + j
  <2>1. k - 1 \in Nat
    OBVIOUS
  <2> QED BY <2>1
<1>2. ASSUME k <= n PROVE i <= ByteBits * n
  <2>1. n - (k - 1) >= 1 /\ n - (k - 1) \in Int
    BY <1>2
  <2>2. ByteBits * (n - (k - 1)) >= ByteBits
    BY <2>1
  <2>3. ByteBits * (n - (k - 1)) = ByteBits * n - b
    OBVIOUS
  <2>4. ByteBits * n \in Nat
    OBVIOUS
  <2> HIDE DEF b
  <2> QED BY <1>1, <2>2, <2>3, <2>4
<1>3. ASSUME i <= ByteBits * n, k > n PROVE FALSE
  <2>1. k - 1 - n \in Nat
    BY <1>3
  <2>2. ByteBits * (k - 1 - n) \in Nat
    BY <2>1
  <2>3. ByteBits * (k - 1 - n) = b - ByteBits * n
    OBVIOUS
  <2>4. ByteBits * n \in Nat
    OBVIOUS
  <2> HIDE DEF b
  <2> QED BY <1>1, <1>3, <2>2, <2>3, <2>4
<1> HIDE DEF b
<1> QED BY <1>1, <1>2, <1>3

LEMMA ByteOfBit ==
    ASSUME NEW i \in Nat \ {0}
    PROVE  \E k \in Nat \ {0}, j \in 1..ByteBits : i = ByteBits * (k - 1) + j
<1> DEFINE q == (i - 1) \div ByteBits
           r == (i - 1) % ByteBits
<1>1. i - 1 \in Nat /\ ByteBits \in Nat \ {0}
  OBVIOUS
<1>2. q \in Nat /\ r \in 0..(ByteBits - 1) /\ i - 1 = ByteBits * q + r
  BY <1>1, DivMod
<1> HIDE DEF q, r
<1>3. q + 1 \in Nat \ {0} /\ r + 1 \in 1..ByteBits /\ (q + 1) - 1 = q
  BY <1>1, <1>2
<1>4. i = ByteBits * ((q + 1) - 1) + (r + 1)
  <2>1. ByteBits * q \in Nat
    BY <1>1, <1>2
  <2> QED BY <1>1, <1>2, <1>3, <2>1
<1> QED BY <1>3, <1>4

(* Bytes that agree, then the first bits of the next: the prefix agrees.   *)
LEMMA V6MatchIs ==
    ASSUME NEW a, NEW c, a.bits \in Words(V6Width), c.network.bits \in Words(V6Width),
           a.family = 6, c.prefix \in 0..V6Width
    PROVE  InV6Network(a, c) <=> \A i \in 1..c.prefix : a.bits[i] = c.network.bits[i]
<1> DEFINE x == a.bits
           y == c.network.bits
           p == c.prefix
           full == p \div ByteBits
           rest == p % ByteBits
           Same(k, j) == x[ByteBits * (k - 1) + j] = y[ByteBits * (k - 1) + j]
<1>1. /\ full \in Nat /\ rest \in 0..(ByteBits - 1) /\ p = ByteBits * full + rest
      /\ p \in Nat /\ p <= V6Width /\ ByteBits \in Nat \ {0} /\ V6Bytes \in Nat
  <2>1. p \in Nat /\ p <= V6Width
    BY Widths
  <2> HIDE DEF p
  <2> QED BY <2>1, DivMod
<1> HIDE DEF full, rest
<1>2. \A k \in Nat : ByteAt(a, k) = ByteAt(c.network, k) <=> \A j \in 1..ByteBits : Same(k, j)
  BY DEF ByteAt
<1>3. rest > 0 =>
         (And(ByteAt(a, full + 1), ByteMask(rest)) = And(ByteAt(c.network, full + 1), ByteMask(rest))
          <=> \A j \in 1..rest : Same(full + 1, j))
  <2> SUFFICES ASSUME rest > 0
               PROVE  And(ByteAt(a, full + 1), ByteMask(rest))
                         = And(ByteAt(c.network, full + 1), ByteMask(rest))
                      <=> \A j \in 1..rest : Same(full + 1, j)
    OBVIOUS
  <2>1. rest \in 1..(ByteBits - 1) /\ full + 1 \in Nat \ {0} /\ (full + 1) - 1 = full
    BY <1>1
  <2>2. full < V6Bytes
    <3>1. ASSUME full >= V6Bytes PROVE FALSE
      <4>1. full - V6Bytes \in Nat
        BY <1>1, <3>1
      <4>2. ByteBits * (full - V6Bytes) \in Nat
        BY <1>1, <4>1
      <4>3. ByteBits * (full - V6Bytes) = ByteBits * full - ByteBits * V6Bytes
        BY <1>1
      <4>4. ByteBits * full \in Nat /\ V6Width \in Nat
        BY <1>1, Widths
      <4> QED BY <1>1, <2>1, <4>2, <4>3, <4>4 DEF V6Width
    <3> QED BY <1>1, <3>1
  <2>3. ASSUME NEW j \in 1..ByteBits PROVE ByteBits * full + j \in 1..V6Width
    <3>1. ByteBits * full + j <= ByteBits * V6Bytes /\ ByteBits * full + j \in Nat \ {0}
      BY <1>1, <2>1, <2>2, BitInByte
    <3>2. V6Width \in Nat
      BY Widths
    <3> QED BY <3>1, <3>2 DEF V6Width
  <2>4. ByteAt(a, full + 1) \in Words(ByteBits) /\ ByteAt(c.network, full + 1) \in Words(ByteBits)
    BY <2>1, <2>3 DEF ByteAt, Words
  <2>5. rest \in 0..ByteBits
    BY <1>1
  <2>6. And(ByteAt(a, full + 1), ByteMask(rest)) = And(ByteAt(c.network, full + 1), ByteMask(rest))
        <=> \A j \in 1..rest : ByteAt(a, full + 1)[j] = ByteAt(c.network, full + 1)[j]
    BY <1>1, <2>1, <2>4, <2>5, MaskedEqual, ByteMaskIs
  <2>7. \A j \in 1..rest : j \in 1..ByteBits
    BY <1>1
  <2> QED BY <2>6, <2>7 DEF ByteAt
<1>4. ASSUME InV6Network(a, c), NEW i \in 1..p PROVE x[i] = y[i]
  <2>1. PICK k \in Nat \ {0}, j \in 1..ByteBits : i = ByteBits * (k - 1) + j
    <3>1. i \in Nat \ {0}
      BY <1>1
    <3> QED BY <3>1, ByteOfBit
  <2>2. /\ \A l \in 1..full : ByteAt(a, l) = ByteAt(c.network, l)
        /\ rest > 0 => And(ByteAt(a, full + 1), ByteMask(rest))
                       = And(ByteAt(c.network, full + 1), ByteMask(rest))
    BY <1>4 DEF InV6Network, full, rest
  <2>3. CASE k <= full
    <3>1. k \in 1..full /\ k \in Nat
      BY <1>1, <2>3
    <3>2. Same(k, j)
      BY <1>2, <2>2, <3>1
    <3> QED BY <2>1, <3>2
  <2>4. CASE k > full
    <3>1. i <= ByteBits * (full + 1)
      <4>1. ByteBits * (full + 1) = ByteBits * full + ByteBits /\ ByteBits * full \in Nat
        BY <1>1
      <4> QED BY <1>1, <4>1
    <3>2. k <= full + 1
      BY <1>1, <2>1, <3>1, BitInByte
    <3>3. k = full + 1 /\ k - 1 = full
      BY <1>1, <2>4, <3>2
    <3>4. j <= rest
      <4>1. ByteBits * full \in Nat /\ i = ByteBits * full + j
        BY <1>1, <2>1, <3>3
      <4> QED BY <1>1, <4>1
    <3>5. j \in 1..rest /\ rest > 0
      BY <1>1, <3>4
    <3>6. Same(full + 1, j)
      BY <1>3, <2>2, <3>5
    <3> QED BY <2>1, <3>3, <3>6
  <2> QED BY <1>1, <2>3, <2>4
<1>5. ASSUME \A i \in 1..p : x[i] = y[i] PROVE InV6Network(a, c)
  <2>1. ASSUME NEW k \in 1..full PROVE ByteAt(a, k) = ByteAt(c.network, k)
    <3>1. k \in Nat \ {0} /\ k <= full
      BY <1>1
    <3>2. ASSUME NEW j \in 1..ByteBits PROVE Same(k, j)
      <4>1. ByteBits * (k - 1) + j \in Nat \ {0} /\ ByteBits * (k - 1) + j <= ByteBits * full
        BY <1>1, <3>1, BitInByte
      <4>2. ByteBits * full \in Nat
        BY <1>1
      <4>3. ByteBits * (k - 1) + j \in 1..p
        BY <1>1, <4>1, <4>2
      <4> QED BY <1>5, <4>3
    <3> QED BY <1>2, <3>1, <3>2
  <2>2. ASSUME NEW j \in 1..rest PROVE Same(full + 1, j)
    <3>1. ByteBits * full \in Nat /\ (full + 1) - 1 = full
      BY <1>1
    <3>2. ByteBits * full + j \in 1..p
      BY <1>1, <3>1
    <3> QED BY <1>5, <3>1, <3>2
  <2>3. /\ \A k \in 1..full : ByteAt(a, k) = ByteAt(c.network, k)
        /\ rest > 0 => And(ByteAt(a, full + 1), ByteMask(rest))
                       = And(ByteAt(c.network, full + 1), ByteMask(rest))
    BY <1>3, <2>1, <2>2
  <2> QED BY <2>3 DEF InV6Network, full, rest
<1> QED BY <1>4, <1>5

(* isIPInCIDR decides whether a network covers an address, but for the     *)
(* reserved ones.                                                          *)
LEMMA MatchIsCovers ==
    ASSUME NEW a, NEW c, IsAddress(a), IsValidIP(a), IsAddress(c.network),
           c.prefix \in Nat \cup {-1}, ~Reserved(c)
    PROVE  IsIPInCIDR(a, c) <=> Covers(c, a)
<1> DEFINE n == c.network
<1>1. /\ a.family \in {4, 6} /\ n.family \in {0, 4, 6}
      /\ a.family = 4 => a.bits \in Words(V4Width)
      /\ a.family = 6 => a.bits \in Words(V6Width)
      /\ n.family = 4 => n.bits \in Words(V4Width)
      /\ n.family = 6 => n.bits \in Words(V6Width)
  BY DEF IsAddress, IsValidIP, IPv4, IPv6, NotAnIP
<1>2. CASE c.prefix = -1
  BY <1>2 DEF IsIPInCIDR, Covers
<1>3. CASE c.prefix # -1 /\ n.family = 0
  BY <1>3 DEF IsIPInCIDR, Covers
<1>4. CASE c.prefix # -1 /\ n.family = 6
  <2>1. IsIPInCIDR(a, c) <=> InV6Network(a, c)
    BY <1>4 DEF IsIPInCIDR
  <2>2. Covers(c, a) <=> Begins(c, a)
    BY <1>4 DEF Covers
  <2>3. CASE a.family = 6 /\ c.prefix \in 0..V6Width
    BY <1>1, <1>4, <2>1, <2>2, <2>3, V6MatchIs DEF Begins
  <2>4. CASE ~(a.family = 6 /\ c.prefix \in 0..V6Width)
    BY <1>4, <2>1, <2>2, <2>4 DEF Begins, InV6Network
  <2> QED BY <2>3, <2>4
<1>5. CASE c.prefix # -1 /\ n.family = 4
  <2>1. IsIPInCIDR(a, c) <=> InV4Network(a, c)
    BY <1>5 DEF IsIPInCIDR
  <2>2. Covers(c, a) <=> c.prefix = 0 \/ Begins(c, a)
    BY <1>5 DEF Covers
  <2>3. V4Width \in Nat \ {0}
    BY Widths
  <2>4. CASE c.prefix \notin 1..V4Width
    BY <1>1, <1>5, <2>1, <2>2, <2>3, <2>4 DEF Begins, InV4Network
  <2>5. CASE c.prefix \in 1..V4Width
    <3> DEFINE m == PrefixMask(V4Width, c.prefix)
               zero == [i \in 1..V4Width |-> 0]
    <3>1. c.prefix \in 0..V4Width /\ c.prefix # 0 /\ NetworkMask(c.prefix) = m
      BY <2>3, <2>5, NetworkMaskIs
    <3>2. InV4Network(a, c) <=> And(IpToNumber(a), m) = And(n.bits, m)
      BY <1>5, <3>1 DEF InV4Network, IpToNumber
    <3>3. CASE a.family = 4
      <4>1. And(a.bits, m) = And(n.bits, m) <=> \A i \in 1..c.prefix : a.bits[i] = n.bits[i]
        <5>1. /\ V4Width \in Nat /\ c.prefix \in 0..V4Width /\ n.bits \in Words(V4Width)
              /\ a.bits \in Words(V4Width)
          BY <1>1, <1>5, <2>3, <3>1, <3>3
        <5> HIDE DEF n
        <5> QED BY <5>1, MaskedEqual
      <4> QED BY <1>5, <2>1, <2>2, <3>1, <3>2, <3>3, <4>1 DEF Begins, IpToNumber
    <3>4. CASE a.family # 4
      <4>1. zero \in Words(V4Width)
        BY DEF Words
      <4>2. And(zero, m) = And(n.bits, m) <=> \A i \in 1..c.prefix : zero[i] = n.bits[i]
        <5>1. V4Width \in Nat /\ c.prefix \in 0..V4Width /\ n.bits \in Words(V4Width)
          BY <1>1, <1>5, <2>3, <3>1
        <5> HIDE DEF zero, n
        <5> QED BY <4>1, <5>1, MaskedEqual
      <4>3. \A i \in 1..c.prefix : zero[i] = 0
        BY <2>3, <2>5
      <4>4. ~ \A i \in 1..c.prefix : n.bits[i] = 0
        BY <1>5, <2>5 DEF Reserved
      <4>5. ~InV4Network(a, c)
        <5>1. IpToNumber(a) = zero
          BY <3>4 DEF IpToNumber
        <5> HIDE DEF zero, m
        <5> QED BY <3>2, <4>2, <4>3, <4>4, <5>1
      <4> QED BY <1>5, <2>1, <2>2, <3>1, <3>4, <4>5 DEF Begins
    <3> QED BY <3>3, <3>4
  <2> QED BY <2>4, <2>5
<1> QED BY <1>1, <1>2, <1>3, <1>4, <1>5

-----------------------------------------------------------------------------
(* What trusted-proxy.ts trusts is what its networks cover.                *)
Covered(c, a)  == \E n \in TrustedCIDRs(c) : Covers(n, a)
Definite(c) == ~c.trustAll /\ \A n \in TrustedCIDRs(c) : ~Reserved(n)

LEMMA ConfigType ==
    ASSUME NEW c \in TrustConfigs
    PROVE  /\ c \in TrustConfig
           /\ \A n \in TrustedCIDRs(c) : IsAddress(n.network) /\ n.prefix \in Nat \cup {-1}
<1>1. c \in TrustConfig
  OBVIOUS
<1>2. \A n \in c.trustedIPs : n.network \in Peers \cup ChainEntries /\ n.prefix \in Nat \cup {-1}
  BY <1>1 DEF TrustConfig
<1> QED BY <1>1, <1>2 DEF TrustedCIDRs

LEMMA TrustIsCover ==
    ASSUME NEW c \in TrustConfigs, NEW a, Definite(c), IsAddress(a), IsValidIP(a)
    PROVE  IsInTrustedNetwork(c, a) <=> Covered(c, a)
<1>1. \A n \in TrustedCIDRs(c) : IsIPInCIDR(a, n) <=> Covers(n, a)
  BY ConfigType, MatchIsCovers DEF Definite
<1> QED BY <1>1 DEF IsInTrustedNetwork, InTrustedCIDR, Covered, Definite

LEMMA ProxyIsCovered ==
    ASSUME NEW c \in TrustConfigs, NEW a, Definite(c), IsAddress(a), ValidateProxy(c, a)
    PROVE  c.enabled /\ Covered(c, a)
<1>1. c.enabled /\ IsValidIP(a) /\ IsInTrustedNetwork(c, a)
  BY DEF ValidateProxy, IsInTrustedNetwork, Definite
<1> QED BY <1>1, TrustIsCover

(* The last of a set of places.                                            *)
LEMMA LastExists ==
    ASSUME NEW n \in Nat, NEW S, S \subseteq 1..n, S # {}
    PROVE  \E i \in S : \A j \in S : j <= i
<1> DEFINE T == {m \in Nat : \A j \in S : j <= m}
<1>1. n \in T
  OBVIOUS
<1>2. PICK m \in T : \A k \in T : ~(<<k, m>> \in OpToRel(<, Nat))
  <2>1. T \subseteq Nat /\ T # {}
    BY <1>1
  <2> HIDE DEF T
  <2> QED BY <2>1, NatLessThanWellFounded, WFMin
<1>3. m \in Nat /\ \A j \in S : j <= m
  OBVIOUS
<1>4. ASSUME m \notin S PROVE FALSE
  <2>1. PICK s \in S : s \in 1..n
    OBVIOUS
  <2>2. s <= m /\ m - 1 \in Nat
    BY <1>3, <2>1
  <2>3. ASSUME NEW j \in S PROVE j <= m - 1
    <3>1. j \in 1..n /\ j <= m /\ j # m
      BY <1>3, <1>4
    <3> QED BY <1>3, <3>1
  <2>4. m - 1 \in T
    BY <2>2, <2>3
  <2>5. <<m - 1, m>> \in OpToRel(<, Nat)
    BY <1>3, <2>2 DEF OpToRel
  <2> HIDE DEF T
  <2> QED BY <1>2, <2>4, <2>5
<1> QED BY <1>3, <1>4

(* The walk stops at the last entry that is not of a trusted proxy, or at  *)
(* the first entry of all.                                                 *)
StopsAt(c, hops, n, i) ==
    /\ i \in 1..n
    /\ \A j \in (i + 1)..n : IsInTrustedNetwork(c, hops[j])
    /\ IsInTrustedNetwork(c, hops[i]) => i = 1

LEMMA WalkStops ==
    ASSUME NEW c, NEW n \in Nat \ {0}, NEW hops, DOMAIN hops = 1..n
    PROVE  \E i \in 1..n : StopsAt(c, hops, n, i) /\ WalkChain(c, hops) = hops[i]
<1> DEFINE outside == {i \in DOMAIN hops : ~IsInTrustedNetwork(c, hops[i])}
<1>1. CASE outside = {}
  <2>1. WalkChain(c, hops) = hops[1]
    BY <1>1 DEF WalkChain
  <2> QED BY <1>1, <2>1 DEF StopsAt
<1>2. CASE outside # {}
  <2> DEFINE last == CHOOSE i \in outside : \A j \in outside : j <= i
  <2>1. last \in outside /\ \A j \in outside : j <= last
    <3>1. outside \subseteq 1..n
      OBVIOUS
    <3> HIDE DEF outside
    <3>2. \E i \in outside : \A j \in outside : j <= i
      BY <1>2, <3>1, LastExists
    <3> QED BY <3>2
  <2>2. WalkChain(c, hops) = hops[last]
    BY <1>2 DEF WalkChain
  <2> HIDE DEF last
  <2>3. last \in 1..n /\ ~IsInTrustedNetwork(c, hops[last])
    BY <2>1
  <2>4. \A j \in (last + 1)..n : j \in 1..n /\ ~(j <= last)
    BY <2>3
  <2>5. \A j \in (last + 1)..n : IsInTrustedNetwork(c, hops[j])
    BY <2>1, <2>4
  <2> QED BY <2>2, <2>3, <2>5 DEF StopsAt
<1> QED BY <1>1, <1>2

(* An untrusted entry at which it stops is the only place to stop at.      *)
LEMMA StopsOnce ==
    ASSUME NEW c, NEW n \in Nat, NEW hops, NEW i \in 1..n, NEW k \in 1..n,
           StopsAt(c, hops, n, i), StopsAt(c, hops, n, k),
           ~IsInTrustedNetwork(c, hops[i])
    PROVE  k = i
<1>1. ASSUME k < i PROVE FALSE
  BY <1>1 DEF StopsAt
<1>2. ASSUME k > i PROVE FALSE
  <2>1. IsInTrustedNetwork(c, hops[k]) /\ k # 1
    BY <1>2 DEF StopsAt
  <2> QED BY <2>1 DEF StopsAt
<1> QED BY <1>1, <1>2

-----------------------------------------------------------------------------
LEMMA ChainType ==
    ASSUME NEW hops \in Chains
    PROVE  /\ hops \in Seq(ChainEntries) /\ Len(hops) \in Nat
           /\ DOMAIN hops = 1..Len(hops)
           /\ \A i \in DOMAIN hops : hops[i] \in ChainEntries /\ IsAddress(hops[i])
<1>1. PICK n \in 0..ChainBound : hops \in [1..n -> ChainEntries]
  BY DEF Chains
<1>2. n \in Nat
  OBVIOUS
<1>3. hops \in Seq(ChainEntries)
  BY <1>1, <1>2, SeqDef
<1> QED BY <1>3

(* An answer that is not the peer itself is a valid address that a trusted *)
(* peer has passed on, and with a chain the entry at which the walk stops. *)
LEMMA ExtractIs ==
    ASSUME NEW c, NEW remote, NEW h, ExtractClientIP(c, remote, h) # remote,
           h.chain \in Seq(ChainEntries)
    PROVE  /\ ValidateProxy(c, remote) /\ IsValidIP(ExtractClientIP(c, remote, h))
           /\ h.header =>
                 /\ ValidateForwardedChain(c, h.chain)
                 /\ ExtractClientIP(c, remote, h) = WalkChain(c, h.chain)
<1> DEFINE E == ExtractClientIP(c, remote, h)
           hops == h.chain
<1>1. ValidateProxy(c, remote)
  BY DEF ExtractClientIP
<1>2. CASE h.header
  <2>1. ValidateForwardedChain(c, hops) /\ E = WalkChain(c, hops)
    BY <1>1, <1>2 DEF ExtractClientIP
  <2>2. Len(hops) \in Nat \ {0} /\ DOMAIN hops = 1..Len(hops)
        /\ \A i \in 1..Len(hops) : IsValidIP(hops[i])
    BY <2>1 DEF ValidateForwardedChain
  <2>3. PICK i \in 1..Len(hops) : WalkChain(c, hops) = hops[i]
    BY <2>2, WalkStops
  <2>4. IsValidIP(E)
    BY <2>1, <2>2, <2>3
  <2> QED BY <1>1, <2>1, <2>4
<1>3. CASE ~h.header
  <2>1. E = IF c.trustCloudflare /\ IsValidIP(h.cfConnectingIP) THEN h.cfConnectingIP
            ELSE IF c.trustXRealIP /\ IsValidIP(h.xRealIP) THEN h.xRealIP
            ELSE IF c.trustXRealIP /\ IsValidIP(h.xClientIP) THEN h.xClientIP
            ELSE remote
    BY <1>1, <1>3 DEF ExtractClientIP
  <2> QED BY <1>1, <1>3, <2>1
<1> QED BY <1>2, <1>3

(* With an address from the socket nobody asks the headers again.          *)
LEMMA PeerDecides ==
    ASSUME NEW c, NEW p, p # NoAddress, NEW h, h.chain \in Seq(ChainEntries)
    PROVE  GetClientId(c, GetClientIP(c, p, h), h) = GetClientIP(c, p, h)
<1>1. GetClientIP(c, p, h) # NoAddress
  <2>1. ~IsValidIP(NoAddress)
    BY DEF IsValidIP, NoAddress, NotAnIP
  <2> QED BY <2>1, ExtractIs DEF GetClientIP
<1> QED BY <1>1 DEF GetClientId

(* A disabled validator answers with the peer, as getClientIP does.        *)
LEMMA ClientIsExtracted ==
    ASSUME NEW c, NEW p, NEW h
    PROVE  GetClientIP(c, p, h) = ExtractClientIP(c, p, h)
BY DEF GetClientIP, ExtractClientIP, ValidateProxy

(* What headers are.                                                       *)
AllHeaders == [header : BOOLEAN, chain : Chains,
               cfConnectingIP : SingleEntries \cup {NoAddress},
               xRealIP : SingleEntries \cup {NoAddress},
               xClientIP : SingleEntries \cup {NoAddress}]

(* An entry put in front of a chain does not move the stop of the walk at  *)
(* an untrusted entry: the answer stays, or the longer chain is refused.   *)
LEMMA FrontEntry ==
    ASSUME NEW c, NEW remote, NEW h \in AllHeaders, NEW e \in ChainEntries, h.header,
           NEW i \in 1..Len(h.chain), StopsAt(c, h.chain, Len(h.chain), i),
           ~IsInTrustedNetwork(c, h.chain[i])
    PROVE  ExtractClientIP(c, remote, [h EXCEPT !.chain = <<e>> \o h.chain])
              \in {h.chain[i], remote}
<1> DEFINE hops == h.chain
           n == Len(hops)
           longer == <<e>> \o hops
           g == [h EXCEPT !.chain = longer]
<1>1. hops \in Seq(ChainEntries) /\ n \in Nat /\ i \in 1..n
  BY ChainType DEF AllHeaders
<1>2. /\ longer \in Seq(ChainEntries) /\ Len(longer) = n + 1
      /\ \A j \in 1..n : longer[j + 1] = hops[j]
  <2> HIDE DEF hops, n
  <2>1. <<e>> \in Seq(ChainEntries) /\ Len(<<e>>) = 1
    OBVIOUS
  <2> QED BY <1>1, <2>1 DEF n
<1>3. g.header /\ g.chain = longer
  BY DEF AllHeaders
<1> SUFFICES ASSUME ExtractClientIP(c, remote, g) # remote
             PROVE  ExtractClientIP(c, remote, g) = hops[i]
  OBVIOUS
<1> HIDE DEF longer, g, n, hops
<1>4. ExtractClientIP(c, remote, g) = WalkChain(c, longer)
  BY <1>2, <1>3, ExtractIs
<1>5. DOMAIN longer = 1..(n + 1) /\ n + 1 \in Nat \ {0}
  BY <1>1, <1>2
<1>6. PICK k \in 1..(n + 1) : StopsAt(c, longer, n + 1, k) /\ WalkChain(c, longer) = longer[k]
  BY <1>5, WalkStops
<1>7. /\ StopsAt(c, longer, n + 1, i + 1) /\ i + 1 \in 1..(n + 1)
      /\ ~IsInTrustedNetwork(c, longer[i + 1])
  <2>1. i + 1 \in 1..(n + 1) /\ longer[i + 1] = hops[i]
    BY <1>1, <1>2
  <2>2. ASSUME NEW j \in ((i + 1) + 1)..(n + 1) PROVE IsInTrustedNetwork(c, longer[j])
    <3>1. j - 1 \in (i + 1)..n /\ j - 1 \in 1..n /\ (j - 1) + 1 = j
      BY <1>1, <2>2
    <3>2. longer[j] = hops[j - 1]
      BY <1>2, <3>1
    <3> QED BY <3>1, <3>2 DEF StopsAt, n, hops
  <2>3. ~IsInTrustedNetwork(c, hops[i])
    BY DEF hops
  <2> QED BY <2>1, <2>2, <2>3 DEF StopsAt
<1>8. k = i + 1
  BY <1>5, <1>6, <1>7, StopsOnce
<1> QED BY <1>1, <1>2, <1>4, <1>6, <1>8

-----------------------------------------------------------------------------
(* While a request is there, the client is what its headers make of it.    *)
Extracted ==
    /\ forwarded \in AllHeaders
    /\ peer # NoAddress => client = ExtractClientIP(validator, peer, forwarded)
TrustInv == TrustTypeOK /\ Extracted

(* The empty chain is one.                                                 *)
LEMMA EmptyChain == <<>> \in Chains
<1>1. <<>> \in [1..0 -> ChainEntries] /\ 0 \in 0..ChainBound
  OBVIOUS
<1> QED BY <1>1 DEF Chains

(* The types of an answer.                                                 *)
Answerable == Peers \cup ChainEntries \cup SingleEntries \cup {NoAddress, UserAgent}
LEMMA ExtractType ==
    ASSUME NEW c, NEW p \in Peers \cup {NoAddress}, NEW h \in AllHeaders
    PROVE  ExtractClientIP(c, p, h) \in Answerable
<1>1. h.chain \in Chains /\ h.chain \in Seq(ChainEntries) /\ Len(h.chain) \in Nat
      /\ DOMAIN h.chain = 1..Len(h.chain)
      /\ \A i \in DOMAIN h.chain : h.chain[i] \in ChainEntries
  BY ChainType DEF AllHeaders
<1>2. CASE ExtractClientIP(c, p, h) = p
  BY <1>2 DEF Answerable
<1>3. CASE ExtractClientIP(c, p, h) # p /\ h.header
  <2>1. ExtractClientIP(c, p, h) = WalkChain(c, h.chain) /\ h.chain # <<>>
    BY <1>1, <1>3, ExtractIs DEF ValidateForwardedChain
  <2>2. Len(h.chain) \in Nat \ {0}
    BY <1>1, <2>1
  <2>3. PICK i \in 1..Len(h.chain) : WalkChain(c, h.chain) = h.chain[i]
    BY <1>1, <2>2, WalkStops
  <2> QED BY <1>1, <2>1, <2>3 DEF Answerable
<1>4. CASE ExtractClientIP(c, p, h) # p /\ ~h.header
  <2>1. ExtractClientIP(c, p, h) \in {h.cfConnectingIP, h.xRealIP, h.xClientIP}
    BY <1>4 DEF ExtractClientIP
  <2> QED BY <2>1 DEF AllHeaders, Answerable
<1> QED BY <1>2, <1>3, <1>4

LEMMA ClientIdType ==
    ASSUME NEW c, NEW p \in Peers \cup {NoAddress}, NEW h \in AllHeaders
    PROVE  GetClientId(c, GetClientIP(c, p, h), h) \in Answerable
<1>1. /\ GetClientIP(c, p, h) \in Answerable
      /\ ExtractClientIP(c, NoAddress, h) \in Answerable
  BY ExtractType, ClientIsExtracted
<1>2. h.chain # <<>> => h.chain[Len(h.chain)] \in ChainEntries
  <2>1. h.chain \in Seq(ChainEntries)
    BY ChainType DEF AllHeaders
  <2> QED BY <2>1
<1>3. FirstGiven(h) \in Answerable
  BY DEF FirstGiven, AllHeaders, Answerable
<1>4. UserAgent \in Answerable /\ NoAddress \in Answerable /\ ChainEntries \subseteq Answerable
  BY DEF Answerable
<1> QED BY <1>1, <1>2, <1>3, <1>4 DEF GetClientId

LEMMA TrustInvariant == TrustSpec => []TrustInv
<1>1. TrustInit => TrustInv
  BY EmptyChain DEF TrustInit, TrustInv, TrustTypeOK, Extracted, NoHeaders, Headers, AllHeaders
<1>2. TrustInv /\ [TrustNext]_trustVars => TrustInv'
  <2> SUFFICES ASSUME TrustInv, [TrustNext]_trustVars PROVE TrustInv'
    OBVIOUS
  <2>1. ASSUME NEW c \in TrustConfigs, ConfigureTrust(c) PROVE TrustInv'
    BY <2>1 DEF ConfigureTrust, NoRequest, TrustInv, TrustTypeOK, Extracted
  <2>2. ASSUME NEW p \in Peers \cup {NoAddress}, NEW h \in AllHeaders, RequestFrom(p, h)
        PROVE  TrustInv'
    <3>1. client' = GetClientId(validator, GetClientIP(validator, p, h), h)
          /\ peer' = p /\ forwarded' = h /\ validator' = validator
      BY <2>2 DEF RequestFrom
    <3>2. TrustTypeOK'
      BY <3>1, ClientIdType DEF TrustInv, TrustTypeOK, Answerable
    <3>3. Extracted'
      <4>1. h.chain \in Seq(ChainEntries)
        BY ChainType DEF AllHeaders
      <4>2. p # NoAddress => client' = ExtractClientIP(validator, p, h)
        BY <3>1, <4>1, PeerDecides, ClientIsExtracted
      <4> QED BY <3>1, <4>2 DEF Extracted
    <3> QED BY <3>2, <3>3 DEF TrustInv
  <2>3. CASE RequestOver
    BY <2>3, EmptyChain DEF RequestOver, TrustInv, TrustTypeOK, Extracted, NoHeaders, Headers, AllHeaders
  <2>4. CASE UNCHANGED trustVars
    BY <2>4 DEF trustVars, TrustInv, TrustTypeOK, Extracted
  <2>5. ASSUME NEW hops \in Chains
        PROVE  Headers(TRUE, hops, NoAddress, NoAddress, NoAddress) \in AllHeaders
    BY DEF Headers, AllHeaders
  <2>6. ASSUME NEW cf \in SingleEntries, NEW real \in SingleEntries, NEW cl \in SingleEntries
        PROVE  Headers(FALSE, <<>>, cf, real, cl) \in AllHeaders
    BY EmptyChain DEF Headers, AllHeaders
  <2> QED BY <2>1, <2>2, <2>3, <2>4, <2>5, <2>6 DEF TrustNext
<1> QED BY <1>1, <1>2, PTL DEF TrustSpec

(* The types of the request and of its answer.                             *)
THEOREM TrustTypes == TrustSpec => []TrustTypeOK
BY TrustInvariant, PTL DEF TrustInv

-----------------------------------------------------------------------------
(* The client is who the socket says or, behind a peer that a configured   *)
(* network covers, an entry from which on all are covered; nothing that a  *)
(* client sends makes it another (trusted-proxy.ts and utils.ts).          *)
THEOREM ClientAddressHolds == TrustSpec => []ClientAddress
<1>1. TrustInv => ClientAddress
  <2> DEFINE c == validator
             hops == forwarded.chain
             n == Len(hops)
  <2> SUFFICES ASSUME TrustInv, Definite(c), peer # NoAddress
               PROVE  /\ ~(c.enabled /\ Trusts(peer)) => client = peer
                      /\ client = peer \/ IsValidIP(client)
                      /\ client # peer /\ forwarded.header =>
                            \E i \in DOMAIN hops :
                               /\ client = hops[i]
                               /\ \A j \in (i + 1)..n : Trusts(hops[j])
                               /\ Trusts(client) => i = 1
                               /\ ~Trusts(client) =>
                                     \A e \in ChainEntries :
                                        ExtractClientIP(c, peer,
                                            [forwarded EXCEPT !.chain = <<e>> \o hops])
                                            \in {client, peer}
    BY DEF ClientAddress, Definite
  <2>1. /\ c \in TrustConfigs /\ peer \in Peers /\ IsAddress(peer)
        /\ forwarded \in AllHeaders /\ hops \in Chains
        /\ client = ExtractClientIP(c, peer, forwarded)
    BY DEF TrustInv, TrustTypeOK, Extracted, AllHeaders
  <2>2. /\ hops \in Seq(ChainEntries) /\ n \in Nat /\ DOMAIN hops = 1..n
        /\ \A i \in 1..n : hops[i] \in ChainEntries /\ IsAddress(hops[i])
    BY <2>1, ChainType
  <2>3. client # peer => IsValidIP(client) /\ c.enabled /\ Trusts(peer)
    BY <2>1, <2>2, ExtractIs, ProxyIsCovered DEF Trusts, Covered
  <2>4. ASSUME client # peer, forwarded.header
        PROVE  \E i \in DOMAIN hops :
                  /\ client = hops[i]
                  /\ \A j \in (i + 1)..n : Trusts(hops[j])
                  /\ Trusts(client) => i = 1
                  /\ ~Trusts(client) =>
                        \A e \in ChainEntries :
                           ExtractClientIP(c, peer,
                               [forwarded EXCEPT !.chain = <<e>> \o hops]) \in {client, peer}
    <3>1. ValidateForwardedChain(c, hops) /\ client = WalkChain(c, hops)
      BY <2>1, <2>2, <2>4, ExtractIs
    <3>2. n \in Nat \ {0} /\ \A i \in 1..n : IsValidIP(hops[i])
      BY <2>2, <3>1 DEF ValidateForwardedChain
    <3>3. PICK i \in 1..n : StopsAt(c, hops, n, i) /\ client = hops[i]
      BY <2>2, <3>1, <3>2, WalkStops
    <3>4. \A j \in 1..n : IsInTrustedNetwork(c, hops[j]) <=> Trusts(hops[j])
      BY <2>1, <2>2, <3>2, TrustIsCover DEF Trusts, Covered
    <3>5. \A j \in (i + 1)..n : Trusts(hops[j])
      <4>1. \A j \in (i + 1)..n : j \in 1..n
        BY <2>2
      <4> QED BY <3>3, <3>4, <4>1 DEF StopsAt
    <3>6. Trusts(client) => i = 1
      BY <3>3, <3>4 DEF StopsAt
    <3>7. ASSUME ~Trusts(client), NEW e \in ChainEntries
          PROVE  ExtractClientIP(c, peer, [forwarded EXCEPT !.chain = <<e>> \o hops])
                    \in {client, peer}
      <4>1. ~IsInTrustedNetwork(c, hops[i])
        BY <3>3, <3>4, <3>7
      <4>2. /\ forwarded \in AllHeaders /\ forwarded.header /\ i \in 1..Len(forwarded.chain)
            /\ StopsAt(c, forwarded.chain, Len(forwarded.chain), i)
            /\ ~IsInTrustedNetwork(c, forwarded.chain[i])
        BY <2>1, <2>4, <3>3, <4>1
      <4>3. ExtractClientIP(c, peer, [forwarded EXCEPT !.chain = <<e>> \o forwarded.chain])
               \in {forwarded.chain[i], peer}
        <5> HIDE DEF c
        <5> QED BY <4>2, FrontEntry
      <4> QED BY <3>3, <4>3
    <3> QED BY <2>2, <3>3, <3>5, <3>6, <3>7
  <2> QED BY <2>3, <2>4
<1> QED BY <1>1, TrustInvariant, PTL

=============================================================================
