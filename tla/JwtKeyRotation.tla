--------------------------- MODULE JwtKeyRotation ---------------------------
(***************************************************************************)
(* Signing and verification of tokens while keys are added, rotated and    *)
(* removed: src/src/security/jwt-key-rotation.ts and the middleware of     *)
(* src/src/security/jwt-key-rotation-middleware.ts.                        *)
(*                                                                         *)
(* The key objects and the config that lists them are shared with the      *)
(* operator, who adds a key by pushing it onto config.secrets, and keys    *)
(* are named by the order in which they joined that list.  verifyToken     *)
(* walks the array it found when its loop began, awaiting the answer of    *)
(* jose for each key, while the list is pushed to or replaced.             *)
(***************************************************************************)
EXTENDS Integers, FiniteSets

CONSTANTS
    KeyBound,      \* bound: the keys that ever join the list
    GracePeriod,   \* config.gracePeriod, or 0 if it is not set
    WeakKeys,      \* HMAC keys with fewer bits than their algorithm
    Verifiers,     \* the requests that are verified concurrently
    KeyClockBound  \* bound on the clock

ASSUME JwtKeyAssumption ==
    /\ KeyBound \in Nat /\ GracePeriod \in Nat /\ KeyClockBound \in Nat
    /\ WeakKeys \subseteq 1..KeyBound

Keys == 1..KeyBound

(* A token by who signed it: one of the keys, the owner of the remote key  *)
(* set, or somebody else.  exp: the claim is there, and lies ahead.        *)
Remote   == KeyBound + 1
Stranger == KeyBound + 2
Token    == [signer : Keys \cup {Remote, Stranger}, exp : BOOLEAN]
NoToken  == [signer |-> Stranger, exp |-> FALSE]

VARIABLES
    manager,    \* "new", "ready", or "refused" by the constructor
    secrets,    \* the keys of config.secrets
    joined,     \* how many keys have joined the list so far
    primary,    \* keys whose primary is true
    deprecated, \* keys whose deprecated is true
    expiresAt,  \* expiresAt of each key, or 0
    jwks,       \* the remote set: "none", "cold" before its fetch, or "warm"
    refreshing, \* the refresh timer runs
    keyClock,   \* Date.now()
    walk,       \* the verification each request is in
    signedAt,   \* history: when each key signed last, or 0
    undercut    \* history: a rotation left the list without a primary key

managerVars == <<manager, secrets, joined, primary, deprecated, expiresAt,
                 jwks, refreshing, keyClock>>
keysVars == <<managerVars, walk, signedAt, undercut>>

(* left: the keys of its array still to be tried, the one being tried at   *)
(* their head.  live: that array is still config.secrets, or, before it,   *)
(* the remote set being asked is still the cached one.  seen: history,     *)
(* whether the token was verifiable at the moments since it was presented. *)
Walk == [phase : {"idle", "excluded", "jwks", "key", "next", "unauthorized"},
         token : Token, left : SUBSET Keys, live : BOOLEAN,
         seen : SUBSET BOOLEAN]
Resting == [phase |-> "idle", token |-> NoToken, left |-> {}, live |-> FALSE,
            seen |-> {}]

Underway(w) == w.phase \in {"jwks", "key"}
ExpiredAt(expiry, now) == expiry # 0 /\ now > expiry
Expired(k)  == ExpiredAt(expiresAt[k], keyClock)
Earliest(S) == CHOOSE k \in S : \A j \in S : k <= j

(* What a verification in no time at all would say.                        *)
Verifiable(t, list, expiry, now) ==
    /\ t.exp
    /\ \/ t.signer = Remote /\ jwks # "none"
       \/ t.signer \in list /\ ~ExpiredAt(expiry[t.signer], now)

KeysInit ==
    /\ manager = "new"
    /\ secrets = {} /\ joined = 0
    /\ primary = {} /\ deprecated = {}
    /\ expiresAt = [k \in Keys |-> 0]
    /\ jwks = "none" /\ refreshing = FALSE
    /\ keyClock = 1
    /\ walk = [v \in Verifiers |-> Resting]
    /\ signedAt = [k \in Keys |-> 0]
    /\ undercut = FALSE

-----------------------------------------------------------------------------
(* The configuration: n secrets, those marked primary, those that expire   *)
(* at some time, whether all algorithms are known ones, and a jwksUri with *)
(* or without a refresh interval.                                          *)
JWTKeyConfig == [n : Keys \cup {0}, marked : SUBSET Keys,
                 expiring : SUBSET Keys, known : BOOLEAN,
                 jwksUri : BOOLEAN, interval : BOOLEAN]

(* Without a mark the first secret becomes the primary one.                *)
PrimaryOf(c) == IF c.n = 0 THEN {}
                ELSE IF c.marked = {} THEN {1} ELSE c.marked

(* An expiry is given to other keys than the one in use.                   *)
Sensible(c) ==
    /\ c.marked \subseteq 1..c.n
    /\ c.expiring \subseteq (1..c.n) \ PrimaryOf(c)
    /\ c.interval => c.jwksUri

Valid(c) == IF c.n = 0 THEN c.jwksUri
            ELSE Cardinality(c.marked) <= 1 /\ c.known

Construct(c) ==
    /\ manager = "new" /\ Sensible(c) /\ Valid(c)
    /\ manager' = "ready"
    /\ secrets' = 1..c.n /\ joined' = c.n
    /\ primary' = PrimaryOf(c)
    /\ expiresAt' = [k \in Keys |-> IF k \in c.expiring THEN keyClock ELSE 0]
    /\ jwks' = IF c.jwksUri THEN "cold" ELSE "none"
    /\ refreshing' = c.interval
    /\ UNCHANGED <<deprecated, keyClock, walk, signedAt, undercut>>

Refuse(c) ==
    /\ manager = "new" /\ Sensible(c) /\ ~Valid(c)
    /\ manager' = "refused"
    /\ UNCHANGED <<secrets, joined, primary, deprecated, expiresAt, jwks,
                   refreshing, keyClock, walk, signedAt, undercut>>

-----------------------------------------------------------------------------
(* Every verification under way sees whether its token would verify now.   *)
Witnessed(list, expiry, now) ==
    [v \in Verifiers |->
        IF Underway(walk[v])
        THEN [walk[v] EXCEPT !.seen = @ \cup
                 {Verifiable(walk[v].token, list, expiry, now)}]
        ELSE walk[v]]

(* The operator pushes a new primary key: the arrays being walked that are *)
(* still the list grow too.                                                *)
AddKey ==
    /\ manager = "ready" /\ joined < KeyBound
    /\ joined' = joined + 1
    /\ secrets' = secrets \cup {joined'}
    /\ primary' = primary \cup {joined'}
    /\ walk' = [v \in Verifiers |->
           IF walk[v].phase = "key" /\ walk[v].live
           THEN [Witnessed(secrets', expiresAt, keyClock)[v]
                    EXCEPT !.left = @ \cup {joined'}]
           ELSE Witnessed(secrets', expiresAt, keyClock)[v]]
    /\ UNCHANGED <<manager, deprecated, expiresAt, jwks, refreshing,
                   keyClock, signedAt, undercut>>

(* The first primary key, or else the first one.                           *)
GetPrimaryKey == IF secrets \cap primary # {}
                 THEN Earliest(secrets \cap primary) ELSE Earliest(secrets)

SignToken ==
    /\ manager = "ready" /\ secrets # {}
    /\ GetPrimaryKey \notin WeakKeys
    /\ signedAt' = [signedAt EXCEPT ![GetPrimaryKey] = keyClock]
    /\ UNCHANGED <<managerVars, walk, undercut>>

(* Mutant: the demoted key expires at once.                                *)
ExpiryNoGrace(now) == now

ExpiryAfterGrace(now) == now + GracePeriod

RotateKeys ==
    /\ manager = "ready" /\ secrets # {}
    /\ GracePeriod # 0
    /\ LET k == GetPrimaryKey IN
          /\ deprecated' = deprecated \cup {k}
          /\ primary' = primary \ {k}
          /\ expiresAt' = [expiresAt EXCEPT ![k] = ExpiryAfterGrace(keyClock)]
    /\ undercut' = (undercut \/ secrets \cap primary' = {})
    /\ walk' = Witnessed(secrets, expiresAt', keyClock)
    /\ UNCHANGED <<manager, secrets, joined, jwks, refreshing, keyClock,
                   signedAt>>

(* The filter makes a new array: walks go on over the old one.             *)
CleanupExpiredKeys ==
    /\ manager = "ready"
    /\ secrets' = {k \in secrets : ~Expired(k)}
    /\ walk' = [v \in Verifiers |->
           IF walk[v].phase = "key"
           THEN [Witnessed(secrets', expiresAt, keyClock)[v] EXCEPT !.live = FALSE]
           ELSE Witnessed(secrets', expiresAt, keyClock)[v]]
    /\ UNCHANGED <<manager, joined, primary, deprecated, expiresAt, jwks,
                   refreshing, keyClock, signedAt, undercut>>

(* By the timer or by hand: a new remote set, which has fetched nothing.   *)
(* Verifications that ask the old one go on asking it.                     *)
RefreshJWKS ==
    /\ jwks # "none"
    /\ jwks' = "cold"
    /\ walk' = [v \in Verifiers |->
           IF walk[v].phase = "jwks" THEN [walk[v] EXCEPT !.live = FALSE] ELSE walk[v]]
    /\ UNCHANGED <<manager, secrets, joined, primary, deprecated, expiresAt,
                   refreshing, keyClock, signedAt, undercut>>

DestroyManager ==
    /\ refreshing
    /\ refreshing' = FALSE
    /\ UNCHANGED <<manager, secrets, joined, primary, deprecated, expiresAt,
                   jwks, keyClock, walk, signedAt, undercut>>

KeyTick ==
    /\ manager = "ready" /\ keyClock < KeyClockBound
    /\ keyClock' = keyClock + 1
    /\ walk' = Witnessed(secrets, expiresAt, keyClock')
    /\ UNCHANGED <<manager, secrets, joined, primary, deprecated, expiresAt,
                   jwks, refreshing, signedAt, undercut>>

-----------------------------------------------------------------------------
(* The loop of verifyToken from the keys in S on: expired keys are passed  *)
(* over, and the first other one is handed to jose.                        *)
Verdict(w, phase) == [Resting EXCEPT !.phase = phase, !.seen = w.seen]

(* Mutant: it does not look at the expiry.                                 *)
TryExpiredToo(w, S) ==
    IF S = {} THEN Verdict(w, "unauthorized")
    ELSE [w EXCEPT !.phase = "key", !.left = S]

TryFrom(w, S) ==
    LET fresh == {k \in S : ~Expired(k)} IN
    IF fresh = {} THEN Verdict(w, "unauthorized")
    ELSE [w EXCEPT !.phase = "key",
                   !.left = {k \in S : k >= Earliest(fresh)}]

BeginWalk(w) == TryFrom([w EXCEPT !.live = TRUE], secrets)

(* A request reaches the middleware, whose excluded paths need no token.   *)
(* The remote set is tried first.                                          *)
Present(v, t, excluded) ==
    LET now == Verifiable(t, secrets, expiresAt, keyClock)
        w   == [Resting EXCEPT !.token = t, !.seen = {now}]
    IN
    /\ manager = "ready" /\ ~Underway(walk[v])
    /\ walk' = [walk EXCEPT ![v] =
           IF excluded THEN [Resting EXCEPT !.phase = "excluded"]
           ELSE IF t = NoToken THEN Verdict(w, "unauthorized")
           ELSE IF jwks # "none" THEN [w EXCEPT !.phase = "jwks", !.live = TRUE]
           ELSE BeginWalk(w)]
    /\ UNCHANGED <<managerVars, signedAt, undercut>>

(* The remote set answers; one that is cold is fetched, which may fail.    *)
(* The walk over the secrets begins with the array of this moment.         *)
JwksAnswers(v, fetched) ==
    LET w == walk[v] IN
    /\ w.phase = "jwks"
    /\ jwks = "warm" /\ w.live => fetched
    /\ jwks' = IF fetched /\ w.live THEN "warm" ELSE jwks
    /\ walk' = [walk EXCEPT ![v] =
           IF w.token.signer = Remote /\ w.token.exp /\ fetched
           THEN Verdict(w, "next")
           ELSE BeginWalk(IF w.token.signer = Remote /\ ~fetched
                          THEN [w EXCEPT !.seen = @ \cup {FALSE}] ELSE w)]
    /\ UNCHANGED <<manager, secrets, joined, primary, deprecated, expiresAt,
                   refreshing, keyClock, signedAt, undercut>>

(* jose answers for the key at the head of the walk.                       *)
KeyAnswers(v) ==
    LET w == walk[v]
        k == Earliest(w.left)
    IN
    /\ w.phase = "key"
    /\ walk' = [walk EXCEPT ![v] =
           IF w.token.signer = k /\ w.token.exp
           THEN Verdict(w, "next")
           ELSE TryFrom(w, w.left \ {k})]
    /\ UNCHANGED <<managerVars, signedAt, undercut>>

KeysNext ==
    \/ \E c \in JWTKeyConfig : Construct(c) \/ Refuse(c)
    \/ AddKey \/ SignToken \/ RotateKeys \/ CleanupExpiredKeys
    \/ RefreshJWKS \/ DestroyManager \/ KeyTick
    \/ \E v \in Verifiers :
          \/ \E t \in Token, excluded \in BOOLEAN : Present(v, t, excluded)
          \/ \E fetched \in BOOLEAN : JwksAnswers(v, fetched)
          \/ KeyAnswers(v)

KeysSpec == KeysInit /\ [][KeysNext]_keysVars

-----------------------------------------------------------------------------
(* The types of the variables.                                             *)
KeysTypeOK ==
    /\ manager \in {"new", "ready", "refused"}
    /\ secrets \subseteq 1..joined /\ joined \in 0..KeyBound
    /\ primary \subseteq Keys /\ deprecated \subseteq Keys
    /\ expiresAt \in [Keys -> Nat]
    /\ jwks \in {"none", "cold", "warm"} /\ refreshing \in BOOLEAN
    /\ keyClock \in Nat \ {0}
    /\ walk \in [Verifiers -> Walk]
    /\ signedAt \in [Keys -> Nat]
    /\ undercut \in BOOLEAN

(* A verification is linearizable: whatever keys are added, rotated and    *)
(* removed while it awaits them, a token is let through only if it was     *)
(* verifiable at some moment since it was presented, and turned away only  *)
(* if at some such moment it was not (verifyToken and its middleware).     *)
VerdictSound ==
    \A v \in Verifiers :
        /\ walk[v].phase = "next" => TRUE \in walk[v].seen
        /\ walk[v].phase = "unauthorized" => FALSE \in walk[v].seen

(* Rotation without downtime: while no rotation has left the list without  *)
(* a primary key, every token that signToken made stays verifiable for the *)
(* grace period after its signing (rotateKeys, cleanupExpiredKeys).        *)
GraceHonoured ==
    ~undercut => \A k \in Keys :
        signedAt[k] # 0 /\ keyClock <= signedAt[k] + GracePeriod =>
            k \in secrets /\ ~Expired(k)

=============================================================================
