------------------------ MODULE JwtKeyRotationProofs ------------------------
(***************************************************************************)
(* Tokens under rotation, for any number of keys, any grace period and any *)
(* number of concurrent verifications: a token that was signed stays       *)
(* verifiable for the grace period, and every verdict was right at some    *)
(* moment of the verification.                                             *)
(***************************************************************************)
EXTENDS JwtKeyRotation, WellFoundedInduction, TLAPS

USE JwtKeyAssumption

(* Keys leave the list only as expired ones, a primary key has no expiry,  *)
(* and nothing is known of keys that have not joined.                      *)
Listed ==
    /\ manager = "new" => secrets = {} /\ joined = 0 /\ ~undercut
                          /\ \A v \in Verifiers : walk[v].phase = "idle"
    /\ \A k \in Keys : k > joined =>
          expiresAt[k] = 0 /\ k \notin primary /\ signedAt[k] = 0
    /\ \A k \in 1..joined : k \in secrets \/ Expired(k)
    /\ \A k \in primary : expiresAt[k] = 0

(* While every rotation has left a primary key, the key that signs is one, *)
(* and a key that has signed expires no sooner than after the grace period.*)
Signed ==
    /\ \A k \in Keys : signedAt[k] <= keyClock
    /\ ~undercut =>
          /\ secrets = {} \/ secrets \cap primary # {}
          /\ \A k \in Keys : signedAt[k] # 0 =>
                expiresAt[k] = 0 \/ signedAt[k] + GracePeriod <= expiresAt[k]

VerifiableNow(t) == Verifiable(t, secrets, expiresAt, keyClock)

(* Of a verification under way the present moment is always seen; while    *)
(* its token has been verifiable throughout, the key that signed it is     *)
(* still to be tried; and the key being tried was listed and not expired   *)
(* when it was chosen.                                                     *)
WalkSound(v) ==
    LET w == walk[v] IN
    /\ Underway(w) => /\ VerifiableNow(w.token) => TRUE \in w.seen
                      /\ ~VerifiableNow(w.token) => FALSE \in w.seen
    /\ w.phase = "jwks" => jwks # "none"
    /\ w.phase = "key" =>
          /\ w.left # {} /\ w.left \subseteq 1..joined
          /\ FALSE \in w.seen \/ (w.token.exp /\ w.token.signer \in w.left)
          /\ w.token.exp /\ w.token.signer = Earliest(w.left) => TRUE \in w.seen
    /\ w.phase = "next" => TRUE \in w.seen
    /\ w.phase = "unauthorized" => FALSE \in w.seen

WalksSound == \A v \in Verifiers : WalkSound(v)

KeysInv == KeysTypeOK /\ Listed /\ Signed

-----------------------------------------------------------------------------
(* Earliest is the least element.                                          *)
LEMMA EarliestIsLeast ==
    ASSUME NEW S, S \subseteq Nat, S # {}
    PROVE  Earliest(S) \in S /\ \A j \in S : Earliest(S) <= j
<1>1. \E k \in S : \A j \in S : ~(<<j, k>> \in OpToRel(<, Nat))
  BY NatLessThanWellFounded, WFMin
<1>2. \E k \in S : \A j \in S : k <= j
  <2>1. PICK k \in S : \A j \in S : ~(<<j, k>> \in OpToRel(<, Nat))
    BY <1>1
  <2>2. ASSUME NEW j \in S PROVE k <= j
    <3>1. j \in Nat /\ k \in Nat
      BY <2>1
    <3>2. j < k => <<j, k>> \in OpToRel(<, Nat)
      BY <3>1 DEF OpToRel
    <3>3. ~(j < k)
      BY <2>1, <3>2, Zenon
    <3> QED
      BY <3>1, <3>3
  <2> QED
    BY <2>2
<1> QED
  BY <1>2 DEF Earliest

(* Earliest is the same for a set that has only grown at its end.          *)
LEMMA EarliestStays ==
    ASSUME NEW S, NEW n \in Nat, S \subseteq 0..n, S # {}
    PROVE  Earliest(S \cup {n + 1}) = Earliest(S)
<1> DEFINE T == S \cup {n + 1}
<1>0. S \subseteq Nat /\ T \subseteq Nat /\ T # {}
  OBVIOUS
<1>1. Earliest(S) \in S /\ \A j \in S : Earliest(S) <= j
  BY <1>0, EarliestIsLeast
<1>2. Earliest(T) \in T /\ \A j \in T : Earliest(T) <= j
  <2> HIDE DEF T
  <2> QED
    BY <1>0, EarliestIsLeast
<1>3. PICK a \in S : a = Earliest(S) /\ \A j \in S : a <= j
  BY <1>1
<1>4. PICK b \in T : b = Earliest(T) /\ \A j \in T : b <= j
  BY <1>2
<1>5. a \in 0..n /\ b \in Nat /\ b <= a
  BY <1>0, <1>4
<1>6. b \in S
  BY <1>5
<1>7. a <= b
  BY <1>3, <1>6
<1>8. a = b
  BY <1>5, <1>7
<1> QED
  BY <1>3, <1>4, <1>8

(* The key that signs is listed, and is a primary one if there is one.     *)
LEMMA PrimaryKey ==
    ASSUME KeysTypeOK, secrets # {}
    PROVE  /\ GetPrimaryKey \in secrets /\ GetPrimaryKey \in Keys
           /\ secrets \cap primary # {} => GetPrimaryKey \in primary
<1>1. secrets \subseteq Keys /\ secrets \subseteq Nat
  BY DEF KeysTypeOK, Keys
<1>2. CASE secrets \cap primary # {}
  <2>1. Earliest(secrets \cap primary) \in secrets \cap primary
    BY <1>1, <1>2, EarliestIsLeast
  <2> QED
    BY <1>1, <1>2, <2>1 DEF GetPrimaryKey
<1>3. CASE secrets \cap primary = {}
  <2>1. Earliest(secrets) \in secrets
    BY <1>1, EarliestIsLeast
  <2> QED
    BY <1>1, <1>3, <2>1 DEF GetPrimaryKey
<1> QED
  BY <1>2, <1>3

-----------------------------------------------------------------------------
(* The types of what TryFrom makes of a verification.                      *)
LEMMA TryFromType ==
    ASSUME NEW w \in Walk, NEW S \in SUBSET Keys
    PROVE  TryFrom(w, S) \in Walk
<1>1. Verdict(w, "unauthorized") \in Walk
  BY DEF Verdict, Resting, Walk, Token, NoToken, Stranger
<1>2. \A T \in SUBSET Keys : [w EXCEPT !.phase = "key", !.left = T] \in Walk
  BY DEF Walk
<1> QED
  BY <1>1, <1>2 DEF TryFrom

LEMMA BeginWalkType ==
    ASSUME NEW w \in Walk, secrets \subseteq Keys
    PROVE  BeginWalk(w) \in Walk
<1>1. [w EXCEPT !.live = TRUE] \in Walk
  BY DEF Walk
<1> QED
  BY <1>1, TryFromType DEF BeginWalk

LEMMA KeysTypeStep ==
    KeysTypeOK /\ [KeysNext]_keysVars => KeysTypeOK'
<1> SUFFICES ASSUME KeysTypeOK, [KeysNext]_keysVars PROVE KeysTypeOK'
  OBVIOUS
<1>0. /\ secrets \subseteq Keys /\ walk \in [Verifiers -> Walk]
      /\ keyClock \in Nat
  BY DEF KeysTypeOK, Keys
<1>a. ASSUME NEW list, NEW expiry, NEW now
      PROVE  Witnessed(list, expiry, now) \in [Verifiers -> Walk]
  <2>1. ASSUME NEW v \in Verifiers
        PROVE  Witnessed(list, expiry, now)[v] \in Walk
    <3>1. Verifiable(walk[v].token, list, expiry, now) \in BOOLEAN
      BY <1>0 DEF Verifiable, Walk, Token
    <3> QED
      BY <1>0, <3>1 DEF Witnessed, Walk
  <2> QED
    BY <2>1 DEF Witnessed
<1>1. ASSUME NEW c \in JWTKeyConfig, Construct(c) PROVE KeysTypeOK'
  <2>1. /\ c.n \in 0..KeyBound /\ c.marked \subseteq 1..c.n /\ 1..c.n \subseteq Keys
        /\ c.interval \in BOOLEAN
    BY <1>1 DEF Construct, Sensible, JWTKeyConfig, Keys
  <2>2. PrimaryOf(c) \subseteq Keys
    BY <2>1 DEF PrimaryOf, Keys
  <2>3. [k \in Keys |-> IF k \in c.expiring THEN keyClock ELSE 0] \in [Keys -> Nat]
    BY <1>0
  <2> QED
    BY <1>1, <2>1, <2>2, <2>3 DEF Construct, KeysTypeOK
<1>2. ASSUME NEW c \in JWTKeyConfig, Refuse(c) PROVE KeysTypeOK'
  BY <1>2 DEF Refuse, KeysTypeOK
<1>3. CASE AddKey
  <2>1. joined' \in Keys /\ joined' \in 0..KeyBound /\ secrets' \subseteq 1..joined'
    BY <1>3 DEF AddKey, KeysTypeOK, Keys
  <2>2. walk' \in [Verifiers -> Walk]
    <3> DEFINE W == Witnessed(secrets', expiresAt, keyClock)
    <3>1. W \in [Verifiers -> Walk]
      BY <1>a
    <3>2. \A v \in Verifiers : [W[v] EXCEPT !.left = @ \cup {joined'}] \in Walk
      BY <2>1, <3>1 DEF Walk
    <3> HIDE DEF W
    <3> QED
      BY <1>3, <3>1, <3>2 DEF AddKey, W
  <2> QED
    BY <1>3, <2>1, <2>2 DEF AddKey, KeysTypeOK
<1>4. CASE SignToken
  BY <1>4, PrimaryKey DEF SignToken, managerVars, KeysTypeOK
<1>5. CASE RotateKeys
  BY <1>5, <1>a, PrimaryKey DEF RotateKeys, ExpiryAfterGrace, KeysTypeOK
<1>6. CASE CleanupExpiredKeys
  <2>1. walk' \in [Verifiers -> Walk]
    <3> DEFINE W == Witnessed(secrets', expiresAt, keyClock)
    <3>1. W \in [Verifiers -> Walk]
      BY <1>a
    <3>2. \A v \in Verifiers : [W[v] EXCEPT !.live = FALSE] \in Walk
      BY <3>1 DEF Walk
    <3> HIDE DEF W
    <3> QED
      BY <1>6, <3>1, <3>2 DEF CleanupExpiredKeys, W
  <2> QED
    BY <1>6, <2>1 DEF CleanupExpiredKeys, KeysTypeOK
<1>7. CASE RefreshJWKS
  <2>1. \A v \in Verifiers : [walk[v] EXCEPT !.live = FALSE] \in Walk
    BY <1>0 DEF Walk
  <2>2. walk' \in [Verifiers -> Walk]
    BY <1>0, <1>7, <2>1 DEF RefreshJWKS
  <2> QED
    BY <1>7, <2>2 DEF RefreshJWKS, KeysTypeOK
<1>7a. CASE DestroyManager
  BY <1>7a DEF DestroyManager, KeysTypeOK
<1>8. CASE KeyTick
  BY <1>8, <1>a DEF KeyTick, KeysTypeOK
<1>9. ASSUME NEW v \in Verifiers, NEW t \in Token, NEW excluded \in BOOLEAN,
             Present(v, t, excluded)
      PROVE  KeysTypeOK'
  <2> DEFINE w == [Resting EXCEPT !.token = t,
                                  !.seen = {Verifiable(t, secrets, expiresAt, keyClock)}]
  <2>1. w \in Walk /\ Verdict(w, "unauthorized") \in Walk
        /\ [w EXCEPT !.phase = "jwks", !.live = TRUE] \in Walk
        /\ [Resting EXCEPT !.phase = "excluded"] \in Walk
    BY DEF Resting, Walk, Token, NoToken, Stranger, Verdict, Verifiable
  <2>2. BeginWalk(w) \in Walk
    BY <1>0, <2>1, BeginWalkType
  <2> QED
    BY <1>9, <2>1, <2>2 DEF Present, managerVars, KeysTypeOK
<1>10. ASSUME NEW v \in Verifiers, NEW fetched \in BOOLEAN, JwksAnswers(v, fetched)
       PROVE  KeysTypeOK'
  <2>0. Verdict(walk[v], "next") \in Walk
    BY <1>0 DEF Verdict, Resting, Walk, Token, NoToken, Stranger
  <2>1. walk[v] \in Walk /\ [walk[v] EXCEPT !.seen = @ \cup {FALSE}] \in Walk
    BY <1>0 DEF Walk
  <2>2. BeginWalk(walk[v]) \in Walk
        /\ BeginWalk([walk[v] EXCEPT !.seen = @ \cup {FALSE}]) \in Walk
    BY <1>0, <2>1, BeginWalkType
  <2> QED
    BY <1>10, <2>0, <2>1, <2>2 DEF JwksAnswers, KeysTypeOK
<1>11. ASSUME NEW v \in Verifiers, KeyAnswers(v) PROVE KeysTypeOK'
  <2>1. Verdict(walk[v], "next") \in Walk
    BY <1>0 DEF Verdict, Resting, Walk, Token, NoToken, Stranger
  <2>2. TryFrom(walk[v], walk[v].left \ {Earliest(walk[v].left)}) \in Walk
    BY <1>0, TryFromType DEF Walk
  <2> QED
    BY <1>11, <2>1, <2>2 DEF KeyAnswers, managerVars, KeysTypeOK
<1>12. CASE UNCHANGED keysVars
  BY <1>12 DEF keysVars, managerVars, KeysTypeOK
<1> QED
  BY <1>1, <1>2, <1>3, <1>4, <1>5, <1>6, <1>7, <1>7a, <1>8, <1>9, <1>10, <1>11, <1>12
     DEF KeysNext

-----------------------------------------------------------------------------
(* The list and the signatures.                                            *)
LEMMA KeysInvStep ==
    KeysInv /\ [KeysNext]_keysVars => KeysInv'
<1> SUFFICES ASSUME KeysInv, [KeysNext]_keysVars PROVE KeysInv'
  OBVIOUS
<1>0. KeysTypeOK /\ Listed /\ Signed /\ KeysTypeOK'
  BY KeysTypeStep DEF KeysInv
<1>s. /\ secrets \subseteq 1..joined /\ joined \in 0..KeyBound /\ 1..joined \subseteq Keys
  BY <1>0 DEF KeysTypeOK, Keys
<1>t. /\ secrets \subseteq 1..joined /\ joined \in 0..KeyBound /\ secrets \subseteq Keys
      /\ primary \subseteq Keys /\ expiresAt \in [Keys -> Nat] /\ keyClock \in Nat \ {0}
      /\ signedAt \in [Keys -> Nat] /\ 1..joined \subseteq Keys /\ undercut \in BOOLEAN
  BY <1>0, <1>s DEF KeysTypeOK
<1> USE DEF KeysInv, Expired, ExpiredAt
<1>1. ASSUME NEW c \in JWTKeyConfig, Construct(c) PROVE KeysInv'
  <2>1. /\ c.n \in 0..KeyBound /\ c.marked \subseteq 1..c.n
        /\ c.expiring \subseteq (1..c.n) \ PrimaryOf(c)
    BY <1>1 DEF Construct, Sensible, JWTKeyConfig, Keys
  <2>2. PrimaryOf(c) \subseteq 1..c.n /\ (c.n # 0 => PrimaryOf(c) # {})
    BY <2>1 DEF PrimaryOf
  <2>3. /\ manager' = "ready" /\ secrets' = 1..c.n /\ joined' = c.n
        /\ primary' = PrimaryOf(c) /\ UNCHANGED <<keyClock, signedAt, undercut>>
        /\ expiresAt' = [k \in Keys |-> IF k \in c.expiring THEN keyClock ELSE 0]
    BY <1>1 DEF Construct
  <2>4. Listed /\ manager = "new" /\ joined = 0 /\ \A k \in Keys : signedAt[k] = 0
    BY <1>0, <1>1, <1>t DEF Construct, Listed, Keys
  <2>5. Listed'
    BY <1>t, <2>1, <2>2, <2>3, <2>4 DEF Listed, Keys
  <2>6. Signed'
    BY <1>t, <2>1, <2>2, <2>3, <2>4 DEF Signed
  <2> QED
    BY <1>0, <2>5, <2>6
<1>2. ASSUME NEW c \in JWTKeyConfig, Refuse(c) PROVE KeysInv'
  BY <1>0, <1>2 DEF Refuse, Listed, Signed
<1>3. CASE AddKey
  <2>1. /\ manager' = "ready" /\ joined' = joined + 1 /\ joined' \in Keys
        /\ secrets' = secrets \cup {joined'} /\ primary' = primary \cup {joined'}
        /\ UNCHANGED <<expiresAt, keyClock, signedAt, undercut>>
    BY <1>3, <1>t DEF AddKey, Keys
  <2>2. expiresAt[joined'] = 0
    BY <1>0, <1>t, <2>1 DEF Listed
  <2>3. Listed'
    BY <1>0, <1>t, <2>1, <2>2 DEF Listed, Keys
  <2>4. Signed'
    BY <1>0, <2>1 DEF Signed
  <2> QED
    BY <1>0, <2>3, <2>4
<1>4. CASE SignToken
  <2>1. PICK k \in secrets : /\ k = GetPrimaryKey
                             /\ secrets \cap primary # {} => k \in primary
    BY <1>0, <1>4, PrimaryKey DEF SignToken
  <2>2. signedAt' = [signedAt EXCEPT ![k] = keyClock] /\ UNCHANGED <<managerVars, walk, undercut>>
    BY <1>4, <2>1 DEF SignToken
  <2>3. Listed'
    BY <1>0, <1>t, <2>1, <2>2 DEF Listed, managerVars
  <2>4. ~undercut => expiresAt[k] = 0
    BY <1>0, <2>1 DEF Listed, Signed
  <2>5. Signed'
    BY <1>0, <1>t, <2>1, <2>2, <2>4 DEF Signed, managerVars
  <2> QED
    BY <1>0, <2>3, <2>5
<1>5. CASE RotateKeys
  <2>1. PICK k \in secrets : k = GetPrimaryKey
    BY <1>0, <1>5, PrimaryKey DEF RotateKeys
  <2>2. /\ primary' = primary \ {k} /\ manager' = manager /\ manager # "new"
        /\ expiresAt' = [expiresAt EXCEPT ![k] = keyClock + GracePeriod]
        /\ undercut' = (undercut \/ secrets \cap primary' = {})
        /\ UNCHANGED <<secrets, joined, keyClock, signedAt>>
    BY <1>5, <2>1 DEF RotateKeys, ExpiryAfterGrace
  <2>3. Listed'
    BY <1>0, <1>t, <2>1, <2>2 DEF Listed
  <2>4. \A j \in Keys : signedAt[j] + GracePeriod <= expiresAt'[j] \/ j # k
    BY <1>0, <1>t, <2>2 DEF Signed
  <2>5. ~undercut' => ~undercut /\ secrets' \cap primary' # {}
    BY <1>t, <2>2
  <2>6. \A j \in Keys : j = k \/ expiresAt'[j] = expiresAt[j]
    BY <1>t, <2>2
  <2>7. Signed'
    BY <1>0, <1>t, <2>2, <2>4, <2>5, <2>6 DEF Signed
  <2> QED
    BY <1>0, <2>3, <2>7
<1>6. CASE CleanupExpiredKeys
  <2>1. /\ secrets' = {k \in secrets : ~Expired(k)} /\ manager = "ready"
        /\ UNCHANGED <<manager, joined, primary, expiresAt, keyClock, signedAt, undercut>>
    BY <1>6 DEF CleanupExpiredKeys
  <2>2. Listed'
    BY <1>0, <1>t, <2>1 DEF Listed
  <2>3. secrets \cap primary \subseteq secrets'
    BY <1>0, <1>t, <2>1 DEF Listed
  <2>4. Signed'
    BY <1>0, <1>t, <2>1, <2>3 DEF Signed
  <2> QED
    BY <1>0, <2>2, <2>4
<1>7. CASE KeyTick
  <2>1. /\ keyClock' = keyClock + 1 /\ manager # "new"
        /\ UNCHANGED <<manager, secrets, joined, primary, expiresAt, signedAt, undercut>>
    BY <1>7 DEF KeyTick
  <2>2. Listed'
    BY <1>0, <1>t, <2>1 DEF Listed
  <2>3. Signed'
    BY <1>0, <1>t, <2>1 DEF Signed
  <2> QED
    BY <1>0, <2>2, <2>3
<1>8. CASE /\ manager # "new"
           /\ UNCHANGED <<manager, secrets, joined, primary, expiresAt, keyClock,
                          signedAt, undercut>>
  BY <1>0, <1>8 DEF Listed, Signed
<1>9. CASE RefreshJWKS \/ DestroyManager \/ UNCHANGED keysVars
  <2>1. UNCHANGED <<manager, secrets, joined, primary, expiresAt, keyClock,
                    signedAt, undercut>>
    BY <1>9 DEF RefreshJWKS, DestroyManager, keysVars, managerVars
  <2>2. \A v \in Verifiers : walk[v].phase = "idle" => walk'[v].phase = "idle"
    BY <1>9 DEF RefreshJWKS, DestroyManager, keysVars
  <2>3. Listed'
    BY <1>0, <2>1, <2>2 DEF Listed
  <2>4. Signed'
    BY <1>0, <2>1 DEF Signed
  <2> QED
    BY <1>0, <2>3, <2>4
<1>10. ASSUME NEW v \in Verifiers, NEW t \in Token, NEW excluded \in BOOLEAN,
              Present(v, t, excluded)
       PROVE  KeysInv'
  BY <1>8, <1>10 DEF Present, managerVars
<1>11. ASSUME NEW v \in Verifiers, NEW fetched \in BOOLEAN, JwksAnswers(v, fetched)
       PROVE  KeysInv'
  BY <1>0, <1>8, <1>11 DEF JwksAnswers, Listed
<1>12. ASSUME NEW v \in Verifiers, KeyAnswers(v) PROVE KeysInv'
  BY <1>0, <1>8, <1>12 DEF KeyAnswers, managerVars, Listed
<1> QED
  BY <1>1, <1>2, <1>3, <1>4, <1>5, <1>6, <1>7, <1>9, <1>10, <1>11, <1>12
     DEF KeysNext

-----------------------------------------------------------------------------
(* The verifications.  VerifiableNow asks for jwks only whether it is set. *)
LEMMA VerifiableLater ==
    ASSUME NEW t, jwks' # "none" <=> jwks # "none"
    PROVE  VerifiableNow(t)' <=> Verifiable(t, secrets', expiresAt', keyClock')
BY DEF VerifiableNow, Verifiable

(* Of the keys in S the first that is not expired is tried.                *)
LEMMA TryFromSound ==
    ASSUME NEW v \in Verifiers, NEW w \in Walk, NEW S, S \subseteq 1..joined,
           KeysTypeOK, Listed, walk'[v] = TryFrom(w, S),
           UNCHANGED <<secrets, joined, expiresAt, keyClock>>,
           jwks' # "none" <=> jwks # "none",
           VerifiableNow(w.token) => TRUE \in w.seen,
           ~VerifiableNow(w.token) => FALSE \in w.seen,
           FALSE \in w.seen \/ (w.token.exp /\ w.token.signer \in S)
    PROVE  WalkSound(v)'
<1> DEFINE fresh == {k \in S : ~Expired(k)}
           left  == {k \in S : k >= Earliest(fresh)}
<1>j. KeyBound \in Nat /\ joined \in Nat /\ joined <= KeyBound
  BY DEF KeysTypeOK
<1>0. ASSUME NEW k \in S PROVE k \in 1..KeyBound
  <2>1. k \in 1..joined
    OBVIOUS
  <2> QED
    BY <1>j, <2>1
<1>1. S \subseteq Keys /\ S \subseteq Nat /\ fresh \subseteq Nat /\ Remote \notin S
  <2>1. S \subseteq Keys
    BY <1>0 DEF Keys
  <2>2. \A k \in Keys : k \in Nat /\ k # KeyBound + 1
    BY <1>j DEF Keys
  <2> QED
    BY <2>1, <2>2 DEF Remote
<1>2. VerifiableNow(w.token)' <=> VerifiableNow(w.token)
  BY VerifiableLater DEF VerifiableNow
<1>3. w.token.signer \in S /\ Expired(w.token.signer) => ~VerifiableNow(w.token)
  BY <1>1 DEF VerifiableNow, Verifiable, Expired
<1>4. CASE fresh = {}
  <2>1. walk'[v] = Verdict(w, "unauthorized")
    BY <1>4 DEF TryFrom
  <2>2. walk'[v].phase = "unauthorized" /\ walk'[v].seen = w.seen
    BY <2>1 DEF Verdict, Resting
  <2>3. FALSE \in w.seen
    BY <1>3, <1>4
  <2> QED
    BY <2>2, <2>3 DEF WalkSound, Underway
<1>5. CASE fresh # {}
  <2>1. walk'[v] = [w EXCEPT !.phase = "key", !.left = left]
    BY <1>5 DEF TryFrom
  <2>2. /\ walk'[v].phase = "key" /\ walk'[v].left = left
        /\ walk'[v].token = w.token /\ walk'[v].seen = w.seen
    BY <2>1 DEF Walk
  <2>3. PICK e \in fresh : e = Earliest(fresh) /\ \A k \in fresh : e <= k
    <3> HIDE DEF fresh
    <3> QED
      BY <1>1, <1>5, EarliestIsLeast
  <2>4. left = {k \in S : k >= e} /\ e \in left /\ left \subseteq Nat
    BY <1>1, <2>3
  <2>5. Earliest(left) = e
    <3>1. PICK a \in left : a = Earliest(left) /\ \A k \in left : a <= k
      <4> HIDE DEF left
      <4> QED
        BY <2>4, EarliestIsLeast
    <3> QED
      BY <1>1, <2>4, <3>1
  <2>6. w.token.exp /\ w.token.signer = e => TRUE \in w.seen
    <3>1. e \in secrets /\ ~Expired(e)
      BY <2>3 DEF Listed
    <3> QED
      BY <3>1 DEF VerifiableNow, Verifiable, Expired
  <2>7. FALSE \in w.seen \/ (w.token.exp /\ w.token.signer \in left)
    BY <1>1, <1>3, <2>3, <2>4
  <2>8. left # {} /\ left \subseteq 1..joined'
    BY <2>4
  <2> HIDE DEF left
  <2> QED
    BY <1>2, <2>2, <2>5, <2>6, <2>7, <2>8 DEF WalkSound, Underway
<1> QED
  BY <1>4, <1>5

(* A step that the verifications only witness.                             *)
LEMMA WitnessSound ==
    ASSUME NEW v \in Verifiers, KeysTypeOK, WalkSound(v), UNCHANGED jwks,
           walk'[v].phase = walk[v].phase, walk'[v].token = walk[v].token,
           walk'[v].seen = Witnessed(secrets', expiresAt', keyClock')[v].seen,
           \/ joined' = joined /\ walk'[v].left = walk[v].left
           \/ /\ joined' = joined + 1
              /\ \/ walk'[v].left = walk[v].left
                 \/ walk'[v].left = walk[v].left \cup {joined + 1}
    PROVE  WalkSound(v)'
<1>1. PICK t \in Token : t = walk[v].token
  BY DEF KeysTypeOK, Walk
<1>2. walk[v] \in Walk /\ joined \in Nat
  BY DEF KeysTypeOK
<1> DEFINE V == Verifiable(t, secrets', expiresAt', keyClock')
<1>3. VerifiableNow(t)' <=> V
  BY VerifiableLater
<1>4. walk'[v].seen = IF Underway(walk[v]) THEN walk[v].seen \cup {V} ELSE walk[v].seen
  BY <1>1, <1>2 DEF Witnessed, Walk
<1>5. V \in BOOLEAN /\ (V => TRUE \in {V}) /\ (~V => FALSE \in {V})
  BY <1>1, Zenon DEF Verifiable, Token
<1>6. walk[v].seen \subseteq walk'[v].seen
  BY <1>4
<1>7. Underway(walk[v]) => (V => TRUE \in walk'[v].seen) /\ (~V => FALSE \in walk'[v].seen)
  <2> HIDE DEF V
  <2> QED
    BY <1>4, <1>5
<1>8. walk[v].phase = "key" => /\ walk'[v].left # {} /\ walk'[v].left \subseteq 1..joined'
                               /\ walk[v].left \subseteq walk'[v].left
                               /\ Earliest(walk'[v].left) = Earliest(walk[v].left)
  <2> SUFFICES ASSUME walk[v].phase = "key"
               PROVE  /\ walk'[v].left # {} /\ walk'[v].left \subseteq 1..joined'
                      /\ walk[v].left \subseteq walk'[v].left
                      /\ Earliest(walk'[v].left) = Earliest(walk[v].left)
    OBVIOUS
  <2>1. PICK L : L = walk[v].left /\ L # {} /\ L \subseteq 1..joined
    BY DEF WalkSound
  <2>2. Earliest(L \cup {joined + 1}) = Earliest(L)
    BY <1>2, <2>1, EarliestStays
  <2>3. CASE joined' = joined /\ walk'[v].left = walk[v].left
    BY <2>1, <2>3
  <2>4. CASE joined' = joined + 1 /\ walk'[v].left = walk[v].left
    BY <1>2, <2>1, <2>4
  <2>5. CASE joined' = joined + 1 /\ walk'[v].left = walk[v].left \cup {joined + 1}
    <3>1. L \cup {joined + 1} \subseteq 1..joined'
      BY <1>2, <2>1, <2>5
    <3> QED
      BY <2>1, <2>2, <2>5, <3>1
  <2> QED
    BY <2>3, <2>4, <2>5
<1> HIDE DEF V
<1>9. /\ Underway(walk[v]) <=> Underway(walk[v])'
      /\ VerifiableNow(walk[v].token)' <=> V
  BY <1>1, <1>3 DEF Underway, VerifiableNow
<1> QED
  BY <1>1, <1>6, <1>7, <1>8, <1>9 DEF WalkSound

LEMMA WalkStep ==
    KeysInv /\ WalksSound /\ [KeysNext]_keysVars => WalksSound'
<1> SUFFICES ASSUME KeysInv, WalksSound, [KeysNext]_keysVars, NEW v \in Verifiers
             PROVE  WalkSound(v)'
  BY DEF WalksSound
<1>0. /\ KeysTypeOK /\ Listed /\ KeysTypeOK' /\ WalkSound(v)
      /\ walk \in [Verifiers -> Walk] /\ walk[v] \in Walk /\ joined \in Nat
      /\ secrets \subseteq 1..joined
  BY KeysTypeStep DEF KeysInv, WalksSound, KeysTypeOK
<1>1. ASSUME NEW list, NEW expiry, NEW now
      PROVE  /\ Witnessed(list, expiry, now)[v].phase = walk[v].phase
             /\ Witnessed(list, expiry, now)[v].token = walk[v].token
             /\ Witnessed(list, expiry, now)[v].left = walk[v].left
             /\ Witnessed(list, expiry, now)[v] \in Walk
  BY <1>0 DEF Witnessed, Walk, Verifiable
<1>2. ASSUME NEW c \in JWTKeyConfig, Construct(c) \/ Refuse(c) PROVE WalkSound(v)'
  BY <1>0, <1>2 DEF Construct, Refuse, Listed, WalkSound, Underway
<1>3. CASE AddKey
  <2> DEFINE W == Witnessed(secrets', expiresAt', keyClock')[v]
  <2>1. /\ UNCHANGED jwks /\ joined' = joined + 1
        /\ walk'[v] = W \/ walk'[v] = [W EXCEPT !.left = @ \cup {joined + 1}]
    BY <1>3 DEF AddKey
  <2>2. W \in Walk /\ W.left = walk[v].left
        /\ W.phase = walk[v].phase /\ W.token = walk[v].token
    BY <1>1
  <2> HIDE DEF W
  <2>3. /\ walk'[v].phase = walk[v].phase /\ walk'[v].token = walk[v].token
        /\ walk'[v].seen = W.seen
        /\ walk'[v].left = walk[v].left \/ walk'[v].left = walk[v].left \cup {joined + 1}
    BY <2>1, <2>2 DEF Walk
  <2> QED
    BY <1>0, <2>1, <2>3, WitnessSound DEF W
<1>4. CASE SignToken \/ UNCHANGED keysVars \/ DestroyManager
  <2>1. UNCHANGED <<secrets, joined, expiresAt, keyClock, walk, jwks>>
    BY <1>4 DEF SignToken, DestroyManager, keysVars, managerVars
  <2> QED
    BY <1>0, <2>1 DEF WalkSound, VerifiableNow, Verifiable, Underway
<1>5. CASE RotateKeys \/ KeyTick
  <2>1. /\ UNCHANGED <<jwks, joined>>
        /\ walk' = Witnessed(secrets', expiresAt', keyClock')
    BY <1>5 DEF RotateKeys, KeyTick
  <2>2. /\ walk'[v].phase = walk[v].phase /\ walk'[v].token = walk[v].token
        /\ walk'[v].left = walk[v].left
    BY <1>1, <2>1
  <2> QED
    BY <1>0, <2>1, <2>2, WitnessSound
<1>6. CASE CleanupExpiredKeys
  <2> DEFINE W == Witnessed(secrets', expiresAt', keyClock')[v]
  <2>1. /\ UNCHANGED <<jwks, joined>>
        /\ walk'[v] = W \/ walk'[v] = [W EXCEPT !.live = FALSE]
    BY <1>6 DEF CleanupExpiredKeys
  <2>2. W \in Walk /\ W.left = walk[v].left
        /\ W.phase = walk[v].phase /\ W.token = walk[v].token
    BY <1>1
  <2> HIDE DEF W
  <2>3. /\ walk'[v].phase = walk[v].phase /\ walk'[v].token = walk[v].token
        /\ walk'[v].seen = W.seen /\ walk'[v].left = walk[v].left
    BY <2>1, <2>2 DEF Walk
  <2> QED
    BY <1>0, <2>1, <2>3, WitnessSound DEF W
<1>7. CASE RefreshJWKS
  <2>1. /\ UNCHANGED <<secrets, joined, expiresAt, keyClock>>
        /\ jwks' # "none" <=> jwks # "none"
        /\ walk'[v] = walk[v] \/ walk'[v] = [walk[v] EXCEPT !.live = FALSE]
    BY <1>7 DEF RefreshJWKS
  <2>2. /\ walk'[v].phase = walk[v].phase /\ walk'[v].token = walk[v].token
        /\ walk'[v].left = walk[v].left /\ walk'[v].seen = walk[v].seen
    BY <1>0, <2>1 DEF Walk
  <2> QED
    BY <1>0, <2>1, <2>2 DEF WalkSound, VerifiableNow, Verifiable, Underway
<1>8. ASSUME NEW u \in Verifiers \ {v},
             \/ \E t \in Token, excluded \in BOOLEAN : Present(u, t, excluded)
             \/ \E fetched \in BOOLEAN : JwksAnswers(u, fetched)
             \/ KeyAnswers(u)
      PROVE  WalkSound(v)'
  <2>1. walk'[v] = walk[v] /\ UNCHANGED <<secrets, joined, expiresAt, keyClock>>
        /\ (jwks' # "none" <=> jwks # "none")
    BY <1>0, <1>8 DEF Present, JwksAnswers, KeyAnswers, managerVars, WalksSound, WalkSound
  <2> QED
    BY <1>0, <2>1 DEF WalkSound, VerifiableNow, Verifiable, Underway
<1>9. ASSUME NEW t \in Token, NEW excluded \in BOOLEAN, Present(v, t, excluded)
      PROVE  WalkSound(v)'
  <2> DEFINE V == Verifiable(t, secrets, expiresAt, keyClock)
             w == [Resting EXCEPT !.token = t, !.seen = {V}]
  <2>0. UNCHANGED <<secrets, joined, expiresAt, keyClock, jwks>>
    BY <1>9 DEF Present, managerVars
  <2>1. V \in BOOLEAN /\ (V => TRUE \in {V}) /\ (~V => FALSE \in {V})
    BY Zenon DEF Verifiable, Token
  <2>2. CASE excluded
    BY <1>0, <1>9, <2>2 DEF Present, Resting, WalkSound, Underway
  <2>3. CASE ~excluded /\ t = NoToken
    <3>1. ~V
      BY <2>3 DEF Verifiable, NoToken
    <3>2. walk'[v] = Verdict(w, "unauthorized")
      BY <1>0, <1>9, <2>3 DEF Present
    <3>3. walk'[v].phase = "unauthorized" /\ walk'[v].seen = {V}
      BY <3>2 DEF Verdict, Resting
    <3> QED
      BY <2>1, <3>1, <3>3 DEF WalkSound, Underway
  <2>4. CASE ~excluded /\ t # NoToken /\ jwks # "none"
    <3>1. walk'[v] = [w EXCEPT !.phase = "jwks", !.live = TRUE]
      BY <1>0, <1>9, <2>4 DEF Present
    <3>2. walk'[v].phase = "jwks" /\ walk'[v].seen = {V} /\ walk'[v].token = t
      BY <3>1 DEF Resting
    <3>3. VerifiableNow(t)' <=> V
      BY <2>0 DEF VerifiableNow, Verifiable
    <3> HIDE DEF V
    <3> QED
      BY <2>0, <2>1, <2>4, <3>2, <3>3 DEF WalkSound, Underway, VerifiableNow
  <2>5. CASE ~excluded /\ t # NoToken /\ jwks = "none"
    <3> DEFINE b == [w EXCEPT !.live = TRUE]
    <3>1. walk'[v] = TryFrom(b, secrets)
      BY <1>0, <1>9, <2>5 DEF Present, BeginWalk
    <3>2. b \in Walk /\ b.token = t /\ b.seen = {V}
      BY <2>1 DEF Resting, Walk, NoToken, Token, Stranger
    <3>3. VerifiableNow(t) <=> V
      BY DEF VerifiableNow
    <3>4. V => t.exp /\ t.signer \in secrets
      BY <2>5 DEF Verifiable
    <3> HIDE DEF V, w, b
    <3> QED
      BY <1>0, <2>0, <2>1, <3>1, <3>2, <3>3, <3>4, TryFromSound
  <2> QED
    BY <2>2, <2>3, <2>4, <2>5
<1>10. ASSUME NEW fetched \in BOOLEAN, JwksAnswers(v, fetched) PROVE WalkSound(v)'
  <2> DEFINE w == walk[v]
             s == IF w.token.signer = Remote /\ ~fetched
                  THEN [w EXCEPT !.seen = @ \cup {FALSE}] ELSE w
             b == [s EXCEPT !.live = TRUE]
  <2>1. /\ UNCHANGED <<secrets, joined, expiresAt, keyClock>> /\ w.phase = "jwks"
        /\ jwks # "none" /\ jwks' # "none"
        /\ walk'[v] = IF w.token.signer = Remote /\ w.token.exp /\ fetched
                      THEN Verdict(w, "next") ELSE BeginWalk(s)
    BY <1>0, <1>10 DEF JwksAnswers, WalkSound
  <2>2. /\ VerifiableNow(w.token) => TRUE \in w.seen
        /\ ~VerifiableNow(w.token) => FALSE \in w.seen
    BY <1>0, <2>1 DEF WalkSound, Underway
  <2>3. CASE w.token.signer = Remote /\ w.token.exp /\ fetched
    <3>1. VerifiableNow(w.token)
      BY <2>1, <2>3 DEF VerifiableNow, Verifiable
    <3>2. walk'[v].phase = "next" /\ walk'[v].seen = w.seen
      BY <2>1, <2>3 DEF Verdict, Resting
    <3> QED
      BY <2>2, <3>1, <3>2 DEF WalkSound, Underway
  <2>4. CASE ~(w.token.signer = Remote /\ w.token.exp /\ fetched)
    <3>1. walk'[v] = TryFrom(b, secrets)
      BY <2>1, <2>4 DEF BeginWalk
    <3>2. b \in Walk /\ b.token = w.token /\ w.seen \subseteq b.seen
          /\ (w.token.signer = Remote /\ ~fetched => FALSE \in b.seen)
      BY <1>0 DEF Walk
    <3>3. VerifiableNow(w.token) => /\ w.token.exp
                                    /\ w.token.signer \in secrets \/ w.token.signer = Remote
      BY DEF VerifiableNow, Verifiable
    <3>4. FALSE \in b.seen \/ (w.token.exp /\ w.token.signer \in secrets)
      BY <2>2, <2>4, <3>2, <3>3
    <3> HIDE DEF w, s, b
    <3> QED
      BY <1>0, <2>1, <2>2, <3>1, <3>2, <3>4, TryFromSound
  <2> QED
    BY <2>3, <2>4
<1>11. CASE KeyAnswers(v)
  <2> DEFINE w == walk[v]
  <2>1. PICK k : k = Earliest(w.left)
    OBVIOUS
  <2>2. /\ UNCHANGED <<secrets, joined, expiresAt, keyClock, jwks>> /\ w.phase = "key"
        /\ walk'[v] = IF w.token.signer = k /\ w.token.exp
                      THEN Verdict(w, "next") ELSE TryFrom(w, w.left \ {k})
    BY <1>0, <1>11, <2>1 DEF KeyAnswers, managerVars
  <2>3. /\ VerifiableNow(w.token) => TRUE \in w.seen
        /\ ~VerifiableNow(w.token) => FALSE \in w.seen
        /\ w.left \subseteq 1..joined
        /\ FALSE \in w.seen \/ (w.token.exp /\ w.token.signer \in w.left)
        /\ w.token.exp /\ w.token.signer = k => TRUE \in w.seen
    BY <1>0, <2>1, <2>2 DEF WalkSound, Underway
  <2>4. CASE w.token.signer = k /\ w.token.exp
    <3>1. walk'[v].phase = "next" /\ walk'[v].seen = w.seen
      BY <2>2, <2>4 DEF Verdict, Resting
    <3> QED
      BY <2>3, <2>4, <3>1 DEF WalkSound, Underway
  <2>5. CASE ~(w.token.signer = k /\ w.token.exp)
    <3>1. walk'[v] = TryFrom(w, w.left \ {k}) /\ w \in Walk
      BY <1>0, <2>2, <2>5
    <3>2. FALSE \in w.seen \/ (w.token.exp /\ w.token.signer \in w.left \ {k})
      BY <2>3, <2>5
    <3>3. w.left \ {k} \subseteq 1..joined
      BY <2>3
    <3> HIDE DEF w
    <3> QED
      BY <1>0, <2>2, <2>3, <3>1, <3>2, <3>3, TryFromSound
  <2> QED
    BY <2>4, <2>5
<1> QED
  BY <1>2, <1>3, <1>4, <1>5, <1>6, <1>7, <1>8, <1>9, <1>10, <1>11 DEF KeysNext

LEMMA KeysInvariant == KeysSpec => [](KeysInv /\ WalksSound)
<1>1. KeysInit => KeysInv /\ WalksSound
  <2> SUFFICES ASSUME KeysInit PROVE KeysInv /\ WalksSound
    OBVIOUS
  <2>1. KeysTypeOK
    <3>1. Resting \in Walk
      BY DEF Resting, Walk, Token, NoToken, Stranger
    <3>2. 0 \in 0..KeyBound
      OBVIOUS
    <3>3. walk \in [Verifiers -> Walk]
      BY <3>1 DEF KeysInit
    <3>4. expiresAt \in [Keys -> Nat] /\ signedAt \in [Keys -> Nat]
      BY DEF KeysInit
    <3>5. /\ secrets \subseteq 1..joined /\ joined \in 0..KeyBound
          /\ keyClock \in Nat \ {0}
      BY <3>2 DEF KeysInit
    <3>6. /\ manager = "new" /\ jwks = "none" /\ refreshing \in BOOLEAN
          /\ undercut \in BOOLEAN /\ primary = {} /\ deprecated = {}
      BY DEF KeysInit
    <3> QED
      BY <3>3, <3>4, <3>5, <3>6 DEF KeysTypeOK
  <2>2. Listed /\ Signed
    BY DEF KeysInit, Listed, Signed, Resting
  <2>3. WalksSound
    BY DEF KeysInit, WalksSound, WalkSound, Underway, Resting
  <2> QED
    BY <2>1, <2>2, <2>3 DEF KeysInv
<1>2. KeysInv /\ WalksSound /\ [KeysNext]_keysVars => (KeysInv /\ WalksSound)'
  BY KeysInvStep, WalkStep
<1> QED
  BY <1>1, <1>2, PTL DEF KeysSpec

-----------------------------------------------------------------------------
(* The types of the variables.                                             *)
THEOREM KeysTypes == KeysSpec => []KeysTypeOK
BY KeysInvariant, PTL DEF KeysInv

(* Concurrent verification is linearizable while keys are added, rotated,  *)
(* expire and are removed: no token that was never verifiable is let       *)
(* through, and none that always was is turned away.                       *)
THEOREM VerdictSoundHolds == KeysSpec => []VerdictSound
<1>1. WalksSound => VerdictSound
  BY DEF WalksSound, WalkSound, VerdictSound
<1> QED
  BY <1>1, KeysInvariant, PTL

(* Rotation honours the grace period while it leaves a primary key.        *)
THEOREM GraceHonouredHolds == KeysSpec => []GraceHonoured
<1>1. KeysInv => GraceHonoured
  <2> SUFFICES ASSUME KeysInv, ~undercut, NEW k \in Keys, signedAt[k] # 0,
                      keyClock <= signedAt[k] + GracePeriod
               PROVE  k \in secrets /\ ~Expired(k)
    BY DEF GraceHonoured
  <2>1. /\ joined \in Nat /\ k \in Nat /\ k >= 1 /\ expiresAt[k] \in Nat
        /\ signedAt[k] \in Nat /\ keyClock \in Nat
    BY DEF KeysInv, KeysTypeOK, Keys
  <2>2. k \in 1..joined
    BY <2>1 DEF KeysInv, Listed
  <2>3. ~Expired(k)
    BY <2>1 DEF KeysInv, Signed, Expired, ExpiredAt
  <2> QED
    BY <2>2, <2>3 DEF KeysInv, Listed
<1> QED
  BY <1>1, KeysInvariant, PTL

=============================================================================
