--------------------------- MODULE SessionManager ---------------------------
(***************************************************************************)
(* The session map of src/src/security/session-manager.ts, whose expiry is *)
(* lazy: an expired session stays in the map until somebody looks it up or *)
(* the cleanup runs.  An operation that tests the expiry of a session and  *)
(* then gives it a new one reads the clock anew for each, so the model     *)
(* takes it one reading at a time: refreshSession and rotateSessionId have *)
(* two, getOrCreateSession up to three.                                    *)
(***************************************************************************)
EXTENDS Integers

CONSTANTS
    SessionIds,     \* the ids that generateSessionId may make
    Targets,        \* the values of targetUrl
    SessionTtl,     \* config.ttl
    SessClockBound  \* bound on the clock

ASSUME SessionAssumption ==
    /\ SessionTtl \in Nat \ {0} /\ SessClockBound \in Nat
    /\ "none" \notin SessionIds /\ "none" \notin Targets

NoSession == [target |-> "none", expiresAt |-> 0]
NoId      == "none"

VARIABLES
    sessions,   \* the Map: the Session under each id, or NoSession
    used,       \* the ids that have been generated
    retired,    \* the ids that rotateSessionId has replaced
    pending,    \* the operation under way: its id, and what it does next
    answer,     \* the id of the session last returned, or NoId for null
    sessClock   \* Date.now()

sessVars == <<sessions, used, retired, pending, answer, sessClock>>

UserSession == [target : Targets, expiresAt : Nat]

(* After a reading of the clock an operation goes on to test the expiry of *)
(* its session once more, to renew it, to give it another id, or to create *)
(* one in place of the session it did not find.                            *)
Goes(i, then) == [id |-> i, then |-> then]
NoPending     == Goes(NoId, "nothing")

SessionsInit ==
    /\ sessions = [i \in SessionIds |-> NoSession]
    /\ used = {} /\ retired = {} /\ pending = NoPending /\ answer = NoId
    /\ sessClock = 1

(* Mutant: only the absence of a session is tested.                        *)
GetSessionPresent(i) == sessions[i] # NoSession

(* getSession(i) finds a session, and has not deleted it as expired.       *)
GetSession(i) == /\ sessions[i] # NoSession
                 /\ ~(sessClock > sessions[i].expiresAt)

Renewed(u) == [target |-> u, expiresAt |-> sessClock + SessionTtl]

Without(i) == [sessions EXCEPT ![i] = NoSession]

-----------------------------------------------------------------------------
(* JavaScript runs an operation to its end: while one is under way only    *)
(* the clock and the operation itself move.                                *)
Calls == pending = NoPending

(* The id of a new session is random, so it is one never generated before. *)
CreateSession(i, u) ==
    /\ Calls \/ pending.then = "create"
    /\ i \notin used
    /\ sessions' = [sessions EXCEPT ![i] = Renewed(u)]
    /\ used' = used \cup {i} /\ answer' = i /\ pending' = NoPending
    /\ UNCHANGED <<retired, sessClock>>

LookUp(i) ==
    /\ Calls
    /\ sessions' = IF GetSession(i) THEN sessions ELSE Without(i)
    /\ answer' = IF GetSession(i) THEN i ELSE NoId
    /\ UNCHANGED <<used, retired, pending, sessClock>>

DeleteSession(i) ==
    /\ Calls
    /\ sessions' = Without(i) /\ answer' = NoId
    /\ UNCHANGED <<used, retired, pending, sessClock>>

(* An operation has found the session that it will give a new expiry; one  *)
(* that finds none returns false or null.                                  *)
FindTo(i, then) ==
    /\ Calls
    /\ \/ /\ GetSession(i) /\ pending' = Goes(i, then)
          /\ UNCHANGED <<sessions, answer>>
       \/ /\ ~GetSession(i) /\ sessions' = Without(i) /\ answer' = NoId
          /\ UNCHANGED pending
    /\ UNCHANGED <<used, retired, sessClock>>

RefreshSession(i)  == FindTo(i, "renew")
RotateSessionId(i) == FindTo(i, "rotate")

(* refreshSession writes the new expiry, even if the old one is past now.  *)
Renew ==
    /\ pending.then = "renew"
    /\ sessions' = [sessions EXCEPT ![pending.id] = Renewed(@.target)]
    /\ answer' = pending.id /\ pending' = NoPending
    /\ UNCHANGED <<used, retired, sessClock>>

(* Mutant: the session stays under its old id too.                         *)
RotatedKeepsOld(i, j) == [sessions EXCEPT ![j] = Renewed(sessions[i].target)]

Rotated(i, j) == [Without(i) EXCEPT ![j] = Renewed(sessions[i].target)]

(* rotateSessionId sets the session under its new id, with a new expiry.   *)
Rotate(j) ==
    /\ pending.then = "rotate" /\ j \notin used
    /\ sessions' = Rotated(pending.id, j)
    /\ used' = used \cup {j} /\ retired' = retired \cup {pending.id}
    /\ answer' = j /\ pending' = NoPending
    /\ UNCHANGED sessClock

(* getOrCreateSession: the cookie names a session that is found, which it  *)
(* then refreshes, and returns even if it has expired in between; or one   *)
(* that is gone, in whose place it creates another; or none, or it is      *)
(* malformed (CreateSession).                                              *)
FindForRequest(i) ==
    /\ Calls
    /\ \/ /\ GetSession(i) /\ pending' = Goes(i, "check") /\ answer' = i
          /\ UNCHANGED sessions
       \/ /\ ~GetSession(i) /\ pending' = Goes(NoId, "create") /\ sessions' = Without(i)
          /\ UNCHANGED answer
    /\ UNCHANGED <<used, retired, sessClock>>

RefreshForRequest ==
    /\ pending.then = "check"
    /\ \/ /\ GetSession(pending.id) /\ pending' = Goes(pending.id, "renew")
          /\ UNCHANGED sessions
       \/ /\ ~GetSession(pending.id) /\ pending' = NoPending
          /\ sessions' = Without(pending.id)
    /\ UNCHANGED <<used, retired, answer, sessClock>>

CleanupExpiredSessions ==
    /\ Calls
    /\ sessions' = [i \in SessionIds |->
           IF GetSession(i) THEN sessions[i] ELSE NoSession]
    /\ UNCHANGED <<used, retired, pending, answer, sessClock>>

DestroySessions ==
    /\ Calls
    /\ sessions' = [i \in SessionIds |-> NoSession] /\ answer' = NoId
    /\ UNCHANGED <<used, retired, pending, sessClock>>

SessTick ==
    /\ sessClock < SessClockBound
    /\ sessClock' = sessClock + 1
    /\ UNCHANGED <<sessions, used, retired, pending, answer>>

SessionsNext ==
    \/ \E i \in SessionIds :
          \/ LookUp(i) \/ DeleteSession(i) \/ Rotate(i)
          \/ RefreshSession(i) \/ RotateSessionId(i) \/ FindForRequest(i)
          \/ \E u \in Targets : CreateSession(i, u)
    \/ Renew \/ RefreshForRequest \/ CleanupExpiredSessions \/ DestroySessions
    \/ SessTick

SessionsSpec == SessionsInit /\ [][SessionsNext]_sessVars

-----------------------------------------------------------------------------
(* The types of the variables; only generated ids are in the map.          *)
SessionsTypeOK ==
    /\ sessions \in [SessionIds -> UserSession \cup {NoSession}]
    /\ used \subseteq SessionIds /\ retired \subseteq used
    /\ \A i \in SessionIds \ used : sessions[i] = NoSession
    /\ \/ pending \in {NoPending, Goes(NoId, "create")}
       \/ pending \in [id : used, then : {"check", "renew", "rotate"}]
    /\ answer \in used \cup {NoId}
    /\ sessClock \in Nat \ {0}

(* The session that an operation has found alive and will give a new       *)
(* expiry: it is not gone before that, however late it comes.              *)
Held == IF pending.then \in {"renew", "rotate"} THEN pending.id ELSE NoId

(* The promise: with every expiry enforced lazily, by whichever operation  *)
(* meets the session first, the callers see a store that drops a session   *)
(* the moment it expires, but for one that an operation holds, and never   *)
(* takes an id back (SessionManager).                                      *)
LiveSessions == [i \in SessionIds |->
                    IF GetSession(i) \/ i = Held THEN sessions[i] ELSE NoSession]

Store == INSTANCE SessionStore WITH store <- LiveSessions, held <- Held
ImplementsStore == Store!StoreSpec

=============================================================================
