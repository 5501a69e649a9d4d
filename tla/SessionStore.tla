---------------------------- MODULE SessionStore ----------------------------
(***************************************************************************)
(* What src/src/security/session-manager.ts promises its callers: a store  *)
(* of sessions in which none outlives its time to live.  A session leaves  *)
(* the store at the moment it expires, and its id is never in use again,   *)
(* unless a refresh or a rotation holds it then: that has found the        *)
(* session alive and gives it a new expiry before anything else happens.   *)
(***************************************************************************)
EXTENDS Integers

CONSTANTS
    SessionIds,     \* the ids that may ever be generated
    Targets,        \* the values of targetUrl
    SessionTtl      \* config.ttl

NoSession == [target |-> "none", expiresAt |-> 0]
NoId      == "none"

VARIABLES
    store,     \* the session under each id, or NoSession
    used,      \* the ids that have been generated
    retired,   \* the ids that another has replaced
    held,      \* the id of the session that a refresh or a rotation holds
    answer,    \* the id of the session last returned, or NoId
    sessClock  \* Date.now()

storeVars == <<store, used, retired, held, answer, sessClock>>

Lasting(u) == [target |-> u, expiresAt |-> sessClock + SessionTtl]

StoreInit ==
    /\ store = [i \in SessionIds |-> NoSession]
    /\ used = {} /\ retired = {} /\ held = NoId /\ answer = NoId /\ sessClock = 1

StoreCreate(i, u) ==
    /\ held = NoId /\ i \notin used
    /\ store' = [store EXCEPT ![i] = Lasting(u)]
    /\ used' = used \cup {i} /\ answer' = i
    /\ UNCHANGED <<retired, held, sessClock>>

StoreGet(i) ==
    /\ held = NoId
    /\ answer' = IF store[i] = NoSession THEN NoId ELSE i
    /\ UNCHANGED <<store, used, retired, held, sessClock>>

(* Only a session that is in the store can be held.                        *)
StoreHold(i) ==
    /\ held = NoId /\ store[i] # NoSession
    /\ held' = i
    /\ UNCHANGED <<store, used, retired, answer, sessClock>>

StoreRenew(i) ==
    /\ held = i
    /\ store' = [store EXCEPT ![i] = Lasting(@.target)]
    /\ answer' = i /\ held' = NoId
    /\ UNCHANGED <<used, retired, sessClock>>

(* The session goes on under a new id only.                                *)
StoreRotate(i, j) ==
    /\ held = i /\ j \notin used
    /\ store' = [store EXCEPT ![i] = NoSession, ![j] = Lasting(store[i].target)]
    /\ used' = used \cup {j} /\ retired' = retired \cup {i}
    /\ answer' = j /\ held' = NoId
    /\ UNCHANGED sessClock

StoreDelete(i) ==
    /\ held = NoId
    /\ store' = [store EXCEPT ![i] = NoSession]
    /\ answer' = NoId
    /\ UNCHANGED <<used, retired, held, sessClock>>

StoreClear ==
    /\ held = NoId
    /\ store' = [i \in SessionIds |-> NoSession]
    /\ answer' = NoId
    /\ UNCHANGED <<used, retired, held, sessClock>>

StoreTick ==
    /\ sessClock' = sessClock + 1
    /\ store' = [i \in SessionIds |->
           IF sessClock' > store[i].expiresAt /\ i # held THEN NoSession ELSE store[i]]
    /\ UNCHANGED <<used, retired, held, answer>>

StoreNext ==
    \/ \E i \in SessionIds :
          \/ StoreGet(i) \/ StoreHold(i) \/ StoreRenew(i) \/ StoreDelete(i)
          \/ \E u \in Targets : StoreCreate(i, u)
          \/ \E j \in SessionIds \ {i} : StoreRotate(i, j)
    \/ StoreClear \/ StoreTick

StoreSpec == StoreInit /\ [][StoreNext]_storeVars

=============================================================================
