------------------------ MODULE ClusterManagerProofs ------------------------
(***************************************************************************)
(* Theorems about ClusterManager, for every number of workers, handles,    *)
(* rolling restarts and for every choice of environment events.            *)
(***************************************************************************)
EXTENDS ClusterManager, FiniteSetTheorems, TLAPS

(* The inductive invariant about the registry: what the Map, the pending   *)
(* restarts, the handles and the ids have to do with one another.          *)
Reaping  == \A h \in pending : proc[h] = "reaped"
Attempts == \A h \in Handles : proc[h] = "none" <=> h > spawned
IdsTaken == \A h \in workers \cup pending : info[h].id \in 1..(nextWorkerId - 1)
Registry == RegistryIsExact /\ OneProcessPerId /\ Reaping /\ Attempts /\ IdsTaken

RegInv == TypeOK /\ Registry

-----------------------------------------------------------------------------
LEMMA HandleType == \A h \in Handles : h \in Nat /\ h >= 1 /\ h <= MaxSpawns
  BY ClusterAssumption DEF Handles

LEMMA FiniteMap == ASSUME TypeOK PROVE Cardinality(workers) \in Nat
<1>1. IsFiniteSet(Handles)
  BY ClusterAssumption, FS_Interval DEF Handles
<1>2. IsFiniteSet(workers)
  BY <1>1, FS_Subset DEF TypeOK
<1> QED BY <1>2, FS_CardinalityType

LEMMA NewInfoType ==
  ASSUME NEW id \in Ids
  PROVE  /\ NewWorkerInfo(id) \in WorkerInfo
         /\ NewWorkerInfo(id).id = id
         /\ NewWorkerInfo(id).isExiting = FALSE
  BY DEF NewWorkerInfo, Blank, WorkerInfo

(* Calls of spawnWorker keep the types.                                    *)
LEMMA SpawnType ==
  ASSUME TypeOK, NEW ids, NEW failed \in SUBSET DOMAIN ids,
         \A h \in DOMAIN ids : ids[h] \in Ids,
         SpawnWorkers(ids, failed)
  PROVE  /\ workers' \in SUBSET Handles
         /\ info' \in [Handles -> WorkerInfo]
         /\ proc' \in [Handles -> ProcStates]
<1>1. workers' \in SUBSET Handles
  BY DEF TypeOK, SpawnWorkers
<1>2. info' \in [Handles -> WorkerInfo]
  BY NewInfoType DEF TypeOK, SpawnWorkers
<1>3. proc' \in [Handles -> ProcStates]
  BY DEF TypeOK, SpawnWorkers, ProcStates
<1> QED BY <1>1, <1>2, <1>3

(* Calls of spawnWorker keep the registry exact, provided they take the    *)
(* next handles and ids that nothing else uses.                            *)
LEMMA SpawnRegistry ==
  ASSUME RegInv, NEW n \in Nat, NEW ids, NEW failed \in SUBSET DOMAIN ids,
         DOMAIN ids = (spawned + 1)..(spawned + n),
         SpawnWorkers(ids, failed),
         pending' \subseteq pending,
         spawned' = spawned + n,
         nextWorkerId' \in Nat, nextWorkerId' >= nextWorkerId,
         \A h \in DOMAIN ids : ids[h] \in Ids /\ ids[h] < nextWorkerId',
         \A g, h \in DOMAIN ids : ids[g] = ids[h] => g = h,
         \A h \in DOMAIN ids, w \in workers \cup pending' : info[w].id # ids[h]
  PROVE  Registry'
<1> DEFINE batch == DOMAIN ids
           up == batch \ failed
<1>1. /\ spawned \in Nat /\ nextWorkerId \in Nat
      /\ workers \subseteq Handles /\ pending \subseteq Handles
      /\ batch \subseteq Handles
  BY DEF RegInv, TypeOK, SpawnWorkers
<1>2. workers' = workers \cup up
  BY DEF SpawnWorkers
<1>3. \A h \in Handles : proc[h] = "none" <=> h > spawned
  BY DEF RegInv, Registry, Attempts
<1>4. \A h \in workers \cup pending : h \notin batch
  <2>1. \A h \in workers \cup pending : proc[h] # "none"
    BY <1>1 DEF RegInv, Registry, RegistryIsExact, Unreaped, Reaping
  <2> QED BY <2>1, <1>1, <1>3, HandleType
<1>5. /\ \A h \in Handles \ batch : info'[h] = info[h] /\ proc'[h] = proc[h]
      /\ \A h \in batch : info'[h].id = ids[h]
      /\ \A h \in up : proc'[h] = "running"
      /\ \A h \in failed : proc'[h] = "failed"
  BY <1>1, NewInfoType DEF SpawnWorkers
<1>6. RegistryIsExact'
  <2>1. workers = Unreaped
    BY DEF RegInv, Registry, RegistryIsExact
  <2>2. \A h \in Handles : h \in workers' <=> h \in Unreaped'
    BY <1>1, <1>2, <1>3, <1>4, <1>5, <2>1, HandleType DEF Unreaped
  <2>3. workers' \subseteq Handles /\ Unreaped' \subseteq Handles
    BY <1>1, <1>2 DEF Unreaped
  <2> QED BY <2>2, <2>3 DEF RegistryIsExact
<1>7. OneProcessPerId'
  <2> SUFFICES ASSUME NEW g \in workers' \cup pending',
                      NEW h \in workers' \cup pending', info'[g].id = info'[h].id
               PROVE  g = h
    BY DEF OneProcessPerId
  <2>1. CASE g \in up /\ h \in up
    BY <2>1, <1>5
  <2>2. CASE g \in up /\ h \notin up
    BY <2>2, <1>1, <1>2, <1>4, <1>5
  <2>3. CASE g \notin up /\ h \in up
    BY <2>3, <1>1, <1>2, <1>4, <1>5
  <2>4. CASE g \notin up /\ h \notin up
    <3>1. g \in workers \cup pending /\ h \in workers \cup pending
      BY <2>4, <1>2
    <3>2. info'[g] = info[g] /\ info'[h] = info[h]
      BY <3>1, <1>1, <1>4, <1>5
    <3> QED BY <3>1, <3>2 DEF RegInv, Registry, OneProcessPerId
  <2> QED BY <2>1, <2>2, <2>3, <2>4
<1>8. Reaping'
  BY <1>1, <1>4, <1>5 DEF RegInv, Registry, Reaping
<1>9. Attempts'
  <2> SUFFICES ASSUME NEW h \in Handles
               PROVE  proc'[h] = "none" <=> h > spawned'
    BY DEF Attempts
  <2>1. CASE h \in batch
    BY <2>1, <1>1, <1>5, HandleType
  <2>2. CASE h \notin batch
    BY <2>2, <1>1, <1>3, <1>5, HandleType
  <2> QED BY <2>1, <2>2
<1>10. IdsTaken'
  <2> SUFFICES ASSUME NEW h \in workers' \cup pending'
               PROVE  info'[h].id \in 1..(nextWorkerId' - 1)
    BY DEF IdsTaken
  <2>1. CASE h \in up
    BY <2>1, <1>1, <1>5 DEF Ids
  <2>2. CASE h \notin up
    <3>1. h \in workers \cup pending /\ info'[h] = info[h]
      BY <2>2, <1>1, <1>2, <1>4, <1>5
    <3> QED BY <3>1, <1>1 DEF RegInv, Registry, IdsTaken
  <2> QED BY <2>1, <2>2
<1> QED BY <1>6, <1>7, <1>8, <1>9, <1>10 DEF Registry

(* The two ways the master spawns: n workers under new ids ...             *)
LEMMA FreshIds ==
  ASSUME RegInv, NEW n \in Nat \ {0}, SpawnFresh(n), pending' = pending
  PROVE  /\ workers' \in SUBSET Handles
         /\ info' \in [Handles -> WorkerInfo]
         /\ proc' \in [Handles -> ProcStates]
         /\ spawned' \in 0..MaxSpawns
         /\ nextWorkerId' \in 1..(spawned' + 1)
         /\ Registry'
<1> DEFINE batch == (spawned + 1)..(spawned + n)
           ids == [h \in batch |-> nextWorkerId + (h - spawned - 1)]
<1>1. PICK failed \in SUBSET batch : SpawnWorkers(ids, failed)
  BY DEF SpawnFresh
<1>2. /\ spawned \in Nat /\ nextWorkerId \in Nat /\ nextWorkerId >= 1
      /\ nextWorkerId <= spawned + 1
      /\ spawned' = spawned + n /\ nextWorkerId' = nextWorkerId + n
      /\ TypeOK
  BY DEF RegInv, TypeOK, SpawnFresh
<1>3. DOMAIN ids = batch /\ batch \subseteq Handles
  BY <1>1 DEF SpawnWorkers
<1>4. spawned + n \in batch
  BY <1>2
<1>5. spawned' \in 0..MaxSpawns /\ nextWorkerId' \in 1..(spawned' + 1)
  BY <1>2, <1>3, <1>4, HandleType
<1>6. \A h \in batch : ids[h] \in Ids /\ ids[h] >= nextWorkerId
                       /\ ids[h] < nextWorkerId'
  <2> TAKE h \in batch
  <2>1. h \in Nat /\ h >= spawned + 1 /\ h <= spawned + n /\ h <= MaxSpawns
    BY <1>2, <1>3, HandleType
  <2> QED BY <2>1, <1>2, ClusterAssumption DEF Ids
<1>7. \A g, h \in batch : ids[g] = ids[h] => g = h
  BY <1>2
<1>8. \A h \in batch, w \in workers \cup pending' : info[w].id # ids[h]
  <2>1. \A w \in workers \cup pending : info[w].id \in 1..(nextWorkerId - 1)
    BY DEF RegInv, Registry, IdsTaken
  <2> QED BY <2>1, <1>2, <1>6, ClusterAssumption DEF Ids
<1>9. Registry'
  <2>1. n \in Nat /\ nextWorkerId' \in Nat /\ nextWorkerId' >= nextWorkerId
        /\ pending' \subseteq pending
    BY <1>2
  <2>2. \A h \in DOMAIN ids : ids[h] \in Ids /\ ids[h] < nextWorkerId'
    BY <1>3, <1>6
  <2>3. \A g, h \in DOMAIN ids : ids[g] = ids[h] => g = h
    BY <1>3, <1>7
  <2>4. \A h \in DOMAIN ids, w \in workers \cup pending' : info[w].id # ids[h]
    BY <1>3, <1>8
  <2>5. failed \in SUBSET DOMAIN ids /\ DOMAIN ids = (spawned + 1)..(spawned + n)
    BY <1>3
  <2>6. spawned' = spawned + n
    BY <1>2
  <2> HIDE DEF ids
  <2> QED BY <1>1, <2>1, <2>2, <2>3, <2>4, <2>5, <2>6, SpawnRegistry
<1> HIDE DEF ids
<1> QED BY <1>1, <1>2, <1>3, <1>5, <1>6, <1>9, SpawnType

(* ... and one worker under the id of a pending restart.                   *)
LEMMA OldId ==
  ASSUME RegInv, NEW h \in Handles, Respawn(h)
  PROVE  /\ workers' \in SUBSET Handles
         /\ info' \in [Handles -> WorkerInfo]
         /\ proc' \in [Handles -> ProcStates]
         /\ spawned' \in 0..MaxSpawns
         /\ nextWorkerId' \in 1..(spawned' + 1)
         /\ Registry'
<1> DEFINE ids == [n \in {spawned + 1} |-> info[h].id]
<1>1. PICK failed \in SUBSET {spawned + 1} : SpawnWorkers(ids, failed)
  BY DEF Respawn
<1>2. /\ TypeOK /\ spawned \in Nat /\ nextWorkerId \in Nat
      /\ h \in pending /\ pending' = pending \ {h}
      /\ spawned' = spawned + 1 /\ nextWorkerId' = nextWorkerId
  BY DEF RegInv, TypeOK, Respawn
<1>3. DOMAIN ids = {spawned + 1} /\ spawned + 1 \in Handles
  BY <1>1 DEF SpawnWorkers
<1>4. {spawned + 1} = (spawned + 1)..(spawned + 1)
  BY <1>2
<1>5. info[h].id \in Ids /\ info[h].id < nextWorkerId
  <2>1. info[h].id \in 1..(nextWorkerId - 1)
    BY <1>2 DEF RegInv, Registry, IdsTaken
  <2>2. info[h].id \in Ids \cup {0}
    BY <1>2 DEF TypeOK, WorkerInfo
  <2> QED BY <2>1, <2>2, <1>2
<1>6. \A w \in workers \cup pending' : info[w].id # info[h].id
  <2>1. h \notin workers
    BY <1>2 DEF RegInv, Registry, RegistryIsExact, Unreaped, Reaping
  <2> QED BY <2>1, <1>2 DEF RegInv, Registry, OneProcessPerId
<1>7. spawned' \in 0..MaxSpawns /\ nextWorkerId' \in 1..(spawned' + 1)
  BY <1>2, <1>3, HandleType DEF TypeOK
<1>8. \A n \in DOMAIN ids : ids[n] = info[h].id
  OBVIOUS
<1>9. Registry'
  <2>1. 1 \in Nat /\ nextWorkerId' \in Nat /\ nextWorkerId' >= nextWorkerId
        /\ pending' \subseteq pending
    BY <1>2
  <2>2. \A n \in DOMAIN ids : ids[n] \in Ids /\ ids[n] < nextWorkerId'
    BY <1>2, <1>5, <1>8
  <2>3. \A g, n \in DOMAIN ids : ids[g] = ids[n] => g = n
    BY <1>3
  <2>4. \A n \in DOMAIN ids, w \in workers \cup pending' : info[w].id # ids[n]
    BY <1>6, <1>8
  <2>5. failed \in SUBSET DOMAIN ids /\ DOMAIN ids = (spawned + 1)..(spawned + 1)
    BY <1>3, <1>4
  <2>6. spawned' = spawned + 1
    BY <1>2
  <2> HIDE DEF ids
  <2> QED BY <1>1, <2>1, <2>2, <2>3, <2>4, <2>5, <2>6, SpawnRegistry
<1> HIDE DEF ids
<1> QED BY <1>1, <1>2, <1>3, <1>5, <1>7, <1>8, <1>9, SpawnType

(* Signals and process ends: nothing of the registry moves, and a process  *)
(* that has not been reaped stays that way.                                *)
LEMMA SignalRegistry ==
  ASSUME RegInv,
         UNCHANGED <<workers, pending, spawned, nextWorkerId>>,
         \A h \in Handles : info'[h].id = info[h].id,
         \A h \in Handles : \/ proc'[h] = proc[h]
                            \/ /\ proc[h] \in {"running", "terminating", "killed", "exited"}
                               /\ proc'[h] \in {"running", "terminating", "killed", "exited"}
  PROVE  Registry'
<1>1. /\ workers \subseteq Handles /\ pending \subseteq Handles
      /\ Registry
  BY DEF RegInv, TypeOK
<1>2. RegistryIsExact'
  BY <1>1 DEF Registry, RegistryIsExact, Unreaped
<1>3. OneProcessPerId' /\ IdsTaken'
  BY <1>1 DEF Registry, OneProcessPerId, IdsTaken
<1>4. Reaping' /\ Attempts'
  BY <1>1 DEF Registry, Reaping, Attempts
<1> QED BY <1>2, <1>3, <1>4 DEF Registry

LEMMA SignalTypes ==
  ASSUME TypeOK, NEW S
  PROVE  /\ Terminate(S) \in [Handles -> ProcStates]
         /\ Kill(S) \in [Handles -> ProcStates]
         /\ MarkExiting(S) \in [Handles -> WorkerInfo]
         /\ \A h \in Handles :
               /\ MarkExiting(S)[h].id = info[h].id
               /\ \/ Terminate(S)[h] = proc[h]
                  \/ proc[h] = "running" /\ Terminate(S)[h] = "terminating"
               /\ \/ Kill(S)[h] = proc[h]
                  \/ /\ proc[h] \in {"running", "terminating", "killed"}
                     /\ Kill(S)[h] = "killed"
  BY DEF TypeOK, Terminate, Kill, MarkExiting, ProcStates, WorkerInfo, Live

(* A turn of the rolling restart's loop: a spawn, or nothing.              *)
LEMMA RollLoopStep ==
  ASSUME RegInv, NEW r \in Rolls, NEW queue \in SUBSET Handles,
         NEW upTo \in 0..MaxSpawns, RollLoop(r, queue, upTo), pending' = pending
  PROVE  /\ workers' \in SUBSET Handles
         /\ info' \in [Handles -> WorkerInfo]
         /\ proc' \in [Handles -> ProcStates]
         /\ spawned' \in 0..MaxSpawns
         /\ nextWorkerId' \in 1..(spawned' + 1)
         /\ rolls' \in [Rolls -> Roll]
         /\ Registry'
<1> DEFINE todo == {q \in queue : \E w \in workers : info[w].id = info[q].id}
<1>1. CASE UNCHANGED procVars
           /\ rolls' = [rolls EXCEPT ![r] = [phase |-> "done", queue |-> {},
                                             current |-> 0, upTo |-> upTo]]
  <2>1. UNCHANGED <<workers, info, proc, pending, spawned, nextWorkerId>>
    BY <1>1 DEF procVars
  <2>2. Registry'
    BY <2>1, SignalRegistry
  <2>3. rolls' \in [Rolls -> Roll]
    BY <1>1 DEF RegInv, TypeOK, Roll
  <2> QED BY <2>1, <2>2, <2>3 DEF RegInv, TypeOK
<1>2. CASE \E q \in todo, w \in workers :
              /\ rolls' = [rolls EXCEPT ![r] =
                    [phase |-> "settling", queue |-> {x \in queue : x > q},
                     current |-> w, upTo |-> upTo]]
              /\ SpawnFresh(1)
  <2>1. rolls' \in [Rolls -> Roll]
    BY <1>2 DEF RegInv, TypeOK, Roll
  <2>2. 1 \in Nat \ {0} /\ SpawnFresh(1)
    BY <1>2
  <2> QED BY <2>1, <2>2, FreshIds
<1> QED BY <1>1, <1>2 DEF RollLoop

LEMMA RegInit == Init => RegInv
<1> SUFFICES ASSUME Init PROVE RegInv
  OBVIOUS
<1>1. TypeOK
  <2>1. info \in [Handles -> WorkerInfo]
    BY DEF Init, WorkerInfo, Blank
  <2>2. proc \in [Handles -> ProcStates]
    BY DEF Init, ProcStates
  <2>3. rolls \in [Rolls -> Roll]
    BY ClusterAssumption DEF Init, Roll
  <2>4. spawned \in 0..MaxSpawns /\ nextWorkerId \in 1..(spawned + 1)
    BY ClusterAssumption DEF Init
  <2> QED BY <2>1, <2>2, <2>3, <2>4, ClusterAssumption DEF Init, TypeOK
<1>2. Registry
  BY <1>1, HandleType DEF Init, Registry, RegistryIsExact, OneProcessPerId, Reaping,
     Attempts, IdsTaken, Unreaped
<1> QED BY <1>1, <1>2 DEF RegInv

LEMMA RegStep == RegInv /\ [Next]_vars => RegInv'
<1> SUFFICES ASSUME RegInv, [Next]_vars PROVE RegInv'
  OBVIOUS
<1> USE DEF RegInv
<1>1. CASE Start
  <2>1. configured \in Nat \ {0} /\ SpawnFresh(configured) /\ pending' = pending
    BY <1>1 DEF Start, TypeOK
  <2> QED BY <1>1, <2>1, FreshIds DEF Start, TypeOK
<1>2. ASSUME NEW h \in Handles, ProcessExits(h) PROVE RegInv'
  <2>1. proc' \in [Handles -> ProcStates]
    BY <1>2 DEF ProcessExits, TypeOK, ProcStates
  <2>2. Registry'
    BY <1>2, SignalRegistry DEF ProcessExits, TypeOK, Live
  <2> QED BY <1>2, <2>1, <2>2 DEF ProcessExits, TypeOK
<1>3. ASSUME NEW h \in Handles, HandleWorkerExit(h) PROVE RegInv'
  <2>1. /\ workers' \in SUBSET Handles
        /\ info' \in [Handles -> WorkerInfo]
        /\ proc' \in [Handles -> ProcStates]
        /\ \A g \in Handles : info'[g].id = info[g].id
        /\ proc[h] = "exited" /\ proc'[h] = "reaped"
        /\ \A g \in Handles \ {h} : proc'[g] = proc[g]
        /\ UNCHANGED <<spawned, nextWorkerId>>
    <3>1. workers' \in SUBSET Handles /\ proc[h] = "exited"
          /\ proc' = [proc EXCEPT ![h] = "reaped"] /\ UNCHANGED <<spawned, nextWorkerId>>
      BY <1>3 DEF HandleWorkerExit, TypeOK
    <3>2. /\ proc' \in [Handles -> ProcStates] /\ proc'[h] = "reaped"
          /\ \A g \in Handles \ {h} : proc'[g] = proc[g]
      BY <3>1 DEF TypeOK, ProcStates
    <3>3. /\ info' \in [Handles -> WorkerInfo]
          /\ \A g \in Handles : info'[g].id = info[g].id
      BY <1>3 DEF HandleWorkerExit, TypeOK, WorkerInfo
    <3> QED BY <3>1, <3>2, <3>3
  <2>2. pending' = pending \/ pending' = pending \cup {h}
    BY <1>3 DEF HandleWorkerExit
  <2>3. workers' = {w \in workers : info[w].id # info[h].id}
    BY <1>3 DEF HandleWorkerExit
  <2>4. h \in workers
    BY <2>1 DEF Registry, RegistryIsExact, Unreaped
  <2>5. workers' = workers \ {h}
    BY <2>3, <2>4 DEF Registry, OneProcessPerId
  <2>6. RegistryIsExact'
    <3>1. \A g \in Handles : g \in workers' <=> g \in Unreaped'
      BY <2>1, <2>5 DEF Registry, RegistryIsExact, Unreaped
    <3> QED BY <3>1, <2>1 DEF RegistryIsExact, Unreaped
  <2>7. workers' \cup pending' \subseteq workers \cup pending
        /\ workers' \cup pending' \subseteq Handles
    BY <2>2, <2>4, <2>5 DEF TypeOK
  <2>8. OneProcessPerId' /\ IdsTaken'
    BY <2>1, <2>7 DEF Registry, OneProcessPerId, IdsTaken
  <2>9. Reaping' /\ Attempts'
    BY <2>1, <2>2 DEF Registry, Reaping, Attempts, TypeOK
  <2>10. Registry'
    BY <2>6, <2>8, <2>9 DEF Registry
  <2> QED BY <1>3, <2>1, <2>2, <2>10 DEF HandleWorkerExit, TypeOK
<1>4. ASSUME NEW h \in Handles, Respawn(h) PROVE RegInv'
  BY <1>4, OldId DEF Respawn, TypeOK
<1>5. ASSUME NEW r \in Rolls, RollStart(r) PROVE RegInv'
  BY <1>5, RollLoopStep DEF RollStart, TypeOK
<1>6. ASSUME NEW r \in Rolls, RollKill(r) PROVE RegInv'
  <2>1. rolls' \in [Rolls -> Roll]
    <3>1. rolls \in [Rolls -> Roll]
      BY DEF TypeOK
    <3>2. rolls' = [rolls EXCEPT ![r] = [[rolls[r] EXCEPT !.phase = "spacing"]
                                            EXCEPT !.current = 0]]
      BY <1>6, <3>1, Zenon DEF RollKill
    <3>3. [[rolls[r] EXCEPT !.phase = "spacing"] EXCEPT !.current = 0] \in Roll
      BY <3>1 DEF Roll
    <3> QED BY <3>1, <3>2, <3>3, Zenon
  <2>2. Registry'
    BY <1>6, SignalTypes, SignalRegistry DEF RollKill
  <2> QED BY <1>6, <2>1, <2>2, SignalTypes DEF RollKill, TypeOK
<1>7. ASSUME NEW r \in Rolls, RollNext(r) PROVE RegInv'
  <2>1. rolls[r].queue \in SUBSET Handles /\ rolls[r].upTo \in 0..MaxSpawns
    BY DEF TypeOK, Roll
  <2> QED BY <1>7, <2>1, RollLoopStep DEF RollNext, TypeOK
<1>8. CASE GracefulShutdown
  <2>1. Registry'
    BY <1>8, SignalTypes, SignalRegistry DEF GracefulShutdown
  <2> QED BY <1>8, <2>1, SignalTypes DEF GracefulShutdown, TypeOK
<1>9. CASE ShutdownPoll
  <2>1. Registry'
    BY <1>9, SignalRegistry DEF ShutdownPoll
  <2> QED BY <1>9, <2>1, ClusterAssumption DEF ShutdownPoll, ShutdownComplete, TypeOK
<1>10. CASE ShutdownTimeout
  <2>1. Registry'
    BY <1>10, SignalTypes, SignalRegistry DEF ShutdownTimeout
  <2> QED BY <1>10, <2>1, SignalTypes, ClusterAssumption
          DEF ShutdownTimeout, ShutdownComplete, TypeOK
<1>11. ASSUME NEW n \in 1..MaxWorkers, ScaleTo(n) PROVE RegInv'
  <2>1. /\ UNCHANGED <<pending, started, shutdown, timeoutFired, exited, rolls>>
        /\ configured' \in Nat \ {0}
    BY <1>11, ClusterAssumption DEF ScaleTo, TypeOK
  <2>2. CASE UNCHANGED procVars
    <3>1. UNCHANGED <<workers, info, proc, spawned, nextWorkerId>>
      BY <2>2 DEF procVars
    <3>2. Registry'
      BY <2>1, <3>1, SignalRegistry
    <3> QED BY <2>1, <3>1, <3>2 DEF TypeOK
  <2>3. CASE n > Cardinality(workers) /\ SpawnFresh(n - Cardinality(workers))
    <3>1. n - Cardinality(workers) \in Nat \ {0}
      BY <2>3, FiniteMap, ClusterAssumption
    <3> QED BY <2>1, <2>3, <3>1, FreshIds DEF TypeOK
  <2>4. CASE /\ UNCHANGED <<workers, spawned, nextWorkerId>>
             /\ \E oldest \in SUBSET workers :
                   info' = MarkExiting(oldest) /\ proc' = Terminate(oldest)
    <3>1. Registry'
      BY <2>1, <2>4, SignalTypes, SignalRegistry
    <3> QED BY <2>1, <2>4, <3>1, SignalTypes DEF TypeOK
  <2> QED BY <1>11, <2>2, <2>3, <2>4 DEF ScaleTo
<1>12. ASSUME NEW S, SignalWorkers(S) PROVE RegInv'
  <2>1. Registry'
    BY <1>12, SignalTypes, SignalRegistry DEF SignalWorkers
  <2> QED BY <1>12, <2>1, SignalTypes DEF SignalWorkers, TypeOK
<1>13. CASE UNCHANGED vars
  <2>1. Registry'
    BY <1>13, SignalRegistry DEF vars
  <2> QED BY <1>13, <2>1 DEF vars, TypeOK
<1> QED BY <1>1, <1>2, <1>3, <1>4, <1>5, <1>6, <1>7, <1>8, <1>9, <1>10, <1>11,
           <1>12, <1>13 DEF Next

(* The registry's invariant holds at every step of the master.             *)
THEOREM RegistryInvariant == Spec => []RegInv
<1>1. RegInv /\ [Next]_vars => RegInv'
  BY RegStep
<1> QED BY RegInit, <1>1, PTL DEF Spec

(* The types of the variables, for every configuration.                    *)
THEOREM ClusterTypes == Spec => []TypeOK
<1>1. RegInv => TypeOK
  BY DEF RegInv
<1> QED BY RegistryInvariant, <1>1, PTL

(* The worker Map holds exactly the processes whose exit callback has not  *)
(* run yet.                                                                *)
THEOREM RegistryIsExactHolds == Spec => []RegistryIsExact
<1>1. RegInv => RegistryIsExact
  BY DEF RegInv, Registry
<1> QED BY RegistryInvariant, <1>1, PTL

(* An id names one running process, or one restart that is scheduled.      *)
THEOREM OneProcessPerIdHolds == Spec => []OneProcessPerId
<1>1. RegInv => OneProcessPerId
  BY DEF RegInv, Registry
<1> QED BY RegistryInvariant, <1>1, PTL

-----------------------------------------------------------------------------
(* NoOrphans is inductive given the registry: the master exits only with   *)
(* an empty Map, or right after the SIGKILL of everything in it.           *)
THEOREM NoOrphansHolds == Spec => []NoOrphans
<1>1. Init => NoOrphans
  BY DEF Init, NoOrphans
<1>2. RegInv /\ NoOrphans /\ [Next]_vars => NoOrphans'
  <2> SUFFICES ASSUME RegInv, NoOrphans, [Next]_vars, exited'
               PROVE  \A h \in Live' : proc'[h] = "killed"
    BY DEF NoOrphans
  <2>1. CASE exited
    <3>1. UNCHANGED proc \/ \E h \in Handles : proc' = [proc EXCEPT ![h] = "exited"]
      BY <2>1 DEF Next, Start, ProcessExits, HandleWorkerExit, Respawn, RollStart,
         RollKill, RollNext, GracefulShutdown, ShutdownPoll, ShutdownTimeout,
         ScaleTo, SignalWorkers, vars
    <3> QED BY <2>1, <3>1 DEF NoOrphans, Live, RegInv, TypeOK
  <2>2. CASE ~exited
    <3>1. \/ GracefulShutdown /\ workers = {}
          \/ ShutdownPoll
          \/ ShutdownTimeout
      BY <2>2 DEF Next, Start, ProcessExits, HandleWorkerExit, Respawn, RollStart,
         RollKill, RollNext, GracefulShutdown, ScaleTo, SignalWorkers, vars
    <3>2. workers = {} => Live = {}
      BY DEF RegInv, Registry, RegistryIsExact, Unreaped, Live
    <3>3. CASE GracefulShutdown /\ workers = {}
      BY <3>2, <3>3, SignalTypes
         DEF GracefulShutdown, Terminate, Live, RegInv, TypeOK
    <3>4. CASE ShutdownPoll
      BY <3>2, <3>4 DEF ShutdownPoll, Live
    <3>5. CASE ShutdownTimeout
      <4>1. Live \subseteq workers
        BY DEF RegInv, Registry, RegistryIsExact, Unreaped, Live
      <4>2. proc' = Kill(workers)
        BY <3>5 DEF ShutdownTimeout
      <4> QED BY <4>1, <4>2 DEF Kill, Live
    <3> QED BY <3>1, <3>3, <3>4, <3>5
  <2> QED BY <2>1, <2>2
<1> QED BY <1>1, <1>2, RegistryInvariant, PTL DEF Spec

-----------------------------------------------------------------------------
(* The strengthening of RollReplacesOld: while a roll is under way, a      *)
(* process older than it that still serves is queued or being replaced.    *)
RollInv ==
    \A r \in Rolls :
        /\ rolls[r].upTo <= spawned
        /\ rolls[r].phase # "off" =>
              \A h \in 1..rolls[r].upTo : proc[h] = "running" =>
                    h \in rolls[r].queue \cup {rolls[r].current}
        /\ rolls[r].phase = "done" => rolls[r].queue = {}
        /\ rolls[r].phase \in {"spacing", "done"} => rolls[r].current = 0

(* A spawn never touches the handles of earlier ones.                      *)
LEMMA OldHandles ==
  ASSUME RegInv, NEW n \in Nat, SpawnFresh(n)
  PROVE  /\ spawned' >= spawned
         /\ \A h \in 1..spawned : proc'[h] = proc[h]
<1> DEFINE batch == (spawned + 1)..(spawned + n)
           ids == [h \in batch |-> nextWorkerId + (h - spawned - 1)]
<1>1. PICK failed \in SUBSET batch : SpawnWorkers(ids, failed)
  BY DEF SpawnFresh
<1>2. spawned \in Nat /\ spawned <= MaxSpawns /\ spawned' = spawned + n
  BY DEF SpawnFresh, RegInv, TypeOK
<1>3. \A h \in 1..spawned : h \in Handles /\ h \notin batch
  BY <1>2, ClusterAssumption DEF Handles
<1>4. DOMAIN ids = batch
  OBVIOUS
<1> HIDE DEF ids, batch
<1>5. \A h \in 1..spawned : proc'[h] = proc[h]
  BY <1>1, <1>3, <1>4 DEF SpawnWorkers
<1> QED BY <1>2, <1>5

LEMMA RollUndisturbed ==
  ASSUME RegInv, RollInv, rolls' = rolls, spawned' \in Nat, spawned' >= spawned,
         \A h \in 1..spawned : proc'[h] = "running" => proc[h] = "running"
  PROVE  RollInv'
  BY DEF RegInv, TypeOK, RollInv, Roll

LEMMA RollLoopInv ==
  ASSUME RegInv, RollInv, NEW r \in Rolls, NEW queue \in SUBSET Handles,
         NEW upTo \in 0..spawned, RollLoop(r, queue, upTo),
         \A h \in 1..upTo : proc[h] = "running" => h \in queue
  PROVE  RollInv'
<1> DEFINE todo == {q \in queue : \E w \in workers : info[w].id = info[q].id}
<1>1. /\ spawned \in Nat /\ spawned <= MaxSpawns /\ rolls \in [Rolls -> Roll]
      /\ upTo \in Nat /\ upTo <= spawned
  BY DEF RegInv, TypeOK
<1>2. \A h \in 1..upTo : proc[h] = "running" => h \in todo /\ h \in workers
  BY <1>1, ClusterAssumption
     DEF RegInv, Registry, RegistryIsExact, Unreaped, Handles
<1>3. CASE todo = {} /\ UNCHANGED procVars
           /\ rolls' = [rolls EXCEPT ![r] = [phase |-> "done", queue |-> {},
                                             current |-> 0, upTo |-> upTo]]
  <2>1. UNCHANGED <<proc, spawned>>
    BY <1>3 DEF procVars
  <2>2. \A h \in 1..upTo : proc[h] # "running"
    BY <1>2, <1>3
  <2> QED BY <1>1, <1>3, <2>1, <2>2 DEF RollInv
<1>4. ASSUME NEW q \in todo, NEW w \in workers, \A x \in todo : q <= x,
             info[w].id = info[q].id,
             rolls' = [rolls EXCEPT ![r] =
                    [phase |-> "settling", queue |-> {x \in queue : x > q},
                     current |-> w, upTo |-> upTo]],
             SpawnFresh(1)
      PROVE  RollInv'
  <2>1. spawned' >= spawned /\ spawned' \in Nat
        /\ \A h \in 1..spawned : proc'[h] = proc[h]
    <3>1. 1 \in Nat /\ SpawnFresh(1) /\ spawned' = spawned + 1
      BY <1>4 DEF SpawnFresh
    <3> QED BY <1>1, <3>1, OldHandles
  <2>2. ASSUME NEW h \in 1..upTo, proc[h] = "running"
        PROVE  h \in {x \in queue : x > q} \cup {w}
    <3>1. h \in todo /\ h \in workers /\ q <= h /\ h \in queue
      BY <1>2, <1>4, <2>2
    <3>2. CASE h = q
      BY <1>4, <3>1, <3>2 DEF RegInv, Registry, OneProcessPerId
    <3>3. CASE h # q
      BY <3>1, <3>3, HandleType
    <3> QED BY <3>2, <3>3
  <2>3. ASSUME NEW s \in Rolls, s # r
        PROVE  rolls'[s] = rolls[s]
    BY <1>1, <1>4, <2>3
  <2>4. rolls'[r] = [phase |-> "settling", queue |-> {x \in queue : x > q},
                     current |-> w, upTo |-> upTo]
    BY <1>1, <1>4
  <2>5. ASSUME NEW s \in Rolls
        PROVE  /\ rolls'[s].upTo <= spawned'
               /\ rolls'[s].phase # "off" =>
                    \A h \in 1..rolls'[s].upTo : proc'[h] = "running" =>
                        h \in rolls'[s].queue \cup {rolls'[s].current}
               /\ rolls'[s].phase = "done" => rolls'[s].queue = {}
               /\ rolls'[s].phase \in {"spacing", "done"} => rolls'[s].current = 0
    <3>1. CASE s = r
      <4>1. \A h \in 1..upTo : proc'[h] = proc[h]
        BY <1>1, <2>1
      <4> QED BY <1>1, <2>1, <2>2, <2>4, <3>1, <4>1
    <3>2. CASE s # r
      <4>1. rolls[s].upTo \in Nat /\ rolls[s].upTo <= spawned
        BY <1>1 DEF RollInv, Roll
      <4>2. \A h \in 1..rolls[s].upTo : proc'[h] = proc[h]
        BY <1>1, <2>1, <4>1
      <4> QED BY <1>1, <2>1, <2>3, <3>2, <4>1, <4>2 DEF RollInv
    <3> QED BY <3>1, <3>2
  <2> QED BY <2>5 DEF RollInv
<1> QED BY <1>3, <1>4 DEF RollLoop

LEMMA RollInvStep == RegInv /\ RollInv /\ [Next]_vars => RollInv'
<1> SUFFICES ASSUME RegInv, RollInv, [Next]_vars PROVE RollInv'
  OBVIOUS
<1>0. /\ RegInv' /\ spawned \in Nat /\ spawned' \in Nat
      /\ 1..spawned \subseteq Handles
  BY RegStep, ClusterAssumption DEF RegInv, TypeOK, Handles
<1>1. ASSUME NEW n \in Nat, SpawnFresh(n), rolls' = rolls PROVE RollInv'
  BY <1>0, <1>1, OldHandles, RollUndisturbed
<1>2. ASSUME rolls' = rolls, spawned' = spawned,
             \A h \in Handles : proc'[h] = "running" => proc[h] = "running"
      PROVE  RollInv'
  BY <1>0, <1>2, RollUndisturbed
<1>3. CASE Start
  BY <1>1, <1>3 DEF Start, RegInv, TypeOK
<1>4. ASSUME NEW h \in Handles, ProcessExits(h) PROVE RollInv'
  BY <1>2, <1>4 DEF ProcessExits, RegInv, TypeOK
<1>5. ASSUME NEW h \in Handles, HandleWorkerExit(h) PROVE RollInv'
  BY <1>2, <1>5 DEF HandleWorkerExit, RegInv, TypeOK
<1>6. ASSUME NEW h \in Handles, Respawn(h) PROVE RollInv'
  <2>1. PICK failed \in SUBSET {spawned + 1} :
           SpawnWorkers([n \in {spawned + 1} |-> info[h].id], failed)
    BY <1>6 DEF Respawn
  <2>2. \A g \in 1..spawned : proc'[g] = proc[g]
    BY <1>0, <2>1 DEF SpawnWorkers
  <2> QED BY <1>0, <1>6, <2>2, RollUndisturbed DEF Respawn
<1>7. ASSUME NEW r \in Rolls, RollStart(r) PROVE RollInv'
  <2>1. workers \in SUBSET Handles /\ spawned \in 0..spawned
    BY <1>0 DEF RegInv, TypeOK
  <2>2. \A h \in 1..spawned : proc[h] = "running" => h \in workers
    BY <1>0 DEF RegInv, Registry, RegistryIsExact, Unreaped
  <2> QED BY <1>7, <2>1, <2>2, RollLoopInv DEF RollStart
<1>8. ASSUME NEW r \in Rolls, RollKill(r) PROVE RollInv'
  <2>1. /\ rolls \in [Rolls -> Roll] /\ rolls[r].phase = "settling"
        /\ rolls' = [rolls EXCEPT ![r].phase = "spacing", ![r].current = 0]
        /\ proc' = Terminate({rolls[r].current}) /\ spawned' = spawned
    BY <1>8 DEF RollKill, RegInv, TypeOK
  <2>2. \A h \in Handles : /\ proc'[h] = "running" => proc[h] = "running"
                           /\ proc'[h] = "running" => h # rolls[r].current
    BY <2>1 DEF Terminate
  <2>3. ASSUME NEW s \in Rolls
        PROVE  /\ rolls'[s].upTo = rolls[s].upTo /\ rolls[s].upTo <= spawned
               /\ rolls'[s].queue = rolls[s].queue
               /\ s # r => rolls'[s] = rolls[s]
               /\ s = r => rolls'[s].current = 0 /\ rolls'[s].phase = "spacing"
    BY <2>1 DEF RollInv, Roll
  <2>4. ASSUME NEW s \in Rolls, rolls'[s].phase # "off",
               NEW h \in 1..rolls'[s].upTo, proc'[h] = "running"
        PROVE  h \in rolls'[s].queue \cup {rolls'[s].current}
    <3>1. h \in 1..rolls[s].upTo /\ h \in Handles
      BY <1>0, <2>1, <2>3, <2>4 DEF Roll
    <3>2. h \in rolls[s].queue \cup {rolls[s].current}
      BY <2>1, <2>2, <2>3, <2>4, <3>1 DEF RollInv
    <3> QED BY <2>2, <2>3, <2>4, <3>1, <3>2
  <2>5. ASSUME NEW s \in Rolls
        PROVE  /\ rolls'[s].phase = "done" => rolls'[s].queue = {}
               /\ rolls'[s].phase \in {"spacing", "done"} => rolls'[s].current = 0
    <3>1. CASE s = r
      BY <2>3, <3>1
    <3>2. CASE s # r
      BY <2>3, <3>2 DEF RollInv
    <3> QED BY <3>1, <3>2
  <2>6. \A s \in Rolls : rolls'[s].upTo <= spawned'
    BY <2>1, <2>3
  <2> QED BY <2>4, <2>5, <2>6 DEF RollInv
<1>9. ASSUME NEW r \in Rolls, RollNext(r) PROVE RollInv'
  <2>1. /\ rolls[r].queue \in SUBSET Handles /\ rolls[r].upTo \in 0..spawned
        /\ rolls[r].phase = "spacing"
    BY <1>0, <1>9 DEF RollNext, RegInv, TypeOK, Roll, RollInv
  <2>2. rolls[r].current = 0 /\ \A h \in 1..rolls[r].upTo : h # 0
    BY <2>1 DEF RollInv
  <2>3. \A h \in 1..rolls[r].upTo : proc[h] = "running" => h \in rolls[r].queue
    BY <2>1, <2>2 DEF RollInv
  <2> QED BY <1>9, <2>1, <2>3, RollLoopInv DEF RollNext
<1>10. CASE GracefulShutdown
  BY <1>2, <1>10 DEF GracefulShutdown, Terminate
<1>11. CASE ShutdownPoll
  BY <1>2, <1>11 DEF ShutdownPoll
<1>12. CASE ShutdownTimeout
  BY <1>2, <1>12 DEF ShutdownTimeout, Kill
<1>13. ASSUME NEW n \in 1..MaxWorkers, ScaleTo(n) PROVE RollInv'
  <2>1. rolls' = rolls
    BY <1>13 DEF ScaleTo
  <2>2. CASE UNCHANGED procVars
    BY <1>2, <2>1, <2>2 DEF procVars
  <2>3. CASE n > Cardinality(workers) /\ SpawnFresh(n - Cardinality(workers))
    <3>1. n - Cardinality(workers) \in Nat
      BY <2>3, FiniteMap, ClusterAssumption DEF RegInv
    <3> QED BY <1>1, <2>1, <2>3, <3>1
  <2>4. CASE spawned' = spawned /\ \E oldest \in SUBSET workers : proc' = Terminate(oldest)
    BY <1>2, <2>1, <2>4 DEF Terminate
  <2> QED BY <1>13, <2>2, <2>3, <2>4 DEF ScaleTo
<1>14. ASSUME NEW S, SignalWorkers(S) PROVE RollInv'
  BY <1>2, <1>14 DEF SignalWorkers, Terminate
<1>15. CASE UNCHANGED vars
  BY <1>2, <1>15 DEF vars
<1> QED BY <1>3, <1>4, <1>5, <1>6, <1>7, <1>8, <1>9, <1>10, <1>11, <1>12, <1>13,
           <1>14, <1>15 DEF Next

(* A finished rolling restart has stopped every older process.             *)
THEOREM RollReplacesOldHolds == Spec => []RollReplacesOld
<1>1. Init => RollInv
  BY DEF Init, RollInv
<1>2. RegInv /\ RollInv => RollReplacesOld
  <2> SUFFICES ASSUME RegInv, RollInv, NEW r \in Rolls, rolls[r].phase = "done",
                      NEW h \in 1..rolls[r].upTo, proc[h] = "running"
               PROVE  FALSE
    BY DEF RollReplacesOld
  <2>1. h = 0
    BY DEF RollInv
  <2> QED BY <2>1 DEF RegInv, TypeOK, Roll
<1> QED BY <1>1, <1>2, RollInvStep, RegistryInvariant, PTL DEF Spec

-----------------------------------------------------------------------------
(* What a worker's id and a pending restart's say about its slot.          *)
LEMMA SlotStateIs ==
  ASSUME RegInv
  PROVE  /\ \A h \in workers : info[h].id \in Ids /\ SlotState(info[h].id) = "up"
         /\ \A h \in pending : /\ info[h].id \in Ids
                               /\ SlotState(info[h].id) = "backoff"
         /\ workers \cap pending = {}
<1>1. /\ nextWorkerId \in Nat /\ nextWorkerId - 1 <= MaxSpawns
      /\ \A h \in workers \cup pending : info[h].id \in 1..(nextWorkerId - 1)
  BY ClusterAssumption DEF RegInv, TypeOK, Registry, IdsTaken
<1>2. \A h \in workers \cup pending : info[h].id \in Ids
  BY <1>1, ClusterAssumption DEF Ids
<1>3. workers \cap pending = {}
  BY DEF RegInv, Registry, RegistryIsExact, Unreaped, Reaping
<1>4. \A h \in pending : ~\E w \in workers : info[w].id = info[h].id
  BY <1>3 DEF RegInv, Registry, OneProcessPerId
<1> QED BY <1>2, <1>3, <1>4 DEF SlotState

(* New workers open as many slots; those whose spawn fails are gone.       *)
LEMMA FreshOpens ==
  ASSUME RegInv, NEW n \in Nat \ {0}, SpawnFresh(n),
         UNCHANGED <<pending, shutdown>>
  PROVE  Slots!Next
<1> DEFINE batch == (spawned + 1)..(spawned + n)
           ids == [h \in batch |-> nextWorkerId + (h - spawned - 1)]
           new == nextWorkerId..(nextWorkerId + n - 1)
           place(i) == i - nextWorkerId + spawned + 1
<1>1. PICK failed \in SUBSET batch : SpawnWorkers(ids, failed)
  BY DEF SpawnFresh
<1> DEFINE lost == {i \in new : place(i) \in failed}
<1>2. /\ spawned \in Nat /\ nextWorkerId \in Nat /\ nextWorkerId >= 1
      /\ spawned' = spawned + n /\ nextWorkerId' = nextWorkerId + n
      /\ workers \subseteq Handles /\ pending \subseteq Handles
      /\ spawned <= MaxSpawns
  BY DEF RegInv, TypeOK, SpawnFresh
<1>3. DOMAIN ids = batch /\ batch \subseteq Handles
  BY <1>1 DEF SpawnWorkers
<1>4. /\ \A h \in batch : ids[h] \in new /\ place(ids[h]) = h
      /\ \A i \in new : place(i) \in batch /\ ids[place(i)] = i
  BY <1>2
<1>5. n \in Ids
  <2>1. spawned + n \in Handles
    BY <1>2, <1>3
  <2> QED BY <2>1, <1>2, ClusterAssumption DEF Ids, Handles
<1>6. \A h \in workers \cup pending : h \notin batch /\ info[h].id < nextWorkerId
                                      /\ info[h].id \in Nat
  <2>1. \A h \in workers \cup pending : proc[h] # "none"
    BY <1>2 DEF RegInv, Registry, RegistryIsExact, Unreaped, Reaping
  <2>2. \A h \in workers \cup pending : info[h].id \in 1..(nextWorkerId - 1)
    BY DEF RegInv, Registry, IdsTaken
  <2> QED BY <2>1, <2>2, <1>2, HandleType DEF RegInv, Registry, Attempts
<1> HIDE DEF ids
<1>7. /\ \A h \in workers \cup pending : info'[h] = info[h]
      /\ \A h \in batch : info'[h].id = ids[h]
  BY <1>1, <1>2, <1>3, <1>6, NewInfoType DEF SpawnWorkers, NewWorkerInfo, Blank
<1>8. workers' = workers \cup (batch \ failed)
  <2>1. \A w \in workers, h \in batch : info[w].id # ids[h]
    BY <1>2, <1>4, <1>6
  <2> QED BY <1>1, <1>3, <2>1 DEF SpawnWorkers
<1>9. ASSUME NEW i \in Ids
      PROVE  SlotState(i)' = IF i \in lost THEN "gone"
                             ELSE IF i \in new THEN "up" ELSE SlotState(i)
  <2>1. i \in Nat
    BY DEF Ids
  <2>2. CASE i \in new
    <3>1. ~\E h \in workers \cup pending : info'[h].id = i
      BY <1>2, <1>6, <1>7, <2>1, <2>2
    <3>2. CASE i \in lost
      <4>1. ~\E h \in workers' : info'[h].id = i
        BY <1>4, <1>7, <1>8, <3>1, <3>2
      <4> QED BY <1>2, <2>1, <2>2, <3>1, <3>2, <4>1 DEF SlotState
    <3>3. CASE i \notin lost
      <4>1. place(i) \in workers' /\ info'[place(i)].id = i
        BY <1>4, <1>7, <1>8, <2>2, <3>3
      <4> QED BY <2>2, <3>3, <4>1 DEF SlotState
    <3> QED BY <3>2, <3>3
  <2>3. CASE i \notin new
    <3>1. (\E h \in workers' : info'[h].id = i) <=> (\E h \in workers : info[h].id = i)
      BY <1>4, <1>7, <1>8, <2>3
    <3>2. (\E h \in pending' : info'[h].id = i) <=> (\E h \in pending : info[h].id = i)
      BY <1>7
    <3>3. i < nextWorkerId' <=> i < nextWorkerId
      BY <1>2, <2>1, <2>3
    <3> QED BY <2>3, <3>1, <3>2, <3>3 DEF SlotState
  <2> QED BY <2>2, <2>3
<1>10. Slots!Open(n)
  <2>1. lost \in SUBSET new
    OBVIOUS
  <2> HIDE DEF lost
  <2> QED BY <1>2, <1>9, <2>1 DEF Slots!Open
<1> QED BY <1>5, <1>10 DEF Slots!Next

(* A restart takes the slot of its id again, or its spawn fails.           *)
LEMMA RespawnReturns ==
  ASSUME RegInv, NEW h \in Handles, Respawn(h)
  PROVE  Slots!Next
<1> DEFINE ids == [n \in {spawned + 1} |-> info[h].id]
           new == spawned + 1
           id == info[h].id
<1>1. PICK failed \in SUBSET {new} : SpawnWorkers(ids, failed)
  BY DEF Respawn
<1>2. /\ TypeOK /\ spawned \in Nat /\ nextWorkerId \in Nat
      /\ h \in pending /\ pending' = pending \ {h} /\ pending \subseteq Handles
      /\ workers \subseteq Handles
      /\ nextWorkerId' = nextWorkerId /\ shutdown' = shutdown
  BY DEF RegInv, TypeOK, Respawn
<1>3. /\ new \in Handles /\ DOMAIN ids = {new} /\ ids[new] = id
  BY <1>1 DEF SpawnWorkers
<1>4. \A w \in workers \cup pending : w # new
  <2>1. \A w \in workers \cup pending : proc[w] # "none"
    BY <1>2 DEF RegInv, Registry, RegistryIsExact, Unreaped, Reaping
  <2> QED BY <2>1, <1>2, <1>3, HandleType DEF RegInv, Registry, Attempts
<1>5. /\ id \in Ids /\ SlotState(id) = "backoff" /\ h \notin workers
      /\ \A w \in workers \cup pending' : info[w].id # id
      /\ id < nextWorkerId
  <2>1. \A w \in workers \cup pending' : info[w].id # id
    BY <1>2, SlotStateIs DEF RegInv, Registry, OneProcessPerId
  <2>2. id \in 1..(nextWorkerId - 1)
    BY <1>2 DEF RegInv, Registry, IdsTaken
  <2> QED BY <1>2, <2>1, <2>2, SlotStateIs
<1> HIDE DEF ids
<1>6. /\ \A w \in workers \cup pending : info'[w] = info[w]
      /\ info'[new].id = id
      /\ workers' = workers \cup ({new} \ failed)
  <2>1. info' = [g \in Handles |-> IF g \in {new} THEN NewWorkerInfo(ids[g]) ELSE info[g]]
    BY <1>1, <1>3 DEF SpawnWorkers
  <2>2. workers' = {w \in workers : \A g \in {new} \ failed : info[w].id # ids[g]}
                   \cup ({new} \ failed)
    BY <1>1, <1>3 DEF SpawnWorkers
  <2>3. \A w \in workers : info[w].id # ids[new]
    BY <1>3, <1>5
  <2>4. \A w \in workers \cup pending : info'[w] = info[w]
    BY <1>2, <1>4, <2>1
  <2>5. info'[new].id = id
    <3>1. info'[new] = NewWorkerInfo(id)
      BY <1>3, <2>1
    <3> QED BY <3>1 DEF NewWorkerInfo, Blank
  <2>6. workers' = workers \cup ({new} \ failed)
    <3>1. {w \in workers : \A g \in {new} \ failed : info[w].id # ids[g]} = workers
      BY <2>3
    <3> QED BY <2>2, <3>1
  <2> QED BY <2>4, <2>5, <2>6
<1>7. ASSUME NEW i \in Ids
      PROVE  SlotState(i)' = IF i = id THEN (IF new \in failed THEN "gone" ELSE "up")
                             ELSE SlotState(i)
  <2>1. CASE i = id
    BY <1>2, <1>5, <1>6, <2>1 DEF SlotState
  <2>2. CASE i # id
    <3>1. (\E w \in workers' : info'[w].id = i) <=> (\E w \in workers : info[w].id = i)
      BY <1>6, <2>2
    <3>2. (\E w \in pending' : info'[w].id = i) <=> (\E w \in pending : info[w].id = i)
      BY <1>2, <1>6, <2>2
    <3> QED BY <1>2, <2>2, <3>1, <3>2 DEF SlotState
  <2> QED BY <2>1, <2>2
<1>8. Slots!Return(id)
  BY <1>2, <1>5, <1>7 DEF Slots!Return
<1> QED BY <1>5, <1>8 DEF Slots!Next

(* An exit callback retires the slot of its worker or lets it back off.    *)
LEMMA ExitLeaves ==
  ASSUME RegInv, NEW h \in Handles, HandleWorkerExit(h)
  PROVE  Slots!Next
<1> DEFINE id == info[h].id
<1>1. /\ \A g \in Handles : info'[g].id = info[g].id
      /\ nextWorkerId' = nextWorkerId /\ shutdown' = shutdown
      /\ proc[h] = "exited" /\ workers' = {w \in workers : info[w].id # id}
      /\ workers \subseteq Handles /\ pending \subseteq Handles
      /\ \/ pending' = pending
         \/ pending' = pending \cup {h} /\ shutdown = "none"
  BY DEF HandleWorkerExit, RegInv, TypeOK, WorkerInfo
<1>2. h \in workers
  BY <1>1 DEF RegInv, Registry, RegistryIsExact, Unreaped
<1>3. /\ id \in Ids /\ SlotState(id) = "up" /\ id < nextWorkerId
      /\ \A w \in pending : info[w].id # id
  <2>1. id \in 1..(nextWorkerId - 1) /\ nextWorkerId \in Nat
    BY <1>2 DEF RegInv, TypeOK, Registry, IdsTaken
  <2>2. \A w \in pending : info[w].id # id
    BY <1>2, SlotStateIs DEF RegInv, Registry, OneProcessPerId
  <2> QED BY <1>2, <2>1, <2>2, SlotStateIs
<1>4. ASSUME NEW i \in Ids, i # id PROVE SlotState(i)' = SlotState(i)
  <2>1. (\E w \in workers' : info'[w].id = i) <=> (\E w \in workers : info[w].id = i)
    BY <1>1, <1>4
  <2>2. (\E w \in pending' : info'[w].id = i) <=> (\E w \in pending : info[w].id = i)
    BY <1>1, <1>4
  <2> QED BY <1>1, <2>1, <2>2 DEF SlotState
<1>5. CASE pending' = pending
  <2>1. SlotState(id)' = "gone"
    BY <1>1, <1>3, <1>5 DEF SlotState
  <2>2. Slots!Retire(id)
    BY <1>1, <1>3, <1>4, <2>1 DEF Slots!Retire
  <2> QED BY <1>3, <2>2 DEF Slots!Next
<1>6. CASE pending' = pending \cup {h} /\ shutdown = "none"
  <2>1. SlotState(id)' = "backoff"
    BY <1>1, <1>3, <1>6 DEF SlotState
  <2>2. Slots!BackOff(id)
    BY <1>1, <1>3, <1>4, <1>6, <2>1 DEF Slots!BackOff
  <2> QED BY <1>3, <2>2 DEF Slots!Next
<1> QED BY <1>1, <1>5, <1>6

(* Signals, process ends and the steps of a shutdown move no slot.         *)
LEMMA SlotsStand ==
  ASSUME RegInv, UNCHANGED <<workers, pending, nextWorkerId>>,
         \A h \in Handles : info'[h].id = info[h].id
  PROVE  \A i \in Ids : SlotState(i)' = SlotState(i)
<1>1. workers \subseteq Handles /\ pending \subseteq Handles
  BY DEF RegInv, TypeOK
<1> QED BY <1>1 DEF SlotState

LEMMA SlotsStutter ==
  ASSUME RegInv, UNCHANGED <<workers, pending, nextWorkerId>>,
         \A h \in Handles : info'[h].id = info[h].id,
         (shutdown' # "none") <=> (shutdown # "none")
  PROVE  UNCHANGED Slots!slotVars
BY SlotsStand DEF Slots!slotVars

LEMMA RollLoopSlots ==
  ASSUME RegInv, NEW r, NEW queue, NEW upTo, RollLoop(r, queue, upTo),
         UNCHANGED <<pending, shutdown>>
  PROVE  [Slots!Next]_(Slots!slotVars)
<1>1. CASE SpawnFresh(1)
  <2>1. 1 \in Nat \ {0}
    OBVIOUS
  <2> QED BY <1>1, <2>1, FreshOpens
<1>2. CASE UNCHANGED procVars
  BY <1>2, SlotsStutter DEF procVars
<1> QED BY <1>1, <1>2 DEF RollLoop

(* The cluster manager keeps the promise of WorkerSlots: whatever crashes, *)
(* restarts, rolls, scales and shuts down, ids are handed out in order and *)
(* never twice, and go from service to a restart or away for good.         *)
THEOREM KeepsSlotsHolds == Spec => KeepsSlots
<1>1. Init => Slots!Init
  BY ClusterAssumption DEF Init, Slots!Init, SlotState, Ids
<1>2. RegInv /\ [Next]_vars => [Slots!Next]_(Slots!slotVars)
  <2> SUFFICES ASSUME RegInv, [Next]_vars PROVE [Slots!Next]_(Slots!slotVars)
    OBVIOUS
  <2>1. CASE Start
    <3>1. configured \in Nat \ {0} /\ SpawnFresh(configured)
          /\ UNCHANGED <<pending, shutdown>>
      BY <2>1 DEF Start, RegInv, TypeOK
    <3> QED BY <3>1, FreshOpens
  <2>2. ASSUME NEW h \in Handles, ProcessExits(h) PROVE UNCHANGED Slots!slotVars
    BY <2>2, SlotsStutter DEF ProcessExits
  <2>3. ASSUME NEW h \in Handles, HandleWorkerExit(h) PROVE Slots!Next
    BY <2>3, ExitLeaves
  <2>4. ASSUME NEW h \in Handles, Respawn(h) PROVE Slots!Next
    BY <2>4, RespawnReturns
  <2>5. ASSUME NEW r \in Rolls, RollStart(r) PROVE [Slots!Next]_(Slots!slotVars)
    BY <2>5, RollLoopSlots DEF RollStart
  <2>6. ASSUME NEW r \in Rolls, RollKill(r) PROVE UNCHANGED Slots!slotVars
    BY <2>6, SignalTypes, SlotsStutter DEF RollKill, RegInv
  <2>7. ASSUME NEW r \in Rolls, RollNext(r) PROVE [Slots!Next]_(Slots!slotVars)
    BY <2>7, RollLoopSlots DEF RollNext
  <2>8. CASE GracefulShutdown
    <3>1. \A i \in Ids : SlotState(i)' = SlotState(i)
      BY <2>8, SignalTypes, SlotsStand DEF GracefulShutdown, RegInv
    <3>2. shutdown' # "none" /\ nextWorkerId' = nextWorkerId
      BY <2>8 DEF GracefulShutdown
    <3>3. Slots!Close
      BY <3>1, <3>2 DEF Slots!Close
    <3> QED BY <3>3 DEF Slots!Next
  <2>9. CASE ShutdownPoll
    BY <2>9, SlotsStutter DEF ShutdownPoll, ShutdownComplete
  <2>10. CASE ShutdownTimeout
    BY <2>10, SlotsStutter DEF ShutdownTimeout, ShutdownComplete
  <2>11. ASSUME NEW n \in 1..MaxWorkers, ScaleTo(n)
         PROVE  [Slots!Next]_(Slots!slotVars)
    <3>1. UNCHANGED <<pending, shutdown>>
      BY <2>11 DEF ScaleTo
    <3>2. CASE UNCHANGED procVars
      BY <3>1, <3>2, SlotsStutter DEF procVars
    <3>3. CASE n > Cardinality(workers) /\ SpawnFresh(n - Cardinality(workers))
      <4>1. n - Cardinality(workers) \in Nat \ {0}
        BY <3>3, FiniteMap, ClusterAssumption DEF RegInv
      <4> QED BY <3>1, <3>3, <4>1, FreshOpens
    <3>4. CASE UNCHANGED <<workers, spawned, nextWorkerId>>
               /\ \E oldest \in SUBSET workers : info' = MarkExiting(oldest)
      BY <3>1, <3>4, SignalTypes, SlotsStutter DEF RegInv
    <3> QED BY <2>11, <3>2, <3>3, <3>4 DEF ScaleTo
  <2>12. ASSUME NEW S, SignalWorkers(S) PROVE UNCHANGED Slots!slotVars
    BY <2>12, SlotsStutter DEF SignalWorkers
  <2>13. CASE UNCHANGED vars
    BY <2>13, SlotsStutter DEF vars
  <2> QED BY <2>1, <2>2, <2>3, <2>4, <2>5, <2>6, <2>7, <2>8, <2>9, <2>10, <2>11,
             <2>12, <2>13 DEF Next
<1> QED BY <1>1, <1>2, RegistryInvariant, PTL DEF Spec, KeepsSlots, Slots!Spec

-----------------------------------------------------------------------------
(* The strengthening of RollingKeepsCapacity: the replacement that a roll  *)
(* has spawned is one worker more than needed until its old one is killed, *)
(* so each roll that is settling has one to spare.                         *)
Serving  == Running \cup ComingBack
Settling == {r \in Rolls : rolls[r].phase = "settling"}

CapInv ==
    /\ ~started => \A r \in Rolls : rolls[r].phase = "off"
    /\ \A h \in Handles :
          /\ proc[h] # "reaped" => info[h].restarts = 0 /\ info[h].stamps = 0
          /\ proc[h] = "running" => ~info[h].isExiting
    /\ IsFiniteSet(Settling)
    /\ started /\ shutdown = "none" =>
          Cardinality(Serving) >= Workers + Cardinality(Settling)

(* What the theorem is about: spawns succeed, nobody scales the cluster or *)
(* sends signals, and the configuration allows one restart per worker.     *)
Undisturbed ==
    /\ Events \subseteq {"shutdown"}
    /\ RestartWorkers
    /\ MaxRestarts > 0 /\ RespawnThreshold > 0

(* Only scaleTo changes the number that the next start would spawn.        *)
AsGiven == configured = Workers

LEMMA HandlesFinite ==
  ASSUME NEW S \in SUBSET Handles
  PROVE  IsFiniteSet(S) /\ Cardinality(S) \in Nat
<1>1. IsFiniteSet(Handles)
  BY ClusterAssumption, FS_Interval DEF Handles
<1> QED BY <1>1, FS_Subset, FS_CardinalityType

LEMMA ServingHandles ==
  ASSUME TypeOK
  PROVE  Serving \in SUBSET Handles
  BY DEF TypeOK, Serving, Running, ComingBack

(* The capacity in terms of the sets that a step leaves: it loses nobody   *)
(* and lets no further roll settle, ...                                    *)
LEMMA CapacityGrows ==
  ASSUME NEW S \in SUBSET Handles, NEW T \in SUBSET Handles, S \subseteq T
  PROVE  Cardinality(S) <= Cardinality(T)
  BY HandlesFinite, FS_Subset

(* ... or one worker, and either a new one comes or one roll has settled.  *)
LEMMA CapacityLess ==
  ASSUME NEW S \in SUBSET Handles, NEW T \in SUBSET Handles, NEW h,
         S \ {h} \subseteq T
  PROVE  Cardinality(T) >= Cardinality(S) - 1
<1>1. IsFiniteSet(S) /\ Cardinality(S) \in Nat /\ S \ {h} \in SUBSET Handles
      /\ Cardinality(S \ {h}) \in Nat /\ Cardinality(T) \in Nat
  BY HandlesFinite
<1>2. Cardinality(S \ {h}) <= Cardinality(T)
  BY <1>1, CapacityGrows
<1>3. Cardinality(S \ {h}) >= Cardinality(S) - 1
  BY <1>1, FS_RemoveElement
<1> QED BY <1>1, <1>2, <1>3

LEMMA CapacityMore ==
  ASSUME NEW S \in SUBSET Handles, NEW T \in SUBSET Handles, NEW n \in Handles,
         n \notin S, S \cup {n} \subseteq T
  PROVE  Cardinality(T) >= Cardinality(S) + 1
<1>1. IsFiniteSet(S) /\ S \cup {n} \in SUBSET Handles
      /\ Cardinality(S \cup {n}) \in Nat /\ Cardinality(T) \in Nat
  BY HandlesFinite
<1>2. Cardinality(S \cup {n}) <= Cardinality(T)
  BY <1>1, CapacityGrows
<1>3. Cardinality(S) \in Nat
  BY HandlesFinite
<1>4. Cardinality(S \cup {n}) = Cardinality(S) + 1
  BY <1>1, FS_AddElement
<1> QED BY <1>1, <1>2, <1>3, <1>4

LEMMA CapacitySwap ==
  ASSUME NEW S \in SUBSET Handles, NEW T \in SUBSET Handles, NEW h, NEW n \in Handles,
         n \notin S, (S \ {h}) \cup {n} \subseteq T
  PROVE  Cardinality(T) >= Cardinality(S)
<1> DEFINE R == S \ {h}
<1>1. R \in SUBSET Handles /\ n \notin R /\ R \cup {n} \subseteq T
  OBVIOUS
<1>2. IsFiniteSet(S) /\ Cardinality(S) \in Nat /\ Cardinality(T) \in Nat
  BY HandlesFinite
<1>3. Cardinality(R) >= Cardinality(S) - 1 /\ Cardinality(R) \in Nat
  BY <1>1, <1>2, HandlesFinite, FS_RemoveElement
<1> HIDE DEF R
<1>4. Cardinality(T) >= Cardinality(R) + 1
  BY <1>1, CapacityMore
<1> QED BY <1>2, <1>3, <1>4

LEMMA CapInit == Init => CapInv
<1> SUFFICES ASSUME Init PROVE CapInv
  OBVIOUS
<1>1. Settling = {}
  BY DEF Init, Settling
<1>2. IsFiniteSet(Settling)
  BY <1>1, FS_EmptySet
<1> QED BY <1>2 DEF Init, CapInv, Blank

(* A spawn under these conditions starts a worker at every new handle.     *)
LEMMA SpawnServes ==
  ASSUME RegInv, CapInv, Undisturbed, NEW n \in Nat, NEW ids,
         NEW failed \in SUBSET DOMAIN ids,
         DOMAIN ids = (spawned + 1)..(spawned + n),
         SpawnWorkers(ids, failed), \A h \in DOMAIN ids : ids[h] \in Ids
  PROVE  /\ failed = {} /\ DOMAIN ids \subseteq Handles
         /\ \A h \in DOMAIN ids : proc'[h] = "running" /\ h \notin Serving
         /\ \A h \in Handles \ DOMAIN ids : proc'[h] = proc[h] /\ info'[h] = info[h]
         /\ \A h \in Handles :
              /\ proc'[h] # "reaped" => info'[h].restarts = 0 /\ info'[h].stamps = 0
              /\ proc'[h] = "running" => ~info'[h].isExiting
<1>1. /\ failed = {} /\ DOMAIN ids \subseteq Handles
      /\ spawned \in Nat
  BY DEF SpawnWorkers, Undisturbed, RegInv, TypeOK
<1>2. /\ \A h \in DOMAIN ids : proc'[h] = "running" /\ info'[h] = NewWorkerInfo(ids[h])
      /\ \A h \in Handles \ DOMAIN ids : proc'[h] = proc[h] /\ info'[h] = info[h]
  BY <1>1 DEF SpawnWorkers
<1>3. \A h \in DOMAIN ids : h \notin Serving
  <2>1. \A h \in DOMAIN ids : h > spawned
    BY <1>1
  <2>2. \A h \in DOMAIN ids : proc[h] = "none"
    BY <1>1, <2>1 DEF RegInv, Registry, Attempts
  <2> QED BY <2>2, <1>1 DEF Serving, Running, ComingBack, RegInv, Registry, Reaping
<1>4. \A h \in DOMAIN ids : LET w == NewWorkerInfo(ids[h])
                            IN  w.restarts = 0 /\ w.stamps = 0 /\ ~w.isExiting
  BY DEF NewWorkerInfo, Blank
<1> QED BY <1>1, <1>2, <1>3, <1>4 DEF CapInv

LEMMA FreshServes ==
  ASSUME RegInv, CapInv, Undisturbed, NEW n \in Nat \ {0}, SpawnFresh(n),
         pending' = pending
  PROVE  /\ (spawned + 1)..(spawned + n) \in SUBSET Handles
         /\ Serving \cup ((spawned + 1)..(spawned + n)) \subseteq Serving'
         /\ \A h \in (spawned + 1)..(spawned + n) : h \notin Serving
         /\ \A h \in Handles :
              /\ proc'[h] # "reaped" => info'[h].restarts = 0 /\ info'[h].stamps = 0
              /\ proc'[h] = "running" => ~info'[h].isExiting
<1> DEFINE batch == (spawned + 1)..(spawned + n)
           ids == [h \in batch |-> nextWorkerId + (h - spawned - 1)]
<1>1. PICK failed \in SUBSET batch : SpawnWorkers(ids, failed)
  BY DEF SpawnFresh
<1>2. spawned \in Nat /\ nextWorkerId \in Nat /\ nextWorkerId >= 1
      /\ nextWorkerId <= spawned + 1 /\ pending \subseteq Handles
  BY DEF RegInv, TypeOK
<1>3. DOMAIN ids = batch /\ batch \subseteq Handles
  BY <1>1 DEF SpawnWorkers
<1>4. \A h \in batch : ids[h] \in Ids
  <2> TAKE h \in batch
  <2>1. h \in Nat /\ h >= spawned + 1 /\ h <= MaxSpawns
    BY <1>2, <1>3, HandleType
  <2> QED BY <2>1, <1>2, ClusterAssumption DEF Ids
<1> HIDE DEF ids
<1>5. /\ \A h \in batch : proc'[h] = "running" /\ h \notin Serving
      /\ \A h \in Handles \ batch : proc'[h] = proc[h] /\ info'[h] = info[h]
      /\ \A h \in Handles :
              /\ proc'[h] # "reaped" => info'[h].restarts = 0 /\ info'[h].stamps = 0
              /\ proc'[h] = "running" => ~info'[h].isExiting
  <2>1. DOMAIN ids = (spawned + 1)..(spawned + n) /\ failed \in SUBSET DOMAIN ids
        /\ \A h \in DOMAIN ids : ids[h] \in Ids
    BY <1>3, <1>4
  <2> QED BY <1>1, <1>3, <2>1, SpawnServes
<1>6. Serving \cup batch \subseteq Serving'
  BY <1>3, <1>5 DEF Serving, Running, ComingBack
<1> QED BY <1>3, <1>5, <1>6

(* A turn of a roll's loop: the worker it spawns is the one to spare.      *)
LEMMA RollLoopCapacity ==
  ASSUME RegInv, RegInv', CapInv, Undisturbed, NEW r \in Rolls,
         NEW queue \in SUBSET Handles, NEW upTo \in 0..MaxSpawns,
         rolls[r].phase # "settling", RollLoop(r, queue, upTo),
         started, UNCHANGED <<pending, started, shutdown>>
  PROVE  CapInv'
<1>1. rolls \in [Rolls -> Roll] /\ Serving \in SUBSET Handles
      /\ Serving' \in SUBSET Handles
      /\ Cardinality(Serving) \in Nat /\ Cardinality(Serving') \in Nat
      /\ Cardinality(Settling) \in Nat
  <2>1. Serving \in SUBSET Handles /\ Serving' \in SUBSET Handles
    BY DEF RegInv, TypeOK, Serving, Running, ComingBack
  <2> QED BY <2>1, HandlesFinite, FS_CardinalityType DEF CapInv, RegInv, TypeOK
<1>2. CASE UNCHANGED procVars
           /\ rolls' = [rolls EXCEPT ![r] = [phase |-> "done", queue |-> {},
                                             current |-> 0, upTo |-> upTo]]
  <2>1. Settling' = Settling
    BY <1>1, <1>2 DEF Settling
  <2>2. Serving' = Serving
    BY <1>2 DEF procVars, Serving, Running, ComingBack
  <2> QED BY <1>2, <2>1, <2>2 DEF CapInv, procVars
<1>3. ASSUME SpawnFresh(1), NEW q, NEW w,
             rolls' = [rolls EXCEPT ![r] = [phase |-> "settling", queue |-> q,
                                            current |-> w, upTo |-> upTo]]
      PROVE  CapInv'
  <2>1. Settling' = Settling \cup {r} /\ r \notin Settling
    BY <1>1, <1>3 DEF Settling
  <2>2. IsFiniteSet(Settling') /\ Cardinality(Settling') = Cardinality(Settling) + 1
    BY <2>1, FS_AddElement DEF CapInv
  <2>3. 1 \in Nat \ {0} /\ pending' = pending
    OBVIOUS
  <2>4. /\ (spawned + 1)..(spawned + 1) \in SUBSET Handles
        /\ Serving \cup ((spawned + 1)..(spawned + 1)) \subseteq Serving'
        /\ \A h \in (spawned + 1)..(spawned + 1) : h \notin Serving
        /\ \A h \in Handles :
              /\ proc'[h] # "reaped" => info'[h].restarts = 0 /\ info'[h].stamps = 0
              /\ proc'[h] = "running" => ~info'[h].isExiting
    BY <1>3, <2>3, FreshServes
  <2>5. (spawned + 1)..(spawned + 1) = {spawned + 1}
    BY DEF RegInv, TypeOK
  <2>6. Cardinality(Serving') >= Cardinality(Serving) + 1
    BY <1>1, <2>4, <2>5, CapacityMore
  <2> QED BY <1>1, <2>2, <2>4, <2>6, ClusterAssumption DEF CapInv
<1> QED BY <1>2, <1>3 DEF RollLoop

LEMMA CapStep ==
  Undisturbed /\ RegInv /\ CapInv /\ AsGiven /\ [Next]_vars => CapInv'
<1> SUFFICES ASSUME Undisturbed, RegInv, CapInv, AsGiven, [Next]_vars PROVE CapInv'
  OBVIOUS
<1>0. RegInv'
  BY RegStep
<1>1. /\ Serving \in SUBSET Handles /\ Serving' \in SUBSET Handles
      /\ Cardinality(Serving) \in Nat /\ Cardinality(Serving') \in Nat
      /\ IsFiniteSet(Settling) /\ Cardinality(Settling) \in Nat
      /\ info \in [Handles -> WorkerInfo] /\ rolls \in [Rolls -> Roll]
      /\ proc \in [Handles -> ProcStates]
  <2>1. Serving \in SUBSET Handles /\ Serving' \in SUBSET Handles
    BY <1>0 DEF RegInv, TypeOK, Serving, Running, ComingBack
  <2> QED BY <2>1, HandlesFinite, FS_CardinalityType DEF CapInv, RegInv, TypeOK
<1>2. ASSUME Serving \subseteq Serving', UNCHANGED <<rolls, started, shutdown>>,
             \A h \in Handles :
               /\ proc'[h] # "reaped" => info'[h].restarts = 0 /\ info'[h].stamps = 0
               /\ proc'[h] = "running" => ~info'[h].isExiting
      PROVE  CapInv'
  <2>1. Cardinality(Serving) <= Cardinality(Serving')
    BY <1>1, <1>2, CapacityGrows
  <2>2. Settling' = Settling
    BY <1>2 DEF Settling
  <2> QED BY <1>1, <1>2, <2>1, <2>2, ClusterAssumption DEF CapInv
<1>3. CASE Start
  <2>1. Workers \in Nat \ {0} /\ SpawnFresh(Workers) /\ pending' = pending
        /\ UNCHANGED <<rolls, shutdown>> /\ ~started /\ started'
    BY <1>3, ClusterAssumption DEF Start, AsGiven
  <2> DEFINE batch == (spawned + 1)..(spawned + Workers)
  <2>2. /\ batch \in SUBSET Handles
        /\ Serving \cup batch \subseteq Serving'
        /\ \A h \in Handles :
              /\ proc'[h] # "reaped" => info'[h].restarts = 0 /\ info'[h].stamps = 0
              /\ proc'[h] = "running" => ~info'[h].isExiting
    BY <2>1, FreshServes
  <2>3. Cardinality(batch) = Workers
    BY <2>1, FS_Interval DEF RegInv, TypeOK
  <2>4. Cardinality(Serving') >= Workers
    <3>1. batch \subseteq Serving'
      BY <2>2
    <3> HIDE DEF batch
    <3> QED BY <1>1, <2>2, <2>3, <3>1, CapacityGrows
  <2>5. Settling' = {}
    BY <2>1 DEF Settling, CapInv
  <2> QED BY <2>1, <2>2, <2>4, <2>5, FS_EmptySet DEF CapInv
<1>4. ASSUME NEW h \in Handles, ProcessExits(h) PROVE CapInv'
  <2>1. proc' = [proc EXCEPT ![h] = "exited"] /\ h \in Live
        /\ UNCHANGED <<info, pending, rolls, started, shutdown>>
    BY <1>4 DEF ProcessExits
  <2>2. Serving \subseteq Serving'
    BY <1>1, <2>1 DEF Serving, Running, ComingBack, CapInv
  <2>3. \A g \in Handles :
               /\ proc'[g] # "reaped" => info'[g].restarts = 0 /\ info'[g].stamps = 0
               /\ proc'[g] = "running" => ~info'[g].isExiting
    BY <1>1, <2>1 DEF CapInv, Live
  <2> QED BY <1>2, <2>1, <2>2, <2>3
<1>5. ASSUME NEW h \in Handles, HandleWorkerExit(h) PROVE CapInv'
  <2>1. /\ proc[h] = "exited" /\ proc' = [proc EXCEPT ![h] = "reaped"]
        /\ UNCHANGED <<rolls, started, shutdown>>
        /\ \A g \in Handles \ {h} : info'[g] = info[g]
        /\ pending \subseteq pending'
    BY <1>1, <1>5 DEF HandleWorkerExit
  <2>2. \A g \in Handles :
               /\ proc'[g] # "reaped" => info'[g].restarts = 0 /\ info'[g].stamps = 0
               /\ proc'[g] = "running" => ~info'[g].isExiting
    BY <1>1, <2>1 DEF CapInv
  <2>3. CASE shutdown = "none" /\ ~info[h].isExiting
    <3>1. info[h].restarts = 0 /\ info[h].stamps = 0
      BY <2>1 DEF CapInv
    <3>2. \A kept \in 0..info[h].stamps : ShouldRestartWorker(h, kept)
      BY <3>1 DEF ShouldRestartWorker, Undisturbed
    <3>3. h \in pending'
      BY <1>5, <2>3, <3>2 DEF HandleWorkerExit, Undisturbed
    <3>4. Serving \subseteq Serving'
      BY <1>1, <2>1, <3>3 DEF Serving, Running, ComingBack
    <3> QED BY <1>2, <2>1, <2>2, <3>4
  <2>4. CASE info[h].isExiting
    <3>1. Serving \subseteq Serving'
      BY <1>1, <2>1, <2>4 DEF Serving, Running, ComingBack
    <3> QED BY <1>2, <2>1, <2>2, <3>1
  <2>5. CASE shutdown # "none"
    <3>1. Settling' = Settling
      BY <2>1 DEF Settling
    <3> QED BY <1>1, <2>1, <2>2, <2>5, <3>1 DEF CapInv
  <2> QED BY <2>3, <2>4, <2>5
<1>6. ASSUME NEW h \in Handles, Respawn(h) PROVE CapInv'
  <2> DEFINE ids == [n \in {spawned + 1} |-> info[h].id]
  <2>1. PICK failed \in SUBSET {spawned + 1} : SpawnWorkers(ids, failed)
    BY <1>6 DEF Respawn
  <2>2. h \in pending /\ pending' = pending \ {h} /\ spawned \in Nat
        /\ UNCHANGED <<rolls, started, shutdown>>
    BY <1>6 DEF Respawn, RegInv, TypeOK
  <2>3. DOMAIN ids = (spawned + 1)..(spawned + 1) /\ DOMAIN ids = {spawned + 1}
        /\ failed \in SUBSET DOMAIN ids
    BY <2>2
  <2>4. \A n \in DOMAIN ids : ids[n] \in Ids
    BY <2>2, <2>3, SlotStateIs
  <2> HIDE DEF ids
  <2>5. /\ failed = {} /\ spawned + 1 \in Handles
        /\ proc'[spawned + 1] = "running" /\ spawned + 1 \notin Serving
        /\ \A g \in Handles \ {spawned + 1} : proc'[g] = proc[g] /\ info'[g] = info[g]
        /\ \A g \in Handles :
              /\ proc'[g] # "reaped" => info'[g].restarts = 0 /\ info'[g].stamps = 0
              /\ proc'[g] = "running" => ~info'[g].isExiting
    <3>1. 1 \in Nat
      OBVIOUS
    <3> QED BY <2>1, <2>3, <2>4, <3>1, SpawnServes
  <2>6. (Serving \ {h}) \cup {spawned + 1} \subseteq Serving'
    BY <1>1, <2>2, <2>5 DEF Serving, Running, ComingBack
  <2>7. Cardinality(Serving') >= Cardinality(Serving)
    BY <1>1, <2>5, <2>6, CapacitySwap
  <2>8. Settling' = Settling
    BY <2>2 DEF Settling
  <2> QED BY <1>1, <2>2, <2>5, <2>7, <2>8, ClusterAssumption DEF CapInv
<1>7. ASSUME NEW r \in Rolls, RollStart(r) PROVE CapInv'
  <2>1. workers \in SUBSET Handles /\ spawned \in 0..MaxSpawns
        /\ rolls[r].phase # "settling" /\ RollLoop(r, workers, spawned)
        /\ started /\ UNCHANGED <<pending, started, shutdown>>
    BY <1>7 DEF RollStart, RegInv, TypeOK
  <2> QED BY <1>0, <2>1, RollLoopCapacity
<1>8. ASSUME NEW r \in Rolls, RollKill(r) PROVE CapInv'
  <2> DEFINE w == rolls[r].current
  <2>1. /\ rolls[r].phase = "settling" /\ pending' = pending
        /\ info' = MarkExiting({w}) /\ proc' = Terminate({w})
        /\ rolls' = [rolls EXCEPT ![r].phase = "spacing", ![r].current = 0]
        /\ UNCHANGED <<started, shutdown>>
    BY <1>8 DEF RollKill
  <2>2. Settling' = Settling \ {r} /\ r \in Settling
    BY <1>1, <2>1 DEF Settling, Roll
  <2>3. IsFiniteSet(Settling') /\ Cardinality(Settling') = Cardinality(Settling) - 1
    BY <1>1, <2>2, FS_RemoveElement
  <2>4. \A h \in Handles :
               /\ proc'[h] # "reaped" => info'[h].restarts = 0 /\ info'[h].stamps = 0
               /\ proc'[h] = "running" => ~info'[h].isExiting
    BY <1>1, <2>1 DEF CapInv, MarkExiting, Terminate, WorkerInfo
  <2>5. Serving \ {w} \subseteq Serving'
    BY <1>1, <2>1 DEF Serving, Running, ComingBack, MarkExiting, Terminate
  <2>6. Cardinality(Serving') >= Cardinality(Serving) - 1
    BY <1>1, <2>5, CapacityLess
  <2>7. started
    BY <2>1 DEF CapInv
  <2>8. Cardinality(Serving) \in Nat /\ Cardinality(Serving') \in Nat
        /\ Cardinality(Settling) \in Nat /\ Workers \in Nat
    BY <1>1, HandlesFinite, <2>2, FS_CardinalityType, ClusterAssumption DEF CapInv
  <2>9. shutdown = "none" => Cardinality(Serving) >= Workers + Cardinality(Settling)
    BY <2>7 DEF CapInv
  <2>10. shutdown' = "none" => Cardinality(Serving') >= Workers + Cardinality(Settling')
    BY <2>1, <2>3, <2>6, <2>8, <2>9
  <2> QED BY <2>1, <2>3, <2>4, <2>7, <2>10 DEF CapInv
<1>9. ASSUME NEW r \in Rolls, RollNext(r) PROVE CapInv'
  <2>1. rolls[r].queue \in SUBSET Handles /\ rolls[r].upTo \in 0..MaxSpawns
        /\ rolls[r].phase # "settling"
        /\ RollLoop(r, rolls[r].queue, rolls[r].upTo)
        /\ started /\ UNCHANGED <<pending, started, shutdown>>
    BY <1>1, <1>9 DEF RollNext, Roll, CapInv
  <2> QED BY <1>0, <2>1, RollLoopCapacity
<1>10. CASE GracefulShutdown
  <2>1. /\ UNCHANGED <<rolls, started>> /\ started /\ shutdown' # "none"
        /\ info' = MarkExiting(workers) /\ proc' = Terminate(workers)
    BY <1>10 DEF GracefulShutdown
  <2>2. \A h \in Handles : proc[h] = "running" => h \in workers
    BY DEF RegInv, Registry, RegistryIsExact, Unreaped
  <2>3. \A h \in Handles :
               /\ proc'[h] # "reaped" => info'[h].restarts = 0 /\ info'[h].stamps = 0
               /\ proc'[h] = "running" => ~info'[h].isExiting
    BY <1>1, <2>1, <2>2 DEF CapInv, MarkExiting, Terminate, WorkerInfo
  <2>4. Settling' = Settling
    BY <2>1 DEF Settling
  <2> QED BY <1>1, <2>1, <2>3, <2>4 DEF CapInv
<1>11. CASE ShutdownPoll
  <2>1. /\ UNCHANGED <<rolls, started, info, proc>> /\ shutdown' # "none"
    BY <1>11 DEF ShutdownPoll, ShutdownComplete
  <2>2. Settling' = Settling
    BY <2>1 DEF Settling
  <2> QED BY <1>1, <2>1, <2>2 DEF CapInv
<1>12. CASE ShutdownTimeout
  <2>1. /\ UNCHANGED <<rolls, started, info>> /\ shutdown' # "none"
        /\ proc' = Kill(workers)
    BY <1>12 DEF ShutdownTimeout, ShutdownComplete
  <2>2. \A h \in Handles :
               /\ proc'[h] # "reaped" => info'[h].restarts = 0 /\ info'[h].stamps = 0
               /\ proc'[h] = "running" => ~info'[h].isExiting
    BY <1>1, <2>1 DEF CapInv, Kill, Live
  <2>3. Settling' = Settling
    BY <2>1 DEF Settling
  <2> QED BY <1>1, <2>1, <2>2, <2>3 DEF CapInv
<1>13. ASSUME NEW n \in 1..MaxWorkers, ScaleTo(n) PROVE FALSE
  BY <1>13 DEF ScaleTo, Undisturbed
<1>14. ASSUME NEW S, SignalWorkers(S) PROVE FALSE
  BY <1>14 DEF SignalWorkers, Undisturbed
<1>15. CASE UNCHANGED vars
  <2>1. Serving' = Serving /\ UNCHANGED <<rolls, started, shutdown, proc, info>>
    BY <1>15 DEF vars, Serving, Running, ComingBack
  <2> QED BY <1>2, <2>1 DEF CapInv
<1> QED BY <1>3, <1>4, <1>5, <1>6, <1>7, <1>8, <1>9, <1>10, <1>11, <1>12, <1>13,
           <1>14, <1>15 DEF Next

(* While nothing but crashes, rolling restarts and a shutdown happens, the *)
(* cluster never has fewer than the configured number of workers serving   *)
(* or about to be restarted, however many rolls overlap (restartAllWorkers,*)
(* handleWorkerExit).                                                      *)
THEOREM RollingKeepsCapacityHolds ==
  ASSUME Undisturbed
  PROVE  Spec => []RollingKeepsCapacity
<1>1. RegInv /\ CapInv => RollingKeepsCapacity
  <2> SUFFICES ASSUME RegInv, CapInv, started, shutdown = "none"
               PROVE  Cardinality(Serving) >= Workers
    BY DEF RollingKeepsCapacity, Serving
  <2>1. Cardinality(Settling) \in Nat /\ Cardinality(Serving) \in Nat
    BY ServingHandles, HandlesFinite, FS_CardinalityType DEF CapInv, RegInv
  <2> QED BY <2>1, ClusterAssumption DEF CapInv
<1>2. RegInv /\ CapInv /\ AsGiven /\ [Next]_vars => CapInv'
  BY CapStep
<1>3. AsGiven /\ [Next]_vars => AsGiven'
  BY DEF AsGiven, Undisturbed, Next, Start, ProcessExits, HandleWorkerExit, Respawn,
         RollStart, RollKill, RollNext, GracefulShutdown, ShutdownPoll, ShutdownTimeout, ScaleTo,
         SignalWorkers, vars
<1>4. Init => AsGiven
  BY DEF Init, AsGiven
<1> QED BY <1>1, <1>2, <1>3, <1>4, CapInit, RegistryInvariant, PTL DEF Spec

=============================================================================
