--------------------------- MODULE ClusterManager ---------------------------
(***************************************************************************)
(* The master process of a cluster: src/src/cluster/cluster-manager.ts.    *)
(* It spawns worker processes, restarts the ones that crash, rolls them    *)
(* over on SIGUSR2, scales them and shuts them down.                       *)
(*                                                                         *)
(* A HANDLE is one call of spawnWorker: the WorkerInfo and the subprocess  *)
(* it makes.  Handles are numbered in the order of the calls, which is     *)
(* also the insertion order of the `workers` Map, so the Map is a set of   *)
(* handles keyed by the id their WorkerInfo carries.                       *)
(*                                                                         *)
(* spawnWorker never really awaits, so a loop over it is one step of the   *)
(* event loop: timers, signals and exit callbacks run between actions,     *)
(* never inside one.                                                       *)
(***************************************************************************)
EXTENDS Integers, FiniteSets

CONSTANTS
    Workers,          \* config.workers, as the constructor leaves it
    MaxWorkers,       \* bound: the largest target given to scaleTo
    RestartWorkers,   \* config.restartWorkers
    MaxRestarts,      \* config.maxRestarts
    RespawnThreshold, \* config.respawnThreshold
    ExitOnShutdown,   \* config.exitOnShutdown
    MaxSpawns,        \* bound: calls of spawnWorker
    Rolls,            \* bound: the SIGUSR2 deliveries that may happen
    MayCrash,         \* bound: the handles whose process may end by itself
    Events            \* what the environment does: a subset of EventKinds

EventKinds == {"spawnFail", "scale", "signal", "shutdown"}

ASSUME ClusterAssumption ==
    /\ Workers \in Nat \ {0}
    /\ MaxWorkers \in Nat \ {0}
    /\ MaxSpawns \in Nat
    /\ MaxRestarts \in Nat
    /\ RespawnThreshold \in Nat
    /\ RestartWorkers \in BOOLEAN
    /\ ExitOnShutdown \in BOOLEAN
    /\ MayCrash \subseteq 1..MaxSpawns
    /\ Events \subseteq EventKinds

Handles == 1..MaxSpawns
Ids     == 1..MaxSpawns

VARIABLES
    workers,      \* the Map: handles registered under info[h].id
    info,         \* WorkerInfo of each handle
    proc,         \* the subprocess of each handle
    pending,      \* handles whose exit callback waits out the restart delay
    spawned,      \* number of spawnWorker calls so far
    nextWorkerId,
    configured,   \* config.workers: how many start() spawns
    started,
    shutdown,     \* isShuttingDown, and whether gracefulShutdown returned
    timeoutFired, \* the shutdownTimeout timer has run
    exited,       \* the master has called process.exit
    rolls         \* each run of restartAllWorkers

procVars == <<workers, info, proc, spawned, nextWorkerId>>
vars == <<workers, info, proc, pending, spawned, nextWorkerId, configured,
          started, shutdown, timeoutFired, exited, rolls>>

WorkerInfo == [id : Ids \cup {0}, restarts : Nat, stamps : Nat,
               isExiting : BOOLEAN]

(* "exited": ended, its exit callback still to run; "reaped": that ran.    *)
ProcStates == {"none", "failed", "running", "terminating", "killed",
               "exited", "reaped"}
Live   == {h \in Handles : proc[h] \in {"running", "terminating", "killed"}}
Unreaped == {h \in Handles :
                proc[h] \in {"running", "terminating", "killed", "exited"}}

(* queue: the snapshot's handles still to visit; current: the WorkerInfo   *)
(* held across the 250 ms wait; upTo: spawned when the snapshot was taken. *)
Roll == [phase : {"off", "settling", "spacing", "done"},
         queue : SUBSET Handles, current : Handles \cup {0},
         upTo : 0..MaxSpawns]

Blank == [id |-> 0, restarts |-> 0, stamps |-> 0, isExiting |-> FALSE]
NewWorkerInfo(id) == [Blank EXCEPT !.id = id]

Init ==
    /\ workers = {}
    /\ info = [h \in Handles |-> Blank]
    /\ proc = [h \in Handles |-> "none"]
    /\ pending = {}
    /\ spawned = 0
    /\ nextWorkerId = 1
    /\ configured = Workers
    /\ started = FALSE
    /\ shutdown = "none"
    /\ timeoutFired = FALSE
    /\ exited = FALSE
    /\ rolls = [r \in Rolls |-> [phase |-> "off", queue |-> {},
                                 current |-> 0, upTo |-> 0]]

-----------------------------------------------------------------------------
(* Calls of spawnWorker: handle h takes the id ids[h], for h in its        *)
(* domain; those in `failed` throw inside spawn and are only logged.       *)
SpawnWorkers(ids, failed) ==
    LET batch == DOMAIN ids
        up    == batch \ failed
    IN  /\ batch \subseteq Handles
        /\ failed = {} \/ "spawnFail" \in Events
        /\ workers' = {w \in workers : \A h \in up : info[w].id # ids[h]} \cup up
        /\ info' = [h \in Handles |->
                        IF h \in batch THEN NewWorkerInfo(ids[h]) ELSE info[h]]
        /\ proc' = [h \in Handles |->
                        IF h \in up THEN "running"
                        ELSE IF h \in failed THEN "failed" ELSE proc[h]]

(* Mutant: nextWorkerId is read but not advanced.                          *)
SpawnFreshSameId(n) ==
    LET batch == (spawned + 1)..(spawned + n)
    IN  /\ SpawnWorkers([h \in batch |-> nextWorkerId + (h - spawned - 1)], {})
        /\ spawned' = spawned + n
        /\ UNCHANGED nextWorkerId

(* Mutant: an id is taken once more when the spawn fails.                  *)
SpawnFreshRetry(n) ==
    LET batch == (spawned + 1)..(spawned + n)
    IN  /\ \E failed \in SUBSET batch :
              /\ SpawnWorkers([h \in batch |-> nextWorkerId + (h - spawned - 1)],
                              failed)
              /\ nextWorkerId' = nextWorkerId + n + Cardinality(failed)
        /\ spawned' = spawned + n

(* n calls of spawnWorker(): each takes a new id, even if it then fails.   *)
SpawnFresh(n) ==
    LET batch == (spawned + 1)..(spawned + n)
    IN  /\ \E failed \in SUBSET batch :
              SpawnWorkers([h \in batch |-> nextWorkerId + (h - spawned - 1)],
                           failed)
        /\ spawned' = spawned + n
        /\ nextWorkerId' = nextWorkerId + n

(* kill('SIGTERM') and kill('SIGKILL'): nothing to a process that ended.   *)
Terminate(S) == [h \in Handles |->
    IF h \in S /\ proc[h] = "running" THEN "terminating" ELSE proc[h]]
KillPolitely(S) == Terminate(S) \* mutant: the timeout sends SIGTERM again
Kill(S) == [h \in Handles |->
    IF h \in S /\ h \in Live THEN "killed" ELSE proc[h]]
MarkExiting(S) == [h \in Handles |->
    IF h \in S THEN [info[h] EXCEPT !.isExiting = TRUE] ELSE info[h]]

Start ==
    /\ ~exited /\ ~started
    /\ started' = TRUE
    /\ SpawnFresh(configured)
    /\ UNCHANGED <<pending, configured, shutdown, timeoutFired, exited, rolls>>

(* A worker process ends: by itself, or after a signal.                    *)
ProcessExits(h) ==
    /\ h \in Live
    /\ proc[h] = "running" => h \in MayCrash
    /\ proc' = [proc EXCEPT ![h] = "exited"]
    /\ UNCHANGED <<workers, info, pending, spawned, nextWorkerId, configured,
                   started, shutdown, timeoutFired, exited, rolls>>

(* shouldRestartWorker: kept is how many stamps the sliding window keeps.  *)
ShouldRestartWorker(h, kept) ==
    /\ info[h].restarts < MaxRestarts
    /\ kept < RespawnThreshold

(* The exit callback, up to the await of the restart delay.                *)
HandleWorkerExit(h) ==
    /\ ~exited /\ proc[h] = "exited"
    /\ proc' = [proc EXCEPT ![h] = "reaped"]
    /\ workers' = {w \in workers : info[w].id # info[h].id}
    /\ \/ /\ shutdown # "none" \/ info[h].isExiting \/ ~RestartWorkers
          /\ UNCHANGED <<info, pending>>
       \/ /\ shutdown = "none" /\ ~info[h].isExiting /\ RestartWorkers
          /\ \E kept \in 0..info[h].stamps :
                \/ ~ShouldRestartWorker(h, kept) /\ UNCHANGED <<info, pending>>
                \/ /\ ShouldRestartWorker(h, kept)
                   /\ info' = [info EXCEPT ![h].restarts = @ + 1,
                                           ![h].stamps = kept + 1]
                   /\ pending' = pending \cup {h}
    /\ UNCHANGED <<spawned, nextWorkerId, configured, started, shutdown,
                   timeoutFired, exited, rolls>>

(* Mutant: the restart takes a new id.                                     *)
RespawnNewId(h) ==
    /\ ~exited /\ h \in pending
    /\ pending' = pending \ {h}
    /\ SpawnFresh(1)
    /\ UNCHANGED <<configured, started, shutdown, timeoutFired, exited, rolls>>

(* The exit callback after the delay: spawnWorker(id), the same id.        *)
Respawn(h) ==
    /\ ~exited /\ h \in pending
    /\ pending' = pending \ {h}
    /\ \E failed \in SUBSET {spawned + 1} :
          SpawnWorkers([n \in {spawned + 1} |-> info[h].id], failed)
    /\ spawned' = spawned + 1
    /\ UNCHANGED <<nextWorkerId, configured, started, shutdown, timeoutFired,
                   exited, rolls>>

-----------------------------------------------------------------------------
(* restartAllWorkers.  The loop resumes at the first queued id still in    *)
(* the Map, spawns a replacement under a new id and holds the WorkerInfo.  *)
RollLoop(r, queue, upTo) ==
    LET todo == {q \in queue : \E w \in workers : info[w].id = info[q].id}
    IN  \/ /\ todo = {}
           /\ rolls' = [rolls EXCEPT ![r] = [phase |-> "done", queue |-> {},
                                             current |-> 0, upTo |-> upTo]]
           /\ UNCHANGED procVars
        \/ \E q \in todo, w \in workers :
              /\ \A x \in todo : q <= x
              /\ info[w].id = info[q].id
              /\ rolls' = [rolls EXCEPT ![r] =
                    [phase |-> "settling", queue |-> {x \in queue : x > q},
                     current |-> w, upTo |-> upTo]]
              /\ SpawnFresh(1)

RollStart(r) ==
    /\ ~exited /\ started /\ shutdown # "complete"
    /\ rolls[r].phase = "off"
    /\ RollLoop(r, workers, spawned)
    /\ UNCHANGED <<pending, configured, started, shutdown, timeoutFired,
                   exited>>

(* Mutant: the reference to the old worker is dropped before the kill.     *)
RollKillNobody(r) ==
    /\ ~exited /\ rolls[r].phase = "settling"
    /\ rolls' = [rolls EXCEPT ![r].phase = "spacing", ![r].current = 0]
    /\ UNCHANGED <<procVars, pending, configured, started, shutdown,
                   timeoutFired, exited>>

(* Mutant: every worker is marked as exiting, not only the one stopped.    *)
RollKillMarksAll(r) ==
    /\ ~exited /\ rolls[r].phase = "settling"
    /\ info' = MarkExiting(workers)
    /\ proc' = Terminate({rolls[r].current})
    /\ rolls' = [rolls EXCEPT ![r].phase = "spacing", ![r].current = 0]
    /\ UNCHANGED <<workers, pending, spawned, nextWorkerId, configured,
                   started, shutdown, timeoutFired, exited>>

RollKill(r) ==
    /\ ~exited /\ rolls[r].phase = "settling"
    /\ info' = MarkExiting({rolls[r].current})
    /\ proc' = Terminate({rolls[r].current})
    /\ rolls' = [rolls EXCEPT ![r].phase = "spacing", ![r].current = 0]
    /\ UNCHANGED <<workers, pending, spawned, nextWorkerId, configured,
                   started, shutdown, timeoutFired, exited>>

(* Mutant: the loop walks the live Map instead of the snapshot.            *)
RollNextLive(r) ==
    /\ ~exited /\ rolls[r].phase = "spacing"
    /\ RollLoop(r, workers, rolls[r].upTo)
    /\ UNCHANGED <<pending, configured, started, shutdown, timeoutFired,
                   exited>>

RollNext(r) ==
    /\ ~exited /\ rolls[r].phase = "spacing"
    /\ RollLoop(r, rolls[r].queue, rolls[r].upTo)
    /\ UNCHANGED <<pending, configured, started, shutdown, timeoutFired,
                   exited>>

-----------------------------------------------------------------------------
(* gracefulShutdown, from SIGINT or SIGTERM, up to its Promise.race.       *)
GracefulShutdown ==
    /\ "shutdown" \in Events
    /\ ~exited /\ started /\ shutdown = "none"
    /\ shutdown' = "draining"
    /\ exited' = (workers = {})
    /\ info' = MarkExiting(workers)
    /\ proc' = Terminate(workers)
    /\ UNCHANGED <<workers, pending, spawned, nextWorkerId, configured,
                   started, timeoutFired, rolls>>

(* Mutant: the exitOnShutdown option is never read.                        *)
ShutdownCompleteStay ==
    /\ shutdown' = "complete"
    /\ UNCHANGED exited

ShutdownComplete ==
    /\ shutdown' = "complete"
    /\ exited' = ExitOnShutdown

(* checkWorkers, the 100 ms poll, finds the Map empty.                     *)
ShutdownPoll ==
    /\ ~exited /\ shutdown = "draining" /\ workers = {}
    /\ ShutdownComplete
    /\ UNCHANGED <<workers, info, proc, pending, spawned, nextWorkerId,
                   configured, started, timeoutFired, rolls>>

(* The shutdownTimeout timer: never cleared, so it also runs after the     *)
(* poll has won the race.                                                  *)
ShutdownTimeout ==
    /\ ~exited /\ shutdown # "none" /\ ~timeoutFired
    /\ timeoutFired' = TRUE
    /\ proc' = Kill(workers)
    /\ IF shutdown = "draining" THEN ShutdownComplete
                                ELSE UNCHANGED <<shutdown, exited>>
    /\ UNCHANGED <<workers, info, pending, spawned, nextWorkerId, configured,
                   started, rolls>>

-----------------------------------------------------------------------------
(* scaleTo(desired), also through scaleUp and scaleDown.                   *)
ScaleTo(desired) ==
    LET current == Cardinality(workers) IN
    /\ "scale" \in Events
    /\ ~exited
    /\ configured' = IF desired = current THEN configured ELSE desired
    /\ \/ desired = current /\ UNCHANGED procVars
       \/ desired > current /\ SpawnFresh(desired - current)
       \/ /\ desired < current
          /\ \E oldest \in SUBSET workers :
                /\ Cardinality(oldest) = current - desired
                /\ \A x \in oldest, y \in workers \ oldest : x < y
                /\ info' = MarkExiting(oldest)
                /\ proc' = Terminate(oldest)
          /\ UNCHANGED <<workers, spawned, nextWorkerId>>
    /\ UNCHANGED <<pending, started, shutdown, timeoutFired, exited, rolls>>

(* broadcastSignal('SIGTERM') and sendSignalToWorker(id, 'SIGTERM').       *)
SignalWorkers(S) ==
    /\ "signal" \in Events
    /\ ~exited
    /\ proc' = Terminate(S)
    /\ UNCHANGED <<workers, info, pending, spawned, nextWorkerId, configured,
                   started, shutdown, timeoutFired, exited, rolls>>

Next ==
    \/ Start
    \/ \E h \in Handles : ProcessExits(h)
    \/ \E h \in Handles : HandleWorkerExit(h)
    \/ \E h \in Handles : Respawn(h)
    \/ \E r \in Rolls : RollStart(r)
    \/ \E r \in Rolls : RollKill(r)
    \/ \E r \in Rolls : RollNext(r)
    \/ GracefulShutdown
    \/ ShutdownPoll
    \/ ShutdownTimeout
    \/ \E n \in 1..MaxWorkers : ScaleTo(n)
    \/ \E S \in {workers} \cup {{w} : w \in workers} : SignalWorkers(S)

Spec == Init /\ [][Next]_vars

(* The event loop runs every due timer and callback, and the kernel ends a *)
(* process that got SIGKILL.  A worker may ignore SIGTERM for ever.        *)
Fairness ==
    /\ \A h \in Handles :
          /\ WF_vars(HandleWorkerExit(h))
          /\ WF_vars(Respawn(h))
          /\ WF_vars(proc[h] = "killed" /\ ProcessExits(h))
    /\ \A r \in Rolls : WF_vars(RollKill(r)) /\ WF_vars(RollNext(r))
    /\ WF_vars(ShutdownPoll)
    /\ WF_vars(ShutdownTimeout)

FairSpec == Spec /\ Fairness

-----------------------------------------------------------------------------
TypeOK ==
    /\ workers \in SUBSET Handles
    /\ info \in [Handles -> WorkerInfo]
    /\ proc \in [Handles -> ProcStates]
    /\ pending \in SUBSET Handles
    /\ spawned \in 0..MaxSpawns
    /\ nextWorkerId \in 1..(spawned + 1)
    /\ configured \in Nat \ {0}
    /\ started \in BOOLEAN
    /\ shutdown \in {"none", "draining", "complete"}
    /\ timeoutFired \in BOOLEAN
    /\ exited \in BOOLEAN
    /\ rolls \in [Rolls -> Roll]

-----------------------------------------------------------------------------
Running == {h \in Handles : proc[h] = "running"}

(* The Map holds exactly the workers whose exit callback has not run: no   *)
(* process is lost to the master and no dead one is counted, although the  *)
(* callback deletes by id (line 272) an id that a respawn takes again.     *)
RegistryIsExact == workers = Unreaped

(* A worker id names at most one process or scheduled restart: a restart   *)
(* under the old id (line 300) never displaces a worker of the Map.        *)
OneProcessPerId ==
    \A g, h \in workers \cup pending : info[g].id = info[h].id => g = h

(* When the master exits it leaves no worker serving on its own: whatever  *)
(* was spawned while the shutdown was draining is killed with the rest.    *)
NoOrphans == exited => \A h \in Live : proc[h] = "killed"

(* A finished rolling restart leaves none of the processes that ran when   *)
(* SIGUSR2 arrived still serving, crashes and restarts in between or not.  *)
RollReplacesOld ==
    \A r \in Rolls : rolls[r].phase = "done" =>
        \A h \in 1..rolls[r].upTo : proc[h] # "running"

(* Crashes and overlapping rolling restarts together never cost a worker:  *)
(* at least the configured number is serving or about to be restarted.     *)
ComingBack == pending \cup {h \in Handles : proc[h] = "exited" /\ ~info[h].isExiting}

RollingKeepsCapacity ==
    started /\ shutdown = "none" => Cardinality(Running \cup ComingBack) >= Workers

(* Every rolling restart ends, also when others overlap with it and add    *)
(* workers to the Map it walks.                                            *)
RollsFinish ==
    \A r \in Rolls :
        rolls[r].phase # "off" ~> (rolls[r].phase = "done" \/ exited)

(* A shutdown with exitOnShutdown brings the whole cluster down, even when *)
(* workers ignore SIGTERM, crash or are spawned while it drains.           *)
ShutdownTerminates == shutdown # "none" ~> (exited /\ Live = {})

(* The cluster keeps the promise of WorkerSlots about its ids.             *)
SlotState(i) ==
    IF \E h \in workers : info[h].id = i THEN "up"
    ELSE IF \E h \in pending : info[h].id = i THEN "backoff"
    ELSE IF i < nextWorkerId THEN "gone" ELSE "unused"

Slots == INSTANCE WorkerSlots WITH
            Slots <- Ids,
            slot <- [i \in Ids |-> SlotState(i)],
            next <- nextWorkerId,
            closing <- shutdown # "none"

KeepsSlots == Slots!Spec

-----------------------------------------------------------------------------
(* What documents and comments of the repository say, and the code does    *)
(* not do.                                                                 *)

(* gateway.ts:38, "Maximum number of restart attempts per worker before    *)
(* giving up": an id is spawned at most 1 + maxRestarts times.             *)
RestartsBounded ==
    \A h \in 1..spawned :
        Cardinality({g \in 1..spawned : info[g].id = info[h].id}) <= 1 + MaxRestarts

(* cluster-manager.ts:274, "Don't restart if we're shutting down or worker *)
(* was intentionally killed".                                              *)
RestartsOnlyIfWanted ==
    [][\A h \in Handles : Respawn(h) => shutdown = "none" /\ ~info[h].isExiting]_vars

=============================================================================
