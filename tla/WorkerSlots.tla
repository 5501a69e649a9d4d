---------------------------- MODULE WorkerSlots ----------------------------
(***************************************************************************)
(* What a ClusterManager promises about worker ids, without processes,     *)
(* signals or timers.  Ids are handed out in order and never twice; an id  *)
(* is in service, waiting to be restarted, or gone for good; once the      *)
(* cluster is closing no id starts to wait for a restart any more.         *)
(***************************************************************************)
EXTENDS Integers

CONSTANT Slots \* the ids, 1..n

VARIABLES slot, next, closing

slotVars == <<slot, next, closing>>

Init ==
    /\ slot = [i \in Slots |-> "unused"]
    /\ next = 1
    /\ closing = FALSE

(* n new ids are taken; the processes of those in `failed` never start.    *)
Open(n) ==
    /\ next' = next + n
    /\ \E failed \in SUBSET (next..(next + n - 1)) :
          slot' = [i \in Slots |->
                      IF i \in failed THEN "gone"
                      ELSE IF i \in next..(next + n - 1) THEN "up" ELSE slot[i]]
    /\ UNCHANGED closing

Retire(i) ==
    /\ slot[i] = "up"
    /\ slot' = [slot EXCEPT ![i] = "gone"]
    /\ UNCHANGED <<next, closing>>

BackOff(i) ==
    /\ ~closing /\ slot[i] = "up"
    /\ slot' = [slot EXCEPT ![i] = "backoff"]
    /\ UNCHANGED <<next, closing>>

Return(i) ==
    /\ slot[i] = "backoff"
    /\ \E s \in {"up", "gone"} : slot' = [slot EXCEPT ![i] = s]
    /\ UNCHANGED <<next, closing>>

Close ==
    /\ closing' = TRUE
    /\ UNCHANGED <<slot, next>>

Next ==
    \/ \E n \in Slots : Open(n)
    \/ \E i \in Slots : Retire(i) \/ BackOff(i) \/ Return(i)
    \/ Close

Spec == Init /\ [][Next]_slotVars

=============================================================================
