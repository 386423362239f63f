-------------------------- MODULE UpdateLifecycle ---------------------------
(***************************************************************************)
(* What scheduled updates promise, without server, device, files or        *)
(* requests: a job is scheduled, then cancelled, expired or permitted; a   *)
(* permitted job is executed at most once; and its result tells whether    *)
(* its release was kept.  ClientUpdate implements this specification.      *)
(***************************************************************************)
EXTENDS Naturals

CONSTANT Jobs

VARIABLES
    phase,   \* phase[j]: where job j is
    begun,   \* begun[j]: executions of job j that were started
    kept     \* jobs whose release is in place and healthy

lifecycleVars == <<phase, begun, kept>>

LifecycleInit ==
    /\ phase = [j \in Jobs |-> "absent"]
    /\ begun = [j \in Jobs |-> 0]
    /\ kept = {}

(* A new job; older jobs that were never started may expire with it.       *)
Schedule(j, overdue) ==
    /\ phase[j] = "absent"
    /\ \A p \in overdue : phase[p] = "scheduled"
    /\ phase' = [p \in Jobs |-> IF p = j THEN "scheduled"
                                ELSE IF p \in overdue THEN "expired"
                                ELSE phase[p]]
    /\ UNCHANGED <<begun, kept>>

(* Cancellation, expiry and permission exclude each other.                 *)
Leave(j, to) ==
    /\ phase[j] = "scheduled" /\ to \in {"cancelled", "expired", "dispatched"}
    /\ phase' = [phase EXCEPT ![j] = to]
    /\ UNCHANGED <<begun, kept>>

(* The only execution of a permitted job.                                  *)
Begin(j) ==
    /\ phase[j] = "dispatched" /\ begun[j] = 0
    /\ begun' = [begun EXCEPT ![j] = 1]
    /\ UNCHANGED <<phase, kept>>

Keep(j) ==
    /\ phase[j] = "dispatched" /\ begun[j] = 1
    /\ kept' = kept \cup {j}
    /\ UNCHANGED <<phase, begun>>

Undo(j) ==
    /\ phase[j] = "dispatched" /\ begun[j] = 1
    /\ kept' = kept \ {j}
    /\ UNCHANGED <<phase, begun>>

(* A success is reported of a release in place, a failure of one that is   *)
(* not; a permitted job that never began can only have failed.             *)
Report(j, to) ==
    /\ phase[j] = "dispatched"
    /\ \/ to = "succeeded" /\ j \in kept
       \/ to = "failed" /\ j \notin kept
    /\ phase' = [phase EXCEPT ![j] = to]
    /\ UNCHANGED <<begun, kept>>

LifecycleNext ==
    \E j \in Jobs :
        \/ \E overdue \in SUBSET Jobs : Schedule(j, overdue)
        \/ \E to \in {"cancelled", "expired", "dispatched"} : Leave(j, to)
        \/ Begin(j) \/ Keep(j) \/ Undo(j)
        \/ \E to \in {"succeeded", "failed"} : Report(j, to)

LifecycleSpec == LifecycleInit /\ [][LifecycleNext]_lifecycleVars
=============================================================================
