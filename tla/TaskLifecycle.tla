---------------------------- MODULE TaskLifecycle ----------------------------
(***************************************************************************)
(* What the persistent task queue promises about ONE row of task_runs,     *)
(* whoever calls it and in whatever order: a run moves only along the      *)
(* edges below, a finished run never moves again, and a run is started at  *)
(* most as many times as its attempt budget says.                          *)
(*                                                                         *)
(*        none --> pending <--> running --> completed | failed             *)
(*                    \            |                                       *)
(*                     +------> cancelled                                  *)
(*                                                                         *)
(* A run can be deleted, after which its key may be given to another run.  *)
(* That it is over by then is for those to see to who delete it.           *)
(* TaskQueue implements this specification (TaskQueue!Lifecycle).          *)
(***************************************************************************)
EXTENDS Naturals

CONSTANTS
  TaskRunId,                \* primary keys of task_runs
  Budgets                   \* the attempt budgets a run may be created with

VARIABLES
  phase,                    \* where the run with each key is in its life
  starts,                   \* how many times that run was handed to a worker
  budget                    \* the attempt budget that run was created with

vars == <<phase, starts, budget>>

Finished == {"completed", "failed", "cancelled"}
Phase == {"none", "pending", "running"} \cup Finished

Init ==
  /\ phase = [t \in TaskRunId |-> "none"]
  /\ starts = [t \in TaskRunId |-> 0]
  /\ budget = [t \in TaskRunId |-> 0]

Move(t, to) == phase' = [phase EXCEPT ![t] = to]

Create(t) ==
  /\ phase[t] = "none"
  /\ Move(t, "pending")
  /\ \E b \in Budgets : budget' = [budget EXCEPT ![t] = b]
  /\ UNCHANGED starts

Start(t) ==
  /\ phase[t] = "pending"
  /\ starts[t] < budget[t]
  /\ Move(t, "running")
  /\ starts' = [starts EXCEPT ![t] = @ + 1]
  /\ UNCHANGED budget

Retry(t) ==
  /\ phase[t] = "running"
  /\ starts[t] < budget[t]
  /\ Move(t, "pending")
  /\ UNCHANGED <<starts, budget>>

Finish(t) ==
  /\ phase[t] = "running"
  /\ \E end \in {"completed", "failed"} : Move(t, end)
  /\ UNCHANGED <<starts, budget>>

Cancel(t) ==
  /\ phase[t] \in {"pending", "running"}
  /\ Move(t, "cancelled")
  /\ UNCHANGED <<starts, budget>>

Delete(S) ==
  LET cleared(f, value) == [t \in TaskRunId |-> IF t \in S THEN value ELSE f[t]] IN
  /\ phase' = cleared(phase, "none")
  /\ starts' = cleared(starts, 0)
  /\ budget' = cleared(budget, 0)

Next ==
  \/ \E t \in TaskRunId : \/ Create(t) \/ Start(t) \/ Retry(t)
                          \/ Finish(t) \/ Cancel(t)
  \/ \E S \in SUBSET TaskRunId : Delete(S)

Spec == Init /\ [][Next]_vars

=============================================================================
