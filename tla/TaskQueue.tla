------------------------------- MODULE TaskQueue -------------------------------
(***************************************************************************)
(* The persistent task queue: the rows of table task_runs and every        *)
(* operation that changes them (internal/queue/queue.go, the deletion      *)
(* handlers of transport/task_run.go and the start-up clean-up of          *)
(* cmd/server/main.go).                                                    *)
(*                                                                         *)
(* Each operation runs in one database transaction (or one statement), so  *)
(* it is one action; an operation that returns an error rolls back and     *)
(* leaves the table alone, which is a stuttering step here.  Nothing is    *)
(* assumed about the callers: any operation may be called on any run at    *)
(* any time, with any worker name.                                         *)
(*                                                                         *)
(* Abstractions.  clock counts periods of 10 seconds, the unit of          *)
(* retryDelay.  A run keeps only the columns an operation tests or a       *)
(* property reads; end time, duration, progress counters, the error text   *)
(* and the payload are left out.                                           *)
(*                                                                         *)
(* A primary key is SQLite's rowid, one more than the largest key in the   *)
(* table: the key of a deleted run may be given again to a later one.  The *)
(* code knows runs by their keys only; serial tells them apart.            *)
(***************************************************************************)
EXTENDS Naturals, FiniteSets

CONSTANTS
  MaxTaskRuns,        \* bound of the model: how many runs are ever created,
                      \* and so of their keys
  JobIds,             \* the jobs runs are created for
  WorkerIds,          \* worker names (WorkerConfig.WorkerID), never ""
  DedupKeys,          \* values of the dedup_key column
  Null,               \* an empty column
  Priorities,         \* priorities a caller passes; 0 asks for the default
  AttemptLimits,      \* max_attempts a caller passes; 0 asks for the default
  StartDelays,        \* how far in the future available_at may be set
  MaxClock            \* bound of the model: the clock stops here, unless a
                      \* run waits for a later time

ASSUME NullAssumption == Null \notin JobIds \cup WorkerIds \cup DedupKeys
ASSUME InputsAssumption ==
  /\ Priorities \subseteq Nat
  /\ AttemptLimits \subseteq Nat
  /\ StartDelays \subseteq Nat
  /\ MaxTaskRuns \in Nat
  /\ MaxClock \in Nat

TaskRunIds == 1..MaxTaskRuns    \* primary keys of task_runs

VARIABLES
  task,               \* task[t]: the row with primary key t
  created,            \* history: how many runs were ever created
  serial,             \* history: which of those has key t, counted from 1; 0 for none
  clock,              \* time.Now(), in periods of 10 seconds
  starts,             \* history: how often ClaimNext handed t to a worker
  failedAt            \* history: when t last failed with a retry granted

queueVars == <<task, created, serial, clock, starts, failedAt>>

(***************************************************************************)
(* Row values.                                                             *)
(***************************************************************************)
Active == {"pending", "running"}
Terminal == {"completed", "failed", "cancelled"}
Status == {"none"} \cup Active \cup Terminal

\* FailureRetryable, FailurePermanent, FailureCancelled; main.go adds
\* "interrupted", and "" means no failure.
ErrorKinds == {"retryable", "permanent", "cancelled"}
FailureKinds == ErrorKinds \cup {"interrupted", ""}

TaskPriorityNormal == 2
DefaultMaxAttempts == 3

\* The keys present in the table, and those of them in one of the given states.
Rows == {t \in TaskRunIds : task[t].status # "none"}
InState(S) == {t \in TaskRunIds : task[t].status \in S}
ActiveRunsOf(j) == {t \in InState(Active) : task[t].job = j}

\* TaskStatus.CanTransitionTo.
CanTransition(from, to) ==
  \/ from = "pending" /\ to \in {"running", "cancelled"}
  \/ from = "running" /\ to \in {"completed", "failed", "cancelled", "pending"}
  \/ from = "failed"  /\ to \in {"running", "pending"}

\* retryDelay: 10s per failed attempt, at most 5 minutes, never less than 10s.
RetryDelay(attempts) ==
  IF attempts = 0 THEN 1 ELSE IF attempts > 30 THEN 30 ELSE attempts

\* A key that has no row.
NoRow ==
  [status |-> "none", job |-> Null, priority |-> 0, availableAt |-> 0,
   attempts |-> 0, maxAttempts |-> 0, dedupKey |-> Null, workerId |-> Null,
   failureKind |-> "", startedAt |-> 0]

QueueInit ==
  /\ task = [t \in TaskRunIds |-> NoRow]
  /\ created = 0
  /\ serial = [t \in TaskRunIds |-> 0]
  /\ clock = 0
  /\ starts = [t \in TaskRunIds |-> 0]
  /\ failedAt = [t \in TaskRunIds |-> 0]

(***************************************************************************)
(* Operations.  A definition named ..._Bug is the one after it with a      *)
(* plausible mistake; no specification uses it, and putting it in place of *)
(* the real one makes TLC refute the property that guards against it.      *)
(***************************************************************************)

\* The unique index on dedup_key.
KeyTaken(key) == \E u \in Rows : task[u].dedupKey = key

\* The key SQLite gives the next row: one more than the largest there is.
IsNextId(t) == (\A u \in Rows : u < t) /\ (t = 1 \/ t - 1 \in Rows)

\* Enqueue: zero values get their defaults; a dedup key some row already has
\* violates the unique index and the call returns ErrDuplicateTask.
Enqueue(j, key, prio, limit, delay) ==
  /\ created < MaxTaskRuns
  /\ ~KeyTaken(key)
  /\ created' = created + 1
  /\ \E t \in TaskRunIds :
       /\ IsNextId(t)
       /\ serial' = [serial EXCEPT ![t] = created + 1]
       /\ task' = [task EXCEPT ![t] =
            [status      |-> "pending",
             job         |-> j,
             priority    |-> IF prio = 0 THEN TaskPriorityNormal ELSE prio,
             availableAt |-> clock + delay,
             attempts    |-> 0,
             maxAttempts |-> IF limit = 0 THEN DefaultMaxAttempts ELSE limit,
             dedupKey    |-> key,
             workerId    |-> Null,
             failureKind |-> "",
             startedAt   |-> 0]]
  /\ UNCHANGED <<clock, starts, failedAt>>

Before_Bug(t, u) == task[t].priority <= task[u].priority /\ u < t

\* ORDER BY priority ASC, available_at ASC, id ASC.
Before(t, u) ==
  \/ task[t].priority < task[u].priority
  \/ /\ task[t].priority = task[u].priority
     /\ \/ task[t].availableAt < task[u].availableAt
        \/ task[t].availableAt = task[u].availableAt /\ t < u

Claimable == {t \in InState({"pending"}) : task[t].availableAt <= clock}

\* The claim is not written.
ClaimNext_Bug(t, w) ==
  /\ t \in Claimable
  /\ starts' = [starts EXCEPT ![t] = @ + 1]
  /\ UNCHANGED <<task, created, serial, clock, failedAt>>

\* ClaimNext: the first claimable row becomes running.  With no claimable row
\* the call returns nil and the table is unchanged.
ClaimNext(t, w) ==
  /\ t \in Claimable
  /\ \A u \in Claimable \ {t} : Before(t, u)
  /\ CanTransition(task[t].status, "running")
  /\ task' = [task EXCEPT ![t].status = "running",
                          ![t].workerId = w,
                          ![t].startedAt = clock]
  /\ starts' = [starts EXCEPT ![t] = @ + 1]
  /\ UNCHANGED <<created, serial, clock, failedAt>>

\* Complete: checked against CanTransitionTo, then WHERE status = 'running'.
Complete(t) ==
  /\ CanTransition(task[t].status, "completed")
  /\ task[t].status = "running"
  /\ task' = [task EXCEPT ![t].status = "completed", ![t].failureKind = ""]
  /\ UNCHANGED <<created, serial, clock, starts, failedAt>>

\* A max_attempts of 0 in the row counts as 3.
EffectiveLimit(t) ==
  IF task[t].maxAttempts = 0 THEN DefaultMaxAttempts ELSE task[t].maxAttempts

Retries_Bug(t, kind) == kind = "retryable" /\ task[t].attempts < EffectiveLimit(t)
Retries(t, kind) == kind = "retryable" /\ task[t].attempts + 1 < EffectiveLimit(t)

\* Fail, first branch: back to pending, to be claimed after the retry delay.
FailRetry(t, kind) ==
  /\ Retries(t, kind)
  /\ CanTransition(task[t].status, "pending")
  /\ task[t].status = "running"
  /\ task' = [task EXCEPT ![t].attempts = @ + 1,
                          ![t].failureKind = kind,
                          ![t].status = "pending",
                          ![t].availableAt = clock + RetryDelay(task[t].attempts + 1),
                          ![t].startedAt = 0,
                          ![t].workerId = Null]
  /\ failedAt' = [failedAt EXCEPT ![t] = clock]
  /\ UNCHANGED <<created, serial, clock, starts>>

\* Fail, second branch: the run is over.
FailFinal(t, kind) ==
  /\ ~Retries(t, kind)
  /\ CanTransition(task[t].status, "failed")
  /\ task[t].status = "running"
  /\ task' = [task EXCEPT ![t].attempts = @ + 1,
                          ![t].failureKind = kind,
                          ![t].status = "failed"]
  /\ UNCHANGED <<created, serial, clock, starts, failedAt>>

Fail(t, kind) == FailRetry(t, kind) \/ FailFinal(t, kind)

\* The status is not looked at.
Cancel_Bug(t) ==
  /\ t \in Rows
  /\ task' = [task EXCEPT ![t].status = "cancelled", ![t].failureKind = "cancelled"]
  /\ UNCHANGED <<created, serial, clock, starts, failedAt>>

\* Cancel: pending and running runs only.
Cancel(t) ==
  /\ CanTransition(task[t].status, "cancelled")
  /\ task[t].status \in {"pending", "running"}
  /\ task' = [task EXCEPT ![t].status = "cancelled", ![t].failureKind = "cancelled"]
  /\ UNCHANGED <<created, serial, clock, starts, failedAt>>

\* The transaction of DeleteTaskRun (S a singleton) and BatchDeleteTaskRuns:
\* whatever rows have these keys by then, in whatever state.  (The handlers have
\* looked at what they found before: JobControl.)
DeleteTaskRuns(S) ==
  /\ task' = [t \in TaskRunIds |-> IF t \in S THEN NoRow ELSE task[t]]
  /\ LET without(f) == [t \in TaskRunIds |-> IF t \in S THEN 0 ELSE f[t]] IN
       /\ serial' = without(serial)
       /\ starts' = without(starts)
       /\ failedAt' = without(failedAt)
  /\ UNCHANGED <<created, clock>>

\* cleanupInterruptedTasks, one row: a run left running by a dead process.
\* The statement itself tests nothing but the id; the row was listed as running.
Interrupt(t) ==
  /\ task[t].status = "running"
  /\ task' = [task EXCEPT ![t].status = "failed", ![t].failureKind = "interrupted"]
  /\ UNCHANGED <<created, serial, clock, starts, failedAt>>

\* Time passes.
Tick ==
  /\ clock < MaxClock \/ \E t \in InState({"pending"}) : task[t].availableAt > clock
  /\ clock' = clock + 1
  /\ UNCHANGED <<task, created, serial, starts, failedAt>>

QueueNext ==
  \/ \E j \in JobIds, k \in DedupKeys, p \in Priorities, l \in AttemptLimits,
        d \in StartDelays : Enqueue(j, k, p, l, d)
  \/ \E t \in TaskRunIds, w \in WorkerIds : ClaimNext(t, w)
  \/ \E t \in TaskRunIds : Complete(t)
  \/ \E t \in TaskRunIds, kind \in ErrorKinds : Fail(t, kind)
  \/ \E t \in TaskRunIds : Cancel(t)
  \/ \E S \in SUBSET TaskRunIds : DeleteTaskRuns(S)
  \/ \E t \in TaskRunIds : Interrupt(t)
  \/ Tick

QueueSpec == QueueInit /\ [][QueueNext]_queueVars

-------------------------------------------------------------------------------
(***************************************************************************)
(* Properties.                                                             *)
(***************************************************************************)

TaskRow ==
  [status: Status, job: JobIds \cup {Null}, priority: Nat, availableAt: Nat,
   attempts: Nat, maxAttempts: Nat, dedupKey: DedupKeys \cup {Null},
   workerId: WorkerIds \cup {Null}, failureKind: FailureKinds, startedAt: Nat]

\* The type invariant of the table and of the history variables.
QueueTypeOK ==
  /\ task \in [TaskRunIds -> TaskRow]
  /\ created \in Nat
  /\ serial \in [TaskRunIds -> Nat]
  /\ clock \in Nat
  /\ starts \in [TaskRunIds -> Nat]
  /\ failedAt \in [TaskRunIds -> Nat]

\* However the calls interleave, a run is handed to a worker at most
\* max_attempts times (Fail counts the attempt and grants a retry only below
\* the limit; Complete, Cancel, Interrupt and deletion never reopen a run).
RunBudget ==
  \A t \in TaskRunIds :
    task[t].status # "none" => starts[t] <= task[t].maxAttempts

\* A waiting run can always still be executed once more and belongs to no
\* worker: Fail never returns a run to the queue with its attempts used up.
PendingIsFresh ==
  \A t \in InState({"pending"}) :
    /\ starts[t] = task[t].attempts
    /\ task[t].attempts < task[t].maxAttempts
    /\ task[t].workerId = Null

\* The retry delay is kept: a run that failed n times never starts again
\* before RetryDelay(n) has passed since its last failure.
BackoffHonoured ==
  \A t \in TaskRunIds :
    task[t].status = "running" /\ task[t].attempts > 0
      => task[t].startedAt >= failedAt[t] + RetryDelay(task[t].attempts)

\* First come, first served: a run enqueued earlier, at least as urgent and
\* available no later than t, is not still waiting for its first start once t
\* has started (t not yet retried, so that its available_at is the original).
NoOvertaking ==
  \A t, u \in Rows :
    /\ u < t
    /\ task[u].priority <= task[t].priority
    /\ task[u].availableAt <= task[t].availableAt
    /\ task[t].attempts = 0
    /\ starts[t] > 0
    => ~ (task[u].status = "pending" /\ task[u].attempts = 0)

\* No two rows share a dedup key, whatever was enqueued, retried or deleted.
DedupUnique ==
  \A t, u \in Rows : task[t].dedupKey = task[u].dedupKey => t = u

\* A finished run never changes again except by being deleted: no late
\* Complete or Fail of a worker overwrites a cancellation.  (Whether the run a worker
\* ends is the one it executes is a question to WorkerPool.)
FinishedIsFinal ==
  [][\A t \in TaskRunIds : task[t].status \in Terminal =>
       task'[t] \in {task[t], NoRow}]_queueVars

(***************************************************************************)
(* The promise to callers: every run follows TaskLifecycle.                *)
(***************************************************************************)
Lifecycle == INSTANCE TaskLifecycle WITH
  TaskRunId <- TaskRunIds,
  Budgets   <- (AttemptLimits \ {0}) \cup {DefaultMaxAttempts},
  phase     <- [t \in TaskRunIds |-> task[t].status],
  budget    <- [t \in TaskRunIds |-> task[t].maxAttempts]

\* TaskQueue implements TaskLifecycle.
ImplementsLifecycle == Lifecycle!Spec
=============================================================================
