--------------------------- MODULE JobControlProofs ---------------------------
(***************************************************************************)
(* Proofs about the task queue, the worker pool and the handlers, for      *)
(* every number of runs, goroutines, requests, faults and process ends,    *)
(* every set of jobs and keys, and every priority, budget and delay.       *)
(* First the queue (module TaskQueue), under any use of it:                *)
(*                                                                         *)
(*   1. QueueInv, an inductive invariant (THEOREM QueueInvariant);         *)
(*   2. the safety properties it implies;                                  *)
(*   3. no overtaking, which needs an induction of its own;                *)
(*   4. the action property FinishedIsFinal;                               *)
(*   5. TaskQueue implements TaskLifecycle.                                *)
(*                                                                         *)
(* RunBudget alone is not inductive: that a claim does not exceed the      *)
(* budget follows only from what links starts to attempts in a pending     *)
(* run, which in turn follows from what Fail compares in a running one.    *)
(* Then the pool (module WorkerPool):                                      *)
(*                                                                         *)
(*   6. it implements the queue (THEOREM PoolImplementsQueue), so that     *)
(*      everything proved of the queue holds of it;                        *)
(*   7. PoolInv, an inductive invariant relating goroutines and rows, and  *)
(*      the safety properties it implies.                                  *)
(*                                                                         *)
(* The properties need each other: that one run has one executor because   *)
(* only waiting runs are claimed and what is executed never waits; that it *)
(* never waits because nobody but its one executor can fail it.  Last the  *)
(* handlers (module JobControl):                                           *)
(*                                                                         *)
(*   8. they are an environment of WorkerPool (THEOREM                     *)
(*      ControlImplementsPool), so that what is established of the pool    *)
(*      and of the queue holds with them;                                  *)
(*   9. StopJob marks its job idle only when all it listed is over         *)
(*      (THEOREM StopCancelsAllHolds);                                     *)
(*  10. until two enqueuing callers overlap, a job has at most one active  *)
(*      run, and none when StopJob marks it idle (THEOREM                  *)
(*      OneActiveRunHolds, StoppedJobIsQuietHolds).                        *)
(*                                                                         *)
(* The last is not inductive alone: ActiveInv adds what a handler that     *)
(* has counted or listed the active runs of its job still knows of them.   *)
(***************************************************************************)
EXTENDS JobControl, FiniteSetTheorems, TLAPS

Budget == (AttemptLimits \ {0}) \cup {DefaultMaxAttempts}

\* A key without a row, a row, a waiting run, a run being executed.
RunOK(t) ==
  LET row == task[t] IN
  /\ row.status = "none" <=> serial[t] = 0
  /\ serial[t] <= created
  /\ row.status = "none" => row.maxAttempts = 0 /\ starts[t] = 0
  /\ row.status # "none" =>
       row.maxAttempts \in Budget /\ starts[t] <= row.maxAttempts
  /\ row.status = "pending" =>
       /\ starts[t] = row.attempts
       /\ row.attempts < row.maxAttempts
       /\ row.workerId = Null
       /\ row.attempts > 0 => row.availableAt = failedAt[t] + RetryDelay(row.attempts)
  /\ row.status = "running" =>
       /\ starts[t] = row.attempts + 1
       /\ row.attempts < row.maxAttempts
       /\ row.attempts > 0 => row.startedAt >= failedAt[t] + RetryDelay(row.attempts)

\* A run has one key.
SerialsUnique == \A t, u \in Rows : serial[t] = serial[u] => t = u

QueueInv ==
  /\ QueueTypeOK
  /\ \A t \in TaskRunIds : RunOK(t)
  /\ SerialsUnique
  /\ DedupUnique

-------------------------------------------------------------------------------
(***************************************************************************)
(* Lemmas about the operators and about steps that write one row.          *)
(***************************************************************************)

\* The retry delay is a natural number of periods.
LEMMA RetryDelayType == ASSUME NEW n \in Nat PROVE RetryDelay(n) \in Nat
  BY DEF RetryDelay

\* The budgets are positive.
LEMMA BudgetType == Budget \subseteq Nat \ {0}
  BY InputsAssumption DEF Budget, DefaultMaxAttempts

\* The types of the columns.
LEMMA ColumnTypes ==
  ASSUME QueueTypeOK, NEW t \in TaskRunIds
  PROVE  /\ t \in Nat
         /\ task[t] \in TaskRow
         /\ task[t].attempts \in Nat /\ task[t].maxAttempts \in Nat
         /\ task[t].availableAt \in Nat /\ task[t].startedAt \in Nat
         /\ task[t].priority \in Nat
         /\ starts[t] \in Nat /\ failedAt[t] \in Nat
         /\ clock \in Nat /\ created \in Nat /\ serial[t] \in Nat
  BY InputsAssumption DEF QueueTypeOK, TaskRow, TaskRunIds

\* What RunOK says of a run depends on nothing but its row and its history.
LEMMA RunUntouched ==
  ASSUME NEW t \in TaskRunIds, RunOK(t), task'[t] = task[t],
         starts'[t] = starts[t], failedAt'[t] = failedAt[t], serial'[t] = serial[t],
         serial[t] \in Nat, created \in Nat, created' \in Nat, created <= created'
  PROVE  RunOK(t)'
  BY DEF RunOK

\* Dedup keys and serials stay unique when no row appears and none changes its own.
LEMMA KeysUntouched ==
  ASSUME DedupUnique, SerialsUnique,
         \A u \in Rows' : /\ u \in Rows
                          /\ task'[u].dedupKey = task[u].dedupKey
                          /\ serial'[u] = serial[u]
  PROVE  DedupUnique' /\ SerialsUnique'
  BY DEF DedupUnique, SerialsUnique

\* A step that writes row r over the row of t keeps the invariant if r is a
\* row with the key of t and RunOK holds of t afterwards.
LEMMA RowWritten ==
  ASSUME QueueInv, NEW t \in TaskRunIds, NEW r \in TaskRow,
         task' = [task EXCEPT ![t] = r],
         t \in Rows, r.dedupKey = task[t].dedupKey,
         starts' \in [TaskRunIds -> Nat], failedAt' \in [TaskRunIds -> Nat],
         \A u \in TaskRunIds \ {t} : starts'[u] = starts[u] /\ failedAt'[u] = failedAt[u],
         created' = created, serial' = serial, clock' = clock,
         RunOK(t)'
  PROVE  QueueInv'
<1>1. task' \in [TaskRunIds -> TaskRow] /\ task'[t] = r
  BY DEF QueueInv, QueueTypeOK
<1>2. \A u \in TaskRunIds \ {t} : task'[u] = task[u]
  BY DEF QueueInv, QueueTypeOK
<1>3. QueueTypeOK'
  BY <1>1 DEF QueueInv, QueueTypeOK
<1>4. ASSUME NEW u \in TaskRunIds PROVE RunOK(u)'
  <2>1. CASE u = t
    BY <2>1
  <2>2. CASE u # t
    BY <1>2, <2>2, RunUntouched, ColumnTypes DEF QueueInv
  <2> QED
    BY <2>1, <2>2
<1>5. DedupUnique' /\ SerialsUnique'
  <2>1. \A u \in TaskRunIds : task'[u].dedupKey = task[u].dedupKey
    BY <1>1, <1>2
  <2>2. \A u \in Rows' : u \in Rows
    BY <1>2 DEF Rows
  <2> QED
    BY <2>1, <2>2, KeysUntouched DEF QueueInv, Rows
<1> QED
  BY <1>3, <1>4, <1>5 DEF QueueInv

-------------------------------------------------------------------------------
(***************************************************************************)
(* Every operation preserves QueueInv.                                     *)
(***************************************************************************)

LEMMA EmptyTable ==
  ASSUME QueueInit
  PROVE  /\ \A t \in TaskRunIds : task[t].status = "none" /\ task[t].maxAttempts = 0
         /\ starts = [t \in TaskRunIds |-> 0]
<1>1. \A t \in TaskRunIds : task[t] = NoRow
  BY DEF QueueInit
<1> QED
  BY <1>1 DEF QueueInit, NoRow

LEMMA InitInv == QueueInit => QueueInv
<1> SUFFICES ASSUME QueueInit PROVE QueueInv
  OBVIOUS
<1>1. NoRow \in TaskRow
  BY DEF NoRow, TaskRow, Status, FailureKinds
<1>2. QueueTypeOK
  BY <1>1 DEF QueueInit, QueueTypeOK
<1>3. ASSUME NEW t \in TaskRunIds PROVE RunOK(t)
  <2>1. t \in Nat /\ t > 0
    BY InputsAssumption DEF TaskRunIds
  <2>2. /\ task[t].status = "none" /\ task[t].maxAttempts = 0 /\ starts[t] = 0
        /\ serial[t] = 0 /\ created = 0
    BY DEF QueueInit, NoRow
  <2> QED
    BY <2>1, <2>2 DEF RunOK
<1>4. DedupUnique /\ SerialsUnique
  BY DEF QueueInit, NoRow, DedupUnique, SerialsUnique, Rows
<1> QED
  BY <1>2, <1>3, <1>4 DEF QueueInv

\* The row a new run gets, under a key that had none.
LEMMA EnqueueRow ==
  ASSUME QueueInv, NEW j \in JobIds, NEW k \in DedupKeys, NEW p \in Priorities,
         NEW l \in AttemptLimits, NEW d \in StartDelays, Enqueue(j, k, p, l, d)
  PROVE  \E t \in TaskRunIds :
           /\ IsNextId(t)
           /\ t \notin Rows /\ task[t].status = "none" /\ starts[t] = 0
           /\ created' = created + 1
           /\ serial' = [serial EXCEPT ![t] = created + 1]
           /\ UNCHANGED <<clock, starts, failedAt>>
           /\ task' = [task EXCEPT ![t] = task'[t]]
           /\ task'[t] \in TaskRow
           /\ task'[t].status = "pending" /\ task'[t].job = j /\ task'[t].attempts = 0
           /\ task'[t].workerId = Null /\ task'[t].dedupKey = k
           /\ task'[t].maxAttempts \in Budget
<1>0. PICK t \in TaskRunIds :
        /\ IsNextId(t)
        /\ serial' = [serial EXCEPT ![t] = created + 1]
        /\ task' = [task EXCEPT ![t] =
             [status      |-> "pending",
              job         |-> j,
              priority    |-> IF p = 0 THEN TaskPriorityNormal ELSE p,
              availableAt |-> clock + d,
              attempts    |-> 0,
              maxAttempts |-> IF l = 0 THEN DefaultMaxAttempts ELSE l,
              dedupKey    |-> k,
              workerId    |-> Null,
              failureKind |-> "",
              startedAt   |-> 0]]
  BY DEF Enqueue
<1> DEFINE r == task'[t]
<1>1. created' = created + 1 /\ UNCHANGED <<clock, starts, failedAt>>
  BY DEF Enqueue
<1>2. /\ r = [status      |-> "pending",
              job         |-> j,
              priority    |-> IF p = 0 THEN TaskPriorityNormal ELSE p,
              availableAt |-> clock + d,
              attempts    |-> 0,
              maxAttempts |-> IF l = 0 THEN DefaultMaxAttempts ELSE l,
              dedupKey    |-> k,
              workerId    |-> Null,
              failureKind |-> "",
              startedAt   |-> 0]
      /\ task' = [task EXCEPT ![t] = r]
  BY <1>0 DEF QueueInv, QueueTypeOK
<1>3. /\ r.status = "pending" /\ r.attempts = 0 /\ r.workerId = Null /\ r.job = j
      /\ r.maxAttempts \in Budget /\ r.dedupKey = k
  <2> HIDE DEF r
  <2> QED
    BY <1>2 DEF Budget
<1>4. r \in TaskRow
  <2>1. /\ (IF p = 0 THEN TaskPriorityNormal ELSE p) \in Nat
        /\ (IF l = 0 THEN DefaultMaxAttempts ELSE l) \in Nat
        /\ clock + d \in Nat
    BY InputsAssumption DEF TaskPriorityNormal, DefaultMaxAttempts, QueueInv, QueueTypeOK
  <2>2. "pending" \in Status /\ "" \in FailureKinds
    BY DEF Status, Active, FailureKinds
  <2> HIDE DEF r
  <2> QED
    BY <1>2, <2>1, <2>2 DEF TaskRow
<1>5. t \notin Rows /\ task[t].status = "none" /\ starts[t] = 0
  <2>1. \A u \in Rows : u < t
    BY <1>0 DEF IsNextId
  <2>2. t \notin Rows
    BY <2>1, InputsAssumption DEF TaskRunIds
  <2>3. RunOK(t)
    BY DEF QueueInv
  <2> QED
    BY <2>2, <2>3 DEF Rows, RunOK
<1> QED
  BY <1>0, <1>1, <1>2, <1>3, <1>4, <1>5

LEMMA EnqueueInv ==
  ASSUME QueueInv, NEW j \in JobIds, NEW k \in DedupKeys, NEW p \in Priorities,
         NEW l \in AttemptLimits, NEW d \in StartDelays, Enqueue(j, k, p, l, d)
  PROVE  QueueInv'
<1>0. PICK t \in TaskRunIds :
        /\ t \notin Rows /\ task[t].status = "none" /\ starts[t] = 0
        /\ created' = created + 1
        /\ serial' = [serial EXCEPT ![t] = created + 1]
        /\ UNCHANGED <<clock, starts, failedAt>>
        /\ task' = [task EXCEPT ![t] = task'[t]]
        /\ task'[t] \in TaskRow
        /\ task'[t].status = "pending" /\ task'[t].job = j /\ task'[t].attempts = 0
        /\ task'[t].workerId = Null /\ task'[t].dedupKey = k
        /\ task'[t].maxAttempts \in Budget
  BY EnqueueRow
<1>1. \A u \in TaskRunIds \ {t} : task'[u] = task[u] /\ serial'[u] = serial[u]
  BY <1>0 DEF QueueInv, QueueTypeOK
<1>2. /\ serial'[t] = created + 1 /\ created \in Nat /\ created' \in Nat
      /\ created <= created'
  BY <1>0, ColumnTypes DEF QueueInv, QueueTypeOK
<1>3. QueueTypeOK'
  <2>1. task' \in [TaskRunIds -> TaskRow]
    <3> DEFINE r == task'[t]
    <3>1. task' = [task EXCEPT ![t] = r] /\ r \in TaskRow /\ task \in [TaskRunIds -> TaskRow]
      BY <1>0 DEF QueueInv, QueueTypeOK
    <3> HIDE DEF r
    <3> QED
      BY <3>1
  <2>2. serial' \in [TaskRunIds -> Nat]
    BY <1>0, <1>2 DEF QueueInv, QueueTypeOK
  <2> QED
    BY <1>0, <1>2, <2>1, <2>2 DEF QueueInv, QueueTypeOK
<1>4. ASSUME NEW u \in TaskRunIds PROVE RunOK(u)'
  <2>1. RunOK(u) /\ starts'[u] = starts[u] /\ failedAt'[u] = failedAt[u] /\ serial[u] \in Nat
    BY <1>0, ColumnTypes DEF QueueInv
  <2>2. CASE u = t
    <3>1. task'[t].maxAttempts \in Nat \ {0}
      BY <1>0, BudgetType
    <3>2. starts'[t] = 0 /\ serial'[t] # 0 /\ serial'[t] <= created'
      BY <1>0, <1>2
    <3> QED
      BY <1>0, <2>2, <3>1, <3>2 DEF RunOK
  <2>3. CASE u # t
    BY <1>1, <1>2, <2>1, <2>3, RunUntouched
  <2> QED
    BY <2>2, <2>3
<1>5. \A u \in Rows' \ {t} : u \in Rows /\ task'[u] = task[u] /\ serial'[u] = serial[u]
  BY <1>1 DEF Rows
<1>6. DedupUnique'
  <2>1. \A u \in Rows : task[u].dedupKey # k
    BY DEF Enqueue, KeyTaken
  <2> QED
    BY <1>0, <1>5, <2>1 DEF QueueInv, DedupUnique
<1>7. SerialsUnique'
  <2>1. \A u \in Rows : serial[u] \in Nat /\ serial[u] <= created
    BY ColumnTypes DEF QueueInv, RunOK, Rows
  <2>2. \A u \in Rows : serial[u] # created + 1
    BY <1>2, <2>1
  <2> QED
    BY <1>2, <1>5, <2>2 DEF QueueInv, SerialsUnique
<1> QED
  BY <1>3, <1>4, <1>6, <1>7 DEF QueueInv

LEMMA ClaimNextInv ==
  ASSUME QueueInv, NEW t \in TaskRunIds, NEW w \in WorkerIds, ClaimNext(t, w)
  PROVE  QueueInv'
<1> DEFINE r == [task[t] EXCEPT !.status = "running", !.workerId = w, !.startedAt = clock]
<1>1. /\ task' = [task EXCEPT ![t] = r]
      /\ starts' = [starts EXCEPT ![t] = @ + 1]
      /\ failedAt' = failedAt /\ created' = created /\ serial' = serial /\ clock' = clock
  BY DEF ClaimNext
<1>2. task[t].status = "pending" /\ task[t].availableAt <= clock
  BY DEF ClaimNext, Claimable, InState
<1>3. r \in TaskRow
  BY ColumnTypes DEF TaskRow, Status, Active, QueueInv
<1>4. /\ r.status = "running" /\ r.startedAt = clock
      /\ r.attempts = task[t].attempts /\ r.maxAttempts = task[t].maxAttempts
      /\ r.dedupKey = task[t].dedupKey
  BY ColumnTypes DEF TaskRow, QueueInv
<1>5. starts' \in [TaskRunIds -> Nat] /\ starts'[t] = starts[t] + 1
  BY <1>1, ColumnTypes DEF QueueInv, QueueTypeOK
<1>6. RunOK(t)'
  <2>1. RunOK(t) /\ task'[t] = r
    BY <1>1 DEF QueueInv, QueueTypeOK
  <2> HIDE DEF r
  <2> QED
    BY <1>1, <1>2, <1>4, <1>5, <2>1, ColumnTypes DEF RunOK, QueueInv
<1> HIDE DEF r
<1> QED
  BY <1>1, <1>2, <1>3, <1>4, <1>5, <1>6, RowWritten DEF QueueInv, QueueTypeOK, Rows

LEMMA CompleteInv ==
  ASSUME QueueInv, NEW t \in TaskRunIds, Complete(t)
  PROVE  QueueInv'
<1> DEFINE r == [task[t] EXCEPT !.status = "completed", !.failureKind = ""]
<1>1. task' = [task EXCEPT ![t] = r] /\ UNCHANGED <<created, serial, clock, starts, failedAt>>
  BY DEF Complete
<1>2. r \in TaskRow
  <2>1. task[t] \in TaskRow
    BY ColumnTypes DEF QueueInv
  <2>2. "completed" \in Status /\ "" \in FailureKinds
    BY DEF Status, Terminal, FailureKinds
  <2> QED
    BY <2>1, <2>2 DEF TaskRow
<1>3. /\ r.status = "completed" /\ r.maxAttempts = task[t].maxAttempts
      /\ r.dedupKey = task[t].dedupKey
  BY ColumnTypes DEF TaskRow, QueueInv
<1>4. task[t].status = "running"
  BY DEF Complete
<1> HIDE DEF r
<1>5. RunOK(t)'
  <2>1. RunOK(t) /\ task'[t] = r
    BY <1>1 DEF QueueInv, QueueTypeOK
  <2> QED
    BY <1>1, <1>3, <1>4, <2>1, ColumnTypes DEF RunOK, QueueInv
<1> QED
  BY <1>1, <1>2, <1>3, <1>4, <1>5, RowWritten DEF QueueInv, QueueTypeOK, Rows

LEMMA FailRetryInv ==
  ASSUME QueueInv, NEW t \in TaskRunIds, NEW kind \in ErrorKinds, FailRetry(t, kind)
  PROVE  QueueInv'
<1> DEFINE r == [task[t] EXCEPT !.attempts = @ + 1,
                                !.failureKind = kind,
                                !.status = "pending",
                                !.availableAt = clock + RetryDelay(task[t].attempts + 1),
                                !.startedAt = 0,
                                !.workerId = Null]
<1>1. /\ task' = [task EXCEPT ![t] = r]
      /\ failedAt' = [failedAt EXCEPT ![t] = clock]
      /\ UNCHANGED <<created, serial, clock, starts>>
  BY DEF FailRetry
<1>2. r \in TaskRow
  <2>1. task[t] \in TaskRow /\ task[t].attempts + 1 \in Nat
    BY ColumnTypes DEF QueueInv
  <2>2. clock + RetryDelay(task[t].attempts + 1) \in Nat
    BY <2>1, ColumnTypes, RetryDelayType DEF QueueInv
  <2>3. "pending" \in Status /\ kind \in FailureKinds
    BY DEF Status, Active, FailureKinds
  <2> QED
    BY <2>1, <2>2, <2>3 DEF TaskRow
<1>3. /\ r.status = "pending" /\ r.workerId = Null
      /\ r.attempts = task[t].attempts + 1 /\ r.maxAttempts = task[t].maxAttempts
      /\ r.availableAt = clock + RetryDelay(r.attempts)
      /\ r.dedupKey = task[t].dedupKey
  BY ColumnTypes DEF TaskRow, QueueInv
<1>4. task[t].status = "running" /\ task[t].attempts + 1 < EffectiveLimit(t)
  BY DEF FailRetry, Retries
<1>5. failedAt' \in [TaskRunIds -> Nat] /\ failedAt'[t] = clock
  BY <1>1, ColumnTypes DEF QueueInv, QueueTypeOK
<1> HIDE DEF r
<1>6. RunOK(t)'
  <2>1. RunOK(t) /\ task'[t] = r
    BY <1>1 DEF QueueInv, QueueTypeOK
  <2>2. task[t].maxAttempts \in Budget /\ EffectiveLimit(t) = task[t].maxAttempts
    BY <1>4, <2>1, BudgetType DEF RunOK, EffectiveLimit
  <2> QED
    BY <1>1, <1>3, <1>4, <1>5, <2>1, <2>2, ColumnTypes DEF RunOK, QueueInv
<1> QED
  BY <1>1, <1>2, <1>3, <1>4, <1>5, <1>6, RowWritten DEF QueueInv, QueueTypeOK, Rows

LEMMA FailFinalInv ==
  ASSUME QueueInv, NEW t \in TaskRunIds, NEW kind \in ErrorKinds, FailFinal(t, kind)
  PROVE  QueueInv'
<1> DEFINE r == [task[t] EXCEPT !.attempts = @ + 1, !.failureKind = kind, !.status = "failed"]
<1>1. task' = [task EXCEPT ![t] = r] /\ UNCHANGED <<created, serial, clock, starts, failedAt>>
  BY DEF FailFinal
<1>2. r \in TaskRow
  <2>1. task[t] \in TaskRow /\ task[t].attempts + 1 \in Nat
    BY ColumnTypes DEF QueueInv
  <2>2. "failed" \in Status /\ kind \in FailureKinds
    BY DEF Status, Terminal, FailureKinds
  <2> QED
    BY <2>1, <2>2 DEF TaskRow
<1>3. /\ r.status = "failed" /\ r.maxAttempts = task[t].maxAttempts
      /\ r.dedupKey = task[t].dedupKey
  BY ColumnTypes DEF TaskRow, QueueInv
<1>4. task[t].status = "running"
  BY DEF FailFinal
<1> HIDE DEF r
<1>5. RunOK(t)'
  <2>1. RunOK(t) /\ task'[t] = r
    BY <1>1 DEF QueueInv, QueueTypeOK
  <2> QED
    BY <1>1, <1>3, <1>4, <2>1, ColumnTypes DEF RunOK, QueueInv
<1> QED
  BY <1>1, <1>2, <1>3, <1>4, <1>5, RowWritten DEF QueueInv, QueueTypeOK, Rows

LEMMA CancelInv ==
  ASSUME QueueInv, NEW t \in TaskRunIds, Cancel(t)
  PROVE  QueueInv'
<1> DEFINE r == [task[t] EXCEPT !.status = "cancelled", !.failureKind = "cancelled"]
<1>1. task' = [task EXCEPT ![t] = r] /\ UNCHANGED <<created, serial, clock, starts, failedAt>>
  BY DEF Cancel
<1>2. r \in TaskRow
  <2>1. task[t] \in TaskRow
    BY ColumnTypes DEF QueueInv
  <2>2. "cancelled" \in Status /\ "cancelled" \in FailureKinds
    BY DEF Status, Terminal, FailureKinds, ErrorKinds
  <2> QED
    BY <2>1, <2>2 DEF TaskRow
<1>3. /\ r.status = "cancelled" /\ r.maxAttempts = task[t].maxAttempts
      /\ r.dedupKey = task[t].dedupKey
  BY ColumnTypes DEF TaskRow, QueueInv
<1>4. task[t].status \in {"pending", "running"}
  BY DEF Cancel
<1> HIDE DEF r
<1>5. RunOK(t)'
  <2>1. RunOK(t) /\ task'[t] = r
    BY <1>1 DEF QueueInv, QueueTypeOK
  <2> QED
    BY <1>1, <1>3, <1>4, <2>1, ColumnTypes DEF RunOK, QueueInv
<1> QED
  BY <1>1, <1>2, <1>3, <1>4, <1>5, RowWritten DEF QueueInv, QueueTypeOK, Rows

LEMMA InterruptInv ==
  ASSUME QueueInv, NEW t \in TaskRunIds, Interrupt(t)
  PROVE  QueueInv'
<1> DEFINE r == [task[t] EXCEPT !.status = "failed", !.failureKind = "interrupted"]
<1>1. task' = [task EXCEPT ![t] = r] /\ UNCHANGED <<created, serial, clock, starts, failedAt>>
  BY DEF Interrupt
<1>2. r \in TaskRow
  <2>1. task[t] \in TaskRow
    BY ColumnTypes DEF QueueInv
  <2>2. "failed" \in Status /\ "interrupted" \in FailureKinds
    BY DEF Status, Terminal, FailureKinds
  <2> QED
    BY <2>1, <2>2 DEF TaskRow
<1>3. /\ r.status = "failed" /\ r.maxAttempts = task[t].maxAttempts
      /\ r.dedupKey = task[t].dedupKey
  BY ColumnTypes DEF TaskRow, QueueInv
<1>4. task[t].status = "running"
  BY DEF Interrupt
<1> HIDE DEF r
<1>5. RunOK(t)'
  <2>1. RunOK(t) /\ task'[t] = r
    BY <1>1 DEF QueueInv, QueueTypeOK
  <2> QED
    BY <1>1, <1>3, <1>4, <2>1, ColumnTypes DEF RunOK, QueueInv
<1> QED
  BY <1>1, <1>2, <1>3, <1>4, <1>5, RowWritten DEF QueueInv, QueueTypeOK, Rows

\* What a deletion leaves.
LEMMA DeletedRow ==
  ASSUME NEW S \in SUBSET TaskRunIds, DeleteTaskRuns(S), NEW t \in TaskRunIds
  PROVE  /\ t \in S =>
              /\ task'[t] = NoRow /\ task'[t].status = "none" /\ t \notin Rows'
              /\ serial'[t] = 0 /\ starts'[t] = 0 /\ failedAt'[t] = 0
         /\ t \notin S =>
              /\ task'[t] = task[t] /\ serial'[t] = serial[t]
              /\ starts'[t] = starts[t] /\ failedAt'[t] = failedAt[t]
         /\ created' = created /\ clock' = clock
<1>1. task'[t] = IF t \in S THEN NoRow ELSE task[t]
  BY DEF DeleteTaskRuns
<1>2. /\ serial'[t] = (IF t \in S THEN 0 ELSE serial[t])
      /\ starts'[t] = (IF t \in S THEN 0 ELSE starts[t])
      /\ failedAt'[t] = (IF t \in S THEN 0 ELSE failedAt[t])
      /\ created' = created /\ clock' = clock
  BY DEF DeleteTaskRuns
<1>3. NoRow.status = "none"
  BY DEF NoRow
<1> QED
  BY <1>1, <1>2, <1>3 DEF Rows

LEMMA DeleteTaskRunsInv ==
  ASSUME QueueInv, NEW S \in SUBSET TaskRunIds, DeleteTaskRuns(S)
  PROVE  QueueInv'
<1>1. NoRow \in TaskRow /\ NoRow.status = "none" /\ NoRow.maxAttempts = 0
  BY DEF NoRow, TaskRow, Status, FailureKinds
<1>2. QueueTypeOK'
  <2>1. task' = [t \in TaskRunIds |-> IF t \in S THEN NoRow ELSE task[t]]
    BY DEF DeleteTaskRuns
  <2>2. task' \in [TaskRunIds -> TaskRow]
    BY <1>1, <2>1 DEF QueueInv, QueueTypeOK
  <2>3. /\ serial' = [t \in TaskRunIds |-> IF t \in S THEN 0 ELSE serial[t]]
        /\ starts' = [t \in TaskRunIds |-> IF t \in S THEN 0 ELSE starts[t]]
        /\ failedAt' = [t \in TaskRunIds |-> IF t \in S THEN 0 ELSE failedAt[t]]
        /\ created' = created /\ clock' = clock
    BY DEF DeleteTaskRuns
  <2> QED
    BY <2>2, <2>3 DEF QueueInv, QueueTypeOK
<1>3. ASSUME NEW t \in TaskRunIds PROVE RunOK(t)'
  <2>1. RunOK(t) /\ serial[t] \in Nat /\ created \in Nat /\ created' = created
    BY DeletedRow, ColumnTypes DEF QueueInv
  <2>2. CASE t \in S
    <3>1. /\ task'[t].status = "none" /\ task'[t].maxAttempts = 0
          /\ serial'[t] = 0 /\ starts'[t] = 0
      BY <1>1, <2>2, DeletedRow
    <3> QED
      BY <2>1, <3>1 DEF RunOK
  <2>3. CASE t \notin S
    BY <2>1, <2>3, DeletedRow, RunUntouched
  <2> QED
    BY <2>2, <2>3
<1>4. DedupUnique' /\ SerialsUnique'
  <2>1. ASSUME NEW t \in Rows'
        PROVE  t \in Rows /\ task'[t].dedupKey = task[t].dedupKey /\ serial'[t] = serial[t]
    <3>1. t \in TaskRunIds /\ t \notin S
      BY DeletedRow DEF Rows
    <3> QED
      BY <3>1, DeletedRow DEF Rows
  <2> QED
    BY <2>1, KeysUntouched DEF QueueInv
<1> QED
  BY <1>2, <1>3, <1>4 DEF QueueInv

LEMMA TickInv == QueueInv /\ Tick => QueueInv'
<1> SUFFICES ASSUME QueueInv, Tick PROVE QueueInv'
  OBVIOUS
<1>1. clock' = clock + 1 /\ UNCHANGED <<task, created, serial, starts, failedAt>>
  BY DEF Tick
<1>2. QueueTypeOK'
  BY <1>1 DEF QueueInv, QueueTypeOK
<1>3. ASSUME NEW t \in TaskRunIds PROVE RunOK(t)'
  BY <1>1, RunUntouched, ColumnTypes DEF QueueInv
<1>4. DedupUnique' /\ SerialsUnique'
  BY <1>1, KeysUntouched DEF QueueInv, Rows
<1> QED
  BY <1>2, <1>3, <1>4 DEF QueueInv

LEMMA StutterInv == QueueInv /\ UNCHANGED queueVars => QueueInv'
<1> SUFFICES ASSUME QueueInv, UNCHANGED queueVars PROVE QueueInv'
  OBVIOUS
<1>1. UNCHANGED <<task, created, serial, clock, starts, failedAt>>
  BY DEF queueVars
<1>2. QueueTypeOK'
  BY <1>1 DEF QueueInv, QueueTypeOK
<1>3. ASSUME NEW t \in TaskRunIds PROVE RunOK(t)'
  BY <1>1, RunUntouched, ColumnTypes DEF QueueInv
<1>4. DedupUnique' /\ SerialsUnique'
  BY <1>1, KeysUntouched DEF QueueInv, Rows
<1> QED
  BY <1>2, <1>3, <1>4 DEF QueueInv

LEMMA NextInv == QueueInv /\ [QueueNext]_queueVars => QueueInv'
  BY EnqueueInv, ClaimNextInv, CompleteInv, FailRetryInv, FailFinalInv, CancelInv,
     DeleteTaskRunsInv, InterruptInv, TickInv, StutterInv
  DEF QueueNext, Fail

\* QueueInv holds in every reachable state.
THEOREM QueueInvariant == QueueSpec => []QueueInv
  BY InitInv, NextInv, PTL DEF QueueSpec

\* The table has its types.
THEOREM QueueTypeCorrect == QueueSpec => []QueueTypeOK
<1>1. QueueInv => QueueTypeOK
  BY DEF QueueInv
<1> QED
  BY <1>1, QueueInvariant, PTL

\* No run is handed to a worker more often than its attempt budget allows.
THEOREM RunBudgetHolds == QueueSpec => []RunBudget
<1>1. QueueInv => RunBudget
  BY DEF QueueInv, RunBudget, RunOK
<1> QED
  BY <1>1, QueueInvariant, PTL

\* A run waiting in the queue can still be executed and belongs to nobody.
THEOREM PendingIsFreshHolds == QueueSpec => []PendingIsFresh
<1>1. QueueInv => PendingIsFresh
  BY DEF QueueInv, PendingIsFresh, RunOK, InState
<1> QED
  BY <1>1, QueueInvariant, PTL

\* A retried run never starts before its retry delay has passed.
THEOREM BackoffHolds == QueueSpec => []BackoffHonoured
<1>1. QueueInv => BackoffHonoured
  BY DEF QueueInv, BackoffHonoured, RunOK
<1> QED
  BY <1>1, QueueInvariant, PTL

\* Dedup keys are unique among the rows present.
THEOREM DedupHolds == QueueSpec => []DedupUnique
<1>1. QueueInv => DedupUnique
  BY DEF QueueInv
<1> QED
  BY <1>1, QueueInvariant, PTL

-------------------------------------------------------------------------------
(***************************************************************************)
(* No overtaking.  Only Enqueue and ClaimNext can put two runs in the      *)
(* wrong order; every other operation keeps, of a run not yet retried,     *)
(* what the order is made of, and makes no run wait for its first start.   *)
(***************************************************************************)
KeepsPlace(u) ==
  u \in Rows' =>
    /\ u \in Rows
    /\ starts'[u] = starts[u]
    /\ task'[u].priority = task[u].priority
    /\ task'[u].attempts = 0 =>
         /\ task[u].attempts = 0
         /\ task'[u].availableAt = task[u].availableAt
         /\ task'[u].status = "pending" => task[u].status = "pending"

LEMMA PlacesKept ==
  ASSUME NoOvertaking, \A u \in TaskRunIds : KeepsPlace(u)
  PROVE  NoOvertaking'
<1> SUFFICES ASSUME NEW t \in Rows', NEW u \in Rows',
                    u < t,
                    task'[u].priority <= task'[t].priority,
                    task'[u].availableAt <= task'[t].availableAt,
                    task'[t].attempts = 0, starts'[t] > 0,
                    task'[u].status = "pending", task'[u].attempts = 0
             PROVE  FALSE
  BY DEF NoOvertaking
<1>1. t \in TaskRunIds /\ u \in TaskRunIds
  BY DEF Rows
<1> QED
  BY <1>1 DEF NoOvertaking, KeepsPlace

LEMMA UntouchedKeepsPlace ==
  ASSUME NEW u \in TaskRunIds, task'[u] = task[u], starts'[u] = starts[u]
  PROVE  KeepsPlace(u)
  BY DEF KeepsPlace, Rows

LEMMA FailRetryRow ==
  ASSUME QueueInv, NEW t \in TaskRunIds, NEW kind \in ErrorKinds, FailRetry(t, kind)
  PROVE  /\ task'[t].attempts = task[t].attempts + 1
         /\ task'[t].priority = task[t].priority
         /\ task'[t].status = "pending"
         /\ task'[t].maxAttempts = task[t].maxAttempts
         /\ task'[t].job = task[t].job
<1>1. task[t] \in TaskRow /\ task \in [TaskRunIds -> TaskRow]
  BY ColumnTypes DEF QueueInv, QueueTypeOK
<1> DEFINE a == clock + RetryDelay(task[t].attempts + 1)
<1>2. task' = [task EXCEPT ![t] =
                 [task[t] EXCEPT !.attempts = @ + 1, !.failureKind = kind,
                                 !.status = "pending", !.availableAt = a,
                                 !.startedAt = 0, !.workerId = Null]]
  BY DEF FailRetry
<1> HIDE DEF a
<1> QED
  BY <1>1, <1>2 DEF TaskRow

LEMMA FailFinalRow ==
  ASSUME QueueInv, NEW t \in TaskRunIds, NEW kind \in ErrorKinds, FailFinal(t, kind)
  PROVE  /\ task'[t].attempts = task[t].attempts + 1
         /\ task'[t].priority = task[t].priority
         /\ task'[t].status = "failed"
         /\ task'[t].maxAttempts = task[t].maxAttempts
         /\ task'[t].job = task[t].job
<1>1. task[t] \in TaskRow /\ task \in [TaskRunIds -> TaskRow]
  BY ColumnTypes DEF QueueInv, QueueTypeOK
<1>2. task' = [task EXCEPT ![t] =
                 [task[t] EXCEPT !.attempts = @ + 1, !.failureKind = kind, !.status = "failed"]]
  BY DEF FailFinal
<1> QED
  BY <1>1, <1>2 DEF TaskRow

LEMMA WrittenKeepsPlace ==
  ASSUME QueueInv, NEW t \in TaskRunIds, NEW u \in TaskRunIds,
         \/ Complete(t) \/ Cancel(t) \/ Interrupt(t)
         \/ \E kind \in ErrorKinds : Fail(t, kind)
  PROVE  KeepsPlace(u)
<1>1. task[t] \in TaskRow /\ task[t].attempts \in Nat /\ task \in [TaskRunIds -> TaskRow]
  BY ColumnTypes DEF QueueInv, QueueTypeOK
<1>2. CASE u # t
  BY <1>1, <1>2, UntouchedKeepsPlace DEF Complete, Cancel, Interrupt, Fail, FailRetry, FailFinal
<1>3. CASE u = t
  <2>1. CASE Complete(t) \/ Cancel(t) \/ Interrupt(t)
    <3>1. PICK s \in Terminal, k \in FailureKinds :
            task'[t] = [task[t] EXCEPT !.status = s, !.failureKind = k]
      BY <1>1, <2>1 DEF Complete, Cancel, Interrupt, Terminal, FailureKinds, ErrorKinds
    <3>2. /\ task'[t].status \in Terminal
          /\ task'[t].attempts = task[t].attempts
          /\ task'[t].priority = task[t].priority
          /\ task'[t].availableAt = task[t].availableAt
      BY <1>1, <3>1 DEF TaskRow
    <3>3. starts' = starts /\ t \in Rows
      BY <2>1 DEF Complete, Cancel, Interrupt, Rows
    <3> QED
      BY <1>3, <3>2, <3>3 DEF KeepsPlace, Terminal
  <2>2. CASE \E kind \in ErrorKinds : Fail(t, kind)
    <3>1. task'[t].attempts = task[t].attempts + 1 /\ task'[t].priority = task[t].priority
      <4>1. CASE \E kind \in ErrorKinds : FailRetry(t, kind)
        BY <1>1, <4>1, FailRetryRow
      <4>2. CASE \E kind \in ErrorKinds : FailFinal(t, kind)
        BY <1>1, <4>2, FailFinalRow
      <4> QED
        BY <2>2, <4>1, <4>2 DEF Fail
    <3>2. starts' = starts /\ t \in Rows
      BY <2>2 DEF Fail, FailRetry, FailFinal, Rows
    <3> QED
      BY <1>1, <1>3, <3>1, <3>2 DEF KeepsPlace
  <2> QED
    BY <2>1, <2>2
<1> QED
  BY <1>2, <1>3

LEMMA DeletedKeepsPlace ==
  ASSUME QueueInv, NEW S \in SUBSET TaskRunIds, DeleteTaskRuns(S), NEW u \in TaskRunIds
  PROVE  KeepsPlace(u)
<1>1. CASE u \in S
  BY <1>1, DeletedRow DEF KeepsPlace
<1>2. CASE u \notin S
  BY <1>2, DeletedRow, UntouchedKeepsPlace
<1> QED
  BY <1>1, <1>2

\* A new row has the largest key and has not been started.
LEMMA EnqueueNoOvertaking ==
  ASSUME QueueInv, NoOvertaking, NEW j \in JobIds, NEW k \in DedupKeys,
         NEW p \in Priorities, NEW l \in AttemptLimits, NEW d \in StartDelays,
         Enqueue(j, k, p, l, d)
  PROVE  NoOvertaking'
<1>0. PICK new \in TaskRunIds :
        /\ IsNextId(new) /\ starts[new] = 0 /\ starts' = starts
        /\ task' = [task EXCEPT ![new] = task'[new]]
  BY EnqueueRow
<1> SUFFICES ASSUME NEW t \in Rows', NEW u \in Rows',
                    u < t,
                    task'[u].priority <= task'[t].priority,
                    task'[u].availableAt <= task'[t].availableAt,
                    task'[t].attempts = 0, starts'[t] > 0,
                    task'[u].status = "pending", task'[u].attempts = 0
             PROVE  FALSE
  BY DEF NoOvertaking
<1>1. t \in TaskRunIds /\ u \in TaskRunIds /\ t \in Nat /\ u \in Nat /\ new \in Nat
  BY ColumnTypes DEF Rows, QueueInv
<1>2. \A v \in TaskRunIds \ {new} : task'[v] = task[v]
  BY <1>0 DEF QueueInv, QueueTypeOK
<1>3. t # new
  BY <1>0
<1>4. t \in Rows /\ task'[t] = task[t]
  BY <1>1, <1>2, <1>3 DEF Rows
<1>5. u # new
  <2>1. t < new
    BY <1>0, <1>4 DEF IsNextId
  <2> QED
    BY <1>1, <2>1
<1>6. u \in Rows /\ task'[u] = task[u]
  BY <1>1, <1>2, <1>5 DEF Rows
<1> QED
  BY <1>0, <1>4, <1>6 DEF NoOvertaking

\* The run claimed comes before every other that could be claimed.
LEMMA ClaimNextNoOvertaking ==
  ASSUME QueueInv, NoOvertaking, NEW c \in TaskRunIds, NEW w \in WorkerIds, ClaimNext(c, w)
  PROVE  NoOvertaking'
<1> SUFFICES ASSUME NEW t \in Rows', NEW u \in Rows',
                    u < t,
                    task'[u].priority <= task'[t].priority,
                    task'[u].availableAt <= task'[t].availableAt,
                    task'[t].attempts = 0, starts'[t] > 0,
                    task'[u].status = "pending", task'[u].attempts = 0
             PROVE  FALSE
  BY DEF NoOvertaking
<1>1. t \in TaskRunIds /\ u \in TaskRunIds
  BY DEF Rows
<1>2. /\ task[c] \in TaskRow
      /\ task'[c] = [task[c] EXCEPT !.status = "running", !.workerId = w, !.startedAt = clock]
      /\ \A v \in TaskRunIds \ {c} : task'[v] = task[v] /\ starts'[v] = starts[v]
  BY DEF ClaimNext, QueueInv, QueueTypeOK
<1>3. /\ task'[c].status = "running"
      /\ task'[c].priority = task[c].priority
      /\ task'[c].availableAt = task[c].availableAt
  BY <1>2 DEF TaskRow
<1>4. u # c
  BY <1>3
<1>5. task'[u] = task[u] /\ u \in Rows
  BY <1>1, <1>2, <1>4 DEF Rows
<1>6. CASE t = c
  <2>1. /\ t \in Nat /\ u \in Nat /\ clock \in Nat
        /\ task[t].priority \in Nat /\ task[u].priority \in Nat
        /\ task[t].availableAt \in Nat /\ task[u].availableAt \in Nat
    BY <1>1, ColumnTypes DEF QueueInv
  <2>2. task[t].availableAt <= clock
    BY <1>6 DEF ClaimNext, Claimable
  <2>3. u \in Claimable \ {c}
    BY <1>1, <1>3, <1>4, <1>5, <1>6, <2>1, <2>2 DEF Claimable, InState
  <2>4. Before(t, u)
    BY <1>6, <2>3 DEF ClaimNext
  <2> QED
    BY <1>3, <1>5, <1>6, <2>1, <2>4 DEF Before
<1>7. CASE t # c
  <2>1. t \in Rows /\ task'[t] = task[t] /\ starts'[t] = starts[t]
    BY <1>1, <1>2, <1>7 DEF Rows
  <2> QED
    BY <1>5, <2>1 DEF NoOvertaking
<1> QED
  BY <1>6, <1>7

LEMMA NextNoOvertaking ==
  ASSUME QueueInv, NoOvertaking, [QueueNext]_queueVars
  PROVE  NoOvertaking'
<1>1. CASE \E t \in TaskRunIds : \/ Complete(t) \/ Cancel(t) \/ Interrupt(t)
                                 \/ \E kind \in ErrorKinds : Fail(t, kind)
  BY <1>1, WrittenKeepsPlace, PlacesKept
<1>2. CASE \E S \in SUBSET TaskRunIds : DeleteTaskRuns(S)
  BY <1>2, DeletedKeepsPlace, PlacesKept
<1>3. CASE Tick \/ UNCHANGED queueVars
  BY <1>3, UntouchedKeepsPlace, PlacesKept DEF Tick, queueVars
<1> QED
  BY <1>1, <1>2, <1>3, EnqueueNoOvertaking, ClaimNextNoOvertaking DEF QueueNext

\* A run never starts before an older one that is as urgent and was available
\* as early.
THEOREM NoOvertakingHolds == QueueSpec => []NoOvertaking
<1>1. QueueInit => NoOvertaking
  BY EmptyTable DEF NoOvertaking, Rows
<1>2. QueueInv /\ NoOvertaking /\ [QueueNext]_queueVars => NoOvertaking'
  BY NextNoOvertaking
<1> QED
  BY <1>1, <1>2, QueueInvariant, PTL DEF QueueSpec

-------------------------------------------------------------------------------
(***************************************************************************)
(* What one step does to one row.                                          *)
(***************************************************************************)

\* Every step but the creation and the deletion of runs keeps job and budget of
\* each, and each operation moves one run from one status to another.
Moves(t, from, to) ==
  /\ t \in TaskRunIds
  /\ task[t].status \in from
  /\ task'[t].status = to
  /\ task'[t].maxAttempts = task[t].maxAttempts
  /\ task'[t].job = task[t].job
  /\ \A u \in TaskRunIds \ {t} : task'[u] = task[u]
  /\ serial' = serial /\ created' = created

LEMMA ClaimNextMoves ==
  ASSUME QueueInv, NEW t \in TaskRunIds, NEW w \in WorkerIds, ClaimNext(t, w)
  PROVE  Moves(t, {"pending"}, "running")
<1>1. task[t] \in TaskRow /\ task \in [TaskRunIds -> TaskRow]
  BY ColumnTypes DEF QueueInv, QueueTypeOK
<1>2. task' = [task EXCEPT ![t] =
                 [task[t] EXCEPT !.status = "running", !.workerId = w, !.startedAt = clock]]
  BY DEF ClaimNext
<1>3. task[t].status = "pending"
  BY DEF ClaimNext, Claimable, InState
<1>4. serial' = serial /\ created' = created
  BY DEF ClaimNext
<1> QED
  BY <1>1, <1>2, <1>3, <1>4 DEF Moves, TaskRow

LEMMA CompleteMoves ==
  ASSUME QueueInv, NEW t \in TaskRunIds, Complete(t)
  PROVE  Moves(t, {"running"}, "completed")
<1>1. task[t] \in TaskRow /\ task \in [TaskRunIds -> TaskRow]
  BY ColumnTypes DEF QueueInv, QueueTypeOK
<1>2. task' = [task EXCEPT ![t] = [task[t] EXCEPT !.status = "completed", !.failureKind = ""]]
  BY DEF Complete
<1> QED
  BY <1>1, <1>2 DEF Moves, TaskRow, Complete

LEMMA CancelMoves ==
  ASSUME QueueInv, NEW t \in TaskRunIds, Cancel(t)
  PROVE  Moves(t, {"pending", "running"}, "cancelled")
<1>1. task[t] \in TaskRow /\ task \in [TaskRunIds -> TaskRow]
  BY ColumnTypes DEF QueueInv, QueueTypeOK
<1>2. task' = [task EXCEPT ![t] =
                 [task[t] EXCEPT !.status = "cancelled", !.failureKind = "cancelled"]]
  BY DEF Cancel
<1> QED
  BY <1>1, <1>2 DEF Moves, TaskRow, Cancel

LEMMA InterruptMoves ==
  ASSUME QueueInv, NEW t \in TaskRunIds, Interrupt(t)
  PROVE  Moves(t, {"running"}, "failed")
<1>1. task[t] \in TaskRow /\ task \in [TaskRunIds -> TaskRow]
  BY ColumnTypes DEF QueueInv, QueueTypeOK
<1>2. task' = [task EXCEPT ![t] =
                 [task[t] EXCEPT !.status = "failed", !.failureKind = "interrupted"]]
  BY DEF Interrupt
<1> QED
  BY <1>1, <1>2 DEF Moves, TaskRow, Interrupt

LEMMA FailMoves ==
  ASSUME QueueInv, NEW t \in TaskRunIds, NEW kind \in ErrorKinds, Fail(t, kind)
  PROVE  \/ Moves(t, {"running"}, "pending") /\ FailRetry(t, kind)
         \/ Moves(t, {"running"}, "failed") /\ FailFinal(t, kind)
<1>1. CASE FailRetry(t, kind)
  <2>1. /\ task[t].status = "running" /\ \A u \in TaskRunIds \ {t} : task'[u] = task[u]
        /\ serial' = serial /\ created' = created
    BY <1>1 DEF FailRetry, QueueInv, QueueTypeOK
  <2> QED
    BY <1>1, <2>1, FailRetryRow DEF Moves
<1>2. CASE FailFinal(t, kind)
  <2>1. /\ task[t].status = "running" /\ \A u \in TaskRunIds \ {t} : task'[u] = task[u]
        /\ serial' = serial /\ created' = created
    BY <1>2 DEF FailFinal, QueueInv, QueueTypeOK
  <2> QED
    BY <1>2, <2>1, FailFinalRow DEF Moves
<1> QED
  BY <1>1, <1>2 DEF Fail

LEMMA EnqueueCreates ==
  ASSUME QueueInv, NEW j \in JobIds, NEW k \in DedupKeys, NEW p \in Priorities,
         NEW l \in AttemptLimits, NEW d \in StartDelays, Enqueue(j, k, p, l, d)
  PROVE  \E t \in TaskRunIds :
           /\ task[t].status = "none"
           /\ task'[t].status = "pending"
           /\ task'[t].maxAttempts \in Budget
           /\ \A u \in TaskRunIds \ {t} : task'[u] = task[u]
           /\ starts' = starts
<1>1. PICK t \in TaskRunIds :
         /\ task[t].status = "none" /\ starts' = starts
         /\ task' = [task EXCEPT ![t] = task'[t]]
         /\ task'[t].status = "pending" /\ task'[t].maxAttempts \in Budget
  BY EnqueueRow
<1>2. \A u \in TaskRunIds \ {t} : task'[u] = task[u]
  BY <1>1 DEF QueueInv, QueueTypeOK
<1> QED
  BY <1>1, <1>2

\* The queue operation, if any, behind a step.
QueueStep == QueueNext \/ UNCHANGED queueVars

\* A key keeps its run, and that its job, or loses it, or gets the newest one.
RunUnder(t) ==
  \/ serial'[t] = serial[t] /\ task'[t].job = task[t].job
  \/ serial'[t] = 0
  \/ serial'[t] = created + 1 /\ created' = created + 1 /\ serial[t] = 0

LEMMA MovesRunUnder ==
  ASSUME NEW u, NEW from, NEW to, Moves(u, from, to), NEW t \in TaskRunIds
  PROVE  RunUnder(t)
  BY DEF Moves, RunUnder

LEMMA StepCreates ==
  ASSUME QueueStep
  PROVE  created' \in {created, created + 1}
<1>1. \A j, k, p, l, d : Enqueue(j, k, p, l, d) => created' = created + 1
  BY DEF Enqueue
<1>2. \A t, w : ClaimNext(t, w) => created' = created
  BY DEF ClaimNext
<1>3. \A t : Complete(t) \/ Cancel(t) \/ Interrupt(t) => created' = created
  BY DEF Complete, Cancel, Interrupt
<1>4. \A t, kind : Fail(t, kind) => created' = created
  BY DEF Fail, FailRetry, FailFinal
<1>5. \A S : DeleteTaskRuns(S) => created' = created
  BY DEF DeleteTaskRuns
<1>6. Tick \/ UNCHANGED queueVars => created' = created
  BY DEF Tick, queueVars
<1> QED
  BY <1>1, <1>2, <1>3, <1>4, <1>5, <1>6 DEF QueueStep, QueueNext

LEMMA StepRunUnder ==
  ASSUME QueueInv, QueueStep, NEW t \in TaskRunIds
  PROVE  RunUnder(t)
<1>1. ASSUME NEW j \in JobIds, NEW k \in DedupKeys, NEW p \in Priorities,
             NEW l \in AttemptLimits, NEW d \in StartDelays, Enqueue(j, k, p, l, d)
      PROVE  RunUnder(t)
  <2>1. PICK new \in TaskRunIds :
          /\ new \notin Rows /\ task[new].status = "none" /\ created' = created + 1
          /\ serial' = [serial EXCEPT ![new] = created + 1]
          /\ task' = [task EXCEPT ![new] = task'[new]]
    BY <1>1, EnqueueRow
  <2>2. serial \in [TaskRunIds -> Nat] /\ task \in [TaskRunIds -> TaskRow]
    BY DEF QueueInv, QueueTypeOK
  <2>3. CASE t = new
    <3>1. RunOK(t)
      BY DEF QueueInv
    <3>2. serial[t] = 0
      BY <2>1, <2>3, <3>1 DEF RunOK
    <3> QED
      BY <2>1, <2>2, <2>3, <3>2 DEF RunUnder
  <2>4. CASE t # new
    <3>1. serial'[t] = serial[t] /\ task'[t] = task[t]
      BY <2>1, <2>2, <2>4
    <3> QED
      BY <2>1, <3>1 DEF RunUnder
  <2> QED
    BY <2>3, <2>4
<1>2. ASSUME NEW u \in TaskRunIds,
             \/ Complete(u) \/ Cancel(u) \/ Interrupt(u)
             \/ \E w \in WorkerIds : ClaimNext(u, w)
      PROVE  RunUnder(t)
  BY <1>2, CompleteMoves, CancelMoves, InterruptMoves, ClaimNextMoves, MovesRunUnder
<1>3. ASSUME NEW u \in TaskRunIds, NEW kind \in ErrorKinds, Fail(u, kind)
      PROVE  RunUnder(t)
  BY <1>3, FailMoves, MovesRunUnder
<1>4. ASSUME NEW S \in SUBSET TaskRunIds, DeleteTaskRuns(S)
      PROVE  RunUnder(t)
  BY <1>4, DeletedRow DEF RunUnder
<1>5. CASE Tick \/ UNCHANGED queueVars
  BY <1>5 DEF Tick, queueVars, RunUnder
<1> QED
  BY <1>1, <1>2, <1>3, <1>4, <1>5 DEF QueueStep, QueueNext

-------------------------------------------------------------------------------
(***************************************************************************)
(* Finished runs, and the implementation of TaskLifecycle.                 *)
(***************************************************************************)
FinalStep ==
  \A t \in TaskRunIds : task[t].status \in Terminal =>
    task'[t] \in {task[t], NoRow}

LEMMA MoveIsFinalStep ==
  ASSUME NEW t, NEW from, NEW to, Moves(t, from, to), from \cap Terminal = {}
  PROVE  FinalStep
  BY DEF Moves, FinalStep

LEMMA NextFinalStep ==
  ASSUME QueueInv, QueueNext
  PROVE  FinalStep
<1>1. ASSUME NEW j \in JobIds, NEW k \in DedupKeys, NEW p \in Priorities,
             NEW l \in AttemptLimits, NEW d \in StartDelays, Enqueue(j, k, p, l, d)
      PROVE  FinalStep
  BY <1>1, EnqueueCreates DEF FinalStep, Terminal
<1>2. ASSUME NEW t \in TaskRunIds, NEW w \in WorkerIds, ClaimNext(t, w)
      PROVE  FinalStep
  BY <1>2, ClaimNextMoves, MoveIsFinalStep DEF Terminal
<1>3. ASSUME NEW t \in TaskRunIds, Complete(t) PROVE FinalStep
  BY <1>3, CompleteMoves, MoveIsFinalStep DEF Terminal
<1>4. ASSUME NEW t \in TaskRunIds, NEW kind \in ErrorKinds, Fail(t, kind)
      PROVE  FinalStep
  BY <1>4, FailMoves, MoveIsFinalStep DEF Terminal
<1>5. ASSUME NEW t \in TaskRunIds, Cancel(t) PROVE FinalStep
  BY <1>5, CancelMoves, MoveIsFinalStep DEF Terminal
<1>6. ASSUME NEW S \in SUBSET TaskRunIds, DeleteTaskRuns(S) PROVE FinalStep
  BY <1>6 DEF DeleteTaskRuns, FinalStep
<1>7. ASSUME NEW t \in TaskRunIds, Interrupt(t) PROVE FinalStep
  BY <1>7, InterruptMoves, MoveIsFinalStep DEF Terminal
<1>8. CASE Tick
  BY <1>8 DEF Tick, FinalStep
<1> QED
  BY <1>1, <1>2, <1>3, <1>4, <1>5, <1>6, <1>7, <1>8 DEF QueueNext

\* A finished run never changes again except by being deleted.
THEOREM FinishedIsFinalHolds == QueueSpec => FinishedIsFinal
<1>1. QueueInv /\ [QueueNext]_queueVars => [FinalStep]_queueVars
  BY NextFinalStep
<1> QED
  BY <1>1, QueueInvariant, PTL DEF QueueSpec, FinishedIsFinal, FinalStep

\* The mapped phase and budget after a step that moves one run.
LEMMA MappedMove ==
  ASSUME NEW t, NEW from, NEW to, Moves(t, from, to)
  PROVE  /\ [u \in TaskRunIds |-> task'[u].status] =
              [[u \in TaskRunIds |-> task[u].status] EXCEPT ![t] = to]
         /\ [u \in TaskRunIds |-> task'[u].maxAttempts] =
              [u \in TaskRunIds |-> task[u].maxAttempts]
  BY DEF Moves

LEMMA NextLifecycle ==
  ASSUME QueueInv, QueueNext
  PROVE  Lifecycle!Next \/ UNCHANGED Lifecycle!vars
<1>1. ASSUME NEW j \in JobIds, NEW k \in DedupKeys, NEW p \in Priorities,
             NEW l \in AttemptLimits, NEW d \in StartDelays, Enqueue(j, k, p, l, d)
      PROVE  \E t \in TaskRunIds : Lifecycle!Create(t)
  <2>1. PICK t \in TaskRunIds :
           /\ task[t].status = "none"
           /\ task'[t].status = "pending"
           /\ task'[t].maxAttempts \in Budget
           /\ \A u \in TaskRunIds \ {t} : task'[u] = task[u]
           /\ starts' = starts
    BY <1>1, EnqueueCreates
  <2>2. [u \in TaskRunIds |-> task'[u].status] =
          [[u \in TaskRunIds |-> task[u].status] EXCEPT ![t] = "pending"]
    BY <2>1
  <2>3. [u \in TaskRunIds |-> task'[u].maxAttempts] =
          [[u \in TaskRunIds |-> task[u].maxAttempts] EXCEPT ![t] = task'[t].maxAttempts]
    BY <2>1
  <2> QED
    BY <2>1, <2>2, <2>3 DEF Lifecycle!Create, Lifecycle!Move, Budget
<1>2. ASSUME NEW t \in TaskRunIds, NEW w \in WorkerIds, ClaimNext(t, w)
      PROVE  Lifecycle!Start(t)
  <2>1. Moves(t, {"pending"}, "running") /\ starts' = [starts EXCEPT ![t] = @ + 1]
    BY <1>2, ClaimNextMoves DEF ClaimNext
  <2>2. RunOK(t) /\ task[t].status = "pending"
    BY <2>1 DEF QueueInv, Moves
  <2>3. starts[t] < task[t].maxAttempts
    BY <2>2 DEF RunOK
  <2> QED
    BY <2>1, <2>2, <2>3, MappedMove DEF Lifecycle!Start, Lifecycle!Move
<1>3. ASSUME NEW t \in TaskRunIds, Complete(t) PROVE Lifecycle!Finish(t)
  <2>1. Moves(t, {"running"}, "completed") /\ starts' = starts
    BY <1>3, CompleteMoves DEF Complete
  <2> QED
    BY <2>1, MappedMove DEF Lifecycle!Finish, Lifecycle!Move, Moves
<1>4. ASSUME NEW t \in TaskRunIds, NEW kind \in ErrorKinds, Fail(t, kind)
      PROVE  Lifecycle!Retry(t) \/ Lifecycle!Finish(t)
  <2>1. CASE Moves(t, {"running"}, "pending") /\ FailRetry(t, kind)
    <3>1. RunOK(t) /\ task[t].status = "running" /\ starts' = starts
      BY <2>1 DEF QueueInv, Moves, FailRetry
    <3>2. starts[t] < task[t].maxAttempts
      <4>1. task[t].maxAttempts \in Budget /\ EffectiveLimit(t) = task[t].maxAttempts
        BY <3>1, BudgetType DEF RunOK, EffectiveLimit
      <4>2. task[t].attempts + 1 < EffectiveLimit(t)
        BY <2>1 DEF FailRetry, Retries
      <4> QED
        BY <3>1, <4>1, <4>2 DEF RunOK
    <3> QED
      BY <2>1, <3>1, <3>2, MappedMove DEF Lifecycle!Retry, Lifecycle!Move
  <2>2. CASE Moves(t, {"running"}, "failed") /\ FailFinal(t, kind)
    <3>1. starts' = starts
      BY <2>2 DEF FailFinal
    <3> QED
      BY <2>2, <3>1, MappedMove DEF Lifecycle!Finish, Lifecycle!Move, Moves
  <2> QED
    BY <1>4, <2>1, <2>2, FailMoves
<1>5. ASSUME NEW t \in TaskRunIds, Cancel(t) PROVE Lifecycle!Cancel(t)
  <2>1. Moves(t, {"pending", "running"}, "cancelled") /\ starts' = starts
    BY <1>5, CancelMoves DEF Cancel
  <2> QED
    BY <2>1, MappedMove DEF Lifecycle!Cancel, Lifecycle!Move, Moves
<1>6. ASSUME NEW S \in SUBSET TaskRunIds, DeleteTaskRuns(S) PROVE Lifecycle!Delete(S)
  <2>1. \A t \in TaskRunIds :
          /\ task'[t].status = IF t \in S THEN "none" ELSE task[t].status
          /\ task'[t].maxAttempts = IF t \in S THEN 0 ELSE task[t].maxAttempts
    <3>1. NoRow.status = "none" /\ NoRow.maxAttempts = 0
      BY DEF NoRow
    <3> QED
      BY <1>6, <3>1, DeletedRow
  <2>2. starts' = [t \in TaskRunIds |-> IF t \in S THEN 0 ELSE starts[t]]
    BY <1>6 DEF DeleteTaskRuns
  <2>3. /\ [t \in TaskRunIds |-> task'[t].status] =
             [t \in TaskRunIds |-> IF t \in S THEN "none" ELSE task[t].status]
        /\ [t \in TaskRunIds |-> task'[t].maxAttempts] =
             [t \in TaskRunIds |-> IF t \in S THEN 0 ELSE task[t].maxAttempts]
    BY <2>1
  <2> QED
    BY <2>2, <2>3 DEF Lifecycle!Delete
<1>7. ASSUME NEW t \in TaskRunIds, Interrupt(t) PROVE Lifecycle!Finish(t)
  <2>1. Moves(t, {"running"}, "failed") /\ starts' = starts
    BY <1>7, InterruptMoves DEF Interrupt
  <2> QED
    BY <2>1, MappedMove DEF Lifecycle!Finish, Lifecycle!Move, Moves
<1>8. CASE Tick
  BY <1>8 DEF Tick, Lifecycle!vars
<1> QED
  BY <1>1, <1>2, <1>3, <1>4, <1>5, <1>6, <1>7, <1>8 DEF QueueNext, Lifecycle!Next

\* Every run of the queue follows TaskLifecycle.
THEOREM QueueImplementsLifecycle == QueueSpec => ImplementsLifecycle
<1>1. QueueInit => Lifecycle!Init
  BY EmptyTable DEF Lifecycle!Init
<1>2. QueueInv /\ [QueueNext]_queueVars => [Lifecycle!Next]_Lifecycle!vars
  <2>1. UNCHANGED queueVars => UNCHANGED Lifecycle!vars
    BY DEF queueVars, Lifecycle!vars
  <2> QED
    BY <2>1, NextLifecycle
<1> QED
  BY <1>1, <1>2, QueueInvariant, PTL DEF QueueSpec, ImplementsLifecycle, Lifecycle!Spec

-------------------------------------------------------------------------------
(***************************************************************************)
(* The pool implements the queue.                                          *)
(***************************************************************************)
LEMMA WorkerQueueStep ==
  ASSUME NEW w \in Workers, WorkerStep(w), PoolTypeOK,
         wpc[w] = "fail" => wrun[w] \in TaskRunIds /\ werr[w] \in ErrorKinds,
         wpc[w] = "complete" => wrun[w] \in TaskRunIds
  PROVE  QueueStep
<1>1. CASE Claim(w)
  BY <1>1 DEF Claim, QueueStep, QueueNext
<1>2. CASE Leave(w) \/ Load(w) \/ Return(w)
  BY <1>2 DEF Leave, Load, Return, QueueStep
<1>3. CASE WriteFail(w)
  BY <1>3 DEF WriteFail, QueueStep, QueueNext
<1>4. CASE WriteComplete(w)
  BY <1>4 DEF WriteComplete, QueueStep, QueueNext
<1>5. CASE WriteJobStatus(w)
  BY <1>5 DEF WriteJobStatus, QueueStep
<1> QED
  BY <1>1, <1>2, <1>3, <1>4, <1>5 DEF WorkerStep

LEMMA ProcessQueueStep ==
  ASSUME ProcessStep \/ ProcessEnds \/ Time \/ Environment, PoolTypeOK
  PROVE  QueueStep
<1>1. CASE CleanRun
  BY <1>1 DEF CleanRun, QueueStep, QueueNext, PoolTypeOK
<1>2. CASE StartServer \/ CleanJob \/ Serve \/ Drain \/ StopPool
  BY <1>2 DEF StartServer, CleanJob, Serve, Drain, StopPool, QueueStep
<1>3. CASE ProcessEnds
  BY <1>3 DEF ProcessEnds, Exit, Crash, Dies, QueueStep
<1>4. CASE Time
  BY <1>4 DEF Time, QueueStep, QueueNext
<1>5. CASE Environment
  BY <1>5 DEF Environment, EnvQueue, EnvJob, QueueStep, QueueNext
<1> QED
  BY <1>1, <1>2, <1>3, <1>4, <1>5 DEF ProcessStep

-------------------------------------------------------------------------------
(***************************************************************************)
(* The inductive invariant.                                                *)
(***************************************************************************)
Holding == Executing \cup {"jobError", "jobIdle"}

\* A goroutine past its claim holds the key of a run that was created, which no
\* other key has got since, and an error when it reports one.
RunsHeld ==
  \A w \in Workers :
    /\ wpc[w] \in Holding =>
         /\ wrun[w] \in TaskRunIds
         /\ wserial[w] # 0 /\ wserial[w] <= created
         /\ \A t \in TaskRunIds : serial[t] = wserial[w] => t = wrun[w]
    /\ wpc[w] = "fail" => werr[w] \in ErrorKinds

\* Without a serving process there is no goroutine.
StoppedIsGone == ~Alive => \A w \in Workers : wpc[w] = "gone"

\* The start-up clean-up knows every run left running; afterwards its list is
\* empty.
CleaningKnows ==
  /\ server # "cleaning" => toClean = {} /\ cleanJob = Null
  /\ server = "cleaning" =>
       /\ toClean \subseteq InState({"running"})
       /\ \A t \in InState({"running"}) : t \in toClean \/ serial[t] \in lost

PoolInv ==
  /\ PoolTypeOK
  /\ RunsHeld
  /\ StoppedIsGone
  /\ CleaningKnows
  /\ OneExecutor
  /\ ExecutedIsRunning
  /\ RunningIsExecuted
  /\ IdleOnlyAfterComplete

LEMMA PoolInitInv == PoolInit => PoolInv
<1> SUFFICES ASSUME PoolInit PROVE PoolInv
  OBVIOUS
<1>1. PoolTypeOK
  BY DEF PoolInit, PoolTypeOK, JobRow, JobStatus, ServerState, WorkerState
<1>2. \A w \in Workers : wpc[w] = "gone"
  BY DEF PoolInit
<1>3. RunsHeld /\ StoppedIsGone /\ OneExecutor /\ ExecutedIsRunning /\ IdleOnlyAfterComplete
  BY <1>2 DEF RunsHeld, StoppedIsGone, OneExecutor, ExecutedIsRunning,
              IdleOnlyAfterComplete, Holding, Executing
<1>4. server = "down" /\ toClean = {} /\ cleanJob = Null
  BY DEF PoolInit
<1>5. CleaningKnows /\ RunningIsExecuted
  BY <1>4 DEF CleaningKnows, RunningIsExecuted, Alive
<1> QED
  BY <1>1, <1>3, <1>5 DEF PoolInv

(***************************************************************************)
(* What a queue operation can do to a run that is executed or has been.    *)
(***************************************************************************)

\* A row that was there and is there is that of the same run.
LEMMA RowStays ==
  ASSUME QueueInv, QueueInv', QueueStep, NEW t \in TaskRunIds,
         task[t].status # "none", task'[t].status # "none"
  PROVE  serial'[t] = serial[t] /\ task'[t].job = task[t].job
<1>1. RunOK(t) /\ RunOK(t)'
  BY DEF QueueInv
<1>2. serial[t] # 0 /\ serial'[t] # 0
  BY <1>1 DEF RunOK
<1> QED
  BY <1>2, StepRunUnder DEF RunUnder

\* A run created before that a key has after the step had it before.
LEMMA RunStays ==
  ASSUME QueueInv, QueueInv', QueueStep, NEW t \in TaskRunIds,
         serial'[t] # 0, serial'[t] <= created
  PROVE  /\ serial'[t] = serial[t] /\ task'[t].job = task[t].job
         /\ task[t].status \in Terminal => task'[t] = task[t]
<1>1. serial'[t] = serial[t] /\ task'[t].job = task[t].job
  <2>1. created \in Nat
    BY DEF QueueInv, QueueTypeOK
  <2> QED
    BY <2>1, StepRunUnder DEF RunUnder
<1>2. task'[t].status # "none"
  <2>1. RunOK(t)'
    BY DEF QueueInv
  <2> QED
    BY <2>1 DEF RunOK
<1>3. task[t].status \in Terminal => task'[t] = task[t]
  <2>1. CASE QueueNext
    <3>1. task[t].status \in Terminal => task'[t] \in {task[t], NoRow}
      BY <2>1, NextFinalStep DEF FinalStep
    <3>2. NoRow.status = "none"
      BY DEF NoRow
    <3> QED
      BY <1>2, <3>1, <3>2
  <2>2. CASE UNCHANGED queueVars
    BY <2>2 DEF queueVars
  <2> QED
    BY <2>1, <2>2 DEF QueueStep
<1> QED
  BY <1>1, <1>3

\* What a goroutine holds, it still holds after a queue operation.
LEMMA StillHeld ==
  ASSUME QueueInv, QueueInv', QueueStep, PoolTypeOK, RunsHeld,
         NEW w \in Workers, wpc[w] \in Holding
  PROVE  /\ wrun[w] \in TaskRunIds
         /\ wserial[w] # 0 /\ wserial[w] <= created /\ wserial[w] <= created'
         /\ \A t \in TaskRunIds : serial'[t] = wserial[w] => t = wrun[w]
<1>1. /\ wrun[w] \in TaskRunIds
      /\ wserial[w] # 0 /\ wserial[w] <= created
      /\ \A t \in TaskRunIds : serial[t] = wserial[w] => t = wrun[w]
  BY DEF RunsHeld
<1>2. wserial[w] <= created'
  <2>1. created' \in {created, created + 1}
    BY StepCreates
  <2>2. created \in Nat /\ wserial[w] \in Nat
    BY DEF QueueInv, QueueTypeOK, PoolTypeOK
  <2> QED
    BY <1>1, <2>1, <2>2
<1> QED
  BY <1>1, <1>2, RunStays

\* Steps that leave the queue alone and neither start nor end an execution.
LEMMA SameExecutions ==
  ASSUME PoolInv, UNCHANGED <<queueVars, meddled>>, lost \subseteq lost',
         \A w \in Workers : wpc'[w] \in Executing <=> wpc[w] \in Executing,
         \A w \in Workers : wpc'[w] \in Executing =>
           wrun'[w] = wrun[w] /\ wjob'[w] = wjob[w] /\ wserial'[w] = wserial[w],
         \A w \in Workers : wpc'[w] = "jobIdle" =>
           wpc[w] = "jobIdle" /\ wrun'[w] = wrun[w] /\ wserial'[w] = wserial[w],
         Alive' => Alive
  PROVE  OneExecutor' /\ ExecutedIsRunning' /\ RunningIsExecuted' /\ IdleOnlyAfterComplete'
<1>1. task' = task /\ serial' = serial /\ meddled' = meddled
  BY DEF queueVars
<1>2. OneExecutor'
  BY <1>1 DEF PoolInv, OneExecutor
<1>3. ExecutedIsRunning'
  BY <1>1 DEF PoolInv, ExecutedIsRunning, Own
<1>4. IdleOnlyAfterComplete'
  BY <1>1 DEF PoolInv, IdleOnlyAfterComplete, Own
<1>5. RunningIsExecuted'
  BY <1>1 DEF PoolInv, RunningIsExecuted, InState
<1> QED
  BY <1>2, <1>3, <1>4, <1>5

\* Steps after which the process does not serve.
LEMMA NobodyExecutes ==
  ASSUME ~Alive', \A w \in Workers : wpc'[w] = "gone"
  PROVE  /\ StoppedIsGone' /\ RunsHeld'
         /\ OneExecutor' /\ ExecutedIsRunning' /\ RunningIsExecuted' /\ IdleOnlyAfterComplete'
  BY DEF StoppedIsGone, RunsHeld, OneExecutor, ExecutedIsRunning, RunningIsExecuted,
         IdleOnlyAfterComplete, Holding, Executing

\* A goroutine stops executing its run.  The row under its key stays as it is, or
\* is over or back in the queue; if it is not that of its run, its run's is
\* meddled with.  Nothing happens to other rows.
LEMMA ExecutionEnds ==
  ASSUME PoolInv, NEW w \in Workers, wpc[w] \in Executing,
         NEW pc, pc \notin Executing, wpc' = [wpc EXCEPT ![w] = pc],
         \A v \in Workers \ {w} :
           wrun'[v] = wrun[v] /\ wjob'[v] = wjob[v] /\ wserial'[v] = wserial[v],
         serial' = serial,
         \A u \in TaskRunIds \ {wrun[w]} : task'[u] = task[u],
         \/ task'[wrun[w]] = task[wrun[w]]
         \/ Own(w) \/ serial[wrun[w]] \in meddled',
         task'[wrun[w]].status = "running" =>
           task[wrun[w]].status = "running" /\ wserial[w] \in lost',
         lost \subseteq lost', meddled \subseteq meddled',
         Alive' => Alive
  PROVE  OneExecutor' /\ ExecutedIsRunning' /\ RunningIsExecuted'
<1>1. \A v \in Workers : wpc'[v] \in Executing =>
        /\ v # w /\ wpc[v] \in Executing
        /\ wrun'[v] = wrun[v] /\ wjob'[v] = wjob[v] /\ wserial'[v] = wserial[v]
  BY DEF PoolInv, PoolTypeOK
<1>2. \A v \in Workers \ {w} : wpc'[v] = wpc[v]
  BY DEF PoolInv, PoolTypeOK
<1>3. OneExecutor'
  BY <1>1 DEF PoolInv, OneExecutor
<1>4. ExecutedIsRunning'
  <2> SUFFICES ASSUME NEW v \in Workers, wpc'[v] \in Executing, Own(v)',
                      wserial'[v] \notin meddled'
               PROVE  /\ task'[wrun'[v]].status \in {"running", "cancelled"}
                      /\ task'[wrun'[v]].job = wjob'[v]
    BY DEF ExecutedIsRunning
  <2>1. /\ v # w /\ wpc[v] \in Executing /\ Own(v) /\ wserial[v] \notin meddled
        /\ wrun'[v] = wrun[v] /\ wjob'[v] = wjob[v] /\ wserial'[v] = wserial[v]
    BY <1>1 DEF Own
  <2>2. task'[wrun[v]] = task[wrun[v]]
    <3>1. wrun[v] \in TaskRunIds
      BY <2>1 DEF PoolInv, RunsHeld, Holding
    <3>2. CASE wrun[v] = wrun[w]
      <4>1. serial[wrun[w]] = wserial[v]
        BY <2>1, <3>2 DEF Own
      <4>2. ~Own(w)
        BY <2>1, <4>1 DEF PoolInv, OneExecutor, Own
      <4> QED
        BY <2>1, <3>2, <4>1, <4>2
    <3>3. CASE wrun[v] # wrun[w]
      BY <3>1, <3>3
    <3> QED
      BY <3>2, <3>3
  <2> QED
    BY <2>1, <2>2 DEF PoolInv, ExecutedIsRunning
<1>5. RunningIsExecuted'
  <2> SUFFICES ASSUME Alive', NEW t \in InState({"running"})', serial'[t] \notin lost'
               PROVE  \E v \in Workers : wpc'[v] \in Executing /\ wserial'[v] = serial'[t]
    BY DEF RunningIsExecuted
  <2>1. t \in TaskRunIds /\ t \in InState({"running"}) /\ serial[t] \notin lost
    BY DEF InState
  <2>2. PICK v \in Workers : wpc[v] \in Executing /\ wserial[v] = serial[t]
    BY <2>1 DEF PoolInv, RunningIsExecuted
  <2>3. v # w
    <3> SUFFICES ASSUME v = w PROVE FALSE
      OBVIOUS
    <3>1. t = wrun[w]
      BY <2>1, <2>2 DEF PoolInv, RunsHeld, Holding
    <3> QED
      BY <2>2, <3>1 DEF InState
  <2> QED
    BY <1>2, <2>2, <2>3
<1> QED
  BY <1>3, <1>4, <1>5

\* Steps of others that touch neither goroutines nor server: an executed run
\* stays running, is cancelled or deleted, and none becomes running.
LEMMA OutsideStep ==
  ASSUME PoolInv, QueueInv, QueueStep, UNCHANGED <<procVars, workerVars, meddled, lost>>,
         \A u \in TaskRunIds : task[u].status = "running" =>
            task'[u].status \in {"none", "running", "cancelled"},
         \A u \in TaskRunIds : task'[u].status = "running" => task[u].status = "running"
  PROVE  /\ RunsHeld' /\ StoppedIsGone'
         /\ OneExecutor' /\ ExecutedIsRunning' /\ RunningIsExecuted' /\ IdleOnlyAfterComplete'
<1>0. QueueInv'
  BY NextInv DEF QueueStep
<1>1. /\ server' = server /\ wpc' = wpc /\ wrun' = wrun /\ wjob' = wjob /\ werr' = werr
      /\ wserial' = wserial /\ meddled' = meddled /\ lost' = lost
  BY DEF procVars, workerVars
<1>2. RunsHeld'
  BY <1>0, <1>1, StillHeld DEF PoolInv, RunsHeld
<1>3. StoppedIsGone' /\ OneExecutor'
  BY <1>1 DEF PoolInv, StoppedIsGone, OneExecutor, Alive
<1>4. ASSUME NEW v \in Workers, wpc[v] \in Holding, Own(v)'
      PROVE  /\ Own(v) /\ wrun[v] \in TaskRunIds
             /\ task'[wrun[v]].status # "none"
             /\ task'[wrun[v]].job = task[wrun[v]].job
             /\ task[wrun[v]].status = "completed" => task'[wrun[v]].status = "completed"
             /\ task[wrun[v]].status = "cancelled" => task'[wrun[v]].status = "cancelled"
  <2>1. wrun[v] \in TaskRunIds /\ wserial[v] # 0 /\ wserial[v] <= created
    BY <1>4 DEF PoolInv, RunsHeld
  <2>2. serial'[wrun[v]] = wserial[v]
    BY <1>1, <1>4 DEF Own
  <2>3. task'[wrun[v]].status # "none"
    BY <1>0, <2>1, <2>2 DEF QueueInv, RunOK
  <2> QED
    BY <1>0, <2>1, <2>2, <2>3, RunStays DEF Own, Terminal
<1>5. ExecutedIsRunning'
  <2> SUFFICES ASSUME NEW v \in Workers, wpc[v] \in Executing, Own(v)', wserial[v] \notin meddled
               PROVE  /\ task'[wrun[v]].status \in {"running", "cancelled"}
                      /\ task'[wrun[v]].job = wjob[v]
    BY <1>1 DEF ExecutedIsRunning
  <2>1. wpc[v] \in Holding
    BY DEF Holding
  <2>2. /\ task[wrun[v]].status \in {"running", "cancelled"}
        /\ task[wrun[v]].job = wjob[v]
    BY <1>4, <2>1 DEF PoolInv, ExecutedIsRunning
  <2> QED
    BY <1>4, <2>1, <2>2
<1>6. RunningIsExecuted'
  <2> SUFFICES ASSUME Alive', NEW t \in InState({"running"})', serial'[t] \notin lost
               PROVE  \E v \in Workers : wpc[v] \in Executing /\ wserial[v] = serial'[t]
    BY <1>1 DEF RunningIsExecuted
  <2>1. t \in TaskRunIds /\ task'[t].status = "running" /\ task[t].status = "running"
    BY DEF InState
  <2>2. serial'[t] = serial[t]
    BY <1>0, <2>1, RowStays
  <2> QED
    BY <1>1, <2>1, <2>2 DEF PoolInv, RunningIsExecuted, InState, Alive
<1>7. IdleOnlyAfterComplete'
  BY <1>1, <1>4 DEF PoolInv, IdleOnlyAfterComplete, Holding
<1> QED
  BY <1>2, <1>3, <1>5, <1>6, <1>7

(***************************************************************************)
(* The goroutines.                                                         *)
(***************************************************************************)
LEMMA ClaimInv ==
  ASSUME PoolInv, QueueInv, NEW w \in Workers, Claim(w)
  PROVE  PoolInv'
<1>1. PICK t \in TaskRunIds, id \in WorkerIds :
        /\ ClaimNext(t, id)
        /\ wrun' = [wrun EXCEPT ![w] = t]
        /\ wjob' = [wjob EXCEPT ![w] = task[t].job]
        /\ wserial' = [wserial EXCEPT ![w] = serial[t]]
  BY DEF Claim
<1>2. /\ wpc[w] = "claim" /\ wpc' = [wpc EXCEPT ![w] = "load"]
      /\ UNCHANGED <<werr, job, server, toClean, cleanJob, meddled, lost, dbErrors, stops>>
      /\ server \in {"up", "draining"}
  BY DEF Claim, Goto, procVars, historyVars, faultVars
<1>3. Moves(t, {"pending"}, "running") /\ QueueStep
  BY <1>1, ClaimNextMoves DEF QueueStep, QueueNext
<1>4. /\ wpc'[w] = "load" /\ wrun'[w] = t /\ wjob'[w] = task[t].job /\ wserial'[w] = serial[t]
      /\ \A v \in Workers \ {w} :
           /\ wpc'[v] = wpc[v] /\ wrun'[v] = wrun[v]
           /\ wjob'[v] = wjob[v] /\ wserial'[v] = wserial[v]
  BY <1>1, <1>2 DEF PoolInv, PoolTypeOK
<1>5. /\ serial' = serial /\ created' = created
      /\ task'[t].status = "running" /\ task'[t].job = task[t].job
      /\ task[t].status = "pending" /\ \A u \in TaskRunIds \ {t} : task'[u] = task[u]
  BY <1>3 DEF Moves
<1>6. serial[t] \in Nat /\ serial[t] # 0 /\ serial[t] <= created /\ task[t].job \in JobIds \cup {Null}
  <2>1. RunOK(t) /\ task[t] \in TaskRow /\ serial[t] \in Nat
    BY ColumnTypes DEF QueueInv
  <2> QED
    BY <1>5, <2>1 DEF RunOK, TaskRow
<1>7. \A u \in TaskRunIds : serial[u] = serial[t] => u = t
  <2>1. \A u \in TaskRunIds : serial[u] = serial[t] => u \in Rows
    BY <1>6 DEF QueueInv, RunOK, Rows
  <2> QED
    BY <1>5, <2>1 DEF QueueInv, SerialsUnique, Rows
<1>8. \A v \in Workers : wpc[v] \in Executing /\ wserial[v] = serial[t] => wserial[v] \in meddled
  <2> SUFFICES ASSUME NEW v \in Workers, wpc[v] \in Executing, wserial[v] = serial[t],
                      wserial[v] \notin meddled
               PROVE  FALSE
    OBVIOUS
  <2>1. wrun[v] = t
    BY DEF PoolInv, RunsHeld, Holding
  <2> QED
    BY <1>5, <2>1 DEF PoolInv, ExecutedIsRunning, Own
<1>9. PoolTypeOK'
  BY <1>1, <1>2, <1>6 DEF PoolInv, PoolTypeOK, WorkerState
<1>10. RunsHeld'
  BY <1>2, <1>4, <1>5, <1>6, <1>7 DEF PoolInv, RunsHeld, Holding, Executing
<1>11. StoppedIsGone' /\ CleaningKnows'
  BY <1>2, <1>4 DEF PoolInv, StoppedIsGone, CleaningKnows, Alive
<1>12. OneExecutor'
  <2> SUFFICES ASSUME NEW u \in Workers, NEW v \in Workers, u # v,
                      wpc'[u] \in Executing, wpc'[v] \in Executing,
                      wserial'[u] = wserial'[v], wserial'[u] \notin meddled
               PROVE  FALSE
    BY <1>2 DEF OneExecutor
  <2> QED
    BY <1>4, <1>8 DEF PoolInv, OneExecutor
<1>13. ExecutedIsRunning'
  <2> SUFFICES ASSUME NEW v \in Workers, wpc'[v] \in Executing, Own(v)',
                      wserial'[v] \notin meddled
               PROVE  /\ task'[wrun'[v]].status \in {"running", "cancelled"}
                      /\ task'[wrun'[v]].job = wjob'[v]
    BY <1>2 DEF ExecutedIsRunning
  <2>1. CASE v = w
    BY <1>4, <1>5, <2>1
  <2>2. CASE v # w
    <3>1. /\ wpc[v] \in Executing /\ serial[wrun[v]] = wserial[v] /\ wserial[v] \notin meddled
          /\ wrun'[v] = wrun[v] /\ wjob'[v] = wjob[v]
      BY <1>4, <1>5, <2>2 DEF Own
    <3>2. wrun[v] \in TaskRunIds /\ wrun[v] # t
      BY <1>8, <3>1 DEF PoolInv, RunsHeld, Holding
    <3> QED
      BY <1>5, <3>1, <3>2 DEF PoolInv, ExecutedIsRunning, Own
  <2> QED
    BY <2>1, <2>2
<1>14. RunningIsExecuted'
  <2> SUFFICES ASSUME NEW u \in InState({"running"})', serial'[u] \notin lost'
               PROVE  \E v \in Workers : wpc'[v] \in Executing /\ wserial'[v] = serial'[u]
    BY DEF RunningIsExecuted
  <2>1. CASE u = t
    BY <1>4, <1>5, <2>1 DEF Executing
  <2>2. CASE u # t
    <3>1. u \in InState({"running"}) /\ serial[u] \notin lost
      BY <1>2, <1>5, <2>2 DEF InState
    <3>2. PICK v \in Workers : wpc[v] \in Executing /\ wserial[v] = serial[u]
      BY <1>2, <3>1 DEF PoolInv, RunningIsExecuted, Alive
    <3>3. v # w
      BY <1>2, <3>2 DEF Executing
    <3> QED
      BY <1>4, <1>5, <3>2, <3>3
  <2> QED
    BY <2>1, <2>2
<1>15. IdleOnlyAfterComplete'
  <2> SUFFICES ASSUME NEW v \in Workers, wpc'[v] = "jobIdle", Own(v)'
               PROVE  task'[wrun'[v]].status = "completed"
    BY DEF IdleOnlyAfterComplete
  <2>1. /\ v # w /\ wpc[v] = "jobIdle" /\ Own(v) /\ wrun'[v] = wrun[v]
        /\ wrun[v] \in TaskRunIds
    BY <1>4, <1>5 DEF Own, PoolInv, RunsHeld, Holding
  <2>2. task[wrun[v]].status = "completed"
    BY <2>1 DEF PoolInv, IdleOnlyAfterComplete
  <2> QED
    BY <1>5, <2>1, <2>2
<1> QED
  BY <1>9, <1>10, <1>11, <1>12, <1>13, <1>14, <1>15 DEF PoolInv

LEMMA LoadReturnLeaveInv ==
  ASSUME PoolInv, NEW w \in Workers, Load(w) \/ Return(w) \/ Leave(w)
  PROVE  PoolInv'
<1>1. PICK pc \in WorkerState :
        /\ wpc' = [wpc EXCEPT ![w] = pc]
        /\ \/ wpc[w] \in {"load", "exec"} /\ pc \in {"exec", "fail", "complete"}
           \/ wpc[w] = "claim" /\ pc = "gone"
  BY DEF Load, Return, Leave, Goto, WorkerState
<1>2. UNCHANGED <<queueVars, wrun, wjob, wserial, job, server, toClean, cleanJob,
                  meddled, lost, dbErrors, stops>>
  BY DEF Load, Return, Leave, procVars, historyVars, faultVars
<1>3. /\ werr' \in [Workers -> ErrorKinds \cup {Null}]
      /\ \A v \in Workers \ {w} : werr'[v] = werr[v]
      /\ wpc'[w] = "fail" => werr'[w] \in ErrorKinds
  <2>1. CASE Load(w)
    BY <2>1 DEF Load, Goto, ErrorKinds, PoolInv, PoolTypeOK
  <2>2. CASE Return(w)
    BY <2>2 DEF Return, Goto, PoolInv, PoolTypeOK
  <2>3. CASE Leave(w)
    BY <2>3 DEF Leave, Goto, PoolInv, PoolTypeOK
  <2> QED
    BY <2>1, <2>2, <2>3
<1>4. PoolTypeOK'
  BY <1>1, <1>2, <1>3 DEF PoolInv, PoolTypeOK
<1>5. /\ wpc'[w] = pc
      /\ \A v \in Workers \ {w} : wpc'[v] = wpc[v]
      /\ wrun' = wrun /\ wjob' = wjob /\ wserial' = wserial /\ server' = server /\ lost' = lost
      /\ serial' = serial /\ created' = created
  BY <1>1, <1>2 DEF PoolInv, PoolTypeOK, queueVars
<1>6. RunsHeld' /\ StoppedIsGone'
  BY <1>1, <1>3, <1>5 DEF PoolInv, RunsHeld, StoppedIsGone, Alive, Holding, Executing
<1>7. CleaningKnows'
  BY <1>2 DEF PoolInv, CleaningKnows, InState, queueVars
<1>8. OneExecutor' /\ ExecutedIsRunning' /\ RunningIsExecuted' /\ IdleOnlyAfterComplete'
  <2>1. UNCHANGED <<queueVars, meddled>>
    BY <1>2
  <2> QED
    BY <1>1, <1>5, <2>1, SameExecutions DEF Executing, Alive
<1> QED
  BY <1>4, <1>6, <1>7, <1>8 DEF PoolInv

\* Its write-back does not touch what another goroutine has completed.
LEMMA StillIdle ==
  ASSUME PoolInv, NEW w \in Workers, wpc'[w] # "jobIdle", serial' = serial,
         \A v \in Workers \ {w} :
           wpc'[v] = wpc[v] /\ wrun'[v] = wrun[v] /\ wserial'[v] = wserial[v],
         \A u \in TaskRunIds : task[u].status = "completed" => task'[u] = task[u]
  PROVE  IdleOnlyAfterComplete'
<1> SUFFICES ASSUME NEW v \in Workers, wpc'[v] = "jobIdle", Own(v)'
             PROVE  task'[wrun'[v]].status = "completed"
  BY DEF IdleOnlyAfterComplete
<1>1. /\ v # w /\ wpc[v] = "jobIdle" /\ Own(v) /\ wrun'[v] = wrun[v]
      /\ wrun[v] \in TaskRunIds
  BY DEF Own, PoolInv, RunsHeld, Holding
<1> QED
  BY <1>1 DEF PoolInv, IdleOnlyAfterComplete

LEMMA WriteFailInv ==
  ASSUME PoolInv, QueueInv, NEW w \in Workers, WriteFail(w)
  PROVE  PoolInv'
<1> DEFINE t == wrun[w]
<1>1. /\ wpc[w] = "fail" /\ wpc' = [wpc EXCEPT ![w] = "jobError"]
      /\ UNCHANGED <<wrun, wjob, werr, wserial, job, server, toClean, cleanJob, stops>>
      /\ t \in TaskRunIds /\ werr[w] \in ErrorKinds
  BY DEF WriteFail, KeepRun, Goto, procVars, PoolInv, RunsHeld, Holding, Executing
<1>2. \/ /\ Moves(t, {"running"}, "pending") \/ Moves(t, {"running"}, "failed")
         /\ Meddles(w) /\ UNCHANGED <<lost, dbErrors>>
      \/ /\ task[t].status # "running"
         /\ UNCHANGED <<task, serial, created, meddled, lost, dbErrors>>
      \/ /\ lost' = lost \cup {wserial[w]} /\ dbErrors' = dbErrors + 1
         /\ UNCHANGED <<task, serial, created, meddled>>
  BY <1>1, FailMoves DEF WriteFail, DbError, queueVars
<1>3. /\ serial' = serial /\ created' = created
      /\ \A u \in TaskRunIds \ {t} : task'[u] = task[u]
      /\ task[t].status # "running" => task'[t] = task[t]
      /\ task'[t].status = "running" => task[t].status = "running" /\ wserial[w] \in lost'
      /\ task'[t] = task[t] \/ Own(w) \/ serial[t] \in meddled'
  BY <1>2 DEF Moves, Meddles
<1>4. /\ lost \subseteq lost' /\ lost' \subseteq Nat /\ dbErrors' \in Nat
      /\ meddled \subseteq meddled' /\ meddled' \subseteq Nat
  <2>1. serial[t] \in Nat /\ wserial[w] \in Nat
    BY <1>1, ColumnTypes DEF QueueInv, PoolInv, PoolTypeOK
  <2> QED
    BY <1>2, <2>1 DEF PoolInv, PoolTypeOK, Meddles
<1>5. PoolTypeOK'
  BY <1>1, <1>4 DEF PoolInv, PoolTypeOK, WorkerState
<1>6. wpc'[w] = "jobError" /\ \A v \in Workers \ {w} : wpc'[v] = wpc[v]
  BY <1>1 DEF PoolInv, PoolTypeOK
<1>7. RunsHeld'
  BY <1>1, <1>3, <1>6 DEF PoolInv, RunsHeld, Holding, Executing
<1>8. StoppedIsGone' /\ CleaningKnows'
  BY <1>1, <1>6 DEF PoolInv, StoppedIsGone, CleaningKnows, Alive
<1>9. OneExecutor' /\ ExecutedIsRunning' /\ RunningIsExecuted'
  BY <1>1, <1>3, <1>4, ExecutionEnds DEF Executing, Alive
<1>10. IdleOnlyAfterComplete'
  <2>1. \A u \in TaskRunIds : task[u].status = "completed" => task'[u] = task[u]
    BY <1>3
  <2> QED
    BY <1>1, <1>3, <1>6, <2>1, StillIdle
<1> QED
  BY <1>5, <1>7, <1>8, <1>9, <1>10 DEF PoolInv

LEMMA WriteCompleteInv ==
  ASSUME PoolInv, QueueInv, NEW w \in Workers, WriteComplete(w)
  PROVE  PoolInv'
<1> DEFINE t == wrun[w]
<1>1. /\ wpc[w] = "complete" /\ t \in TaskRunIds
      /\ UNCHANGED <<job, server, toClean, cleanJob, stops>>
  BY DEF WriteComplete, procVars, PoolInv, RunsHeld, Holding, Executing
<1>2. PICK pc \in {"jobIdle", "claim"} :
        /\ wpc' = [wpc EXCEPT ![w] = pc]
        /\ \/ /\ pc = "jobIdle" /\ KeepRun
              /\ Moves(t, {"running"}, "completed") /\ Meddles(w)
              /\ UNCHANGED <<lost, dbErrors>>
           \/ /\ pc = "claim" /\ Forget(w)
              /\ task[t].status # "running"
              /\ UNCHANGED <<task, serial, created, meddled, lost, dbErrors>>
           \/ /\ pc = "claim" /\ Forget(w)
              /\ lost' = lost \cup {wserial[w]} /\ dbErrors' = dbErrors + 1
              /\ UNCHANGED <<task, serial, created, meddled>>
  BY <1>1, CompleteMoves DEF WriteComplete, Goto, DbError, queueVars
<1>3. /\ serial' = serial /\ created' = created
      /\ \A u \in TaskRunIds \ {t} : task'[u] = task[u]
      /\ task[t].status # "running" => task'[t] = task[t]
      /\ task'[t].status = "running" => task[t].status = "running" /\ wserial[w] \in lost'
      /\ task'[t] = task[t] \/ Own(w) \/ serial[t] \in meddled'
  BY <1>2 DEF Moves, Meddles
<1>4. /\ lost \subseteq lost' /\ lost' \subseteq Nat /\ dbErrors' \in Nat
      /\ meddled \subseteq meddled' /\ meddled' \subseteq Nat
  <2>1. serial[t] \in Nat /\ wserial[w] \in Nat
    BY <1>1, ColumnTypes DEF QueueInv, PoolInv, PoolTypeOK
  <2> QED
    BY <1>2, <2>1 DEF PoolInv, PoolTypeOK, Meddles
<1>5. /\ wrun' \in [Workers -> TaskRunIds \cup {Null}]
      /\ wjob' \in [Workers -> JobIds \cup {Null}]
      /\ werr' \in [Workers -> ErrorKinds \cup {Null}]
      /\ wserial' \in [Workers -> Nat]
      /\ \A v \in Workers \ {w} : /\ wrun'[v] = wrun[v] /\ wjob'[v] = wjob[v]
                                  /\ werr'[v] = werr[v] /\ wserial'[v] = wserial[v]
      /\ pc = "jobIdle" => wrun'[w] = wrun[w] /\ wserial'[w] = wserial[w]
  BY <1>2 DEF KeepRun, Forget, PoolInv, PoolTypeOK
<1>6. PoolTypeOK'
  BY <1>1, <1>2, <1>4, <1>5 DEF PoolInv, PoolTypeOK, WorkerState
<1>7. wpc'[w] = pc /\ \A v \in Workers \ {w} : wpc'[v] = wpc[v]
  BY <1>2 DEF PoolInv, PoolTypeOK
<1>8. RunsHeld'
  BY <1>1, <1>3, <1>5, <1>7 DEF PoolInv, RunsHeld, Holding, Executing
<1>9. StoppedIsGone' /\ CleaningKnows'
  BY <1>1, <1>7 DEF PoolInv, StoppedIsGone, CleaningKnows, Alive
<1>10. OneExecutor' /\ ExecutedIsRunning' /\ RunningIsExecuted'
  BY <1>1, <1>2, <1>3, <1>4, <1>5, ExecutionEnds DEF Executing, Alive
<1>11. IdleOnlyAfterComplete'
  <2>1. \A u \in TaskRunIds : task[u].status = "completed" => task'[u] = task[u]
    BY <1>3
  <2>2. CASE pc = "claim"
    BY <1>3, <1>5, <1>7, <2>1, <2>2, StillIdle
  <2>3. CASE pc = "jobIdle"
    <3>1. task'[t].status = "completed"
      BY <1>2, <2>3 DEF Moves
    <3> SUFFICES ASSUME NEW v \in Workers, v # w, wpc'[v] = "jobIdle", Own(v)'
                 PROVE  task'[wrun'[v]].status = "completed"
      BY <1>5, <2>3, <3>1 DEF IdleOnlyAfterComplete
    <3>2. /\ wpc[v] = "jobIdle" /\ Own(v) /\ wrun'[v] = wrun[v] /\ wrun[v] \in TaskRunIds
      BY <1>3, <1>5, <1>7 DEF Own, PoolInv, RunsHeld, Holding
    <3> QED
      BY <2>1, <3>2 DEF PoolInv, IdleOnlyAfterComplete
  <2> QED
    BY <2>2, <2>3
<1> QED
  BY <1>6, <1>8, <1>9, <1>10, <1>11 DEF PoolInv


\* Writing a job's status keeps the type of table jobs.
LEMMA SetJobStatusType ==
  ASSUME PoolTypeOK, NEW j, NEW s \in JobStatus, SetJobStatus(j, s)
  PROVE  job' \in [JobIds -> JobRow]
<1>1. CASE j \in JobIds
  <2> DEFINE r == [job[j] EXCEPT !.status = IF job[j].exists THEN s ELSE @]
  <2>1. job[j] \in JobRow
    BY <1>1 DEF PoolTypeOK
  <2>2. r \in JobRow
    BY <2>1 DEF JobRow
  <2>3. job' = [job EXCEPT ![j] = r]
    BY DEF SetJobStatus
  <2> QED
    BY <2>2, <2>3 DEF PoolTypeOK
<1>2. CASE j \notin JobIds
  BY <1>2 DEF SetJobStatus, PoolTypeOK
<1> QED
  BY <1>1, <1>2

LEMMA WriteJobStatusInv ==
  ASSUME PoolInv, NEW w \in Workers, WriteJobStatus(w)
  PROVE  PoolInv'
<1>1. /\ wpc[w] \in {"jobError", "jobIdle"} /\ wpc' = [wpc EXCEPT ![w] = "claim"]
      /\ Forget(w)
      /\ UNCHANGED <<queueVars, server, toClean, cleanJob, meddled, lost, stops>>
  BY DEF WriteJobStatus, Goto, procVars
<1>2. job' \in [JobIds -> JobRow] /\ dbErrors' \in Nat
  <2>1. CASE DbError /\ UNCHANGED job
    BY <2>1 DEF DbError, PoolInv, PoolTypeOK
  <2>2. CASE /\ SetJobStatus(wjob[w], IF wpc[w] = "jobError" THEN "error" ELSE "idle")
             /\ UNCHANGED dbErrors
    BY <2>2, SetJobStatusType DEF PoolInv, PoolTypeOK, JobStatus
  <2> QED
    BY <2>1, <2>2 DEF WriteJobStatus
<1>3. PoolTypeOK'
  BY <1>1, <1>2 DEF PoolInv, PoolTypeOK, WorkerState, Forget
<1>4. /\ wpc'[w] = "claim"
      /\ \A v \in Workers \ {w} : /\ wpc'[v] = wpc[v] /\ wrun'[v] = wrun[v]
                                  /\ wjob'[v] = wjob[v] /\ werr'[v] = werr[v]
                                  /\ wserial'[v] = wserial[v]
  BY <1>1 DEF PoolInv, PoolTypeOK, Forget
<1>5. RunsHeld' /\ StoppedIsGone'
  BY <1>1, <1>4 DEF PoolInv, RunsHeld, StoppedIsGone, Alive, Holding, Executing, queueVars
<1>6. CleaningKnows'
  BY <1>1 DEF PoolInv, CleaningKnows, InState, queueVars
<1>7. OneExecutor' /\ ExecutedIsRunning' /\ RunningIsExecuted' /\ IdleOnlyAfterComplete'
  BY <1>1, <1>4, SameExecutions DEF Executing, Alive
<1> QED
  BY <1>3, <1>5, <1>6, <1>7 DEF PoolInv

(***************************************************************************)
(* The process.                                                            *)
(***************************************************************************)
LEMMA StartServerInv ==
  ASSUME PoolInv, QueueInv, StartServer
  PROVE  PoolInv'
<1>1. /\ server = "down" /\ server' = "cleaning"
      /\ UNCHANGED <<task, serial, job, cleanJob, wpc, wrun, wjob, werr, wserial,
                     meddled, stops>>
      /\ \/ toClean' = InState({"running"}) /\ UNCHANGED <<lost, dbErrors>>
         \/ /\ toClean' = {} /\ dbErrors' = dbErrors + 1
            /\ lost' = lost \cup {serial[t] : t \in InState({"running"})}
  BY DEF StartServer, DbError, queueVars, workerVars
<1>2. PoolTypeOK'
  <2>1. {serial[t] : t \in InState({"running"})} \subseteq Nat
    BY ColumnTypes DEF QueueInv, InState
  <2>2. InState({"running"}) \subseteq TaskRunIds
    BY DEF InState
  <2>3. toClean' \subseteq TaskRunIds
    BY <1>1, <2>2
  <2>4. lost \subseteq Nat /\ dbErrors \in Nat
    BY DEF PoolInv, PoolTypeOK
  <2>5. lost' \subseteq Nat
    BY <1>1, <2>1, <2>4
  <2>6. dbErrors' \in Nat
    BY <1>1, <2>4
  <2> QED
    BY <1>1, <2>3, <2>5, <2>6 DEF PoolInv, PoolTypeOK, ServerState
<1>3. \A w \in Workers : wpc'[w] = "gone"
  BY <1>1 DEF PoolInv, StoppedIsGone, Alive
<1>4. CleaningKnows'
  BY <1>1 DEF CleaningKnows, InState
<1> QED
  BY <1>1, <1>2, <1>3, <1>4, NobodyExecutes DEF PoolInv, Alive

LEMMA CleanRunInv ==
  ASSUME PoolInv, QueueInv, CleanRun
  PROVE  PoolInv'
<1>1. PICK t \in toClean :
        /\ toClean' = toClean \ {t}
        /\ \/ Interrupt(t) /\ cleanJob' = task[t].job /\ UNCHANGED <<lost, dbErrors>>
           \/ DbError /\ lost' = lost \cup {serial[t]} /\ UNCHANGED <<queueVars, cleanJob>>
  BY DEF CleanRun
<1>2. /\ server = "cleaning" /\ cleanJob = Null
      /\ UNCHANGED <<job, server, wpc, wrun, wjob, werr, wserial, meddled, stops>>
  BY DEF CleanRun, workerVars
<1>3. t \in TaskRunIds /\ task[t] \in TaskRow /\ serial[t] \in Nat
  BY ColumnTypes DEF PoolInv, PoolTypeOK, QueueInv
<1>4. cleanJob' \in JobIds \cup {Null} /\ lost' \subseteq Nat /\ dbErrors' \in Nat
  <2>1. /\ cleanJob \in JobIds \cup {Null} /\ lost \subseteq Nat /\ dbErrors \in Nat
        /\ task[t].job \in JobIds \cup {Null}
    BY <1>3 DEF PoolInv, PoolTypeOK, TaskRow
  <2>2. cleanJob' \in JobIds \cup {Null}
    BY <1>1, <2>1
  <2>3. lost' \subseteq Nat
    BY <1>1, <1>3, <2>1
  <2>4. dbErrors' \in Nat
    BY <1>1, <2>1 DEF DbError
  <2> QED
    BY <2>2, <2>3, <2>4
<1>5. PoolTypeOK'
  BY <1>1, <1>2, <1>4 DEF PoolInv, PoolTypeOK
<1>6. \A w \in Workers : wpc'[w] = "gone"
  BY <1>2 DEF PoolInv, StoppedIsGone, Alive
<1>7. /\ \A u \in TaskRunIds \ {t} : task'[u] = task[u]
      /\ serial' = serial
      /\ t \in InState({"running"})' => serial'[t] \in lost'
  <2>1. CASE Interrupt(t) /\ UNCHANGED lost
    BY <1>3, <2>1, InterruptMoves DEF Moves, InState
  <2>2. CASE lost' = lost \cup {serial[t]} /\ UNCHANGED queueVars
    BY <2>2 DEF queueVars
  <2> QED
    BY <1>1, <2>1, <2>2
<1>8. lost \subseteq lost'
  BY <1>1
<1>9. CleaningKnows'
  <2>1. toClean' \subseteq InState({"running"})'
    BY <1>1, <1>2, <1>7 DEF PoolInv, CleaningKnows, InState
  <2>2. ASSUME NEW u \in InState({"running"})', serial'[u] \notin lost'
        PROVE  u \in toClean'
    <3>1. u # t /\ u \in TaskRunIds /\ task[u].status = "running" /\ serial[u] \notin lost
      BY <1>7, <1>8, <2>2 DEF InState
    <3> QED
      BY <1>1, <1>2, <3>1 DEF PoolInv, CleaningKnows, InState
  <2> QED
    BY <1>2, <2>1, <2>2 DEF CleaningKnows
<1> QED
  BY <1>2, <1>5, <1>6, <1>9, NobodyExecutes DEF PoolInv, Alive

LEMMA CleanJobInv ==
  ASSUME PoolInv, CleanJob
  PROVE  PoolInv'
<1>1. /\ server = "cleaning" /\ cleanJob' = Null
      /\ UNCHANGED <<task, serial, server, toClean, wpc, wrun, wjob, werr, wserial,
                     meddled, lost, stops>>
  BY DEF CleanJob, workerVars, queueVars
<1>2. job' \in [JobIds -> JobRow] /\ dbErrors' \in Nat
  BY SetJobStatusType DEF CleanJob, DbError, PoolInv, PoolTypeOK, JobStatus
<1>3. PoolTypeOK'
  BY <1>1, <1>2 DEF PoolInv, PoolTypeOK
<1>4. \A w \in Workers : wpc'[w] = "gone"
  BY <1>1 DEF PoolInv, StoppedIsGone, Alive
<1>5. CleaningKnows'
  BY <1>1 DEF PoolInv, CleaningKnows, InState
<1> QED
  BY <1>1, <1>3, <1>4, <1>5, NobodyExecutes DEF PoolInv, Alive

\* The pool starts with nothing to execute: no run is left running, but lost
\* ones, once the clean-up's list is empty.
LEMMA ServeInv ==
  ASSUME PoolInv, Serve
  PROVE  PoolInv'
<1>1. /\ server = "cleaning" /\ toClean = {} /\ cleanJob = Null /\ server' = "up"
      /\ wpc' = [w \in Workers |-> "claim"]
      /\ UNCHANGED <<task, serial, job, toClean, cleanJob, wrun, wjob, werr, wserial,
                     meddled, lost, dbErrors, stops>>
  BY DEF Serve, queueVars, historyVars, faultVars
<1>2. PoolTypeOK'
  BY <1>1 DEF PoolInv, PoolTypeOK, ServerState, WorkerState
<1>3. \A w \in Workers : wpc'[w] = "claim"
  BY <1>1
<1>4. RunsHeld' /\ StoppedIsGone' /\ OneExecutor' /\ ExecutedIsRunning' /\ IdleOnlyAfterComplete'
  BY <1>1, <1>3 DEF RunsHeld, StoppedIsGone, OneExecutor, ExecutedIsRunning,
                    IdleOnlyAfterComplete, Holding, Executing, Alive
<1>5. \A t \in InState({"running"})' : serial'[t] \in lost'
  BY <1>1 DEF PoolInv, CleaningKnows, InState
<1>6. RunningIsExecuted' /\ CleaningKnows'
  BY <1>1, <1>5 DEF RunningIsExecuted, CleaningKnows
<1> QED
  BY <1>2, <1>4, <1>6 DEF PoolInv

LEMMA DrainStopInv ==
  ASSUME PoolInv, Drain \/ StopPool
  PROVE  PoolInv'
<1>1. /\ server \in {"up", "draining"} /\ server' \in {"draining", "stopping"}
      /\ UNCHANGED <<queueVars, job, toClean, cleanJob, wpc, wrun, wjob, werr, wserial,
                     meddled, lost, dbErrors>>
      /\ stops' \in {stops, stops + 1}
  BY DEF Drain, StopPool, workerVars, historyVars, faultVars
<1>2. PoolTypeOK'
  BY <1>1 DEF PoolInv, PoolTypeOK, ServerState
<1>3. RunsHeld' /\ StoppedIsGone' /\ CleaningKnows'
  BY <1>1 DEF PoolInv, RunsHeld, StoppedIsGone, CleaningKnows, Alive, queueVars
<1>4. OneExecutor' /\ ExecutedIsRunning' /\ RunningIsExecuted' /\ IdleOnlyAfterComplete'
  BY <1>1, SameExecutions DEF Alive
<1> QED
  BY <1>2, <1>3, <1>4 DEF PoolInv

LEMMA ProcessEndsInv ==
  ASSUME PoolInv, ProcessEnds
  PROVE  PoolInv'
<1>1. /\ server' = "down" /\ toClean' = {} /\ cleanJob' = Null
      /\ wpc' = [w \in Workers |-> "gone"]
      /\ wrun' = [w \in Workers |-> Null] /\ wjob' = [w \in Workers |-> Null]
      /\ werr' = [w \in Workers |-> Null] /\ wserial' = [w \in Workers |-> 0]
      /\ UNCHANGED <<job, meddled, lost, dbErrors>>
      /\ stops' \in {stops, stops + 1}
  BY DEF ProcessEnds, Exit, Crash, Dies
<1>2. PoolTypeOK'
  BY <1>1 DEF PoolInv, PoolTypeOK, ServerState, WorkerState
<1>3. CleaningKnows'
  BY <1>1 DEF CleaningKnows
<1> QED
  BY <1>1, <1>2, <1>3, NobodyExecutes DEF PoolInv, Alive

(***************************************************************************)
(* Time and the environment.                                               *)
(***************************************************************************)
LEMMA TimeInv ==
  ASSUME PoolInv, QueueInv, Time
  PROVE  PoolInv'
<1>1. UNCHANGED <<task, serial, job, procVars, workerVars, historyVars>>
  BY DEF Time, Tick
<1>2. QueueStep
  BY DEF Time, QueueStep, QueueNext
<1>3. PoolTypeOK' /\ CleaningKnows'
  BY <1>1 DEF PoolInv, PoolTypeOK, CleaningKnows, InState, procVars, workerVars,
              historyVars, faultVars
<1> QED
  BY <1>1, <1>2, <1>3, OutsideStep DEF PoolInv, historyVars, faultVars

\* What the environment may do to the queue: it makes no run running, and a
\* running one is cancelled or deleted at most.
LEMMA EnvQueueRows ==
  ASSUME QueueInv, EnvQueue, NEW u \in TaskRunIds
  PROVE  /\ task[u].status = "running" =>
              task'[u].status \in {"none", "running", "cancelled"}
         /\ task'[u].status = "running" => task[u].status = "running"
<1>1. ASSUME NEW j \in JobIds, NEW k \in DedupKeys, NEW p \in Priorities,
             NEW l \in AttemptLimits, NEW d \in StartDelays, Enqueue(j, k, p, l, d)
      PROVE  /\ task[u].status = "running" => task'[u].status = "running"
             /\ task'[u].status = "running" => task[u].status = "running"
  BY <1>1, EnqueueCreates
<1>2. ASSUME NEW t \in TaskRunIds, Cancel(t)
      PROVE  /\ task[u].status = "running" => task'[u].status \in {"running", "cancelled"}
             /\ task'[u].status = "running" => task[u].status = "running"
  BY <1>2, CancelMoves DEF Moves
<1>3. ASSUME NEW S \in SUBSET TaskRunIds, DeleteTaskRuns(S)
      PROVE  /\ task[u].status = "running" => task'[u].status \in {"none", "running"}
             /\ task'[u].status = "running" => task[u].status = "running"
  BY <1>3, DeletedRow
<1> QED
  BY <1>1, <1>2, <1>3 DEF EnvQueue

LEMMA EnvQueueInv ==
  ASSUME PoolInv, QueueInv, EnvQueue
  PROVE  PoolInv'
<1>1. UNCHANGED <<job, procVars, workerVars, historyVars>> /\ Alive
  BY DEF EnvQueue
<1>2. QueueStep
  BY DEF EnvQueue, QueueStep, QueueNext
<1>3. PoolTypeOK' /\ CleaningKnows'
  BY <1>1 DEF PoolInv, PoolTypeOK, CleaningKnows, Alive, procVars, workerVars,
              historyVars, faultVars
<1>4. \A u \in TaskRunIds :
        /\ task[u].status = "running" =>
             task'[u].status \in {"none", "running", "cancelled"}
        /\ task'[u].status = "running" => task[u].status = "running"
  BY EnvQueueRows
<1> QED
  BY <1>1, <1>2, <1>3, <1>4, OutsideStep DEF PoolInv, historyVars, faultVars

\* A step that changes at most the rows of jobs.
LEMMA QueueKeptInv ==
  ASSUME PoolInv, UNCHANGED <<queueVars, procVars, workerVars, historyVars>>,
         job' \in [JobIds -> JobRow]
  PROVE  PoolInv'
<1>1. UNCHANGED <<task, created, serial, server, toClean, cleanJob, wpc, wrun, wjob, werr,
                  wserial, meddled, lost, dbErrors, stops>>
  BY DEF queueVars, procVars, workerVars, historyVars, faultVars
<1>2. PoolTypeOK' /\ CleaningKnows' /\ RunsHeld' /\ StoppedIsGone'
  BY <1>1 DEF PoolInv, PoolTypeOK, CleaningKnows, RunsHeld, StoppedIsGone, Alive, InState
<1>3. OneExecutor' /\ ExecutedIsRunning' /\ RunningIsExecuted' /\ IdleOnlyAfterComplete'
  BY <1>1, SameExecutions DEF Alive
<1> QED
  BY <1>2, <1>3 DEF PoolInv

LEMMA EnvJobInv ==
  ASSUME PoolInv, EnvJob
  PROVE  PoolInv'
<1>1. UNCHANGED <<queueVars, procVars, workerVars, historyVars>>
  BY DEF EnvJob
<1>2. job' \in [JobIds -> JobRow]
  BY EnvJobRowsAssumption DEF EnvJob, PoolInv, PoolTypeOK
<1> QED
  BY <1>1, <1>2, QueueKeptInv

LEMMA PoolStutterInv ==
  ASSUME PoolInv, UNCHANGED poolVars
  PROVE  PoolInv'
<1>1. job' \in [JobIds -> JobRow]
  BY DEF poolVars, PoolInv, PoolTypeOK
<1> QED
  BY <1>1, QueueKeptInv DEF poolVars

-------------------------------------------------------------------------------
(***************************************************************************)
(* The theorems.                                                           *)
(***************************************************************************)
LEMMA PoolQueueStep ==
  ASSUME PoolInv, [PoolNext]_poolVars
  PROVE  QueueStep
<1>1. PoolTypeOK
  BY DEF PoolInv
<1>2. ASSUME NEW w \in Workers, WorkerStep(w) PROVE QueueStep
  BY <1>1, <1>2, WorkerQueueStep DEF PoolInv, RunsHeld, Holding, Executing
<1>3. CASE UNCHANGED poolVars
  BY <1>3 DEF poolVars, QueueStep
<1> QED
  BY <1>1, <1>2, <1>3, ProcessQueueStep DEF PoolNext

LEMMA PoolNextInv ==
  ASSUME PoolInv, QueueInv, [PoolNext]_poolVars
  PROVE  PoolInv'
<1>1. ASSUME NEW w \in Workers, WorkerStep(w) PROVE PoolInv'
  BY <1>1, ClaimInv, LoadReturnLeaveInv, WriteFailInv, WriteCompleteInv, WriteJobStatusInv
  DEF WorkerStep
<1>2. CASE ProcessStep
  BY <1>2, StartServerInv, CleanRunInv, CleanJobInv, ServeInv, DrainStopInv DEF ProcessStep
<1>3. CASE Environment
  BY <1>3, EnvQueueInv, EnvJobInv DEF Environment
<1> QED
  BY <1>1, <1>2, <1>3, ProcessEndsInv, TimeInv, PoolStutterInv DEF PoolNext

\* The invariant of goroutines and rows, with that of the queue.
THEOREM PoolInvariant == PoolSpec => [](PoolInv /\ QueueInv)
<1>1. PoolInit => PoolInv /\ QueueInv
  BY PoolInitInv, InitInv DEF PoolInit
<1>2. PoolInv /\ QueueInv /\ [PoolNext]_poolVars => (PoolInv /\ QueueInv)'
  BY PoolNextInv, PoolQueueStep, NextInv DEF QueueStep
<1> QED
  BY <1>1, <1>2, PTL DEF PoolSpec

\* Goroutines, clean-up, process and environment use the queue as TaskQueue
\* specifies it; with it they inherit every theorem about the queue.
THEOREM PoolImplementsQueue == PoolSpec => ImplementsQueue
<1>1. PoolInit => QueueInit
  BY DEF PoolInit
<1>2. PoolInv /\ [PoolNext]_poolVars => [QueueNext]_queueVars
  BY PoolQueueStep DEF QueueStep
<1> QED
  BY <1>1, <1>2, PoolInvariant, PTL DEF PoolSpec, ImplementsQueue, QueueSpec

\* The pool's variables have their types.
THEOREM PoolTypeCorrect == PoolSpec => []PoolTypeOK
<1>1. PoolInv => PoolTypeOK
  BY DEF PoolInv
<1> QED
  BY <1>1, PoolInvariant, PTL

\* Two goroutines never execute the same run, though they may execute two runs
\* that got the same key, one after the other; unless the goroutine of the earlier
\* one changed the row of the later.
THEOREM OneExecutorHolds == PoolSpec => []OneExecutor
<1>1. PoolInv => OneExecutor
  BY DEF PoolInv
<1> QED
  BY <1>1, PoolInvariant, PTL

\* An executed run whose row is still its own is running in the table, or
\* cancelled since, unless the goroutine of an earlier run with its key changed it.
THEOREM ExecutedIsRunningHolds == PoolSpec => []ExecutedIsRunning
<1>1. PoolInv => ExecutedIsRunning
  BY DEF PoolInv
<1> QED
  BY <1>1, PoolInvariant, PTL

\* A run the table calls running is being executed, or a database error lost it.
THEOREM RunningIsExecutedHolds == PoolSpec => []RunningIsExecuted
<1>1. PoolInv => RunningIsExecuted
  BY DEF PoolInv
<1> QED
  BY <1>1, PoolInvariant, PTL

\* A job is marked idle by a goroutine only after its run has completed, if the row
\* is still that of its run.
THEOREM IdleOnlyAfterCompleteHolds == PoolSpec => []IdleOnlyAfterComplete
<1>1. PoolInv => IdleOnlyAfterComplete
  BY DEF PoolInv
<1> QED
  BY <1>1, PoolInvariant, PTL

\* The attempt budget holds through crashes, restarts and lost write-backs.
THEOREM PoolRunBudgetHolds == PoolSpec => []RunBudget
  BY PoolImplementsQueue, RunBudgetHolds, PTL DEF ImplementsQueue

-------------------------------------------------------------------------------
(***************************************************************************)
(* The handlers.  What a handler at work has in hand: a job, unless it     *)
(* deletes runs, and for StopJob the listed runs, of which those it has    *)
(* come past without an error are cancelled or gone.                       *)
(***************************************************************************)
HandlerOK(r) ==
  /\ req[r].next \notin {"none", "deleteRuns"} => req[r].job \in JobIds
  /\ req[r].next = "cancel" => req[r].left # {}
  /\ req[r].next \in {"cancel", "idle"} => \A n \in req[r].runs : n <= created
  /\ req[r].next \in {"cancel", "idle"} /\ ~req[r].failed =>
       \A t \in Rows : serial[t] \in req[r].runs /\ t \notin req[r].left =>
         task[t].status = "cancelled"
  /\ req[r].next = "idle" => ~req[r].failed /\ req[r].left = {}

ControlInv ==
  /\ PoolInv
  /\ QueueInv
  /\ ControlTypeOK
  /\ \A r \in Reqs : HandlerOK(r)

LEMMA NoReqType == NoReq \in ReqRow /\ NoJob \in JobRow
  BY DEF NoReq, ReqRow, NoJob, JobRow, JobStatus

(***************************************************************************)
(* Every step is a step of the pool or leaves it alone.                    *)
(***************************************************************************)
LEMMA EnvJobStep ==
  ASSUME Alive, JobOnly, NEW j \in JobIds, NEW row \in JobRow,
         job' = [job EXCEPT ![j] = row]
  PROVE  PoolNext
  BY HandlerInputsAssumption DEF JobOnly, EnvJob, Environment, PoolNext

LEMMA SetJobStatusStep ==
  ASSUME PoolTypeOK, Alive, JobOnly, NEW j \in JobIds, NEW s \in JobStatus,
         SetJobStatus(j, s)
  PROVE  PoolNext
<1> DEFINE row == [job[j] EXCEPT !.status = IF job[j].exists THEN s ELSE @]
<1>1. row \in JobRow
  BY DEF PoolTypeOK, JobRow
<1>2. job' = [job EXCEPT ![j] = row]
  BY DEF SetJobStatus
<1> HIDE DEF row
<1> QED
  BY <1>1, <1>2, EnvJobStep

LEMMA HandlerStep ==
  ASSUME ControlInv, NEW r \in Reqs, Handler(r)
  PROVE  PoolNext \/ UNCHANGED poolVars
<1>0. req[r] \in ReqRow /\ HandlerOK(r) /\ PoolTypeOK
  BY DEF ControlInv, ControlTypeOK, PoolInv
<1>1. CASE \/ \E j \in JobIds : \/ RunLoad(r, j) \/ StopLoad(r, j) \/ UpdateLoad(r, j)
                                \/ DeleteCount(r, j) \/ CronLoad(r, j)
           \/ \E S \in SUBSET TaskRunIds : DeleteRunsLoad(r, S)
           \/ RunCount(r) \/ StopList(r) \/ GiveUp(r)
  BY <1>1 DEF RunLoad, StopLoad, UpdateLoad, DeleteCount, CronLoad, RunCount, StopList,
              DeleteRunsLoad, GiveUp
<1>2. CASE RunEnqueue(r) \/ CronEnqueue(r)
  <2>1. PICK k \in DedupKeys : Enqueue(req[r].job, k, TaskPriorityNormal, 0, 0)
    BY <1>2 DEF RunEnqueue, CronEnqueue
  <2>2. Alive /\ QueueOnly /\ req[r].job \in JobIds
    BY <1>0, <1>2 DEF RunEnqueue, CronEnqueue, At, HandlerOK
  <2> QED
    BY <2>1, <2>2, HandlerInputsAssumption DEF QueueOnly, EnvQueue, Environment, PoolNext
<1>3. CASE RunMark(r) \/ StopMark(r)
  <2>1. Alive /\ JobOnly /\ req[r].job \in JobIds
    BY <1>0, <1>3 DEF RunMark, StopMark, At, HandlerOK
  <2>2. PICK s \in JobStatus : SetJobStatus(req[r].job, s)
    BY <1>3 DEF RunMark, StopMark, JobStatus
  <2> QED
    BY <1>0, <2>1, <2>2, SetJobStatusStep
<1>4. CASE StopCancel(r)
  <2>1. PICK t \in LatestLeft(r) : Cancel(t) \/ UNCHANGED queueVars
    BY <1>4 DEF StopCancel
  <2>2. t \in TaskRunIds
    BY <1>0 DEF LatestLeft, ReqRow
  <2>3. Alive /\ QueueOnly
    BY <1>4 DEF StopCancel, At
  <2>4. CASE Cancel(t)
    BY <2>2, <2>3, <2>4 DEF QueueOnly, EnvQueue, Environment, PoolNext
  <2>5. CASE UNCHANGED queueVars
    BY <2>3, <2>5 DEF QueueOnly, poolVars
  <2> QED
    BY <2>1, <2>4, <2>5
<1>5. CASE UpdateSave(r)
  <2> DEFINE j == req[r].job
             row == IF job[j].exists THEN req[r].row ELSE [req[r].row EXCEPT !.enabled = TRUE]
  <2>1. Alive /\ JobOnly /\ j \in JobIds
    BY <1>0, <1>5 DEF UpdateSave, At, HandlerOK
  <2>2. row \in JobRow
    BY <1>0 DEF ReqRow, JobRow
  <2>3. job' = [job EXCEPT ![j] = row]
    BY <1>5 DEF UpdateSave
  <2> HIDE DEF row
  <2> QED
    BY <2>1, <2>2, <2>3, EnvJobStep
<1>6. CASE DeleteRow(r)
  <2>1. Alive /\ JobOnly /\ req[r].job \in JobIds /\ job' = [job EXCEPT ![req[r].job] = NoJob]
    BY <1>0, <1>6 DEF DeleteRow, At, HandlerOK
  <2> QED
    BY <2>1, NoReqType, EnvJobStep
<1>7. CASE DeleteRuns(r)
  <2>1. DeleteTaskRuns(req[r].left) /\ req[r].left \in SUBSET TaskRunIds
    BY <1>0, <1>7 DEF DeleteRuns, ReqRow
  <2>2. Alive /\ QueueOnly
    BY <1>7 DEF DeleteRuns, At
  <2> QED
    BY <2>1, <2>2 DEF QueueOnly, EnvQueue, Environment, PoolNext
<1> QED
  BY <1>1, <1>2, <1>3, <1>4, <1>5, <1>6, <1>7 DEF Handler

LEMMA AtomicHandlerStep ==
  ASSUME ControlInv, AtomicHandler
  PROVE  PoolNext
<1>1. ASSUME NEW j \in JobIds, NEW en \in BOOLEAN, SetEnabled(j, en) PROVE PoolNext
  <2> DEFINE row == [job[j] EXCEPT !.enabled = en]
  <2>1. row \in JobRow
    BY DEF ControlInv, ControlTypeOK, JobRow
  <2>2. Alive /\ JobOnly /\ job' = [job EXCEPT ![j] = row]
    BY <1>1 DEF SetEnabled, Alive
  <2> HIDE DEF row
  <2> QED
    BY <2>1, <2>2, EnvJobStep
<1>2. ASSUME NEW t \in TaskRunIds, CancelRun(t) PROVE PoolNext
  BY <1>2 DEF CancelRun, QueueOnly, Alive, EnvQueue, Environment, PoolNext
<1> QED
  BY <1>1, <1>2 DEF AtomicHandler

LEMMA ControlPoolStep ==
  ASSUME ControlInv, [ControlNext]_controlVars
  PROVE  [PoolNext]_poolVars
<1>1. CASE UNCHANGED controlVars
  BY <1>1 DEF controlVars
<1>2. CASE \E r \in Reqs : Handler(r)
  BY <1>2, HandlerStep
<1>3. CASE AtomicHandler
  BY <1>3, AtomicHandlerStep
<1>4. CASE \/ \E w \in Workers : WorkerStep(w)
           \/ ProcessStep \/ Time \/ ProcessEnds
  BY <1>4 DEF PoolNext
<1> QED
  BY <1>1, <1>2, <1>3, <1>4 DEF ControlNext, ControlStep

(***************************************************************************)
(* The handlers' state.                                                    *)
(***************************************************************************)

\* A row with the serial of a run created before had it before, and is still
\* cancelled if it was.
LEMMA StaysCancelled ==
  ASSUME ControlInv, [ControlNext]_controlVars, NEW t \in Rows', serial'[t] <= created
  PROVE  /\ t \in Rows /\ serial'[t] = serial[t]
         /\ task[t].status = "cancelled" => task'[t].status = "cancelled"
<1>1. QueueStep /\ QueueInv /\ QueueInv'
  BY ControlPoolStep, PoolQueueStep, NextInv DEF ControlInv, QueueStep
<1>2. t \in TaskRunIds /\ RunOK(t) /\ RunOK(t)'
  BY <1>1 DEF QueueInv, Rows
<1>3. serial'[t] # 0
  BY <1>2 DEF RunOK, Rows
<1>4. serial'[t] = serial[t] /\ (task[t].status \in Terminal => task'[t] = task[t])
  BY <1>1, <1>2, <1>3, RunStays
<1> QED
  BY <1>2, <1>3, <1>4 DEF RunOK, Rows, Terminal

LEMMA CreatedGrows ==
  ASSUME ControlInv, [ControlNext]_controlVars
  PROVE  created \in Nat /\ created' \in Nat /\ created <= created'
<1>1. QueueStep /\ QueueInv /\ QueueInv'
  BY ControlPoolStep, PoolQueueStep, NextInv DEF ControlInv, QueueStep
<1>2. created \in Nat /\ created' \in Nat
  BY <1>1 DEF QueueInv, QueueTypeOK
<1>3. created' \in {created, created + 1}
  BY <1>1, StepCreates
<1> QED
  BY <1>2, <1>3

\* A handler whose state a step leaves alone, or that has ended, stays right.
LEMMA UntouchedHandler ==
  ASSUME ControlInv, [ControlNext]_controlVars, NEW r \in Reqs,
         req'[r] \in {req[r], NoReq}
  PROVE  HandlerOK(r)' /\ req'[r] \in ReqRow
<1>1. req[r] \in ReqRow /\ HandlerOK(r)
  BY DEF ControlInv, ControlTypeOK
<1>2. CASE req'[r] = NoReq
  BY <1>2, NoReqType DEF HandlerOK, NoReq
<1>3. CASE req'[r] = req[r]
  <2>1. created' \in Nat /\ created \in Nat /\ created <= created'
    BY CreatedGrows
  <2>2. req[r].runs \subseteq Nat
    BY <1>1 DEF ReqRow
  <2>3. (\A n \in req[r].runs : n <= created) => \A n \in req[r].runs : n <= created'
    BY <2>1, <2>2
  <2>4. ASSUME req[r].next \in {"cancel", "idle"}, ~req[r].failed, NEW t \in Rows',
               serial'[t] \in req[r].runs, t \notin req[r].left
        PROVE  task'[t].status = "cancelled"
    <3>1. t \in Rows /\ serial'[t] = serial[t]
          /\ (task[t].status = "cancelled" => task'[t].status = "cancelled")
      BY <1>1, <2>4, StaysCancelled DEF HandlerOK
    <3> QED
      BY <1>1, <2>4, <3>1 DEF HandlerOK
  <2> QED
    BY <1>1, <1>3, <2>3, <2>4 DEF HandlerOK
<1> QED
  BY <1>2, <1>3

\* A handler that is neither listing nor cancelling runs moves on.
LEMMA PlainHandler ==
  ASSUME NEW r \in Reqs, req'[r] \in ReqRow,
         req'[r].next \notin {"cancel", "idle"}, req'[r].job \in JobIds
  PROVE  HandlerOK(r)'
  BY DEF HandlerOK

LEMMA ActingHandler ==
  ASSUME ControlInv, [ControlNext]_controlVars, NEW r \in Reqs, Handler(r)
  PROVE  HandlerOK(r)' /\ req' \in [Reqs -> ReqRow]
         /\ \A q \in Reqs \ {r} : req'[q] = req[q]
<1>0. req \in [Reqs -> ReqRow] /\ req[r] \in ReqRow /\ HandlerOK(r)
  BY DEF ControlInv, ControlTypeOK
<1>1. SUFFICES \E q \in ReqRow :
        /\ req' = [req EXCEPT ![r] = q]
        /\ \/ q = NoReq
           \/ q.next = "deleteRuns"
           \/ q.next \notin {"none", "cancel", "idle"} /\ q.job \in JobIds
           \/ HandlerOK(r)' /\ q = req'[r]
  BY <1>0, NoReqType, PlainHandler DEF HandlerOK, NoReq
<1>2. CASE \/ RunMark(r) \/ StopMark(r) \/ UpdateSave(r) \/ DeleteRow(r)
           \/ CronEnqueue(r) \/ DeleteRuns(r) \/ GiveUp(r)
  BY <1>2, NoReqType DEF RunMark, StopMark, UpdateSave, DeleteRow, CronEnqueue, DeleteRuns,
                         GiveUp, Done, Become
<1>3. ASSUME NEW j \in JobIds,
             RunLoad(r, j) \/ StopLoad(r, j) \/ DeleteCount(r, j) \/ CronLoad(r, j)
      PROVE  \E q \in ReqRow : req' = [req EXCEPT ![r] = q]
                               /\ q.next \notin {"none", "cancel", "idle"} /\ q.job \in JobIds
  <2>1. PICK n \in {"count", "list", "remove", "cronEnqueue"} :
          req' = [req EXCEPT ![r] = [NoReq EXCEPT !.next = n, !.job = j]]
    BY <1>3 DEF RunLoad, StopLoad, DeleteCount, CronLoad, Become
  <2>2. [NoReq EXCEPT !.next = n, !.job = j] \in ReqRow
    BY NoReqType DEF NoReq, ReqRow
  <2> QED
    BY <2>1, <2>2 DEF NoReq
<1>4. ASSUME NEW j \in JobIds, UpdateLoad(r, j)
      PROVE  \E q \in ReqRow : req' = [req EXCEPT ![r] = q]
                               /\ q.next \notin {"none", "cancel", "idle"} /\ q.job \in JobIds
  <2>1. PICK en \in BOOLEAN :
          req' = [req EXCEPT ![r] = [NoReq EXCEPT !.next = "save", !.job = j,
                                                  !.row = [job[j] EXCEPT !.enabled = en]]]
    BY <1>4 DEF UpdateLoad, Become
  <2> DEFINE row == [job[j] EXCEPT !.enabled = en]
  <2>2. row \in JobRow
    BY DEF ControlInv, ControlTypeOK, JobRow
  <2> HIDE DEF row
  <2>3. [NoReq EXCEPT !.next = "save", !.job = j, !.row = row] \in ReqRow
    BY <2>2, NoReqType DEF NoReq, ReqRow
  <2> QED
    BY <2>1, <2>3 DEF NoReq, row
<1>5. CASE RunCount(r) \/ RunEnqueue(r)
  <2>1. CASE Done(r)
    BY <2>1, NoReqType DEF Done, Become
  <2>2. CASE Continue(r, "enqueue") \/ Continue(r, "mark")
    <3>1. PICK n \in {"enqueue", "mark"} : req' = [req EXCEPT ![r] = [req[r] EXCEPT !.next = n]]
      BY <2>2 DEF Continue
    <3>2. [req[r] EXCEPT !.next = n] \in ReqRow /\ req[r].job \in JobIds
      BY <1>0, <1>5 DEF ReqRow, HandlerOK, RunCount, RunEnqueue, At
    <3> QED
      BY <1>0, <3>1, <3>2 DEF ReqRow
  <2> QED
    BY <1>5, <2>1, <2>2 DEF RunCount, RunEnqueue
<1>6. CASE StopList(r)
  <2> DEFINE active == ActiveRunsOf(req[r].job)
             runs == {serial[t] : t \in active}
             q == [req[r] EXCEPT !.next = "cancel", !.left = active, !.runs = runs]
  <2>1. CASE active = {}
    BY <1>6, <2>1, NoReqType DEF StopList, Done, Become
  <2>2. CASE active # {}
    <3>1. req' = [req EXCEPT ![r] = q] /\ req[r].job \in JobIds
      BY <1>0, <1>6, <2>2 DEF StopList, Become, At, HandlerOK
    <3>2. active \subseteq Rows /\ active \subseteq TaskRunIds
      BY DEF ActiveRunsOf, InState, Rows, Active
    <3>3. \A t \in active : serial[t] \in Nat /\ serial[t] <= created
      BY <3>2, ColumnTypes DEF ControlInv, QueueInv, RunOK
    <3>4. runs \subseteq Nat /\ \A n \in runs : n <= created
      BY <3>3
    <3>5. \A t \in Rows : serial[t] \in runs => t \in active
      BY <3>2 DEF ControlInv, QueueInv, SerialsUnique
    <3> HIDE DEF runs
    <3>6. q \in ReqRow
      BY <1>0, <3>2, <3>4 DEF ReqRow
    <3>7. req'[r] = q /\ q.next = "cancel" /\ q.runs = runs /\ q.left = active /\ q.job = req[r].job
      BY <1>0, <3>1 DEF ReqRow
    <3>8. task' = task /\ serial' = serial /\ created' = created
      BY <1>6 DEF StopList, poolVars, queueVars
    <3>9. HandlerOK(r)'
      BY <2>2, <3>1, <3>4, <3>5, <3>7, <3>8 DEF HandlerOK, Rows
    <3> QED
      BY <3>1, <3>6, <3>7, <3>9
  <2> QED
    BY <2>1, <2>2
<1>7. CASE StopCancel(r)
  <2>1. PICK t \in LatestLeft(r) :
          \/ Cancel(t) /\ Cancelled(r, t, FALSE)
          \/ UNCHANGED queueVars /\ Cancelled(r, t, TRUE)
    BY <1>7 DEF StopCancel
  <2>2. t \in req[r].left /\ t \in TaskRunIds /\ req[r].next = "cancel" /\ req[r].job \in JobIds
    BY <1>0, <1>7 DEF LatestLeft, ReqRow, StopCancel, At, HandlerOK
  <2>3. PICK failed \in BOOLEAN :
          /\ Cancelled(r, t, failed) /\ (~failed => task'[t].status = "cancelled")
          /\ created' = created
    BY <2>1, <2>2, CancelMoves DEF ControlInv, Moves, queueVars
  <2> DEFINE q == [req[r] EXCEPT !.left = @ \ {t}, !.failed = @ \/ failed]
  <2>4. /\ q \in ReqRow /\ q.next = "cancel" /\ q.job = req[r].job /\ q.runs = req[r].runs
        /\ q.left = req[r].left \ {t} /\ q.failed = (req[r].failed \/ failed)
    BY <1>0, <2>2 DEF ReqRow
  <2>5. /\ \A n \in q.runs : n <= created'
        /\ ~q.failed => \A u \in Rows' : serial'[u] \in q.runs /\ u \notin q.left =>
                           task'[u].status = "cancelled"
    <3>1. \A n \in q.runs : n <= created'
      BY <1>0, <2>2, <2>3, <2>4 DEF HandlerOK
    <3>2. ASSUME ~q.failed, NEW u \in Rows', serial'[u] \in q.runs, u \notin q.left
          PROVE  task'[u].status = "cancelled"
      <4>1. CASE u = t
        BY <2>3, <2>4, <3>2, <4>1
      <4>2. CASE u # t
        <5>1. /\ u \in Rows /\ serial'[u] = serial[u]
              /\ task[u].status = "cancelled" => task'[u].status = "cancelled"
          BY <2>3, <3>1, <3>2, StaysCancelled
        <5> QED
          BY <1>0, <2>2, <2>4, <3>2, <4>2, <5>1 DEF HandlerOK
      <4> QED
        BY <4>1, <4>2
    <3> QED
      BY <3>1, <3>2
  <2>6. \/ Become(r, q) /\ q.left # {}
        \/ Done(r)
        \/ Become(r, [q EXCEPT !.next = "idle"]) /\ q.left = {} /\ ~q.failed
    BY <2>3 DEF Cancelled
  <2> HIDE DEF q
  <2>7. CASE Become(r, q) /\ q.left # {}
    <3>1. req'[r] = q
      BY <1>0, <2>7 DEF Become
    <3>2. HandlerOK(r)'
      BY <2>2, <2>4, <2>5, <2>7, <3>1 DEF HandlerOK
    <3> QED
      BY <2>4, <2>7, <3>1, <3>2 DEF Become
  <2>8. CASE Done(r)
    BY <2>8, NoReqType DEF Done, Become
  <2>9. CASE Become(r, [q EXCEPT !.next = "idle"]) /\ q.left = {} /\ ~q.failed
    <3> DEFINE i == [q EXCEPT !.next = "idle"]
    <3>1. /\ i \in ReqRow /\ i.next = "idle" /\ i.job = q.job /\ i.runs = q.runs
          /\ i.left = q.left /\ i.failed = q.failed
      BY <2>4 DEF ReqRow
    <3> HIDE DEF i
    <3>2. req'[r] = i /\ req' = [req EXCEPT ![r] = i]
      BY <1>0, <2>9 DEF Become, i
    <3>3. HandlerOK(r)'
      BY <2>2, <2>4, <2>5, <2>9, <3>1, <3>2 DEF HandlerOK
    <3> QED
      BY <3>1, <3>2, <3>3
  <2> QED
    BY <2>6, <2>7, <2>8, <2>9
<1>8. ASSUME NEW S \in SUBSET TaskRunIds, DeleteRunsLoad(r, S)
      PROVE  \E q \in ReqRow : req' = [req EXCEPT ![r] = q] /\ q.next = "deleteRuns"
  <2>1. req' = [req EXCEPT ![r] = [NoReq EXCEPT !.next = "deleteRuns", !.left = S]]
    BY <1>8 DEF DeleteRunsLoad, Become
  <2>2. [NoReq EXCEPT !.next = "deleteRuns", !.left = S] \in ReqRow
    BY NoReqType DEF NoReq, ReqRow
  <2> QED
    BY <2>1, <2>2 DEF NoReq
<1> QED
  BY <1>2, <1>3, <1>4, <1>5, <1>6, <1>7, <1>8 DEF Handler

LEMMA ControlNextInv ==
  ASSUME ControlInv, [ControlNext]_controlVars
  PROVE  ControlInv'
<1>1. [PoolNext]_poolVars
  BY ControlPoolStep
<1>2. PoolInv' /\ QueueInv'
  BY <1>1, PoolNextInv, PoolQueueStep, NextInv DEF ControlInv, QueueStep
<1>3. job' \in [JobIds -> JobRow]
  BY <1>2 DEF PoolInv, PoolTypeOK
<1>4. req' \in [Reqs -> ReqRow] /\ \A r \in Reqs : HandlerOK(r)'
  <2>1. CASE \E r \in Reqs : Handler(r)
    <3>1. PICK r \in Reqs : Handler(r)
      BY <2>1
    <3>2. /\ HandlerOK(r)' /\ req' \in [Reqs -> ReqRow]
          /\ \A q \in Reqs \ {r} : req'[q] = req[q]
      BY <3>1, ActingHandler
    <3> QED
      BY <3>2, UntouchedHandler
  <2>2. CASE req' = [r \in Reqs |-> NoReq]
    BY <2>2, NoReqType, UntouchedHandler
  <2>3. CASE UNCHANGED req
    BY <2>3, UntouchedHandler DEF ControlInv, ControlTypeOK
  <2> QED
    BY <2>1, <2>2, <2>3 DEF ControlNext, ControlStep, AtomicHandler, SetEnabled, CancelRun, controlVars
<1>5. raced' \in BOOLEAN
  BY DEF ControlInv, ControlTypeOK, ControlNext, Remember, Racing, controlVars
<1> QED
  BY <1>2, <1>3, <1>4, <1>5 DEF ControlInv, ControlTypeOK

-------------------------------------------------------------------------------
(***************************************************************************)
(* Active runs.  While nothing has raced, what a handler learnt of the     *)
(* active runs of its job stays true until it acts on it.                  *)
(***************************************************************************)
ActiveInv ==
  ~raced =>
    /\ ~Racing
    /\ \A t, u \in InState(Active) : task[t].job = task[u].job => t = u
    /\ \A r \in Reqs : req[r].next = "enqueue" => ActiveRunsOf(req[r].job) = {}
    /\ \A r \in Reqs : req[r].next \in {"cancel", "idle"} =>
         \A t \in ActiveRunsOf(req[r].job) : serial[t] \in req[r].runs

\* The active runs of a job after a step.
ActiveAfter(j) == {t \in TaskRunIds : task'[t].status \in Active /\ task'[t].job = j}

\* An active run was active before, under the same key and for the same job.
NoNewRun ==
  \A t \in TaskRunIds : task'[t].status \in Active =>
    task[t].status \in Active /\ task'[t].job = task[t].job /\ serial'[t] = serial[t]

\* Only Enqueue creates runs, and without a new run there is no new active one: a
\* retry keeps an active run active, nothing reopens a finished one.
LEMMA NoneCreated ==
  ASSUME QueueInv, QueueStep, created' = created
  PROVE  NoNewRun
<1>0. QueueInv'
  BY NextInv DEF QueueStep
<1> SUFFICES ASSUME NEW t \in TaskRunIds, task'[t].status \in Active
             PROVE  /\ task[t].status \in Active
                    /\ task'[t].job = task[t].job /\ serial'[t] = serial[t]
  BY DEF NoNewRun
<1>1. RunOK(t) /\ RunOK(t)' /\ task[t] \in TaskRow
  BY <1>0, ColumnTypes DEF QueueInv
<1>2. serial'[t] # 0 /\ serial'[t] <= created
  BY <1>1 DEF RunOK, Active
<1>3. /\ serial'[t] = serial[t] /\ task'[t].job = task[t].job
      /\ task[t].status \in Terminal => task'[t] = task[t]
  BY <1>0, <1>2, RunStays
<1>4. task[t].status # "none" /\ task[t].status \notin Terminal
  BY <1>1, <1>2, <1>3 DEF RunOK, Active, Terminal
<1> QED
  BY <1>1, <1>3, <1>4 DEF TaskRow, Status

\* Only RunJob and a cron callback create runs.
LEMMA WhoCreates ==
  ASSUME [ControlNext]_controlVars, ~ \E r \in Reqs : RunEnqueue(r) \/ CronEnqueue(r)
  PROVE  created' = created
<1>1. CASE UNCHANGED controlVars
  BY <1>1 DEF controlVars, poolVars, queueVars
<1>2. ASSUME NEW w \in Workers, WorkerStep(w) PROVE created' = created
  BY <1>2 DEF WorkerStep, Claim, Leave, Load, Return, WriteFail, WriteComplete, WriteJobStatus,
              ClaimNext, Fail, FailRetry, FailFinal, Complete, queueVars
<1>3. CASE ProcessStep
  BY <1>3 DEF ProcessStep, StartServer, CleanRun, CleanJob, Serve, Drain, StopPool, Interrupt,
              queueVars
<1>4. CASE ProcessEnds \/ Time
  BY <1>4 DEF ProcessEnds, Exit, Crash, Dies, Time, Tick, queueVars
<1>5. CASE AtomicHandler
  BY <1>5 DEF AtomicHandler, SetEnabled, CancelRun, JobOnly, Cancel, queueVars
<1>6. ASSUME NEW r \in Reqs, Handler(r) PROVE created' = created
  <2>1. CASE StopCancel(r) \/ DeleteRuns(r)
    BY <2>1 DEF StopCancel, Cancel, DeleteRuns, DeleteTaskRuns, queueVars
  <2>2. CASE RunMark(r) \/ StopMark(r) \/ UpdateSave(r) \/ DeleteRow(r)
    BY <2>2 DEF RunMark, StopMark, UpdateSave, DeleteRow, JobOnly, queueVars
  <2>3. CASE \/ \E j \in JobIds : \/ RunLoad(r, j) \/ StopLoad(r, j) \/ UpdateLoad(r, j)
                                  \/ DeleteCount(r, j) \/ CronLoad(r, j)
             \/ \E S \in SUBSET TaskRunIds : DeleteRunsLoad(r, S)
             \/ RunCount(r) \/ StopList(r) \/ GiveUp(r)
    BY <2>3 DEF RunLoad, StopLoad, UpdateLoad, DeleteCount, CronLoad, RunCount, StopList,
                DeleteRunsLoad, GiveUp, poolVars, queueVars
  <2> QED
    BY <1>6, <2>1, <2>2, <2>3 DEF Handler
<1> QED
  BY <1>1, <1>2, <1>3, <1>4, <1>5, <1>6 DEF ControlNext, ControlStep

\* How a handler comes to know something of the active runs of its job.
LEMMA HandlerKnows ==
  ASSUME ControlInv, NEW r \in Reqs, Handler(r)
  PROVE  /\ req'[r].next = "enqueue" =>
              /\ req'[r].job = req[r].job /\ ActiveRunsOf(req[r].job) = {}
              /\ UNCHANGED poolVars
         /\ req'[r].next \in {"cancel", "idle"} =>
              /\ req'[r].job = req[r].job
              /\ \/ /\ req[r].next = "list" /\ UNCHANGED poolVars
                    /\ req'[r].runs = {serial[t] : t \in ActiveRunsOf(req[r].job)}
                 \/ req[r].next = "cancel" /\ req'[r].runs = req[r].runs
<1>0. req \in [Reqs -> ReqRow] /\ req[r] \in ReqRow
  BY DEF ControlInv, ControlTypeOK
<1> DEFINE Plain == req'[r].next \notin {"enqueue", "cancel", "idle"}
<1>1. CASE \/ RunMark(r) \/ StopMark(r) \/ UpdateSave(r) \/ DeleteRow(r)
           \/ CronEnqueue(r) \/ DeleteRuns(r) \/ GiveUp(r)
  <2>1. req'[r] = NoReq
    BY <1>0, <1>1 DEF RunMark, StopMark, UpdateSave, DeleteRow, CronEnqueue, DeleteRuns,
                      GiveUp, Done, Become
  <2> QED
    BY <2>1 DEF NoReq
<1>2. CASE \E j \in JobIds : \/ RunLoad(r, j) \/ StopLoad(r, j) \/ DeleteCount(r, j)
                             \/ CronLoad(r, j)
  <2>1. PICK j \in JobIds, n \in {"count", "list", "remove", "cronEnqueue"} :
          req'[r] = [NoReq EXCEPT !.next = n, !.job = j]
    BY <1>0, <1>2 DEF RunLoad, StopLoad, DeleteCount, CronLoad, Become
  <2> QED
    BY <2>1 DEF NoReq
<1>3. CASE \E j \in JobIds : UpdateLoad(r, j)
  <2>1. PICK j \in JobIds, en \in BOOLEAN :
          req'[r] = [NoReq EXCEPT !.next = "save", !.job = j,
                                  !.row = [job[j] EXCEPT !.enabled = en]]
    BY <1>0, <1>3 DEF UpdateLoad, Become
  <2> QED
    BY <2>1 DEF NoReq
<1>4. CASE RunCount(r)
  <2>1. CASE ActiveRunsOf(req[r].job) = {}
    <3>1. req'[r] = [req[r] EXCEPT !.next = "enqueue"]
      BY <1>0, <1>4, <2>1 DEF RunCount, Continue
    <3> QED
      BY <1>0, <1>4, <2>1, <3>1 DEF RunCount, ReqRow
  <2>2. CASE ActiveRunsOf(req[r].job) # {}
    <3>1. req'[r] = NoReq
      BY <1>0, <1>4, <2>2 DEF RunCount, Done, Become
    <3> QED
      BY <3>1 DEF NoReq
  <2> QED
    BY <2>1, <2>2
<1>5. CASE RunEnqueue(r)
  <2>1. req'[r] = [req[r] EXCEPT !.next = "mark"]
    BY <1>0, <1>5 DEF RunEnqueue, Continue
  <2> QED
    BY <1>0, <2>1 DEF ReqRow
<1>6. CASE StopList(r)
  <2> DEFINE active == ActiveRunsOf(req[r].job)
             runs == {serial[t] : t \in active}
  <2>1. CASE active = {}
    <3>1. req'[r] = NoReq
      BY <1>0, <1>6, <2>1 DEF StopList, Done, Become
    <3> QED
      BY <3>1 DEF NoReq
  <2>2. CASE active # {}
    <3>1. req'[r] = [req[r] EXCEPT !.next = "cancel", !.left = active, !.runs = runs]
      BY <1>0, <1>6, <2>2 DEF StopList, Become
    <3>2. req'[r].next = "cancel" /\ req'[r].runs = runs /\ req'[r].job = req[r].job
      BY <1>0, <3>1 DEF ReqRow
    <3> QED
      BY <1>6, <3>2 DEF StopList, At
  <2> QED
    BY <2>1, <2>2
<1>7. CASE StopCancel(r)
  <2>1. PICK t \in LatestLeft(r), failed \in BOOLEAN : Cancelled(r, t, failed)
    BY <1>7 DEF StopCancel
  <2> DEFINE q == [req[r] EXCEPT !.left = @ \ {t}, !.failed = @ \/ failed]
             i == [q EXCEPT !.next = "idle"]
  <2>2. q.next = req[r].next /\ q.job = req[r].job /\ q.runs = req[r].runs
    BY <1>0 DEF ReqRow
  <2>3. req'[r] \in {q, NoReq, i}
    BY <1>0, <2>1 DEF Cancelled, Become, Done
  <2>4. i.next = "idle" /\ i.job = q.job /\ i.runs = q.runs
    BY <1>0 DEF ReqRow
  <2> HIDE DEF q, i
  <2>5. req[r].next = "cancel"
    BY <1>7 DEF StopCancel, At
  <2> QED
    BY <2>2, <2>3, <2>4, <2>5 DEF NoReq
<1>8. CASE \E S \in SUBSET TaskRunIds : DeleteRunsLoad(r, S)
  <2>1. PICK S \in SUBSET TaskRunIds :
          req'[r] = [NoReq EXCEPT !.next = "deleteRuns", !.left = S]
    BY <1>0, <1>8 DEF DeleteRunsLoad, Become
  <2> QED
    BY <2>1 DEF NoReq
<1> QED
  BY <1>1, <1>2, <1>3, <1>4, <1>5, <1>6, <1>7, <1>8 DEF Handler

\* The handlers' state after a step, seen from one handler.
LEMMA HandlersMove ==
  ASSUME ControlInv, [ControlNext]_controlVars, NEW r \in Reqs
  PROVE  Handler(r) \/ req'[r] \in {req[r], NoReq}
<1>1. CASE \E q \in Reqs : Handler(q)
  BY <1>1, ActingHandler
<1>2. CASE req' = [q \in Reqs |-> NoReq]
  BY <1>2
<1>3. CASE UNCHANGED req
  BY <1>3
<1> QED
  BY <1>1, <1>2, <1>3 DEF ControlNext, ControlStep, AtomicHandler, SetEnabled, CancelRun,
                          controlVars

\* A step that enqueues nothing.
LEMMA QuietActive ==
  ASSUME ControlInv, ActiveInv, [ControlNext]_controlVars, NoNewRun, ~raced, ~Racing'
  PROVE  ActiveInv'
<1>1. \A j : \A t \in ActiveAfter(j) : t \in ActiveRunsOf(j) /\ serial'[t] = serial[t]
  BY DEF NoNewRun, ActiveAfter, ActiveRunsOf, InState
<1>2. \A t, u \in InState(Active)' : task'[t].job = task'[u].job => t = u
  BY DEF NoNewRun, InState, ActiveInv
<1>3. ASSUME NEW r \in Reqs, req'[r].next = "enqueue"
      PROVE  ActiveRunsOf(req[r].job) = {} /\ req'[r].job = req[r].job
  <2>1. CASE Handler(r)
    BY <1>3, <2>1, HandlerKnows
  <2>2. CASE req'[r] = req[r]
    BY <1>3, <2>2 DEF ActiveInv
  <2> QED
    BY <1>3, <2>1, <2>2, HandlersMove DEF NoReq
<1>4. ASSUME NEW r \in Reqs, req'[r].next \in {"cancel", "idle"}
      PROVE  /\ \A t \in ActiveRunsOf(req[r].job) : serial[t] \in req'[r].runs
             /\ req'[r].job = req[r].job
  <2>1. CASE Handler(r)
    BY <1>4, <2>1, HandlerKnows DEF ActiveInv
  <2>2. CASE req'[r] = req[r]
    BY <1>4, <2>2 DEF ActiveInv
  <2> QED
    BY <1>4, <2>1, <2>2, HandlersMove DEF NoReq
<1>5. \A r \in Reqs : req'[r].next = "enqueue" => ActiveAfter(req'[r].job) = {}
  BY <1>1, <1>3
<1>6. \A r \in Reqs : req'[r].next \in {"cancel", "idle"} =>
        \A t \in ActiveAfter(req'[r].job) : serial'[t] \in req'[r].runs
  BY <1>1, <1>4
<1> QED
  BY <1>2, <1>5, <1>6 DEF ActiveInv, ActiveAfter, ActiveRunsOf, InState

\* RunJob enqueues: it is alone with its job, which has no active run.
LEMMA RunEnqueueActive ==
  ASSUME ControlInv, ActiveInv, [ControlNext]_controlVars, ~raced, ~Racing',
         NEW r \in Reqs, RunEnqueue(r)
  PROVE  ActiveInv'
<1> DEFINE j == req[r].job
<1>1. req \in [Reqs -> ReqRow] /\ At(r, "enqueue") /\ ActiveRunsOf(j) = {} /\ ~Racing
  BY DEF ControlInv, ControlTypeOK, RunEnqueue, At, ActiveInv
<1>2. req' = [req EXCEPT ![r] = [req[r] EXCEPT !.next = "mark"]]
  BY DEF RunEnqueue, Continue
<1>3. req'[r].next = "mark" /\ \A q \in Reqs \ {r} : req'[q] = req[q]
  BY <1>1, <1>2 DEF ReqRow
<1>4. PICK t \in TaskRunIds :
        /\ task'[t].job = j
        /\ \A u \in TaskRunIds \ {t} : task'[u] = task[u] /\ serial'[u] = serial[u]
  <2>1. PICK k \in DedupKeys : Enqueue(j, k, TaskPriorityNormal, 0, 0)
    BY DEF RunEnqueue
  <2>2. task \in [TaskRunIds -> TaskRow] /\ serial \in [TaskRunIds -> Nat]
    BY DEF ControlInv, QueueInv, QueueTypeOK
  <2>3. j \in JobIds
    BY <1>1 DEF ControlInv, HandlerOK, At
  <2>4. PICK t \in TaskRunIds : /\ serial' = [serial EXCEPT ![t] = created + 1]
                               /\ task' = [task EXCEPT ![t] = task'[t]]
                               /\ task'[t].job = j
    BY <2>1, <2>3, EnqueueRow, HandlerInputsAssumption DEF ControlInv
  <2> QED
    BY <2>2, <2>4
<1>5. /\ ActiveAfter(j) \subseteq {t}
      /\ \A i : i # j => \A u \in ActiveAfter(i) : u \in ActiveRunsOf(i) /\ serial'[u] = serial[u]
  BY <1>1, <1>4 DEF ActiveAfter, ActiveRunsOf, InState
<1>6. \A q \in Reqs \ {r} : req[q].next \in {"enqueue", "cancel", "idle"} => req[q].job # j
  BY <1>1 DEF Racing, At
<1>7. \A u, v \in InState(Active)' : task'[u].job = task'[v].job => u = v
  <2> SUFFICES ASSUME NEW u \in InState(Active)', NEW v \in InState(Active)',
                      task'[u].job = task'[v].job
               PROVE  u = v
    OBVIOUS
  <2>1. CASE task'[u].job = j
    <3>1. /\ u \in TaskRunIds /\ task'[u].status \in Active
          /\ v \in TaskRunIds /\ task'[v].status \in Active
      BY DEF InState, Active
    <3>2. u \in ActiveAfter(j) /\ v \in ActiveAfter(j)
      BY <2>1, <3>1 DEF ActiveAfter
    <3> QED
      BY <1>5, <3>2
  <2>2. CASE task'[u].job # j
    <3>1. u # t /\ v # t /\ u \in TaskRunIds /\ v \in TaskRunIds
      BY <1>4, <2>2 DEF InState
    <3>2. u \in InState(Active) /\ v \in InState(Active) /\ task[u].job = task[v].job
      BY <1>4, <3>1 DEF InState
    <3> QED
      BY <3>2 DEF ActiveInv
  <2> QED
    BY <2>1, <2>2
<1>8. \A q \in Reqs : req'[q].next = "enqueue" => ActiveAfter(req'[q].job) = {}
  BY <1>3, <1>5, <1>6 DEF ActiveInv
<1>9. \A q \in Reqs : req'[q].next \in {"cancel", "idle"} =>
        \A u \in ActiveAfter(req'[q].job) : serial'[u] \in req'[q].runs
  BY <1>3, <1>5, <1>6 DEF ActiveInv
<1> QED
  BY <1>7, <1>8, <1>9 DEF ActiveInv, ActiveAfter, ActiveRunsOf, InState

LEMMA NextActive ==
  ASSUME ControlInv, ActiveInv, [ControlNext]_controlVars
  PROVE  ActiveInv'
<1>0. CASE UNCHANGED controlVars
  <2>1. QueueStep /\ created' = created /\ req' = req /\ raced' = raced
    BY <1>0 DEF controlVars, poolVars, queueVars, QueueStep
  <2>2. NoNewRun
    BY <2>1, NoneCreated DEF ControlInv
  <2>3. Racing' = Racing
    BY <2>1 DEF Racing
  <2> QED
    BY <2>1, <2>2, <2>3, QuietActive DEF ActiveInv
<1> SUFFICES ASSUME ControlNext, ~raced' PROVE ActiveInv'
  BY <1>0 DEF ActiveInv
<1>1. ~raced /\ ~Racing'
  BY DEF ControlNext, Remember, ControlInv, ControlTypeOK
<1>2. CASE \E r \in Reqs : RunEnqueue(r)
  BY <1>1, <1>2, RunEnqueueActive
<1>3. ~ \E r \in Reqs : CronEnqueue(r)
  BY <1>1 DEF ActiveInv, Racing, CronEnqueue, At
<1>4. CASE ~ \E r \in Reqs : RunEnqueue(r)
  <2>1. created' = created
    BY <1>3, <1>4, WhoCreates
  <2>2. NoNewRun
    BY <2>1, ControlPoolStep, PoolQueueStep, NoneCreated DEF ControlInv
  <2> QED
    BY <1>1, <2>2, QuietActive
<1> QED
  BY <1>2, <1>4

-------------------------------------------------------------------------------
(***************************************************************************)
(* The theorems.                                                           *)
(***************************************************************************)

\* The invariant of handlers, goroutines and rows.
THEOREM ControlInvariant == ControlSpec => []ControlInv
<1>1. ControlInit => ControlInv
  <2> SUFFICES ASSUME ControlInit PROVE ControlInv
    OBVIOUS
  <2>1. PoolInv /\ QueueInv
    BY PoolInitInv, InitInv DEF ControlInit, PoolInit
  <2>2. req = [r \in Reqs |-> NoReq] /\ raced = FALSE
    BY DEF ControlInit
  <2>3. ControlTypeOK
    BY <2>1, <2>2, NoReqType DEF ControlTypeOK, PoolInv, PoolTypeOK
  <2> QED
    BY <2>1, <2>2, <2>3 DEF ControlInv, HandlerOK, NoReq
<1>2. ControlInv /\ [ControlNext]_controlVars => ControlInv'
  BY ControlNextInv
<1> QED
  BY <1>1, <1>2, PTL DEF ControlSpec

\* The handlers act on queue and jobs as the environment of WorkerPool.
THEOREM ControlImplementsPool == ControlSpec => ImplementsPool
<1>1. ControlInit => PoolInit
  BY DEF ControlInit
<1>2. ControlInv /\ [ControlNext]_controlVars => [PoolNext]_poolVars
  BY ControlPoolStep
<1> QED
  BY <1>1, <1>2, ControlInvariant, PTL DEF ControlSpec, ImplementsPool, PoolSpec

\* The handlers' variables have their types.
THEOREM ControlTypeCorrect == ControlSpec => []ControlTypeOK
<1>1. ControlInv => ControlTypeOK
  BY DEF ControlInv
<1> QED
  BY <1>1, ControlInvariant, PTL

\* StopJob marks its job idle only after every run it listed is cancelled or gone.
THEOREM StopCancelsAllHolds == ControlSpec => []StopCancelsAll
<1>1. ControlInv => StopCancelsAll
  BY DEF ControlInv, StopCancelsAll, HandlerOK
<1> QED
  BY <1>1, ControlInvariant, PTL

\* With all handlers at work, no run is executed by two goroutines, and an executed
\* run that still has its row is running or cancelled there, unless the goroutine
\* of an earlier run with its key changed that row.
THEOREM ControlExecutionsHold == ControlSpec => [](OneExecutor /\ ExecutedIsRunning)
<1>1. PoolInv => OneExecutor /\ ExecutedIsRunning
  BY DEF PoolInv
<1>2. ControlInv => PoolInv
  BY DEF ControlInv
<1> QED
  BY <1>1, <1>2, ControlInvariant, PTL

\* While nothing has raced: what ActiveInv says of the active runs.
THEOREM ActiveInvariant == ControlSpec => []ActiveInv
<1>1. ControlInit => ActiveInv
  <2> SUFFICES ASSUME ControlInit PROVE ActiveInv
    OBVIOUS
  <2>1. InState(Active) = {}
    BY DEF ControlInit, PoolInit, QueueInit, InState, NoRow, Active
  <2>2. \A r \in Reqs : req[r].next = "none"
    BY DEF ControlInit, NoReq
  <2> QED
    BY <2>1, <2>2 DEF ActiveInv, Racing
<1>2. ControlInv /\ ActiveInv /\ [ControlNext]_controlVars => ActiveInv'
  BY NextActive
<1> QED
  BY <1>1, <1>2, ControlInvariant, PTL DEF ControlSpec

\* No job has two active runs, whatever retries, restarts, updates, deletions
\* and cancellations do, until a cron callback enqueues or two RunJob overlap.
THEOREM OneActiveRunHolds == ControlSpec => []OneActiveRun
<1>1. ActiveInv => OneActiveRun
  <2> SUFFICES ASSUME ActiveInv, ~raced, NEW j \in JobIds
               PROVE  Cardinality(ActiveRunsOf(j)) <= 1
    BY DEF OneActiveRun
  <2>1. CASE ActiveRunsOf(j) = {}
    BY <2>1, FS_EmptySet
  <2>2. CASE ActiveRunsOf(j) # {}
    <3>1. PICK t : t \in ActiveRunsOf(j)
      BY <2>2
    <3>2. ActiveRunsOf(j) = {t}
      BY <3>1 DEF ActiveInv, ActiveRunsOf
    <3> QED
      BY <3>2, FS_Singleton
  <2> QED
    BY <2>1, <2>2
<1> QED
  BY <1>1, ActiveInvariant, PTL

\* A job StopJob is about to mark idle has no active run, unless something raced.
THEOREM StoppedJobIsQuietHolds == ControlSpec => []StoppedJobIsQuiet
<1>1. ControlInv /\ ActiveInv => StoppedJobIsQuiet
  <2> SUFFICES ASSUME ControlInv, ActiveInv, ~raced, NEW r \in Reqs, req[r].next = "idle"
               PROVE  ActiveRunsOf(req[r].job) = {}
    BY DEF StoppedJobIsQuiet
  <2>1. \A t \in Rows : serial[t] \in req[r].runs => task[t].status = "cancelled"
    BY DEF ControlInv, HandlerOK
  <2>2. \A t \in ActiveRunsOf(req[r].job) : serial[t] \in req[r].runs
    BY DEF ActiveInv
  <2> QED
    BY <2>1, <2>2 DEF ActiveRunsOf, InState, Active, Rows
<1> QED
  BY <1>1, ControlInvariant, ActiveInvariant, PTL

===============================================================================
