------------------------------ MODULE WorkerPool ------------------------------
(***************************************************************************)
(* The worker pool and the life of the server process around the queue:    *)
(* the goroutines of internal/worker (claim, execute, write back), the     *)
(* start-up clean-up and the shutdown of cmd/server/main.go, and the       *)
(* columns of table jobs they touch.                                       *)
(*                                                                         *)
(* The queue is the one of TaskQueue, whose operations are used as they    *)
(* are.  Everything else that may happen to the tables while the server is *)
(* up (HTTP handlers, cron callbacks) is here an environment that calls    *)
(* any operation at any time; JobControl replaces it by the handlers.      *)
(*                                                                         *)
(* Faults: any statement may return a database error and change nothing,   *)
(* and the process may die between two statements.  Tables survive, the    *)
(* rest does not.                                                          *)
(*                                                                         *)
(* A goroutine knows its run by the key and by the row it read when it     *)
(* claimed it.  When the run is cancelled and deleted behind its back, its *)
(* key may be given to another run, whose row it then writes: meddled      *)
(* remembers to whom that happened.                                        *)
(***************************************************************************)
EXTENDS TaskQueue

CONSTANTS
  Workers,            \* the goroutines of the pool (WorkerConfig.Concurrency)
  EnvJobRows,         \* bound of the model: rows the environment gives a job
  MaxDbErrors,        \* bound of the model: how many statements fail
  MaxStops            \* bound of the model: how often the process ends

ASSUME NullIsNoWorker == Null \notin Workers \cup Nat \cup ErrorKinds
JobStatus == {"idle", "running", "error"}
JobRow == [exists: BOOLEAN, enabled: BOOLEAN, status: JobStatus]

ASSUME EnvJobRowsAssumption == EnvJobRows \subseteq JobRow
ASSUME FaultBoundsAssumption == MaxDbErrors \in Nat /\ MaxStops \in Nat

VARIABLES
  job,                \* job[j]: the row of table jobs
  server,             \* what the process is doing
  toClean, cleanJob,  \* cleanupInterruptedTasks: rows left, job to mark next
  wpc, wrun, wjob,    \* each goroutine: where it is, the key and job it claimed,
  werr,               \* and the error its run ended with
  wserial,            \* history: which of the created runs that is; 0 for none
  meddled,            \* history: runs whose row the goroutine of another run changed
  lost,               \* history: runs whose write-back or clean-up failed
  dbErrors, stops     \* history: faults so far, for the bounds

procVars == <<server, toClean, cleanJob>>
workerVars == <<wpc, wrun, wjob, werr, wserial>>
faultVars == <<lost, dbErrors, stops>>
historyVars == <<meddled, faultVars>>
poolVars == <<queueVars, job, procVars, workerVars, historyVars>>

\* "up": serving.  "draining": scheduler and HTTP server told to stop.
\* "stopping": the pool's context is cancelled.
ServerState == {"down", "cleaning", "up", "draining", "stopping"}
Alive == server \in {"up", "draining", "stopping"}

\* Where a goroutine is in runLoop/executeTask: about to claim, about to load
\* the job, inside the engine, about to call Queue.Fail or Queue.Complete,
\* about to write the job's status, returned.
WorkerState == {"claim", "load", "exec", "fail", "complete",
                "jobError", "jobIdle", "gone"}
Executing == {"load", "exec", "fail", "complete"}

PoolInit ==
  /\ QueueInit
  /\ job = [j \in JobIds |-> [exists |-> TRUE, enabled |-> TRUE, status |-> "idle"]]
  /\ server = "down" /\ toClean = {} /\ cleanJob = Null
  /\ wpc = [w \in Workers |-> "gone"]
  /\ wrun = [w \in Workers |-> Null]
  /\ wjob = [w \in Workers |-> Null]
  /\ werr = [w \in Workers |-> Null]
  /\ wserial = [w \in Workers |-> 0]
  /\ meddled = {} /\ lost = {} /\ dbErrors = 0 /\ stops = 0

\* A statement returns a database error.
DbError == dbErrors < MaxDbErrors /\ dbErrors' = dbErrors + 1

\* UPDATE jobs SET status WHERE id: no row, no effect.
SetJobStatus(j, s) ==
  job' = [job EXCEPT ![j].status = IF job[j].exists THEN s ELSE @]

(***************************************************************************)
(* The goroutines (runLoop, executeTask, Executor.Run).                    *)
(***************************************************************************)
Goto(w, pc) == wpc' = [wpc EXCEPT ![w] = pc]

\* claimNext succeeds.  (No claimable run, or an error: sleep, try again.)
Claim(w) ==
  /\ wpc[w] = "claim"
  /\ server \in {"up", "draining"}
  /\ \E t \in TaskRunIds, id \in WorkerIds :
       /\ ClaimNext(t, id)
       /\ wrun' = [wrun EXCEPT ![w] = t]
       /\ wjob' = [wjob EXCEPT ![w] = task[t].job]
       /\ wserial' = [wserial EXCEPT ![w] = serial[t]]
  /\ Goto(w, "load")
  /\ UNCHANGED <<werr, job, procVars, historyVars>>

\* The context is done: the goroutine returns.
Leave(w) ==
  /\ wpc[w] = "claim"
  /\ server = "stopping"
  /\ Goto(w, "gone")
  /\ UNCHANGED <<queueVars, wrun, wjob, werr, wserial, job, procVars, historyVars>>

\* Executor.Run up to the engine: the job must exist and be enabled, and its
\* data server, options and paths be usable (which nothing here decides).  An
\* error, of whatever origin (a cancelled context or a failed query included),
\* is permanent.
Load(w) ==
  LET j == job[wjob[w]] IN
  /\ wpc[w] = "load"
  /\ \/ /\ j.exists /\ j.enabled /\ server # "stopping"
        /\ Goto(w, "exec")
        /\ UNCHANGED werr
     \/ /\ Goto(w, "fail")
        /\ werr' = [werr EXCEPT ![w] = "permanent"]
  /\ UNCHANGED <<queueVars, wrun, wjob, wserial, job, procVars, historyVars>>

\* Engine and metadata synchronisation return; wrapTaskError has classified an
\* error as cancelled, permanent or (default) retryable.
Return(w) ==
  /\ wpc[w] = "exec"
  /\ \/ /\ Goto(w, "complete")
        /\ UNCHANGED werr
     \/ /\ Goto(w, "fail")
        /\ \E kind \in ErrorKinds : werr' = [werr EXCEPT ![w] = kind]
  /\ UNCHANGED <<queueVars, wrun, wjob, wserial, job, procVars, historyVars>>

\* The row a goroutine writes is that of its own run, or of another with its key.
Own(w) == serial[wrun[w]] = wserial[w]
Meddles(w) ==
  meddled' = IF Own(w) THEN meddled ELSE meddled \cup {serial[wrun[w]]}

\* The goroutine is done with its run.
Forget(w) ==
  /\ wrun' = [wrun EXCEPT ![w] = Null]
  /\ wjob' = [wjob EXCEPT ![w] = Null]
  /\ werr' = [werr EXCEPT ![w] = Null]
  /\ wserial' = [wserial EXCEPT ![w] = 0]
KeepRun == UNCHANGED <<wrun, wjob, werr, wserial>>

\* The write-back does not look at the row's status.
WriteFail_Bug(w) ==
  /\ wpc[w] = "fail"
  /\ task' = [task EXCEPT ![wrun[w]].status = "failed"]
  /\ Goto(w, "jobError")
  /\ KeepRun
  /\ UNCHANGED <<created, serial, clock, starts, failedAt, job, procVars, historyVars>>

\* Queue.Fail; the next statement follows whether or not it worked.
WriteFail(w) ==
  LET t == wrun[w] IN
  /\ wpc[w] = "fail"
  /\ \/ Fail(t, werr[w]) /\ Meddles(w) /\ UNCHANGED <<lost, dbErrors>>
     \/ task[t].status # "running" /\ UNCHANGED <<queueVars, meddled, lost, dbErrors>>
     \/ DbError /\ lost' = lost \cup {wserial[w]} /\ UNCHANGED <<queueVars, meddled>>
  /\ Goto(w, "jobError")
  /\ KeepRun
  /\ UNCHANGED <<job, procVars, stops>>

\* Queue.Complete; on an error executeTask returns at once.
WriteComplete(w) ==
  LET t == wrun[w] IN
  /\ wpc[w] = "complete"
  /\ \/ /\ Complete(t) /\ Meddles(w)
        /\ Goto(w, "jobIdle") /\ KeepRun
        /\ UNCHANGED <<lost, dbErrors>>
     \/ /\ task[t].status # "running"
        /\ Goto(w, "claim") /\ Forget(w)
        /\ UNCHANGED <<queueVars, meddled, lost, dbErrors>>
     \/ /\ DbError /\ lost' = lost \cup {wserial[w]}
        /\ Goto(w, "claim") /\ Forget(w)
        /\ UNCHANGED <<queueVars, meddled>>
  /\ UNCHANGED <<job, procVars, stops>>

\* Jobs.UpdateStatus; an error is only logged.
WriteJobStatus(w) ==
  /\ wpc[w] \in {"jobError", "jobIdle"}
  /\ \/ /\ SetJobStatus(wjob[w], IF wpc[w] = "jobError" THEN "error" ELSE "idle")
        /\ UNCHANGED dbErrors
     \/ DbError /\ UNCHANGED job
  /\ Goto(w, "claim")
  /\ Forget(w)
  /\ UNCHANGED <<queueVars, procVars, meddled, lost, stops>>

WorkerStep(w) ==
  \/ Claim(w) \/ Leave(w) \/ Load(w) \/ Return(w)
  \/ WriteFail(w) \/ WriteComplete(w) \/ WriteJobStatus(w)

(***************************************************************************)
(* The process (main, cleanupInterruptedTasks).                            *)
(***************************************************************************)

\* Runs left running are not looked for.
StartServer_Bug ==
  /\ server = "down"
  /\ server' = "cleaning"
  /\ UNCHANGED <<queueVars, job, toClean, cleanJob, workerVars, historyVars>>

\* main: the rows left running are listed; if that fails main goes on without.
StartServer ==
  /\ server = "down"
  /\ server' = "cleaning"
  /\ \/ toClean' = InState({"running"}) /\ UNCHANGED <<lost, dbErrors>>
     \/ DbError /\ toClean' = {} /\ lost' = lost \cup {serial[t] : t \in InState({"running"})}
  /\ UNCHANGED <<queueVars, job, cleanJob, workerVars, meddled, stops>>

\* One listed row becomes failed; if the statement fails the row is skipped.
CleanRun ==
  /\ server = "cleaning" /\ cleanJob = Null
  /\ \E t \in toClean :
       /\ toClean' = toClean \ {t}
       /\ \/ Interrupt(t) /\ cleanJob' = task[t].job /\ UNCHANGED <<lost, dbErrors>>
          \/ DbError /\ lost' = lost \cup {serial[t]} /\ UNCHANGED <<queueVars, cleanJob>>
  /\ UNCHANGED <<job, server, workerVars, meddled, stops>>

\* ... and its job goes to error.
CleanJob ==
  /\ server = "cleaning" /\ cleanJob # Null
  /\ \/ SetJobStatus(cleanJob, "error") /\ UNCHANGED dbErrors
     \/ DbError /\ UNCHANGED job
  /\ cleanJob' = Null
  /\ UNCHANGED <<queueVars, server, toClean, workerVars, meddled, lost, stops>>

\* The pool starts while interrupted runs are still to be cleaned.
Serve_Bug ==
  /\ server = "cleaning"
  /\ server' = "up"
  /\ wpc' = [w \in Workers |-> "claim"]
  /\ UNCHANGED <<queueVars, job, toClean, cleanJob, wrun, wjob, werr, wserial, historyVars>>

\* Scheduler, pool and HTTP server start.
Serve ==
  /\ server = "cleaning" /\ toClean = {} /\ cleanJob = Null
  /\ server' = "up"
  /\ wpc' = [w \in Workers |-> "claim"]
  /\ UNCHANGED <<queueVars, job, toClean, cleanJob, wrun, wjob, werr, wserial, historyVars>>

\* SIGTERM: the scheduler stops, then the HTTP server stops accepting requests.
Drain ==
  /\ server = "up" /\ stops < MaxStops
  /\ server' = "draining"
  /\ stops' = stops + 1
  /\ UNCHANGED <<queueVars, job, toClean, cleanJob, workerVars,
                 meddled, lost, dbErrors>>

\* WorkerPool.Stop cancels the context of every goroutine.
StopPool ==
  /\ server = "draining"
  /\ server' = "stopping"
  /\ UNCHANGED <<queueVars, job, toClean, cleanJob, workerVars, historyVars>>

Dies ==
  /\ server' = "down" /\ toClean' = {} /\ cleanJob' = Null
  /\ wpc' = [w \in Workers |-> "gone"]
  /\ wrun' = [w \in Workers |-> Null]
  /\ wjob' = [w \in Workers |-> Null]
  /\ werr' = [w \in Workers |-> Null]
  /\ wserial' = [w \in Workers |-> 0]
  /\ UNCHANGED <<queueVars, job, meddled, lost, dbErrors>>

\* main returns when the goroutines have, or 5 seconds after asking them to.
Exit == server = "stopping" /\ Dies /\ UNCHANGED stops

\* The process is killed.
Crash ==
  /\ server # "down" /\ stops < MaxStops
  /\ stops' = stops + 1
  /\ Dies

ProcessStep == \/ StartServer \/ CleanRun \/ CleanJob \/ Serve
               \/ Drain \/ StopPool
ProcessEnds == Exit \/ Crash

Time == Tick /\ UNCHANGED <<job, procVars, workerVars, historyVars>>

(***************************************************************************)
(* The environment: handlers and cron callbacks.  Shutdown waits for them  *)
(* only 5 seconds, so that some may still run while the pool stops.        *)
(***************************************************************************)
EnvQueue ==
  /\ Alive
  /\ \/ \E j \in JobIds, k \in DedupKeys, p \in Priorities, l \in AttemptLimits,
           d \in StartDelays : Enqueue(j, k, p, l, d)
     \/ \E t \in TaskRunIds : Cancel(t)
     \/ \E S \in SUBSET TaskRunIds : DeleteTaskRuns(S)
  /\ UNCHANGED <<job, procVars, workerVars, historyVars>>

EnvJob ==
  /\ Alive
  /\ \E j \in JobIds, row \in EnvJobRows : job' = [job EXCEPT ![j] = row]
  /\ UNCHANGED <<queueVars, procVars, workerVars, historyVars>>

Environment == EnvQueue \/ EnvJob

PoolNext ==
  \/ \E w \in Workers : WorkerStep(w)
  \/ ProcessStep
  \/ ProcessEnds
  \/ Time
  \/ Environment

PoolSpec == PoolInit /\ [][PoolNext]_poolVars

(***************************************************************************)
(* Fairness.  The goroutines loop for ever, the engine returns, main goes  *)
(* on, a stopped server is started again and time passes.  Nothing is      *)
(* assumed of the environment or of the faults.                            *)
(***************************************************************************)
PoolFairness ==
  /\ \A w \in Workers : WF_poolVars(WorkerStep(w))
  /\ WF_poolVars(StartServer \/ CleanRun \/ CleanJob \/ Serve \/ StopPool)
  /\ WF_poolVars(Exit)
  /\ WF_poolVars(Time)

FairPoolSpec == PoolSpec /\ PoolFairness

-------------------------------------------------------------------------------
(***************************************************************************)
(* Properties.                                                             *)
(***************************************************************************)

\* The type invariant of the pool's own variables.
PoolTypeOK ==
  /\ job \in [JobIds -> JobRow]
  /\ server \in ServerState
  /\ toClean \subseteq TaskRunIds
  /\ cleanJob \in JobIds \cup {Null}
  /\ wpc \in [Workers -> WorkerState]
  /\ wrun \in [Workers -> TaskRunIds \cup {Null}]
  /\ wjob \in [Workers -> JobIds \cup {Null}]
  /\ werr \in [Workers -> ErrorKinds \cup {Null}]
  /\ wserial \in [Workers -> Nat]
  /\ meddled \subseteq Nat
  /\ lost \subseteq Nat
  /\ dbErrors \in Nat
  /\ stops \in Nat

\* One run is never executed by two goroutines at once, although Fail puts it
\* back into the queue while its first executor still has work to do, although all
\* goroutines claim under the same worker_id, and although the key of a run that is
\* still executed may be given to another (that one is executed as well): unless
\* the goroutine of an earlier run with its key changed its row.
OneExecutor ==
  \A v, w \in Workers :
    /\ wpc[v] \in Executing /\ wpc[w] \in Executing
    /\ wserial[v] = wserial[w] /\ wserial[v] \notin meddled
    => v = w

\* What a goroutine executes is, in the table, running, or was cancelled meanwhile,
\* for the job it was claimed for: its run has never gone back to the queue or
\* reached another end behind its back, across crashes and restarts, unless it was
\* deleted or the goroutine of an earlier run with its key changed its row.
ExecutedIsRunning ==
  \A w \in Workers :
    wpc[w] \in Executing /\ Own(w) /\ wserial[w] \notin meddled =>
      /\ task[wrun[w]].status \in {"running", "cancelled"}
      /\ task[wrun[w]].job = wjob[w]

\* No zombies: while the pool is alive, a run the table calls running is being
\* executed, not only an earlier one with its key, unless a database error lost its
\* write-back or its clean-up.
RunningIsExecuted ==
  Alive =>
    \A t \in InState({"running"}) :
      \/ serial[t] \in lost
      \/ \E w \in Workers : wpc[w] \in Executing /\ wserial[w] = serial[t]

\* A goroutine marks its job idle only if its run really completed: never after a
\* cancellation it did not notice, a retry or a lost write-back.  Only if its run
\* was deleted may it be another one with its key that it completed.
IdleOnlyAfterComplete ==
  \A w \in Workers : wpc[w] = "jobIdle" /\ Own(w) =>
    task[wrun[w]].status = "completed"

\* The pool uses the queue as TaskQueue specifies it: every step of goroutines,
\* clean-up and environment is one queue operation or none.
ImplementsQueue == QueueSpec

\* A waiting run is eventually over, through retries, crashes and restarts,
\* unless a database error lost it.
EveryRunEnds ==
  \A t \in TaskRunIds :
    task[t].status = "pending" ~> (task[t].status \notin Active \/ serial[t] \in lost)
===============================================================================
