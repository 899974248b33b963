------------------------------ MODULE JobControl ------------------------------
(***************************************************************************)
(* The HTTP handlers and cron callbacks that start, stop, change and       *)
(* delete jobs (internal/transport/job.go and task_run.go, enqueueJob of   *)
(* internal/scheduler), running concurrently with the worker pool.         *)
(*                                                                         *)
(* A handler is a sequence of database statements with no transaction      *)
(* around them, so each statement is an action and anything may happen in  *)
(* between.  What a handler read earlier is kept in req[r].  A handler     *)
(* may end early at any statement: a database error, or a client that      *)
(* hung up and so cancelled the request's context.                         *)
(*                                                                         *)
(* Where two consecutive statements of a handler only read a row and then  *)
(* update it under a condition that implies what was read (enable,         *)
(* disable, cancelling one run), they are one action: what the second      *)
(* statement does is what a request that comes just before it would do,    *)
(* also to a row that was given the key meanwhile.  The columns of a job   *)
(* other than enabled and status, and the cron entries, are left out: a    *)
(* cron callback may fire at any time for any job.                         *)
(***************************************************************************)
EXTENDS WorkerPool

CONSTANTS
  Reqs,               \* requests and cron callbacks in progress at a time
  Ops                 \* which of them may arrive: a subset of AllOps

AllOps == {"run", "stop", "update", "delete", "cron", "cancelRun", "deleteRuns"}
ASSUME OpsAssumption == Ops \subseteq AllOps

\* The environment of WorkerPool is allowed whatever the handlers do.
ASSUME HandlerInputsAssumption ==
  /\ JobRow \subseteq EnvJobRows
  /\ TaskPriorityNormal \in Priorities
  /\ 0 \in AttemptLimits
  /\ 0 \in StartDelays

VARIABLES
  req,                \* req[r]: the state of one handler
  raced               \* history: a cron callback has enqueued a run, or a RunJob has
                      \* overlapped with another RunJob or a StopJob of the same job

controlVars == <<poolVars, req, raced>>

NoJob == [exists |-> FALSE, enabled |-> FALSE, status |-> "idle"]

\* next: the statement the handler will run next; row: the job row it read;
\* left: the keys of the runs StopJob listed that it has not yet handled, or
\* those that are to be deleted; runs, a history: which of the created runs
\* StopJob listed.
NoReq == [next |-> "none", job |-> Null, row |-> NoJob,
          runs |-> {}, left |-> {}, failed |-> FALSE]

ReqRow ==
  [next: {"none", "count", "enqueue", "mark", "list", "cancel", "idle",
          "save", "remove", "cronEnqueue", "deleteRuns"},
   job: JobIds \cup {Null}, row: JobRow,
   runs: SUBSET Nat, left: SUBSET TaskRunIds, failed: BOOLEAN]

ControlInit == PoolInit /\ req = [r \in Reqs |-> NoReq] /\ raced = FALSE

\* The HTTP server accepts requests until the shutdown closes it.
Arrives(r, op) == op \in Ops /\ server \in {"up", "draining"} /\ req[r] = NoReq
At(r, next) == Alive /\ req[r].next = next
Become(r, q) == req' = [req EXCEPT ![r] = q]
Continue(r, next) == req' = [req EXCEPT ![r].next = next]
Done(r) == Become(r, NoReq)

QueueOnly == UNCHANGED <<job, procVars, workerVars, historyVars>>
JobOnly == UNCHANGED <<queueVars, procVars, workerVars, historyVars>>

(***************************************************************************)
(* RunJob: load the job, count its active runs, enqueue, mark it running.  *)
(***************************************************************************)
RunLoad(r, j) ==
  /\ Arrives(r, "run")
  /\ job[j].exists /\ job[j].enabled
  /\ Become(r, [NoReq EXCEPT !.next = "count", !.job = j])
  /\ UNCHANGED poolVars

\* Only running runs are counted.
RunCount_Bug(r) ==
  /\ At(r, "count")
  /\ IF \A t \in ActiveRunsOf(req[r].job) : task[t].status # "running"
     THEN Continue(r, "enqueue") ELSE Done(r)
  /\ UNCHANGED poolVars

RunCount(r) ==
  /\ At(r, "count")
  /\ IF ActiveRunsOf(req[r].job) = {} THEN Continue(r, "enqueue") ELSE Done(r)
  /\ UNCHANGED poolVars

\* No dedup key is given: Enqueue builds one from the clock's nanoseconds.
RunEnqueue(r) ==
  /\ At(r, "enqueue")
  /\ \E k \in DedupKeys : Enqueue(req[r].job, k, TaskPriorityNormal, 0, 0)
  /\ Continue(r, "mark")
  /\ QueueOnly

RunMark(r) ==
  /\ At(r, "mark")
  /\ SetJobStatus(req[r].job, "running")
  /\ Done(r)
  /\ JobOnly

(***************************************************************************)
(* StopJob: load the job, list its active runs, cancel each (latest        *)
(* first), and unless one could not be cancelled mark the job idle.        *)
(***************************************************************************)
StopLoad(r, j) ==
  /\ Arrives(r, "stop")
  /\ job[j].exists
  /\ Become(r, [NoReq EXCEPT !.next = "list", !.job = j])
  /\ UNCHANGED poolVars

StopList(r) ==
  LET active == ActiveRunsOf(req[r].job) IN
  /\ At(r, "list")
  /\ IF active = {} THEN Done(r)
     ELSE Become(r, [req[r] EXCEPT !.next = "cancel", !.left = active,
                                   !.runs = {serial[t] : t \in active}])
  /\ UNCHANGED poolVars

\* Only the last cancellation's error counts.
Cancelled_BugLast(r, t, failed) ==
  LET q == [req[r] EXCEPT !.left = @ \ {t}] IN
  IF q.left # {} THEN Become(r, q)
  ELSE IF failed THEN Done(r)
  ELSE Become(r, [q EXCEPT !.next = "idle"])

\* Errors are ignored.
Cancelled_BugIgnore(r, t, failed) ==
  LET q == [req[r] EXCEPT !.left = @ \ {t}] IN
  Become(r, IF q.left # {} THEN q ELSE [q EXCEPT !.next = "idle"])

\* After the last run: an error is reported, or the job is marked.
Cancelled(r, t, failed) ==
  LET q == [req[r] EXCEPT !.left = @ \ {t}, !.failed = @ \/ failed] IN
  IF q.left # {} THEN Become(r, q)
  ELSE IF q.failed THEN Done(r)
  ELSE Become(r, [q EXCEPT !.next = "idle"])

\* The run StopJob cancels next: the list is sorted by id, descending.
LatestLeft(r) == {t \in req[r].left : \A u \in req[r].left : u <= t}

\* The row is written without asking the queue.
StopCancel_Bug(r) ==
  /\ At(r, "cancel")
  /\ \E t \in LatestLeft(r) :
       /\ task' = [task EXCEPT ![t].status = "cancelled"]
       /\ UNCHANGED <<created, serial, clock, starts, failedAt>>
       /\ Cancelled(r, t, FALSE)
  /\ QueueOnly

StopCancel(r) ==
  /\ At(r, "cancel")
  /\ \E t \in LatestLeft(r) :
       \/ Cancel(t) /\ Cancelled(r, t, FALSE)
       \/ UNCHANGED queueVars /\ Cancelled(r, t, TRUE)
  /\ QueueOnly

StopMark(r) ==
  /\ At(r, "idle")
  /\ SetJobStatus(req[r].job, "idle")
  /\ Done(r)
  /\ JobOnly

(***************************************************************************)
(* UpdateJob: read the whole row, change it, save the whole row.  GORM's   *)
(* Save inserts a row that is gone, and an inserted enabled = false        *)
(* becomes the column's default, true.                                     *)
(***************************************************************************)
UpdateLoad(r, j) ==
  /\ Arrives(r, "update")
  /\ job[j].exists
  /\ \E en \in BOOLEAN :
       Become(r, [NoReq EXCEPT !.next = "save", !.job = j,
                               !.row = [job[j] EXCEPT !.enabled = en]])
  /\ UNCHANGED poolVars

UpdateSave(r) ==
  LET j == req[r].job IN
  /\ At(r, "save")
  /\ job' = [job EXCEPT ![j] = IF @.exists THEN req[r].row
                               ELSE [req[r].row EXCEPT !.enabled = TRUE]]
  /\ Done(r)
  /\ JobOnly

(***************************************************************************)
(* DeleteJob: count the running runs, then delete the row.  Foreign keys   *)
(* are off, so the job's runs stay.                                        *)
(***************************************************************************)
DeleteCount(r, j) ==
  /\ Arrives(r, "delete")
  /\ ActiveRunsOf(j) \cap InState({"running"}) = {}
  /\ Become(r, [NoReq EXCEPT !.next = "remove", !.job = j])
  /\ UNCHANGED poolVars

DeleteRow(r) ==
  /\ At(r, "remove")
  /\ job' = [job EXCEPT ![req[r].job] = NoJob]
  /\ Done(r)
  /\ JobOnly

\* EnableJob and DisableJob.
SetEnabled(j, en) ==
  /\ server \in {"up", "draining"} /\ "update" \in Ops
  /\ job[j].exists /\ job[j].enabled # en
  /\ job' = [job EXCEPT ![j].enabled = en]
  /\ JobOnly /\ UNCHANGED req

(***************************************************************************)
(* enqueueJob: load the job, enqueue a run.  The dedup key carries the     *)
(* instant of the callback, so that no other row has it.                   *)
(***************************************************************************)
CronLoad(r, j) ==
  /\ Arrives(r, "cron") /\ server = "up"
  /\ job[j].exists /\ job[j].enabled
  /\ Become(r, [NoReq EXCEPT !.next = "cronEnqueue", !.job = j])
  /\ UNCHANGED poolVars

CronEnqueue(r) ==
  /\ At(r, "cronEnqueue")
  /\ \E k \in DedupKeys : Enqueue(req[r].job, k, TaskPriorityNormal, 0, 0)
  /\ Done(r)
  /\ QueueOnly

(***************************************************************************)
(* CancelRun; DeleteTaskRun (S a singleton) and BatchDeleteTaskRuns, which *)
(* look at the rows they find, and then delete what has the keys; a        *)
(* handler that fails.                                                     *)
(***************************************************************************)
CancelRun(t) ==
  /\ server \in {"up", "draining"} /\ "cancelRun" \in Ops
  /\ Cancel(t)
  /\ QueueOnly /\ UNCHANGED req

\* isTaskRunDeletable.
Deletable(t) == task[t].status \notin {"running", "pending"}

\* Of the keys a request names, some row has to be there, not all.
DeleteRunsLoad(r, S) ==
  /\ Arrives(r, "deleteRuns")
  /\ S \cap Rows # {}
  /\ \A t \in S \cap Rows : Deletable(t)
  /\ Become(r, [NoReq EXCEPT !.next = "deleteRuns", !.left = S])
  /\ UNCHANGED poolVars

DeleteRuns(r) ==
  /\ At(r, "deleteRuns")
  /\ DeleteTaskRuns(req[r].left)
  /\ Done(r)
  /\ QueueOnly

GiveUp(r) ==
  /\ Alive /\ req[r] # NoReq
  /\ Done(r)
  /\ UNCHANGED poolVars

Handler(r) ==
  \/ \E j \in JobIds : \/ RunLoad(r, j) \/ StopLoad(r, j) \/ UpdateLoad(r, j)
                       \/ DeleteCount(r, j) \/ CronLoad(r, j)
  \/ \E S \in SUBSET TaskRunIds : DeleteRunsLoad(r, S)
  \/ RunCount(r) \/ RunEnqueue(r) \/ RunMark(r)
  \/ StopList(r) \/ StopCancel(r) \/ StopMark(r)
  \/ UpdateSave(r)
  \/ DeleteRow(r)
  \/ CronEnqueue(r)
  \/ DeleteRuns(r)
  \/ GiveUp(r)

AtomicHandler ==
  \/ \E j \in JobIds, en \in BOOLEAN : SetEnabled(j, en)
  \/ \E t \in TaskRunIds : CancelRun(t)

ControlStep ==
  \/ (\E w \in Workers : WorkerStep(w)) /\ UNCHANGED req
  \/ ProcessStep /\ UNCHANGED req
  \/ Time /\ UNCHANGED req
  \/ ProcessEnds /\ req' = [r \in Reqs |-> NoReq]
  \/ \E r \in Reqs : Handler(r)
  \/ AtomicHandler

\* What the history variable remembers: it changes nothing else.
Racing ==
  \/ \E r \in Reqs : req[r].next = "cronEnqueue"
  \/ \E q, r \in Reqs :
       /\ q # r /\ req[q].job = req[r].job
       /\ req[q].next \in {"count", "enqueue"}
       /\ req[r].next \in {"count", "enqueue", "list", "cancel", "idle"}

Remember == raced' = (raced \/ Racing')

ControlNext == ControlStep /\ Remember

ControlSpec == ControlInit /\ [][ControlNext]_controlVars

-------------------------------------------------------------------------------
(***************************************************************************)
(* Properties.                                                             *)
(***************************************************************************)

\* The type invariant of the handlers' state.
ControlTypeOK ==
  req \in [Reqs -> ReqRow] /\ job \in [JobIds -> JobRow] /\ raced \in BOOLEAN

\* The handlers use queue and jobs only as the environment of WorkerPool may:
\* all that is checked and proved of the pool holds with them.
ImplementsPool == PoolSpec

\* When StopJob goes on to mark its job idle, every run it listed is really
\* over or gone, whatever workers, retries and other requests did since, and
\* although a run that was given the key of a listed one may have been cancelled
\* in its place.
StopCancelsAll ==
  \A r \in Reqs : req[r].next = "idle" =>
    \A t \in Rows : serial[t] \in req[r].runs => task[t].status = "cancelled"

\* job.go:749 refuses to run a job that already has a pending or running run:
\* through retries, restarts, updates, deletions and cancellations no job gets a
\* second active run, as long as no cron callback enqueues one and no two RunJob
\* are between their count and their insertion at once.
OneActiveRun ==
  ~raced => \A j \in JobIds : Cardinality(ActiveRunsOf(j)) <= 1

\* When StopJob goes on to mark its job idle, the job has no active run left, not
\* even one that a retry or a restart made of those it listed: unless a run was
\* enqueued meanwhile.
StoppedJobIsQuiet ==
  ~raced => \A r \in Reqs : req[r].next = "idle" => ActiveRunsOf(req[r].job) = {}
===============================================================================
