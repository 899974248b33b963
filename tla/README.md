# STRMSync: models, checks and proofs

STRMSync (`src/backend`, Go) mirrors media libraries of remote drives as trees of `.strm` files.
A *job* describes one mirror; a *run* is one execution of a job, queued in a table, claimed by a worker
goroutine and executed by the sync engine.  This directory holds TLA+ models of that machinery, the TLC
instances that check them, and TLAPS proofs.

This file gives the inventory of the system, the plan, what each module models, what each run checks,
what is proved, and what is left out.

## 1. Inventory

| Part | Code (`src/backend/`) | State it keeps | Operations |
|---|---|---|---|
| Task queue | `internal/queue/queue.go`, `types.go` | table `task_runs` | Enqueue, ClaimNext, Complete, Fail, Cancel; deletion (`transport/task_run.go`); interruption (`cmd/server/main.go`) |
| Error classification | `internal/queue/errors.go`, `worker/executor.go` | none | classifyError, wrapTaskError |
| Worker pool | `internal/worker/worker.go` | goroutines, their current run, the pool's context | runLoop, claimNext, executeTask, Stop |
| Executor | `internal/worker/executor.go` | none of its own | Run: load job, build engine, run it, synchronise metadata |
| Server process | `cmd/server/main.go` | which parts are up | start-up clean-up, start order, signal, shutdown |
| Job and run handlers | `internal/transport/job.go`, `task_run.go` | table `jobs` | create, update, delete, run, stop, enable, disable a job; cancel and delete runs |
| Cron scheduler | `internal/scheduler/scheduler.go` | map of entries, cron engine | Start, Reload, Stop, UpsertJob, RemoveJob, the callback enqueueJob |
| Sync engine | `internal/engine/engine.go` | the target tree | RunOnce, RunIncremental, CleanOrphans |
| Metadata synchronisation | `worker/executor.go` (syncMetadata), `internal/app/sync/metadata_replicator.go` | channel, temporary files, the target tree | list, plan, copy, rename, set the time |
| Sync pipeline | `internal/app/sync` | channels, a map of gathered items | monitor, planner, router, generator or engine-backed generator, replicator, executor; not wired by `main` |
| Application services | `internal/app/job`, `internal/app/taskrun` | map of running jobs with their cancel functions | Run, Stop, Complete, Fail, Cancel; not wired by `main` |
| STRM writer | `internal/strmwriter` | files | Read, Write (truncate, write, set the time), Delete |
| Drives, SDKs, file system | `internal/infra/filesystem`, `internal/pkg/sdk`, the choice of drivers in `worker/executor.go` | connections, the queue of a listing | List, Stat, Download, the text for a `.strm` |
| Server handlers | `internal/transport/filesystem_server.go`, `media_server.go` | tables `data_servers`, `media_servers` | create, update, delete; referred to by jobs |
| Settings, logs, frontend | `internal/transport/*`, `src/frontend` | rows, UI | create, read, update, delete |

How they interact.  Handlers and cron callbacks write `jobs` and insert into `task_runs`.  The goroutines
of the pool claim from `task_runs` by polling, execute, and write the outcome back to both tables.
Nothing is passed in memory between a handler and a goroutine: cancelling a run changes its row and
does not interrupt the execution.  At start-up `main` turns rows left `running` into `failed`; at
shutdown it stops the scheduler, the HTTP server and the pool in this order, five seconds each.

What is hard:

* each queue operation is one transaction, but the handlers are sequences of statements without one, so
  that other handlers, cron callbacks and goroutines act in between;
* a run may be cancelled, cancelled and deleted, retried or lost while a goroutine works on it;
* any statement may fail, and what follows differs from place to place (ignored, logged, fatal);
* the process may die between any two statements, and `running` rows then have nobody to finish them;
* a primary key is SQLite's rowid (`models.go:92`: no AUTOINCREMENT), one more than the largest in the table: once the
  newest run is deleted, the next one gets its id, under which goroutines and requests may still work for the old one;
* a run writes a tree that other runs, of the same job or of others, may write at the same time, from a
  listing that is already old, with goroutines that fail one by one;
* `jobs.status` repeats what `task_runs` says and is written by four parties that do not coordinate.

What makes each part correct:

* queue: attempt budget, retry delay, order of claims, unique keys, finished runs stay finished, every
  run follows the promised life;
* pool: a run has one executor; what is executed is running and what is running is executed, across
  crashes; a job becomes idle only for a run that completed; every run ends;
* handlers: at most one active run per job, a stopped job is quiet, a deleted job is not running, no
  run without a job, a status that is eventually right;
* scheduler: map and cron engine hold the same entries; they agree with the enabled jobs once requests
  are over; a restart repairs what went wrong;
* engine: no file is removed that has a source; a run that succeeds leaves the tree as the listing
  and its settings ask, whatever it found there; it is never stuck, whatever fails;
* drivers: a listing has what was there all the time; whichever driver listed a file, it has one output, one
  text that names it, and is excluded or not;
* metadata synchronisation: only whole files under final names; a success accounts for every listed
  entry, copies nothing older than the listing and leaves in place only what looks like it; it ends, although its goroutines wait for each other;
* pipeline: what passed through the stages is mirrored, and eventually is; a success leaves nothing in a
  channel; a cancellation ends every stage; with batches, nothing gathered is lost or waits for ever;
* services: map, goroutines and rows stay in step; a Stop takes effect; what is over stays over;
* servers: no job names a server that does not exist; refusals are true; an update changes what it names.

`PROJECT.json` lists the hazards line by line with the properties that cover them.

## 2. Modules

```
TaskLifecycle            what a caller may rely on for one run
   ^ implements
TaskQueue                the table and its operations
   ^ extends, implements
WorkerPool               goroutines, process, jobs, faults
   ^ extends, implements
JobControl               handlers and cron callbacks       JobControlProofs, for all three

Scheduler                rows, map of entries, cron engine SchedulerProofs

Engine                   runs over a tree of files
Listing                  what a run lists and calls files  EngineProofs, for both

MetadataSync             copies that follow an engine run
   ^ extends, implements (and JobControl)
Execution                runs with their copies            ExecutionProofs, for both

Servers                  servers, and jobs that name them  ServersProofs

JobService               application services             JobServiceProofs

SyncPipeline             events to files, stage by stage   SyncPipelineProofs
BatchGenerator           the stage that gathers items      BatchGeneratorProofs
                         for the engine

MC<module>               instances for TLC
```

**TaskLifecycle** is the abstract specification of a run: created with an attempt budget, it waits,
runs, waits again while the budget lasts, and ends as completed, failed or cancelled.  It may be deleted, after which
its key is free for another run; that it has ended by then is up to those who delete it, and they see to it
imperfectly (section 3).  No times, workers or priorities.

**TaskQueue** has the row `task[t]` with the columns an operation reads, and one action per operation.
Each operation is one transaction whose UPDATE repeats the status in its WHERE clause; one that returns
an error changes nothing and is a stuttering step.  Callers are arbitrary.  A new row gets the key after the largest
in the table (`IsNextId`), which may be that of a run deleted before; the code knows runs by these keys alone.
`created`, `serial` (which of the runs ever created a row is), `starts` and `failedAt` are history variables that the
properties read and no action's guard does, but for the bound on `created`.

| Action | Code |
|---|---|
| `Enqueue` | `SyncQueue.Enqueue`: defaults, unique index on `dedup_key` |
| `ClaimNext` | `SyncQueue.ClaimNext`: first of ORDER BY priority, available_at, id |
| `Complete`, `FailRetry`, `FailFinal`, `Cancel` | the methods of these names |
| `DeleteTaskRuns` | the transaction of `DeleteTaskRun` and `BatchDeleteTaskRuns`: whatever has the ids by then |
| `Interrupt` | one iteration of `cleanupInterruptedTasks` |
| `Tick` | ten seconds pass |

**WorkerPool** adds the goroutines (`wpc`, the key `wrun` and the job `wjob` of the row they claimed, `werr`), the process
(`server`, `toClean`, `cleanJob`) and the columns of `jobs` they touch.  A goroutine writes back under its key, whichever
run has it by then: `wserial` remembers which run it claimed, and `meddled` which runs had their row changed by the
goroutine of another.  A goroutine's program is `runLoop`/`executeTask`:

| State | Next statement | Action |
|---|---|---|
| `claim` | `claimNext`, or return when the context is done | `Claim`, `Leave` |
| `load` | `Executor.Run` up to the engine | `Load` |
| `exec` | engine and metadata return | `Return` |
| `fail` | `Queue.Fail` | `WriteFail` |
| `complete` | `Queue.Complete` | `WriteComplete` |
| `jobError`, `jobIdle` | `Jobs.UpdateStatus` | `WriteJobStatus` |

The process goes down → cleaning → up → draining → stopping → down (`StartServer`, `CleanRun`,
`CleanJob`, `Serve`, `Drain`, `StopPool`, `Exit`), or dies anywhere (`Crash`).  Every statement may
return a database error instead of working, and the code's reaction is modelled (Fail's error is
ignored, Complete's ends the execution, the clean-up skips the row).  `lost` records runs hit that way.
Handlers are an arbitrary environment that calls any queue operation and rewrites any job.

**JobControl** replaces that environment by the handlers, one action per database statement, with what
a handler has read kept in `req[r]`; a handler may end early at any statement (database error, client
gone, process dead).  `RunLoad`, `RunCount`, `RunEnqueue`, `RunMark` are RunJob; `StopLoad`, `StopList`,
`StopCancel`, `StopMark` StopJob; `UpdateLoad`, `UpdateSave` UpdateJob; `DeleteCount`, `DeleteRow`
DeleteJob; `CronLoad`, `CronEnqueue` the cron callback; `DeleteRunsLoad`, `DeleteRuns` look at the rows that have the
ids of the request, and then delete what has them.  Enable, disable and cancel-run handlers
are single actions: they read a row and update it under a condition that implies what was read, and what the second
statement does to a row that was given the id in between is what a request that comes just before it would do.
What StopJob holds is keys (`left`); which runs it listed is a history (`runs`).

**Scheduler** is about when callbacks fire, `JobControl` about what they do; the two share no state but
the table `jobs`, of which they see different columns, so they are not composed.  A schedule is kept
three times: in the row (`rows`), in the scheduler's map (`entries`) and in the cron engine (`engine`).
The mutex makes each call on map and engine one action (`Register`, `RemoveEntry`), except for
`loadEnabledJobs`, which holds it over its whole loop (`load.phase = "register"`, one step per job).

| Action | Code |
|---|---|
| `StartScheduler`, `StopScheduler` | `Start` (called by `main`), `Stop` |
| `ReloadBegin` | `Reload`: empties map and engine |
| `ListEnabledJobs`, `ListFails`, `RegisterNext`, `LoadDone` | `loadEnabledJobs`, for either |
| `CreateRow`; `UpdateLoad`, `UpdateSave`; `EnableLoad`, `EnableWrite`; `DisableLoad`, `DisableWrite`; `DeleteRow` | the handlers up to their call of the scheduler, one action per statement |
| `Upsert`, `Remove` | `UpsertJob`, `RemoveJob` with the row the handler has in hand |
| `Refused`, `GiveUp` | the scheduler is stopped; a statement fails |
| `ProcessEnds` | exit or crash: only the rows remain |

A specification is five-field (both parsers take it), six-field (only the handlers' does) or absent.
The table may give the id of a deleted job to a new one.

**Engine** is one step of `WorkerPool` (`Return`) seen from inside: any number of runs (`Engines`) at
work on one tree, each with its own settings.  The queue is not part of it; that two runs of one job, or
of two jobs with one output directory, overlap is what JobControl shows to be possible, so the model lets
any runs overlap.  State: the drive (`remote`: a time or no file, per source), the tree
(`target`: content and time, per output), the pool's context (`cancelled`) and, per run, the locals of
`RunOnce` and of its goroutines (`run[e]`).  Two sources may have one output: `calculateOutputPath`
replaces the extension.

| Action | Code |
|---|---|
| `Begin` | `RunOnce` is called with the job's settings |
| `ScanEntry`, `ScanMisses`, `ScanFails`, `ScanDone` | `List` and `filterFiles`: entry by entry while the drive changes; the local driver drops what it cannot read, a remote one fails as a whole |
| `Acquire`, `Leave` | a goroutine of `processFiles` gets a place of the semaphore, or notices the context |
| `Stat`, `SkipRead`, `Read` | steps 3 to 7 of `processFile`, with `DecideUpdate` (`Outdated`) |
| `Open`, `WriteContent`, `WriteLost`, `Chtimes`, `ChtimesFails`, `WriteFails` | `LocalWriter.Write`: `os.WriteFile` truncates, then writes, then the time is set |
| `FileFails` | any call of a goroutine returns an error |
| `CleanBegin`, `Return` | after `wg.Wait` |
| `Pass`, `Delete`, `DeleteFails`, `CleanDone` | `CleanOrphans` visits the tree |
| `Cancel`, `Restart`, `RemoteChange` | the pool stops; the process ends; the drive changes |

A goroutine's place in its program is `run[e].pc[s]`.  A file's content is that of a source in one of the
forms it may be spelled in, blank, or something no run would write (foreign, cut off, mixed).  `gone`,
`alone` and `kept` are history variables.

**Listing** is what comes before Engine's goroutines: which driver lists which directory, and what path and
text a file gets.  `Setups` are settings of a job and its server, of which the first operators compute, as
`Executor.Run` does, the driver (`UsesLocalDriver`, `Overridden`), the directories (`RemoteListRoot`,
`EngineRoot`, `LocalRoot`), the path of an entry (`RemoteBase`), its text (`DriverText`, `Mapped`) and whether
it is excluded (`Excluded`).  A path is a tuple of names.  The listing keeps the entries still to visit in
`waiting`, a set: the breadth-first queue of the remote drivers and the depth-first walk of the local one are two
of the orders it allows.  `s.shown` is the part of the drive that the access path shows.

| Action | Code |
|---|---|
| `ListingBegins` | drivers are built, `RunOnce` lists |
| `ListDirectory` | one request of `listCloudDrive2` or `listOpenList` |
| `RemoteFails` | any request or login fails: the whole listing does, or the local one begins (`buildRemoteListOverride`) |
| `VisitFile`, `VisitDir`, `Miss`, `WalkInterrupted` | one call of the function given to `filepath.WalkDir`; what cannot be read is logged and passed over |
| `ListingDone` | `scanRemoteFiles` returns, `filterFiles` |
| `Appear`, `Vanish` | the drive changes between two requests |

`stayed`, `seen`, `missed` and `placed` are history variables.  Engine reads a listing in the same way, one entry
after the other over a changing drive, but knows neither directories nor two drivers; what it assumes of a
listing of a remote driver, that a source which was there all the time is in it, is what `ListedWhatStayed` says.

**MetadataSync** is the other part of an execution: the producer of `syncMetadata`, the channel `items`
(`queue`), and `MetadataReplicator.Apply` at its other end.  `remote[e]` is the version the drive has,
`target[e]` and `tmp[e]` what is in the mirror and in the temporary file next to it: a version, nothing,
a blank file, or a torn one, in which two versions are mixed.  Nothing is assumed of times: a write may leave any of
`WriteTimes` on a file, also one near that of a version, and a listing may know neither a file's time nor its
size (`TimeOf`, `ListedSize`: 0), which `metaFileSame` then does not compare (`Same`).  `sync[c]` holds the locals of one synchronisation.  A
synchronisation may update, overwrite, or only add what is missing (`strategy`).

| Action | Code |
|---|---|
| `Begin` | the engine has returned, `Executor.Run` goes on to `syncMetadata` |
| `List`, `ListFails` | the listing, as a snapshot of versions |
| `NextEntry`, `Skip`, `StatFails`, `Plan`, `Send`, `Close` | the producer: one entry after the other against the target; the send does not look at the context |
| `Take`, `Open`, `Copy`, `Rename`, `Chtimes`, `Finish` | the replicator: temporary file, contents, final name, time; a local copy opens its source before the temporary file, a download after it (`Source`) |
| `FallBack` | a download failed at any point, and a copy from the mount follows (`copyOrDownload`) |
| `OpenFails`, `CopyFails`, `ChtimesFails` | each of these fails; only the last is not counted |
| `ApplyEnds`, `ApplyCancelled` | the select: a closed channel and an ended context may both be ready |
| `Change`, `ContextEnds`, `Restart` | the drive changes, the pool stops, the process ends and leaves its temporary files |

**Execution** joins the two: it extends JobControl and MetadataSync, whose variables are disjoint, and says which
steps they take together.  `Syncs` are the `Workers`, a goroutine having one synchronisation at a time; the tree
is that of one job, `TreeJob`, that no other job writes to.  What a run has begun is in `began`.

| Action | Code |
|---|---|
| `SyncBegins` | `Executor.Run`: the engine has returned without an error, `syncMetadata` is called (`Begin`) |
| `SyncGoesOn` | producer, replicator, or the drive: `SyncStep`, `Change` |
| `ControlNext` with `Follows` | a step of handlers, goroutines or process, with what it means for the synchronisations: `Return` waits for them and returns their outcome (`Returns`), `StopPool` ends the context, the end of the process is `Restart` |

A run whose row is cancelled, or cancelled and deleted, goes on in its goroutine, as in JobControl; `overtaken` remembers
that another goroutine was in the engine for the same job beside one whose row is no longer its own or no longer says
running, or was changed by a goroutine it does not belong to (`Valid`).

**JobService** has the map `runningJobs` (`entry`), each call of `Run` with the goroutine it starts
(`call[c].next`, one statement after the other), its context (`ended`), the id of its row and the calls of `Stop`.
The lock covers single accesses to the map, so every access is an action.  A statement fails for a reason
of its own (`faults`) or because its context is done.  Rows are addressed by ids, as in the code, and a new row may get
any id that no row has, since the runs of the queue are in the same table.  `Cancel` and `Fail` read a row and write, in
another statement, what has the id by then and the job of the row they read (`read`): two actions each.  `row[i].by`, the
call whose row it is, tells rows apart; `meddled` remembers calls whose row or job a statement changed that was
meant for another's.

| Action | Code |
|---|---|
| `Register`, `Refuse` | the check of the map and the placeholder, under one lock |
| `Load`, `Start`, `Enter`, `Check`, `Undo`, `UndoWrite`, `MarkRunning`, `FailStart`, `FailStartWrite`, `Leave` and the `...Fails` | the statements of `Run` and its ways out |
| `ExecOK`, `ExecFails`, `WriteComplete`, `Ensure`, `EnsureWrite`, `FailRun`, `FailWrite`, `WriteJobError`, `Cleanup` | the goroutine |
| `StopRead`, `StopCancel`, `StopMark`, `StopWrite`, `StopMarkFails` | `Stop` |
| `Cancel`, `Complete`, `Fail` | what the task-run service does to the row; only the first looks at its status |
| `CallerEnds`, `DeleteRow` | the caller's context ends; the handlers delete a row |

**SyncPipeline** is `Executor.Execute` with five goroutines on bounded channels: monitor, planner,
router (which reads plan items and sends each to the channel of its kind), and the two appliers, for
`.strm` files and for metadata.  `target` is what the mirror has; `missed` and `excused` are histories: of files
that appeared in a directory before it was watched, and of those of which a full channel made the monitor
drop an event (`sendEvent`) or an applier failed.  Contents are two versions or none.

| Action | Code |
|---|---|
| `ChangeFile`, `MakeDir` | the tree changes and the kernel notifies, if the directory is watched |
| `HandleEvent`, `WatchDir`, `SendEvent`, `MonitorEnds` | `Monitor.runWatch`, `handleEvent` |
| `PlanNext`, `PlanEnds`, `HandOver` | `Planner.Plan` |
| `Route`, `RouteEnds` | the goroutine of `Execute` that splits the items by kind |
| `Take`, `WriteStrm`, `CopySource`, `SourceGone`, `Rename`, `Remove`, `ApplyFails`, `ApplyEnds` | `Generator.Apply`, `MetadataReplicator.Apply` |
| `Abort` | an applier returns an error of its own |

**BatchGenerator** is the applier that uses the engine: `EngineStrmGenerator.Apply` gathers items per
path (`pending`, merged by `mergePlanItem`: `Newer`) and applies them in batches, by number, by a ticker, or
after a time without items (`strategy`).  A flush is `RunIncremental` (`Delete`, `DeletesDone`, `Create`,
`Filtered`, `FileFails`), during which the loop does not listen.  A failed flush is tried again,
at most `MaxFailures` times (`RetryFires`, `GiveUp`).  The time of an item is when its event was handled
(`HandleEvent`), and a deletion has none.

**Servers** has the tables of data servers and media servers, and of jobs the columns that refer to them.
A request is `call[c]`: the next statement, what was asked and the row it read.  The handlers are
sequences of statements without a transaction: names are counted, then a unique index decides; users are
counted, then the row is deleted.  `CreateDataServer` ... `DeleteJob` name the handlers.

History variables, which no guard reads: `overlapped` in Scheduler (since the process began, requests
about one job, or a request and a reload, were under way at once); `raced` in JobControl (a cron callback
has enqueued, or a RunJob has overlapped with another or with a StopJob of its job) and in Servers (a
request was under way beside one that writes what it checked); `overtaken` in Execution; `meddled` in WorkerPool and
JobService.  They let one run state what holds until such
an overlap, while everything else is checked beyond it.

Definitions named `..._Bug` are plausible mistakes in the definition after them.  No specification uses
them; each is recorded in `PROJECT.json` with the property that refutes it, to show that the property
depends on the code.

## 3. Runs

| Run | Configuration | What it shows | Result |
|---|---|---|---|
| `queue` | `MCTaskQueue.cfg` | the queue's properties and its refinement of TaskLifecycle, deletions and ids given again included | holds |
| `pool` | `MCWorkerPool.cfg` | goroutines and rows stay in step through a failing statement, a crash or shutdown, deletions and ids given again; the pool refines the queue; a waiting run is eventually over unless a failed statement lost it | holds |
| `control` | `MCJobControl.cfg` | handlers and cron callbacks are an environment the pool allows; until requests race: one active run per job, a stopped job is quiet; in any case: StopJob marks the job idle only when all it listed is over | holds |
| `scheduler` | `MCScheduler.cfg` | requests, reloads and restarts overlapping: map and engine hold the same entries, a restart repairs them; until requests about one job overlap, every settled job fires as its row says | holds |
| `engine` | `MCEngine.cfg` | single runs over every setting, two jobs on one tree, failures, cancellation, restarts and a changing drive: a run that succeeds alone leaves the right files with the right times and no orphan; no run is ever stuck; none deletes a file for which it has a source | holds |
| `listing` | `MCListing.cfg` | an accepted listing has what was there all the time and nothing that never was; the same directories are excluded, and a file has one output and a text that names it, whichever driver listed it | holds |
| `metadata` | `MCMetadataSync.cfg` | only whole files get a final name, also after an interrupted synchronisation; a success accounts for every entry, copies nothing older than the listing and leaves in place only what looks like it by size and time; a synchronisation ends | holds |
| `job_service` | `MCJobService.cfg` | map and goroutines stay in step, and so do rows unless hit by a statement meant for another row; a Stop ends what it found; a finished run changes only by a write that ignores its status | holds |
| `pipeline` | `MCSyncPipeline.cfg` | what passed the stages is mirrored, and eventually is; an uncancelled end leaves nothing; a cancelled one comes | holds |
| `batch` | `MCBatchGenerator.cfg` | what is gathered is applied before a success, by a timer if there is one, and not given up for a file that fails | holds |
| `servers` | `MCServers.cfg` | refusals are true; a job names no server that was never there; until requests race, none names a missing one and an update changes only what it names | holds |
| `engine_offline` | `MCEngineOffline.cfg` | with the local driver, what cannot be read is deleted as an orphan | violated |

`Execution` has no line in this table: what it adds is proved (section 4).  `MCExecution.cfg` is a small instance of it,
which TLC finds to hold (`CopiesAreWhole`, `CompletedIsHandled`; two goroutines, two runs of one job, which may be cancelled and deleted, one file; one and a half million
states).  With one goroutine and one run, which is cut off by the end of the process, and a source that changes, so do
the refinements of JobControl and MetadataSync.

The violated one states what a comment of the code says; `PROJECT.json` quotes the lines under `findings`.

Other disagreements between code and text, each visible in a module and not given a run.  Those with a
property in parentheses are counterexamples TLC finds when the named premise is taken out of it, or the
property is stated as given here.

* `transport/job.go:749` counts pending and running runs "to prevent a second run", but the count and
  the Enqueue are separate statements and the key holds the current nanosecond: two overlapping RunJob
  requests, or one and a cron callback, start two runs (`OneActiveRun` of JobControl without `~raced`).
* `transport/job.go:668` answers that a running job cannot be deleted.  Count (line 660) and deletion are separate
  statements and waiting runs are not counted: a worker may claim a run in between and executes it without a
  job (`DeleteCount`, `Claim`, `DeleteRow` of JobControl).
* `transport/helpers.go:298` says that without a mount path the access path is used.  `worker/executor.go:215` cleans
  the empty path to `.` and maps the access path to it: every `.strm` of a job with a local driver names a
  relative path (`StrmNamesTheFile` of Listing without `MountIsApart`).
* `engine/engine.go:503` maps the access path to the mount path in a text the driver has already given the mount
  path.  If that is below the access path, or merely begins with the same letters, it is put in twice (the same).
* `worker/executor.go:580` lists locally what could not be listed remotely, with `remote_root` for a path, which
  `domain/model/models.go:62` calls the starting point of the API: `/` is all of the access path, whatever
  `source_path` is, and another root is refused as not being under it (`LocalRoot`).  If the access path does not
  show the root, a file has different outputs and texts in the two listings, and orphan cleaning removes the
  ones in favour of the others (`OutputIsStable`, `StrmNamesTheFile` without `Coherent`).
* `engine/exclude.go:9`, 45 exclude relative to the remote root.  With a remote list for a local driver, entries are
  relative to the root already, which is looked for in front of them again: unless it is `/`, nothing is
  excluded (`ExclusionsAreKept` without `ExclusionsApply`).
* `queue/errors.go:120` takes a timeout of the network for worth a retry.  `worker/executor.go:1149` comes first and takes
  `DeadlineExceeded`, which the time limit of an HTTP client is as well, for a cancellation: the run
  is not tried again.
* `transport/job.go:778`: RunJob writes `running` after it has enqueued.  When a worker is through with the
  run by then, the job stays `running` although nothing runs, until its next run ends.
* `scheduler/doc.go:26-28` promises that rules can be changed at run time, by several goroutines.  A handler writes
  the row and notifies the scheduler in separate steps; two overlapping requests about one job can notify
  in the opposite order and leave an entry that contradicts the row (`EntriesAgree` of Scheduler without
  `~overlapped`).
* `internal/app/taskrun/doc.go:15-17` has no way out of `cancelled`; `Complete` and `Fail` (`service.go:112`, 186)
  write without looking, so that a run Stop has cancelled becomes completed or failed
  (`FinishedIsFinal` of JobService without its second disjunct, which allows for it).
* `internal/app/taskrun/service.go:236` updates only a running row, against conflicts with other goroutines, but the id may be
  another run's by then.  A run is stopped, its row deleted, and the next run gets the id: a late Stop, a late
  `ensureTaskRunCancelled` or the late `Complete` or `Fail` of the old goroutine marks the new run's row
  (`ExecutionIsShown` of JobService for calls in `meddled`, too; `FinishedIsFinal` for writers other than `row[i].by`).
* `queue/queue.go:267` and 406 complete and fail only a running row, against the same conflicts.  A run is cancelled and
  deleted while its goroutine works, and RunJob gets the id again: now two goroutines execute the id, and the first to
  write back ends the run of the other, of another job if it is one of another job.  If it fails with a retry left, the new
  run is claimed once more and executed twice at once (`OneExecutor` and `RunningIsExecuted` of WorkerPool name the runs
  by `serial`; `OneExecutor` without `meddled`).
* `transport/task_run.go:151` and 203 refuse to delete a run that is waiting or running.  The rows are looked at and deleted in
  separate statements, and a batch deletes all the ids it was given, those with no row included: a run enqueued in between,
  which gets such an id, is deleted while it waits or is executed (`DeleteRunsLoad`, `RunEnqueue`, `DeleteRuns` of
  JobControl).
* `internal/app/job/service.go:118` cleans up when the parent context ends.  When it ends between that check
  and the update of the status at line 125, update and Fail both fail for the context, the entry is deleted, and
  the row stays `running` for ever (`MarkFails`, `FailStart`, `Leave`).
* `internal/app/sync/executor.go:40` says errgroup makes all goroutines finish.  An applier's goroutine
  returns nil whatever `Apply` returned, so nothing is cancelled when an applier gives up, and the router
  waits for ever on its full channel (`Abort` and `Route` of SyncPipeline; `Abort` followed by a full
  `queue[k]`).
* `internal/app/sync/monitor.go:259` watches a new directory when its event is handled.  What was created in
  it before is never reported (`missed` of SyncPipeline; `SettledIsMirrored` without it).
* `internal/app/sync/metadata_replicator.go:270` renames "atomically"; but the temporary name is the target's with
  `.tmp`, so two overlapping synchronisations write one file and a torn copy gets the final name
  (`TargetIsWhole` of MetadataSync with two `Syncs`).
* `queue/types.go:21` calls Running → Cancelled "cancel the executing task", but `Cancel` (`queue.go:438`) changes only the row and
  its goroutine goes on.  A job that was stopped can be run again at once, and its second run is executed beside
  the first: the same torn copies, or one that is still blank when the other renames it, without any two requests that
  overlap (`CopiesAreWhole` of Execution without `~overtaken`), also when the first was deleted and the two have one id.
* `worker/executor.go:1004` skips what is the same by size and time, and `metadata_replicator.go:276` only logs that the time could not
  be set.  A copy that keeps the time of its writing, for that reason or because the process died before, is taken
  for a newer version of the same size that appeared within two seconds of it, and never replaced (`OkIsCurrent` of
  MetadataSync with the content in `had` for skipped files, too; `MCMetadataSync` has such versions).
* `worker/executor.go:1134` takes a cancelled run for cancelled.  The producer closes its channel when the
  context is done; the replicator may see the closed channel first and return nil: the run is completed with
  entries nobody looked at (`OkCoversListing` without `~halted`).
* `engine/types.go:370` says a dry run writes nothing.  `syncMetadata` does not look at the option.
* `internal/app/sync/engine_strm_generator.go:402`, 425 keep the latest item of a path and let a deletion win
  at equal times.  A deletion carries no time if the file is gone when its event is handled, and
  loses against an older creation: the `.strm` of a file that is gone is written.  If the file was made again
  meanwhile, the deletion carries the new file's time and wins against its creation
  (`TimelyHasStrm` of BatchGenerator without `raced`, or for files that are gone).
* `internal/app/sync/engine_strm_generator.go:55` keeps pending events "when the engine fails".
  `RunIncremental` counts the error of a file and returns nil, and the map is cleared: that item is lost
  (`lost` of BatchGenerator).
* `transport/filesystem_server.go:401` and `media_server.go` refuse to delete a server a job refers to; a job validated
  before the deletion and saved after it refers to a server that does not exist (`NoDanglingReference`
  of Servers without `~raced`; foreign keys are off).
* `transport/filesystem_server.go:313` changes what the request has.  The whole row is saved, so that an
  overlapping update is taken back (`OnlyAskedIsChanged` of Servers without `~raced`).
* `transport/filesystem_server.go:147` answers that a server with the same configuration exists.  An update changes
  the connection and leaves the uid (`BuildDataServerUIDForUpdate` is called nowhere), so that a
  configuration no server has any more is refused (`Changed`, `UidTaken` of Servers).
* `transport/media_server.go:132` answers that the *name* exists for a conflict of the uid as well, where
  `filesystem_server.go:145` tells the two apart (`AnswersAreTrue` allows for it).

* `queue/types.go:121-123` lists contention for the database among the errors worth a retry, but
  `Executor.Run` (`worker/executor.go:123`) makes every error of loading the job permanent: `Load` in
  WorkerPool leads to `FailFinal` whatever the attempt.
* `domain/model/models.go:77` asks for `OnDelete:CASCADE` on a job's runs, but SQLite's foreign keys
  are off; deleting a job leaves its runs, and a waiting one is later claimed and fails.
* The same check lets a cancelled run be deleted while a goroutine still executes it: `ExecutedIsRunning` of WorkerPool
  allows exactly this.
* `infra/db/repository/job.go:82` says the worker writes `idle` or `error` back when a run is over;
  CancelRun (`transport/task_run.go:327`) changes only the run, and the worker leaves the job alone when
  Complete is rejected (`WriteComplete`): a job whose only run was cancelled stays `running`.
* `scheduler/doc.go:18-21` documents six fields and `transport/job.go:175-183` accepts them, but the engine
  (`scheduler.go:111`) has no seconds parser: such a specification is stored, its old entry removed, and
  the job never scheduled (`Register` in Scheduler).
* `engine/engine.go:825-829` compares an existing file with the URL before the mount path mapping, and
  `engine.go:888` writes the mapped one: with a mapping and without replacement rules, mapped files are
  written again by every run, and unmapped ones left by an earlier setting are kept.  In Engine these
  are the settings with `written` other than `compared`; `DoneIsMirrored` is checked, and proved, for
  settings in which the two agree.
* `transport/job.go:334-346` with `domain/model/models.go:58`: a job created with `enabled: false` is
  stored and scheduled as enabled, because GORM replaces a zero value by the column's default.

Bounds and why they suffice:

* **Runs** (`MaxTaskRuns`): two in `queue`, `pool` and `control`.  Operations touch one row, and the
  only relation between rows is pairwise (order of claims, equal keys, one executor), so two rows show
  every way they can disagree.
* **Goroutines**: two in `pool`, because exclusion is pairwise; they share one worker name, as in
  production.  One where the property is about handlers.
* **Handlers in progress** (`Reqs`): two, because the races are between a check and another's act.
  `MCRaceBound` cuts the product of all requests with all faults: two requests at once are followed while
  the server is up, after a race only StopJob, cron callbacks and workers go on, and of a
  second run only what RunJob, StopJob and a deletion do to it.
* **Jobs in Scheduler** (`MaxJobs`): two, because a reload goes over several jobs and one job's refused
  specification must not keep the next from being registered; once requests have overlapped,
  `MCOverlapBound` goes on with one, since what overlapping requests leave behind concerns one job.
* **Entries** (`MaxEntries`): the ids one cron engine may give, four: enough to replace an
  entry, replace it again and still register the other job.  The engine starts anew with the process.
  Two five-field specifications and one six-field one, so that a rule can change to another of its kind.
* **Engine**: one output with two sources, which is where goroutines of one run meet, and where the run
  of one job meets that of another; outputs do not interact otherwise.  Five settings that
  cover every option are run one at a time (any number after one another, so that each meets what the last
  one left), with times unknown, 1 and 3, an `Epsilon` of 2 and a `WriteTime` of 5: within
  and outside of the tolerance in either direction.  `MaxConcurrency` is 1, so that a goroutine has to
  wait for the other's place.  The two jobs of `MCJobs` overlap, over files of one known time
  (`MCOverlapBound`); while both are at work the context is not cancelled and the first file stays, the
  second may be gone, so that the one job deletes what the other writes.  `RemoteOrphansOnly` and `DoneIsMirrored` are proved without any of these bounds.
* **Listing**: a file at the root, one in a directory and one in a directory of that, each of which may come and
  go, and a depth of two, so that a directory is just within, or beyond, the depth.  Twelve settings: one of
  each kind of server, driver and fallback, each differing from the first in what its comment says.  The history
  of paths (`placed`) is over all runs.
* **MetadataSync**: two entries and room for one in the channel, so that the producer has to wait; one
  change of the source, to a version of the same size, whose time (5) is near that of a copy's writing (6) and not near
  that of the first version (1); the size of the first is unknown to the listing.  Both strategies that
  look at the target; downloads, which fall back to a copy.  One synchronisation at a time, any number after one another.
* **JobService**: two jobs, two ids and two calls of Run, for one job or for two (the first call is for the first job,
  which is no loss, as jobs are alike: `MCFirstJob`); one Stop and one failing
  statement, which meets each statement of each call.
* **Execution**: two goroutines and two runs, of two keys or of one given again; RunJob, CancelRun and deletions, one
  request at a time; one file, which each synchronisation overwrites.
* **SyncPipeline**: two files with one `.strm`, and a metadata file in a new directory, so that both
  appliers work and both kinds of target are shared or not; three changes fill an event channel of one
  and a queue of two.  The applier for `.strm` files may give up.
* **BatchGenerator**: a film and a note the filter drops; batches of two, two failures, three changes: enough for
  a file to be made, removed and made again with a flush at work.
* **Servers**: two servers of either kind, two names, two configurations, one job, four requests by two callers: one to
  create what the others dispute.
* **Clock** (`MaxClock`): it stops once nothing waits for a later time, so that no retry is cut off.
  Delays are multiples of ten seconds, the unit of `retryDelay`; delays 0 and 1, and retry delays 1 and
  2, order every pair of runs in both ways.
* **Attempt limits**: 0 (the default, three) and a smaller one; every comparison with the limit
  happens at, below and above it.
* **Faults** (`MaxDbErrors`, `MaxStops`): one of each in `pool`; the proofs have any number.
* **Symmetry**: over dedup keys, requests, five-field specifications, and callers, ids, names and configurations of
  servers, which are model values no action compares except for equality.  None is used where liveness is
  checked.
* Deadlock is checked in the runs of the scheduler, of the engine and of the listing and not in the others: there, a run
  of the model ends when all bounds are used up and everybody is idle or has returned, which the real
  system may be.

Fairness (`PoolFairness`): weak fairness of each goroutine (a Go loop that polls every five seconds),
of the steps of `main`, of `Exit` (main waits at most five seconds), of restarting a stopped server
(`StartServer`: a service manager restarts the process) and of time.  `Return` under it assumes that
the engine returns, which `RunTimeout = 0` in production does not enforce; it is listed as a hazard.
Nothing is assumed of handlers, crashes, signals or errors.

JobService (`LiveSpec`): goroutines that can go on do, and an execution returns once its context is done, as
the executor's contract says.  Nothing is assumed of callers, of Stop being called, or of faults.
SyncPipeline: each of the five goroutines that can take a step eventually does; nothing is assumed of the
tree, of the monitor ending by itself, or of an applier giving up.  MetadataSync: the listing returns,
and producer and replicator go on while they can.  BatchGenerator: the goroutine of `Apply` goes on, and a
timer that was started fires.  Where two things are ready in a select, fairness does not say which is
taken; the properties hold for either.

Listing has no fairness and claims nothing that needs it: its walks go down a tree of bounded depth.

Engine has no fairness.  That a run returns is stated as `NoRunStuck`: every run at work can take a step
of its own.  Each goroutine goes through its program once and each listing and walk only shrinks, so a
run that can always take a step returns.

## 4. Proofs

TLAPS checks every statement below for every value of the constants, under the assumptions the modules
state: `Null` is none of the values it stands beside, inputs and bounds are natural numbers, the
environment of the pool may write any row (`EnvJobRowsAssumption`) and includes what the handlers do
(`HandlerInputsAssumption`); the cron specifications of the three kinds are distinct
(`SchedulerAssumption`); settings, times and the three special contents of a file are what they stand for
(`EngineAssumption`); files lie in directories, a server has the paths the handlers ask for, an access path
is not empty, and no name has a `/` in it (`ListingAssumption`); sizes and times are natural
numbers and a listing, if it knows a size, knows the right one (`MetadataAssumption`: nothing is assumed of how the times of
versions and of writing relate); the value for "none" is no id,
name, configuration or row (`ServersAssumption`); each file has a kind and a target, and the values for "no
file" are no files (`PipelineAssumption`); batches and failures are counted from one, and the values for "no file" and
"no item" are none (`BatchAssumption`).  TLC evaluates the assumptions in the runs.  Where an invariant is
stronger than the property it is for, TLC has checked it, too, on the instance of the run.

**JobControlProofs: the queue.**  `QueueInv` adds to the types that dedup keys are unique, that no created run has two
rows (`SerialsUnique`), and, per key, `RunOK`: what the status of its row says of its `serial`, `starts`, `attempts`, limit
and times (a waiting run was started as often as it failed and has an attempt left; a running one once more).  None
of `RunBudget`, `PendingIsFresh` and `BackoffHonoured` is inductive: that a start is within the budget
follows from how often a *waiting* run was started, and that the delay is kept from what `FailRetry`
wrote into `available_at` when the run was last running.  One lemma per operation; then
`QueueInvariant`, `QueueTypeCorrect`, `RunBudgetHolds`, `PendingIsFreshHolds`, `BackoffHolds`,
`DedupHolds`.  `NoOvertakingHolds` is a second induction, over pairs of runs, above the first.
`FinishedIsFinalHolds` and `QueueImplementsLifecycle` follow from what one step does to one row
(`Moves`).

**JobControlProofs: the pool.**  `PoolInv` joins the safety properties, which need each other (a run has one
executor because only waiting runs are claimed and what is executed never waits; it never waits because
only its one executor can fail it), with three facts the properties do not mention: what a goroutine
holds (`RunsHeld`: the key of a run that was created, and that run has no other key), that nobody is there without a process (`StoppedIsGone`), and that the start-up
clean-up knows every run left running (`CleaningKnows`).  Results: `PoolImplementsQueue`,
`PoolTypeCorrect`, `OneExecutorHolds`, `ExecutedIsRunningHolds`, `RunningIsExecutedHolds`,
`IdleOnlyAfterCompleteHolds`, and, through the refinement, `PoolRunBudgetHolds`.  Keys may be given again at any time.  A
goroutine that writes under a key which is no longer its run's can only end or return to the queue the run that has it now, and that
run is then `meddled`; for all others the argument above goes through as if keys were never given again.

**JobControlProofs: the handlers.**  `ControlInv` adds what a handler has in hand (`HandlerOK`): for StopJob, that
the listed runs it has already cancelled without an error are over or gone, whichever run has their keys now.  Results: `ControlImplementsPool`
(so everything above holds with the handlers at work, as `ControlExecutionsHold` spells out),
`ControlTypeCorrect`, `StopCancelsAllHolds`.  `ActiveInv` is about what a handler has learnt before it acts: as long
as no two enqueuing callers have overlapped (`~raced`), the active runs of a job with a counted zero are none
until `Enqueue`, and those of a job being stopped are among the ones StopJob listed.  It needs of the queue
that only `Enqueue` makes a new run active (`SameKeysNoNewRun`).  Results: `OneActiveRunHolds`,
`StoppedJobIsQuietHolds`.

**SchedulerProofs.**  `TableInv` adds to the types that the map's ids were given by the engine and are
distinct and that the map holds only rules the engine takes: without distinct ids, removing one job's
entry from the engine would remove another's.  From it, for any overlap of requests and reloads,
`SchedTypeCorrect` and `EngineMatchesEntriesHolds`.  `AgreeInv` adds `LoadOK`, that during a load the
listed rows are still the rows and the jobs already visited have the entry their row asks for: it
yields `RestartRepairsHolds`, again for any overlap, since no request arrives during `Start`; and
`SerialOK`, that as long as no requests have overlapped (`~overlapped`) a request at work is alone with its job and has in hand what it
wrote: it yields `EntriesAgreeHolds`.

**EngineProofs: the run.**  `TypeInv` adds to the types that only listed files have a goroutine and that only files
with a known time get to `Chtimes`; `FileStep` says what any step of a goroutine may touch, so that each
later argument treats the twelve steps as one.  Result: `EngineTypeCorrect`.  `SourceInv` says that a
run of a remote driver has, for every source it looks for, an entry, or the source still to list, or
the source was absent at some time of the run; `RemoteOrphansOnlyHolds` follows, since files vanish only
by `Delete`, and then the output is not in the index.

`DoneIsMirroredHolds` is the longest argument.  `MirrorInv` says that a run no other has overlapped is the
only one at work, and what the output of a source looks like at each place of the source's goroutine
(`PlaceOK`: truncated at `content`, its text written at `times`, right at `end`; at `skip` and `read` the
time seen by `Stat` is still the file's), provided no other source of the listing has that output; and
that orphan cleaning has still to visit, keeps, or knows as an output every file there is (`CleanOK`),
which is why it cannot undo what the goroutines did.  `OneMirror` reduces each step of the run to that
statement about itself; one lemma per group of steps follows, and `SuccessStep` adds that a run succeeds
only by `Return` or `CleanDone`.  The theorem assumes `SameForm`: every setting compares a file with what
it would write.  Without it the property fails, as the mount mapping above shows.

**EngineProofs: the listing.**  `ListingInv` says that everything that waits or was found lies below the directory the listing
began at (`RootOK`, `WaitingOK`, `FoundOK`), and that a file which was there all the time is found, or an entry on
the way to it still waits or was missed (`CoverOK`).  The last is the heart: a step replaces a directory by
what is in it, and the next name on the way to a file that stays is in it, because the drive is closed under
parents (`Closed`).  When nothing waits, only found or missed is left.  `PlacedOK` says that the path of a file is the
same function of the file in every listing, for coherent settings.  Results: `ListingTypeCorrect`,
`ListedWhatStayedHolds`, `OutputIsStableHolds`, `StrmNamesTheFileHolds`.  `FilteredOK`, that no accepted entry has an
excluded path, and `ExcludedBelow`, that cutting the root off a path excludes the same files whichever driver
wrote the path, give `ExclusionsAreKeptHolds`.

**JobServiceProofs.**  `Inv` says, per call, what its place in the program implies for the map
and for its row (`CallOK`), per stop what it has found (`StopOK`), that the empty key lets the table hold
one row of this service (`OneRow`), and that a row has the id its call was told (`RowsAt`).  `CallOK` says that the
job's entry is the call's, that its row and its job say running until its context ends or it is `meddled` with, and that no row of its own is
left running at the end.  `RowWrites` and `JobWrites` say of any write of the task-run service, whatever
row it was meant for, that the call whose row or job it changes is the writer or `meddled`.  Results: `JobServiceTypeCorrect`, `MapMatchesCallsHolds`,
`ExecutionIsShownHolds`, `ExecutedRunIsOverHolds`.  `RowsOK` adds which status the row of a run can have at each
place of its goroutine, whatever Stop and deletions did meanwhile; with it each step keeps or deletes a row that is
over, but for the outcome a goroutine still has in hand after a cancellation, or for an id it still holds that
was given again: `FinishedIsFinalHolds`.

**ServersProofs.**  `TablesInv` says at which points of its handler a request can be and with which row
(`EntryOK`), and that whatever a job names, or is about to be saved with, was once there (`EverOK`): `TablesOKHolds`.
`RaceFree` is what holds until two requests race: the servers that a validated job is to be saved with are still
there, a server that was found unused still is, and a row that was read is still the row.  No property says
so, but each write rests on it: `NoDanglingReferenceHolds`, `OnlyAskedIsChangedHolds`.  `AnswersAreTrueHolds`
needs no such condition.

**ExecutionProofs: the synchronisation.**  `AccountsInv` says where an entry can be: every listed one is yet to be looked at, with the
producer, in the channel, with the replicator, or counted, and in one of these places only (`Placed`).  It holds for
syncs that interleave in any way, and yields `AccountsOKHolds`.  `WholeInv` adds what the temporary file
holds at each point of a copy (`CopyOK`).  It is kept if no two syncs of a tree are at work together
(`OneAtATime`, the hypothesis of `TargetIsWholeHolds`): they use the same temporary file.  Where it comes
from is the subject of the last part; when it fails, so does the property (section 3).  `CurrentInv` adds, per
synchronisation, that what was read or listed is a version the source has had since the listing (`ReadOK`, `ListingOK`), and that what was
copied still is one and what was skipped still looks like one (`CopiesOK`).  It uses no relation between the times of
versions and those of writing.  The
property speaks of a sync until its place in `Syncs` begins another, while a later one in a second place may already have
copied something newer; so `OkIsCurrentHolds` is about one place (`OneSync`), in which syncs of the tree may list, fail, end
with the process and begin again any number of times.

**ExecutionProofs: runs with their synchronisations.**  `ExecImplementsControl` and `ExecImplementsSync` say that
Execution takes only steps of either part, or leaves it alone, so that all that is proved of JobControl and of
MetadataSync holds in it.  `LinkInv` is what neither part can say: a synchronisation is at work only for a goroutine that is in the
engine for the job of the tree; the context is done just while the pool stops; the synchronisation of a run that is to be
completed has returned without an error.  It needs that a goroutine in the engine leaves it only by `Return` or with
the process (`EngineMoves`), and keeps its job meanwhile (`EngineKeepsJob`).  From it `OneSyncAtATime`: two
synchronisations at work would be two goroutines in the engine; their rows are their own and say running, or one of them is
taken for over (`Valid`, `~overtaken`); then they execute different runs (`OneExecutor`) of the one
job (`ExecutedIsRunning`), and there would be two active runs, which `OneActiveRun`
excludes until requests race (`~raced`).  That is `OneAtATime`, with which the step of `WholeInv` goes through:
`CopiesAreWholeHolds`.  `CompletedIsHandledHolds` follows from `LinkInv` and `AccountsOK`.  All of these have
the hypothesis `Syncs = Workers`, which says what the two sets stand for.

**SyncPipelineProofs.**  `SettledIsMirrored` says what a target is when nothing is under way, so its invariant has to
say what is under way.  `ChangeFits` does, for a file: of its items the one furthest from the target, found by
looking through raw events, channel, planner, router, queue and applier in turn, says whether the file is there
now, and a copy in hand is of what the source holds.  A step moves an item one stage on, behind those of its file already there, so
it keeps this (`Forward`, with one lemma per step); a change of the file puts a fitting item at the other
end (`ChangeForward`); and when an applier is done with the last item of a file, the item fits (`FinishForward`),
which makes the target right (`TargetApply`).  `OnItsWay` is needed because each kind of file has a queue and
an applier of its own: only within one are a file's items in order.  Files that share a target have no order between
them, so of such a target `TargetFits` says only that one of its files is there or under way.  Results: `MirrorInvariant`,
`SettledIsMirroredHolds`.  `EndsInOrder`, that a stage ends after the one before it and empties its channel, gives
`ChannelsOKHolds`.

**BatchGeneratorProofs.**  The last item of a file in a sequence is what this argument turns on, too, with the same lemmas about
it.  `BatchInv` says of a file that is
there, has no event under way, and shares its output with no other, that what was gathered of it is not a deletion and is
still to do, failed or written (`Applied`).  The step that needs most is the merging (`ReceiveArrives`): `mergePlanItem`
keeps the item with the later time, so the last item to arrive could lose against an earlier one.  It does not lose
against a deletion, because only a deletion has no time (`Timed`), provided the monitor handled each event before the file changed again.
`FlushOK`, that a flush has at hand only what the map holds and a failure left before the limit, yields the rest.  Results: `BatchInvariant`,
`TimelyHasStrmHolds`, `ApplyOKHolds`.

The type invariants of most of the proved modules, `PendingIsFresh`, `BackoffHonoured`, `DedupUnique`, the queue's own
`FinishedIsFinal` (which `ImplementsLifecycle` implies), `ExecutedIsRunning` and `IdleOnlyAfterComplete` of the pool, and
`ExecutedRunIsOver` of JobService are not among the runs' properties: they are
proved for every value of the constants.

Only model-checked: `NoRunStuck`, which is about ENABLED; liveness (`EveryRunEnds`, `StopTakesEffect`,
`CancelEnds`, `EventuallyMirrored`, `SyncEnds`, `PendingIsFlushed`), which needs fairness and ENABLED, beyond
the prover; and the violated property, whose counterexample is a trace.

## 5. Not modelled

* Progress counters, events, end times, error texts and payloads of a run: no operation reads them.
* In WorkerPool, the engine and metadata synchronisation inside an execution are one step that returns or
  fails.  Engine and MetadataSync model the two by themselves, and Execution puts the second inside the
  execution.
* In Engine: how extensions and sizes select sources (a constant set per setting; directories and depth are
  in Listing); directories and files of other names; a listing that falls back from a remote driver
  to the local one counts as local; what a drive answers is what it has, so that the caches of a drive
  are changes of `remote`; statistics and events.
* In Listing: a test for a string prefix compares whole names, so that `/mnt/cd` and `/mnt/cd2` are not confused as
  `applyMountPathMapping` would; replacement rules; sizes and times; the name of the output that a path gets (an entry's
  path stands for it; that two paths may share one is in Engine); tokens and logins, whose failures are `RemoteFails`.
* In MetadataSync: counters and events as such (the sets of entries they count are there); that a producer whose
  replicator has returned stays blocked for the life of the process; mount path mappings of targets.
* In SyncPipeline: changes before the watch starts and the first walk over the tree; removed and renamed
  directories; `Monitor.Scan`; the bound on the kernel's queue, which is taken to be large enough.
* In BatchGenerator: `SkipExisting`, dry runs, empty parent directories and statistics of `RunIncremental`.
  `TimelyHasStrm` speaks of files that share their output with no other.
* In Servers: connection tests, options and credentials, which no check reads.
* When a cron rule fires: a callback may fire for any job at any time in JobControl.
* Two Reloads at a time: one is under way or none.
* Which Go error is of which failure kind (`queue/errors.go`): any execution may end with any kind.
* Validation, listing, settings, files, the frontend, SDKs: single statements or stateless code.  28681 of the
  repository's lines of Go are generated gRPC code (`internal/pkg/sdk/clouddrive2/proto`).
* The log writer's table (`internal/pkg/logger/db_core.go`): no part of the program starts it; `main` only
  shuts it down.
* Two server processes on one database file: `main` is started once.

## 6. Plan

What is left, in this order.

1. `Classification`: which error ends up with which failure kind, composed with WorkerPool; the choice of
   sources by extension and size as operators against a reference definition.
2. Listing composed with Engine: `ScanEntry` and its like implemented by the steps of Listing.
3. Engine in Execution as well: that a run is the only one on its tree (`alone` of Engine) follows for the runs of
   one job as `OneAtATime` does.
4. Proofs: `OkIsCurrent` for the goroutines of a pool, of which one at a time has the tree.
