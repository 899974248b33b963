------------------------------- MODULE Scheduler -------------------------------
(***************************************************************************)
(* The cron scheduler (internal/scheduler/scheduler.go) and the job        *)
(* handlers that keep it in step with the table jobs                       *)
(* (internal/transport/job.go).                                            *)
(*                                                                         *)
(* A job's schedule is kept three times: in its row, in the scheduler's    *)
(* map of entries, and in the cron engine, which fires what it holds.  A   *)
(* handler writes the row, then calls UpsertJob or RemoveJob; between the  *)
(* two anything may happen.  The mutex protects map and engine, not the    *)
(* row.  What a callback does is modelled in JobControl.                   *)
(*                                                                         *)
(* The columns that matter are enabled and cron.  A cron specification is  *)
(* standard (five fields or a descriptor), six-field (with seconds), or    *)
(* absent; handlers refuse all others.                                     *)
(***************************************************************************)
EXTENDS Naturals

CONSTANTS
  MaxJobs,            \* bound: jobs in the table
  MaxEntries,         \* bound: entries added to one cron engine
  FiveField,          \* specifications the engine's parser takes
  SixField,           \* those only the handlers' parser takes
  NoSpec,             \* the empty specification
  Reqs,               \* requests in progress at a time
  Null,
  Ops                 \* the requests that may arrive: a subset of SchedOps

SchedOps == {"create", "update", "enable", "disable", "delete", "reload"}

ASSUME SchedulerAssumption ==
  /\ MaxJobs \in Nat /\ MaxEntries \in Nat
  /\ FiveField \cap SixField = {} /\ NoSpec \notin FiveField \cup SixField
  /\ Ops \subseteq SchedOps
  /\ Null \notin Nat

JobIds == 1..MaxJobs
Specs == FiveField \cup SixField \cup {NoSpec}

VARIABLES
  rows,               \* rows[j]: what the table jobs says of j
  entries,            \* entries[j]: the scheduler's map
  engine,             \* the entries the cron engine fires
  lastEntry,          \* the last id the engine gave
  server,             \* "down", "starting", "up", "draining" (scheduler stopped)
  load,               \* loadEnabledJobs at work, for Start or Reload
  req,                \* req[r]: the state of one handler
  reloadFailed,       \* history: a Reload emptied the map and could not list
  overlapped          \* history: since the process began, two requests about one
                      \* job, or a request and a Reload, have been under way at once

entryVars == <<entries, engine, lastEntry>>
procVars == <<server, load, reloadFailed>>
schedVars == <<rows, entryVars, procVars, req, overlapped>>

NoRow == [exists |-> FALSE, enabled |-> FALSE, cron |-> NoSpec]
NoEntry == [id |-> 0, spec |-> NoSpec]
NoLoad == [phase |-> "none", rows |-> [j \in JobIds |-> NoRow], left |-> {}]
NoReq == [next |-> "none", job |-> Null, row |-> NoRow]

JobRow == [exists: BOOLEAN, enabled: BOOLEAN, cron: Specs]
EntryIds == 1..MaxEntries
CronEntry == [id: EntryIds, spec: Specs \ {NoSpec}] \cup {NoEntry}
LoadState == [phase: {"none", "list", "register"}, rows: [JobIds -> JobRow],
              left: SUBSET JobIds]
ReqState == [next: {"none", "save", "enable", "disable", "upsert", "remove"},
             job: JobIds \cup {Null}, row: JobRow]

SchedInit ==
  /\ rows = [j \in JobIds |-> NoRow]
  /\ entries = [j \in JobIds |-> NoEntry] /\ engine = {} /\ lastEntry = 0
  /\ server = "down" /\ load = NoLoad /\ reloadFailed = FALSE
  /\ req = [r \in Reqs |-> NoReq] /\ overlapped = FALSE

-------------------------------------------------------------------------------
(***************************************************************************)
(* The map and the engine, under the mutex.                                *)
(***************************************************************************)
Unlocked == load.phase # "register"

RemoveEntry(j) ==
  /\ engine' = {e \in engine : e.id # entries[j].id}
  /\ entries' = [entries EXCEPT ![j] = NoEntry]
  /\ UNCHANGED lastEntry

\* The replaced entry is not removed from the engine.
AddEntry_Bug(j, spec) ==
  /\ lastEntry < MaxEntries
  /\ engine' = engine \cup {[id |-> lastEntry + 1, job |-> j, spec |-> spec]}
  /\ entries' = [entries EXCEPT ![j] = [id |-> lastEntry + 1, spec |-> spec]]
  /\ lastEntry' = lastEntry + 1

AddEntry(j, spec) ==
  /\ lastEntry < MaxEntries
  /\ engine' = {e \in engine : e.id # entries[j].id}
                 \cup {[id |-> lastEntry + 1, job |-> j, spec |-> spec]}
  /\ entries' = [entries EXCEPT ![j] = [id |-> lastEntry + 1, spec |-> spec]]
  /\ lastEntry' = lastEntry + 1

\* A job that has an entry is taken to be registered already.
Register_Bug(j, row) ==
  LET wanted == row.enabled /\ row.cron # NoSpec IN
  \/ /\ wanted /\ entries[j] # NoEntry
     /\ UNCHANGED entryVars
  \/ /\ ~wanted \/ (entries[j] = NoEntry /\ row.cron \notin FiveField)
     /\ RemoveEntry(j)
  \/ /\ wanted /\ entries[j] = NoEntry /\ row.cron \in FiveField
     /\ AddEntry(j, row.cron)

\* An entry with the same specification stays; otherwise the old one goes,
\* even if the engine then refuses the new specification.
Register(j, row) ==
  LET wanted == row.enabled /\ row.cron # NoSpec IN
  \/ /\ wanted /\ entries[j].spec = row.cron
     /\ UNCHANGED entryVars
  \/ /\ ~wanted \/ (entries[j].spec # row.cron /\ row.cron \notin FiveField)
     /\ RemoveEntry(j)
  \/ /\ wanted /\ entries[j].spec # row.cron /\ row.cron \in FiveField
     /\ AddEntry(j, row.cron)

(***************************************************************************)
(* Start and Reload: both end in loadEnabledJobs, which lists the enabled  *)
(* jobs, takes the mutex and registers them one after the other.           *)
(***************************************************************************)
StartScheduler ==
  /\ server = "down"
  /\ server' = "starting"
  /\ load' = [NoLoad EXCEPT !.phase = "list"]
  /\ UNCHANGED <<rows, entryVars, req, reloadFailed>>

\* Two Reloads at a time are not considered.
ReloadBegin ==
  /\ "reload" \in Ops /\ server = "up" /\ load.phase = "none"
  /\ engine' = {e \in engine : \A j \in JobIds : e.id # entries[j].id}
  /\ entries' = [j \in JobIds |-> NoEntry]
  /\ load' = [load EXCEPT !.phase = "list"]
  /\ UNCHANGED <<rows, lastEntry, server, req, reloadFailed>>

ListEnabledJobs ==
  /\ load.phase = "list"
  /\ LET listed == {j \in JobIds : rows[j].exists /\ rows[j].enabled} IN
     load' = [phase |-> "register", left |-> listed,
              rows |-> [j \in JobIds |-> IF j \in listed THEN rows[j] ELSE NoRow]]
  /\ UNCHANGED <<rows, entryVars, server, req, reloadFailed>>

\* If the query fails, Start's caller exits; Reload leaves an empty map.
ListFails ==
  /\ load.phase = "list"
  /\ load' = NoLoad
  /\ IF server = "starting"
     THEN server' = "down" /\ UNCHANGED reloadFailed
     ELSE reloadFailed' = TRUE /\ UNCHANGED server
  /\ UNCHANGED <<rows, entryVars, req>>

\* The loop ends at the first job that cannot be registered.
RegisterNext_Bug(j) ==
  /\ load.phase = "register" /\ j \in load.left
  /\ \A k \in load.left : j <= k
  /\ Register(j, load.rows[j])
  /\ load' = [load EXCEPT !.left =
       IF load.rows[j].cron \in SixField THEN {} ELSE @ \ {j}]
  /\ UNCHANGED <<rows, server, req, reloadFailed>>

RegisterNext(j) ==
  /\ load.phase = "register" /\ j \in load.left
  /\ \A k \in load.left : j <= k
  /\ Register(j, load.rows[j])
  /\ load' = [load EXCEPT !.left = @ \ {j}]
  /\ UNCHANGED <<rows, server, req, reloadFailed>>

LoadDone ==
  /\ load.phase = "register" /\ load.left = {}
  /\ load' = NoLoad
  /\ server' = IF server = "starting" THEN "up" ELSE server
  /\ UNCHANGED <<rows, entryVars, req, reloadFailed>>

\* Stop: the engine fires no more, and calls are refused from now on.
StopScheduler ==
  /\ server = "up"
  /\ server' = "draining"
  /\ UNCHANGED <<rows, entryVars, load, req, reloadFailed>>

\* The process ends, by exit or crash; only the rows remain.
ProcessEnds ==
  /\ server # "down"
  /\ server' = "down"
  /\ entries' = [j \in JobIds |-> NoEntry] /\ engine' = {} /\ lastEntry' = 0
  /\ load' = NoLoad /\ req' = [r \in Reqs |-> NoReq] /\ reloadFailed' = FALSE
  /\ UNCHANGED rows

-------------------------------------------------------------------------------
(***************************************************************************)
(* The handlers.                                                           *)
(***************************************************************************)
Serving == server \in {"up", "draining"}

Arrives(r, op) ==
  /\ op \in Ops /\ Serving /\ req[r] = NoReq

At(r, next) == Serving /\ req[r].next = next
Become(r, next, j, row) ==
  req' = [req EXCEPT ![r] = [next |-> next, job |-> j, row |-> row]]
Done(r) == req' = [req EXCEPT ![r] = NoReq]
SetRow(j, row) == rows' = [rows EXCEPT ![j] = row]

\* validateCronSpec: the parser with optional seconds, or nothing.
Accepted == FiveField \cup SixField \cup {NoSpec}

\* CreateJob.  Whatever was asked, GORM replaces a false enabled by the column's
\* default, true, in the row and in the value the handler goes on with.  The
\* table may give the id of a deleted job again.
CreateRow(r, j, cron) ==
  LET row == [exists |-> TRUE, enabled |-> TRUE, cron |-> cron] IN
  /\ Arrives(r, "create")
  /\ ~rows[j].exists
  /\ cron \in Accepted
  /\ SetRow(j, row)
  /\ Become(r, "upsert", j, row)
  /\ UNCHANGED <<entryVars, procVars>>

\* UpdateJob, EnableJob and DisableJob read the row first.  Only EnableJob uses
\* a column it read and does not write: cron.
ReadRow(r, j, op, next, kept) ==
  /\ Arrives(r, op) /\ rows[j].exists
  /\ Become(r, next, j, kept)
  /\ UNCHANGED <<rows, entryVars, procVars>>

UpdateLoad(r, j) == ReadRow(r, j, "update", "save", NoRow)
EnableLoad(r, j) == ~rows[j].enabled /\ ReadRow(r, j, "enable", "enable", rows[j])
DisableLoad(r, j) == rows[j].enabled /\ ReadRow(r, j, "disable", "disable", NoRow)

\* Save writes every column.  It inserts the row if it is gone, with the column's
\* default as in CreateRow.  A request that does not give enabled keeps what was
\* read.
UpdateSave(r, enabled, cron) ==
  LET row == [exists |-> TRUE, cron |-> cron,
              enabled |-> enabled \/ ~rows[req[r].job].exists] IN
  /\ At(r, "save") /\ cron \in Accepted
  /\ SetRow(req[r].job, row)
  /\ Become(r, "upsert", req[r].job, row)
  /\ UNCHANGED <<entryVars, procVars>>

\* The column enabled of the row, if it still exists; the handler goes on with
\* the other columns as it read them.
SetEnabled(j, enabled) ==
  SetRow(j, [rows[j] EXCEPT !.enabled = IF rows[j].exists THEN enabled ELSE @])

EnableWrite(r) ==
  /\ At(r, "enable")
  /\ SetEnabled(req[r].job, TRUE)
  /\ Become(r, "upsert", req[r].job, [req[r].row EXCEPT !.enabled = TRUE])
  /\ UNCHANGED <<entryVars, procVars>>

DisableWrite(r) ==
  /\ At(r, "disable")
  /\ SetEnabled(req[r].job, FALSE)
  /\ Become(r, "remove", req[r].job, NoRow)
  /\ UNCHANGED <<entryVars, procVars>>

DeleteRow(r, j) ==
  /\ Arrives(r, "delete") /\ rows[j].exists
  /\ SetRow(j, NoRow)
  /\ Become(r, "remove", j, NoRow)
  /\ UNCHANGED <<entryVars, procVars>>

\* UpsertJob and RemoveJob.  A call that saw the scheduler running may get the
\* mutex after Stop; one that comes later is refused.
Upsert(r) ==
  /\ At(r, "upsert") /\ Unlocked
  /\ Register(req[r].job, req[r].row)
  /\ Done(r)
  /\ UNCHANGED <<rows, procVars>>

Remove(r) ==
  /\ At(r, "remove") /\ Unlocked
  /\ RemoveEntry(req[r].job)
  /\ Done(r)
  /\ UNCHANGED <<rows, procVars>>

Refused(r) ==
  /\ At(r, "upsert") \/ At(r, "remove")
  /\ server = "draining"
  /\ Done(r)
  /\ UNCHANGED <<rows, entryVars, procVars>>

\* A statement fails before the row was written.
GiveUp(r) ==
  /\ At(r, "save") \/ At(r, "enable") \/ At(r, "disable")
  /\ Done(r)
  /\ UNCHANGED <<rows, entryVars, procVars>>

Handler(r) ==
  \/ \E j \in JobIds :
       \/ \E cron \in Accepted : CreateRow(r, j, cron)
       \/ UpdateLoad(r, j) \/ EnableLoad(r, j) \/ DisableLoad(r, j)
       \/ DeleteRow(r, j)
  \/ \E enabled \in BOOLEAN, cron \in Accepted : UpdateSave(r, enabled, cron)
  \/ EnableWrite(r) \/ DisableWrite(r)
  \/ Upsert(r) \/ Remove(r) \/ Refused(r) \/ GiveUp(r)

SchedStep ==
  \/ StartScheduler \/ ReloadBegin \/ ListEnabledJobs \/ ListFails
  \/ \E j \in JobIds : RegisterNext(j)
  \/ LoadDone \/ StopScheduler \/ ProcessEnds
  \/ \E r \in Reqs : Handler(r)

Overlapping ==
  \/ \E q, r \in Reqs : q # r /\ req[q].next # "none" /\ req[q].job = req[r].job
  \/ load.phase # "none" /\ \E r \in Reqs : req[r].next # "none"

Remember == overlapped' = (server' # "down" /\ (overlapped \/ Overlapping'))

SchedNext == SchedStep /\ Remember

SchedSpec == SchedInit /\ [][SchedNext]_schedVars

-------------------------------------------------------------------------------
(***************************************************************************)
(* Properties.                                                             *)
(***************************************************************************)

\* The type invariant; a stored specification is one a parser accepted.
SchedTypeOK ==
  /\ rows \in [JobIds -> JobRow]
  /\ entries \in [JobIds -> CronEntry]
  /\ engine \subseteq [id: EntryIds, job: JobIds, spec: Specs \ {NoSpec}]
  /\ lastEntry \in 0..MaxEntries
  /\ server \in {"down", "starting", "up", "draining"}
  /\ load \in LoadState /\ req \in [Reqs -> ReqState]
  /\ reloadFailed \in BOOLEAN /\ overlapped \in BOOLEAN

\* The engine fires exactly what the map knows: no job is fired by two entries,
\* by one nobody can remove, or by a rule that was replaced, whatever requests
\* and reloads overlap.
EngineMatchesEntries ==
  engine = {[id |-> entries[j].id, job |-> j, spec |-> entries[j].spec] :
              j \in {k \in JobIds : entries[k] # NoEntry}}

\* What a row asks of the engine, as far as the engine can parse it.
Wanted(row) ==
  IF row.exists /\ row.enabled /\ row.cron \in FiveField THEN row.cron ELSE NoSpec

\* Nobody has written the row of j and still to tell the scheduler.
Settled(j) ==
  /\ load.phase = "none"
  /\ \A r \in Reqs : req[r].next \in {"upsert", "remove"} => req[r].job # j

\* Every settled job fires by the rule its row states, and only then, also
\* beside requests about other jobs, after errors and after restarts, as long as
\* no two requests about one job have overlapped and no Reload has overlapped with
\* a request or failed to list the jobs (the row is written and the scheduler told
\* in separate steps: job.go:964).
EntriesAgree ==
  server = "up" /\ ~reloadFailed /\ ~overlapped =>
    \A j \in JobIds : Settled(j) => entries[j].spec = Wanted(rows[j])

\* A restart repairs whatever overlapping requests and crashes left behind, and
\* a job that cannot be registered keeps no other from being so.
RestartRepairs ==
  [][server = "starting" /\ server' = "up" =>
       \A j \in JobIds : entries'[j].spec = Wanted(rows'[j])]_schedVars
===============================================================================
