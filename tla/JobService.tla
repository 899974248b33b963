------------------------------ MODULE JobService ------------------------------
(***************************************************************************)
(* The job and task-run services of the application layer                  *)
(* (internal/app/job/service.go, internal/app/taskrun/service.go).         *)
(*                                                                         *)
(* A call of Run registers its job in the map runningJobs, first with a    *)
(* placeholder, creates a row of task_runs and starts a goroutine that     *)
(* executes the job, writes its outcome and removes the entry.  Stop       *)
(* cancels the context it finds in the map and marks the row.  The map's   *)
(* lock covers single accesses to the map only, so each access and each    *)
(* database statement is an action and anything may happen in between.     *)
(*                                                                         *)
(* A row is addressed by its id alone.  SQLite gives the largest id of the *)
(* table again once its row is deleted (models.go:92, no AUTOINCREMENT),   *)
(* and the rows of the task queue in the same table come and go, so a new  *)
(* row may have any id that no row has, also one that an earlier call of   *)
(* Run or a Stop still holds.                                              *)
(***************************************************************************)
EXTENDS Naturals, FiniteSets

CONSTANTS
  Jobs,               \* rows of table jobs
  Runs,               \* calls of Run
  Stops,              \* calls of Stop
  Ids,                \* ids of rows of table task_runs
  MaxFaults,          \* bound: database statements that fail
  NoRun,              \* the map has no entry, a Stop has seen none
  NoId                \* TaskRunID = 0: the row's id is not known yet

ASSUME JobServiceAssumption == MaxFaults \in Nat /\ NoRun \notin Runs /\ NoId \notin Ids

VARIABLES
  entry,              \* entry[j]: runningJobs[j], as the call it belongs to and its TaskRunID
  call,               \* call[c]: the job and the next statement of a call of Run and its
                      \* goroutine, the id of its row and the row Cancel or Fail has read
  ended,              \* ended[c]: execCtx of call c is done
  row,                \* row[i]: the row with id i, as its status and the call that created it
  jobStatus,          \* jobs.status
  stop,               \* stop[s]: the entry a call of Stop has read, its next statement and
                      \* the row Cancel has read
  faults,             \* database statements that have failed
  meddled             \* history: calls whose row or job was changed by a statement
                      \* meant for another call's row

vars == <<entry, call, ended, row, jobStatus, stop, faults, meddled>>
tables == <<row, jobStatus, meddled>>

\* What call[c].next may be: first the steps of Run, then those of its goroutine.
RunSteps == {"load", "start", "enter", "check", "undo", "undoWrite", "status",
             "fail", "failStart", "leave"}
GoSteps == {"exec", "complete", "ensure", "ensureWrite", "failRun", "failWrite",
            "jobError", "cleanup"}
AtWork == RunSteps \cup GoSteps

Finished == {"completed", "failed", "cancelled"}
JobStatus == {"idle", "running", "error"}

NoEntry == [run |-> NoRun, id |-> NoId]
Entry == [run: Runs \cup {NoRun}, id: Ids \cup {NoId}]

NoRow == [status |-> "none", by |-> NoRun]
Row == [status: {"running"} \cup Finished, by: Runs]

Active(c) == call[c].next \in AtWork

\* Rows in the table.  taskRunService.Start leaves dedup_key empty, and the
\* column is unique.
InTable(i) == row[i] # NoRow
KeyTaken == \E i \in Ids : InTable(i)

Init ==
  /\ entry = [j \in Jobs |-> NoEntry]
  /\ call \in [Runs -> {[job |-> j, next |-> "off", id |-> NoId, read |-> NoRun] : j \in Jobs}]
  /\ ended = [c \in Runs |-> FALSE]
  /\ row = [i \in Ids |-> NoRow]
  /\ jobStatus = [j \in Jobs |-> "idle"]
  /\ stop = [s \in Stops |-> [next |-> "off", seen |-> NoEntry, read |-> NoRun]]
  /\ faults = 0
  /\ meddled = {}

At(c, next) == call[c].next = next
Go(c, next) == call' = [call EXCEPT ![c].next = next, ![c].read = NoRun]
End(c) == ended' = [ended EXCEPT ![c] = TRUE]

\* The row of the call is read; it is then written in a statement of its own.
Read(c, next) == call' = [call EXCEPT ![c].next = next, ![c].read = row[call[c].id].by]

\* A statement fails for a reason of its own, or because its context is done.
DbFault == faults < MaxFaults /\ faults' = faults + 1
DbOK == UNCHANGED faults
DbFails(c) == \/ ended[c] /\ DbOK
              \/ ~ended[c] /\ DbFault

SetJob(j, s) == jobStatus' = [jobStatus EXCEPT ![j] = s]
Meddles(c, met) == meddled' = meddled \cup (met \ {c})

(***************************************************************************)
(* The task-run service.  Cancel and Fail read the row with an id, and     *)
(* then write, in a transaction, the row that has the id by then and the   *)
(* job of the row they read.  They are called for the row of call c.       *)
(***************************************************************************)
\* The status is not looked at.
Cancel_BugAny(i, read, c) ==
  IF InTable(i)
  THEN /\ row' = [row EXCEPT ![i].status = "cancelled"]
       /\ SetJob(call[read].job, "idle")
       /\ Meddles(c, {row[i].by})
  ELSE UNCHANGED tables

\* The job is changed in any case.
Cancel_Bug(i, read, c) ==
  /\ row' = [row EXCEPT ![i].status = IF @ = "running" THEN "cancelled" ELSE @]
  /\ SetJob(call[read].job, "idle")
  /\ Meddles(c, {row[i].by} \cap Runs)

\* Cancel's transaction: only a running row is changed, and only then the job.
Cancel(i, read, c) ==
  IF row[i].status = "running"
  THEN /\ row' = [row EXCEPT ![i].status = "cancelled"]
       /\ SetJob(call[read].job, "idle")
       /\ Meddles(c, {row[i].by})
  ELSE UNCHANGED tables

\* Complete: whatever the status of the row was; nothing if there is none.
Complete(i, c) ==
  IF InTable(i)
  THEN /\ row' = [row EXCEPT ![i].status = "completed"]
       /\ SetJob(call[row[i].by].job, "idle")
       /\ Meddles(c, {row[i].by})
  ELSE UNCHANGED tables

\* Fail's transaction: the row if there is one, whatever its status, and the job.
Fail(i, read, c) ==
  /\ row' = [row EXCEPT ![i].status = IF InTable(i) THEN "failed" ELSE @]
  /\ SetJob(call[read].job, "error")
  /\ Meddles(c, {d \in Runs : row[i].by = d \/ (Active(d) /\ call[d].job = call[read].job)})

(***************************************************************************)
(* Run.                                                                    *)
(***************************************************************************)
\* The check of the map and the placeholder are one critical section.
Register_Bug(c) ==
  LET j == call[c].job IN
  /\ At(c, "off")
  /\ entry[j].id = NoId
  /\ entry' = [entry EXCEPT ![j] = [run |-> c, id |-> NoId]]
  /\ Go(c, "load")
  /\ UNCHANGED <<ended, tables, stop, faults>>

Register(c) ==
  LET j == call[c].job IN
  /\ At(c, "off")
  /\ entry[j] = NoEntry
  /\ entry' = [entry EXCEPT ![j] = [run |-> c, id |-> NoId]]
  /\ Go(c, "load")
  /\ UNCHANGED <<ended, tables, stop, faults>>

Refuse(c) ==
  /\ At(c, "off")
  /\ entry[call[c].job] # NoEntry
  /\ Go(c, "refused")
  /\ UNCHANGED <<entry, ended, tables, stop, faults>>

\* The job is missing, disabled or invalid; or the context is done, which is
\* checked before the statements and which they notice themselves.
LoadFails(c) ==
  /\ At(c, "load")
  /\ Go(c, "leave")
  /\ UNCHANGED <<entry, ended, tables, stop, faults>>

Load(c) ==
  /\ At(c, "load") /\ ~ended[c]
  /\ Go(c, "start")
  /\ UNCHANGED <<entry, ended, tables, stop, faults>>

StartFails(c) ==
  /\ At(c, "start")
  /\ \/ DbFails(c)
     \/ KeyTaken /\ DbOK
  /\ Go(c, "leave")
  /\ UNCHANGED <<entry, ended, tables, stop>>

Start(c) ==
  /\ At(c, "start") /\ ~ended[c] /\ ~KeyTaken
  /\ \E i \in Ids :
       /\ row' = [row EXCEPT ![i] = [status |-> "running", by |-> c]]
       /\ call' = [call EXCEPT ![c].next = "enter", ![c].id = i]
  /\ UNCHANGED <<entry, ended, jobStatus, stop, faults, meddled>>

\* The entry now has the row's id, so that Stop can mark the row.
Enter(c) ==
  /\ At(c, "enter")
  /\ entry' = [entry EXCEPT ![call[c].job] = [run |-> c, id |-> call[c].id]]
  /\ Go(c, "check")
  /\ UNCHANGED <<ended, tables, stop, faults>>

Check(c) ==
  /\ At(c, "check")
  /\ Go(c, IF ended[c] THEN "undo" ELSE "status")
  /\ UNCHANGED <<entry, ended, tables, stop, faults>>

\* Cancel reads the row, and returns if there is none or it is over.
Undo(c) ==
  /\ At(c, "undo")
  /\ \/ row[call[c].id].status = "running" /\ Read(c, "undoWrite") /\ DbOK
     \/ row[call[c].id].status # "running" /\ Go(c, "leave") /\ DbOK
     \/ DbFault /\ Go(c, "leave")
  /\ UNCHANGED <<entry, ended, tables, stop>>

UndoWrite(c) ==
  /\ At(c, "undoWrite")
  /\ \/ Cancel(call[c].id, call[c].read, c) /\ DbOK
     \/ DbFault /\ UNCHANGED tables
  /\ Go(c, "leave")
  /\ UNCHANGED <<entry, ended, stop>>

\* updateJobStatus; if it works, the goroutine starts and Run returns.
MarkRunning(c) ==
  /\ At(c, "status") /\ ~ended[c]
  /\ SetJob(call[c].job, "running")
  /\ Go(c, "exec")
  /\ UNCHANGED <<entry, ended, row, stop, faults, meddled>>

MarkFails(c) ==
  /\ At(c, "status") /\ DbFails(c)
  /\ Go(c, "fail")
  /\ UNCHANGED <<entry, ended, tables, stop>>

\* The row is to be marked failed, with the context of the execution.
FailStart(c) ==
  /\ At(c, "fail")
  /\ \/ ~ended[c] /\ InTable(call[c].id) /\ Read(c, "failStart") /\ DbOK
     \/ ~ended[c] /\ ~InTable(call[c].id) /\ Go(c, "leave") /\ DbOK
     \/ DbFails(c) /\ Go(c, "leave")
  /\ UNCHANGED <<entry, ended, tables, stop>>

FailStartWrite(c) ==
  /\ At(c, "failStart")
  /\ \/ ~ended[c] /\ Fail(call[c].id, call[c].read, c) /\ DbOK
     \/ DbFails(c) /\ UNCHANGED tables
  /\ Go(c, "leave")
  /\ UNCHANGED <<entry, ended, stop>>

\* Every way out of Run with an error deletes the entry and ends the context.
Leave(c) ==
  /\ At(c, "leave")
  /\ entry' = [entry EXCEPT ![call[c].job] = NoEntry]
  /\ End(c)
  /\ Go(c, "returned")
  /\ UNCHANGED <<tables, stop, faults>>

(***************************************************************************)
(* The goroutine.                                                          *)
(***************************************************************************)
\* Execute returns.  It may do so with or without an error whether or not the
\* context is done: the pipeline's executor turns cancellation into success.
ExecOK(c) ==
  /\ At(c, "exec")
  /\ Go(c, "complete")
  /\ UNCHANGED <<entry, ended, tables, stop, faults>>

ExecFails(c) ==
  /\ At(c, "exec")
  /\ Go(c, IF ended[c] THEN "ensure" ELSE "failRun")
  /\ UNCHANGED <<entry, ended, tables, stop, faults>>

WriteComplete(c) ==
  /\ At(c, "complete")
  /\ \/ Complete(call[c].id, c) /\ DbOK
     \/ DbFault /\ UNCHANGED tables
  /\ Go(c, "cleanup")
  /\ UNCHANGED <<entry, ended, stop>>

\* ensureTaskRunCancelled, with a context of its own, reads the row as Cancel
\* does right after it, and returns where Cancel would.
Ensure(c) ==
  /\ At(c, "ensure")
  /\ \/ row[call[c].id].status = "running" /\ Read(c, "ensureWrite") /\ DbOK
     \/ row[call[c].id].status # "running" /\ Go(c, "cleanup") /\ DbOK
     \/ DbFault /\ Go(c, "cleanup")
  /\ UNCHANGED <<entry, ended, tables, stop>>

EnsureWrite(c) ==
  /\ At(c, "ensureWrite")
  /\ \/ Cancel(call[c].id, call[c].read, c) /\ DbOK
     \/ DbFault /\ UNCHANGED tables
  /\ Go(c, "cleanup")
  /\ UNCHANGED <<entry, ended, stop>>

FailRun(c) ==
  /\ At(c, "failRun")
  /\ \/ InTable(call[c].id) /\ Read(c, "failWrite") /\ DbOK
     \/ ~InTable(call[c].id) /\ Go(c, "jobError") /\ DbOK
     \/ DbFault /\ Go(c, "jobError")
  /\ UNCHANGED <<entry, ended, tables, stop>>

FailWrite(c) ==
  /\ At(c, "failWrite")
  /\ \/ Fail(call[c].id, call[c].read, c) /\ DbOK
     \/ DbFault /\ UNCHANGED tables
  /\ Go(c, "jobError")
  /\ UNCHANGED <<entry, ended, stop>>

WriteJobError(c) ==
  /\ At(c, "jobError")
  /\ \/ SetJob(call[c].job, "error") /\ DbOK
     \/ DbFault /\ UNCHANGED jobStatus
  /\ Go(c, "cleanup")
  /\ UNCHANGED <<entry, ended, row, meddled, stop>>

\* The deferred deletion; it is of whatever entry the job has.
Cleanup(c) ==
  /\ At(c, "cleanup")
  /\ entry' = [entry EXCEPT ![call[c].job] = NoEntry]
  /\ Go(c, "over")
  /\ UNCHANGED <<ended, tables, stop, faults>>

(***************************************************************************)
(* Stop, the caller's context, and the handlers that delete rows.          *)
(***************************************************************************)
Halt(s, next, e) == stop' = [stop EXCEPT ![s] = [next |-> next, seen |-> e, read |-> NoRun]]

\* The entry is read under the lock and used after it.
StopRead(s, j) ==
  /\ stop[s].next = "off" /\ entry[j] # NoEntry
  /\ Halt(s, "cancel", entry[j])
  /\ UNCHANGED <<entry, call, ended, tables, faults>>

StopCancel_Bug(s) ==
  /\ stop[s].next = "cancel"
  /\ Halt(s, IF stop[s].seen.id # NoId THEN "mark" ELSE "done", stop[s].seen)
  /\ IF stop[s].seen.id # NoId THEN UNCHANGED ended ELSE End(stop[s].seen.run)
  /\ UNCHANGED <<entry, call, tables, faults>>

StopCancel(s) ==
  /\ stop[s].next = "cancel"
  /\ End(stop[s].seen.run)
  /\ Halt(s, IF stop[s].seen.id # NoId THEN "mark" ELSE "done", stop[s].seen)
  /\ UNCHANGED <<entry, call, tables, faults>>

StopMark(s) ==
  /\ stop[s].next = "mark"
  /\ IF row[stop[s].seen.id].status = "running"
     THEN stop' = [stop EXCEPT ![s].next = "write", ![s].read = row[stop[s].seen.id].by]
     ELSE Halt(s, "done", stop[s].seen)
  /\ UNCHANGED <<entry, call, ended, tables, faults>>

StopWrite(s) ==
  /\ stop[s].next = "write"
  /\ Cancel(stop[s].seen.id, stop[s].read, stop[s].seen.run)
  /\ Halt(s, "done", stop[s].seen)
  /\ UNCHANGED <<entry, call, ended, faults>>

\* The caller of Stop gave up, or a statement failed.
StopMarkFails(s) ==
  /\ stop[s].next \in {"mark", "write"}
  /\ Halt(s, "done", stop[s].seen)
  /\ UNCHANGED <<entry, call, ended, tables, faults>>

\* The caller's context is the parent of execCtx.
CallerEnds(c) ==
  /\ Active(c) /\ ~ended[c]
  /\ End(c)
  /\ UNCHANGED <<entry, call, tables, stop, faults>>

\* The HTTP handlers see that the rows they find are over, and then delete what
\* has the ids they were given, also a row that came in between.
DeleteRow(i) ==
  /\ InTable(i)
  /\ row' = [row EXCEPT ![i] = NoRow]
  /\ meddled' = IF row[i].status \in Finished THEN meddled ELSE meddled \cup {row[i].by}
  /\ UNCHANGED <<entry, call, ended, jobStatus, stop, faults>>

RunStep(c) ==
  \/ LoadFails(c) \/ Load(c) \/ StartFails(c) \/ Start(c) \/ Enter(c) \/ Check(c)
  \/ Undo(c) \/ UndoWrite(c) \/ MarkRunning(c) \/ MarkFails(c)
  \/ FailStart(c) \/ FailStartWrite(c) \/ Leave(c)

GoStep(c) ==
  \/ WriteComplete(c) \/ Ensure(c) \/ EnsureWrite(c) \/ FailRun(c) \/ FailWrite(c)
  \/ WriteJobError(c) \/ Cleanup(c)

Return(c) == ExecOK(c) \/ ExecFails(c)

StopStep(s) ==
  \/ \E j \in Jobs : StopRead(s, j)
  \/ StopCancel(s) \/ StopMark(s) \/ StopWrite(s) \/ StopMarkFails(s)

Next ==
  \/ \E c \in Runs : \/ Register(c) \/ Refuse(c) \/ RunStep(c) \/ Return(c) \/ GoStep(c)
                     \/ CallerEnds(c)
  \/ \E i \in Ids : DeleteRow(i)
  \/ \E s \in Stops : StopStep(s)

Spec == Init /\ [][Next]_vars

\* A call that has begun goes on; an execution returns once its context is
\* done; a Stop that has read an entry cancels it.
Fairness ==
  /\ \A c \in Runs : /\ WF_vars(RunStep(c) \/ GoStep(c))
                     /\ WF_vars(ended[c] /\ Return(c))
  /\ \A s \in Stops : WF_vars(StopCancel(s))

LiveSpec == Spec /\ Fairness

(***************************************************************************)
(* Properties.                                                             *)
(***************************************************************************)
\* The variables hold values of the columns and fields they model.
TypeOK ==
  /\ entry \in [Jobs -> Entry]
  /\ call \in [Runs -> [job: Jobs, next: AtWork \cup {"off", "refused", "returned", "over"},
                        id: Ids \cup {NoId}, read: Runs \cup {NoRun}]]
  /\ ended \in [Runs -> BOOLEAN]
  /\ row \in [Ids -> Row \cup {NoRow}]
  /\ jobStatus \in [Jobs -> JobStatus]
  /\ stop \in [Stops -> [next: {"off", "cancel", "mark", "write", "done"}, seen: Entry,
                         read: Runs \cup {NoRun}]]
  /\ faults \in 0..MaxFaults
  /\ meddled \subseteq Runs

\* The map has an entry for a job exactly as long as a call of Run or its
\* goroutine is at work for it, and it is that call's: no two calls work for one
\* job, no entry stays behind on any of the ways out of Run, and no goroutine
\* deletes the entry of another (service.go:45, 140).
MapMatchesCalls ==
  /\ \A c \in Runs : Active(c) => entry[call[c].job].run = c
  /\ \A j \in Jobs : entry[j] # NoEntry =>
       entry[j].run \in Runs /\ call[entry[j].run].job = j /\ Active(entry[j].run)

\* While an execution nobody has cancelled is at work, its row and its job say
\* running and the map knows its row: a Stop, an undo or a defensive Cancel of an
\* earlier run that comes late does not touch them (taskrun/service.go:236-245),
\* except where the run's id is one that the late statement still holds: then it
\* takes the new row for the old one.  So does a deletion (task_run.go:213).
ExecutionIsShown ==
  \A c \in Runs \ meddled : At(c, "exec") /\ ~ended[c] =>
    /\ row[call[c].id] = [status |-> "running", by |-> c]
    /\ jobStatus[call[c].job] = "running"
    /\ entry[call[c].job] = [run |-> c, id |-> call[c].id]

\* Unless a statement failed, a goroutine never leaves its row running: also if
\* it was cancelled through a placeholder, by its caller, or by a Stop that gave
\* up before it marked the row, and whatever has become of its id (service.go:149-154).
ExecutedRunIsOver ==
  \A c \in Runs, i \in Ids :
    faults = 0 /\ call[c].next \in {"cleanup", "over"} =>
      row[i] # [status |-> "running", by |-> c]

\* A Stop that found a run makes it go away: some time after it has read the
\* entry the run is at work no more, whichever statement the run was at and
\* whatever fails (service.go:198).
StopTakesEffect ==
  \A s \in Stops, c \in Runs :
    stop[s].next = "cancel" /\ stop[s].seen.run = c ~> ~Active(c)

\* A run ends once: no Stop, undo or defensive Cancel that comes late changes
\* what the table says of a finished run.  Only the writes that do not look at the
\* status may, and only under the id their call has in hand: of its own run, then
\* over a cancellation (taskrun/service.go:112, 186; taskrun/doc.go:15-17 has no way
\* out of cancelled), or of another run that was given the id since.
FinishedIsFinal ==
  [][\A i \in Ids : row[i].status \in Finished =>
       \/ row'[i] \in {row[i], NoRow}
       \/ \E c \in Runs :
            /\ call[c].id = i /\ call[c].next \in {"complete", "failWrite", "failStart"}
            /\ c = row[i].by => \/ c \in meddled
                                \/ row[i].status = "cancelled" /\ call[c].next # "failStart"]_vars
===============================================================================
