--------------------------- MODULE JobServiceProofs ---------------------------
(***************************************************************************)
(* Proofs about the job service, for every number of jobs, calls, ids and  *)
(* faults: the map matches the calls at work (THEOREM MapMatchesCallsHolds),*)
(* an execution is shown as one (ExecutionIsShownHolds) and leaves no      *)
(* running row (ExecutedRunIsOverHolds), and no run ends twice             *)
(* (FinishedIsFinalHolds).  An id may be given again at any time; what a   *)
(* late statement then does to another call's row is kept in meddled.      *)
(***************************************************************************)
EXTENDS JobService, TLAPS

RunningRow(c) == [status |-> "running", by |-> c]

\* What a call at work has: an id; its entry in the map, a running row and a
\* running job, each from some step on and, the last two, until its context is
\* done or another call's statement hits them.
CallOK(c) ==
  /\ call[c].next \in AtWork \ {"load", "start", "leave"} => call[c].id \in Ids
  /\ call[c].next \in {"undoWrite", "failStart", "ensureWrite", "failWrite"} => call[c].read \in Runs
  /\ call[c].next \in {"check", "status", "exec"} =>
       entry[call[c].job] = [run |-> c, id |-> call[c].id]
  /\ call[c].next \in {"enter", "check", "status", "exec"} /\ ~ended[c] /\ c \notin meddled =>
       row[call[c].id] = RunningRow(c)
  /\ call[c].next = "exec" /\ ~ended[c] /\ c \notin meddled => jobStatus[call[c].job] = "running"
  /\ faults = 0 /\ call[c].next \in {"jobError", "cleanup", "over"} =>
       \A i \in Ids : row[i] # RunningRow(c)

\* A Stop holds an entry, and marks the row only of a run it has cancelled.
StopOK(s) ==
  /\ stop[s].next \in {"cancel", "mark", "write"} => stop[s].seen.run \in Runs
  /\ stop[s].next \in {"mark", "write"} => ended[stop[s].seen.run] /\ stop[s].seen.id \in Ids
  /\ stop[s].next = "write" => stop[s].read \in Runs

\* The unique column lets the table hold one row of this service.
OneRow == \A i, k \in Ids : InTable(i) /\ InTable(k) => i = k

\* A row has the id its call was told.
RowsAt == \A i \in Ids : InTable(i) => call[row[i].by].id = i

Inv ==
  /\ TypeOK
  /\ MapMatchesCalls
  /\ OneRow
  /\ RowsAt
  /\ \A c \in Runs : CallOK(c)
  /\ \A s \in Stops : StopOK(s)

LEMMA InitInv == Init => Inv
  BY JobServiceAssumption
  DEF Init, Inv, TypeOK, MapMatchesCalls, OneRow, RowsAt, CallOK, StopOK, NoEntry, Entry, Active, AtWork,
      RunSteps, GoSteps, InTable, NoRow, Row, Finished, JobStatus

(***************************************************************************)
(* The writes of the task-run service.                                     *)
(***************************************************************************)
Writes(i, r, c) == Cancel(i, r, c) \/ Complete(i, c) \/ Fail(i, r, c) \/ UNCHANGED tables

\* A write touches one row and keeps its id and its call; it starts none; and
\* a row it changes is the writer's own or its call is noted.
LEMMA RowWrites ==
  ASSUME TypeOK, NEW i \in Ids, NEW r \in Runs, NEW c \in Runs, Writes(i, r, c)
  PROVE  /\ row' \in [Ids -> Row \cup {NoRow}]
         /\ jobStatus' \in [Jobs -> JobStatus]
         /\ meddled \subseteq meddled' /\ meddled' \subseteq Runs
         /\ \A k \in Ids : /\ row'[k] = row[k] \/ k = i
                           /\ row'[k].by = row[k].by
                           /\ InTable(k)' <=> InTable(k)
                           /\ row'[k].status = "running" => row'[k] = row[k]
                           /\ row'[k] = row[k] \/ row[k].by = c \/ row[k].by \in meddled'
<1>1. /\ row \in [Ids -> Row \cup {NoRow}] /\ jobStatus \in [Jobs -> JobStatus]
      /\ meddled \subseteq Runs /\ call[r].job \in Jobs
      /\ \A d \in Runs : call[d].job \in Jobs
      /\ NoRun \notin Runs
  BY JobServiceAssumption DEF TypeOK
<1>2. CASE Cancel(i, r, c)
  BY <1>1, <1>2 DEF Cancel, SetJob, Meddles, tables, Row, NoRow, JobStatus, Finished, InTable
<1>3. CASE Complete(i, c)
  BY <1>1, <1>3 DEF Complete, SetJob, Meddles, tables, Row, NoRow, JobStatus, Finished, InTable
<1>4. CASE Fail(i, r, c)
  BY <1>1, <1>4 DEF Fail, SetJob, Meddles, Row, NoRow, JobStatus, Finished, InTable
<1>5. CASE UNCHANGED tables
  BY <1>1, <1>5 DEF tables, Row, NoRow, InTable
<1> QED
  BY <1>2, <1>3, <1>4, <1>5 DEF Writes

\* A call at work whose row is running keeps row and job, or is noted: there is
\* no other row a write could find.
LEMMA JobWrites ==
  ASSUME TypeOK, OneRow, NEW i \in Ids, NEW r \in Runs, NEW c \in Runs, Writes(i, r, c),
         NEW d \in Runs \ {c}, d \notin meddled', Active(d),
         NEW k \in Ids, row[k] = RunningRow(d)
  PROVE  /\ row'[k] = row[k]
         /\ jobStatus'[call[d].job] = jobStatus[call[d].job]
<1>1. /\ row \in [Ids -> Row \cup {NoRow}] /\ jobStatus \in [Jobs -> JobStatus]
      /\ \A x \in Runs : call[x].job \in Jobs
      /\ NoRun \notin Runs
  BY JobServiceAssumption DEF TypeOK
<1>2. InTable(k) /\ row[k].by = d
  BY <1>1 DEF InTable, NoRow, RunningRow
<1>3. row'[k] = row[k]
  BY <1>2, RowWrites
<1>4. InTable(i) => row[i].by = d
  BY <1>2 DEF OneRow
<1>5. CASE Cancel(i, r, c)
  <2>1. row[i].status # "running"
    BY <1>4, <1>5 DEF Cancel, Meddles, InTable, NoRow
  <2> QED
    BY <1>3, <1>5, <2>1 DEF Cancel, tables
<1>6. CASE Complete(i, c)
  <2>1. ~InTable(i)
    BY <1>4, <1>6 DEF Complete, Meddles
  <2> QED
    BY <1>3, <1>6, <2>1 DEF Complete, tables
<1>7. CASE Fail(i, r, c)
  <2>1. call[d].job # call[r].job
    BY <1>7 DEF Fail, Meddles
  <2> QED
    BY <1>1, <1>3, <1>7, <2>1 DEF Fail, SetJob
<1>8. CASE UNCHANGED tables
  BY <1>8 DEF tables
<1> QED
  BY <1>5, <1>6, <1>7, <1>8 DEF Writes

(***************************************************************************)
(* Types.                                                                  *)
(***************************************************************************)
RunAction(c) == Register(c) \/ Refuse(c) \/ RunStep(c) \/ Return(c) \/ GoStep(c)

CallType == [job: Jobs, next: AtWork \cup {"off", "refused", "returned", "over"},
             id: Ids \cup {NoId}, read: Runs \cup {NoRun}]

LEMMA RunMoves ==
  ASSUME Inv, NEW c \in Runs, RunAction(c)
  PROVE  /\ call' \in [Runs -> CallType]
         /\ \A d \in Runs \ {c} : call'[d] = call[d]
         /\ call'[c].job = call[c].job
         /\ Start(c) \/ call'[c].id = call[c].id
<1>1. call \in [Runs -> CallType] /\ call[c] \in CallType
  BY DEF Inv, TypeOK, CallType
<1>2. ASSUME NEW n \in AtWork \cup {"refused", "returned", "over"}, Go(c, n)
      PROVE  /\ call' \in [Runs -> CallType]
             /\ \A d \in Runs \ {c} : call'[d] = call[d]
             /\ call'[c].job = call[c].job /\ call'[c].id = call[c].id
  BY <1>1, <1>2 DEF Go, CallType
<1>3. ASSUME NEW n \in AtWork, Read(c, n), call[c].id \in Ids
      PROVE  /\ call' \in [Runs -> CallType]
             /\ \A d \in Runs \ {c} : call'[d] = call[d]
             /\ call'[c].job = call[c].job /\ call'[c].id = call[c].id
  <2>1. row[call[c].id].by \in Runs \cup {NoRun}
    BY <1>3 DEF Inv, TypeOK, Row, NoRow
  <2> QED
    BY <1>1, <1>3, <2>1 DEF Read, CallType
<1>4. CASE Start(c)
  <2>1. PICK i \in Ids : call' = [call EXCEPT ![c].next = "enter", ![c].id = i]
    BY <1>4 DEF Start
  <2>2. call' \in [Runs -> CallType]
    BY <1>1, <2>1 DEF CallType, AtWork, RunSteps
  <2> QED
    BY <1>1, <1>4, <2>1, <2>2 DEF CallType
<1>5. CASE Undo(c) \/ FailStart(c) \/ Ensure(c) \/ FailRun(c)
  <2>1. call[c].id \in Ids
    BY <1>5 DEF Inv, CallOK, Undo, FailStart, Ensure, FailRun, At, AtWork, RunSteps, GoSteps
  <2>2. \E n \in AtWork : Go(c, n) \/ Read(c, n)
    BY <1>5 DEF Undo, FailStart, Ensure, FailRun, AtWork, RunSteps, GoSteps
  <2> QED
    BY <1>2, <1>3, <2>1, <2>2
<1>6. CASE \/ Register(c) \/ Refuse(c) \/ LoadFails(c) \/ Load(c) \/ StartFails(c) \/ Enter(c) \/ Check(c)
           \/ UndoWrite(c) \/ MarkRunning(c) \/ MarkFails(c) \/ FailStartWrite(c) \/ Leave(c) \/ Return(c)
           \/ WriteComplete(c) \/ EnsureWrite(c) \/ FailWrite(c) \/ WriteJobError(c) \/ Cleanup(c)
  <2>1. \E n \in AtWork \cup {"refused", "returned", "over"} : Go(c, n)
    BY <1>6
    DEF Register, Refuse, LoadFails, Load, StartFails, Enter, Check, UndoWrite, MarkRunning, MarkFails,
        FailStartWrite, Leave, Return, ExecOK, ExecFails, WriteComplete, EnsureWrite, FailWrite,
        WriteJobError, Cleanup, AtWork, RunSteps, GoSteps
  <2> QED
    BY <1>2, <2>1
<1> QED
  BY <1>4, <1>5, <1>6 DEF RunAction, RunStep, GoStep

LEMMA RunTypes ==
  ASSUME Inv, NEW c \in Runs, RunAction(c)
  PROVE  /\ entry' \in [Jobs -> Entry]
         /\ \A j \in Jobs \ {call[c].job} : entry'[j] = entry[j]
         /\ ended' \in [Runs -> BOOLEAN]
         /\ \A d \in Runs : ended[d] => ended'[d]
         /\ stop' = stop
         /\ faults' \in 0..MaxFaults /\ faults' \in Nat
         /\ faults' = 0 => faults = 0
<1>1. /\ call[c].job \in Jobs /\ call[c].id \in Ids \cup {NoId}
      /\ entry \in [Jobs -> Entry] /\ ended \in [Runs -> BOOLEAN]
      /\ faults \in 0..MaxFaults /\ MaxFaults \in Nat
  BY JobServiceAssumption DEF Inv, TypeOK
<1>2. /\ stop' = stop
      /\ ended' = ended \/ End(c)
      /\ \/ entry' = entry
         \/ \E e \in {NoEntry, [run |-> c, id |-> NoId], [run |-> c, id |-> call[c].id]} :
              entry' = [entry EXCEPT ![call[c].job] = e]
  BY DEF RunAction, Register, Refuse, RunStep, Return, GoStep, LoadFails, Load, StartFails, Start, Enter,
         Check, Undo, UndoWrite, MarkRunning, MarkFails, FailStart, FailStartWrite, Leave, ExecOK, ExecFails,
         WriteComplete, Ensure, EnsureWrite, FailRun, FailWrite, WriteJobError, Cleanup
<1>3. \A e \in Entry : /\ [entry EXCEPT ![call[c].job] = e] \in [Jobs -> Entry]
                       /\ \A j \in Jobs \ {call[c].job} : [entry EXCEPT ![call[c].job] = e][j] = entry[j]
  BY <1>1
<1>4. {NoEntry, [run |-> c, id |-> NoId], [run |-> c, id |-> call[c].id]} \subseteq Entry
  BY <1>1 DEF Entry, NoEntry
<1>5. entry' \in [Jobs -> Entry] /\ \A j \in Jobs \ {call[c].job} : entry'[j] = entry[j]
  BY <1>1, <1>2, <1>3, <1>4
<1>6. faults' = faults \/ DbFault
  BY DEF RunAction, Register, Refuse, RunStep, Return, GoStep, LoadFails, Load, StartFails, Start, Enter,
         Check, Undo, UndoWrite, MarkRunning, MarkFails, FailStart, FailStartWrite, Leave, ExecOK, ExecFails,
         WriteComplete, Ensure, EnsureWrite, FailRun, FailWrite, WriteJobError, Cleanup, DbFails, DbOK
<1>7. faults' \in 0..MaxFaults /\ faults' \in Nat /\ (faults' = 0 => faults = 0)
  BY <1>1, <1>6 DEF DbFault
<1>8. ended' \in [Runs -> BOOLEAN] /\ \A d \in Runs : ended[d] => ended'[d]
  BY <1>1, <1>2 DEF End
<1> QED
  BY <1>2, <1>5, <1>7, <1>8

\* What a call does to the tables.
Wrote(c) == call[c].id \in Ids /\ \E r \in Runs : Writes(call[c].id, r, c)

LEMMA RunKinds ==
  ASSUME Inv, NEW c \in Runs, RunAction(c)
  PROVE  \/ Start(c)
         \/ MarkRunning(c)
         \/ WriteJobError(c)
         \/ UNCHANGED tables
         \/ Wrote(c)
<1>1. CASE UndoWrite(c) \/ FailStartWrite(c) \/ EnsureWrite(c) \/ FailWrite(c)
  <2>1. call[c].id \in Ids /\ call[c].read \in Runs
    BY <1>1 DEF UndoWrite, FailStartWrite, EnsureWrite, FailWrite, At, Inv, CallOK, AtWork, RunSteps, GoSteps
  <2>2. Writes(call[c].id, call[c].read, c)
    BY <1>1 DEF UndoWrite, FailStartWrite, EnsureWrite, FailWrite, Writes
  <2> QED
    BY <2>1, <2>2 DEF Wrote
<1>2. CASE WriteComplete(c)
  <2>1. call[c].id \in Ids
    BY <1>2 DEF WriteComplete, At, Inv, CallOK, AtWork, GoSteps
  <2>2. Writes(call[c].id, c, c)
    BY <1>2 DEF WriteComplete, Writes
  <2> QED
    BY <2>1, <2>2 DEF Wrote
<1>3. CASE \/ Register(c) \/ Refuse(c) \/ LoadFails(c) \/ Load(c) \/ StartFails(c) \/ Enter(c) \/ Check(c)
           \/ Undo(c) \/ MarkFails(c) \/ FailStart(c) \/ Leave(c) \/ Return(c)
           \/ Ensure(c) \/ FailRun(c) \/ Cleanup(c)
  BY <1>3 DEF Register, Refuse, LoadFails, Load, StartFails, Enter, Check, Undo, MarkFails, FailStart,
              Leave, Return, ExecOK, ExecFails, Ensure, FailRun, Cleanup, tables
<1> QED
  BY <1>1, <1>2, <1>3 DEF RunAction, RunStep, GoStep

LEMMA RunTables ==
  ASSUME Inv, NEW c \in Runs, RunAction(c)
  PROVE  /\ row' \in [Ids -> Row \cup {NoRow}]
         /\ jobStatus' \in [Jobs -> JobStatus]
         /\ meddled' \subseteq Runs /\ meddled \subseteq meddled'
         /\ \A i \in Ids, d \in Runs \ {c} : row'[i].by = d =>
              /\ row[i].by = d
              /\ row'[i].status = "running" => row'[i] = row[i]
              /\ row'[i] = row[i] \/ d \in meddled'
<1>1. TypeOK /\ row \in [Ids -> Row \cup {NoRow}] /\ jobStatus \in [Jobs -> JobStatus]
      /\ meddled \subseteq Runs /\ call[c].job \in Jobs
  BY DEF Inv, TypeOK
<1>2. CASE Start(c)
  BY <1>1, <1>2 DEF Start, Row
<1>3. CASE MarkRunning(c) \/ WriteJobError(c)
  BY <1>1, <1>3 DEF MarkRunning, WriteJobError, SetJob, JobStatus
<1>4. CASE UNCHANGED tables
  BY <1>1, <1>4 DEF tables
<1>5. CASE Wrote(c)
  <2>1. PICK i \in Ids, r \in Runs : Writes(i, r, c)
    BY <1>5 DEF Wrote
  <2> QED
    BY <1>1, <2>1, RowWrites
<1> QED
  BY <1>2, <1>3, <1>4, <1>5, RunKinds

(***************************************************************************)
(* Steps of a call of Run and its goroutine.                               *)
(***************************************************************************)
LEMMA RunMap ==
  ASSUME Inv, NEW c \in Runs, RunAction(c)
  PROVE  MapMatchesCalls'
<1>1. /\ TypeOK /\ MapMatchesCalls
      /\ call[c].job \in Jobs
      /\ call \in [Runs -> CallType] /\ entry \in [Jobs -> Entry]
      /\ call' \in [Runs -> CallType]
      /\ \A d \in Runs \ {c} : call'[d] = call[d]
      /\ call'[c].job = call[c].job
  BY RunMoves DEF Inv, TypeOK, CallType
<1>2. CASE Register(c)
  BY <1>1, <1>2, JobServiceAssumption
  DEF MapMatchesCalls, Register, At, Go, Active, NoEntry, TypeOK, Entry, AtWork, RunSteps
<1>3. CASE Leave(c) \/ Cleanup(c)
  <2>1. Active(c) /\ ~Active(c)' /\ entry' = [entry EXCEPT ![call[c].job] = NoEntry]
    BY <1>1, <1>3 DEF Leave, Cleanup, At, Go, Active, AtWork, RunSteps, GoSteps, TypeOK
  <2>2. entry[call[c].job].run = c
    BY <1>1, <2>1 DEF MapMatchesCalls
  <2>3. \A d \in Runs : Active(d)' => d # c /\ Active(d) /\ call[d].job # call[c].job
    BY <1>1, <2>1, <2>2 DEF MapMatchesCalls, Active
  <2>4. /\ entry'[call[c].job] = NoEntry
        /\ \A j \in Jobs \ {call[c].job} : entry'[j] = entry[j]
    BY <1>1, <2>1 DEF TypeOK
  <2>5. \A j \in Jobs : entry'[j] # NoEntry => j # call[c].job /\ entry[j] # NoEntry /\ entry[j].run # c
    BY <1>1, <2>4 DEF MapMatchesCalls
  <2>6. \A d \in Runs \ {c} : Active(d)' = Active(d) /\ call[d].job \in Jobs
    BY <1>1 DEF Active, TypeOK
  <2> QED
    BY <1>1, <2>3, <2>4, <2>5, <2>6 DEF MapMatchesCalls
<1>4. CASE Enter(c)
  <2>1. Active(c) /\ Active(c)' /\ entry' = [entry EXCEPT ![call[c].job] = [run |-> c, id |-> call[c].id]]
    BY <1>1, <1>4 DEF Enter, At, Go, Active, AtWork, RunSteps, GoSteps, TypeOK
  <2>2. entry[call[c].job].run = c
    BY <1>1, <2>1 DEF MapMatchesCalls
  <2>3. /\ entry'[call[c].job].run = c
        /\ \A j \in Jobs \ {call[c].job} : entry'[j] = entry[j]
    BY <1>1, <2>1 DEF TypeOK
  <2>4. \A d \in Runs : Active(d)' = Active(d) /\ call'[d].job = call[d].job /\ call[d].job \in Jobs
    BY <1>1, <2>1 DEF Active, TypeOK
  <2> QED
    BY <1>1, <2>1, <2>2, <2>3, <2>4 DEF MapMatchesCalls
<1>5. CASE Refuse(c)
  <2>1. ~Active(c) /\ ~Active(c)' /\ entry' = entry
    BY <1>1, <1>5 DEF Refuse, At, Go, Active, AtWork, RunSteps, GoSteps, TypeOK
  <2> QED
    BY <1>1, <2>1 DEF MapMatchesCalls, Active
<1>6. ASSUME \/ LoadFails(c) \/ Load(c) \/ StartFails(c) \/ Start(c) \/ Check(c)
             \/ Undo(c) \/ UndoWrite(c) \/ MarkRunning(c) \/ MarkFails(c) \/ FailStart(c)
             \/ FailStartWrite(c) \/ Return(c) \/ WriteComplete(c) \/ Ensure(c) \/ EnsureWrite(c)
             \/ FailRun(c) \/ FailWrite(c) \/ WriteJobError(c)
      PROVE  MapMatchesCalls'
  <2>1. Active(c) /\ entry' = entry
    BY <1>6
    DEF LoadFails, Load, StartFails, Start, Check, Undo, UndoWrite, MarkRunning, MarkFails, FailStart,
        FailStartWrite, Return, ExecOK, ExecFails, WriteComplete, Ensure, EnsureWrite, FailRun, FailWrite,
        WriteJobError, At, Active, AtWork, RunSteps, GoSteps
  <2>2. Active(c)'
    BY <1>1, <1>6
    DEF LoadFails, Load, StartFails, Start, Check, Undo, UndoWrite, MarkRunning, MarkFails, FailStart,
        FailStartWrite, Return, ExecOK, ExecFails, WriteComplete, Ensure, EnsureWrite, FailRun, FailWrite,
        WriteJobError, Go, Read, Active, AtWork, RunSteps, GoSteps, CallType
  <2> QED
    BY <1>1, <2>1, <2>2 DEF MapMatchesCalls, Active
<1> QED
  BY <1>2, <1>3, <1>4, <1>5, <1>6 DEF RunAction, RunStep, GoStep

LEMMA RunOneRow ==
  ASSUME Inv, NEW c \in Runs, RunAction(c)
  PROVE  OneRow' /\ RowsAt'
<1>1. /\ TypeOK /\ OneRow /\ RowsAt /\ row \in [Ids -> Row \cup {NoRow}] /\ NoRun \notin Runs
      /\ call \in [Runs -> CallType] /\ call' \in [Runs -> CallType]
  BY RunMoves, JobServiceAssumption DEF Inv, TypeOK, CallType
<1>2. CASE Start(c)
  <2>1. PICK i \in Ids : /\ row' = [row EXCEPT ![i] = RunningRow(c)]
                         /\ call' = [call EXCEPT ![c].next = "enter", ![c].id = i]
    BY <1>2 DEF Start, RunningRow
  <2>2. \A k \in Ids : ~InTable(k)
    BY <1>2 DEF Start, KeyTaken
  <2>3. \A k \in Ids : InTable(k)' => k = i
    BY <1>1, <2>1, <2>2 DEF InTable
  <2>4. row'[i].by = c /\ call'[c].id = i
    BY <1>1, <2>1 DEF RunningRow, CallType
  <2> QED
    BY <2>3, <2>4 DEF OneRow, RowsAt
<1>3. ASSUME ~Start(c)
      PROVE  OneRow' /\ RowsAt'
  <2>1. \A k \in Ids : row'[k].by = row[k].by /\ (InTable(k)' => InTable(k))
    <3>1. CASE row' = row
      BY <3>1 DEF InTable
    <3>2. CASE Wrote(c)
      <4>1. PICK i \in Ids, r \in Runs : Writes(i, r, c)
        BY <3>2 DEF Wrote
      <4> QED
        BY <1>1, <4>1, RowWrites
    <3> QED
      BY <1>3, <3>1, <3>2, RunKinds DEF MarkRunning, WriteJobError, tables
  <2>2. \A d \in Runs : call'[d].id = call[d].id
    BY <1>3, RunMoves
  <2>3. \A k \in Ids : InTable(k) => row[k].by \in Runs
    BY <1>1 DEF InTable, Row
  <2> QED
    BY <1>1, <2>1, <2>2, <2>3 DEF OneRow, RowsAt
<1> QED
  BY <1>2, <1>3

\* A row of c that says running has the id c was told.
LEMMA OwnRow ==
  ASSUME Inv, NEW c \in Runs, NEW i \in Ids, row[i].by = c
  PROVE  InTable(i) /\ call[c].id = i
  BY JobServiceAssumption DEF Inv, RowsAt, InTable, NoRow

\* The call itself.
LEMMA RunSelf ==
  ASSUME Inv, NEW c \in Runs, RunAction(c)
  PROVE  CallOK(c)'
<1>1. /\ TypeOK /\ CallOK(c)
      /\ call[c].job \in Jobs
      /\ call \in [Runs -> CallType] /\ call[c] \in CallType
      /\ call' \in [Runs -> CallType] /\ call'[c] \in CallType
      /\ call'[c].job = call[c].job
      /\ row \in [Ids -> Row \cup {NoRow}] /\ jobStatus \in [Jobs -> JobStatus]
      /\ entry \in [Jobs -> Entry]
      /\ faults' = 0 => faults = 0
      /\ meddled \subseteq meddled'
      /\ NoRun \notin Runs
  BY RunMoves, RunTypes, RunTables, JobServiceAssumption DEF Inv, TypeOK, CallType
<1>2. CASE Register(c) \/ Refuse(c) \/ LoadFails(c) \/ Load(c) \/ StartFails(c) \/ Leave(c)
  <2>1. call'[c].next \in {"load", "refused", "leave", "start", "returned"}
    BY <1>1, <1>2 DEF Register, Refuse, LoadFails, Load, StartFails, Leave, Go, CallType
  <2> QED
    BY <2>1 DEF CallOK, AtWork, RunSteps, GoSteps
<1>3. CASE Start(c)
  <2>1. PICK i \in Ids : /\ row' = [row EXCEPT ![i] = RunningRow(c)]
                         /\ call' = [call EXCEPT ![c].next = "enter", ![c].id = i]
    BY <1>3 DEF Start, RunningRow
  <2>2. call'[c].next = "enter" /\ call'[c].id = i /\ row'[i] = RunningRow(c)
    BY <1>1, <2>1 DEF CallType
  <2> QED
    BY <2>2 DEF CallOK
<1>4. CASE Enter(c) \/ Check(c)
  <2>1. /\ call[c].next \in {"enter", "check"} /\ call'[c].next \in {"check", "undo", "status"}
        /\ call'[c].id = call[c].id
        /\ UNCHANGED <<tables, ended>>
        /\ call'[c].next # "undo" => entry'[call[c].job] = [run |-> c, id |-> call[c].id]
    BY <1>1, <1>4 DEF CallOK, Enter, Check, At, Go, CallType, tables
  <2> QED
    BY <1>1, <2>1 DEF CallOK, RunningRow, AtWork, RunSteps, GoSteps, tables
<1>5. CASE MarkRunning(c)
  BY <1>1, <1>5 DEF CallOK, MarkRunning, SetJob, At, Go, AtWork, RunSteps, GoSteps, CallType
<1>6. CASE MarkFails(c) \/ ExecOK(c) \/ ExecFails(c)
  BY <1>1, <1>6 DEF CallOK, MarkFails, ExecOK, ExecFails, At, Go, AtWork, RunSteps, GoSteps, CallType, tables
<1>7. CASE Undo(c) \/ FailStart(c) \/ Ensure(c) \/ FailRun(c)
  <2>1. /\ call[c].next \in {"undo", "fail", "ensure", "failRun"}
        /\ call[c].id \in Ids /\ call'[c].id = call[c].id
        /\ row' = row
    BY <1>1, <1>7, RunMoves
    DEF Undo, FailStart, Ensure, FailRun, tables, At, CallOK, AtWork, RunSteps, GoSteps, Start
  <2>2. row[call[c].id] = NoRow \/ row[call[c].id].by \in Runs
    BY <1>1, <2>1 DEF Row
  <2>3. CASE Undo(c) \/ FailStart(c)
    BY <1>1, <2>1, <2>2, <2>3
    DEF Undo, FailStart, CallOK, Go, Read, InTable, NoRow, CallType, AtWork, RunSteps, GoSteps
  <2>4. CASE Ensure(c) \/ FailRun(c)
    <3>1. \/ call'[c].next \in {"ensureWrite", "failWrite"} /\ call'[c].read \in Runs
          \/ /\ call'[c].next \in {"cleanup", "jobError"}
             /\ row[call[c].id].status # "running" \/ faults' # 0
      BY <1>1, <2>1, <2>2, <2>4
      DEF Ensure, FailRun, Go, Read, InTable, NoRow, CallType, DbFault, TypeOK
    <3>2. \A i \in Ids : row[i] = RunningRow(c) => i = call[c].id /\ row[i].status = "running"
      BY OwnRow DEF RunningRow
    <3> QED
      BY <2>1, <3>1, <3>2 DEF CallOK, AtWork, RunSteps, GoSteps
  <2> QED
    BY <1>7, <2>3, <2>4
<1>8. CASE UndoWrite(c) \/ FailStartWrite(c)
  BY <1>1, <1>8 DEF CallOK, UndoWrite, FailStartWrite, Go, CallType, AtWork, RunSteps, GoSteps
<1>9. CASE WriteComplete(c) \/ EnsureWrite(c) \/ FailWrite(c)
  <2>1. /\ call[c].next \in {"complete", "ensureWrite", "failWrite"}
        /\ call[c].id \in Ids /\ call'[c].id = call[c].id
        /\ call'[c].next \in {"cleanup", "jobError"}
    BY <1>1, <1>9, RunMoves
    DEF WriteComplete, EnsureWrite, FailWrite, At, Go, CallOK, CallType, AtWork, RunSteps, GoSteps, Start
  <2>2. CASE faults' # 0
    BY <2>1, <2>2 DEF CallOK, AtWork, RunSteps, GoSteps
  <2>3. CASE faults' = 0
    <3>1. \/ Complete(call[c].id, c)
          \/ Cancel(call[c].id, call[c].read, c)
          \/ Fail(call[c].id, call[c].read, c)
      BY <1>1, <1>9, <2>3, JobServiceAssumption DEF WriteComplete, EnsureWrite, FailWrite, DbFault, TypeOK
    <3>2. row'[call[c].id].status # "running"
      BY <1>1, <2>1, <3>1 DEF Complete, Cancel, Fail, InTable, NoRow, Row, Finished, tables
    <3>3. \A i \in Ids : row'[i].by = row[i].by
      BY <1>1, <2>1, <3>1 DEF Complete, Cancel, Fail, InTable, NoRow, Row, tables
    <3>4. \A i \in Ids : row'[i] = RunningRow(c) => i = call[c].id
      BY <3>3, OwnRow DEF RunningRow
    <3>5. \A i \in Ids : row'[i] # RunningRow(c)
      BY <3>2, <3>4 DEF RunningRow
    <3> QED
      BY <2>1, <3>5 DEF CallOK, RunningRow, AtWork, RunSteps, GoSteps
  <2> QED
    BY <2>2, <2>3
<1>10. CASE WriteJobError(c) \/ Cleanup(c)
  <2>1. /\ call[c].next \in {"jobError", "cleanup"} /\ call'[c].next \in {"cleanup", "over"}
        /\ row' = row /\ call'[c].id = call[c].id
    BY <1>1, <1>10 DEF WriteJobError, Cleanup, At, Go, CallType, tables
  <2> QED
    BY <1>1, <2>1 DEF CallOK, RunningRow, AtWork, RunSteps, GoSteps
<1> QED
  BY <1>2, <1>3, <1>4, <1>5, <1>6, <1>7, <1>8, <1>9, <1>10 DEF RunAction, RunStep, Return, GoStep
\* Another call d: it works for another job, or not at all.
LEMMA RunOther ==
  ASSUME Inv, NEW c \in Runs, RunAction(c), NEW d \in Runs \ {c}
  PROVE  CallOK(d)'
<1>1. /\ TypeOK /\ OneRow /\ CallOK(d)
      /\ call'[d] = call[d] /\ call[c].job \in Jobs /\ call[d].job \in Jobs
      /\ faults' = 0 => faults = 0
      /\ meddled \subseteq meddled'
      /\ ended[d] => ended'[d]
      /\ \A j \in Jobs \ {call[c].job} : entry'[j] = entry[j]
      /\ jobStatus \in [Jobs -> JobStatus]
  BY RunMoves, RunTypes, RunTables DEF Inv, TypeOK
<1>2. \A i \in Ids : row'[i] = RunningRow(d) => row[i] = RunningRow(d)
  BY RunTables DEF RunningRow
<1>3. CASE Active(d) /\ call[d].job # call[c].job
  <2>1. ASSUME call[d].next \in {"enter", "check", "status", "exec"}, ~ended'[d], d \notin meddled'
        PROVE  /\ row'[call[d].id] = row[call[d].id]
               /\ jobStatus'[call[d].job] = jobStatus[call[d].job]
    <3>1. call[d].id \in Ids /\ row[call[d].id] = RunningRow(d)
      BY <1>1, <2>1 DEF CallOK, AtWork, RunSteps, GoSteps
    <3>2. CASE Start(c)
      BY <3>1, <3>2, JobServiceAssumption DEF Start, KeyTaken, InTable, NoRow, RunningRow
    <3>3. CASE MarkRunning(c) \/ WriteJobError(c)
      BY <1>1, <1>3, <3>3 DEF MarkRunning, WriteJobError, SetJob
    <3>4. CASE UNCHANGED tables
      BY <3>4 DEF tables
    <3>5. CASE Wrote(c)
      <4>1. PICK i \in Ids, r \in Runs : Writes(i, r, c)
        BY <3>5 DEF Wrote
      <4> QED
        BY <1>1, <1>3, <2>1, <3>1, <4>1, JobWrites
    <3> QED
      BY <3>2, <3>3, <3>4, <3>5, RunKinds
  <2> QED
    BY <1>1, <1>2, <1>3, <2>1 DEF CallOK, RunningRow
<1>4. CASE Active(d) /\ call[d].job = call[c].job
  <2>1. ~Active(c)
    BY <1>4 DEF Inv, MapMatchesCalls
  <2>2. entry[call[c].job].run = d
    BY <1>4 DEF Inv, MapMatchesCalls
  <2>3. Refuse(c)
    BY <2>1, <2>2, JobServiceAssumption
    DEF RunAction, Register, RunStep, Return, GoStep, LoadFails, Load, StartFails, Start, Enter, Check,
        Undo, UndoWrite, MarkRunning, MarkFails, FailStart, FailStartWrite, Leave, ExecOK, ExecFails,
        WriteComplete, Ensure, EnsureWrite, FailRun, FailWrite, WriteJobError, Cleanup,
        At, Active, AtWork, RunSteps, GoSteps, NoEntry
  <2> QED
    BY <1>1, <2>3 DEF Refuse, CallOK, RunningRow, tables
<1>5. CASE ~Active(d)
  BY <1>1, <1>2, <1>5 DEF CallOK, RunningRow, Active, AtWork, RunSteps, GoSteps
<1> QED
  BY <1>3, <1>4, <1>5

LEMMA RunKeepsInv ==
  ASSUME Inv, NEW c \in Runs, RunAction(c)
  PROVE  Inv'
<1>1. TypeOK'
  BY RunMoves, RunTypes, RunTables DEF Inv, TypeOK, CallType
<1>2. \A d \in Runs : CallOK(d)'
  BY RunSelf, RunOther
<1>3. \A s \in Stops : StopOK(s)'
  BY RunTypes DEF Inv, StopOK
<1> QED
  BY <1>1, <1>2, <1>3, RunMap, RunOneRow DEF Inv

(***************************************************************************)
(* Stop, the caller's end, deletion.                                       *)
(***************************************************************************)
LEMMA OnlyStopMoved ==
  ASSUME Inv, UNCHANGED <<entry, call, tables, faults>>,
         \A d \in Runs : ended[d] => ended'[d]
  PROVE  MapMatchesCalls' /\ OneRow' /\ RowsAt' /\ \A c \in Runs : CallOK(c)'
<1>1. MapMatchesCalls'
  BY DEF Inv, MapMatchesCalls, Active
<1>2. OneRow' /\ RowsAt'
  BY DEF Inv, OneRow, RowsAt, InTable, tables
<1>3. \A c \in Runs : CallOK(c)'
  BY DEF Inv, CallOK, RunningRow, tables
<1> QED
  BY <1>1, <1>2, <1>3

LEMMA StopWriteKeeps ==
  ASSUME Inv, NEW s \in Stops, StopWrite(s)
  PROVE  /\ row' \in [Ids -> Row \cup {NoRow}] /\ jobStatus' \in [Jobs -> JobStatus]
         /\ meddled' \subseteq Runs /\ OneRow' /\ RowsAt'
         /\ \A d \in Runs : CallOK(d)'
<1>1. PICK i \in Ids, r \in Runs, c \in Runs :
        /\ i = stop[s].seen.id /\ c = stop[s].seen.run
        /\ Writes(i, r, c) /\ ended[c]
        /\ UNCHANGED <<entry, call, ended, faults>>
  <2>1. StopOK(s) /\ stop[s].next = "write"
    BY DEF Inv, StopWrite
  <2> QED
    BY <2>1 DEF StopWrite, StopOK, Writes
<1>2. TypeOK /\ OneRow /\ RowsAt /\ row \in [Ids -> Row \cup {NoRow}]
  BY DEF Inv, TypeOK
<1>3. /\ row' \in [Ids -> Row \cup {NoRow}] /\ jobStatus' \in [Jobs -> JobStatus]
      /\ meddled \subseteq meddled' /\ meddled' \subseteq Runs
      /\ \A k \in Ids : /\ row'[k].by = row[k].by
                        /\ InTable(k)' <=> InTable(k)
                        /\ row'[k].status = "running" => row'[k] = row[k]
  BY <1>1, <1>2, RowWrites
<1>4. OneRow' /\ RowsAt'
  BY <1>1, <1>2, <1>3 DEF OneRow, RowsAt
<1>5. ASSUME NEW d \in Runs
      PROVE  CallOK(d)'
  <2>1. CallOK(d) /\ \A k \in Ids : row'[k] = RunningRow(d) => row[k] = RunningRow(d)
    BY <1>3 DEF Inv, RunningRow
  <2>2. CASE d = c
    BY <1>1, <2>1, <2>2 DEF CallOK, RunningRow
  <2>3. CASE d # c
    <3>1. ASSUME call[d].next \in {"enter", "check", "status", "exec"}, ~ended[d], d \notin meddled'
          PROVE  /\ row'[call[d].id] = row[call[d].id]
                 /\ jobStatus'[call[d].job] = jobStatus[call[d].job]
      <4>1. call[d].id \in Ids /\ row[call[d].id] = RunningRow(d) /\ Active(d)
        BY <1>3, <2>1, <3>1 DEF CallOK, Active, AtWork, RunSteps, GoSteps
      <4> QED
        BY <1>1, <1>2, <2>3, <3>1, <4>1, JobWrites
    <3> QED
      BY <1>1, <1>3, <2>1, <3>1 DEF CallOK, RunningRow
  <2> QED
    BY <2>2, <2>3
<1> QED
  BY <1>3, <1>4, <1>5

LEMMA StopKeepsInv ==
  ASSUME Inv, NEW s \in Stops, StopStep(s)
  PROVE  Inv'
<1>0. TypeOK /\ MapMatchesCalls /\ StopOK(s) /\ stop[s].seen \in Entry
  BY DEF Inv, TypeOK
<1>1. CASE \E j \in Jobs : StopRead(s, j)
  <2>1. PICK j \in Jobs : StopRead(s, j)
    BY <1>1
  <2>2. entry[j] \in Entry /\ entry[j].run \in Runs
    BY <1>0, <2>1 DEF StopRead, TypeOK, MapMatchesCalls
  <2>3. TypeOK'
    BY <1>0, <2>1, <2>2 DEF StopRead, Halt, TypeOK, tables
  <2>4. \A t \in Stops : StopOK(t)'
    BY <1>0, <2>1, <2>2 DEF StopRead, Halt, StopOK, TypeOK, Inv
  <2> QED
    BY <2>1, <2>3, <2>4, OnlyStopMoved DEF StopRead, Inv
<1>2. CASE StopCancel(s)
  <2>1. TypeOK'
    BY <1>0, <1>2 DEF StopCancel, Halt, End, TypeOK, tables
  <2>2. \A t \in Stops : StopOK(t)'
    BY <1>0, <1>2 DEF StopCancel, Halt, End, StopOK, TypeOK, Inv, Entry
  <2>3. \A d \in Runs : ended[d] => ended'[d]
    BY <1>0, <1>2 DEF StopCancel, End, TypeOK
  <2> QED
    BY <1>2, <2>1, <2>2, <2>3, OnlyStopMoved DEF StopCancel, Inv
<1>3. CASE StopMark(s)
  <2>1. stop[s].seen.id \in Ids /\ row[stop[s].seen.id] \in Row \cup {NoRow}
    BY <1>0, <1>3 DEF StopMark, StopOK, TypeOK
  <2>2. row[stop[s].seen.id].status = "running" => row[stop[s].seen.id].by \in Runs
    BY <2>1 DEF Row, NoRow
  <2>3. TypeOK'
    BY <1>0, <1>3, <2>2 DEF StopMark, Halt, TypeOK, tables
  <2>4. \A t \in Stops : StopOK(t)'
    BY <1>0, <1>3, <2>2 DEF StopMark, Halt, StopOK, TypeOK, Inv
  <2> QED
    BY <1>3, <2>3, <2>4, OnlyStopMoved DEF StopMark, Inv
<1>4. CASE StopWrite(s)
  <2>1. TypeOK'
    BY <1>0, <1>4, StopWriteKeeps DEF StopWrite, Halt, TypeOK
  <2>2. \A t \in Stops : StopOK(t)'
    BY <1>0, <1>4 DEF StopWrite, Halt, StopOK, TypeOK, Inv
  <2>3. MapMatchesCalls'
    BY <1>0, <1>4 DEF StopWrite, MapMatchesCalls, Active
  <2> QED
    BY <1>4, <2>1, <2>2, <2>3, StopWriteKeeps DEF Inv
<1>5. CASE StopMarkFails(s)
  <2>1. TypeOK'
    BY <1>0, <1>5 DEF StopMarkFails, Halt, TypeOK, tables
  <2>2. \A t \in Stops : StopOK(t)'
    BY <1>0, <1>5 DEF StopMarkFails, Halt, StopOK, TypeOK, Inv
  <2> QED
    BY <1>5, <2>1, <2>2, OnlyStopMoved DEF StopMarkFails, Inv
<1> QED
  BY <1>1, <1>2, <1>3, <1>4, <1>5 DEF StopStep

LEMMA OthersKeepInv ==
  ASSUME Inv, (\E c \in Runs : CallerEnds(c)) \/ (\E i \in Ids : DeleteRow(i))
  PROVE  Inv'
<1>1. ASSUME NEW c \in Runs, CallerEnds(c)
      PROVE  Inv'
  <2>1. TypeOK' /\ \A d \in Runs : ended[d] => ended'[d]
    BY <1>1 DEF CallerEnds, End, Inv, TypeOK, tables
  <2>2. \A s \in Stops : StopOK(s)'
    BY <1>1, <2>1 DEF CallerEnds, Inv, StopOK, TypeOK, Entry
  <2> QED
    BY <1>1, <2>1, <2>2, OnlyStopMoved DEF CallerEnds, Inv
<1>2. ASSUME NEW i \in Ids, DeleteRow(i)
      PROVE  Inv'
  <2>1. /\ row' = [row EXCEPT ![i] = NoRow]
        /\ row \in [Ids -> Row \cup {NoRow}] /\ InTable(i)
        /\ meddled' = IF row[i].status \in Finished THEN meddled ELSE meddled \cup {row[i].by}
        /\ UNCHANGED <<entry, call, ended, jobStatus, stop, faults>>
        /\ NoRun \notin Runs
    BY <1>2, JobServiceAssumption DEF DeleteRow, Inv, TypeOK
  <2>2. meddled \subseteq meddled' /\ TypeOK'
    BY <2>1 DEF Inv, TypeOK, Row, InTable
  <2>3. \A d \in Runs : CallOK(d)'
    <3>1. ASSUME NEW d \in Runs, NEW k \in Ids
          PROVE  /\ row'[k] = RunningRow(d) => row[k] = RunningRow(d)
                 /\ row[k] = RunningRow(d) /\ d \notin meddled' => row'[k] = RunningRow(d)
      BY <2>1 DEF RunningRow, NoRow, Finished
    <3> QED
      BY <2>1, <2>2, <3>1 DEF CallOK, Inv, AtWork, RunSteps, GoSteps
  <2>4. \A k \in Ids : InTable(k)' => InTable(k) /\ row'[k] = row[k]
    BY <2>1 DEF InTable
  <2>5. OneRow' /\ RowsAt'
    BY <2>1, <2>4 DEF OneRow, RowsAt, Inv
  <2> QED
    BY <2>1, <2>2, <2>3, <2>5 DEF Inv, MapMatchesCalls, StopOK, Active
<1> QED
  BY <1>1, <1>2

LEMMA StepInv == Inv /\ [Next]_vars => Inv'
<1> SUFFICES ASSUME Inv, [Next]_vars
             PROVE  Inv'
  OBVIOUS
<1>1. CASE UNCHANGED vars
  BY <1>1 DEF vars, Inv, TypeOK, MapMatchesCalls, OneRow, RowsAt, CallOK, StopOK, RunningRow, Active, InTable
<1>2. CASE Next
  BY <1>2, RunKeepsInv, StopKeepsInv, OthersKeepInv DEF Next, RunAction
<1> QED
  BY <1>1, <1>2

(***************************************************************************)
(* Results.                                                                *)
(***************************************************************************)
\* The inductive invariant: map, calls, rows and contexts fit together.
THEOREM JobServiceInvariant == Spec => []Inv
  BY InitInv, StepInv, PTL DEF Spec

\* Map, calls, rows and jobs keep their types.
THEOREM JobServiceTypeCorrect == Spec => []TypeOK
<1>1. Inv => TypeOK
  BY DEF Inv
<1> QED
  BY <1>1, JobServiceInvariant, PTL

\* The map has an entry for a job exactly as long as one call is at work for it.
THEOREM MapMatchesCallsHolds == Spec => []MapMatchesCalls
<1>1. Inv => MapMatchesCalls
  BY DEF Inv
<1> QED
  BY <1>1, JobServiceInvariant, PTL

\* An execution nobody has cancelled is shown as running in row, job and map,
\* unless a statement with the same id was meant for another row.
THEOREM ExecutionIsShownHolds == Spec => []ExecutionIsShown
<1>1. Inv => ExecutionIsShown
  BY DEF Inv, CallOK, RunningRow, ExecutionIsShown, At
<1> QED
  BY <1>1, JobServiceInvariant, PTL

\* Unless a statement failed, a goroutine never leaves its row running.
THEOREM ExecutedRunIsOverHolds == Spec => []ExecutedRunIsOver
<1>1. Inv => ExecutedRunIsOver
  BY DEF Inv, CallOK, RunningRow, ExecutedRunIsOver
<1> QED
  BY <1>1, JobServiceInvariant, PTL
(***************************************************************************)
(* A run ends once.  Complete and Fail write without looking at the row:   *)
(* what makes them harmless to the call's own row is how far it has come.  *)
(***************************************************************************)
Underway == {"enter", "check", "undo", "undoWrite", "status", "fail", "failStart",
             "exec", "complete", "ensure", "ensureWrite", "failRun", "failWrite"}

\* A call creates its row at "start" and until it has an outcome to write only
\* somebody else can have ended that row, by cancelling it; and where the start
\* is to be marked as failed, not before its context is done.
RowOK(c) ==
  /\ call[c].next \in {"off", "refused", "load", "start"} => \A i \in Ids : row[i].by # c
  /\ call[c].next \in Underway /\ c \notin meddled =>
       \A i \in Ids : row[i].by = c => row[i].status \in {"running", "cancelled"}
  /\ call[c].next \in {"fail", "failStart"} /\ ~ended[c] /\ c \notin meddled =>
       \A i \in Ids : row[i].by = c => row[i].status = "running"

RowsOK == \A c \in Runs : RowOK(c)

EndsOnce(i) ==
  row[i].status \in Finished =>
    \/ row'[i] \in {row[i], NoRow}
    \/ \E c \in Runs :
         /\ call[c].id = i /\ call[c].next \in {"complete", "failWrite", "failStart"}
         /\ c = row[i].by => \/ c \in meddled
                             \/ row[i].status = "cancelled" /\ call[c].next # "failStart"

\* A step that leaves the call of c alone, and its row unless it may be
\* cancelled, is deleted, or is noted.
LEMMA RowLeft ==
  ASSUME NEW c \in Runs, RowOK(c), call'[c] = call[c], ended[c] => ended'[c],
         meddled \subseteq meddled',
         \A i \in Ids : row'[i].by = c =>
           /\ row[i].by = c
           /\ \/ row'[i] = row[i]
              \/ row'[i].status = "cancelled" /\ ended[c]
              \/ c \in meddled'
  PROVE  RowOK(c)'
  BY DEF RowOK, Underway

\* The step of a call, seen from its own row.
LEMMA RunRow ==
  ASSUME Inv, NEW c \in Runs, RowOK(c), RunAction(c)
  PROVE  RowOK(c)'
<1>1. /\ TypeOK /\ CallOK(c) /\ call \in [Runs -> CallType] /\ call[c] \in CallType
      /\ call' \in [Runs -> CallType] /\ row \in [Ids -> Row \cup {NoRow}]
      /\ NoRun \notin Runs
  BY RunMoves, JobServiceAssumption DEF Inv, TypeOK, CallType
<1>2. \A n : Go(c, n) \/ Read(c, n) => call'[c].next = n
  BY <1>1 DEF Go, Read, CallType
<1>3. CASE Start(c)
  <2>1. PICK i \in Ids : /\ row' = [row EXCEPT ![i] = RunningRow(c)]
                         /\ call' = [call EXCEPT ![c].next = "enter", ![c].id = i]
    BY <1>3 DEF Start, RunningRow
  <2>2. \A k \in Ids : row[k].by # c
    BY <1>3 DEF Start, At, RowOK
  <2>3. \A k \in Ids : row'[k].by = c => row'[k] = RunningRow(c)
    BY <1>1, <2>1, <2>2
  <2>4. call'[c].next = "enter"
    BY <1>1, <2>1 DEF CallType
  <2> QED
    BY <2>3, <2>4 DEF RowOK, RunningRow
<1>4. CASE Register(c) \/ Refuse(c) \/ LoadFails(c) \/ Load(c) \/ StartFails(c) \/ Leave(c)
  <2>1. /\ row' = row
        /\ \/ call'[c].next \in {"leave", "returned"}
           \/ call[c].next \in {"off", "load"} /\ call'[c].next \in {"load", "start", "refused"}
    BY <1>2, <1>4 DEF Register, Refuse, LoadFails, Load, StartFails, Leave, At, tables
  <2> QED
    BY <2>1 DEF RowOK, Underway
<1>5. CASE \/ Enter(c) \/ Check(c) \/ Undo(c) \/ MarkRunning(c) \/ FailStart(c)
           \/ ExecOK(c) \/ ExecFails(c) \/ Ensure(c) \/ FailRun(c)
  <2>1. /\ row' = row /\ meddled' = meddled /\ ended' = ended
        /\ call[c].next \in Underway
        /\ call'[c].next \notin {"off", "refused", "load", "start", "fail"}
        /\ call'[c].next = "failStart" => call[c].next = "fail"
    BY <1>2, <1>5
    DEF Enter, Check, Undo, MarkRunning, FailStart, ExecOK, ExecFails, Ensure, FailRun, At, tables, Underway
  <2> QED
    BY <2>1 DEF RowOK
<1>6. CASE MarkFails(c)
  <2>1. /\ row' = row /\ meddled' = meddled /\ ended' = ended
        /\ call[c].next = "status" /\ call'[c].next = "fail"
    BY <1>2, <1>6 DEF MarkFails, At, tables
  <2>2. ~ended[c] /\ c \notin meddled => row[call[c].id] = RunningRow(c)
    BY <1>1, <2>1 DEF CallOK
  <2>3. \A i \in Ids : row[i].by = c => i = call[c].id
    BY OwnRow
  <2> QED
    BY <2>1, <2>2, <2>3 DEF RowOK, RunningRow, Underway
<1>7. CASE \/ UndoWrite(c) \/ FailStartWrite(c) \/ WriteComplete(c) \/ EnsureWrite(c)
           \/ FailWrite(c) \/ WriteJobError(c) \/ Cleanup(c)
  <2>1. call'[c].next \in {"leave", "cleanup", "jobError", "over"}
    BY <1>2, <1>7
    DEF UndoWrite, FailStartWrite, WriteComplete, EnsureWrite, FailWrite, WriteJobError, Cleanup
  <2> QED
    BY <2>1 DEF RowOK, Underway
<1> QED
  BY <1>3, <1>4, <1>5, <1>6, <1>7 DEF RunAction, RunStep, Return, GoStep

\* The step of a call, seen from every row.
LEMMA RunEnds ==
  ASSUME Inv, RowsOK, NEW c \in Runs, RunAction(c), NEW i \in Ids
  PROVE  EndsOnce(i)
<1>1. TypeOK /\ RowOK(c) /\ row \in [Ids -> Row \cup {NoRow}]
  BY DEF Inv, TypeOK, RowsOK
<1>2. CASE row'[i] = row[i]
  BY <1>2 DEF EndsOnce
<1>3. CASE Start(c)
  <2>1. ~InTable(i)
    BY <1>3 DEF Start, KeyTaken
  <2> QED
    BY <2>1 DEF EndsOnce, InTable, NoRow, Finished
<1>4. CASE UndoWrite(c) \/ EnsureWrite(c)
  <2>1. Cancel(call[c].id, call[c].read, c) \/ UNCHANGED tables
    BY <1>4 DEF UndoWrite, EnsureWrite
  <2>2. row[i].status = "running" \/ row'[i] = row[i]
    BY <1>1, <2>1 DEF Cancel, tables
  <2> QED
    BY <1>2, <2>2 DEF EndsOnce, Finished
<1>5. ASSUME WriteComplete(c) \/ FailWrite(c) \/ FailStartWrite(c), row'[i] # row[i]
      PROVE  EndsOnce(i)
  <2>1. call[c].next \in {"complete", "failWrite", "failStart"}
    BY <1>5 DEF WriteComplete, FailWrite, FailStartWrite, At
  <2>2. call[c].id = i
    BY <1>1, <1>5 DEF WriteComplete, FailWrite, FailStartWrite, Complete, Fail, tables
  <2>3. call[c].next = "failStart" => ~ended[c]
    BY <1>5 DEF WriteComplete, FailWrite, FailStartWrite, DbFails, At, tables
  <2>4. ASSUME row[i].status \in Finished, c = row[i].by, c \notin meddled
        PROVE  row[i].status = "cancelled" /\ call[c].next # "failStart"
    BY <1>1, <2>1, <2>3, <2>4 DEF RowOK, Underway, Finished
  <2> QED
    BY <2>1, <2>2, <2>4 DEF EndsOnce
<1>6. CASE \/ Register(c) \/ Refuse(c) \/ LoadFails(c) \/ Load(c) \/ StartFails(c) \/ Enter(c) \/ Check(c)
           \/ Undo(c) \/ MarkRunning(c) \/ MarkFails(c) \/ FailStart(c) \/ Leave(c) \/ Return(c)
           \/ Ensure(c) \/ FailRun(c) \/ WriteJobError(c) \/ Cleanup(c)
  <2>1. row' = row
    BY <1>6 DEF Register, Refuse, LoadFails, Load, StartFails, Enter, Check, Undo, MarkRunning, MarkFails,
                FailStart, Leave, Return, ExecOK, ExecFails, Ensure, FailRun, WriteJobError, Cleanup, tables
  <2> QED
    BY <1>2, <2>1
<1> QED
  BY <1>2, <1>3, <1>4, <1>5, <1>6 DEF RunAction, RunStep, GoStep

LEMMA RowsStep ==
  ASSUME Inv, RowsOK, [Next]_vars
  PROVE  RowsOK' /\ \A i \in Ids : EndsOnce(i)
<1>1. TypeOK /\ NoRun \notin Runs /\ row \in [Ids -> Row \cup {NoRow}]
  BY JobServiceAssumption DEF Inv, TypeOK
<1>2. CASE UNCHANGED vars
  BY <1>2 DEF vars, RowsOK, RowOK, EndsOnce
<1>3. ASSUME NEW c \in Runs, RunAction(c)
      PROVE  RowsOK' /\ \A i \in Ids : EndsOnce(i)
  <2>1. ASSUME NEW d \in Runs \ {c}
        PROVE  RowOK(d)'
    <3>1. RowOK(d) /\ call'[d] = call[d] /\ (ended[d] => ended'[d]) /\ meddled \subseteq meddled'
      BY <1>3, RunMoves, RunTypes, RunTables DEF RowsOK
    <3>2. \A i \in Ids : row'[i].by = d => row[i].by = d /\ (row'[i] = row[i] \/ d \in meddled')
      BY <1>3, RunTables
    <3> QED
      BY <3>1, <3>2, RowLeft
  <2>2. RowOK(c)'
    BY <1>3, RunRow DEF RowsOK
  <2> QED
    BY <1>3, <2>1, <2>2, RunEnds DEF RowsOK
<1>4. ASSUME NEW c \in Runs, CallerEnds(c)
      PROVE  RowsOK' /\ \A i \in Ids : EndsOnce(i)
  <2>1. row' = row /\ meddled' = meddled /\ call' = call /\ \A d \in Runs : ended[d] => ended'[d]
    BY <1>1, <1>4 DEF CallerEnds, End, TypeOK, tables
  <2> QED
    BY <2>1 DEF RowsOK, RowOK, EndsOnce
<1>5. ASSUME NEW k \in Ids, DeleteRow(k)
      PROVE  RowsOK' /\ \A i \in Ids : EndsOnce(i)
  <2>1. \A i \in Ids : row'[i] = row[i] \/ row'[i] = NoRow
    BY <1>1, <1>5 DEF DeleteRow
  <2>2. call' = call /\ ended' = ended /\ meddled \subseteq meddled'
    BY <1>5 DEF DeleteRow
  <2>3. \A d \in Runs, i \in Ids : row'[i].by = d => row'[i] = row[i]
    BY <1>1, <2>1 DEF NoRow
  <2>4. ASSUME NEW d \in Runs
        PROVE  RowOK(d)'
    BY <2>2, <2>3, RowLeft DEF RowsOK
  <2> QED
    BY <2>1, <2>4 DEF RowsOK, EndsOnce
<1>6. ASSUME NEW s \in Stops, StopStep(s)
      PROVE  RowsOK' /\ \A i \in Ids : EndsOnce(i)
  <2>1. CASE StopWrite(s)
    <3>1. PICK k \in Ids, r \in Runs, c \in Runs :
            Cancel(k, r, c) /\ ended[c] /\ UNCHANGED <<call, ended>>
      <4>1. StopOK(s) /\ stop[s].next = "write"
        BY <2>1 DEF Inv, StopWrite
      <4> QED
        BY <2>1, <4>1 DEF StopWrite, StopOK
    <3>2. \A i \in Ids : \/ row'[i] = row[i]
                         \/ row[i].status = "running" /\ row'[i].status = "cancelled"
      BY <1>1, <3>1 DEF Cancel, tables, Row, NoRow
    <3>3. /\ meddled \subseteq meddled'
          /\ \A i \in Ids : /\ row'[i].by = row[i].by
                            /\ row'[i] = row[i] \/ row[i].by = c \/ row[i].by \in meddled'
      BY <1>1, <3>1, RowWrites DEF Writes
    <3>4. ASSUME NEW d \in Runs
          PROVE  RowOK(d)'
      BY <3>1, <3>2, <3>3, RowLeft DEF RowsOK
    <3> QED
      BY <3>2, <3>4 DEF RowsOK, EndsOnce, Finished
  <2>2. CASE StopCancel(s) \/ StopMark(s) \/ StopMarkFails(s) \/ \E j \in Jobs : StopRead(s, j)
    <3>1. row' = row /\ meddled' = meddled /\ call' = call /\ \A d \in Runs : ended[d] => ended'[d]
      BY <1>1, <2>2 DEF StopCancel, StopMark, StopMarkFails, StopRead, End, TypeOK, tables
    <3> QED
      BY <3>1 DEF RowsOK, RowOK, EndsOnce
  <2> QED
    BY <1>6, <2>1, <2>2 DEF StopStep
<1> QED
  BY <1>2, <1>3, <1>4, <1>5, <1>6 DEF Next, RunAction

\* No late Stop, undo or defensive Cancel changes what the table says of a finished
\* run, and of the writes that do not look at the status the run's own replaces
\* nothing but a cancellation.
THEOREM FinishedIsFinalHolds == Spec => FinishedIsFinal
<1>1. Init => RowsOK
  BY JobServiceAssumption DEF Init, RowsOK, RowOK, NoRow, Underway
<1>2. Inv /\ RowsOK /\ [Next]_vars => RowsOK'
  BY RowsStep
<1>3. Inv /\ RowsOK /\ [Next]_vars => [\A i \in Ids : EndsOnce(i)]_vars
  BY RowsStep
<1> QED
  BY <1>1, <1>2, <1>3, JobServiceInvariant, PTL DEF Spec, FinishedIsFinal, EndsOnce
===============================================================================
