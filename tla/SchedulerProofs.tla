---------------------------- MODULE SchedulerProofs ----------------------------
(***************************************************************************)
(* Proofs about the scheduler, for every number of jobs, requests, entries *)
(* and cron specifications:                                                *)
(*                                                                         *)
(*   1. map and engine hold the same entries, whatever overlaps (THEOREM   *)
(*      EngineMatchesEntriesHolds);                                        *)
(*   2. a restart brings them in line with the rows (THEOREM               *)
(*      RestartRepairsHolds);                                              *)
(*   3. so does every request, unless requests about one job have          *)
(*      overlapped since (THEOREM EntriesAgreeHolds).                      *)
(***************************************************************************)
EXTENDS Scheduler, TLAPS

USE SchedulerAssumption

\* Ids in the map were given by the engine, no two jobs have the same, and only
\* rules the engine takes are in it.
EntriesOK ==
  /\ \A j \in JobIds : entries[j].id <= lastEntry
  /\ \A j \in JobIds : entries[j].spec \in FiveField \cup {NoSpec}
  /\ \A j, k \in JobIds : j # k /\ entries[j] # NoEntry => entries[j].id # entries[k].id

\* A handler at work is about a job.
RequestsOK ==
  \A r \in Reqs : IF req[r].next = "none" THEN req[r] = NoReq ELSE req[r].job \in JobIds

LEMMA Values ==
  /\ NoRow \in JobRow /\ NoEntry \in CronEntry /\ NoLoad \in LoadState /\ NoReq \in ReqState
  /\ \A e \in CronEntry : e = NoEntry <=> e.id = 0
  /\ \A e \in CronEntry : e = NoEntry <=> e.spec = NoSpec
  /\ Accepted = Specs
  BY DEF NoRow, NoEntry, NoLoad, NoReq, JobRow, CronEntry, LoadState, ReqState, EntryIds,
         JobIds, Specs, Accepted

\* The engine, entry by entry.
LEMMA EngineEntries ==
  EngineMatchesEntries <=>
    /\ \A e \in engine : \E j \in JobIds :
         entries[j] # NoEntry /\ e = [id |-> entries[j].id, job |-> j, spec |-> entries[j].spec]
    /\ \A j \in JobIds : entries[j] # NoEntry =>
         [id |-> entries[j].id, job |-> j, spec |-> entries[j].spec] \in engine
  BY DEF EngineMatchesEntries

(***************************************************************************)
(* What the operations on map and engine do.                               *)
(***************************************************************************)
MapOK ==
  /\ entries \in [JobIds -> CronEntry]
  /\ engine \subseteq [id: EntryIds, job: JobIds, spec: Specs \ {NoSpec}]
  /\ lastEntry \in 0..MaxEntries
  /\ EngineMatchesEntries /\ EntriesOK

LEMMA RemoveKeeps ==
  ASSUME MapOK, NEW j \in JobIds, RemoveEntry(j)
  PROVE  /\ MapOK'
         /\ entries' = [entries EXCEPT ![j] = NoEntry]
<1> DEFINE Entry(k) == [id |-> entries[k].id, job |-> k, spec |-> entries[k].spec]
<1>1. entries' \in [JobIds -> CronEntry] /\ EntriesOK'
  BY Values DEF MapOK, RemoveEntry, EntriesOK, NoEntry
<1>2. ASSUME NEW e \in engine'
      PROVE  \E k \in JobIds : entries'[k] # NoEntry
               /\ e = [id |-> entries'[k].id, job |-> k, spec |-> entries'[k].spec]
  <2>1. PICK k \in JobIds : entries[k] # NoEntry /\ e = Entry(k)
    BY <1>2, EngineEntries DEF MapOK, RemoveEntry
  <2>2. k # j
    BY <1>2, <2>1 DEF RemoveEntry
  <2> QED
    BY <2>1, <2>2 DEF MapOK, RemoveEntry
<1>3. ASSUME NEW k \in JobIds, entries'[k] # NoEntry
      PROVE  [id |-> entries'[k].id, job |-> k, spec |-> entries'[k].spec] \in engine'
  <2>1. k # j /\ entries'[k] = entries[k]
    BY <1>3 DEF MapOK, RemoveEntry
  <2>2. Entry(k) \in engine /\ Entry(k).id # entries[j].id
    BY <1>3, <2>1, EngineEntries DEF MapOK, EntriesOK
  <2> QED
    BY <2>1, <2>2 DEF RemoveEntry
<1>4. EngineMatchesEntries'
  BY <1>2, <1>3 DEF EngineMatchesEntries
<1> QED
  BY <1>1, <1>4 DEF MapOK, RemoveEntry

LEMMA AddKeeps ==
  ASSUME MapOK, NEW j \in JobIds, NEW spec \in FiveField, AddEntry(j, spec)
  PROVE  /\ MapOK'
         /\ entries' = [entries EXCEPT ![j] = [id |-> lastEntry + 1, spec |-> spec]]
<1> DEFINE Entry(k) == [id |-> entries[k].id, job |-> k, spec |-> entries[k].spec]
           new == [id |-> lastEntry + 1, spec |-> spec]
<1>0. lastEntry + 1 \in EntryIds /\ spec \in Specs \ {NoSpec}
  BY DEF MapOK, AddEntry, EntryIds, Specs
<1>1. new \in CronEntry /\ new # NoEntry
  BY <1>0 DEF CronEntry, NoEntry, EntryIds
<1>2. entries' \in [JobIds -> CronEntry] /\ entries'[j] = new
  BY <1>1 DEF MapOK, AddEntry
<1>3. \A k \in JobIds : k # j => entries'[k] = entries[k]
  BY DEF MapOK, AddEntry
<1>4. \A k \in JobIds : entries[k].id \in Nat /\ entries[k].id <= lastEntry
  BY DEF MapOK, EntriesOK, CronEntry, NoEntry, EntryIds
<1>5. EntriesOK'
  BY <1>2, <1>3, <1>4 DEF MapOK, EntriesOK, AddEntry
<1>6. ASSUME NEW e \in engine'
      PROVE  \E k \in JobIds : entries'[k] # NoEntry
               /\ e = [id |-> entries'[k].id, job |-> k, spec |-> entries'[k].spec]
  <2>1. CASE e = [id |-> lastEntry + 1, job |-> j, spec |-> spec]
    BY <2>1, <1>1, <1>2
  <2>2. CASE e \in engine /\ e.id # entries[j].id
    <3>1. PICK k \in JobIds : entries[k] # NoEntry /\ e = Entry(k)
      BY <2>2, EngineEntries DEF MapOK
    <3>2. k # j
      BY <2>2, <3>1
    <3> QED
      BY <3>1, <3>2, <1>3
  <2> QED
    BY <1>6, <2>1, <2>2 DEF AddEntry
<1>7. ASSUME NEW k \in JobIds, entries'[k] # NoEntry
      PROVE  [id |-> entries'[k].id, job |-> k, spec |-> entries'[k].spec] \in engine'
  <2>1. CASE k = j
    BY <2>1, <1>2 DEF AddEntry
  <2>2. CASE k # j
    <3>1. Entry(k) \in engine /\ Entry(k).id # entries[j].id
      BY <1>7, <2>2, <1>3, EngineEntries DEF MapOK, EntriesOK
    <3> QED
      BY <3>1, <2>2, <1>3 DEF AddEntry
  <2> QED
    BY <2>1, <2>2
<1>8. EngineMatchesEntries'
  BY <1>6, <1>7 DEF EngineMatchesEntries
<1>9. engine' \subseteq [id: EntryIds, job: JobIds, spec: Specs \ {NoSpec}]
  BY <1>0 DEF MapOK, AddEntry
<1>10. lastEntry' \in 0..MaxEntries
  BY DEF MapOK, AddEntry
<1> QED
  BY <1>2, <1>5, <1>8, <1>9, <1>10 DEF MapOK, AddEntry

\* Registering a row leaves its job with what the row asks for, and touches no
\* other job's entry.
LEMMA RegisterEffect ==
  ASSUME MapOK, NEW j \in JobIds, NEW row \in JobRow, Register(j, row)
  PROVE  /\ MapOK'
         /\ \A k \in JobIds : k # j => entries'[k] = entries[k]
         /\ row.exists => entries'[j].spec = Wanted(row)
<1>1. entries[j] \in CronEntry /\ entries[j].spec \in FiveField \cup {NoSpec}
  BY DEF MapOK, EntriesOK
<1>2. CASE row.enabled /\ row.cron # NoSpec /\ entries[j].spec = row.cron /\ UNCHANGED entryVars
  <2>1. MapOK'
    BY <1>2 DEF MapOK, entryVars, EngineMatchesEntries, EntriesOK
  <2> QED
    BY <2>1, <1>1, <1>2 DEF Wanted, entryVars
<1>3. CASE /\ ~(row.enabled /\ row.cron # NoSpec)
                \/ (entries[j].spec # row.cron /\ row.cron \notin FiveField)
           /\ RemoveEntry(j)
  <2>1. MapOK' /\ entries' = [entries EXCEPT ![j] = NoEntry]
    BY <1>3, RemoveKeeps
  <2>2. entries'[j].spec = NoSpec
    BY <2>1 DEF MapOK, NoEntry
  <2> QED
    BY <2>1, <2>2, <1>3 DEF MapOK, Wanted
<1>4. CASE /\ row.enabled /\ row.cron # NoSpec /\ row.cron \in FiveField
           /\ AddEntry(j, row.cron)
  <2>1. MapOK' /\ entries' = [entries EXCEPT ![j] = [id |-> lastEntry + 1, spec |-> row.cron]]
    BY <1>4, AddKeeps
  <2> QED
    BY <2>1, <1>4 DEF MapOK, Wanted
<1> QED
  BY <1>2, <1>3, <1>4 DEF Register

\* An empty map.
LEMMA EmptyKeeps ==
  ASSUME entries' = [j \in JobIds |-> NoEntry], engine' = {}, lastEntry' \in 0..MaxEntries
  PROVE  MapOK'
  BY Values DEF MapOK, EngineMatchesEntries, EntriesOK, NoEntry

LEMMA ClearKeeps ==
  ASSUME MapOK, ReloadBegin
  PROVE  MapOK'
<1>1. \A e \in engine : \E j \in JobIds : e.id = entries[j].id
  BY EngineEntries DEF MapOK
<1>2. engine' = {}
  BY <1>1 DEF ReloadBegin
<1> QED
  BY <1>2, EmptyKeeps DEF ReloadBegin, MapOK

LEMMA MapSame ==
  ASSUME MapOK, UNCHANGED entryVars
  PROVE  MapOK'
  BY DEF MapOK, entryVars, EngineMatchesEntries, EntriesOK

(***************************************************************************)
(* The first invariant.                                                    *)
(***************************************************************************)
RestOK ==
  /\ rows \in [JobIds -> JobRow]
  /\ server \in {"down", "starting", "up", "draining"}
  /\ load \in LoadState /\ req \in [Reqs -> ReqState] /\ reloadFailed \in BOOLEAN
  /\ RequestsOK

TableInv == MapOK /\ RestOK

LEMMA TablePartsNext ==
  ASSUME MapOK', RestOK'
  PROVE  TableInv'
  BY DEF TableInv

LEMMA TableInit == SchedInit => TableInv
<1> SUFFICES ASSUME SchedInit PROVE MapOK /\ RestOK
  BY DEF TableInv
<1>1. MapOK
  <2>1. entries \in [JobIds -> CronEntry] /\ \A j \in JobIds : entries[j] = NoEntry
    BY Values DEF SchedInit
  <2>2. engine = {} /\ lastEntry = 0
    BY DEF SchedInit
  <2>3. EngineMatchesEntries
    BY <2>1, <2>2 DEF EngineMatchesEntries
  <2> QED
    BY <2>1, <2>2, <2>3 DEF MapOK, EntriesOK, NoEntry
<1>2. RestOK
  <2>1. req \in [Reqs -> ReqState] /\ \A r \in Reqs : req[r] = NoReq
    BY Values DEF SchedInit
  <2>2. RequestsOK
    BY <2>1 DEF RequestsOK, NoReq
  <2>3. rows \in [JobIds -> JobRow] /\ load \in LoadState
    BY Values DEF SchedInit
  <2>4. server \in {"down", "starting", "up", "draining"}
    BY DEF SchedInit
  <2>5. reloadFailed \in BOOLEAN
    BY DEF SchedInit
  <2> QED
    BY <2>1, <2>2, <2>3, <2>4, <2>5 DEF RestOK
<1> QED
  BY <1>1, <1>2

LEMMA BecomeType ==
  ASSUME RestOK, NEW r \in Reqs,
         NEW next \in {"save", "enable", "disable", "upsert", "remove"},
         NEW j \in JobIds, NEW row \in JobRow,
         Become(r, next, j, row)
  PROVE  req' \in [Reqs -> ReqState] /\ RequestsOK'
  BY DEF RestOK, Become, ReqState, RequestsOK

LEMMA DoneType ==
  ASSUME RestOK, NEW r \in Reqs, Done(r)
  PROVE  req' \in [Reqs -> ReqState] /\ RequestsOK'
  BY Values DEF RestOK, Done, RequestsOK, NoReq

LEMMA HandlerTable ==
  ASSUME TableInv, NEW r \in Reqs, Handler(r)
  PROVE  TableInv'
<1>0. MapOK /\ RestOK
  BY DEF TableInv
<1>r. req[r] \in ReqState
  BY <1>0 DEF RestOK
<1>1. ASSUME NEW j \in JobIds, NEW cron \in Accepted,
             CreateRow(r, j, cron)
      PROVE  TableInv'
  <2> DEFINE row == [exists |-> TRUE, enabled |-> TRUE, cron |-> cron]
  <2>1. row \in JobRow
    BY Values DEF JobRow
  <2>2. Become(r, "upsert", j, row) /\ rows' = [rows EXCEPT ![j] = row]
    BY <1>1 DEF CreateRow, SetRow
  <2> HIDE DEF row
  <2>3. req' \in [Reqs -> ReqState] /\ RequestsOK'
    BY <2>1, <2>2, <1>0, BecomeType
  <2>4. RestOK'
    BY <2>1, <2>2, <2>3, <1>0, <1>1 DEF RestOK, CreateRow, procVars, JobIds
  <2> QED
    BY <2>4, <1>0, <1>1, MapSame, TablePartsNext DEF CreateRow
<1>2. ASSUME NEW j \in JobIds, UpdateLoad(r, j) \/ EnableLoad(r, j) \/ DisableLoad(r, j)
      PROVE  TableInv'
  <2>1. PICK op \in SchedOps, next \in {"save", "enable", "disable"}, kept \in {NoRow, rows[j]} :
          ReadRow(r, j, op, next, kept)
    BY <1>2 DEF UpdateLoad, EnableLoad, DisableLoad, SchedOps
  <2>2. kept \in JobRow
    BY <1>0, Values DEF RestOK
  <2>3. req' \in [Reqs -> ReqState] /\ RequestsOK'
    BY <2>1, <2>2, <1>0, BecomeType DEF ReadRow
  <2> QED
    BY <2>1, <2>3, <1>0, MapSame, TablePartsNext DEF ReadRow, RestOK, procVars
<1>3. ASSUME NEW j \in JobIds, DeleteRow(r, j)
      PROVE  TableInv'
  <2>1. req' \in [Reqs -> ReqState] /\ RequestsOK'
    BY <1>3, <1>0, Values, BecomeType DEF DeleteRow
  <2> QED
    BY <2>1, <1>0, <1>3, Values, MapSame, TablePartsNext DEF DeleteRow, SetRow, RestOK, procVars
<1>4. ASSUME NEW enabled \in BOOLEAN, NEW cron \in Accepted, UpdateSave(r, enabled, cron)
      PROVE  TableInv'
  <2> DEFINE row == [exists |-> TRUE, cron |-> cron,
                     enabled |-> enabled \/ ~rows[req[r].job].exists]
  <2>1. row \in JobRow /\ req[r].job \in JobIds
    BY <1>4, <1>0, Values DEF JobRow, UpdateSave, At, RestOK, RequestsOK
  <2>2. Become(r, "upsert", req[r].job, row) /\ SetRow(req[r].job, row)
    BY <1>4 DEF UpdateSave
  <2> HIDE DEF row
  <2>3. req' \in [Reqs -> ReqState] /\ RequestsOK'
    BY <2>1, <2>2, <1>0, BecomeType
  <2> QED
    BY <2>1, <2>2, <2>3, <1>0, <1>4, MapSame, TablePartsNext DEF UpdateSave, SetRow, RestOK, procVars
<1>5. ASSUME NEW en \in BOOLEAN, NEW next \in {"upsert", "remove"}, NEW row \in JobRow,
             req[r].job \in JobIds,
             SetEnabled(req[r].job, en), Become(r, next, req[r].job, row),
             UNCHANGED <<entryVars, procVars>>
      PROVE  TableInv'
  <2>1. req' \in [Reqs -> ReqState] /\ RequestsOK'
    BY <1>5, <1>0, BecomeType
  <2>2. rows' \in [JobIds -> JobRow]
    BY <1>5, <1>0 DEF SetEnabled, SetRow, RestOK, JobRow
  <2> QED
    BY <2>1, <2>2, <1>5, <1>0, MapSame, TablePartsNext DEF RestOK, procVars
<1>6. CASE EnableWrite(r)
  <2>1. req[r].job \in JobIds /\ [req[r].row EXCEPT !.enabled = TRUE] \in JobRow
    BY <1>6, <1>0, <1>r DEF EnableWrite, At, RestOK, RequestsOK, ReqState, JobRow
  <2> QED
    BY <2>1, <1>5, <1>6 DEF EnableWrite
<1>7. CASE DisableWrite(r)
  <2>1. req[r].job \in JobIds /\ NoRow \in JobRow
    BY <1>7, <1>0, Values DEF DisableWrite, At, RestOK, RequestsOK
  <2> QED
    BY <2>1, <1>5, <1>7 DEF DisableWrite
<1>8. CASE Upsert(r)
  <2>1. req[r].job \in JobIds /\ req[r].row \in JobRow
    BY <1>8, <1>0, <1>r DEF Upsert, At, RestOK, RequestsOK, ReqState
  <2>2. MapOK'
    BY <2>1, <1>8, <1>0, RegisterEffect DEF Upsert
  <2> QED
    BY <2>2, <1>8, <1>0, DoneType, TablePartsNext DEF Upsert, RestOK, procVars
<1>9. CASE Remove(r)
  <2>1. req[r].job \in JobIds
    BY <1>9, <1>0 DEF Remove, At, RestOK, RequestsOK
  <2>2. MapOK'
    BY <2>1, <1>9, <1>0, RemoveKeeps DEF Remove
  <2> QED
    BY <2>2, <1>9, <1>0, DoneType, TablePartsNext DEF Remove, RestOK, procVars
<1>10. CASE Refused(r) \/ GiveUp(r)
  BY <1>10, <1>0, DoneType, MapSame, TablePartsNext DEF Refused, GiveUp, RestOK, procVars
<1> QED
  BY <1>1, <1>2, <1>3, <1>4, <1>6, <1>7, <1>8, <1>9, <1>10 DEF Handler

LEMMA TableStep == TableInv /\ [SchedNext]_schedVars => TableInv'
<1> SUFFICES ASSUME TableInv, [SchedNext]_schedVars PROVE TableInv'
  OBVIOUS
<1>0. MapOK /\ RestOK
  BY DEF TableInv
<1>1. CASE StartScheduler \/ ListFails \/ LoadDone \/ StopScheduler
  <2>1. load' \in LoadState /\ UNCHANGED <<rows, entryVars, req>>
    BY <1>1, <1>0, Values DEF StartScheduler, ListFails, LoadDone, StopScheduler, NoLoad,
                              LoadState, RestOK
  <2>2. server' \in {"down", "starting", "up", "draining"} /\ reloadFailed' \in BOOLEAN
    BY <1>1, <1>0 DEF StartScheduler, ListFails, LoadDone, StopScheduler, RestOK
  <2> QED
    BY <2>1, <2>2, <1>0, MapSame, TablePartsNext DEF RestOK, RequestsOK
<1>2. CASE ReloadBegin
  <2>1. load' \in LoadState
    BY <1>2, <1>0 DEF ReloadBegin, LoadState, RestOK
  <2> QED
    BY <2>1, <1>2, <1>0, ClearKeeps, TablePartsNext DEF ReloadBegin, RestOK, RequestsOK
<1>3. CASE ListEnabledJobs
  <2>1. load' \in LoadState
    BY <1>3, <1>0, Values DEF ListEnabledJobs, LoadState, RestOK
  <2> QED
    BY <2>1, <1>3, <1>0, MapSame, TablePartsNext DEF ListEnabledJobs, RestOK, RequestsOK
<1>4. ASSUME NEW j \in JobIds, RegisterNext(j)
      PROVE  TableInv'
  <2>1. load.rows[j] \in JobRow /\ load' \in LoadState
    BY <1>4, <1>0 DEF RegisterNext, LoadState, RestOK
  <2>2. MapOK'
    BY <2>1, <1>4, <1>0, RegisterEffect DEF RegisterNext
  <2> QED
    BY <2>1, <2>2, <1>4, <1>0, TablePartsNext DEF RegisterNext, RestOK, RequestsOK
<1>5. CASE ProcessEnds
  <2>1. MapOK'
    BY <1>5, EmptyKeeps DEF ProcessEnds
  <2> QED
    BY <2>1, <1>5, <1>0, Values, TablePartsNext DEF ProcessEnds, RestOK, RequestsOK, NoReq
<1>6. ASSUME NEW r \in Reqs, Handler(r)
      PROVE  TableInv'
  BY <1>6, HandlerTable
<1>7. CASE UNCHANGED schedVars
  BY <1>7, <1>0, MapSame, TablePartsNext DEF schedVars, procVars, RestOK, RequestsOK
<1> QED
  BY <1>1, <1>2, <1>3, <1>4, <1>5, <1>6, <1>7 DEF SchedNext, SchedStep

\* The first invariant holds in every reachable state.
THEOREM TableInvariant == SchedSpec => []TableInv
  BY TableInit, TableStep, PTL DEF SchedSpec

\* Type correctness of Scheduler.
THEOREM SchedTypeCorrect == SchedSpec => []SchedTypeOK
<1> DEFINE Flag == overlapped \in BOOLEAN
<1>1. SchedInit => Flag
  BY DEF SchedInit
<1>2. Flag /\ [SchedNext]_schedVars => Flag'
  BY DEF SchedNext, Remember, schedVars
<1>3. TableInv /\ Flag => SchedTypeOK
  BY DEF TableInv, MapOK, RestOK, SchedTypeOK
<1> HIDE DEF Flag
<1> QED
  BY <1>1, <1>2, <1>3, TableInvariant, PTL DEF SchedSpec

\* Map and engine agree whatever requests, reloads, crashes and errors overlap:
\* no job is fired twice or by an entry that cannot be removed any more.
THEOREM EngineMatchesEntriesHolds == SchedSpec => []EngineMatchesEntries
<1>1. TableInv => EngineMatchesEntries
  BY DEF TableInv, MapOK
<1> QED
  BY <1>1, TableInvariant, PTL

-------------------------------------------------------------------------------
(***************************************************************************)
(* The second invariant: rows and entries.                                 *)
(***************************************************************************)
Alone == \A r \in Reqs : req[r] = NoReq

\* A listed job is as it was listed; any other has the entry it should have.
Loaded(j) ==
  IF j \in load.left THEN load.rows[j] = rows[j] /\ rows[j].exists
                     ELSE entries[j].spec = Wanted(rows[j])

\* During a start, and unless something overlapped during a Reload, nobody else is
\* there.
LoadOK ==
  /\ server = "down" =>
       load.phase = "none" /\ Alone /\ \A j \in JobIds : entries[j] = NoEntry
  /\ server = "starting" => load.phase # "none"
  /\ server = "starting" \/ (~overlapped /\ load.phase # "none") =>
       /\ Alone
       /\ load.phase = "list" => \A j \in JobIds : entries[j] = NoEntry
       /\ load.phase = "register" => \A j \in JobIds : Loaded(j)

\* What a handler goes on with is what the row says.
RequestOK(r) ==
  /\ req[r].next \in {"upsert", "enable"} =>
       req[r].row = rows[req[r].job] /\ req[r].row.exists
  /\ req[r].next = "remove" => Wanted(rows[req[r].job]) = NoSpec

SerialOK ==
  ~overlapped =>
    /\ \A r \in Reqs : RequestOK(r)
    /\ \A q, r \in Reqs : q # r /\ req[q].next # "none" => req[q].job # req[r].job
    /\ EntriesAgree

AgreeInv == LoadOK /\ SerialOK

LEMMA AgreeInit == SchedInit => AgreeInv
<1> SUFFICES ASSUME SchedInit PROVE LoadOK /\ SerialOK
  BY DEF AgreeInv
<1>1. LoadOK
  BY DEF SchedInit, LoadOK, Alone, NoLoad
<1>2. SerialOK
  BY DEF SchedInit, SerialOK, RequestOK, NoReq, EntriesAgree
<1> QED
  BY <1>1, <1>2

LEMMA StillApart ==
  ASSUME Remember, ~overlapped', server' # "down"
  PROVE  ~overlapped /\ ~Overlapping'
  BY DEF Remember

LEMMA HandlerAlone ==
  ASSUME NEW r \in Reqs, Handler(r)
  PROVE  Serving /\ UNCHANGED procVars
  BY DEF Handler, CreateRow, UpdateLoad, EnableLoad, DisableLoad, ReadRow, DeleteRow,
         UpdateSave, EnableWrite, DisableWrite, Upsert, Remove, Refused, GiveUp, Arrives, At

\* Without overlaps no handler runs during a Reload, and none during a start.
LEMMA HandlerApart ==
  ASSUME RestOK, LoadOK, NEW r \in Reqs, Handler(r), Remember, ~overlapped'
  PROVE  ~overlapped /\ ~Overlapping' /\ load.phase = "none"
<1>1. Serving /\ UNCHANGED procVars
  BY HandlerAlone
<1>2. ~overlapped /\ ~Overlapping'
  BY <1>1, StillApart DEF Serving, procVars
<1>3. req[r].next # "none" \/ req'[r].next # "none"
  <2>1. ASSUME NEW next \in {"save", "enable", "disable", "upsert", "remove"},
               NEW j \in JobIds, NEW row, Become(r, next, j, row)
        PROVE  req'[r].next # "none"
    BY <2>1 DEF RestOK, Become
  <2>2. ASSUME NEW j \in JobIds, NEW op, NEW next \in {"save", "enable", "disable"}, NEW row,
               ReadRow(r, j, op, next, row)
        PROVE  req'[r].next # "none"
    BY <2>1, <2>2 DEF ReadRow
  <2>3. ASSUME NEW j \in JobIds,
               \/ \E cron \in Accepted : CreateRow(r, j, cron)
               \/ UpdateLoad(r, j) \/ EnableLoad(r, j) \/ DisableLoad(r, j) \/ DeleteRow(r, j)
        PROVE  req'[r].next # "none"
    BY <2>1, <2>2, <2>3 DEF CreateRow, UpdateLoad, EnableLoad, DisableLoad, DeleteRow
  <2>4. \/ \E j \in JobIds :
              \/ \E cron \in Accepted : CreateRow(r, j, cron)
              \/ UpdateLoad(r, j) \/ EnableLoad(r, j) \/ DisableLoad(r, j) \/ DeleteRow(r, j)
        \/ req[r].next # "none"
    BY DEF Handler, UpdateSave, EnableWrite, DisableWrite, Upsert, Remove, Refused, GiveUp, At
  <2> QED
    BY <2>3, <2>4
<1>4. CASE req[r].next # "none"
  BY <1>2, <1>4 DEF LoadOK, Alone, NoReq
<1>5. CASE req'[r].next # "none"
  BY <1>1, <1>2, <1>5 DEF Overlapping, procVars
<1> QED
  BY <1>2, <1>3, <1>4, <1>5

LEMMA LoadAfterHandler ==
  ASSUME RestOK, LoadOK, NEW r \in Reqs, Handler(r), Remember
  PROVE  LoadOK'
<1>1. Serving /\ UNCHANGED procVars
  BY HandlerAlone
<1>2. ~overlapped' => load'.phase = "none"
  BY <1>1, HandlerApart DEF procVars
<1> QED
  BY <1>1, <1>2 DEF LoadOK, Serving, procVars

\* A handler that writes the row of a job no other handler is about.
LEMMA WriterSerial ==
  ASSUME TableInv, SerialOK, ~overlapped, Serving, load.phase = "none",
         NEW r \in Reqs, NEW j \in JobIds, NEW row \in JobRow,
         NEW next \in {"upsert", "remove"}, NEW kept \in JobRow,
         req[r].next \notin {"upsert", "remove"},
         \A q \in Reqs : q # r => req[q].job # j,
         rows' = [rows EXCEPT ![j] = row],
         Become(r, next, j, kept),
         next = "upsert" => kept = row /\ row.exists,
         next = "remove" => Wanted(row) = NoSpec,
         UNCHANGED <<entryVars, procVars>>
  PROVE  SerialOK'
<1>0. rows \in [JobIds -> JobRow] /\ req \in [Reqs -> ReqState] /\ RequestsOK
  BY DEF TableInv, MapOK, RestOK
<1>1. /\ req'[r] = [next |-> next, job |-> j, row |-> kept]
      /\ \A q \in Reqs : q # r => req'[q] = req[q]
      /\ rows'[j] = row
      /\ \A k \in JobIds : k # j => rows'[k] = rows[k]
  BY <1>0 DEF Become
<1>2. RequestOK(r)'
  BY <1>1 DEF RequestOK
<1>3. ASSUME NEW q \in Reqs, q # r PROVE RequestOK(q)'
  <2>1. req[q].next # "none" => req[q].job \in JobIds /\ req[q].job # j
    BY <1>0, <1>3 DEF RequestsOK
  <2> QED
    BY <2>1, <1>1, <1>3 DEF SerialOK, RequestOK
<1>4. \A p, q \in Reqs : p # q /\ req'[p].next # "none" => req'[p].job # req'[q].job
  BY <1>1 DEF SerialOK
<1>5. ASSUME server' = "up" /\ ~reloadFailed', NEW k \in JobIds, Settled(k)'
      PROVE  entries'[k].spec = Wanted(rows'[k])
  <2>1. k # j
    BY <1>1, <1>5 DEF Settled
  <2>2. Settled(k)
    BY <1>1, <1>5 DEF Settled, procVars
  <2> QED
    BY <2>1, <2>2, <1>1, <1>5 DEF SerialOK, EntriesAgree, procVars, entryVars
<1> QED
  BY <1>2, <1>3, <1>4, <1>5 DEF SerialOK, EntriesAgree

\* A handler that ends: its job must be settled then.
LEMMA EndSerial ==
  ASSUME TableInv, SerialOK, ~overlapped, NEW r \in Reqs,
         Done(r), UNCHANGED <<rows, procVars>>,
         \A k \in JobIds : Settled(k)' /\ server = "up" /\ ~reloadFailed
           => entries'[k].spec = Wanted(rows[k])
  PROVE  SerialOK'
<1>0. req \in [Reqs -> ReqState] /\ RequestsOK
  BY DEF TableInv, MapOK, RestOK
<1>1. req'[r] = NoReq /\ \A q \in Reqs : q # r => req'[q] = req[q]
  BY <1>0 DEF Done
<1>2. \A q \in Reqs : RequestOK(q)'
  BY <1>1 DEF SerialOK, RequestOK, NoReq
<1>3. \A p, q \in Reqs : p # q /\ req'[p].next # "none" => req'[p].job # req'[q].job
  BY <1>0, <1>1 DEF SerialOK, NoReq, RequestsOK, JobIds
<1>4. EntriesAgree'
  BY DEF EntriesAgree, procVars
<1> QED
  BY <1>2, <1>3, <1>4 DEF SerialOK

LEMMA HandlerSerial ==
  ASSUME TableInv, LoadOK, SerialOK, NEW r \in Reqs, Handler(r), Remember, ~overlapped'
  PROVE  SerialOK'
<1>0. /\ rows \in [JobIds -> JobRow] /\ req \in [Reqs -> ReqState] /\ RequestsOK
      /\ req[r] \in ReqState /\ MapOK
  BY DEF TableInv, MapOK, RestOK
<1>h. /\ Serving /\ UNCHANGED procVars /\ load.phase = "none"
      /\ ~overlapped /\ ~Overlapping'
  BY HandlerAlone, HandlerApart DEF TableInv
<1>b. ASSUME NEW j \in JobIds, NEW next \in {"save", "enable", "disable", "upsert", "remove"},
             NEW row \in JobRow, Become(r, next, j, row)
      PROVE  \A q \in Reqs : q # r => req[q].job # j
  <2>1. /\ req'[r].next # "none" /\ req'[r].job = j
        /\ \A q \in Reqs : q # r => req'[q] = req[q]
    BY <1>b, <1>0 DEF Become
  <2> QED
    BY <2>1, <1>h DEF Overlapping
<1>n. NoReq.next = "none" /\ NoReq.job = Null
  BY DEF NoReq
<1>a. ASSUME req[r].next # "none"
      PROVE  /\ req[r].job \in JobIds
             /\ \A q \in Reqs : q # r => req[q].job # req[r].job
  BY <1>0, <1>a, <1>h DEF SerialOK, RequestsOK
<1>1. ASSUME NEW j \in JobIds, NEW cron \in Accepted,
             CreateRow(r, j, cron)
      PROVE  SerialOK'
  <2> DEFINE row == [exists |-> TRUE, enabled |-> TRUE, cron |-> cron]
  <2>1. row \in JobRow /\ row.exists
    BY Values DEF JobRow
  <2>2. /\ Become(r, "upsert", j, row) /\ rows' = [rows EXCEPT ![j] = row]
        /\ req[r].next = "none" /\ UNCHANGED <<entryVars, procVars>>
    BY <1>1, <1>n DEF CreateRow, SetRow, Arrives
  <2> HIDE DEF row
  <2>3. \A q \in Reqs : q # r => req[q].job # j
    BY <2>1, <2>2, <1>b
  <2> QED
    BY <2>1, <2>2, <2>3, <1>h, WriterSerial
<1>2. ASSUME NEW j \in JobIds, NEW op \in SchedOps, NEW next \in {"save", "enable", "disable"},
             NEW kept \in JobRow, ReadRow(r, j, op, next, kept),
             next = "enable" => kept = rows[j]
      PROVE  SerialOK'
  <2>1. /\ req'[r] = [next |-> next, job |-> j, row |-> kept]
        /\ \A q \in Reqs : q # r => req'[q] = req[q]
        /\ req[r].next = "none" /\ rows[j].exists
        /\ UNCHANGED <<rows, entryVars, procVars>>
    BY <1>2, <1>0, <1>n DEF ReadRow, Become, Arrives
  <2>6. \A q \in Reqs : q # r => req[q].job # j
    BY <1>2, <1>b DEF ReadRow
  <2>2. \A q \in Reqs : RequestOK(q)'
    BY <2>1, <1>2, <1>h DEF SerialOK, RequestOK
  <2>3. \A p, q \in Reqs : p # q /\ req'[p].next # "none" => req'[p].job # req'[q].job
    BY <2>1, <2>6, <1>h DEF SerialOK
  <2>4. \A k \in JobIds : Settled(k)' => Settled(k)
    BY <2>1 DEF Settled, procVars
  <2>5. EntriesAgree'
    BY <2>1, <2>4, <1>h DEF SerialOK, EntriesAgree, entryVars, procVars
  <2> QED
    BY <2>2, <2>3, <2>5 DEF SerialOK
<1>3. ASSUME NEW j \in JobIds, UpdateLoad(r, j) \/ EnableLoad(r, j) \/ DisableLoad(r, j)
      PROVE  SerialOK'
  <2>1. NoRow \in JobRow /\ rows[j] \in JobRow
    BY <1>0, Values
  <2> QED
    BY <2>1, <1>2, <1>3 DEF UpdateLoad, EnableLoad, DisableLoad, SchedOps
<1>4. ASSUME NEW j \in JobIds, DeleteRow(r, j)
      PROVE  SerialOK'
  <2>1. NoRow \in JobRow /\ Wanted(NoRow) = NoSpec
    BY Values DEF Wanted, NoRow
  <2>2. /\ Become(r, "remove", j, NoRow) /\ rows' = [rows EXCEPT ![j] = NoRow]
        /\ req[r].next = "none" /\ UNCHANGED <<entryVars, procVars>>
    BY <1>4, <1>n DEF DeleteRow, SetRow, Arrives
  <2>3. \A q \in Reqs : q # r => req[q].job # j
    BY <2>1, <2>2, <1>b
  <2> QED
    BY <2>1, <2>2, <2>3, <1>h, WriterSerial
<1>5. ASSUME NEW enabled \in BOOLEAN, NEW cron \in Accepted, UpdateSave(r, enabled, cron)
      PROVE  SerialOK'
  <2> DEFINE row == [exists |-> TRUE, cron |-> cron,
                     enabled |-> enabled \/ ~rows[req[r].job].exists]
  <2>1. row \in JobRow /\ row.exists
    BY Values DEF JobRow
  <2>2. /\ Become(r, "upsert", req[r].job, row)
        /\ rows' = [rows EXCEPT ![req[r].job] = row]
        /\ req[r].next = "save" /\ UNCHANGED <<entryVars, procVars>>
    BY <1>5 DEF UpdateSave, SetRow, At
  <2> HIDE DEF row
  <2> QED
    BY <2>1, <2>2, <1>a, <1>h, WriterSerial
<1>6. CASE EnableWrite(r)
  <2> DEFINE j == req[r].job
             row == [rows[j] EXCEPT !.enabled = TRUE]
  <2>1. req[r].next = "enable" /\ req[r].row = rows[j] /\ rows[j].exists /\ j \in JobIds
    BY <1>6, <1>a, <1>h DEF EnableWrite, At, SerialOK, RequestOK
  <2>2. row \in JobRow /\ row.exists
    BY <2>1, <1>0 DEF JobRow
  <2>3. /\ Become(r, "upsert", j, row) /\ rows' = [rows EXCEPT ![j] = row]
        /\ UNCHANGED <<entryVars, procVars>>
    BY <1>6, <2>1 DEF EnableWrite, SetEnabled, SetRow
  <2> HIDE DEF row
  <2> QED
    BY <2>1, <2>2, <2>3, <1>a, <1>h, WriterSerial
<1>d. ASSUME NEW j \in JobIds, NEW row \in JobRow, Wanted(row) = NoSpec,
             Become(r, "remove", j, NoRow), rows' = [rows EXCEPT ![j] = row],
             req[r].next = "disable", \A q \in Reqs : q # r => req[q].job # j,
             UNCHANGED <<entryVars, procVars>>
      PROVE  SerialOK'
  <2>1. NoRow \in JobRow
    BY Values
  <2>2. req[r].next \notin {"upsert", "remove"}
    BY <1>d
  <2>3. "remove" = "upsert" => NoRow = row /\ row.exists
    OBVIOUS
  <2>4. "remove" = "remove" => Wanted(row) = NoSpec
    BY <1>d
  <2>5. "remove" \in {"upsert", "remove"}
    OBVIOUS
  <2> QED
    BY ONLY <2>1, <2>2, <2>3, <2>4, <2>5, <1>d, <1>h, WriterSerial,
            TableInv, SerialOK, r \in Reqs
<1>7. CASE DisableWrite(r)
  <2> DEFINE j == req[r].job
             row == [rows[j] EXCEPT !.enabled = IF rows[j].exists THEN FALSE ELSE @]
  <2>1. req[r].next = "disable" /\ j \in JobIds
    BY <1>7, <1>a DEF DisableWrite, At
  <2>2. row \in JobRow /\ Wanted(row) = NoSpec
    BY <2>1, <1>0 DEF JobRow, Wanted
  <2>3. /\ Become(r, "remove", j, NoRow) /\ rows' = [rows EXCEPT ![j] = row]
        /\ UNCHANGED <<entryVars, procVars>>
    BY <1>7 DEF DisableWrite, SetEnabled, SetRow
  <2>4. \A q \in Reqs : q # r => req[q].job # j
    BY <2>1, <1>a
  <2> HIDE DEF row, j
  <2> QED
    BY <2>1, <2>2, <2>3, <2>4, <1>d
<1>8. CASE Upsert(r)
  <2> DEFINE j == req[r].job
  <2>1. req[r].next = "upsert" /\ j \in JobIds /\ req[r].row = rows[j] /\ rows[j].exists
    BY <1>8, <1>a, <1>h DEF Upsert, At, SerialOK, RequestOK
  <2>2. /\ \A k \in JobIds : k # j => entries'[k] = entries[k]
        /\ entries'[j].spec = Wanted(rows[j])
    BY <2>1, <1>8, <1>0, RegisterEffect DEF Upsert
  <2>3. \A k \in JobIds : k # j /\ Settled(k)' => Settled(k)
    BY <2>1, <1>8, <1>0, <1>h DEF Settled, Upsert, Done, procVars
  <2> QED
    BY <2>2, <2>3, <1>8, <1>h, EndSerial DEF Upsert, SerialOK, EntriesAgree
<1>9. CASE Remove(r)
  <2> DEFINE j == req[r].job
  <2>1. req[r].next = "remove" /\ j \in JobIds /\ Wanted(rows[j]) = NoSpec
    BY <1>9, <1>a, <1>h DEF Remove, At, SerialOK, RequestOK
  <2>2. /\ \A k \in JobIds : k # j => entries'[k] = entries[k]
        /\ entries'[j].spec = NoSpec
    BY <2>1, <1>9, <1>0, RemoveKeeps DEF Remove, MapOK, NoEntry
  <2>3. \A k \in JobIds : k # j /\ Settled(k)' => Settled(k)
    BY <2>1, <1>9, <1>0, <1>h DEF Settled, Remove, Done, procVars
  <2> QED
    BY <2>1, <2>2, <2>3, <1>9, <1>h, EndSerial DEF Remove, SerialOK, EntriesAgree
<1>10. CASE Refused(r)
  BY <1>10, <1>h, EndSerial DEF Refused
<1>11. CASE GiveUp(r)
  <2>1. req[r].next \notin {"upsert", "remove"}
    BY <1>11 DEF GiveUp, At
  <2>2. \A k \in JobIds : Settled(k)' => Settled(k)
    BY <2>1, <1>11, <1>0, <1>h DEF Settled, GiveUp, Done, procVars
  <2> QED
    BY <2>2, <1>11, <1>h, EndSerial DEF GiveUp, SerialOK, EntriesAgree, entryVars
<1> QED
  BY <1>1, <1>3, <1>4, <1>5, <1>6, <1>7, <1>8, <1>9, <1>10, <1>11 DEF Handler

\* Steps that leave rows and requests alone: what is left to show is EntriesAgree.
LEMMA QuietSerial ==
  ASSUME SerialOK, UNCHANGED <<rows, req>>, ~overlapped' => ~overlapped /\ EntriesAgree'
  PROVE  SerialOK'
  BY DEF SerialOK, RequestOK

LEMMA LoadDoneAgrees ==
  ASSUME LoadOK, LoadDone, server = "starting" \/ ~overlapped
  PROVE  \A j \in JobIds : entries'[j].spec = Wanted(rows'[j])
  BY DEF LoadOK, LoadDone, Loaded, entryVars

LEMMA AgreeStep == TableInv /\ AgreeInv /\ [SchedNext]_schedVars => AgreeInv'
<1> SUFFICES ASSUME TableInv, LoadOK, SerialOK, [SchedNext]_schedVars
             PROVE  LoadOK' /\ SerialOK'
  BY DEF AgreeInv
<1>0. /\ rows \in [JobIds -> JobRow] /\ load \in LoadState
      /\ entries \in [JobIds -> CronEntry] /\ MapOK /\ RestOK
  BY DEF TableInv, MapOK, RestOK
<1>1. CASE StartScheduler /\ Remember
  <2>1. LoadOK'
    BY <1>1 DEF StartScheduler, LoadOK, NoLoad, Alone, entryVars
  <2>2. EntriesAgree'
    BY <1>1 DEF StartScheduler, EntriesAgree
  <2>3. ~overlapped' => ~overlapped
    BY <1>1, StillApart DEF StartScheduler
  <2> QED
    BY <2>1, <2>2, <2>3, <1>1, QuietSerial DEF StartScheduler
<1>2. CASE ReloadBegin /\ Remember
  <2>1. load'.phase = "list" /\ \A j \in JobIds : entries'[j] = NoEntry
    BY <1>2, <1>0 DEF ReloadBegin, LoadState
  <2>2. ~overlapped' => ~overlapped /\ ~Overlapping'
    BY <1>2, StillApart DEF ReloadBegin
  <2>3. ~overlapped' => \A r \in Reqs : req'[r].next = "none"
    BY <2>1, <2>2 DEF Overlapping
  <2>4. \A r \in Reqs : req[r].next = "none" => req[r] = NoReq
    BY <1>0 DEF RestOK, RequestsOK
  <2>5. LoadOK'
    BY <1>2, <2>1, <2>3, <2>4 DEF ReloadBegin, LoadOK, Alone
  <2>6. EntriesAgree'
    BY <2>1 DEF EntriesAgree, Settled
  <2> QED
    BY <2>2, <2>5, <2>6, <1>2, QuietSerial DEF ReloadBegin
<1>3. CASE ListEnabledJobs /\ Remember
  <2>1. /\ load'.phase = "register"
        /\ \A j \in JobIds : j \in load'.left <=> rows[j].exists /\ rows[j].enabled
        /\ \A j \in load'.left : load'.rows[j] = rows[j]
    BY <1>3 DEF ListEnabledJobs
  <2>0. ~overlapped' => ~overlapped
    BY <1>3, StillApart DEF ListEnabledJobs, LoadOK
  <2>2. ASSUME server = "starting" \/ ~overlapped, NEW j \in JobIds PROVE Loaded(j)'
    <3>1. entries[j] = NoEntry
      BY <1>3, <2>2 DEF ListEnabledJobs, LoadOK
    <3> QED
      BY <2>1, <3>1, <1>3 DEF ListEnabledJobs, Loaded, Wanted, entryVars, NoEntry
  <2>3. LoadOK'
    BY <2>0, <2>1, <2>2, <1>3 DEF ListEnabledJobs, LoadOK, Alone
  <2>4. EntriesAgree'
    BY <2>1 DEF EntriesAgree, Settled
  <2> QED
    BY <2>0, <2>3, <2>4, <1>3, QuietSerial DEF ListEnabledJobs
<1>4. CASE ListFails /\ Remember
  <2>1. load'.phase = "none"
    BY <1>4 DEF ListFails, NoLoad
  <2>2. LoadOK'
    BY <2>1, <1>4 DEF ListFails, LoadOK, Alone, entryVars
  <2>3. EntriesAgree'
    BY <1>4 DEF ListFails, EntriesAgree
  <2>4. CASE server = "starting"
    <3>1. \A r \in Reqs : req'[r] = NoReq
      BY <2>4, <1>4 DEF ListFails, LoadOK, Alone
    <3>2. SerialOK'
      BY <3>1, <2>3 DEF SerialOK, RequestOK, NoReq
    <3> QED
      BY <2>2, <3>2
  <2>5. CASE server # "starting"
    <3>1. server' = server /\ server # "down"
      BY <2>5, <1>4 DEF ListFails, LoadOK
    <3>2. ~overlapped' => ~overlapped
      BY <3>1, <1>4, StillApart
    <3> QED
      BY <2>2, <2>3, <3>2, <1>4, QuietSerial DEF ListFails
  <2> QED
    BY <2>4, <2>5
<1>5. ASSUME NEW j \in JobIds, RegisterNext(j), Remember
      PROVE  LoadOK' /\ SerialOK'
  <2>1. /\ load'.phase = "register" /\ load'.rows = load.rows
        /\ load'.left = load.left \ {j} /\ UNCHANGED <<rows, server, req>>
    BY <1>5, <1>0 DEF RegisterNext, LoadState
  <2>0. ~overlapped' => ~overlapped
    BY <2>1, <1>5, StillApart DEF RegisterNext, LoadOK
  <2>2. ASSUME server = "starting" \/ ~overlapped PROVE \A k \in JobIds : Loaded(k)'
    <3>1. \A k \in JobIds : Loaded(k)
      BY <1>5, <2>2 DEF RegisterNext, LoadOK
    <3>2. load.rows[j] = rows[j] /\ rows[j].exists /\ rows[j] \in JobRow
      BY <3>1, <1>5, <1>0 DEF RegisterNext, Loaded
    <3>3. /\ entries'[j].spec = Wanted(rows[j])
          /\ \A k \in JobIds : k # j => entries'[k] = entries[k]
      BY <3>2, <1>5, <1>0, RegisterEffect DEF RegisterNext
    <3> QED
      BY <3>1, <3>3, <2>1 DEF Loaded
  <2>3. LoadOK'
    BY <2>0, <2>1, <2>2, <1>5 DEF RegisterNext, LoadOK, Alone
  <2>4. EntriesAgree'
    BY <2>1 DEF EntriesAgree, Settled
  <2> QED
    BY <2>0, <2>1, <2>3, <2>4, QuietSerial
<1>6. CASE LoadDone /\ Remember
  <2>1. load'.phase = "none" /\ server' # "down"
    BY <1>6 DEF LoadDone, NoLoad, LoadOK
  <2>2. LoadOK'
    BY <2>1, <1>6 DEF LoadDone, LoadOK
  <2>3. ~overlapped' => ~overlapped
    BY <2>1, <1>6, StillApart
  <2>4. ~overlapped' => EntriesAgree'
    BY <2>3, <1>6, LoadDoneAgrees DEF EntriesAgree
  <2> QED
    BY <2>2, <2>3, <2>4, <1>6, QuietSerial DEF LoadDone
<1>7. CASE StopScheduler /\ Remember
  <2>0. ~overlapped' => ~overlapped
    BY <1>7, StillApart DEF StopScheduler
  <2>1. LoadOK'
    BY <2>0, <1>7 DEF StopScheduler, LoadOK, Alone, Loaded, entryVars
  <2>2. EntriesAgree'
    BY <1>7 DEF StopScheduler, EntriesAgree
  <2> QED
    BY <2>0, <2>1, <2>2, <1>7, QuietSerial DEF StopScheduler
<1>8. CASE ProcessEnds
  <2>1. /\ server' = "down" /\ load'.phase = "none"
        /\ \A j \in JobIds : entries'[j] = NoEntry
        /\ \A r \in Reqs : req'[r] = NoReq
    BY <1>8 DEF ProcessEnds, NoLoad
  <2>2. LoadOK'
    BY <2>1 DEF LoadOK, Alone
  <2>3. SerialOK'
    BY <2>1 DEF SerialOK, RequestOK, NoReq, EntriesAgree
  <2> QED
    BY <2>2, <2>3
<1>9. ASSUME NEW r \in Reqs, Handler(r), Remember
      PROVE  LoadOK' /\ SerialOK'
  <2>1. ~overlapped' => SerialOK'
    BY <1>9, HandlerSerial
  <2>2. overlapped' => SerialOK'
    BY DEF SerialOK
  <2> QED
    BY <2>1, <2>2, <1>0, <1>9, LoadAfterHandler
<1>10. CASE UNCHANGED schedVars
  BY <1>10 DEF schedVars, entryVars, procVars, LoadOK, Alone, Loaded, SerialOK,
               RequestOK, EntriesAgree, Settled
<1> QED
  BY <1>1, <1>2, <1>3, <1>4, <1>5, <1>6, <1>7, <1>8, <1>9, <1>10 DEF SchedNext, SchedStep

\* Both invariants hold in every reachable state.
THEOREM AgreeInvariant == SchedSpec => [](TableInv /\ AgreeInv)
  BY TableInvariant, AgreeInit, AgreeStep, PTL DEF SchedSpec

\* A restart leaves every job with the entry its row asks for.
THEOREM RestartRepairsHolds == SchedSpec => RestartRepairs
<1>1. AgreeInv /\ [SchedNext]_schedVars =>
        [server = "starting" /\ server' = "up" =>
           \A j \in JobIds : entries'[j].spec = Wanted(rows'[j])]_schedVars
  <2> SUFFICES ASSUME LoadOK, [SchedNext]_schedVars, server = "starting", server' = "up"
               PROVE  \A j \in JobIds : entries'[j].spec = Wanted(rows'[j])
    BY DEF AgreeInv
  <2>1. LoadDone
    <3>1. ASSUME NEW r \in Reqs, Handler(r) PROVE FALSE
      BY <3>1, HandlerAlone DEF Serving
    <3> QED
      BY <3>1 DEF SchedNext, SchedStep, StartScheduler, ReloadBegin, ListEnabledJobs, ListFails,
                  RegisterNext, StopScheduler, ProcessEnds, schedVars, procVars
  <2> QED
    BY <2>1, LoadDoneAgrees
<1> QED
  BY <1>1, AgreeInvariant, PTL DEF SchedSpec, RestartRepairs

\* As long as requests about one job do not overlap, every settled job fires by the
\* rule its row states.
THEOREM EntriesAgreeHolds == SchedSpec => []EntriesAgree
<1>1. AgreeInv => EntriesAgree
  BY DEF AgreeInv, SerialOK, EntriesAgree
<1> QED
  BY <1>1, AgreeInvariant, PTL
=============================================================================
