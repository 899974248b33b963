-------------------------------- MODULE Engine --------------------------------
(***************************************************************************)
(* The sync engine (internal/engine/engine.go: RunOnce, processFiles,      *)
(* processFile, CleanOrphans) over a tree of .strm files written by        *)
(* internal/strmwriter/local_writer.go.                                    *)
(*                                                                         *)
(* A source is a path of the remote drive that has, at times, a file.      *)
(* OutputOf is calculateOutputPath: it replaces the extension, so sources  *)
(* may share an output.  Engines are the runs at work at a time, of one    *)
(* job or of several that write to the same tree; the flag running only    *)
(* guards one Engine value, and every run makes its own.  The remote       *)
(* drive changes as it likes.                                              *)
(***************************************************************************)
EXTENDS Naturals, FiniteSets

CONSTANTS
  Sources, Outputs, OutputOf,
  Engines,
  Options,            \* the settings a run may have: a subset of Setting
  Forms,              \* how a .strm may spell its source: by URL, path, mapping
  Times,              \* modification times of remote files; 0 is unknown
  WriteTime,          \* the time a write leaves on a file
  Epsilon,            \* ModTimeEpsilon
  MaxConcurrency,
  Absent,             \* no remote file
  NoOptions,          \* of a run that is not at work
  Missing,            \* no file in the tree
  Blank, Other        \* a file with nothing in it, with what no run would write

Setting ==
  [match: SUBSET Sources,    \* what exclusions, extensions and size let through
   dryRun: BOOLEAN, force: BOOLEAN, skip: BOOLEAN,
   orphans: BOOLEAN, orphanDryRun: BOOLEAN,
   written: Forms,           \* the form written, after mapping and rules
   compared: Forms,          \* the form an existing file is compared with
   local: BOOLEAN]           \* listed by the local driver

Strm == [of: Sources, form: Forms]
Content == Strm \cup {Missing, Blank, Other}

ASSUME EngineAssumption ==
  /\ OutputOf \in [Sources -> Outputs]
  /\ Options \subseteq Setting
  /\ Times \subseteq Nat /\ WriteTime \in Nat \ {0} /\ Epsilon \in Nat
  /\ MaxConcurrency \in Nat \ {0}
  /\ Absent \notin Times /\ NoOptions \notin Setting
  /\ {Missing, Blank, Other} \cap Strm = {}
  /\ Missing # Blank /\ Missing # Other /\ Blank # Other

VARIABLES
  remote,             \* remote[s]: the file's time, or Absent
  target,             \* target[o]: a file of the tree
  cancelled,          \* the context of the pool is done
  run                 \* run[e]: the locals of RunOnce, of type Run

engineVars == <<remote, target, cancelled, run>>

Working == {"scan", "files", "orphans"}
Active == {"stat", "skip", "read", "open", "content", "lost", "times"}
Ends == {"end", "untimed", "failed", "left"}

Run ==
  [phase: Working \cup {"idle", "done", "failed"},
   opts: Options \cup {NoOptions},
   toScan: SUBSET Sources,                     \* what is left of the listing
   entries: [Sources -> Times \cup {Absent}],  \* what it returned
   pc: [Sources -> Active \cup Ends \cup {"none", "start"}],  \* a file's goroutine
   seen: [Sources -> Times \cup {WriteTime, 0}],  \* the local time it read
   toVisit: SUBSET Outputs,                    \* what is left of CleanOrphans
   kept: SUBSET Outputs,                       \* history: it could not delete
   gone: SUBSET Sources,      \* history: absent at some time of the run
   alone: BOOLEAN]            \* history: no other run was at work meanwhile

NewRun(result) ==
  [phase |-> result, opts |-> NoOptions, toScan |-> {},
   entries |-> [s \in Sources |-> Absent], pc |-> [s \in Sources |-> "none"],
   seen |-> [s \in Sources |-> 0], toVisit |-> {}, kept |-> {}, gone |-> {},
   alone |-> FALSE]

File == [content: Content, time: (Times \ {0}) \cup {WriteTime}]
NoFile == [content |-> Missing, time |-> WriteTime]

EngineInit ==
  /\ remote \in [Sources -> Times \cup {Absent}]
  /\ target \in [Outputs -> {NoFile, [content |-> Other, time |-> WriteTime]}]
  /\ cancelled = FALSE /\ run = [e \in Engines |-> NewRun("idle")]

Mine(e, s) == [of |-> s, form |-> run[e].opts.written]
Listed(e) == {s \in run[e].opts.match : run[e].entries[s] # Absent}
Index(e) == {OutputOf[s] : s \in Listed(e)}
AtWork(e) == run[e].phase \in Working

-------------------------------------------------------------------------------
(***************************************************************************)
(* The listing.                                                            *)
(***************************************************************************)
Begin(e, o) ==
  /\ ~AtWork(e) /\ ~cancelled
  /\ run' = [f \in Engines |->
       IF f # e THEN [run[f] EXCEPT !.alone = FALSE]
       ELSE [NewRun("scan") EXCEPT !.opts = o, !.toScan = o.match,
               !.gone = {s \in o.match : remote[s] = Absent},
               !.alone = \A g \in Engines \ {e} : ~AtWork(g)]]
  /\ UNCHANGED <<remote, target, cancelled>>

\* Directories are read one after the other; the remote drive may change in
\* between.  What the filter drops is not recorded.
ScanEntry(e, s) ==
  /\ run[e].phase = "scan" /\ s \in run[e].toScan
  /\ run' = [run EXCEPT ![e].toScan = @ \ {s}, ![e].entries[s] = remote[s]]
  /\ UNCHANGED <<remote, target, cancelled>>

\* The local driver goes on after an error, without the entry.
ScanMisses(e, s) ==
  /\ run[e].phase = "scan" /\ s \in run[e].toScan
  /\ run[e].opts.local
  /\ run' = [run EXCEPT ![e].toScan = @ \ {s}]
  /\ UNCHANGED <<remote, target, cancelled>>

\* An error of the driver, or the context is done.
ScanFails(e) ==
  /\ run[e].phase = "scan"
  /\ run' = [run EXCEPT ![e] = NewRun("failed")]
  /\ UNCHANGED <<remote, target, cancelled>>

ScanDone(e) ==
  /\ run[e].phase = "scan" /\ run[e].toScan = {}
  /\ run' = [run EXCEPT ![e].phase = "files",
       ![e].pc = [s \in Sources |-> IF s \in Listed(e) THEN "start" ELSE "none"]]
  /\ UNCHANGED <<remote, target, cancelled>>

-------------------------------------------------------------------------------
(***************************************************************************)
(* One goroutine per file; a semaphore lets MaxConcurrency of them work.   *)
(***************************************************************************)
\* The goroutine that fails keeps its place.
InUse_Bug(e) == {s \in Sources : run[e].pc[s] \in Active \cup {"failed"}}

InUse(e) == {s \in Sources : run[e].pc[s] \in Active}

At(e, s, step) == run[e].pc[s] = step
Goto(e, s, step) == run' = [run EXCEPT ![e].pc[s] = step]

Acquire(e, s) ==
  /\ At(e, s, "start") /\ ~cancelled
  /\ Cardinality(InUse(e)) < MaxConcurrency
  /\ Goto(e, s, "stat")
  /\ UNCHANGED <<remote, target, cancelled>>

Leave(e, s) ==
  /\ At(e, s, "start") /\ cancelled
  /\ Goto(e, s, "left")
  /\ UNCHANGED <<remote, target, cancelled>>

Stat(e, s) ==
  LET o == OutputOf[s]
      options == run[e].opts IN
  /\ At(e, s, "stat")
  /\ IF options.dryRun THEN Goto(e, s, "end")
     ELSE IF target[o].content = Missing THEN Goto(e, s, "open")
     ELSE run' = [run EXCEPT ![e].seen[s] = target[o].time,
                             ![e].pc[s] = IF options.skip THEN "skip"
                                          ELSE IF options.force THEN "open" ELSE "read"]
  /\ UNCHANGED <<remote, target, cancelled>>

\* A file with nothing in it is taken for an existing one.
SkipRead_Bug(e, s) ==
  /\ At(e, s, "skip") /\ ~cancelled
  /\ Goto(e, s, IF target[OutputOf[s]].content # Missing THEN "end"
                ELSE IF run[e].opts.force THEN "open" ELSE "read")
  /\ UNCHANGED <<remote, target, cancelled>>

SkipRead(e, s) ==
  /\ At(e, s, "skip") /\ ~cancelled
  /\ Goto(e, s, IF target[OutputOf[s]].content \notin {Missing, Blank} THEN "end"
                ELSE IF run[e].opts.force THEN "open" ELSE "read")
  /\ UNCHANGED <<remote, target, cancelled>>

ModTimeDifferent(a, b) ==
  a # 0 /\ b # 0 /\ (a > b + Epsilon \/ b > a + Epsilon)

\* DecideUpdate for a file that exists, without ForceUpdate.
Outdated(e, s, content, time) ==
  \/ content # [of |-> s, form |-> run[e].opts.compared]
  \/ ModTimeDifferent(time, run[e].entries[s])

Read(e, s) ==
  LET content == target[OutputOf[s]].content IN
  /\ At(e, s, "read") /\ ~cancelled
  /\ Goto(e, s, IF Outdated(e, s, content, run[e].seen[s]) THEN "open" ELSE "end")
  /\ UNCHANGED <<remote, target, cancelled>>

\* os.WriteFile in two steps: open and truncate, then write.
Open(e, s) ==
  /\ At(e, s, "open") /\ ~cancelled
  /\ target' = [target EXCEPT ![OutputOf[s]] = [content |-> Blank, time |-> WriteTime]]
  /\ Goto(e, s, "content")
  /\ UNCHANGED <<remote, cancelled>>

AfterWrite(e, s) == Goto(e, s, IF run[e].entries[s] = 0 THEN "end" ELSE "times")

\* Another goroutine may have written to the file since it was opened; the
\* longer text then shows behind the shorter one.
WriteContent(e, s) ==
  LET o == OutputOf[s]
      clean == target[o].content \in {Blank, Mine(e, s)} IN
  /\ At(e, s, "content")
  /\ \E c \in {Mine(e, s)} \cup (IF clean THEN {} ELSE {Other}) :
       target' = [target EXCEPT ![o] = [content |-> c, time |-> WriteTime]]
  /\ AfterWrite(e, s)
  /\ UNCHANGED <<remote, cancelled>>

\* The opened file was deleted meanwhile.
WriteLost(e, s) ==
  /\ At(e, s, "lost")
  /\ AfterWrite(e, s)
  /\ UNCHANGED <<remote, target, cancelled>>

Chtimes(e, s) ==
  LET o == OutputOf[s] IN
  /\ At(e, s, "times") /\ target[o].content # Missing
  /\ target' = [target EXCEPT ![o].time = run[e].entries[s]]
  /\ Goto(e, s, "end")
  /\ UNCHANGED <<remote, cancelled>>

\* Its error is ignored.
ChtimesFails(e, s) ==
  /\ At(e, s, "times")
  /\ Goto(e, s, "untimed")
  /\ UNCHANGED <<remote, target, cancelled>>

\* An error of any call up to the write, or a done context where Read and Write
\* look at it.
FileFails(e, s) ==
  /\ run[e].pc[s] \in Active \ {"times"}
  /\ Goto(e, s, "failed")
  /\ UNCHANGED <<remote, target, cancelled>>

\* The write stops in the middle: the disk is full.
WriteFails(e, s) ==
  /\ At(e, s, "content")
  /\ target' = [target EXCEPT ![OutputOf[s]] = [content |-> Other, time |-> WriteTime]]
  /\ Goto(e, s, "failed")
  /\ UNCHANGED <<remote, cancelled>>

Goroutine(e, s) ==
  \/ Acquire(e, s) \/ Leave(e, s) \/ Stat(e, s) \/ SkipRead(e, s) \/ Read(e, s)
  \/ Open(e, s) \/ WriteContent(e, s) \/ WriteLost(e, s) \/ Chtimes(e, s)
  \/ ChtimesFails(e, s) \/ FileFails(e, s) \/ WriteFails(e, s)

FilesOver(e) ==
  /\ run[e].phase = "files"
  /\ \A s \in Sources : run[e].pc[s] \in Ends \cup {"none"}

\* Files that failed do not keep the run from going on.
CleanBegin(e) ==
  /\ FilesOver(e) /\ ~cancelled /\ run[e].opts.orphans
  /\ run' = [run EXCEPT ![e].phase = "orphans", ![e].toVisit = Outputs]
  /\ UNCHANGED <<remote, target, cancelled>>

Return(e) ==
  /\ FilesOver(e) /\ (cancelled \/ ~run[e].opts.orphans)
  /\ run' = [run EXCEPT ![e] = NewRun(IF cancelled THEN "failed" ELSE "done")]
  /\ UNCHANGED <<remote, target, cancelled>>

-------------------------------------------------------------------------------
(***************************************************************************)
(* CleanOrphans walks over the tree.                                       *)
(***************************************************************************)
Visiting(e, o) ==
  run[e].phase = "orphans" /\ o \in run[e].toVisit /\ ~cancelled

\* Only files that were processed have a source.
Keeps_Bug(e, o) ==
  \/ target[o].content = Missing \/ run[e].opts.dryRun \/ run[e].opts.orphanDryRun
  \/ \E s \in Listed(e) : OutputOf[s] = o /\ run[e].pc[s] # "failed"

Keeps(e, o) ==
  \/ target[o].content = Missing \/ run[e].opts.dryRun \/ run[e].opts.orphanDryRun
  \/ o \in Index(e)

Pass(e, o) ==
  /\ Visiting(e, o) /\ Keeps(e, o)
  /\ run' = [run EXCEPT ![e].toVisit = @ \ {o}]
  /\ UNCHANGED <<remote, target, cancelled>>

\* Who has the file open goes on writing to a file without a name.
Delete(e, o) ==
  /\ Visiting(e, o) /\ ~Keeps(e, o)
  /\ target' = [target EXCEPT ![o] = NoFile]
  /\ run' = [f \in Engines |-> [run[f] EXCEPT
       !.toVisit = IF f = e THEN @ \ {o} ELSE @,
       !.pc = [s \in Sources |->
                 IF OutputOf[s] = o /\ @[s] = "content" THEN "lost" ELSE @[s]]]]
  /\ UNCHANGED <<remote, cancelled>>

DeleteFails(e, o) ==
  /\ Visiting(e, o) /\ ~Keeps(e, o)
  /\ run' = [run EXCEPT ![e].toVisit = @ \ {o}, ![e].kept = @ \cup {o}]
  /\ UNCHANGED <<remote, target, cancelled>>

\* RunOnce logs what CleanOrphans returns and succeeds.
CleanDone(e) ==
  /\ run[e].phase = "orphans" /\ (run[e].toVisit = {} \/ cancelled)
  /\ run' = [run EXCEPT ![e] = NewRun("done")]
  /\ UNCHANGED <<remote, target, cancelled>>

-------------------------------------------------------------------------------
\* Pool.Stop: every run has the pool's context.
Cancel ==
  /\ ~cancelled
  /\ cancelled' = TRUE
  /\ UNCHANGED <<remote, target, run>>

\* The process ends and is started again.  The files stay as they are.
Restart ==
  /\ cancelled \/ \E e \in Engines : AtWork(e)
  /\ cancelled' = FALSE
  /\ run' = [e \in Engines |-> NewRun("idle")]
  /\ UNCHANGED <<remote, target>>

RemoteChange(s) ==
  /\ \E t \in (Times \cup {Absent}) \ {remote[s]} :
       /\ remote' = [remote EXCEPT ![s] = t]
       /\ run' = [e \in Engines |-> [run[e] EXCEPT
            !.gone = IF t = Absent /\ AtWork(e) THEN @ \cup ({s} \cap run[e].opts.match)
                    ELSE @]]
  /\ UNCHANGED <<target, cancelled>>

RunStep(e) ==
  \/ \E s \in Sources : ScanEntry(e, s) \/ ScanMisses(e, s) \/ Goroutine(e, s)
  \/ ScanFails(e) \/ ScanDone(e) \/ CleanBegin(e) \/ Return(e)
  \/ \E o \in Outputs : Pass(e, o) \/ Delete(e, o) \/ DeleteFails(e, o)
  \/ CleanDone(e)

EngineNext ==
  \/ \E e \in Engines : RunStep(e) \/ \E o \in Options : Begin(e, o)
  \/ Cancel \/ Restart
  \/ \E s \in Sources : RemoteChange(s)

EngineSpec == EngineInit /\ [][EngineNext]_engineVars

-------------------------------------------------------------------------------
(***************************************************************************)
(* Properties.                                                             *)
(***************************************************************************)
\* The type invariant; the time of a file is one a remote file had or that of a
\* write.
EngineTypeOK ==
  /\ remote \in [Sources -> Times \cup {Absent}]
  /\ target \in [Outputs -> File] /\ cancelled \in BOOLEAN
  /\ run \in [Engines -> Run]

\* Run e looks for sources that lead to o, and one was there all the time.
HasSource(e, o) == \E s \in run[e].opts.match \ run[e].gone : OutputOf[s] = o

Vanishes(o) == target[o].content # Missing /\ target'[o].content = Missing

\* Run e is the one that has just visited o.
Visits(e, o) == o \in run[e].toVisit \ run'[e].toVisit

\* engine.go:1062 calls a file an orphan if its remote file was deleted or moved:
\* files vanish only by cleaning, and no run deletes a file for which it has a
\* source that has been there since it began, whatever failed or changed.
OrphansOnly ==
  [][\A o \in Outputs : Vanishes(o) =>
       \E e \in Engines : Visits(e, o) /\ ~HasSource(e, o)]_engineVars

\* The same, of runs that are not listed by the local driver.
RemoteOrphansOnly ==
  [][\A o \in Outputs : Vanishes(o) =>
       \E e \in Engines : Visits(e, o) /\ (run[e].opts.local \/ ~HasSource(e, o))]_engineVars

SoleSource(e, s) == \A q \in Listed(e) : OutputOf[q] = OutputOf[s] => q = s

Within(a, b) == a <= b + Epsilon /\ b <= a + Epsilon

FileIsRight(e, s) ==
  LET f == target[OutputOf[s]] IN
  IF run[e].opts.skip THEN f.content \notin {Missing, Blank}
  ELSE /\ f.content = Mine(e, s)
       /\ run[e].entries[s] = 0 \/ Within(f.time, run[e].entries[s])

\* A run that succeeds and overlapped with no other has left, for each file it
\* processed and whatever it found there (blank, damaged, foreign, interrupted
\* earlier), the content and the time that file should have; with SkipExisting,
\* some content.  Nothing else is left where orphans are cleaned, except what
\* could not be deleted or was not visited.
DoneIsMirrored ==
  [][\A e \in Engines :
       AtWork(e) /\ run'[e].phase = "done" /\ run[e].alone /\ ~run[e].opts.dryRun =>
         /\ \A s \in Listed(e) : At(e, s, "end") /\ SoleSource(e, s) => FileIsRight(e, s)
         /\ run[e].opts.orphans /\ ~run[e].opts.orphanDryRun /\ ~cancelled =>
              \A o \in Outputs :
                target[o].content # Missing => o \in Index(e) \cup run[e].kept]_engineVars

\* A run at work can always take a step, cancelled or not, and whatever failed
\* before: no place of the semaphore is lost, nobody waits for a goroutine that is
\* not there.  As no step is taken twice, every run returns.
NoRunStuck == \A e \in Engines : AtWork(e) => ENABLED RunStep(e)
=============================================================================
