---------------------------- MODULE BatchGenerator ----------------------------
(***************************************************************************)
(* EngineStrmGenerator (internal/app/sync/engine_strm_generator.go): the   *)
(* other generator of the pipeline.  Apply gathers plan items in a map     *)
(* with one item for each source path and hands them in batches to         *)
(* Engine.RunIncremental (internal/engine/engine.go), which deletes first  *)
(* and then creates and updates.                                           *)
(*                                                                         *)
(* The channel's other end is the monitor with the planner: an item        *)
(* carries the modification time that the file has when its event is       *)
(* handled, and none if there is no file then.                             *)
(***************************************************************************)
EXTENDS Naturals, Sequences, FiniteSets

CONSTANTS
  Files,
  OutputOf,           \* calculateOutputPath: a.mkv and a.mp4 share a.strm
  Matching,           \* files that the engine's filter lets through
  Strategies,         \* settings there may be: some of "batch", "timer" and "idle"
  BatchSize,
  MaxFailures,        \* consecutive failures that make Apply give up (3)
  MaxChanges,         \* bound: changes of the source
  NoFile, NoItem

Ops == {"create", "update", "delete"}
Clock == 0..MaxChanges + 1
Items == [file: Files, op: Ops, time: Clock]

ASSUME BatchAssumption ==
  /\ DOMAIN OutputOf = Files /\ Matching \subseteq Files
  /\ Strategies \subseteq {"batch", "timer", "idle"}
  /\ BatchSize \in Nat \ {0} /\ MaxFailures \in Nat \ {0}
  /\ MaxChanges \in Nat
  /\ NoFile \notin Files /\ NoItem \notin Items

VARIABLES
  strategy,           \* the setting
  source,             \* source[f]: modification time of the file, 0 if there is none
  raw,                \* what the system reported and the monitor has not handled
  items,              \* the channel: plan items sent and not taken
  closed,             \* the channel is closed
  pending,            \* pending[f]: the item gathered for f
  failures,           \* consecutiveFailures
  retry, idle,        \* the timers run
  flush,              \* the flush at work: why it was started and what is left to do
  target,             \* target[o]: the file whose .strm it is
  cancelled,          \* the context is done
  result,             \* of Apply: "none" until it returns
  changes,
  lost,               \* history: files with an item that was dropped without being applied
  raced               \* history: files that changed again before an event was handled

vars == <<strategy, source, raw, items, closed, pending, failures, retry, idle, flush, target, cancelled,
          result, changes, lost, raced>>

Outputs == {OutputOf[f] : f \in Files}
Empty == [f \in Files |-> NoItem]
NoFlush == [why |-> "none", stage |-> "none", toDo |-> {}, failed |-> {}]

Init ==
  /\ strategy \in Strategies
  /\ source \in [Files -> {0, 1}]
  /\ raw = <<>> /\ items = <<>> /\ closed = FALSE
  /\ pending = Empty
  /\ failures = 0 /\ retry = FALSE /\ idle = FALSE
  /\ flush = NoFlush
  /\ target = [o \in Outputs |->
       LET present == {f \in Matching : OutputOf[f] = o /\ source[f] = 1} IN
       IF present = {} THEN NoFile ELSE CHOOSE f \in present : TRUE]
  /\ cancelled = FALSE /\ result = "none" /\ changes = 0
  /\ lost = {} /\ raced = {}

batchVars == <<pending, failures, retry, idle, flush, target, result, lost>>
inputVars == <<strategy, source, raw, items, closed, cancelled, changes, raced>>

-------------------------------------------------------------------------------
(***************************************************************************)
(* The source and the context.                                             *)
(***************************************************************************)
Announce(f, op, time) ==
  /\ ~closed /\ result = "none" /\ changes < MaxChanges
  /\ source' = [source EXCEPT ![f] = time]
  /\ raw' = Append(raw, [file |-> f, op |-> op])
  /\ changes' = changes + 1
  /\ UNCHANGED <<strategy, items, closed, cancelled, raced, batchVars>>

\* A file appears, also one that was moved and kept an older time, is written, or is
\* removed.
Change(f) ==
  \/ source[f] = 0 /\ \E time \in 1..changes + 2 : Announce(f, "create", time)
  \/ source[f] # 0 /\ Announce(f, "update", changes + 2)
  \/ source[f] # 0 /\ Announce(f, "delete", 0)

\* handleEvent and planItem: os.Stat looks at what is there now.
HandleEvent ==
  LET f == Head(raw).file IN
  /\ raw # <<>> /\ ~closed
  /\ raw' = Tail(raw)
  /\ items' = Append(items, [file |-> f, op |-> Head(raw).op, time |-> source[f]])
  /\ raced' = IF \E i \in 2..Len(raw) : raw[i].file = f THEN raced \cup {f} ELSE raced
  /\ UNCHANGED <<strategy, source, closed, cancelled, changes, batchVars>>

CloseItems ==
  /\ ~closed /\ result = "none"
  /\ closed' = TRUE
  /\ UNCHANGED <<strategy, source, raw, items, cancelled, changes, raced, batchVars>>

Cancel ==
  /\ ~cancelled /\ result = "none"
  /\ cancelled' = TRUE
  /\ UNCHANGED <<strategy, source, raw, items, closed, changes, raced, batchVars>>

-------------------------------------------------------------------------------
(***************************************************************************)
(* The loop of Apply.                                                      *)
(***************************************************************************)
Waiting == result = "none" /\ flush = NoFlush /\ failures < MaxFailures

\* mergePlanItem: what is kept of two items of one path.
Newer_Bug(old, new) ==
  IF \/ old = NoItem
     \/ new.time > old.time /\ new.op = "delete"
     \/ new.time = old.time /\ new.op = "delete"
  THEN new ELSE old

Newer(old, new) ==
  IF \/ old = NoItem
     \/ new.time > old.time
     \/ new.time = old.time /\ new.op = "delete"
  THEN new ELSE old

Gathered(map) == {f \in Files : map[f] # NoItem}

Started(why, map) ==
  IF Gathered(map) = {} THEN NoFlush
  ELSE [NoFlush EXCEPT !.why = why, !.stage = "delete", !.toDo = Gathered(map)]

Receive_Bug ==
  LET item == Head(items)
      gathered == [pending EXCEPT ![item.file] = Newer(@, item)] IN
  /\ Waiting /\ items # <<>>
  /\ items' = Tail(items)
  /\ pending' = gathered
  /\ idle' = (strategy = "idle" /\ Gathered(pending) = {})
  /\ flush' = IF strategy = "batch" /\ Cardinality(Gathered(gathered)) >= BatchSize
              THEN Started("event", gathered) ELSE NoFlush
  /\ UNCHANGED <<strategy, source, raw, closed, cancelled, changes, raced, failures, retry, target, result,
                 lost>>

Receive ==
  LET item == Head(items)
      gathered == [pending EXCEPT ![item.file] = Newer(@, item)] IN
  /\ Waiting /\ items # <<>>
  /\ items' = Tail(items)
  /\ pending' = gathered
  /\ idle' = (strategy = "idle")
  /\ flush' = IF strategy = "batch" /\ Cardinality(Gathered(gathered)) >= BatchSize
              THEN Started("event", gathered) ELSE NoFlush
  /\ UNCHANGED <<strategy, source, raw, closed, cancelled, changes, raced, failures, retry, target, result,
                 lost>>

TickerFires ==
  /\ Waiting /\ strategy = "timer" /\ Gathered(pending) # {}
  /\ flush' = Started("event", pending)
  /\ UNCHANGED <<inputVars, pending, failures, retry, idle, target, result, lost>>

IdleFires ==
  /\ Waiting /\ idle
  /\ idle' = FALSE
  /\ flush' = Started("event", pending)
  /\ UNCHANGED <<inputVars, pending, failures, retry, target, result, lost>>

RetryFires ==
  /\ Waiting /\ retry
  /\ retry' = FALSE
  /\ flush' = Started("event", pending)
  /\ UNCHANGED <<inputVars, pending, failures, idle, target, result, lost>>

\* The channel is closed, or the context done: a last flush, then Apply returns.
Last(why) ==
  /\ IF Gathered(pending) = {} THEN result' = why /\ UNCHANGED flush
     ELSE flush' = Started(why, pending) /\ UNCHANGED result
  /\ UNCHANGED <<inputVars, pending, failures, retry, idle, target, lost>>

SeesClosed == Waiting /\ closed /\ items = <<>> /\ Last("ok")
SeesCancelled == Waiting /\ cancelled /\ Last("cancelled")

GiveUp ==
  /\ result = "none" /\ flush = NoFlush /\ failures >= MaxFailures
  /\ result' = "gave up"
  /\ UNCHANGED <<inputVars, pending, failures, retry, idle, flush, target, lost>>

-------------------------------------------------------------------------------
(***************************************************************************)
(* RunIncremental.                                                         *)
(***************************************************************************)
Working(stage, f) == flush.stage = stage /\ f \in flush.toDo
Did(f) == flush' = [flush EXCEPT !.toDo = @ \ {f}]
runVars == <<inputVars, pending, failures, retry, idle, result>>

Filtered(f) ==
  /\ Working(flush.stage, f) /\ f \notin Matching
  /\ Did(f)
  /\ UNCHANGED <<runVars, target, lost>>

\* The .strm goes, whichever file it is for.
Delete(f) ==
  /\ Working("delete", f) /\ f \in Matching /\ pending[f].op = "delete" /\ ~cancelled
  /\ target' = [target EXCEPT ![OutputOf[f]] = NoFile]
  /\ Did(f)
  /\ UNCHANGED <<runVars, lost>>

Creates == {f \in flush.toDo : pending[f].op # "delete"}

DeletesDone ==
  /\ flush.stage = "delete" /\ flush.toDo = Creates /\ ~cancelled
  /\ flush' = [flush EXCEPT !.stage = "create"]
  /\ UNCHANGED <<runVars, target, lost>>

\* processFile, one step here and all its steps in module Engine.  It writes the
\* .strm of a path that was announced, whether or not the file is still there.
Create(f) ==
  /\ Working("create", f) /\ f \in Matching
  /\ target' = [target EXCEPT ![OutputOf[f]] = f]
  /\ Did(f)
  /\ UNCHANGED <<runVars, lost>>

\* An error with one file ends up in the statistics, whatever its cause.
FileFails(f) ==
  /\ f \in Matching
  /\ \/ Working("delete", f) /\ pending[f].op = "delete" /\ ~cancelled
     \/ Working("create", f)
  /\ flush' = [flush EXCEPT !.toDo = @ \ {f}, !.failed = @ \cup {f}]
  /\ UNCHANGED <<runVars, target, lost>>

\* RunIncremental returns nil: the map is emptied.
FlushEnds_Bug ==
  /\ flush.stage = "create" /\ flush.toDo = {} /\ ~cancelled
  /\ failures' = 0 /\ retry' = FALSE
  /\ result' = IF flush.why = "event" THEN "none" ELSE flush.why
  /\ flush' = NoFlush
  /\ UNCHANGED <<inputVars, pending, idle, target, lost>>

FlushEnds ==
  /\ flush.stage = "create" /\ flush.toDo = {} /\ ~cancelled
  /\ pending' = Empty
  /\ lost' = lost \cup flush.failed
  /\ failures' = 0 /\ retry' = FALSE
  /\ result' = IF flush.why = "event" THEN "none" ELSE flush.why
  /\ flush' = NoFlush
  /\ UNCHANGED <<inputVars, idle, target>>

\* The only error of RunIncremental is that of the context; it keeps the map.
FlushFails ==
  /\ flush # NoFlush /\ cancelled
  /\ failures' = failures + 1
  /\ retry' = TRUE
  /\ result' = CASE flush.why = "event" -> "none"
                 [] flush.why = "ok" -> "final flush failed"
                 [] OTHER -> "cancelled"
  /\ flush' = NoFlush
  /\ UNCHANGED <<inputVars, pending, idle, target, lost>>

-------------------------------------------------------------------------------
Loop ==
  \/ Receive \/ TickerFires \/ IdleFires \/ RetryFires
  \/ SeesClosed \/ SeesCancelled \/ GiveUp

RunIncremental ==
  \/ \E f \in Files : Filtered(f) \/ Delete(f) \/ Create(f) \/ FileFails(f)
  \/ DeletesDone \/ FlushEnds \/ FlushFails

Next ==
  \/ \E f \in Files : Change(f)
  \/ HandleEvent \/ CloseItems \/ Cancel
  \/ Loop \/ RunIncremental

Spec == Init /\ [][Next]_vars

\* The goroutine runs, and a timer that was started fires.
LiveSpec == Spec /\ WF_vars(Loop \/ RunIncremental)

-------------------------------------------------------------------------------
(***************************************************************************)
(* Properties.                                                             *)
(***************************************************************************)
Results == {"none", "ok", "cancelled", "gave up", "final flush failed"}

TypeOK ==
  /\ strategy \in Strategies /\ source \in [Files -> Clock]
  /\ raw \in Seq([file: Files, op: Ops]) /\ items \in Seq(Items)
  /\ closed \in BOOLEAN /\ cancelled \in BOOLEAN
  /\ pending \in [Files -> Items \cup {NoItem}]
  /\ failures \in 0..MaxFailures /\ retry \in BOOLEAN /\ idle \in BOOLEAN
  /\ flush \in [why: {"none", "event", "ok", "cancelled"}, stage: {"none", "delete", "create"},
                toDo: SUBSET Files, failed: SUBSET Files]
  /\ target \in [Outputs -> Files \cup {NoFile}]
  /\ result \in Results /\ changes \in 0..MaxChanges /\ lost \subseteq Files /\ raced \subseteq Files

Alone(f) == \A g \in Files : OutputOf[g] = OutputOf[f] => g = f

Settled(f) ==
  /\ result \in {"none", "ok"}
  /\ \A i \in 1..Len(raw) : raw[i].file # f
  /\ \A i \in 1..Len(items) : items[i].file # f
  /\ pending[f] = NoItem /\ f \notin lost

HasStrm(f) == Settled(f) /\ Alone(f) /\ source[f] # 0 => target[OutputOf[f]] = f

\* A file that is there has its .strm once none of its events is under way, whichever
\* items were merged: deleted and made again, moved in with an older time, written
\* while a flush was at work (mergePlanItem keeps the latest), if the monitor handled
\* each event before the file changed again.
TimelyHasStrm == \A f \in Matching \ raced : HasStrm(f)

\* Apply returns without an error only if it took every item and none is pending.
OkLeavesNothing == result = "ok" => items = <<>> /\ pending = Empty

\* The loop counts no more failures than it may, and whatever it gathered, took or
\* has yet to take is applied when it returns without an error.
ApplyOK == TypeOK /\ OkLeavesNothing

\* With a timer, what was gathered is handed to the engine, or Apply returns.
PendingIsFlushed ==
  strategy # "batch" =>
    \A f \in Files : pending[f] # NoItem ~> (pending[f] = NoItem \/ result # "none")
===============================================================================
