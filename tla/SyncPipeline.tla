----------------------------- MODULE SyncPipeline -----------------------------
(***************************************************************************)
(* The sync pipeline of the application layer (internal/app/sync): the     *)
(* monitor watches a directory tree, the planner turns its events into     *)
(* plan items, a router of the executor hands these to the STRM generator  *)
(* and to the metadata replicator, and the executor returns when all of    *)
(* them have.                                                              *)
(*                                                                         *)
(*   changes -> raw -> monitor -> events -> planner -> router -> queue[k]  *)
(*                                              -> applier k -> target     *)
(*                                                                         *)
(* Each is a goroutine; events and queue[k] are buffered channels, the one *)
(* between planner and router is not.  A channel is closed when the        *)
(* goroutine that writes to it ends.  The monitor never blocks: an event   *)
(* for which there is no room is dropped.  The collectors of errors only   *)
(* log and end with the monitor and the planner.                           *)
(***************************************************************************)
EXTENDS Naturals, Sequences, FiniteSets

CONSTANTS
  Files,              \* files that may appear in the watched tree
  Kind,               \* Kind[f]: what the planner makes of the events of a file
  TargetOf,           \* TargetOf[f]: its .strm or its copy; a.mkv and a.mp4 share a.strm
  InNewDir,           \* files in a directory that is created while the monitor runs
  EventCap,           \* room in the monitor's channel (256)
  QueueCap,           \* room in each of the router's channels (100)
  MayAbort,           \* appliers that may give up
  MaxChanges          \* bound: changes of the tree

Kinds == {"strm", "meta"}

ASSUME PipelineAssumption ==
  /\ Kind \in [Files -> Kinds \cup {"skipped"}]
  /\ DOMAIN TargetOf = Files
  /\ InNewDir \subseteq Files
  /\ "none" \notin Files /\ "dir" \notin Files  \* the files of NoItem and NewDir
  /\ EventCap \in Nat \ {0} /\ QueueCap \in Nat \ {0}
  /\ MayAbort \subseteq Kinds
  /\ MaxChanges \in Nat

VARIABLES
  source,             \* source[f]: the file's content, 0 if there is none
  dir,                \* the new directory: absent, there, or watched
  raw,                \* what the operating system has reported and the monitor not read
  monitor,            \* the monitor's goroutine: on or done
  events,             \* the monitor's channel
  plan,               \* the planner's goroutine and the item it has in hand
  route,              \* the router's, likewise
  queue,              \* queue[k]: the router's channels
  apply,              \* apply[k]: the appliers' goroutines, item in hand and content read
  target,             \* target[t]: content of a .strm or metadata file, 0 if there is none
  cancelled,          \* the context is done
  changes,            \* changes of the tree so far
  excused,            \* history: files with an event that was dropped or not applied
  missed              \* history: files changed while their directory was not watched

vars == <<source, dir, raw, monitor, events, plan, route, queue, apply, target, cancelled,
          changes, excused, missed>>

Contents == 0..2
Targets == {TargetOf[f] : f \in Files}
Owners(t) == {f \in Files : TargetOf[f] = t}
Ops == {"create", "update", "delete"}
NoItem == [file |-> "none", op |-> "none"]
Items == [file: Files, op: Ops]
NewDir == [file |-> "dir", op |-> "create"]

Init ==
  /\ source \in [Files -> {0, 1}] /\ \A f \in InNewDir : source[f] = 0
  /\ dir = "absent"
  /\ raw = <<>> /\ events = <<>>
  /\ monitor = "on"
  /\ plan = [at |-> "wait", item |-> NoItem]
  /\ route = [at |-> "wait", item |-> NoItem]
  /\ queue = [k \in Kinds |-> <<>>]
  /\ apply = [k \in Kinds |-> [at |-> "wait", item |-> NoItem, read |-> 0]]
  /\ target = [t \in Targets |->
       IF \E f \in Owners(t) : source[f] = 1 /\ Kind[f] # "skipped" THEN 1 ELSE 0]
  /\ cancelled = FALSE
  /\ changes = 0
  /\ excused = {} /\ missed = {}

treeVars == <<source, dir, raw, changes, missed>>
stageVars == <<monitor, events, plan, route, queue, apply>>
appliedVars == <<target, excused>>

(***************************************************************************)
(* The watched tree.  A change is reported if its directory is watched.    *)
(***************************************************************************)
Exists(f) == f \in InNewDir => dir # "absent"
Watched(f) == f \in InNewDir => dir = "watched"

\* A file appears, is written or removed.
Change(f, content, op) ==
  /\ changes < MaxChanges /\ Exists(f)
  /\ source' = [source EXCEPT ![f] = content]
  /\ changes' = changes + 1
  /\ raw' = IF Watched(f) THEN Append(raw, [file |-> f, op |-> op]) ELSE raw
  /\ missed' = IF Watched(f) THEN missed ELSE missed \cup {f}
  /\ UNCHANGED <<dir, stageVars, appliedVars, cancelled>>

ChangeFile(f) ==
  \/ source[f] = 0 /\ Change(f, 1, "create")
  \/ source[f] # 0 /\ Change(f, 0, "delete")
  \/ source[f] # 0 /\ Change(f, 3 - source[f], "update")

MakeDir ==
  /\ changes < MaxChanges /\ InNewDir # {} /\ dir = "absent"
  /\ dir' = "there"
  /\ changes' = changes + 1
  /\ raw' = Append(raw, NewDir)
  /\ UNCHANGED <<source, missed, stageVars, appliedVars, cancelled>>

(***************************************************************************)
(* Monitor.                                                                *)
(***************************************************************************)
\* A new directory is watched from now on; what is already in it is not looked at.
WatchDir ==
  /\ monitor = "on" /\ raw # <<>> /\ Head(raw) = NewDir
  /\ dir' = "watched"
  /\ raw' = Tail(raw)
  /\ UNCHANGED <<source, changes, missed, stageVars, appliedVars, cancelled>>

\* sendEvent: into the channel, or dropped if there is no room or the context is done.
SendEvent(item) ==
  \/ /\ Len(events) < EventCap
     /\ events' = Append(events, item)
     /\ UNCHANGED excused
  \/ /\ (Len(events) >= EventCap \/ cancelled)
     /\ excused' = excused \cup {item.file}
     /\ UNCHANGED events

HandleEvent ==
  /\ monitor = "on" /\ raw # <<>> /\ Head(raw) # NewDir
  /\ raw' = Tail(raw)
  /\ SendEvent(Head(raw))
  /\ UNCHANGED <<source, dir, changes, missed, monitor, plan, route, queue, apply, target, cancelled>>

\* The context is done, the tree cannot be watched, or the watcher was closed.
MonitorEnds ==
  /\ monitor = "on"
  /\ monitor' = "done"
  /\ UNCHANGED <<treeVars, events, plan, route, queue, apply, appliedVars, cancelled>>

(***************************************************************************)
(* Planner.                                                                *)
(***************************************************************************)
PlanNext_Bug ==
  /\ plan.at = "wait" /\ events # <<>>
  /\ plan' = IF Kind[Head(events).file] = "skipped" \/ Head(events).op = "delete" THEN plan
             ELSE [at |-> "send", item |-> Head(events)]
  /\ events' = Tail(events)
  /\ UNCHANGED <<treeVars, monitor, route, queue, apply, appliedVars, cancelled>>

PlanNext ==
  /\ plan.at = "wait" /\ events # <<>>
  /\ plan' = IF Kind[Head(events).file] = "skipped" THEN plan
             ELSE [at |-> "send", item |-> Head(events)]
  /\ events' = Tail(events)
  /\ UNCHANGED <<treeVars, monitor, route, queue, apply, appliedVars, cancelled>>

PlanEnds_Bug ==
  /\ \/ plan.at = "wait" /\ monitor = "done"
     \/ plan.at \in {"wait", "send"} /\ cancelled
  /\ plan' = [at |-> "done", item |-> NoItem]
  /\ UNCHANGED <<treeVars, monitor, events, route, queue, apply, appliedVars, cancelled>>

\* The events are over, or the context is done, also while an item is in hand.
PlanEnds ==
  /\ \/ plan.at = "wait" /\ monitor = "done" /\ events = <<>>
     \/ plan.at \in {"wait", "send"} /\ cancelled
  /\ plan' = [at |-> "done", item |-> NoItem]
  /\ UNCHANGED <<treeVars, monitor, events, route, queue, apply, appliedVars, cancelled>>

(***************************************************************************)
(* Router.                                                                 *)
(***************************************************************************)
\* The unbuffered channel: planner and router move together.
HandOver ==
  /\ plan.at = "send" /\ route.at = "wait"
  /\ route' = [at |-> "send", item |-> plan.item]
  /\ plan' = [at |-> "wait", item |-> NoItem]
  /\ UNCHANGED <<treeVars, monitor, events, queue, apply, appliedVars, cancelled>>

Route_Bug ==
  LET k == Kind[route.item.file] IN
  /\ route.at = "send" /\ Len(queue[k]) < QueueCap
  /\ queue' = [queue EXCEPT ![k] = <<route.item>> \o @]
  /\ route' = [at |-> "wait", item |-> NoItem]
  /\ UNCHANGED <<treeVars, monitor, events, plan, apply, appliedVars, cancelled>>

Route ==
  LET k == Kind[route.item.file] IN
  /\ route.at = "send" /\ Len(queue[k]) < QueueCap
  /\ queue' = [queue EXCEPT ![k] = Append(@, route.item)]
  /\ route' = [at |-> "wait", item |-> NoItem]
  /\ UNCHANGED <<treeVars, monitor, events, plan, apply, appliedVars, cancelled>>

\* Only an item in hand makes the router look at the context.
RouteEnds_Bug ==
  /\ route.at = "wait" /\ plan.at = "done"
  /\ route' = [at |-> "done", item |-> NoItem]
  /\ UNCHANGED <<treeVars, monitor, events, plan, queue, apply, appliedVars, cancelled>>

RouteEnds ==
  /\ \/ route.at = "wait" /\ plan.at = "done"
     \/ route.at = "send" /\ cancelled
  /\ route' = [at |-> "done", item |-> NoItem]
  /\ UNCHANGED <<treeVars, monitor, events, plan, queue, apply, appliedVars, cancelled>>

(***************************************************************************)
(* Generator and replicator.                                               *)
(***************************************************************************)
Become(k, a) == apply' = [apply EXCEPT ![k] = a]
Idle == [at |-> "wait", item |-> NoItem, read |-> 0]

Take(k) ==
  /\ apply[k].at = "wait" /\ queue[k] # <<>>
  /\ Become(k, [at |-> "work", item |-> Head(queue[k]), read |-> 0])
  /\ queue' = [queue EXCEPT ![k] = Tail(@)]
  /\ UNCHANGED <<treeVars, monitor, events, plan, route, appliedVars, cancelled>>

\* The replicator copies into a temporary file what the source holds now.
CopySource(k) ==
  LET f == apply[k].item.file IN
  /\ k = "meta" /\ apply[k].at = "work" /\ apply[k].item.op # "delete" /\ source[f] # 0
  /\ Become(k, [apply[k] EXCEPT !.at = "rename", !.read = source[f]])
  /\ UNCHANGED <<treeVars, monitor, events, plan, route, queue, appliedVars, cancelled>>

\* The source is gone: the item failed, and the target stays as it is.
SourceGone(k) ==
  LET f == apply[k].item.file IN
  /\ k = "meta" /\ apply[k].at = "work" /\ apply[k].item.op # "delete" /\ source[f] = 0
  /\ Become(k, Idle)
  /\ UNCHANGED <<treeVars, monitor, events, plan, route, queue, appliedVars, cancelled>>

Rename(k) ==
  /\ apply[k].at = "rename"
  /\ target' = [target EXCEPT ![TargetOf[apply[k].item.file]] = apply[k].read]
  /\ Become(k, Idle)
  /\ UNCHANGED <<treeVars, monitor, events, plan, route, queue, excused, cancelled>>

\* A .strm file is written from the event alone.
WriteStrm(k) ==
  LET f == apply[k].item.file IN
  /\ k = "strm" /\ apply[k].at = "work" /\ apply[k].item.op # "delete"
  /\ target' = [target EXCEPT ![TargetOf[f]] = 1]
  /\ Become(k, Idle)
  /\ UNCHANGED <<treeVars, monitor, events, plan, route, queue, excused, cancelled>>

Remove(k) ==
  LET f == apply[k].item.file IN
  /\ apply[k].at = "work" /\ apply[k].item.op = "delete"
  /\ target' = [target EXCEPT ![TargetOf[f]] = 0]
  /\ Become(k, Idle)
  /\ UNCHANGED <<treeVars, monitor, events, plan, route, queue, excused, cancelled>>

\* Any file operation fails: counted, logged, and the next item is taken.  A write
\* of a .strm may have truncated it.
ApplyFails(k) ==
  LET item == apply[k].item IN
  /\ apply[k].at \in {"work", "rename"}
  /\ \/ UNCHANGED target
     \/ k = "strm" /\ item.op # "delete" /\ target' = [target EXCEPT ![TargetOf[item.file]] = 2]
  /\ excused' = excused \cup {item.file}
  /\ Become(k, Idle)
  /\ UNCHANGED <<treeVars, monitor, events, plan, route, queue, cancelled>>

\* The channel is closed and empty, or the context is done.
ApplyEnds(k) ==
  /\ apply[k].at = "wait"
  /\ (queue[k] = <<>> /\ route.at = "done") \/ cancelled
  /\ Become(k, [Idle EXCEPT !.at = "done"])
  /\ UNCHANGED <<treeVars, monitor, events, plan, route, queue, appliedVars, cancelled>>

\* An applier returns an error of its own, as EngineStrmGenerator does at once if its
\* strategy is unknown; the executor notes it and cancels nothing.
Abort(k) ==
  /\ k \in MayAbort /\ apply[k].at = "wait"
  /\ Become(k, [Idle EXCEPT !.at = "gone"])
  /\ excused' = excused \cup {f \in Files : Kind[f] = k}
  /\ UNCHANGED <<treeVars, monitor, events, plan, route, queue, target, cancelled>>

(***************************************************************************)
(* Executor.                                                               *)
(***************************************************************************)
Returned ==
  /\ monitor = "done" /\ plan.at = "done" /\ route.at = "done"
  /\ \A k \in Kinds : apply[k].at \in {"done", "gone"}

Cancel ==
  /\ ~cancelled /\ ~Returned
  /\ cancelled' = TRUE
  /\ UNCHANGED <<treeVars, stageVars, appliedVars>>

MonitorStep == WatchDir \/ HandleEvent \/ (cancelled /\ MonitorEnds)
PlanStep == PlanNext \/ PlanEnds
RouteStep == HandOver \/ Route \/ RouteEnds
ApplyStep(k) ==
  \/ Take(k) \/ CopySource(k) \/ SourceGone(k) \/ Rename(k) \/ WriteStrm(k) \/ Remove(k)
  \/ ApplyFails(k) \/ ApplyEnds(k)

Next ==
  \/ \E f \in Files : ChangeFile(f)
  \/ MakeDir
  \/ MonitorStep \/ MonitorEnds \/ PlanStep \/ RouteStep
  \/ \E k \in Kinds : ApplyStep(k) \/ Abort(k)
  \/ Cancel

Spec == Init /\ [][Next]_vars

\* Every goroutine that can take a step eventually takes one.
Fairness ==
  /\ WF_vars(MonitorStep) /\ WF_vars(PlanStep) /\ WF_vars(RouteStep)
  /\ \A k \in Kinds : WF_vars(ApplyStep(k))

LiveSpec == Spec /\ Fairness

(***************************************************************************)
(* Properties.                                                             *)
(***************************************************************************)
\* The stages hold what their program counters say, the channels no more than
\* there is room for.
TypeOK ==
  /\ source \in [Files -> Contents] /\ target \in [Targets -> Contents]
  /\ dir \in {"absent", "there", "watched"}
  /\ raw \in Seq(Items \cup {NewDir}) /\ events \in Seq(Items)
  /\ monitor \in {"on", "done"}
  /\ plan \in [at: {"wait", "done"}, item: {NoItem}] \cup [at: {"send"}, item: Items]
  /\ route \in [at: {"wait", "done"}, item: {NoItem}] \cup [at: {"send"}, item: Items]
  /\ queue \in [Kinds -> Seq(Items)]
  /\ apply \in [Kinds -> [at: {"wait", "done", "gone"}, item: {NoItem}, read: {0}]
                         \cup [at: {"work"}, item: Items, read: {0}]
                         \cup [at: {"rename"}, item: Items, read: Contents]]
  /\ cancelled \in BOOLEAN /\ changes \in 0..MaxChanges
  /\ excused \subseteq Files /\ missed \subseteq Files
  /\ Len(events) <= EventCap /\ \A k \in Kinds : Len(queue[k]) <= QueueCap

\* Nothing is under way for a file.
InHand(stage, f) == stage.item.file = f
Within(seq, f) == \E i \in 1..Len(seq) : seq[i].file = f
Settled(f) ==
  /\ ~Within(raw, f) /\ ~Within(events, f)
  /\ ~InHand(plan, f) /\ ~InHand(route, f)
  /\ \A k \in Kinds : ~Within(queue[k], f) /\ ~InHand(apply[k], f)

\* The target is what its only file is.
Mirrors(t, f) ==
  /\ Kind[f] = "strm" => (target[t] = 0 <=> source[f] = 0)
  /\ Kind[f] = "meta" => target[t] = source[f]

\* Of files that share a .strm, only that it does not outlive the last of them.
Mirrored(t) ==
  \A f \in Owners(t) :
    IF Owners(t) = {f} THEN Mirrors(t, f)
    ELSE Kind[f] # "skipped" /\ target[t] # 0 => \E g \in Owners(t) : source[g] # 0

\* While the pipeline runs, a target none of whose files has an event under way
\* mirrors them: events are applied in their order, whatever was changed again in
\* the meantime, and also if the replicator found the source gone (doc.go: the
\* changes of the source are applied).
SettledIsMirrored ==
  \A t \in Targets :
    (/\ monitor = "on" /\ ~cancelled
     /\ \A f \in Owners(t) : Settled(f) /\ f \notin excused \cup missed) => Mirrored(t)

\* A pipeline that returned without being cancelled, and none of whose appliers
\* gave up, has left nothing in its channels (executor.go:94-95: the channels are
\* closed by the router, and read until then).
NothingLeftBehind ==
  Returned /\ ~cancelled /\ (\A k \in Kinds : apply[k].at # "gone") =>
    events = <<>> /\ \A k \in Kinds : queue[k] = <<>>

\* The channels carry the items they are for, within their room, and are empty in
\* the end, unless Execute was cancelled or an applier gave up.
ChannelsOK == TypeOK /\ NothingLeftBehind

\* Once the context is done, Execute returns (executor.go:41: all goroutines end,
\* no deadlock).
CancelEnds == cancelled ~> Returned

\* A file that is no longer changed ends up mirrored, unless the pipeline ends
\* first, or an applier has given up and the others may wait for it for ever.
EventuallyMirrored ==
  \A t \in Targets :
    <>[](\/ cancelled \/ monitor = "done" \/ \E k \in Kinds : apply[k].at = "gone"
         \/ Owners(t) \cap (excused \cup missed) # {} \/ Mirrored(t))
===============================================================================
