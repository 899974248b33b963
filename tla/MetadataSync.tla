----------------------------- MODULE MetadataSync -----------------------------
(***************************************************************************)
(* The second half of a run: syncMetadata (internal/worker/executor.go)    *)
(* copies the metadata files beside the .strm files.  A producer goroutine *)
(* compares the listed entries with the target tree and sends what is to   *)
(* be copied over a buffered channel; MetadataReplicator.Apply             *)
(* (internal/app/sync) takes from it and copies by way of a temporary      *)
(* file, path.tmp, that it renames.                                        *)
(*                                                                         *)
(* Syncs are the runs at work at a time, of one job or of several that     *)
(* write to the same tree.  An entry stands for its own target path        *)
(* (buildTargetMetaPath keeps the name).  A file of the source is replaced *)
(* by a newer version, not rewritten in place.                             *)
(***************************************************************************)
EXTENDS Naturals, Sequences, FiniteSets

CONSTANTS
  Entries, Syncs,
  Strategies,         \* what a job may do with targets that exist: some of AllStrategies
  PreferMount,        \* whether a job copies from a mount, or downloads
  SizeOf, TimeOf,     \* of each version
  ListedSize,         \* what a listing says of the size; 0 is unknown, as it is for TimeOf
  WriteTimes,         \* the times a write may leave on a file
  Epsilon,            \* two seconds
  QueueCap,           \* room in the channel (100)
  MaxChanges,         \* bound: changes of the source
  NoEntry,
  Missing,            \* no file
  Blank, Torn         \* a file with nothing in it yet, or a mix of two

Versions == 1..MaxChanges + 1
Full == Versions
Contents == Full \cup {Missing, Blank, Torn}

AllStrategies == {"update", "overwrite", "skip"}

ASSUME MetadataAssumption ==
  /\ Strategies \subseteq AllStrategies
  /\ PreferMount \in BOOLEAN
  /\ SizeOf \in [Versions -> Nat] /\ TimeOf \in [Versions -> Nat]
  /\ ListedSize \in [Versions -> Nat] /\ \A v \in Versions : ListedSize[v] \in {0, SizeOf[v]}
  /\ WriteTimes \subseteq Nat /\ WriteTimes # {} /\ Epsilon \in Nat
  /\ QueueCap \in Nat \ {0} /\ MaxChanges \in Nat
  /\ NoEntry \notin Entries
  /\ Missing \notin Nat /\ Blank \notin Nat /\ Torn \notin Nat
  /\ Missing # Blank /\ Missing # Torn /\ Blank # Torn

VARIABLES
  remote,             \* remote[e]: version of the source file, 0 if there is none
  target,             \* target[e]: its copy
  tmp,                \* tmp[e]: content of the temporary file
  sync,               \* sync[c]: the locals of syncMetadata, of type Sync
  cancelled,          \* the context of the pool is done
  changes             \* changes of the source so far

syncVars == <<remote, target, tmp, sync, cancelled, changes>>

NoFile == [content |-> Missing, time |-> 0]

Sync ==
  [phase: {"idle", "list", "items", "ok", "failed"},
   strategy: Strategies \cup {"none"},
   listed: [Entries -> Versions \cup {0}],
   had: [Entries -> SUBSET (Versions \cup {0})],  \* history: versions since the listing
   toDo: SUBSET Entries,
   prod: {"none", "loop", "stat", "send", "closed"},  \* the producer
   item: Entries \cup {NoEntry},                      \* what it has in hand
   queue: Seq(Entries),
   pc: {"take", "open", "copy", "rename", "times"},   \* the replicator
   entry: Entries \cup {NoEntry},
   local: BOOLEAN,                                    \* it copies from the mount
   read: Versions \cup {0},                           \* the version it opened
   open: {"none", "tmp", "target", "lost"},  \* where the file it writes to is by now
   skipped: SUBSET Entries, preFailed: SUBSET Entries,
   failed: SUBSET Entries, done: SUBSET Entries,
   halted: BOOLEAN]                          \* history: the context was done meanwhile

NewSync(phase) ==
  [phase |-> phase, strategy |-> "none", listed |-> [e \in Entries |-> 0], had |-> [e \in Entries |-> {}],
   toDo |-> {}, prod |-> "none", item |-> NoEntry, queue |-> <<>>,
   pc |-> "take", entry |-> NoEntry, local |-> FALSE, read |-> 0, open |-> "none",
   skipped |-> {}, preFailed |-> {}, failed |-> {}, done |-> {}, halted |-> FALSE]

SyncInit ==
  /\ remote \in [Entries -> {0, 1}]
  /\ target = [e \in Entries |-> NoFile]
  /\ tmp = [e \in Entries |-> Missing]
  /\ sync = [c \in Syncs |-> NewSync("idle")]
  /\ cancelled = FALSE /\ changes = 0

AtWork(c) == sync[c].phase \in {"list", "items"}
Listed(c) == {e \in Entries : sync[c].listed[e] # 0}

\* The engine's part is over without an error.
Begin(c, s) ==
  /\ sync[c].phase \in {"idle", "ok"} /\ ~cancelled
  /\ sync' = [sync EXCEPT ![c] = [NewSync("list") EXCEPT !.strategy = s]]
  /\ UNCHANGED <<remote, target, tmp, cancelled, changes>>

List(c) ==
  /\ sync[c].phase = "list"
  /\ sync' = [sync EXCEPT ![c].phase = "items", ![c].prod = "loop",
       ![c].listed = remote, ![c].had = [e \in Entries |-> {remote[e]}],
       ![c].toDo = {e \in Entries : remote[e] # 0}]
  /\ UNCHANGED <<remote, target, tmp, cancelled, changes>>

\* The settings do not fit, the list or the client fails, or the context is done.
ListFails(c) ==
  /\ sync[c].phase = "list"
  /\ sync' = [sync EXCEPT ![c] = NewSync("idle")]
  /\ UNCHANGED <<remote, target, tmp, cancelled, changes>>

-------------------------------------------------------------------------------
(***************************************************************************)
(* The producer.                                                           *)
(***************************************************************************)
\* What the size of a file may be; a mix may have that of any.
Sizes(content) ==
  CASE content \in Full -> {SizeOf[content]}
    [] content = Torn -> {SizeOf[v] : v \in Versions}
    [] OTHER -> {0}

\* metaFileSame: what the listing does not say is not compared.
Same(size, time, v) ==
  /\ ListedSize[v] > 0 => size = ListedSize[v]
  /\ TimeOf[v] # 0 => time <= TimeOf[v] + Epsilon /\ TimeOf[v] <= time + Epsilon

Skips(c, e, size) ==
  /\ target[e].content # Missing
  /\ \/ sync[c].strategy = "skip"
     \/ sync[c].strategy = "update" /\ Same(size, target[e].time, sync[c].listed[e])

\* The context is looked at before an entry is, and never while it waits to send.
NextEntry(c, e) ==
  /\ sync[c].prod = "loop" /\ e \in sync[c].toDo /\ ~cancelled
  /\ sync' = [sync EXCEPT ![c].prod = "stat", ![c].item = e, ![c].toDo = @ \ {e}]
  /\ UNCHANGED <<remote, target, tmp, cancelled, changes>>

\* An older file passes, too.
Skip_Bug(c) ==
  LET e == sync[c].item
      time == TimeOf[sync[c].listed[e]] IN
  /\ sync[c].prod = "stat"
  /\ \/ \E size \in Sizes(target[e].content) : Skips(c, e, size)
     \/ target[e].content # Missing /\ (time # 0 => target[e].time <= time + Epsilon)
  /\ sync' = [sync EXCEPT ![c].prod = "loop", ![c].item = NoEntry, ![c].skipped = @ \cup {e}]
  /\ UNCHANGED <<remote, target, tmp, cancelled, changes>>

Skip(c) ==
  LET e == sync[c].item IN
  /\ sync[c].prod = "stat"
  /\ \E size \in Sizes(target[e].content) : Skips(c, e, size)
  /\ sync' = [sync EXCEPT ![c].prod = "loop", ![c].item = NoEntry, ![c].skipped = @ \cup {e}]
  /\ UNCHANGED <<remote, target, tmp, cancelled, changes>>

StatFails(c) ==
  LET e == sync[c].item IN
  /\ sync[c].prod = "stat"
  /\ sync' = [sync EXCEPT ![c].prod = "loop", ![c].item = NoEntry, ![c].preFailed = @ \cup {e}]
  /\ UNCHANGED <<remote, target, tmp, cancelled, changes>>

Plan(c) ==
  /\ sync[c].prod = "stat"
  /\ \E size \in Sizes(target[sync[c].item].content) : ~Skips(c, sync[c].item, size)
  /\ sync' = [sync EXCEPT ![c].prod = "send"]
  /\ UNCHANGED <<remote, target, tmp, cancelled, changes>>

Send(c) ==
  /\ sync[c].prod = "send" /\ Len(sync[c].queue) < QueueCap
  /\ sync' = [sync EXCEPT ![c].prod = "loop", ![c].item = NoEntry,
                          ![c].queue = Append(@, sync[c].item)]
  /\ UNCHANGED <<remote, target, tmp, cancelled, changes>>

Close_Bug(c) ==
  /\ sync[c].prod = "loop" /\ sync[c].toDo = {} /\ sync[c].preFailed = {}
  /\ sync' = [sync EXCEPT ![c].prod = "closed"]
  /\ UNCHANGED <<remote, target, tmp, cancelled, changes>>

\* A deferred close: on every way out.
Close(c) ==
  /\ sync[c].prod = "loop" /\ (sync[c].toDo = {} \/ cancelled)
  /\ sync' = [sync EXCEPT ![c].prod = "closed"]
  /\ UNCHANGED <<remote, target, tmp, cancelled, changes>>

Producer(c) ==
  \/ \E e \in Entries : NextEntry(c, e)
  \/ Skip(c) \/ StatFails(c) \/ Plan(c) \/ Send(c) \/ Close(c)

-------------------------------------------------------------------------------
(***************************************************************************)
(* The replicator.                                                         *)
(***************************************************************************)
Take(c) ==
  /\ sync[c].phase = "items" /\ sync[c].pc = "take" /\ sync[c].queue # <<>>
  /\ sync' = [sync EXCEPT ![c].pc = "open", ![c].entry = Head(sync[c].queue),
                          ![c].queue = Tail(@), ![c].local = PreferMount]
  /\ UNCHANGED <<remote, target, tmp, cancelled, changes>>

\* The temporary file is created or truncated; a local copy has opened the source.
Open(c) ==
  LET e == sync[c].entry IN
  /\ sync[c].pc = "open" /\ (sync[c].local => remote[e] # 0)
  /\ tmp' = [tmp EXCEPT ![e] = Blank]
  /\ sync' = [sync EXCEPT ![c].pc = "copy", ![c].open = "tmp",
                          ![c].read = IF sync[c].local THEN remote[e] ELSE 0]
  /\ UNCHANGED <<remote, target, cancelled, changes>>

\* The version that is copied; a download opens it only now.
Source(c) == IF sync[c].local THEN sync[c].read ELSE remote[sync[c].entry]

\* Into the file that was opened, whatever its name is by now.
CopyInto(old, v) == IF old \in {Blank, v} THEN v ELSE Torn

\* The copy goes to the target itself.
Copy_Bug(c) ==
  LET e == sync[c].entry
      v == Source(c) IN
  /\ sync[c].pc = "copy" /\ v # 0
  /\ tmp' = [tmp EXCEPT ![e] = CopyInto(@, v)]
  /\ \E n \in WriteTimes : target' = [target EXCEPT ![e] = [content |-> Torn, time |-> n]]
  /\ sync' = [sync EXCEPT ![c].pc = "rename", ![c].read = v]
  /\ UNCHANGED <<remote, cancelled, changes>>

Copy(c) ==
  LET e == sync[c].entry
      v == Source(c) IN
  /\ sync[c].pc = "copy" /\ v # 0
  /\ tmp' = IF sync[c].open = "tmp" THEN [tmp EXCEPT ![e] = CopyInto(@, v)] ELSE tmp
  /\ IF sync[c].open # "target" THEN target' = target
     ELSE \E n \in WriteTimes :
            target' = [target EXCEPT ![e] = [content |-> CopyInto(@.content, v), time |-> n]]
  /\ sync' = [sync EXCEPT ![c].pc = "rename", ![c].read = v]
  /\ UNCHANGED <<remote, cancelled, changes>>

\* Where the files that others have open for e are after path.tmp was renamed or
\* removed.
Moved(e, to) ==
  [d \in Syncs |->
     IF sync[d].entry # e THEN sync[d]
     ELSE [sync[d] EXCEPT !.open = CASE @ = "tmp" -> to
                                     [] @ = "target" /\ to = "target" -> "lost"
                                     [] OTHER -> @]]

Rename(c) ==
  LET e == sync[c].entry IN
  /\ sync[c].pc = "rename" /\ tmp[e] # Missing
  /\ \E n \in WriteTimes : target' = [target EXCEPT ![e] = [content |-> tmp[e], time |-> n]]
  /\ tmp' = [tmp EXCEPT ![e] = Missing]
  /\ sync' = [Moved(e, "target") EXCEPT ![c].pc = "times", ![c].open = "none"]
  /\ UNCHANGED <<remote, cancelled, changes>>

Finish(c) ==
  [sync EXCEPT ![c].pc = "take", ![c].entry = NoEntry, ![c].local = FALSE,
               ![c].read = 0, ![c].open = "none",
               ![c].done = @ \cup {sync[c].entry}]

\* The copy gets the time that was listed, if one was.
Chtimes(c) ==
  LET e == sync[c].entry
      time == TimeOf[sync[c].listed[e]] IN
  /\ sync[c].pc = "times"
  /\ target' = IF time = 0 \/ target[e].content = Missing THEN target
               ELSE [target EXCEPT ![e].time = time]
  /\ sync' = Finish(c)
  /\ UNCHANGED <<remote, tmp, cancelled, changes>>

\* Its error is only logged.
ChtimesFails(c) ==
  /\ sync[c].pc = "times"
  /\ sync' = Finish(c)
  /\ UNCHANGED <<remote, target, tmp, cancelled, changes>>

Failed(c, s) ==
  [s EXCEPT ![c].pc = "take", ![c].entry = NoEntry, ![c].local = FALSE,
            ![c].read = 0, ![c].open = "none",
            ![c].failed = @ \cup {sync[c].entry}]

\* The source is gone, or a directory or file cannot be opened.
OpenFails(c) ==
  /\ sync[c].pc = "open"
  /\ sync' = Failed(c, sync)
  /\ UNCHANGED <<remote, target, tmp, cancelled, changes>>

\* The copy or the rename fails, also because path.tmp is no longer there;
\* os.Remove takes whatever has that name.
CopyFails(c) ==
  LET e == sync[c].entry IN
  /\ sync[c].pc \in {"copy", "rename"}
  /\ tmp' = [tmp EXCEPT ![e] = Missing]
  /\ sync' = Failed(c, Moved(e, "lost"))
  /\ UNCHANGED <<remote, target, cancelled, changes>>

\* A download that fails, before or after path.tmp was created, is followed by a
\* copy from the mount.
FallBack(c) ==
  LET e == sync[c].entry
      hasTmp == sync[c].pc # "open"
      again == IF hasTmp THEN Moved(e, "lost") ELSE sync IN
  /\ sync[c].pc \in {"open", "copy", "rename"} /\ ~sync[c].local
  /\ tmp' = IF hasTmp THEN [tmp EXCEPT ![e] = Missing] ELSE tmp
  /\ sync' = [again EXCEPT ![c].pc = "open", ![c].local = TRUE,
                           ![c].read = 0, ![c].open = "none"]
  /\ UNCHANGED <<remote, target, cancelled, changes>>

ApplyEnds_Bug(c) ==
  /\ sync[c].phase = "items" /\ sync[c].pc = "take"
  /\ sync[c].queue = <<>> /\ sync[c].toDo = {}
  /\ sync' = [sync EXCEPT ![c].phase = "ok"]
  /\ UNCHANGED <<remote, target, tmp, cancelled, changes>>

\* The channel is closed, also if the producer closed it because of the context.
ApplyEnds(c) ==
  /\ sync[c].phase = "items" /\ sync[c].pc = "take"
  /\ sync[c].queue = <<>> /\ sync[c].prod = "closed"
  /\ sync' = [sync EXCEPT ![c].phase = "ok"]
  /\ UNCHANGED <<remote, target, tmp, cancelled, changes>>

\* Nobody takes from the channel any more; the producer is not told.
ApplyCancelled(c) ==
  /\ sync[c].phase = "items" /\ sync[c].pc = "take" /\ cancelled
  /\ sync' = [sync EXCEPT ![c].phase = "failed"]
  /\ UNCHANGED <<remote, target, tmp, cancelled, changes>>

Replicator(c) ==
  \/ Take(c) \/ Open(c) \/ Copy(c) \/ Rename(c) \/ Chtimes(c) \/ ChtimesFails(c)
  \/ OpenFails(c) \/ CopyFails(c) \/ FallBack(c)
  \/ ApplyEnds(c) \/ ApplyCancelled(c)

-------------------------------------------------------------------------------
\* The source gets a version it never had, or loses the file.
Change(e) ==
  /\ changes < MaxChanges
  /\ \E v \in {0, changes + 2} :
       /\ v # remote[e]
       /\ remote' = [remote EXCEPT ![e] = v]
       /\ sync' = [c \in Syncs |->
            IF sync[c].phase = "items" THEN [sync[c] EXCEPT !.had[e] = @ \cup {v}]
            ELSE sync[c]]
  /\ changes' = changes + 1
  /\ UNCHANGED <<target, tmp, cancelled>>

\* Pool.Stop.
ContextEnds ==
  /\ ~cancelled
  /\ cancelled' = TRUE
  /\ sync' = [c \in Syncs |-> [sync[c] EXCEPT !.halted = AtWork(c)]]
  /\ UNCHANGED <<remote, target, tmp, changes>>

\* The process ends at any point and is started again; files stay as they are.
Restart ==
  /\ cancelled' = FALSE
  /\ sync' = [c \in Syncs |-> NewSync("idle")]
  /\ UNCHANGED <<remote, target, tmp, changes>>

SyncStep(c) == List(c) \/ ListFails(c) \/ Producer(c) \/ Replicator(c)

SyncNext ==
  \/ \E c \in Syncs : SyncStep(c) \/ \E s \in Strategies : Begin(c, s)
  \/ \E e \in Entries : Change(e)
  \/ ContextEnds \/ Restart

SyncSpec == SyncInit /\ [][SyncNext]_syncVars

\* Goroutines that can go on do; ending and starting the process is up to the user.
SyncLiveSpec ==
  /\ SyncSpec
  /\ \A c \in Syncs :
       /\ WF_syncVars(List(c) \/ ListFails(c))
       /\ WF_syncVars(Producer(c)) /\ WF_syncVars(Replicator(c))

-------------------------------------------------------------------------------
(***************************************************************************)
(* Properties.                                                             *)
(***************************************************************************)
SyncTypeOK ==
  /\ remote \in [Entries -> Versions \cup {0}]
  /\ target \in [Entries -> [content: Contents, time: Nat]]
  /\ tmp \in [Entries -> Contents]
  /\ sync \in [Syncs -> Sync]
  /\ cancelled \in BOOLEAN /\ changes \in 0..MaxChanges
  /\ \A c \in Syncs : Len(sync[c].queue) <= QueueCap

\* A target is a complete copy of some version at any moment, whatever fails and
\* whenever the process ends: the temporary file is renamed, and one that an earlier
\* process left behind does no harm (metadata_replicator.go:270: atomically).
TargetIsWhole == \A e \in Entries : target[e].content \in Full \cup {Missing}

\* What Apply and the producer account for.
Handled(c) == sync[c].skipped \cup sync[c].preFailed \cup sync[c].failed \cup sync[c].done

\* A sync that returned without an error, and whose context was not done meanwhile,
\* has dealt with every entry of the listing exactly once, and its producer no longer
\* changes the counters that are read after Apply.
OkCoversListing ==
  \A c \in Syncs : sync[c].phase = "ok" =>
    /\ sync[c].prod = "closed"
    /\ ~sync[c].halted => Handled(c) = Listed(c)
    /\ sync[c].skipped \cap (sync[c].failed \cup sync[c].done) = {}

\* Files, channel and counters have their types, and the counters of a sync that
\* returned without an error account for every entry of its listing.
AccountsOK == SyncTypeOK /\ OkCoversListing

\* What a sync that returned without an error copied is a version the source has had
\* since the listing.  What it left in place is, too, or is a whole older copy that
\* looks like one by its size and by the time the file has: which is that of the
\* listing it was copied under, or, if it could not be set, that of its writing.
OkIsCurrent ==
  \A c \in Syncs : sync[c].phase = "ok" /\ sync[c].strategy # "skip" =>
    /\ \A e \in sync[c].done : target[e].content \in sync[c].had[e] \ {0}
    /\ \A e \in sync[c].skipped :
         /\ target[e].content \in Full
         /\ \E v \in sync[c].had[e] \ {0} :
              Same(SizeOf[target[e].content], target[e].time, v)

\* A sync that has begun is over at last, or its process is.
SyncEnds == \A c \in Syncs : AtWork(c) ~> ~AtWork(c)
===============================================================================
