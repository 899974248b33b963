--------------------------- MODULE ExecutionProofs ---------------------------
(***************************************************************************)
(* Proofs about the metadata synchronisation, for every set of entries,    *)
(* channel of any size, any number of versions with any sizes and times,   *)
(* and every failure:                                                      *)
(*                                                                         *)
(*   1. the counters of a sync account for its listing, however the syncs  *)
(*      interleave (THEOREM AccountsOKHolds, from AccountsInv);            *)
(*   2. a target is a whole copy, as long as one sync at a time writes to  *)
(*      the tree (THEOREM TargetIsWholeHolds, from WholeInv);              *)
(*   3. what one sync after another leaves is current (THEOREM             *)
(*      OkIsCurrentHolds, from CurrentInv);                                *)
(*   4. with the handlers and goroutines of JobControl around the syncs    *)
(*      (module Execution), one sync at a time is at work in the tree of a *)
(*      job, which gives 2 for whole executions (THEOREM                   *)
(*      CopiesAreWholeHolds), and a run completes only when its listing    *)
(*      was dealt with (THEOREM CompletedIsHandledHolds), from LinkInv.    *)
(*                                                                         *)
(* The counters are right because every listed entry is in exactly one     *)
(* place: to be looked at, with the producer, in the channel, with the     *)
(* replicator, or counted.  What is copied is current because it was read  *)
(* from the source after the listing.  Of what is left in place one only   *)
(* knows how it looks: nothing is assumed of sizes, times and clocks.      *)
(***************************************************************************)
EXTENDS Execution, JobControlProofs

Waiting(s) == {s.queue[i] : i \in 1..Len(s.queue)}
Counted(s) == s.skipped \cup s.preFailed \cup s.failed \cup s.done

\* Every listed entry is in one place on its way.
Placed(s) ==
  /\ {e \in Entries : s.listed[e] # 0} =
       s.toDo \cup ({s.item, s.entry} \ {NoEntry}) \cup Waiting(s) \cup Counted(s)
  /\ s.toDo \cap (Waiting(s) \cup Counted(s) \cup {s.item, s.entry}) = {}
  /\ s.item \notin Waiting(s) \cup Counted(s)
  /\ s.entry \notin Waiting(s) \cup Counted(s)
  /\ s.item = s.entry => s.item = NoEntry
  /\ Waiting(s) \cap Counted(s) = {}
  /\ \A i, j \in 1..Len(s.queue) : s.queue[i] = s.queue[j] => i = j
  /\ s.skipped \cap (s.failed \cup s.done) = {}

LocalOK(s) ==
  /\ (s.item # NoEntry) <=> (s.prod \in {"stat", "send"})
  /\ (s.entry # NoEntry) <=> (s.pc # "take")
  /\ s.pc # "take" => s.phase = "items"
  /\ s.pc \in {"rename", "times"} => s.read \in Versions
  /\ s.phase \in {"idle", "list"} =>
       /\ s.prod = "none" /\ s.queue = <<>> /\ s.toDo = {} /\ Counted(s) = {}
  /\ s.phase \in {"list", "items", "ok"} => s.strategy \in Strategies
  /\ s.phase = "items" => s.prod # "none"
  /\ s.phase = "ok" => s.prod = "closed" /\ s.queue = <<>>
  /\ s.prod = "closed" => (s.toDo = {} \/ cancelled)
  /\ (cancelled /\ s.phase \in {"list", "items"}) => s.halted
  /\ s.phase = "ok" => (s.toDo = {} \/ s.halted)
  /\ Placed(s)

Sane(s) == s \in Sync /\ Len(s.queue) <= QueueCap /\ LocalOK(s)

FilesOK ==
  /\ remote \in [Entries -> Versions \cup {0}]
  /\ target \in [Entries -> [content: Contents, time: Nat]]
  /\ tmp \in [Entries -> Contents]
  /\ cancelled \in BOOLEAN /\ changes \in 0..MaxChanges

SyncsOK == sync \in [Syncs -> Sync] /\ \A c \in Syncs : Sane(sync[c])

AccountsInv == FilesOK /\ SyncsOK

\* The temporary file belongs to the sync that copies, until it is the target.
CopyOK(s) ==
  /\ s.pc = "copy" => s.open = "tmp" /\ tmp[s.entry] = Blank
  /\ s.pc = "rename" => tmp[s.entry] = s.read
  /\ s.pc = "times" => target[s.entry].content = s.read

WholeInv == TargetIsWhole /\ \A c \in Syncs : CopyOK(sync[c])

\* What is being copied is a version since the listing.
ReadOK(s) ==
  (s.pc \in {"rename", "times"} \/ (s.pc = "copy" /\ s.local)) => s.read \in s.had[s.entry]

ListingOK(s) ==
  s.phase = "items" => \A e \in Entries : remote[e] \in s.had[e] /\ s.listed[e] \in s.had[e]

CopiesOK(s) ==
  s.phase \in {"items", "ok"} =>
    /\ \A e \in s.done : target[e].content \in s.had[e] \ {0}
    /\ s.strategy # "skip" => \A e \in s.skipped :
         /\ target[e].content \in Full
         /\ \E v \in s.had[e] \ {0} : Same(SizeOf[target[e].content], target[e].time, v)

CurrentInv ==
  /\ WholeInv
  /\ \A c \in Syncs : ReadOK(sync[c]) /\ ListingOK(sync[c]) /\ CopiesOK(sync[c])

--------------------------------------------------------------------------------
(***************************************************************************)
(* The channel.                                                            *)
(***************************************************************************)
LEMMA Appended ==
  ASSUME NEW S, NEW q \in Seq(S), NEW x \in S,
         \A i, j \in 1..Len(q) : q[i] = q[j] => i = j,
         x \notin {q[i] : i \in 1..Len(q)}
  PROVE  LET p == Append(q, x) IN
         /\ p \in Seq(S) /\ Len(p) = Len(q) + 1
         /\ {p[i] : i \in 1..Len(p)} = {q[i] : i \in 1..Len(q)} \cup {x}
         /\ \A i, j \in 1..Len(p) : p[i] = p[j] => i = j
<1> DEFINE p == Append(q, x)
<1>1. /\ p \in Seq(S) /\ Len(p) = Len(q) + 1 /\ Len(q) \in Nat
      /\ \A i \in 1..Len(q) : p[i] = q[i]
      /\ p[Len(q) + 1] = x
  OBVIOUS
<1> HIDE DEF p
<1>2. 1..Len(p) = (1..Len(q)) \cup {Len(q) + 1}
  BY <1>1
<1>3. {p[i] : i \in 1..Len(p)} = {q[i] : i \in 1..Len(q)} \cup {x}
  <2>1. \A y : y \in {p[i] : i \in 1..Len(p)} <=> \E i \in 1..Len(p) : p[i] = y
    OBVIOUS
  <2>2. \A y : (\E i \in 1..Len(p) : p[i] = y) <=> (y = x \/ \E i \in 1..Len(q) : q[i] = y)
    BY <1>1, <1>2
  <2>3. \A y : y \in {q[i] : i \in 1..Len(q)} \cup {x}
               <=> (y = x \/ \E i \in 1..Len(q) : q[i] = y)
    OBVIOUS
  <2>4. \A y : y \in {p[i] : i \in 1..Len(p)} <=> y \in {q[i] : i \in 1..Len(q)} \cup {x}
    BY <2>1, <2>2, <2>3
  <2>5. QED
    BY <2>4
<1>4. ASSUME NEW i \in 1..Len(p), NEW j \in 1..Len(p), p[i] = p[j]
      PROVE  i = j
  BY <1>1, <1>2, <1>4
<1>5. QED
  BY <1>1, <1>3, <1>4 DEF p

LEMMA Taken ==
  ASSUME NEW S, NEW q \in Seq(S), q # <<>>,
         \A i, j \in 1..Len(q) : q[i] = q[j] => i = j
  PROVE  LET p == Tail(q) IN
         /\ p \in Seq(S) /\ Len(p) = Len(q) - 1 /\ Len(q) \in Nat \ {0} /\ Head(q) \in S
         /\ Head(q) \in {q[i] : i \in 1..Len(q)}
         /\ {p[i] : i \in 1..Len(p)} = {q[i] : i \in 1..Len(q)} \ {Head(q)}
         /\ \A i, j \in 1..Len(p) : p[i] = p[j] => i = j
<1> DEFINE p == Tail(q)
<1>1. /\ p \in Seq(S) /\ Len(p) = Len(q) - 1 /\ Len(q) \in Nat \ {0}
      /\ Head(q) = q[1] /\ Head(q) \in S
      /\ \A i \in 1..Len(p) : p[i] = q[i + 1]
  OBVIOUS
<1> HIDE DEF p
<1>2. {p[i] : i \in 1..Len(p)} = {q[i] : i \in 1..Len(q)} \ {Head(q)}
  <2>1. \A i \in 1..Len(p) : i + 1 \in 1..Len(q) /\ q[i + 1] # q[1]
    BY <1>1
  <2>2. \A i \in 1..Len(q) : i # 1 => i - 1 \in 1..Len(p) /\ p[i - 1] = q[i]
    BY <1>1
  <2>3. QED
    BY <1>1, <2>1, <2>2
<1>3. ASSUME NEW i \in 1..Len(p), NEW j \in 1..Len(p), p[i] = p[j]
      PROVE  i = j
  BY <1>1, <1>3
<1>4. QED
  BY <1>1, <1>2, <1>3 DEF p

--------------------------------------------------------------------------------
(***************************************************************************)
(* The locals of one sync.                                                 *)
(***************************************************************************)
LEMMA NewSyncSane ==
  ASSUME NEW phase \in {"idle", "list"}, NEW strategy \in Strategies \cup {"none"},
         phase = "list" => strategy \in Strategies /\ ~cancelled
  PROVE  Sane([NewSync(phase) EXCEPT !.strategy = strategy])
<1> DEFINE s == [NewSync(phase) EXCEPT !.strategy = strategy]
<1>1. /\ s.phase = phase /\ s.strategy = strategy
      /\ s.listed = [e \in Entries |-> 0] /\ s.had = [e \in Entries |-> {}]
      /\ s.toDo = {} /\ s.prod = "none" /\ s.item = NoEntry /\ s.queue = <<>>
      /\ s.pc = "take" /\ s.entry = NoEntry /\ s.local = FALSE /\ s.read = 0 /\ s.open = "none"
      /\ s.skipped = {} /\ s.preFailed = {} /\ s.failed = {} /\ s.done = {} /\ s.halted = FALSE
  BY DEF NewSync
<1>2. s \in Sync
  <2> DEFINE nothing == [e \in Entries |-> 0]
             never == [e \in Entries |-> {}]
  <2>1. /\ nothing \in [Entries -> Versions \cup {0}]
        /\ never \in [Entries -> SUBSET (Versions \cup {0})]
        /\ <<>> \in Seq(Entries)
    OBVIOUS
  <2>2. NewSync(phase) =
          [phase |-> phase, strategy |-> "none", listed |-> nothing, had |-> never,
           toDo |-> {}, prod |-> "none", item |-> NoEntry, queue |-> <<>>,
           pc |-> "take", entry |-> NoEntry, local |-> FALSE, read |-> 0, open |-> "none",
           skipped |-> {}, preFailed |-> {}, failed |-> {}, done |-> {}, halted |-> FALSE]
    BY DEF NewSync
  <2> HIDE DEF nothing, never
  <2>3. NewSync(phase) \in Sync
    BY <2>1, <2>2 DEF Sync
  <2>4. QED
    BY <2>3 DEF Sync
<1> HIDE DEF s
<1>3. Waiting(s) = {} /\ Len(s.queue) = 0 /\ Counted(s) = {}
  BY <1>1 DEF Waiting, Counted
<1>4. Placed(s)
  BY <1>1, <1>3 DEF Placed
<1>5. LocalOK(s)
  BY <1>1, <1>3, <1>4 DEF LocalOK
<1>6. Len(s.queue) <= QueueCap
  BY <1>3, MetadataAssumption
<1>7. QED
  BY <1>2, <1>5, <1>6 DEF Sane, s

\* Where the entries are is all that Placed says.
LEMMA SamePlaces ==
  ASSUME NEW s, NEW t, Placed(s),
         t.listed = s.listed, t.toDo = s.toDo, t.item = s.item, t.entry = s.entry,
         t.queue = s.queue, t.skipped = s.skipped, t.preFailed = s.preFailed,
         t.failed = s.failed, t.done = s.done
  PROVE  Placed(t) /\ Counted(t) = Counted(s)
<1>1. Waiting(t) = Waiting(s) /\ Counted(t) = Counted(s)
  BY DEF Waiting, Counted
<1>2. QED
  BY <1>1 DEF Placed

LEMMA NextEntrySane ==
  ASSUME NEW s, NEW e \in Entries, Sane(s), s.prod = "loop", e \in s.toDo
  PROVE  Sane([s EXCEPT !.prod = "stat", !.item = e, !.toDo = @ \ {e}])
<1> DEFINE t == [s EXCEPT !.prod = "stat", !.item = e, !.toDo = @ \ {e}]
<1>1. t \in Sync /\ Len(t.queue) <= QueueCap
  BY DEF Sane, Sync
<1>2. Waiting(t) = Waiting(s)
  BY DEF Waiting, Sane, Sync
<1>3. Placed(t)
  BY <1>2, MetadataAssumption DEF Sane, LocalOK, Placed, Counted, Sync
<1>4. LocalOK(t)
  BY <1>3, MetadataAssumption DEF Sane, LocalOK, Counted, Sync
<1>5. QED
  BY <1>1, <1>4 DEF Sane

LEMMA SkipSane ==
  ASSUME NEW s, Sane(s), s.prod = "stat"
  PROVE  Sane([s EXCEPT !.prod = "loop", !.item = NoEntry, !.skipped = @ \cup {s.item}])
<1> DEFINE t == [s EXCEPT !.prod = "loop", !.item = NoEntry,
                          !.skipped = @ \cup {s.item}]
<1>1. t \in Sync /\ Len(t.queue) <= QueueCap
  BY DEF Sane, Sync, LocalOK
<1>2. Waiting(t) = Waiting(s)
  BY DEF Waiting, Sane, Sync
<1>3. Placed(t)
  BY <1>2, MetadataAssumption DEF Sane, LocalOK, Placed, Counted, Sync
<1>4. LocalOK(t)
  BY <1>3, MetadataAssumption DEF Sane, LocalOK, Counted, Sync
<1>5. QED
  BY <1>1, <1>4 DEF Sane

LEMMA StatFailsSane ==
  ASSUME NEW s, Sane(s), s.prod = "stat"
  PROVE  Sane([s EXCEPT !.prod = "loop", !.item = NoEntry,
                        !.preFailed = @ \cup {s.item}])
<1> DEFINE t == [s EXCEPT !.prod = "loop", !.item = NoEntry,
                          !.preFailed = @ \cup {s.item}]
<1>1. t \in Sync /\ Len(t.queue) <= QueueCap
  BY DEF Sane, Sync, LocalOK
<1>2. Waiting(t) = Waiting(s)
  BY DEF Waiting, Sane, Sync
<1>3. Placed(t)
  BY <1>2, MetadataAssumption DEF Sane, LocalOK, Placed, Counted, Sync
<1>4. LocalOK(t)
  BY <1>3, MetadataAssumption DEF Sane, LocalOK, Counted, Sync
<1>5. QED
  BY <1>1, <1>4 DEF Sane

LEMMA PlanSane ==
  ASSUME NEW s, Sane(s), s.prod = "stat"
  PROVE  Sane([s EXCEPT !.prod = "send"])
<1> DEFINE t == [s EXCEPT !.prod = "send"]
<1>1. t \in Sync /\ Len(t.queue) <= QueueCap
  BY DEF Sane, Sync
<1>2. /\ t.listed = s.listed /\ t.toDo = s.toDo /\ t.item = s.item /\ t.entry = s.entry
      /\ t.queue = s.queue /\ t.skipped = s.skipped /\ t.preFailed = s.preFailed
      /\ t.failed = s.failed /\ t.done = s.done
      /\ t.phase = s.phase /\ t.prod = "send" /\ t.pc = s.pc /\ t.read = s.read
      /\ t.strategy = s.strategy /\ t.halted = s.halted
  BY DEF Sane, Sync
<1> HIDE DEF t
<1>3. Placed(t) /\ Counted(t) = Counted(s)
  BY <1>2, SamePlaces DEF Sane, LocalOK
<1>4. LocalOK(t)
  BY <1>2, <1>3 DEF Sane, LocalOK
<1>5. QED
  BY <1>1, <1>4 DEF Sane, t

LEMMA SendSane ==
  ASSUME NEW s, NEW q \in Seq(Entries), Sane(s), s.prod = "send", Len(q) <= QueueCap,
         {q[i] : i \in 1..Len(q)} = Waiting(s) \cup {s.item},
         \A i, j \in 1..Len(q) : q[i] = q[j] => i = j
  PROVE  Sane([s EXCEPT !.prod = "loop", !.item = NoEntry, !.queue = q])
<1> DEFINE t == [s EXCEPT !.prod = "loop", !.item = NoEntry, !.queue = q]
<1>1. t \in Sync /\ Len(t.queue) <= QueueCap
  BY DEF Sane, Sync
<1>2. Waiting(t) = Waiting(s) \cup {s.item}
  <2>1. s \in Sync
    BY DEF Sane
  <2>2. t.queue = q
    BY <2>1 DEF Sync
  <2> HIDE DEF t
  <2> DEFINE W(x) == {x[i] : i \in 1..Len(x)}
  <2>3. W(q) = Waiting(s) \cup {s.item}
    OBVIOUS
  <2>4. Waiting(t) = W(t.queue)
    BY DEF Waiting
  <2> HIDE DEF W
  <2>5. QED
    BY <2>2, <2>3, <2>4
<1>3. Placed(t)
  BY <1>2, MetadataAssumption DEF Sane, LocalOK, Placed, Counted, Sync
<1>4. LocalOK(t)
  BY <1>3, MetadataAssumption DEF Sane, LocalOK, Counted, Sync
<1>5. QED
  BY <1>1, <1>4 DEF Sane

LEMMA CloseSane ==
  ASSUME NEW s, Sane(s), s.prod = "loop", s.toDo = {} \/ cancelled
  PROVE  Sane([s EXCEPT !.prod = "closed"])
<1> DEFINE t == [s EXCEPT !.prod = "closed"]
<1>1. t \in Sync /\ Len(t.queue) <= QueueCap
  BY DEF Sane, Sync
<1>2. /\ t.listed = s.listed /\ t.toDo = s.toDo /\ t.item = s.item /\ t.entry = s.entry
      /\ t.queue = s.queue /\ t.skipped = s.skipped /\ t.preFailed = s.preFailed
      /\ t.failed = s.failed /\ t.done = s.done
      /\ t.phase = s.phase /\ t.prod = "closed" /\ t.pc = s.pc /\ t.read = s.read
      /\ t.strategy = s.strategy /\ t.halted = s.halted
  BY DEF Sane, Sync
<1> HIDE DEF t
<1>3. Placed(t) /\ Counted(t) = Counted(s)
  BY <1>2, SamePlaces DEF Sane, LocalOK
<1>4. LocalOK(t)
  BY <1>2, <1>3 DEF Sane, LocalOK
<1>5. QED
  BY <1>1, <1>4 DEF Sane, t

LEMMA TakeSane ==
  ASSUME NEW s, NEW q \in Seq(Entries), NEW e \in Waiting(s), Sane(s),
         s.phase = "items", s.pc = "take", e \in Entries, Len(q) <= QueueCap,
         {q[i] : i \in 1..Len(q)} = Waiting(s) \ {e},
         \A i, j \in 1..Len(q) : q[i] = q[j] => i = j
  PROVE  Sane([s EXCEPT !.pc = "open", !.entry = e, !.queue = q, !.local = PreferMount])
<1> DEFINE t == [s EXCEPT !.pc = "open", !.entry = e, !.queue = q, !.local = PreferMount]
<1>1. t \in Sync /\ Len(t.queue) <= QueueCap
  BY MetadataAssumption DEF Sane, Sync
<1>2. Waiting(t) = Waiting(s) \ {e}
  BY DEF Waiting, Sane, Sync
<1>3. Placed(t)
  BY <1>2, MetadataAssumption DEF Sane, LocalOK, Placed, Counted, Sync
<1>4. LocalOK(t)
  BY <1>3, MetadataAssumption DEF Sane, LocalOK, Counted, Sync
<1>5. QED
  BY <1>1, <1>4 DEF Sane

LEMMA CopyingSane ==
  ASSUME NEW s, Sane(s), s.pc # "take",
         NEW at \in {"take", "open", "copy", "rename", "times"}, at # "take",
         NEW v \in Versions \cup {0}, at \in {"rename", "times"} => v \in Versions,
         NEW l \in BOOLEAN, NEW to \in {"none", "tmp", "target", "lost"}
  PROVE  Sane([s EXCEPT !.pc = at, !.local = l, !.read = v, !.open = to])
<1> DEFINE t == [s EXCEPT !.pc = at, !.local = l, !.read = v, !.open = to]
<1>1. t \in Sync /\ Len(t.queue) <= QueueCap
  <2> DEFINE u == [s EXCEPT !.pc = at, !.local = l]
             x == [u EXCEPT !.read = v]
  <2>1. u \in Sync /\ Len(u.queue) <= QueueCap
    BY DEF Sane, Sync
  <2>2. t = [x EXCEPT !.open = to]
    BY DEF Sane, Sync
  <2> HIDE DEF t, u
  <2>3. x \in Sync /\ Len(x.queue) <= QueueCap
    BY <2>1 DEF Sync
  <2> HIDE DEF x
  <2>4. QED
    BY <2>2, <2>3 DEF Sync
<1>2. Waiting(t) = Waiting(s)
  BY DEF Waiting, Sane, Sync
<1>3. Placed(t)
  BY <1>2, MetadataAssumption DEF Sane, LocalOK, Placed, Counted, Sync
<1>4. LocalOK(t)
  BY <1>3, MetadataAssumption DEF Sane, LocalOK, Counted, Sync
<1>5. QED
  BY <1>1, <1>4 DEF Sane

LEMMA MovedSane ==
  ASSUME NEW s, Sane(s), NEW to \in {"none", "tmp", "target", "lost"}
  PROVE  Sane([s EXCEPT !.open = to])
<1> DEFINE t == [s EXCEPT !.open = to]
<1>1. t \in Sync /\ Len(t.queue) <= QueueCap
  <2>1. s \in Sync /\ Len(s.queue) <= QueueCap
    BY DEF Sane
  <2>2. QED
    BY <2>1 DEF Sync
<1>2. /\ t.listed = s.listed /\ t.toDo = s.toDo /\ t.item = s.item /\ t.entry = s.entry
      /\ t.queue = s.queue /\ t.skipped = s.skipped /\ t.preFailed = s.preFailed
      /\ t.failed = s.failed /\ t.done = s.done
      /\ t.phase = s.phase /\ t.prod = s.prod /\ t.pc = s.pc /\ t.read = s.read
      /\ t.strategy = s.strategy /\ t.halted = s.halted
  BY DEF Sane, Sync
<1> HIDE DEF t
<1>3. Placed(t) /\ Counted(t) = Counted(s)
  BY <1>2, SamePlaces DEF Sane, LocalOK
<1>4. LocalOK(t)
  BY <1>2, <1>3 DEF Sane, LocalOK
<1>5. QED
  BY <1>1, <1>4 DEF Sane, t

LEMMA FinishSane ==
  ASSUME NEW s, Sane(s), s.pc # "take"
  PROVE  Sane([s EXCEPT !.pc = "take", !.entry = NoEntry, !.local = FALSE, !.read = 0,
                        !.open = "none", !.done = @ \cup {s.entry}])
<1> DEFINE t == [s EXCEPT !.pc = "take", !.entry = NoEntry, !.local = FALSE,
                          !.read = 0, !.open = "none", !.done = @ \cup {s.entry}]
<1>1. t \in Sync /\ Len(t.queue) <= QueueCap
  BY DEF Sane, Sync, LocalOK
<1>2. Waiting(t) = Waiting(s)
  BY DEF Waiting, Sane, Sync
<1>3. Placed(t)
  BY <1>2, MetadataAssumption DEF Sane, LocalOK, Placed, Counted, Sync
<1>4. LocalOK(t)
  BY <1>3, MetadataAssumption DEF Sane, LocalOK, Counted, Sync
<1>5. QED
  BY <1>1, <1>4 DEF Sane

LEMMA FailedSane ==
  ASSUME NEW s, Sane(s), s.pc # "take"
  PROVE  Sane([s EXCEPT !.pc = "take", !.entry = NoEntry, !.local = FALSE, !.read = 0,
                        !.open = "none", !.failed = @ \cup {s.entry}])
<1> DEFINE t == [s EXCEPT !.pc = "take", !.entry = NoEntry, !.local = FALSE,
                          !.read = 0, !.open = "none", !.failed = @ \cup {s.entry}]
<1>1. t \in Sync /\ Len(t.queue) <= QueueCap
  BY DEF Sane, Sync, LocalOK
<1>2. Waiting(t) = Waiting(s)
  BY DEF Waiting, Sane, Sync
<1>3. Placed(t)
  BY <1>2, MetadataAssumption DEF Sane, LocalOK, Placed, Counted, Sync
<1>4. LocalOK(t)
  BY <1>3, MetadataAssumption DEF Sane, LocalOK, Counted, Sync
<1>5. QED
  BY <1>1, <1>4 DEF Sane

LEMMA OkSane ==
  ASSUME NEW s, Sane(s), s.phase = "items", s.pc = "take", s.queue = <<>>,
         s.prod = "closed"
  PROVE  Sane([s EXCEPT !.phase = "ok"])
<1> DEFINE t == [s EXCEPT !.phase = "ok"]
<1>1. t \in Sync /\ Len(t.queue) <= QueueCap
  BY DEF Sane, Sync
<1>2. /\ t.listed = s.listed /\ t.toDo = s.toDo /\ t.item = s.item /\ t.entry = s.entry
      /\ t.queue = s.queue /\ t.skipped = s.skipped /\ t.preFailed = s.preFailed
      /\ t.failed = s.failed /\ t.done = s.done
      /\ t.phase = "ok" /\ t.prod = s.prod /\ t.pc = s.pc /\ t.read = s.read
      /\ t.strategy = s.strategy /\ t.halted = s.halted
  BY DEF Sane, Sync
<1> HIDE DEF t
<1>3. Placed(t) /\ Counted(t) = Counted(s)
  BY <1>2, SamePlaces DEF Sane, LocalOK
<1>4. LocalOK(t)
  BY <1>2, <1>3 DEF Sane, LocalOK
<1>5. QED
  BY <1>1, <1>4 DEF Sane, t

LEMMA GivenUpSane ==
  ASSUME NEW s, Sane(s), s.phase = "items", s.pc = "take"
  PROVE  Sane([s EXCEPT !.phase = "failed"])
<1> DEFINE t == [s EXCEPT !.phase = "failed"]
<1>1. t \in Sync /\ Len(t.queue) <= QueueCap
  BY DEF Sane, Sync
<1>2. /\ t.listed = s.listed /\ t.toDo = s.toDo /\ t.item = s.item /\ t.entry = s.entry
      /\ t.queue = s.queue /\ t.skipped = s.skipped /\ t.preFailed = s.preFailed
      /\ t.failed = s.failed /\ t.done = s.done
      /\ t.phase = "failed" /\ t.prod = s.prod /\ t.pc = s.pc /\ t.read = s.read
      /\ t.strategy = s.strategy /\ t.halted = s.halted
  BY DEF Sane, Sync
<1> HIDE DEF t
<1>3. Placed(t) /\ Counted(t) = Counted(s)
  BY <1>2, SamePlaces DEF Sane, LocalOK
<1>4. LocalOK(t)
  BY <1>2, <1>3 DEF Sane, LocalOK
<1>5. QED
  BY <1>1, <1>4 DEF Sane, t

LEMMA ListSane ==
  ASSUME NEW s, NEW found \in [Entries -> Versions \cup {0}],
         NEW had \in [Entries -> SUBSET (Versions \cup {0})], NEW toDo, Sane(s),
         s.phase = "list", toDo = {e \in Entries : found[e] # 0}
  PROVE  Sane([s EXCEPT !.phase = "items", !.prod = "loop", !.listed = found,
                        !.had = had, !.toDo = toDo])
<1> DEFINE t == [s EXCEPT !.phase = "items", !.prod = "loop", !.listed = found,
                          !.had = had, !.toDo = toDo]
<1>1. t \in Sync /\ Len(t.queue) <= QueueCap
  BY DEF Sane, Sync
<1>3. Placed(t)
  BY SMTT(60), MetadataAssumption DEF Sane, LocalOK, Placed, Counted, Waiting, Sync
<1>4. LocalOK(t)
  BY <1>3, MetadataAssumption DEF Sane, LocalOK, Counted, Sync
<1>5. QED
  BY <1>1, <1>4 DEF Sane

LEMMA ChangedSane ==
  ASSUME NEW s, NEW had \in [Entries -> SUBSET (Versions \cup {0})], Sane(s)
  PROVE  Sane([s EXCEPT !.had = had])
<1> DEFINE t == [s EXCEPT !.had = had]
<1>1. t \in Sync /\ Len(t.queue) <= QueueCap
  BY DEF Sane, Sync
<1>2. /\ t.listed = s.listed /\ t.toDo = s.toDo /\ t.item = s.item /\ t.entry = s.entry
      /\ t.queue = s.queue /\ t.skipped = s.skipped /\ t.preFailed = s.preFailed
      /\ t.failed = s.failed /\ t.done = s.done
      /\ t.phase = s.phase /\ t.prod = s.prod /\ t.pc = s.pc /\ t.read = s.read
      /\ t.strategy = s.strategy /\ t.halted = s.halted
  BY DEF Sane, Sync
<1> HIDE DEF t
<1>3. Placed(t) /\ Counted(t) = Counted(s)
  BY <1>2, SamePlaces DEF Sane, LocalOK
<1>4. LocalOK(t)
  BY <1>2, <1>3 DEF Sane, LocalOK
<1>5. QED
  BY <1>1, <1>4 DEF Sane, t


--------------------------------------------------------------------------------
(***************************************************************************)
(* Every listed entry is accounted for.                                    *)
(***************************************************************************)
LEMMA Advance ==
  ASSUME NEW m \in [Syncs -> Sync], \A d \in Syncs : Sane(m[d]),
         NEW c \in Syncs, NEW t, Sane(t), sync' = [m EXCEPT ![c] = t], UNCHANGED cancelled
  PROVE  SyncsOK'
<1>1. sync' \in [Syncs -> Sync] /\ \A d \in Syncs : Sane(sync'[d])
  BY DEF Sane
<1>2. QED
  BY <1>1 DEF SyncsOK, Sane, LocalOK, Placed, Counted, Waiting

LEMMA ProducerAdvances ==
  ASSUME AccountsInv, NEW c \in Syncs, Producer(c)
  PROVE  SyncsOK'
<1> DEFINE s == sync[c]
<1>1. /\ sync \in [Syncs -> Sync] /\ s \in Sync /\ Sane(s) /\ \A d \in Syncs : Sane(sync[d])
      /\ QueueCap \in Nat
  BY MetadataAssumption DEF AccountsInv, SyncsOK
<1>2. ASSUME NEW e \in Entries, NextEntry(c, e)
      PROVE  SyncsOK'
  <2> DEFINE t == [s EXCEPT !.prod = "stat", !.item = e, !.toDo = @ \ {e}]
  <2>1. Sane(t)
    BY <1>1, <1>2, NextEntrySane DEF NextEntry
  <2>2. sync' = [sync EXCEPT ![c] = t] /\ UNCHANGED cancelled
    BY <1>1, <1>2 DEF NextEntry
  <2> HIDE DEF t
  <2>3. QED
    BY <1>1, <2>1, <2>2, Advance
<1>3. CASE Skip(c)
  <2> DEFINE t == [s EXCEPT !.prod = "loop", !.item = NoEntry, !.skipped = @ \cup {s.item}]
  <2>1. Sane(t)
    BY <1>1, <1>3, SkipSane DEF Skip
  <2>2. sync' = [sync EXCEPT ![c] = t] /\ UNCHANGED cancelled
    BY <1>1, <1>3 DEF Skip
  <2> HIDE DEF t
  <2>3. QED
    BY <1>1, <2>1, <2>2, Advance
<1>4. CASE StatFails(c)
  <2> DEFINE t == [s EXCEPT !.prod = "loop", !.item = NoEntry, !.preFailed = @ \cup {s.item}]
  <2>1. Sane(t)
    BY <1>1, <1>4, StatFailsSane DEF StatFails
  <2>2. sync' = [sync EXCEPT ![c] = t] /\ UNCHANGED cancelled
    BY <1>1, <1>4 DEF StatFails
  <2> HIDE DEF t
  <2>3. QED
    BY <1>1, <2>1, <2>2, Advance
<1>5. CASE Plan(c)
  <2> DEFINE t == [s EXCEPT !.prod = "send"]
  <2>1. Sane(t)
    BY <1>1, <1>5, PlanSane DEF Plan
  <2>2. sync' = [sync EXCEPT ![c] = t] /\ UNCHANGED cancelled
    BY <1>1, <1>5 DEF Plan
  <2> HIDE DEF t
  <2>3. QED
    BY <1>1, <2>1, <2>2, Advance
<1>6. CASE Send(c)
  <2> DEFINE q == Append(s.queue, s.item)
             t == [s EXCEPT !.prod = "loop", !.item = NoEntry, !.queue = q]
  <2>1. /\ s.item \in Entries /\ s.queue \in Seq(Entries) /\ s.item \notin Waiting(s)
        /\ \A i, j \in 1..Len(s.queue) : s.queue[i] = s.queue[j] => i = j
        /\ s.prod = "send" /\ Len(s.queue) < QueueCap /\ Len(s.queue) \in Nat
    BY <1>1, <1>6 DEF Send, Sane, Sync, LocalOK, Placed
  <2>2. /\ q \in Seq(Entries) /\ Len(q) = Len(s.queue) + 1
        /\ {q[i] : i \in 1..Len(q)} = Waiting(s) \cup {s.item}
        /\ \A i, j \in 1..Len(q) : q[i] = q[j] => i = j
    BY <2>1, Appended DEF Waiting
  <2>3. sync' = [sync EXCEPT ![c] = t] /\ UNCHANGED cancelled
    BY <1>1, <1>6 DEF Send
  <2> HIDE DEF q
  <2>4. Len(q) <= QueueCap
    BY <1>1, <2>1, <2>2
  <2>5. Sane(t)
    BY <1>1, <2>1, <2>2, <2>4, SendSane
  <2> HIDE DEF t
  <2>6. QED
    BY <1>1, <2>3, <2>5, Advance
<1>7. CASE Close(c)
  <2> DEFINE t == [s EXCEPT !.prod = "closed"]
  <2>1. Sane(t)
    BY <1>1, <1>7, CloseSane DEF Close
  <2>2. sync' = [sync EXCEPT ![c] = t] /\ UNCHANGED cancelled
    BY <1>1, <1>7 DEF Close
  <2> HIDE DEF t
  <2>3. QED
    BY <1>1, <2>1, <2>2, Advance
<1>8. QED
  BY <1>2, <1>3, <1>4, <1>5, <1>6, <1>7 DEF Producer

LEMMA MovedOK ==
  ASSUME SyncsOK, NEW e, NEW to \in {"target", "lost"}
  PROVE  /\ Moved(e, to) \in [Syncs -> Sync]
         /\ \A d \in Syncs : Sane(Moved(e, to)[d])
         /\ \A d \in Syncs : \E o \in {"none", "tmp", "target", "lost"} :
              Moved(e, to)[d] = [sync[d] EXCEPT !.open = o]
<1> DEFINE m == Moved(e, to)
<1>1. \A d \in Syncs : \E o \in {"none", "tmp", "target", "lost"} :
        m[d] = [sync[d] EXCEPT !.open = o]
  <2> SUFFICES ASSUME NEW d \in Syncs
               PROVE  \E o \in {"none", "tmp", "target", "lost"} :
                        m[d] = [sync[d] EXCEPT !.open = o]
    OBVIOUS
  <2>1. sync[d] \in Sync /\ sync[d].open \in {"none", "tmp", "target", "lost"}
    BY DEF SyncsOK, Sync
  <2>2. CASE sync[d].entry # e
    <3>1. m[d] = sync[d]
      BY <2>2 DEF Moved
    <3>2. sync[d] = [sync[d] EXCEPT !.open = sync[d].open]
      BY <2>1 DEF Sync
    <3>3. QED
      BY <2>1, <3>1, <3>2
  <2>3. CASE sync[d].entry = e
    <3> DEFINE o == CASE sync[d].open = "tmp" -> to
                      [] sync[d].open = "target" /\ to = "target" -> "lost"
                      [] OTHER -> sync[d].open
    <3>1. m[d] = [sync[d] EXCEPT !.open = o]
      BY <2>3 DEF Moved
    <3>2. o \in {"none", "tmp", "target", "lost"}
      BY <2>1
    <3> HIDE DEF o
    <3>3. QED
      BY <3>1, <3>2
  <2>4. QED
    BY <2>2, <2>3
<1>2. ASSUME NEW d \in Syncs
      PROVE  Sane(m[d])
  <2> HIDE DEF m
  <2>1. PICK o \in {"none", "tmp", "target", "lost"} : m[d] = [sync[d] EXCEPT !.open = o]
    BY <1>1
  <2>2. Sane([sync[d] EXCEPT !.open = o])
    BY MovedSane DEF SyncsOK
  <2>3. QED
    BY <2>1, <2>2
<1>3. m \in [Syncs -> Sync]
  <2>1. \A d \in Syncs : m[d] \in Sync
    BY <1>2 DEF Sane
  <2>2. m = [d \in Syncs |-> m[d]]
    BY DEF Moved
  <2> HIDE DEF m
  <2>3. QED
    BY <2>1, <2>2
<1>4. QED
  BY <1>1, <1>2, <1>3

LEMMA IdleSane == Sane(NewSync("idle"))
<1> DEFINE nothing == [e \in Entries |-> 0]
           never == [e \in Entries |-> {}]
<1>1. NewSync("idle") =
        [phase |-> "idle", strategy |-> "none", listed |-> nothing, had |-> never,
         toDo |-> {}, prod |-> "none", item |-> NoEntry, queue |-> <<>>,
         pc |-> "take", entry |-> NoEntry, local |-> FALSE, read |-> 0, open |-> "none",
         skipped |-> {}, preFailed |-> {}, failed |-> {}, done |-> {}, halted |-> FALSE]
  BY DEF NewSync
<1> HIDE DEF nothing, never
<1>2. NewSync("idle") = [NewSync("idle") EXCEPT !.strategy = "none"]
  BY <1>1
<1>3. QED
  BY <1>2, NewSyncSane

LEMMA MovedOrSame ==
  ASSUME SyncsOK, NEW m, NEW e, NEW to \in {"target", "lost"}, m = sync \/ m = Moved(e, to)
  PROVE  /\ m \in [Syncs -> Sync] /\ \A d \in Syncs : Sane(m[d])
         /\ \A d \in Syncs : \E o : m[d] = [sync[d] EXCEPT !.open = o]
<1>1. CASE m = sync
  <2>1. sync \in [Syncs -> Sync] /\ \A d \in Syncs : Sane(sync[d])
    BY DEF SyncsOK
  <2>2. ASSUME NEW d \in Syncs
        PROVE  sync[d] = [sync[d] EXCEPT !.open = sync[d].open]
    <3>1. sync[d] \in Sync
      BY <2>1
    <3>2. QED
      BY <3>1 DEF Sync
  <2>3. QED
    BY <1>1, <2>1, <2>2
<1>2. CASE m = Moved(e, to)
  <2>1. /\ Moved(e, to) \in [Syncs -> Sync] /\ \A d \in Syncs : Sane(Moved(e, to)[d])
        /\ \A d \in Syncs : \E o \in {"none", "tmp", "target", "lost"} :
             Moved(e, to)[d] = [sync[d] EXCEPT !.open = o]
    BY MovedOK
  <2>2. QED
    BY <1>2, <2>1
<1>3. QED
  BY <1>1, <1>2

LEMMA AfterRename ==
  ASSUME SyncsOK, NEW c \in Syncs, Rename(c)
  PROVE  /\ sync'[c].phase = sync[c].phase /\ sync'[c].strategy = sync[c].strategy
         /\ sync'[c].had = sync[c].had /\ sync'[c].listed = sync[c].listed
         /\ sync'[c].entry = sync[c].entry /\ sync'[c].done = sync[c].done
         /\ sync'[c].skipped = sync[c].skipped /\ sync'[c].local = sync[c].local
         /\ sync'[c].read = sync[c].read /\ sync'[c].pc = "times"
<1> DEFINE m == Moved(sync[c].entry, "target")
<1>1. /\ m \in [Syncs -> Sync]
      /\ \A d \in Syncs : \E o \in {"none", "tmp", "target", "lost"} :
           m[d] = [sync[d] EXCEPT !.open = o]
  BY MovedOK
<1>2. sync' = [m EXCEPT ![c].pc = "times", ![c].open = "none"]
  BY DEF Rename
<1> HIDE DEF m
<1>3. PICK o : m[c] = [sync[c] EXCEPT !.open = o]
  BY <1>1
<1>4. sync'[c] = [m[c] EXCEPT !.pc = "times", !.open = "none"]
  BY <1>1, <1>2
<1>5. sync[c] \in Sync
  BY DEF SyncsOK
<1>6. QED
  BY <1>3, <1>4, <1>5 DEF Sync

LEMMA SourceIsVersion ==
  ASSUME AccountsInv, NEW c \in Syncs, sync[c].pc # "take", Source(c) # 0
  PROVE  Source(c) \in Versions
<1>1. sync[c] \in Sync /\ LocalOK(sync[c]) /\ remote \in [Entries -> Versions \cup {0}]
  BY DEF AccountsInv, SyncsOK, Sane, FilesOK
<1>2. sync[c].entry \in Entries /\ sync[c].read \in Versions \cup {0}
  BY <1>1 DEF LocalOK, Sync
<1>3. QED
  BY <1>1, <1>2 DEF Source

LEMMA ReplicatorAdvances ==
  ASSUME AccountsInv, NEW c \in Syncs, Replicator(c)
  PROVE  SyncsOK'
<1> DEFINE s == sync[c]
<1>1. /\ sync \in [Syncs -> Sync] /\ s \in Sync /\ Sane(s) /\ \A d \in Syncs : Sane(sync[d])
      /\ SyncsOK
  BY DEF AccountsInv, SyncsOK
<1>2. UNCHANGED cancelled
  BY DEF Replicator, Take, Open, Copy, Rename, Chtimes, ChtimesFails, OpenFails,
     CopyFails, FallBack, ApplyEnds, ApplyCancelled
<1>3. CASE Take(c)
  <2> DEFINE q == Tail(s.queue)
             e == Head(s.queue)
             t == [s EXCEPT !.pc = "open", !.entry = e, !.queue = q, !.local = PreferMount]
  <2>1. /\ s.queue \in Seq(Entries) /\ s.queue # <<>>
        /\ \A i, j \in 1..Len(s.queue) : s.queue[i] = s.queue[j] => i = j
        /\ s.phase = "items" /\ s.pc = "take" /\ Len(s.queue) <= QueueCap
    BY <1>1, <1>3 DEF Take, Sane, Sync, LocalOK, Placed
  <2>2. /\ q \in Seq(Entries) /\ Len(q) = Len(s.queue) - 1 /\ Len(s.queue) \in Nat
        /\ e \in Waiting(s) /\ e \in Entries
        /\ {q[i] : i \in 1..Len(q)} = Waiting(s) \ {e}
        /\ \A i, j \in 1..Len(q) : q[i] = q[j] => i = j
    BY <2>1, Taken DEF Waiting
  <2>3. sync' = [sync EXCEPT ![c] = t]
    BY <1>1, <1>3 DEF Take
  <2> HIDE DEF q, e
  <2>4. Len(q) <= QueueCap
    BY <2>1, <2>2, MetadataAssumption
  <2>5. Sane(t)
    BY <1>1, <2>1, <2>2, <2>4, TakeSane
  <2> HIDE DEF t
  <2>6. QED
    BY <1>1, <1>2, <2>3, <2>5, Advance
<1>4. CASE Open(c)
  <2> DEFINE v == IF s.local THEN remote[s.entry] ELSE 0
             t == [s EXCEPT !.pc = "copy", !.local = s.local, !.read = v, !.open = "tmp"]
  <2>1. s.pc # "take" /\ s.entry \in Entries /\ s.local \in BOOLEAN
    BY <1>1, <1>4, MetadataAssumption DEF Open, Sane, LocalOK, Sync
  <2>2. v \in Versions \cup {0}
    BY <2>1 DEF AccountsInv, FilesOK
  <2>3. sync' = [sync EXCEPT ![c] = t]
    BY <1>1, <1>4 DEF Open, Sync
  <2> HIDE DEF v
  <2>4. Sane(t)
    BY <1>1, <2>1, <2>2, CopyingSane
  <2> HIDE DEF t
  <2>5. QED
    BY <1>1, <1>2, <2>3, <2>4, Advance
<1>5. CASE Copy(c)
  <2> DEFINE v == Source(c)
             t == [s EXCEPT !.pc = "rename", !.local = s.local, !.read = v, !.open = s.open]
  <2>1. /\ s.pc # "take" /\ v \in Versions /\ s.local \in BOOLEAN
        /\ s.open \in {"none", "tmp", "target", "lost"}
    BY <1>1, <1>5, SourceIsVersion DEF Copy, Sync
  <2>2. sync' = [sync EXCEPT ![c] = t]
    BY <1>1, <1>5 DEF Copy, Sync
  <2> HIDE DEF v
  <2>3. Sane(t)
    BY <1>1, <2>1, CopyingSane
  <2> HIDE DEF t
  <2>4. QED
    BY <1>1, <1>2, <2>2, <2>3, Advance
<1>6. CASE Rename(c)
  <2> DEFINE m == Moved(s.entry, "target")
             t == [s EXCEPT !.pc = "times", !.local = s.local, !.read = s.read, !.open = "none"]
  <2>1. s.pc # "take" /\ s.read \in Versions /\ s.local \in BOOLEAN
    BY <1>1, <1>6 DEF Rename, Sane, LocalOK, Sync
  <2>2. Sane(t)
    BY <1>1, <2>1, CopyingSane
  <2>4. /\ m \in [Syncs -> Sync] /\ \A d \in Syncs : Sane(m[d])
        /\ \A d \in Syncs : \E o \in {"none", "tmp", "target", "lost"} :
             m[d] = [sync[d] EXCEPT !.open = o]
    BY <1>1, MovedOK
  <2>5. sync' = [m EXCEPT ![c].pc = "times", ![c].open = "none"]
    BY <1>6 DEF Rename
  <2> HIDE DEF m
  <2>3. PICK o : m[c] = [s EXCEPT !.open = o]
    BY <2>4
  <2>6. [m[c] EXCEPT !.pc = "times", !.open = "none"] = t
    BY <1>1, <2>3 DEF Sync
  <2>7. sync' = [m EXCEPT ![c] = t]
    BY <2>4, <2>5, <2>6
  <2> HIDE DEF t
  <2>8. QED
    BY <1>2, <2>2, <2>4, <2>7, Advance
<1>7. CASE Chtimes(c) \/ ChtimesFails(c)
  <2> DEFINE t == [s EXCEPT !.pc = "take", !.entry = NoEntry, !.local = FALSE,
                            !.read = 0, !.open = "none", !.done = @ \cup {s.entry}]
  <2>1. Sane(t)
    BY <1>1, <1>7, FinishSane DEF Chtimes, ChtimesFails
  <2>2. sync' = [sync EXCEPT ![c] = t]
    BY <1>1, <1>7 DEF Chtimes, ChtimesFails, Finish
  <2> HIDE DEF t
  <2>3. QED
    BY <1>1, <1>2, <2>1, <2>2, Advance
<1>8. CASE OpenFails(c) \/ CopyFails(c)
  <2> DEFINE t == [s EXCEPT !.pc = "take", !.entry = NoEntry, !.local = FALSE,
                            !.read = 0, !.open = "none", !.failed = @ \cup {s.entry}]
             m == IF CopyFails(c) THEN Moved(s.entry, "lost") ELSE sync
  <2>1. Sane(t)
    BY <1>1, <1>8, FailedSane DEF OpenFails, CopyFails
  <2>2. /\ m \in [Syncs -> Sync] /\ \A d \in Syncs : Sane(m[d])
        /\ \E o : m[c] = [s EXCEPT !.open = o]
    <3>1. m = sync \/ m = Moved(s.entry, "lost")
      OBVIOUS
    <3> HIDE DEF m
    <3>2. QED
      BY <1>1, <3>1, MovedOrSame
  <2>3. sync' = [m EXCEPT ![c].pc = "take", ![c].entry = NoEntry, ![c].local = FALSE,
                          ![c].read = 0, ![c].open = "none", ![c].failed = @ \cup {s.entry}]
    BY <1>8 DEF OpenFails, CopyFails, Failed
  <2> HIDE DEF m
  <2>4. [m[c] EXCEPT !.pc = "take", !.entry = NoEntry, !.local = FALSE, !.read = 0,
                     !.open = "none", !.failed = @ \cup {s.entry}] = t
    BY <1>1, <2>2 DEF Sync
  <2>5. sync' = [m EXCEPT ![c] = t]
    BY <2>2, <2>3, <2>4
  <2> HIDE DEF t
  <2>6. QED
    BY <1>2, <2>1, <2>2, <2>5, Advance
<1>9. CASE ApplyEnds(c)
  <2> DEFINE t == [s EXCEPT !.phase = "ok"]
  <2>1. Sane(t)
    BY <1>1, <1>9, OkSane DEF ApplyEnds
  <2>2. sync' = [sync EXCEPT ![c] = t]
    BY <1>1, <1>9 DEF ApplyEnds
  <2> HIDE DEF t
  <2>3. QED
    BY <1>1, <1>2, <2>1, <2>2, Advance
<1>10. CASE ApplyCancelled(c)
  <2> DEFINE t == [s EXCEPT !.phase = "failed"]
  <2>1. Sane(t)
    BY <1>1, <1>10, GivenUpSane DEF ApplyCancelled
  <2>2. sync' = [sync EXCEPT ![c] = t]
    BY <1>1, <1>10 DEF ApplyCancelled
  <2> HIDE DEF t
  <2>3. QED
    BY <1>1, <1>2, <2>1, <2>2, Advance
<1>11. CASE FallBack(c)
  <2> DEFINE t == [s EXCEPT !.pc = "open", !.local = TRUE, !.read = 0, !.open = "none"]
             m == IF s.pc # "open" THEN Moved(s.entry, "lost") ELSE sync
  <2>1. s.pc # "take"
    BY <1>11 DEF FallBack
  <2>2. Sane(t)
    BY <1>1, <2>1, CopyingSane
  <2>3. /\ m \in [Syncs -> Sync] /\ \A d \in Syncs : Sane(m[d])
        /\ \E o : m[c] = [s EXCEPT !.open = o]
    <3>1. m = sync \/ m = Moved(s.entry, "lost")
      OBVIOUS
    <3> HIDE DEF m
    <3>2. QED
      BY <1>1, <3>1, MovedOrSame
  <2>4. sync' = [m EXCEPT ![c].pc = "open", ![c].local = TRUE, ![c].read = 0, ![c].open = "none"]
    BY <1>11 DEF FallBack
  <2> HIDE DEF m
  <2>5. [m[c] EXCEPT !.pc = "open", !.local = TRUE, !.read = 0, !.open = "none"] = t
    BY <1>1, <2>3 DEF Sync
  <2>6. sync' = [m EXCEPT ![c] = t]
    BY <2>3, <2>4, <2>5
  <2> HIDE DEF t
  <2>7. QED
    BY <1>2, <2>2, <2>3, <2>6, Advance
<1>12. QED
  BY <1>3, <1>4, <1>5, <1>6, <1>7, <1>8, <1>9, <1>10, <1>11 DEF Replicator

LEMMA InitAccounts == SyncInit => AccountsInv
<1> SUFFICES ASSUME SyncInit PROVE AccountsInv
  OBVIOUS
<1>1. \A c \in Syncs : sync[c] = NewSync("idle")
  BY DEF SyncInit
<1>3. Sane(NewSync("idle"))
  BY IdleSane
<1>4. SyncsOK
  BY <1>1, <1>3 DEF SyncInit, SyncsOK, Sane
<1>5. FilesOK
  <2>1. 1 \in Versions /\ Missing \in Contents /\ NoFile \in [content: Contents, time: Nat]
    BY MetadataAssumption DEF Versions, Contents, NoFile
  <2>2. remote \in [Entries -> Versions \cup {0}]
    BY <2>1 DEF SyncInit
  <2>3. target \in [Entries -> [content: Contents, time: Nat]]
    BY <2>1 DEF SyncInit
  <2>4. tmp \in [Entries -> Contents]
    BY <2>1 DEF SyncInit
  <2>5. changes \in 0..MaxChanges
    BY MetadataAssumption DEF SyncInit
  <2>6. cancelled \in BOOLEAN
    BY DEF SyncInit
  <2>7. QED
    BY <2>2, <2>3, <2>4, <2>5, <2>6 DEF FilesOK
<1>6. QED
  BY <1>4, <1>5 DEF AccountsInv

LEMMA NextSyncs ==
  ASSUME AccountsInv, SyncNext
  PROVE  SyncsOK'
<1>1. sync \in [Syncs -> Sync] /\ \A d \in Syncs : Sane(sync[d])
  BY DEF AccountsInv, SyncsOK
<1>2. ASSUME NEW c \in Syncs, NEW s \in Strategies, Begin(c, s)
      PROVE  SyncsOK'
  <2> DEFINE t == [NewSync("list") EXCEPT !.strategy = s]
  <2>1. Sane(t)
    BY <1>2, NewSyncSane DEF Begin
  <2>2. sync' = [sync EXCEPT ![c] = t] /\ UNCHANGED cancelled
    BY <1>2 DEF Begin
  <2> HIDE DEF t
  <2>3. QED
    BY <1>1, <2>1, <2>2, Advance
<1>3. ASSUME NEW c \in Syncs, List(c)
      PROVE  SyncsOK'
  <2> DEFINE toDo == {e \in Entries : remote[e] # 0}
             had == [e \in Entries |-> {remote[e]}]
             t == [sync[c] EXCEPT !.phase = "items", !.prod = "loop", !.listed = remote,
                                  !.had = had, !.toDo = toDo]
  <2>1. remote \in [Entries -> Versions \cup {0}]
    BY DEF AccountsInv, FilesOK
  <2>2. had \in [Entries -> SUBSET (Versions \cup {0})]
    BY <2>1
  <2>3. sync' = [sync EXCEPT ![c] = t] /\ UNCHANGED cancelled
    BY <1>1, <1>3 DEF List
  <2>4. toDo = {e \in Entries : remote[e] # 0} /\ sync[c].phase = "list"
    BY <1>3 DEF List
  <2> HIDE DEF had, toDo
  <2>5. Sane(t)
    BY <1>1, <2>1, <2>2, <2>4, ListSane
  <2> HIDE DEF t
  <2>6. QED
    BY <1>1, <2>3, <2>5, Advance
<1>4. Sane(NewSync("idle"))
  BY IdleSane
<1>5. ASSUME NEW c \in Syncs, ListFails(c)
      PROVE  SyncsOK'
  BY <1>1, <1>4, <1>5, Advance DEF ListFails
<1>6. ASSUME NEW e \in Entries, Change(e)
      PROVE  SyncsOK'
  <2>1. PICK v \in {0, changes + 2} :
          sync' = [c \in Syncs |->
            IF sync[c].phase = "items" THEN [sync[c] EXCEPT !.had[e] = @ \cup {v}]
            ELSE sync[c]]
    BY <1>6 DEF Change
  <2>2. v \in Versions \cup {0} /\ UNCHANGED cancelled
    BY <1>6, <2>1, MetadataAssumption DEF Change, AccountsInv, FilesOK, Versions
  <2>3. ASSUME NEW c \in Syncs
        PROVE  sync'[c] \in Sync /\ Sane(sync'[c])
    <3> DEFINE had == [sync[c].had EXCEPT ![e] = @ \cup {v}]
    <3>1. had \in [Entries -> SUBSET (Versions \cup {0})] /\ sync[c] \in Sync
      BY <1>1, <2>2 DEF Sync
    <3>2. [sync[c] EXCEPT !.had[e] = @ \cup {v}] = [sync[c] EXCEPT !.had = had]
      BY <3>1 DEF Sync
    <3> HIDE DEF had
    <3>3. Sane([sync[c] EXCEPT !.had = had])
      BY <1>1, <3>1, ChangedSane
    <3>4. sync'[c] = IF sync[c].phase = "items" THEN [sync[c] EXCEPT !.had = had] ELSE sync[c]
      BY <2>1, <3>2
    <3>5. QED
      BY <1>1, <3>3, <3>4 DEF Sane
  <2>4. sync' \in [Syncs -> Sync]
    <3>1. sync' = [c \in Syncs |-> sync'[c]]
      BY <2>1
    <3>2. QED
      BY <2>3, <3>1
  <2>5. QED
    BY <2>2, <2>3, <2>4 DEF SyncsOK, Sane, LocalOK, Placed, Counted, Waiting
<1>7. CASE ContextEnds
  <2>1. ASSUME NEW c \in Syncs
        PROVE  sync'[c] \in Sync /\ Sane(sync[c])'
    <3>1. sync'[c] = [sync[c] EXCEPT !.halted = AtWork(c)] /\ sync[c] \in Sync
      BY <1>1, <1>7 DEF ContextEnds
    <3>2. AtWork(c) \in BOOLEAN
      BY DEF AtWork
    <3>3. sync'[c] \in Sync
      BY <3>1, <3>2 DEF Sync
    <3>4. /\ sync'[c].halted = (sync[c].phase \in {"list", "items"})
          /\ cancelled' = TRUE /\ cancelled = FALSE
          /\ sync'[c].phase = sync[c].phase /\ sync'[c].strategy = sync[c].strategy
          /\ sync'[c].prod = sync[c].prod /\ sync'[c].queue = sync[c].queue
          /\ sync'[c].toDo = sync[c].toDo /\ sync'[c].listed = sync[c].listed
          /\ sync'[c].item = sync[c].item /\ sync'[c].entry = sync[c].entry
          /\ sync'[c].pc = sync[c].pc /\ sync'[c].read = sync[c].read
          /\ sync'[c].skipped = sync[c].skipped /\ sync'[c].preFailed = sync[c].preFailed
          /\ sync'[c].failed = sync[c].failed /\ sync'[c].done = sync[c].done
      BY <1>7, <3>1 DEF Sync, AtWork, ContextEnds, AccountsInv, FilesOK
    <3>5. Sane(sync[c])
      BY <1>1
    <3>6. Waiting(sync[c])' = Waiting(sync[c]) /\ Counted(sync[c])' = Counted(sync[c])
      BY <3>4 DEF Waiting, Counted
    <3>7. Placed(sync[c])'
      BY <3>4, <3>5, <3>6 DEF Placed, Sane, LocalOK
    <3>8. LocalOK(sync[c])'
      BY <3>4, <3>5, <3>6, <3>7 DEF Sane, LocalOK
    <3>9. QED
      BY <3>3, <3>4, <3>5, <3>8 DEF Sane
  <2>2. sync' \in [Syncs -> Sync]
    BY <1>7, <2>1 DEF ContextEnds
  <2>3. QED
    BY <2>1, <2>2 DEF SyncsOK
<1>8. CASE Restart
  <2>1. \A c \in Syncs : sync'[c] = NewSync("idle")
    BY <1>8 DEF Restart
  <2>2. NewSync("idle").prod = "none" /\ NewSync("idle").phase = "idle"
    BY DEF NewSync
  <2>3. \A c \in Syncs : Sane(sync'[c])
    BY <1>4, <2>1
  <2>4. sync' \in [Syncs -> Sync]
    BY <1>8, <1>4 DEF Restart, Sane
  <2>5. QED
    BY <2>1, <2>2, <2>3, <2>4 DEF SyncsOK, Sane, LocalOK, Placed, Counted, Waiting
<1>9. QED
  BY <1>2, <1>3, <1>5, <1>6, <1>7, <1>8, ProducerAdvances, ReplicatorAdvances DEF SyncNext, SyncStep

LEMMA EntryAtHand ==
  ASSUME SyncsOK, NEW c \in Syncs, sync[c].pc # "take"
  PROVE  /\ sync[c].entry \in Entries /\ sync[c].phase = "items"
         /\ sync[c].listed[sync[c].entry] \in Versions
         /\ sync[c].pc \in {"rename", "times"} => sync[c].read \in Versions
<1> DEFINE s == sync[c]
<1>1. s \in Sync /\ LocalOK(s)
  BY DEF SyncsOK, Sane
<1>2. /\ s.entry \in Entries /\ s.phase = "items"
      /\ s.pc \in {"rename", "times"} => s.read \in Versions
  BY <1>1 DEF LocalOK, Sync
<1>3. s.listed[s.entry] # 0
  BY <1>1, <1>2, MetadataAssumption DEF LocalOK, Placed
<1>4. QED
  BY <1>1, <1>2, <1>3 DEF Sync

LEMMA NextFiles ==
  ASSUME AccountsInv, SyncNext
  PROVE  FilesOK'
<1> USE DEF AccountsInv
<1>1. /\ \A v \in Versions : v \in Contents /\ TimeOf[v] \in Nat
      /\ Missing \in Contents /\ Blank \in Contents /\ Torn \in Contents /\ WriteTimes \subseteq Nat
  BY MetadataAssumption DEF Contents, Full
<1>2. ASSUME NEW old, NEW v \in Versions
      PROVE  CopyInto(old, v) \in Contents
  BY <1>1 DEF CopyInto
<1>3. ASSUME NEW c \in Syncs, Copy(c)
      PROVE  FilesOK'
  <2> DEFINE e == sync[c].entry
  <2>1. e \in Entries /\ Source(c) \in Versions
    BY <1>3, EntryAtHand, SourceIsVersion DEF Copy
  <2>2. tmp' \in [Entries -> Contents]
    BY <1>2, <1>3, <2>1 DEF Copy, FilesOK
  <2>3. target' \in [Entries -> [content: Contents, time: Nat]]
    <3> DEFINE x(n) == [content |-> CopyInto(target[e].content, Source(c)), time |-> n]
    <3>1. \A n \in WriteTimes : x(n) \in [content: Contents, time: Nat]
      BY <1>1, <1>2, <2>1
    <3>2. target' = target \/ \E n \in WriteTimes : target' = [target EXCEPT ![e] = x(n)]
      BY <1>3, <2>1 DEF Copy, FilesOK
    <3> HIDE DEF x
    <3>3. QED
      BY <3>1, <3>2, <2>1 DEF FilesOK
  <2>4. QED
    BY <1>3, <2>2, <2>3 DEF Copy, FilesOK
<1>4. ASSUME NEW c \in Syncs, Rename(c)
      PROVE  FilesOK'
  BY <1>1, <1>4, EntryAtHand DEF Rename, FilesOK
<1>5. ASSUME NEW c \in Syncs, Chtimes(c)
      PROVE  FilesOK'
  <2> DEFINE e == sync[c].entry
  <2>1. e \in Entries /\ sync[c].listed[e] \in Versions
    BY <1>5, EntryAtHand DEF Chtimes
  <2>2. target' = target \/ target' = [target EXCEPT ![e].time = TimeOf[sync[c].listed[e]]]
    BY <1>5 DEF Chtimes
  <2>3. target' \in [Entries -> [content: Contents, time: Nat]]
    BY <1>1, <2>1, <2>2 DEF FilesOK
  <2>4. QED
    BY <1>5, <2>3 DEF Chtimes, FilesOK
<1>6. ASSUME NEW c \in Syncs, Open(c) \/ CopyFails(c) \/ FallBack(c)
      PROVE  FilesOK'
  <2>1. /\ UNCHANGED <<remote, target, cancelled, changes>>
        /\ \E x \in {Blank, Missing} : tmp' = tmp \/ tmp' = [tmp EXCEPT ![sync[c].entry] = x]
    BY <1>6 DEF Open, CopyFails, FallBack
  <2>2. QED
    BY <1>1, <2>1 DEF FilesOK
<1>7. ASSUME NEW e \in Entries, Change(e)
      PROVE  FilesOK'
  <2>1. PICK v \in {0, changes + 2} : remote' = [remote EXCEPT ![e] = v]
    BY <1>7 DEF Change
  <2>2. v \in Versions \cup {0} /\ changes' \in 0..MaxChanges
    BY <1>7, <2>1, MetadataAssumption DEF Change, FilesOK, Versions
  <2>3. QED
    BY <1>7, <2>1, <2>2 DEF Change, FilesOK
<1>8. CASE ContextEnds \/ Restart
  BY <1>8 DEF ContextEnds, Restart, FilesOK
<1>9. ASSUME NEW c \in Syncs,
             \/ List(c) \/ ListFails(c) \/ Producer(c) \/ (\E s \in Strategies : Begin(c, s))
             \/ Take(c) \/ ChtimesFails(c) \/ OpenFails(c) \/ ApplyEnds(c) \/ ApplyCancelled(c)
      PROVE  FilesOK'
  <2>1. UNCHANGED <<remote, target, tmp, cancelled, changes>>
    BY <1>9 DEF List, ListFails, Producer, NextEntry, Skip, StatFails, Plan, Send, Close, Begin,
       Take, ChtimesFails, OpenFails, ApplyEnds, ApplyCancelled
  <2>2. QED
    BY <2>1 DEF FilesOK
<1>10. QED
  BY <1>3, <1>4, <1>5, <1>6, <1>7, <1>8, <1>9 DEF SyncNext, SyncStep, Replicator

LEMMA NextAccounts == AccountsInv /\ [SyncNext]_syncVars => AccountsInv'
<1> SUFFICES ASSUME AccountsInv, [SyncNext]_syncVars PROVE AccountsInv'
  OBVIOUS
<1>1. CASE SyncNext
  BY <1>1, NextFiles, NextSyncs DEF AccountsInv
<1>2. CASE UNCHANGED syncVars
  BY <1>2 DEF syncVars, AccountsInv, FilesOK, SyncsOK, Sane, LocalOK, Placed, Counted, Waiting
<1>3. QED
  BY <1>1, <1>2

\* The inductive invariant of the files and the locals of every sync.
THEOREM AccountsInvariant == SyncSpec => []AccountsInv
<1>1. QED
  BY InitAccounts, NextAccounts, PTL DEF SyncSpec

\* The counters of a sync that returned without an error account for every entry of
\* its listing, once, and its producer is done: however the goroutines of the syncs
\* interleave, whatever fails, and for channels of any size.
THEOREM AccountsOKHolds == SyncSpec => []AccountsOK
<1>1. AccountsInv => AccountsOK
  <2> SUFFICES ASSUME AccountsInv PROVE AccountsOK
    OBVIOUS
  <2>1. SyncTypeOK
    BY DEF AccountsInv, FilesOK, SyncsOK, Sane, SyncTypeOK
  <2>2. ASSUME NEW c \in Syncs, sync[c].phase = "ok"
        PROVE  /\ sync[c].prod = "closed"
               /\ ~sync[c].halted => Handled(c) = Listed(c)
               /\ sync[c].skipped \cap (sync[c].failed \cup sync[c].done) = {}
    <3>1. LocalOK(sync[c])
      BY DEF AccountsInv, SyncsOK, Sane
    <3>2. /\ sync[c].prod = "closed" /\ sync[c].queue = <<>>
          /\ sync[c].item = NoEntry /\ sync[c].entry = NoEntry
          /\ sync[c].toDo = {} \/ sync[c].halted
      BY <2>2, <3>1 DEF LocalOK
    <3>3. Waiting(sync[c]) = {}
      BY <3>2 DEF Waiting
    <3>4. Placed(sync[c])
      BY <3>1 DEF LocalOK
    <3>5. QED
      BY <3>2, <3>3, <3>4 DEF Placed, Handled, Listed, Counted
  <2>3. QED
    BY <2>1, <2>2 DEF AccountsOK, OkCoversListing
<1>2. QED
  BY <1>1, AccountsInvariant, PTL

--------------------------------------------------------------------------------
(***************************************************************************)
(* A target is a whole copy, as long as one sync at a time writes to the   *)
(* tree.                                                                   *)
(***************************************************************************)
OneAtATime == \A c, d \in Syncs : AtWork(c) /\ AtWork(d) => c = d

\* t goes on from s without a change of the files.
Keeps(s, t) ==
  /\ t.listed = s.listed /\ t.had = s.had /\ t.strategy = s.strategy
  /\ t.phase \in {"items", "ok"} => s.phase \in {"items", t.phase}
  /\ t.pc \in {"copy", "rename", "times"} =>
       t.pc = s.pc /\ t.entry = s.entry /\ t.local = s.local /\ t.read = s.read /\ t.open = s.open
  /\ t.done = s.done /\ t.skipped = s.skipped

Quiet ==
  \A d \in Syncs :
    \/ sync'[d].phase \notin {"items", "ok"} /\ sync'[d].pc = "take"
    \/ Keeps(sync[d], sync'[d])

LEMMA KeepsItself == \A s : Keeps(s, s)
BY DEF Keeps

LEMMA OneKeeps ==
  ASSUME sync \in [Syncs -> Sync], NEW c \in Syncs, NEW t, sync' = [sync EXCEPT ![c] = t],
         (t.phase \notin {"items", "ok"} /\ t.pc = "take") \/ Keeps(sync[c], t)
  PROVE  Quiet
<1>1. \A d \in Syncs \ {c} : sync'[d] = sync[d]
  OBVIOUS
<1>2. sync'[c] = t
  OBVIOUS
<1>3. QED
  BY <1>1, <1>2, KeepsItself DEF Quiet

LEMMA QuietSteps ==
  ASSUME AccountsInv, NEW c \in Syncs,
         \/ \E s \in Strategies : Begin(c, s)
         \/ ListFails(c) \/ StatFails(c) \/ Plan(c) \/ Send(c) \/ Close(c)
         \/ \E e \in Entries : NextEntry(c, e)
         \/ Take(c) \/ OpenFails(c) \/ ApplyEnds(c) \/ ApplyCancelled(c)
  PROVE  Quiet /\ UNCHANGED <<remote, target, tmp, changes>>
<1>1. sync \in [Syncs -> Sync] /\ sync[c] \in Sync /\ LocalOK(sync[c])
  BY DEF AccountsInv, SyncsOK, Sane
<1>2. CASE (\E s \in Strategies : Begin(c, s)) \/ ListFails(c)
  <2>1. PICK t : /\ sync' = [sync EXCEPT ![c] = t]
                 /\ t.phase \in {"idle", "list"} /\ t.pc = "take"
    BY <1>2 DEF Begin, ListFails, NewSync
  <2>2. QED
    BY <1>1, <1>2, <2>1, OneKeeps DEF Begin, ListFails
<1>3. CASE (\E e \in Entries : NextEntry(c, e)) \/ StatFails(c) \/ Plan(c) \/ Send(c) \/ Close(c)
  <2> DEFINE t == sync'[c]
  <2>1. /\ sync' = [sync EXCEPT ![c] = t]
        /\ t.listed = sync[c].listed /\ t.had = sync[c].had /\ t.strategy = sync[c].strategy
        /\ t.phase = sync[c].phase /\ t.pc = sync[c].pc /\ t.entry = sync[c].entry
        /\ t.local = sync[c].local
        /\ t.read = sync[c].read /\ t.open = sync[c].open /\ t.done = sync[c].done
        /\ t.failed = sync[c].failed /\ sync[c].preFailed \subseteq t.preFailed
        /\ t.skipped = sync[c].skipped
    <3>1. CASE \E e \in Entries : NextEntry(c, e)
      <4>1. PICK e \in Entries : NextEntry(c, e)
        BY <3>1
      <4>2. QED
        BY <1>1, <4>1 DEF NextEntry, Sync
    <3>2. CASE StatFails(c)
      BY <1>1, <3>2 DEF StatFails, Sync
    <3>3. CASE Plan(c)
      BY <1>1, <3>3 DEF Plan, Sync
    <3>4. CASE Send(c)
      BY <1>1, <3>4 DEF Send, Sync
    <3>5. CASE Close(c)
      BY <1>1, <3>5 DEF Close, Sync
    <3>6. QED
      BY <1>3, <3>1, <3>2, <3>3, <3>4, <3>5
  <2>2. Keeps(sync[c], t)
    BY <2>1 DEF Keeps, Counted
  <2> HIDE DEF t
  <2>3. QED
    BY <1>1, <1>3, <2>1, <2>2, OneKeeps DEF NextEntry, StatFails, Plan, Send, Close
<1>4. CASE Take(c) \/ OpenFails(c)
  <2> DEFINE t == sync'[c]
  <2>1. /\ sync' = [sync EXCEPT ![c] = t]
        /\ t.listed = sync[c].listed /\ t.had = sync[c].had /\ t.strategy = sync[c].strategy
        /\ t.phase = sync[c].phase /\ t.pc \in {"take", "open"} /\ t.done = sync[c].done
        /\ t.skipped = sync[c].skipped /\ t.preFailed = sync[c].preFailed
        /\ t.failed = sync[c].failed \/ t.failed = sync[c].failed \cup {sync[c].entry}
        /\ sync[c].entry \in t.failed \cup {NoEntry}
    BY <1>1, <1>4 DEF Take, OpenFails, Failed, Sync, LocalOK
  <2>2. Keeps(sync[c], t)
    BY <2>1 DEF Keeps, Counted
  <2> HIDE DEF t
  <2>3. QED
    BY <1>1, <1>4, <2>1, <2>2, OneKeeps DEF Take, OpenFails
<1>5. CASE ApplyEnds(c) \/ ApplyCancelled(c)
  <2> DEFINE t == sync'[c]
  <2>1. /\ sync' = [sync EXCEPT ![c] = t]
        /\ t.listed = sync[c].listed /\ t.had = sync[c].had /\ t.strategy = sync[c].strategy
        /\ t.phase \in {"ok", "failed"} /\ sync[c].phase = "items"
        /\ t.pc = "take" /\ t.entry = sync[c].entry
        /\ t.done = sync[c].done /\ t.failed = sync[c].failed
        /\ t.skipped = sync[c].skipped /\ t.preFailed = sync[c].preFailed
    BY <1>1, <1>5 DEF ApplyEnds, ApplyCancelled, Sync
  <2>2. Keeps(sync[c], t)
    BY <2>1 DEF Keeps, Counted
  <2> HIDE DEF t
  <2>3. QED
    BY <1>1, <1>5, <2>1, <2>2, OneKeeps DEF ApplyEnds, ApplyCancelled
<1>6. QED
  BY <1>2, <1>3, <1>4, <1>5

LEMMA QuietProcess ==
  ASSUME AccountsInv, ContextEnds \/ Restart
  PROVE  Quiet /\ UNCHANGED <<remote, target, tmp, changes>>
<1>1. CASE ContextEnds
  <2>1. ASSUME NEW d \in Syncs
        PROVE  Keeps(sync[d], sync'[d])
    <3>1. sync'[d] = [sync[d] EXCEPT !.halted = AtWork(d)] /\ sync[d] \in Sync
      BY <1>1 DEF ContextEnds, AccountsInv, SyncsOK
    <3>2. QED
      BY <3>1 DEF Keeps, Counted, Sync
  <2>2. QED
    BY <1>1, <2>1 DEF ContextEnds, Quiet
<1>2. CASE Restart
  BY <1>2 DEF Restart, Quiet, NewSync
<1>3. QED
  BY <1>1, <1>2

LEMMA OthersAreIdle ==
  ASSUME AccountsInv, OneAtATime, NEW c \in Syncs, AtWork(c)
  PROVE  \A d \in Syncs \ {c} : sync[d].pc = "take"
<1>1. \A d \in Syncs : sync[d].pc # "take" => AtWork(d)
  BY EntryAtHand DEF AccountsInv, AtWork
<1>2. QED
  BY <1>1 DEF OneAtATime

\* A step of the replicator of c leaves the others where they are.
LEMMA OthersKeepPc ==
  ASSUME AccountsInv, NEW c \in Syncs, Replicator(c), NEW d \in Syncs, d # c
  PROVE  sync'[d].pc = sync[d].pc
<1>1. sync \in [Syncs -> Sync] /\ sync[d] \in Sync /\ SyncsOK
  BY DEF AccountsInv, SyncsOK
<1>2. ASSUME NEW to \in {"target", "lost"}
      PROVE  Moved(sync[c].entry, to)[d].pc = sync[d].pc
  <2> DEFINE m == Moved(sync[c].entry, to)
  <2>1. \A x \in Syncs : \E o \in {"none", "tmp", "target", "lost"} :
          m[x] = [sync[x] EXCEPT !.open = o]
    BY <1>1, MovedOK
  <2> HIDE DEF m
  <2>2. m[d].pc = sync[d].pc
    BY <1>1, <2>1 DEF Sync
  <2>3. QED
    BY <2>2 DEF m
<1>3. CASE Rename(c)
  <2>1. sync'[d] = Moved(sync[c].entry, "target")[d]
    BY <1>3, MovedOK, <1>1 DEF Rename
  <2>2. QED
    BY <1>2, <2>1
<1>4. CASE CopyFails(c)
  <2>1. sync'[d] = Moved(sync[c].entry, "lost")[d]
    BY <1>4, MovedOK, <1>1 DEF CopyFails, Failed
  <2>2. QED
    BY <1>2, <2>1
<1>5. CASE FallBack(c)
  <2> DEFINE m == IF sync[c].pc # "open" THEN Moved(sync[c].entry, "lost") ELSE sync
  <2>1. m = sync \/ m = Moved(sync[c].entry, "lost")
    OBVIOUS
  <2>2. m[d].pc = sync[d].pc
    BY <1>2, <2>1
  <2>3. sync' = [m EXCEPT ![c].pc = "open", ![c].local = TRUE, ![c].read = 0, ![c].open = "none"]
    BY <1>5 DEF FallBack
  <2> HIDE DEF m
  <2>4. m \in [Syncs -> Sync]
    BY <1>1, <2>1, MovedOrSame
  <2>5. QED
    BY <2>2, <2>3, <2>4
<1>6. CASE \/ Take(c) \/ Open(c) \/ Copy(c) \/ Chtimes(c) \/ ChtimesFails(c)
           \/ OpenFails(c) \/ ApplyEnds(c) \/ ApplyCancelled(c)
  BY <1>1, <1>6 DEF Take, Open, Copy, Chtimes, ChtimesFails, Finish, OpenFails, Failed,
     ApplyEnds, ApplyCancelled
<1>7. QED
  BY <1>3, <1>4, <1>5, <1>6 DEF Replicator

LEMMA QuietKeepsWhole ==
  ASSUME WholeInv, Quiet, UNCHANGED <<target, tmp>>
  PROVE  WholeInv'
<1>1. \A d \in Syncs : CopyOK(sync[d])'
  BY DEF WholeInv, Quiet, Keeps, CopyOK
<1>2. QED
  BY <1>1 DEF WholeInv, TargetIsWhole

LEMMA ReplicatorKeepsWhole ==
  ASSUME AccountsInv, OneAtATime, WholeInv, NEW c \in Syncs, AtWork(c),
         \/ Open(c) \/ Copy(c) \/ Rename(c) \/ Chtimes(c) \/ ChtimesFails(c)
         \/ CopyFails(c) \/ FallBack(c)
  PROVE  WholeInv'
<1> DEFINE s == sync[c]
           e == sync[c].entry
<1>1. /\ sync \in [Syncs -> Sync] /\ s \in Sync /\ SyncsOK
      /\ target \in [Entries -> [content: Contents, time: Nat]] /\ tmp \in [Entries -> Contents]
  BY DEF AccountsInv, SyncsOK, FilesOK
<1>2. /\ s.pc # "take" /\ e \in Entries /\ s.listed[e] \in Versions
      /\ s.pc \in {"rename", "times"} => s.read \in Versions
  BY EntryAtHand, <1>1 DEF Open, Copy, Rename, Chtimes, ChtimesFails, CopyFails, FallBack
<1>3. \A d \in Syncs \ {c} : CopyOK(sync[d])'
  <2>1. \A d \in Syncs \ {c} : sync'[d].pc = "take"
    BY OthersAreIdle, OthersKeepPc DEF Replicator
  <2>2. QED
    BY <2>1 DEF CopyOK
<1>4. \A i \in Entries : target[i].content \in Full \cup {Missing}
  BY DEF WholeInv, TargetIsWhole
<1>5. CopyOK(s)
  BY DEF WholeInv
<1>6. SUFFICES CopyOK(sync[c])' /\ \A i \in Entries : target'[i].content \in Full \cup {Missing}
  BY <1>3 DEF WholeInv, TargetIsWhole
<1>7. CASE Open(c)
  <2>1. sync'[c].pc = "copy" /\ sync'[c].open = "tmp" /\ sync'[c].entry = e
    BY <1>1, <1>7 DEF Open, Sync
  <2>2. tmp'[e] = Blank /\ UNCHANGED target
    BY <1>1, <1>2, <1>7 DEF Open
  <2>3. QED
    BY <1>4, <2>1, <2>2 DEF CopyOK
<1>8. CASE Copy(c)
  <2>1. s.open = "tmp" /\ tmp[e] = Blank
    BY <1>5, <1>8 DEF Copy, CopyOK
  <2>2. UNCHANGED target /\ tmp'[e] = Source(c)
    BY <1>1, <1>2, <1>8, <2>1 DEF Copy, CopyInto
  <2>3. sync'[c].pc = "rename" /\ sync'[c].entry = e /\ sync'[c].read = Source(c)
    BY <1>1, <1>8 DEF Copy, Sync
  <2>4. QED
    BY <1>4, <2>2, <2>3 DEF CopyOK
<1>9. CASE Rename(c)
  <2>1. tmp[e] = s.read /\ s.read \in Full
    BY <1>2, <1>5, <1>9 DEF Rename, CopyOK, Full
  <2>2. \E n \in WriteTimes : target' = [target EXCEPT ![e] = [content |-> s.read, time |-> n]]
    BY <1>9, <2>1 DEF Rename
  <2>3. sync'[c].pc = "times" /\ sync'[c].entry = e /\ sync'[c].read = s.read
    BY <1>1, <1>9, AfterRename
  <2>4. QED
    BY <1>1, <1>2, <1>4, <2>1, <2>2, <2>3 DEF CopyOK
<1>10. CASE Chtimes(c) \/ ChtimesFails(c)
  <2>1. \A i \in Entries : target'[i].content = target[i].content
    <3>1. target' = target \/ target' = [target EXCEPT ![e].time = TimeOf[s.listed[e]]]
      BY <1>10 DEF Chtimes, ChtimesFails
    <3>2. QED
      BY <1>1, <3>1
  <2>2. sync'[c].pc = "take"
    BY <1>1, <1>10 DEF Chtimes, ChtimesFails, Finish, Sync
  <2>3. QED
    BY <1>4, <2>1, <2>2 DEF CopyOK
<1>11. CASE CopyFails(c)
  <2>1. sync'[c].pc = "take"
    <3> DEFINE m == Moved(e, "lost")
    <3>1. m \in [Syncs -> Sync]
      BY <1>1, MovedOK
    <3>2. sync' = [m EXCEPT ![c].pc = "take", ![c].entry = NoEntry, ![c].local = FALSE,
                            ![c].read = 0, ![c].open = "none", ![c].failed = @ \cup {e}]
      BY <1>11 DEF CopyFails, Failed
    <3> HIDE DEF m
    <3>3. QED
      BY <3>1, <3>2 DEF Sync
  <2>2. UNCHANGED target
    BY <1>11 DEF CopyFails
  <2>3. QED
    BY <1>4, <2>1, <2>2 DEF CopyOK
<1>12. CASE FallBack(c)
  <2>1. sync'[c].pc = "open"
    <3> DEFINE m == IF s.pc # "open" THEN Moved(e, "lost") ELSE sync
    <3>1. m = sync \/ m = Moved(e, "lost")
      OBVIOUS
    <3>2. sync' = [m EXCEPT ![c].pc = "open", ![c].local = TRUE, ![c].read = 0, ![c].open = "none"]
      BY <1>12 DEF FallBack
    <3> HIDE DEF m
    <3>3. m \in [Syncs -> Sync]
      BY <1>1, <3>1, MovedOrSame
    <3>4. QED
      BY <3>2, <3>3 DEF Sync
  <2>2. UNCHANGED target
    BY <1>12 DEF FallBack
  <2>3. QED
    BY <1>4, <2>1, <2>2 DEF CopyOK
<1>13. QED
  BY <1>7, <1>8, <1>9, <1>10, <1>11, <1>12

\* What does not copy and does not write keeps the file that is being copied.
LEMMA IdleKeepsWhole ==
  ASSUME WholeInv, UNCHANGED <<target, tmp>>,
         \A d \in Syncs :
           \/ sync'[d].pc \in {"take", "open"}
           \/ /\ sync'[d].pc = sync[d].pc /\ sync'[d].entry = sync[d].entry
              /\ sync'[d].read = sync[d].read /\ sync'[d].open = sync[d].open
  PROVE  WholeInv'
<1>1. \A d \in Syncs : CopyOK(sync[d])'
  BY DEF WholeInv, CopyOK
<1>2. QED
  BY <1>1 DEF WholeInv, TargetIsWhole

LEMMA InitWhole == SyncInit => WholeInv
BY DEF SyncInit, NewSync, NoFile, WholeInv, TargetIsWhole, CopyOK

LEMMA NextWhole == AccountsInv /\ OneAtATime /\ WholeInv /\ [SyncNext]_syncVars => WholeInv'
<1> SUFFICES ASSUME AccountsInv, OneAtATime, WholeInv, [SyncNext]_syncVars PROVE WholeInv'
  OBVIOUS
<1>1. sync \in [Syncs -> Sync] /\ \A d \in Syncs : sync[d] \in Sync /\ LocalOK(sync[d])
  BY DEF AccountsInv, SyncsOK, Sane
<1>2. ASSUME NEW c \in Syncs,
             \/ \E s \in Strategies : Begin(c, s)
             \/ ListFails(c) \/ StatFails(c) \/ Plan(c) \/ Send(c) \/ Close(c)
             \/ \E e \in Entries : NextEntry(c, e)
             \/ Take(c) \/ OpenFails(c) \/ ApplyEnds(c) \/ ApplyCancelled(c)
      PROVE  WholeInv'
  BY <1>2, QuietSteps, QuietKeepsWhole
<1>3. CASE ContextEnds \/ Restart
  BY <1>3, QuietProcess, QuietKeepsWhole
<1>4. ASSUME NEW c \in Syncs, List(c) \/ Skip(c)
      PROVE  WholeInv'
  <2>1. /\ sync'[c].pc = sync[c].pc /\ sync'[c].entry = sync[c].entry
        /\ sync'[c].read = sync[c].read /\ sync'[c].open = sync[c].open
        /\ \A d \in Syncs \ {c} : sync'[d] = sync[d]
    <3>1. CASE List(c)
      <4>1. PICK l, h, w : sync' = [sync EXCEPT ![c] =
              [@ EXCEPT !.phase = "items", !.prod = "loop", !.listed = l, !.had = h, !.toDo = w]]
        BY <1>1, <3>1 DEF List
      <4>2. QED
        BY <1>1, <4>1 DEF Sync
    <3>2. CASE Skip(c)
      BY <1>1, <3>2 DEF Skip, Sync
    <3>3. QED
      BY <1>4, <3>1, <3>2
  <2>2. UNCHANGED <<target, tmp>>
    BY <1>4 DEF List, Skip
  <2>3. QED
    BY <2>1, <2>2, IdleKeepsWhole
<1>5. ASSUME NEW e \in Entries, Change(e)
      PROVE  WholeInv'
  <2>1. ASSUME NEW d \in Syncs
        PROVE  /\ sync'[d].pc = sync[d].pc /\ sync'[d].entry = sync[d].entry
               /\ sync'[d].read = sync[d].read /\ sync'[d].open = sync[d].open
    BY <1>1, <1>5 DEF Change, Sync
  <2>2. UNCHANGED <<target, tmp>>
    BY <1>5 DEF Change
  <2>3. QED
    BY <2>1, <2>2, IdleKeepsWhole
<1>6. ASSUME NEW c \in Syncs,
             \/ Open(c) \/ Copy(c) \/ Rename(c) \/ Chtimes(c) \/ ChtimesFails(c)
             \/ CopyFails(c) \/ FallBack(c)
      PROVE  WholeInv'
  <2>1. sync[c].pc # "take"
    BY <1>6 DEF Open, Copy, Rename, Chtimes, ChtimesFails, CopyFails, FallBack
  <2>2. AtWork(c)
    BY <2>1, EntryAtHand DEF AccountsInv, AtWork
  <2>3. QED
    BY <1>6, <2>2, ReplicatorKeepsWhole
<1>7. CASE UNCHANGED syncVars
  BY <1>7, IdleKeepsWhole DEF syncVars
<1>8. QED
  BY <1>2, <1>3, <1>4, <1>5, <1>6, <1>7 DEF SyncNext, SyncStep, Producer, Replicator

\* A target is a complete copy of some version at any moment, whatever fails and
\* whenever the process ends, if no two syncs of the tree are at work together.
THEOREM TargetIsWholeHolds == SyncSpec /\ []OneAtATime => []TargetIsWhole
<1>1. WholeInv => TargetIsWhole
  BY DEF WholeInv
<1>2. QED
  BY <1>1, AccountsInvariant, InitWhole, NextWhole, PTL DEF SyncSpec

--------------------------------------------------------------------------------
(***************************************************************************)
(* A copy is current.  The history had of a sync ends with the sync, so    *)
(* that the property is about one.                                         *)
(***************************************************************************)
OneSync == \A c, d \in Syncs : c = d

SyncCurrent(s) == ReadOK(s) /\ ListingOK(s) /\ CopiesOK(s)

LEMMA QuietKeepsCurrent ==
  ASSUME CurrentInv, Quiet, UNCHANGED <<remote, target>>
  PROVE  \A d \in Syncs : SyncCurrent(sync[d])'
<1> SUFFICES ASSUME NEW d \in Syncs PROVE SyncCurrent(sync[d])'
  OBVIOUS
<1>1. CASE sync'[d].phase \notin {"items", "ok"} /\ sync'[d].pc = "take"
  BY <1>1 DEF SyncCurrent, ReadOK, ListingOK, CopiesOK
<1>2. CASE Keeps(sync[d], sync'[d])
  <2>1. ReadOK(sync[d]) /\ ListingOK(sync[d]) /\ CopiesOK(sync[d])
    BY DEF CurrentInv
  <2>2. ReadOK(sync[d])'
    BY <1>2, <2>1 DEF Keeps, ReadOK
  <2>3. ListingOK(sync[d])'
    BY <1>2, <2>1 DEF Keeps, ListingOK
  <2>4. CopiesOK(sync[d])'
    BY <1>2, <2>1 DEF Keeps, CopiesOK
  <2>5. QED
    BY <2>2, <2>3, <2>4 DEF SyncCurrent
<1>3. QED
  BY <1>1, <1>2 DEF Quiet

LEMMA ListIsCurrent ==
  ASSUME AccountsInv, CurrentInv, NEW c \in Syncs, List(c)
  PROVE  SyncCurrent(sync[c])'
<1>1. UNCHANGED <<remote, target>> /\ sync[c].phase = "list"
  BY DEF List
<1>2. sync[c] \in Sync /\ LocalOK(sync[c])
  BY DEF AccountsInv, SyncsOK, Sane
<1>3. sync[c].pc = "take" /\ sync[c].done = {} /\ sync[c].skipped = {}
  BY <1>1, <1>2 DEF LocalOK, Counted
<1>4. PICK w : sync'[c] = [sync[c] EXCEPT !.phase = "items", !.prod = "loop", !.listed = remote,
                                     !.had = [e \in Entries |-> {remote[e]}], !.toDo = w]
  BY DEF List, AccountsInv, SyncsOK
<1>5. /\ sync'[c].pc = "take" /\ sync'[c].done = {} /\ sync'[c].skipped = {} /\ sync'[c].listed = remote
      /\ sync'[c].had = [e \in Entries |-> {remote[e]}] /\ sync'[c].phase = "items"
  BY <1>2, <1>3, <1>4 DEF Sync
<1>6. QED
  BY <1>1, <1>5 DEF SyncCurrent, ReadOK, ListingOK, CopiesOK

LEMMA SkipIsCurrent ==
  ASSUME AccountsInv, CurrentInv, NEW c \in Syncs, Skip(c)
  PROVE  SyncCurrent(sync[c])'
<1> DEFINE s == sync[c]
           e == s.item
<1>1. s \in Sync /\ LocalOK(s) /\ ReadOK(s) /\ ListingOK(s) /\ CopiesOK(s)
  BY DEF AccountsInv, SyncsOK, Sane, CurrentInv
<1>2. /\ UNCHANGED <<remote, target, tmp, changes>> /\ s.prod = "stat"
      /\ sync'[c] = [s EXCEPT !.prod = "loop", !.item = NoEntry, !.skipped = @ \cup {e}]
  BY DEF Skip, AccountsInv, SyncsOK
<1>3. /\ sync'[c].phase = s.phase /\ sync'[c].listed = s.listed /\ sync'[c].had = s.had
      /\ sync'[c].strategy = s.strategy /\ sync'[c].pc = s.pc /\ sync'[c].entry = s.entry
      /\ sync'[c].local = s.local /\ sync'[c].read = s.read /\ sync'[c].done = s.done
      /\ sync'[c].skipped = s.skipped \cup {e}
  BY <1>1, <1>2 DEF Sync
<1>4. ReadOK(sync[c])'
  BY <1>1, <1>2, <1>3 DEF ReadOK
<1>5. ListingOK(sync[c])'
  BY <1>1, <1>2, <1>3 DEF ListingOK
<1>6. e \in Entries /\ s.listed[e] \in Versions
  <2>1. e \in Entries
    BY <1>1, <1>2 DEF LocalOK, Sync
  <2>2. s.listed[e] # 0
    BY <1>1, <2>1, MetadataAssumption DEF LocalOK, Placed
  <2>3. QED
    BY <1>1, <2>1, <2>2 DEF Sync
<1>7. s.phase = "ok" => s.prod = "closed"
  BY <1>1 DEF LocalOK
<1>8. ASSUME s.phase = "items", s.strategy # "skip"
      PROVE  /\ target[e].content \in Full
             /\ \E v \in s.had[e] \ {0} : Same(SizeOf[target[e].content], target[e].time, v)
  <2>1. PICK size \in Sizes(target[e].content) : Skips(c, e, size)
    BY DEF Skip
  <2>2. target[e].content # Missing /\ Same(size, target[e].time, s.listed[e])
    BY <1>8, <2>1 DEF Skips
  <2>3. target[e].content \in Full
    BY <1>6, <2>2 DEF CurrentInv, WholeInv, TargetIsWhole
  <2>4. size = SizeOf[target[e].content]
    <3>1. Sizes(target[e].content) = {SizeOf[target[e].content]}
      BY <2>3, MetadataAssumption DEF Sizes, Full, Versions
    <3>2. QED
      BY <2>1, <3>1
  <2>5. s.listed[e] \in s.had[e] \ {0}
    BY <1>1, <1>6, <1>8 DEF ListingOK, Versions
  <2>6. QED
    BY <2>2, <2>3, <2>4, <2>5
<1>9. CopiesOK(sync[c])'
  <2>1. CASE s.phase = "items"
    BY <1>1, <1>2, <1>3, <1>8, <2>1 DEF CopiesOK
  <2>2. CASE s.phase # "items"
    BY <1>2, <1>3, <1>7, <2>2 DEF CopiesOK
  <2>3. QED
    BY <2>1, <2>2
<1>10. QED
  BY <1>4, <1>5, <1>9 DEF SyncCurrent

\* What the steps that copy an entry do not change.
LEMMA OnlyCopies ==
  ASSUME AccountsInv, NEW c \in Syncs, Open(c) \/ Copy(c) \/ Rename(c)
  PROVE  /\ sync'[c].phase = sync[c].phase /\ sync'[c].strategy = sync[c].strategy
         /\ sync'[c].had = sync[c].had /\ sync'[c].listed = sync[c].listed
         /\ sync'[c].entry = sync[c].entry /\ sync'[c].done = sync[c].done
         /\ sync'[c].skipped = sync[c].skipped /\ sync'[c].local = sync[c].local
         /\ UNCHANGED remote
<1>1. sync \in [Syncs -> Sync] /\ sync[c] \in Sync /\ SyncsOK
  BY DEF AccountsInv, SyncsOK
<1>2. CASE Open(c)
  BY <1>1, <1>2 DEF Open, Sync
<1>3. CASE Copy(c)
  BY <1>1, <1>3 DEF Copy, Sync
<1>4. CASE Rename(c)
  BY <1>1, <1>4, AfterRename DEF Rename
<1>5. QED
  BY <1>2, <1>3, <1>4

\* The source is opened, and copied to the temporary file.
LEMMA ReadIsCurrent ==
  ASSUME AccountsInv, CurrentInv, NEW c \in Syncs, Open(c) \/ Copy(c)
  PROVE  SyncCurrent(sync[c])'
<1> DEFINE s == sync[c]
           e == s.entry
<1>1. ReadOK(s) /\ ListingOK(s) /\ CopiesOK(s) /\ CopyOK(s)
  BY DEF CurrentInv, WholeInv
<1>2. e \in Entries /\ s.phase = "items" /\ s \in Sync /\ sync \in [Syncs -> Sync]
  BY EntryAtHand DEF Open, Copy, AccountsInv, SyncsOK
<1>3. UNCHANGED target
  BY <1>1 DEF Open, Copy, CopyOK
<1>4. remote[e] \in s.had[e]
  BY <1>1, <1>2 DEF ListingOK
<1>5. ReadOK(sync[c])'
  <2>1. CASE Open(c)
    <3>1. sync'[c].pc = "copy" /\ (s.local => sync'[c].read = remote[e])
      BY <1>2, <2>1 DEF Open, Sync
    <3>2. QED
      BY <1>4, <3>1, OnlyCopies DEF ReadOK
  <2>2. CASE Copy(c)
    <3>1. s.pc = "copy" /\ sync'[c].read = Source(c)
      BY <1>2, <2>2 DEF Copy, Sync
    <3>2. Source(c) \in s.had[e]
      BY <1>1, <1>4, <3>1 DEF Source, ReadOK
    <3>3. QED
      BY <3>1, <3>2, OnlyCopies DEF ReadOK
  <2>3. QED
    BY <2>1, <2>2
<1>6. ListingOK(sync[c])'
  BY <1>1, <1>3, OnlyCopies DEF ListingOK
<1>7. CopiesOK(sync[c])'
  BY <1>1, <1>3, OnlyCopies DEF CopiesOK
<1>8. QED
  BY <1>5, <1>6, <1>7 DEF SyncCurrent

LEMMA RenameIsCurrent ==
  ASSUME AccountsInv, CurrentInv, NEW c \in Syncs, Rename(c)
  PROVE  SyncCurrent(sync[c])'
<1> DEFINE s == sync[c]
           e == s.entry
<1>1. ReadOK(s) /\ ListingOK(s) /\ CopiesOK(s)
  BY DEF CurrentInv
<1>2. sync'[c].read = s.read /\ s.pc = "rename" /\ s \in Sync /\ LocalOK(s)
  <2>1. SyncsOK
    BY DEF AccountsInv
  <2>2. sync'[c].read = s.read
    BY <2>1, AfterRename
  <2>3. QED
    BY <2>1, <2>2 DEF Rename, SyncsOK, Sane
<1>3. \A i \in Entries \ {e} : target'[i] = target[i]
  BY DEF Rename, AccountsInv, FilesOK
<1>4. ReadOK(sync[c])'
  BY <1>1, <1>2, OnlyCopies DEF ReadOK
<1>5. ListingOK(sync[c])'
  BY <1>1, OnlyCopies DEF ListingOK
<1>6. s.done \cup s.skipped \subseteq Entries \ {e}
  BY <1>2 DEF LocalOK, Placed, Counted, Sync
<1>7. CopiesOK(sync[c])'
  BY <1>1, <1>3, <1>6, OnlyCopies DEF CopiesOK
<1>8. QED
  BY <1>4, <1>5, <1>7 DEF SyncCurrent

LEMMA FinishIsCurrent ==
  ASSUME AccountsInv, CurrentInv, NEW c \in Syncs, Chtimes(c) \/ ChtimesFails(c)
  PROVE  SyncCurrent(sync[c])'
<1> DEFINE s == sync[c]
           e == s.entry
<1>1. ReadOK(s) /\ ListingOK(s) /\ CopiesOK(s) /\ CopyOK(s)
  BY DEF CurrentInv, WholeInv
<1>2. /\ e \in Entries /\ s.phase = "items" /\ s.pc = "times" /\ s.read \in Versions
      /\ target \in [Entries -> [content: Contents, time: Nat]]
      /\ sync \in [Syncs -> Sync] /\ s \in Sync /\ LocalOK(s)
  BY EntryAtHand DEF Chtimes, ChtimesFails, AccountsInv, FilesOK, SyncsOK, Sane
<1>3. UNCHANGED remote
  BY DEF Chtimes, ChtimesFails
<1>4. /\ sync'[c].phase = s.phase /\ sync'[c].strategy = s.strategy /\ sync'[c].pc = "take"
      /\ sync'[c].listed = s.listed /\ sync'[c].had = s.had
      /\ sync'[c].done = s.done \cup {e} /\ sync'[c].skipped = s.skipped
  BY <1>2 DEF Chtimes, ChtimesFails, Finish, Sync
<1>5. /\ \A i \in Entries : target'[i].content = target[i].content
      /\ \A i \in Entries \ {e} : target'[i] = target[i]
  BY <1>2 DEF Chtimes, ChtimesFails
<1>6. target[e].content \in s.had[e] \ {0}
  BY <1>1, <1>2 DEF CopyOK, ReadOK, Versions
<1>7. ReadOK(sync[c])'
  BY <1>4 DEF ReadOK
<1>8. ListingOK(sync[c])'
  BY <1>1, <1>3, <1>4 DEF ListingOK
<1>9. s.done \subseteq Entries /\ s.skipped \subseteq Entries \ {e}
  BY <1>2 DEF LocalOK, Placed, Counted, Sync
<1>10. CopiesOK(sync[c])'
  BY <1>1, <1>2, <1>4, <1>5, <1>6, <1>9 DEF CopiesOK
<1>11. QED
  BY <1>7, <1>8, <1>10 DEF SyncCurrent

\* An attempt that fails leaves the target, and what was done, as they are.
LEMMA FailureIsQuiet ==
  ASSUME AccountsInv, OneSync, NEW c \in Syncs, CopyFails(c) \/ FallBack(c)
  PROVE  Quiet /\ UNCHANGED <<remote, target>>
<1> DEFINE s == sync[c]
<1>1. SyncsOK /\ s \in Sync
  BY DEF AccountsInv, SyncsOK
<1>2. /\ sync'[c].phase = s.phase /\ sync'[c].strategy = s.strategy /\ sync'[c].pc \in {"take", "open"}
      /\ sync'[c].listed = s.listed /\ sync'[c].had = s.had
      /\ sync'[c].done = s.done /\ sync'[c].skipped = s.skipped
  <2>1. CASE CopyFails(c)
    <3> DEFINE m == Moved(s.entry, "lost")
    <3>1. sync' = [m EXCEPT ![c].pc = "take", ![c].entry = NoEntry, ![c].local = FALSE,
                            ![c].read = 0, ![c].open = "none", ![c].failed = @ \cup {s.entry}]
      BY <2>1 DEF CopyFails, Failed
    <3>2. m = sync \/ m = Moved(s.entry, "lost")
      OBVIOUS
    <3> HIDE DEF m
    <3>3. m \in [Syncs -> Sync] /\ \E o : m[c] = [s EXCEPT !.open = o]
      BY <1>1, <3>2, MovedOrSame
    <3>4. QED
      BY <1>1, <3>1, <3>3 DEF Sync
  <2>2. CASE FallBack(c)
    <3> DEFINE m == IF s.pc # "open" THEN Moved(s.entry, "lost") ELSE sync
    <3>1. sync' = [m EXCEPT ![c].pc = "open", ![c].local = TRUE, ![c].read = 0, ![c].open = "none"]
      BY <2>2 DEF FallBack
    <3>2. m = sync \/ m = Moved(s.entry, "lost")
      OBVIOUS
    <3> HIDE DEF m
    <3>3. m \in [Syncs -> Sync] /\ \E o : m[c] = [s EXCEPT !.open = o]
      BY <1>1, <3>2, MovedOrSame
    <3>4. QED
      BY <1>1, <3>1, <3>3 DEF Sync
  <2>3. QED
    BY <2>1, <2>2
<1>3. Keeps(s, sync'[c])
  BY <1>2 DEF Keeps
<1>4. UNCHANGED <<remote, target>>
  BY DEF CopyFails, FallBack
<1>5. QED
  BY <1>3, <1>4 DEF OneSync, Quiet

\* What is known of copies stays known when the source changes: versions are added.
LEMMA ChangeIsCurrent ==
  ASSUME AccountsInv, CurrentInv, NEW e \in Entries, Change(e)
  PROVE  \A c \in Syncs : SyncCurrent(sync[c])'
<1>1. PICK v \in {0, changes + 2} :
        /\ remote' = [remote EXCEPT ![e] = v]
        /\ sync' = [c \in Syncs |->
             IF sync[c].phase = "items" THEN [sync[c] EXCEPT !.had[e] = @ \cup {v}] ELSE sync[c]]
  BY DEF Change
<1>2. /\ UNCHANGED target /\ remote'[e] = v /\ \A i \in Entries \ {e} : remote'[i] = remote[i]
  BY <1>1 DEF Change, AccountsInv, FilesOK
<1> SUFFICES ASSUME NEW c \in Syncs
             PROVE  SyncCurrent(sync[c])'
  OBVIOUS
<1> DEFINE s == sync[c]
           had == IF s.phase = "items" THEN [s.had EXCEPT ![e] = @ \cup {v}] ELSE s.had
<1>3. ReadOK(s) /\ ListingOK(s) /\ CopiesOK(s) /\ s \in Sync /\ SyncsOK /\ LocalOK(s)
  BY DEF CurrentInv, AccountsInv, SyncsOK, Sane
<1>4. /\ sync'[c].phase = s.phase /\ sync'[c].strategy = s.strategy /\ sync'[c].pc = s.pc
      /\ sync'[c].listed = s.listed /\ sync'[c].had = had /\ sync'[c].entry = s.entry
      /\ sync'[c].done = s.done /\ sync'[c].skipped = s.skipped
      /\ sync'[c].read = s.read /\ sync'[c].local = s.local
  <2>1. sync'[c] = IF s.phase = "items" THEN [s EXCEPT !.had[e] = @ \cup {v}] ELSE s
    BY <1>1
  <2>2. QED
    BY <1>3, <2>1 DEF Sync
<1>5. (\A i \in Entries : s.had[i] \subseteq had[i]) /\ (s.phase = "items" => v \in had[e])
  <2>1. s.had \in [Entries -> SUBSET (Versions \cup {0})]
    BY <1>3 DEF Sync
  <2>2. CASE s.phase = "items"
    <3>1. had = [s.had EXCEPT ![e] = @ \cup {v}]
      BY <2>2
    <3> HIDE DEF had
    <3>2. QED
      BY <2>1, <3>1
  <2>3. CASE s.phase # "items"
    BY <2>3
  <2>4. QED
    BY <2>2, <2>3
<1> HIDE DEF had
<1>6. ReadOK(sync[c])'
  BY <1>3, <1>4, <1>5, EntryAtHand DEF ReadOK
<1>7. ListingOK(sync[c])'
  BY <1>2, <1>3, <1>4, <1>5 DEF ListingOK
<1>8. s.done \subseteq Entries /\ s.skipped \subseteq Entries
  BY <1>3 DEF Sync
<1>9. CopiesOK(sync[c])'
  BY <1>2, <1>3, <1>4, <1>5, <1>8 DEF CopiesOK
<1>10. QED
  BY <1>6, <1>7, <1>9 DEF SyncCurrent

LEMMA InitCurrent == SyncInit => CurrentInv
<1> SUFFICES ASSUME SyncInit PROVE CurrentInv
  OBVIOUS
<1>1. \A c \in Syncs : sync[c].phase = "idle" /\ sync[c].pc = "take"
  BY DEF SyncInit, NewSync
<1>2. QED
  BY <1>1, InitWhole DEF CurrentInv, ReadOK, ListingOK, CopiesOK

LEMMA NextCurrent ==
  ASSUME OneSync
  PROVE  AccountsInv /\ CurrentInv /\ [SyncNext]_syncVars => CurrentInv'
<1> SUFFICES ASSUME AccountsInv, CurrentInv, [SyncNext]_syncVars PROVE CurrentInv'
  OBVIOUS
<1>1. WholeInv'
  <2>1. OneAtATime
    BY DEF OneSync, OneAtATime
  <2>2. WholeInv
    BY DEF CurrentInv
  <2>3. QED
    BY <2>1, <2>2, NextWhole
<1>2. SUFFICES \A d \in Syncs : SyncCurrent(sync[d])'
  BY <1>1 DEF CurrentInv, SyncCurrent
<1>3. ASSUME NEW c \in Syncs,
             \/ \E s \in Strategies : Begin(c, s)
             \/ ListFails(c) \/ StatFails(c) \/ Plan(c) \/ Send(c) \/ Close(c)
             \/ \E e \in Entries : NextEntry(c, e)
             \/ Take(c) \/ OpenFails(c) \/ ApplyEnds(c) \/ ApplyCancelled(c)
      PROVE  \A d \in Syncs : SyncCurrent(sync[d])'
  BY <1>3, QuietSteps, QuietKeepsCurrent
<1>4. ASSUME NEW c \in Syncs, CopyFails(c) \/ FallBack(c)
      PROVE  \A d \in Syncs : SyncCurrent(sync[d])'
  BY <1>4, FailureIsQuiet, QuietKeepsCurrent
<1>5. CASE ContextEnds \/ Restart
  BY <1>5, QuietProcess, QuietKeepsCurrent
<1>6. ASSUME NEW c \in Syncs,
             \/ List(c) \/ Skip(c) \/ Open(c) \/ Copy(c) \/ Rename(c)
             \/ Chtimes(c) \/ ChtimesFails(c)
      PROVE  \A d \in Syncs : SyncCurrent(sync[d])'
  <2>1. SyncCurrent(sync[c])'
    BY <1>6, ListIsCurrent, SkipIsCurrent, ReadIsCurrent, RenameIsCurrent, FinishIsCurrent
  <2>2. \A d \in Syncs : d = c
    BY DEF OneSync
  <2>3. QED
    BY <2>1, <2>2
<1>7. ASSUME NEW e \in Entries, Change(e)
      PROVE  \A d \in Syncs : SyncCurrent(sync[d])'
  BY <1>7, ChangeIsCurrent
<1>8. CASE UNCHANGED syncVars
  <2>1. Quiet /\ UNCHANGED <<remote, target>>
    BY <1>8, KeepsItself DEF syncVars, Quiet
  <2>2. QED
    BY <2>1, QuietKeepsCurrent
<1>9. QED
  BY <1>3, <1>4, <1>5, <1>6, <1>7, <1>8 DEF SyncNext, SyncStep, Producer, Replicator

\* What a sync copied is a version that the source has had since the listing, and what
\* it left in place is a whole copy that looks like one: for one sync after another of a
\* tree of any size whose source changes, fails and comes back at any moment, and for
\* files of any size and time, written at any time.
THEOREM OkIsCurrentHolds ==
  ASSUME OneSync
  PROVE  SyncSpec => []OkIsCurrent
<1>1. CurrentInv => OkIsCurrent
  BY DEF CurrentInv, CopiesOK, OkIsCurrent
<1>2. AccountsInv /\ CurrentInv /\ [SyncNext]_syncVars => CurrentInv'
  BY OneSync, NextCurrent
<1>3. QED
  BY <1>1, <1>2, AccountsInvariant, InitCurrent, PTL DEF SyncSpec

-------------------------------------------------------------------------------
(***************************************************************************)
(* Runs and their syncs together (module Execution).                       *)
(***************************************************************************)

\* Where a goroutine that is in the engine may go, where one that completes its run
\* comes from, and when the context of the pool is done.
LEMMA EngineMoves ==
  ASSUME PoolInv, [PoolNext]_poolVars, NEW w \in Workers
  PROVE  /\ wpc[w] = "exec" /\ wpc'[w] = "exec" => wjob'[w] = wjob[w]
         /\ wpc[w] = "exec" =>
              wpc'[w] \in {"exec", "complete", "fail"} \/ (server # "down" /\ server' = "down")
         /\ wpc'[w] = "complete" => wpc[w] \in {"exec", "complete"}
<1>1. /\ wpc \in [Workers -> WorkerState]
      /\ wjob \in [Workers -> JobIds \cup {Null}]
  BY DEF PoolInv, PoolTypeOK
<1>2. CASE UNCHANGED poolVars
  BY <1>2 DEF poolVars, workerVars
<1>3. ASSUME NEW v \in Workers, WorkerStep(v)
      PROVE  /\ wpc[w] = "exec" /\ wpc'[w] = "exec" => wjob'[w] = wjob[w]
             /\ wpc[w] = "exec" => wpc'[w] \in {"exec", "complete", "fail"}
             /\ wpc'[w] = "complete" => wpc[w] \in {"exec", "complete"}
  <2>1. CASE Claim(v) \/ Leave(v) \/ Load(v) \/ Return(v)
    BY <1>1, <2>1 DEF Claim, Leave, Load, Return, Goto
  <2>2. CASE WriteFail(v) \/ WriteComplete(v) \/ WriteJobStatus(v)
    BY <1>1, <2>2 DEF WriteFail, WriteComplete, WriteJobStatus, Goto, KeepRun, Forget
  <2> QED
    BY <1>3, <2>1, <2>2 DEF WorkerStep
<1>4. CASE ProcessStep
  <2>1. \/ wpc' = wpc /\ wjob' = wjob
        \/ server = "cleaning" /\ wpc' = [v \in Workers |-> "claim"]
    BY <1>4 DEF ProcessStep, StartServer, CleanRun, CleanJob, Serve, Drain, StopPool, workerVars
  <2>2. server = "cleaning" => wpc[w] # "exec"
    BY DEF PoolInv, StoppedIsGone, Alive
  <2> QED
    BY <2>1, <2>2
<1>5. CASE ProcessEnds
  BY <1>5 DEF ProcessEnds, Exit, Crash, Dies
<1>6. CASE Time \/ Environment
  BY <1>6 DEF Time, Environment, EnvQueue, EnvJob, workerVars
<1> QED
  BY <1>2, <1>3, <1>4, <1>5, <1>6 DEF PoolNext

\* A goroutine that stays in the engine stays with its job.
LEMMA EngineKeepsJob ==
  ASSUME ControlInv, [ControlNext]_controlVars, NEW w \in Workers,
         wpc[w] = "exec", wpc'[w] = "exec"
  PROVE  InEngine(w)' <=> InEngine(w)
<1>1. [PoolNext]_poolVars /\ PoolInv
  BY ControlPoolStep DEF ControlInv
<1>2. wjob'[w] = wjob[w]
  BY <1>1, EngineMoves
<1> QED
  BY <1>2 DEF InEngine

\* A sync that is not at work stays as it is, until the next begins.
LEMMA RestingSyncRests ==
  ASSUME SyncsOK, NEW d \in Syncs,
         (\E c \in Syncs : SyncStep(c)) \/ (\E e \in Entries : Change(e))
  PROVE  sync'[d].phase = sync[d].phase \/ AtWork(d)
<1>1. sync \in [Syncs -> Sync] /\ sync[d] \in Sync
  BY DEF SyncsOK
<1>2. ASSUME NEW c \in Syncs, List(c) \/ ListFails(c) \/ ApplyEnds(c) \/ ApplyCancelled(c)
      PROVE  sync'[d].phase = sync[d].phase \/ AtWork(d)
  BY <1>1, <1>2 DEF List, ListFails, ApplyEnds, ApplyCancelled, AtWork
<1>3. ASSUME NEW c \in Syncs, Producer(c)
      PROVE  sync'[d].phase = sync[d].phase
  <2>1. ASSUME NEW e \in Entries, NextEntry(c, e)
        PROVE  sync'[d].phase = sync[d].phase
    BY <1>1, <2>1 DEF NextEntry, Sync
  <2>2. CASE Skip(c)
    BY <1>1, <2>2 DEF Skip, Sync
  <2>3. CASE StatFails(c)
    BY <1>1, <2>3 DEF StatFails, Sync
  <2>4. CASE Plan(c)
    BY <1>1, <2>4 DEF Plan, Sync
  <2>5. CASE Send(c)
    BY <1>1, <2>5 DEF Send, Sync
  <2>6. CASE Close(c)
    BY <1>1, <2>6 DEF Close, Sync
  <2> QED
    BY <1>3, <2>1, <2>2, <2>3, <2>4, <2>5, <2>6 DEF Producer
<1>4. ASSUME NEW c \in Syncs, Take(c) \/ Open(c) \/ Copy(c)
      PROVE  sync'[d].phase = sync[d].phase
  <2>1. CASE Take(c)
    BY <1>1, <2>1 DEF Take, Sync
  <2>2. CASE Open(c)
    BY <1>1, <2>2 DEF Open, Sync
  <2>3. CASE Copy(c)
    BY <1>1, <2>3 DEF Copy, Sync
  <2> QED
    BY <1>4, <2>1, <2>2, <2>3
<1>5. ASSUME NEW c \in Syncs, Chtimes(c) \/ ChtimesFails(c) \/ OpenFails(c)
      PROVE  sync'[d].phase = sync[d].phase
  <2>1. sync' = Finish(c) \/ sync' = Failed(c, sync)
    BY <1>5 DEF Chtimes, ChtimesFails, OpenFails
  <2>2. CASE sync' = Finish(c)
    BY <1>1, <2>2 DEF Finish, Sync
  <2>3. CASE sync' = Failed(c, sync)
    BY <1>1, <2>3 DEF Failed, Sync
  <2> QED
    BY <2>1, <2>2, <2>3
<1>6. ASSUME NEW c \in Syncs, Rename(c) \/ CopyFails(c) \/ FallBack(c)
      PROVE  sync'[d].phase = sync[d].phase
  <2>1. PICK m : /\ m = sync \/ \E to \in {"target", "lost"} : m = Moved(sync[c].entry, to)
                 /\ \/ sync' = [m EXCEPT ![c].pc = "times", ![c].open = "none"]
                    \/ sync' = Failed(c, m)
                    \/ sync' = [m EXCEPT ![c].pc = "open", ![c].local = TRUE,
                                         ![c].read = 0, ![c].open = "none"]
    <3>1. CASE Rename(c) \/ CopyFails(c)
      BY <3>1 DEF Rename, CopyFails
    <3>2. CASE FallBack(c)
      <4> DEFINE n == IF sync[c].pc # "open" THEN Moved(sync[c].entry, "lost") ELSE sync
      <4>1. n = sync \/ n = Moved(sync[c].entry, "lost")
        OBVIOUS
      <4>2. sync' = [n EXCEPT ![c].pc = "open", ![c].local = TRUE, ![c].read = 0, ![c].open = "none"]
        BY <3>2 DEF FallBack
      <4> HIDE DEF n
      <4> QED
        BY <4>1, <4>2
    <3> QED
      BY <1>6, <3>1, <3>2
  <2>2. m \in [Syncs -> Sync] /\ \E o : m[d] = [sync[d] EXCEPT !.open = o]
    <3>1. CASE m = sync
      <4>1. sync[d] = [sync[d] EXCEPT !.open = sync[d].open]
        BY <1>1 DEF Sync
      <4>2. m[d] = [sync[d] EXCEPT !.open = sync[d].open]
        BY <3>1, <4>1
      <4>3. \E o : m[d] = [sync[d] EXCEPT !.open = o]
        BY <4>2
      <4> QED
        BY <1>1, <3>1, <4>3
    <3>2. ASSUME NEW to \in {"target", "lost"}, m = Moved(sync[c].entry, to)
          PROVE  m \in [Syncs -> Sync] /\ \E o : m[d] = [sync[d] EXCEPT !.open = o]
      <4>1. CASE to = "target"
        <5>1. m = sync \/ m = Moved(sync[c].entry, "target")
          BY <3>2, <4>1
        <5> QED
          BY <1>1, <5>1, MovedOrSame
      <4>2. CASE to = "lost"
        <5>1. m = sync \/ m = Moved(sync[c].entry, "lost")
          BY <3>2, <4>2
        <5> QED
          BY <1>1, <5>1, MovedOrSame
      <4> QED
        BY <3>2, <4>1, <4>2
    <3> QED
      BY <2>1, <3>1, <3>2
  <2>3. m[d].phase = sync[d].phase
    BY <1>1, <2>2 DEF Sync
  <2>4. CASE sync' = Failed(c, m)
    BY <2>2, <2>3, <2>4 DEF Failed, Sync
  <2>5. CASE sync' = [m EXCEPT ![c].pc = "times", ![c].open = "none"]
    BY <2>2, <2>3, <2>5 DEF Sync
  <2>6. CASE sync' = [m EXCEPT ![c].pc = "open", ![c].local = TRUE, ![c].read = 0, ![c].open = "none"]
    BY <2>2, <2>3, <2>6 DEF Sync
  <2> QED
    BY <2>1, <2>4, <2>5, <2>6
<1>7. ASSUME NEW e \in Entries, Change(e)
      PROVE  sync'[d].phase = sync[d].phase
  BY <1>1, <1>7 DEF Change, Sync
<1> QED
  BY <1>2, <1>3, <1>4, <1>5, <1>6, <1>7 DEF SyncStep, Replicator

\* A step of the whole is one of the handlers and the pool, or leaves them alone, and
\* one of the syncs, or leaves them alone.
LEMMA ExecStepImplements ==
  ASSUME Syncs = Workers, [ExecNext]_execVars
  PROVE  [ControlNext]_controlVars /\ [SyncNext]_syncVars
<1>1. CASE UNCHANGED execVars
  BY <1>1 DEF execVars
<1>2. CASE \E w \in Workers : SyncBegins(w)
  BY <1>2 DEF SyncBegins, SyncNext
<1>3. CASE SyncGoesOn
  BY <1>3 DEF SyncGoesOn, SyncNext
<1>4. CASE ControlNext /\ Follows
  BY <1>4 DEF Follows, SyncNext
<1> QED
  BY <1>1, <1>2, <1>3, <1>4 DEF ExecNext, ExecStep

\* The invariant that links the two: a sync is at work only for a goroutine that is in
\* the engine for the job of the tree, a completed run's sync is over without an error,
\* the context is done while the pool stops, and overtaken remembers.
LinkInv ==
  /\ cancelled <=> server = "stopping"
  /\ \A w \in Workers : AtWork(w) => w \in began /\ InEngine(w)
  /\ \A w \in began : w \in Workers /\ (wpc[w] = "complete" => sync[w].phase = "ok")
  /\ Overtaking => overtaken

LEMMA InitLink == ASSUME Syncs = Workers PROVE ExecInit => LinkInv
<1> SUFFICES ASSUME ExecInit PROVE LinkInv
  OBVIOUS
<1>1. /\ cancelled = FALSE /\ server = "down" /\ began = {}
      /\ \A w \in Workers : wpc[w] = "gone" /\ sync[w].phase = "idle"
  BY DEF ExecInit, ControlInit, PoolInit, SyncInit, NewSync
<1> QED
  BY <1>1 DEF LinkInv, AtWork, Overtaking, InEngine

LEMMA NextLink ==
  ASSUME Syncs = Workers, ControlInv, AccountsInv, LinkInv, [ExecNext]_execVars
  PROVE  LinkInv'
<1>1. SyncsOK /\ sync \in [Syncs -> Sync] /\ cancelled \in BOOLEAN
  BY DEF AccountsInv, FilesOK, SyncsOK
<1>2. (Overtaking => overtaken)'
  <2>1. CASE ExecNext
    BY <2>1 DEF ExecNext
  <2>2. CASE UNCHANGED execVars
    BY <2>2 DEF LinkInv, execVars, controlVars, poolVars, queueVars, workerVars, historyVars,
       Overtaking, InEngine, Valid, Own
  <2> QED
    BY <2>1, <2>2
<1>3. CASE UNCHANGED execVars
  BY <1>2, <1>3
  DEF LinkInv, execVars, controlVars, poolVars, queueVars, procVars, workerVars, syncVars,
      AtWork, InEngine
<1>4. ASSUME NEW w \in Workers, SyncBegins(w) PROVE LinkInv'
  <2>1. UNCHANGED <<wpc, wjob, server, cancelled>> /\ began' = began \cup {w}
    BY <1>4 DEF SyncBegins, Begin, controlVars, poolVars, queueVars, procVars, workerVars
  <2>2. \A v \in Workers \ {w} : sync'[v] = sync[v]
    BY <1>1, <1>4 DEF SyncBegins, Begin
  <2>3. wpc[w] = "exec" /\ InEngine(w)
    BY <1>4 DEF SyncBegins, InEngine
  <2> QED
    BY <1>2, <2>1, <2>2, <2>3 DEF LinkInv, AtWork, InEngine
<1>5. CASE SyncGoesOn
  <2>1. UNCHANGED <<wpc, wjob, server, began>>
    BY <1>5 DEF SyncGoesOn, controlVars, poolVars, queueVars, procVars, workerVars
  <2>2. \A w \in Workers : sync'[w].phase = sync[w].phase \/ AtWork(w)
    BY <1>1, <1>5, RestingSyncRests DEF SyncGoesOn
  <2>3. UNCHANGED cancelled
    BY <1>5
    DEF SyncGoesOn, SyncStep, List, ListFails, Producer, NextEntry, Skip, StatFails, Plan, Send,
        Close, Replicator, Take, Open, Copy, Rename, Chtimes, ChtimesFails, OpenFails,
        CopyFails, FallBack, ApplyEnds, ApplyCancelled, Change
  <2>4. \A w \in Workers : InEngine(w)' <=> InEngine(w)
    BY <2>1 DEF InEngine
  <2> QED
    BY <1>2, <2>1, <2>2, <2>3, <2>4 DEF LinkInv, AtWork, InEngine
<1>6. CASE ControlNext /\ Follows
  <2>1. PoolInv /\ [PoolNext]_poolVars
    BY <1>6, ControlPoolStep DEF ControlInv
  <2>2. server' = "stopping" => server \in {"stopping", "draining"}
    BY <2>1 DEF PoolNext, poolVars, procVars, WorkerStep, Claim, Leave, Load, Return, WriteFail,
       WriteComplete, WriteJobStatus, ProcessStep, StartServer, CleanRun, CleanJob, Serve, Drain,
       StopPool, ProcessEnds, Exit, Crash, Dies, Time, Environment, EnvQueue, EnvJob
  <2>3. server = "stopping" => server' \in {"stopping", "down"}
    BY <2>1 DEF PoolNext, poolVars, procVars, WorkerStep, Claim, Leave, Load, Return, WriteFail,
       WriteComplete, WriteJobStatus, ProcessStep, StartServer, CleanRun, CleanJob, Serve, Drain,
       StopPool, ProcessEnds, Exit, Crash, Dies, Time, Environment, EnvQueue, EnvJob
  <2>4. \A w \in Workers : AtWork(w)' => AtWork(w)
    BY <1>1, <1>6 DEF Follows, Restart, ContextEnds, NewSync, AtWork, syncVars, Sync
  <2>5. \A w \in Workers : AtWork(w)' => server' # "down" \/ server = "down"
    BY <1>6 DEF Follows, Restart, ContextEnds, NewSync, AtWork, syncVars
  <2>6. cancelled' <=> server' = "stopping"
    BY <1>1, <1>6, <2>2, <2>3 DEF LinkInv, Follows, Restart, ContextEnds, syncVars
  <2>7. ASSUME NEW w \in Workers, AtWork(w)' PROVE w \in began' /\ InEngine(w)'
    <3>1. AtWork(w) /\ w \in began /\ InEngine(w) /\ wpc[w] = "exec"
      BY <2>4, <2>7 DEF LinkInv, InEngine
    <3>2. wpc'[w] \in {"exec", "complete", "fail"}
      BY <2>1, <2>5, <2>7, <3>1, EngineMoves
    <3>3. wpc'[w] = "exec"
      BY <1>6, <3>1, <3>2 DEF Follows, Returns, AtWork
    <3> QED
      BY <1>6, <3>1, <3>3, EngineKeepsJob DEF Follows
  <2>8. ASSUME NEW w \in began'
        PROVE  w \in Workers /\ (wpc'[w] = "complete" => sync'[w].phase = "ok")
    <3>1. w \in began /\ w \in Workers /\ wpc'[w] \in {"exec", "complete"}
      BY <1>6, <2>8 DEF Follows, LinkInv
    <3>2. wpc'[w] = "complete" => sync[w].phase = "ok"
      BY <1>6, <2>1, <3>1, EngineMoves DEF LinkInv, Follows, Returns
    <3>3. server # "down" /\ server' = "down" => wpc'[w] = "gone"
      BY <2>1, <3>1 DEF PoolNext, poolVars, procVars, WorkerStep, Claim, Leave, Load, Return, WriteFail,
       WriteComplete, WriteJobStatus, ProcessStep, StartServer, CleanRun, CleanJob, Serve, Drain,
       StopPool, ProcessEnds, Exit, Crash, Dies, Time, Environment, EnvQueue, EnvJob
    <3>4. sync'[w].phase = sync[w].phase
      BY <1>1, <1>6, <3>1, <3>3 DEF Follows, ContextEnds, syncVars, Sync
    <3> QED
      BY <3>1, <3>2, <3>4
  <2> QED
    BY <1>2, <2>6, <2>7, <2>8 DEF LinkInv
<1> QED
  BY <1>3, <1>4, <1>5, <1>6 DEF ExecNext, ExecStep

\* What TargetIsWholeHolds needs: two syncs at work would be two executed runs of the
\* job whose rows say running, and there is one such row; its run has one executor.
LEMMA OneSyncAtATime ==
  ASSUME Syncs = Workers, ControlInv, ActiveInv, LinkInv, ~raced, ~overtaken
  PROVE  OneAtATime
<1> SUFFICES ASSUME NEW v \in Workers, NEW w \in Workers, AtWork(v), AtWork(w), v # w
             PROVE  FALSE
  BY DEF OneAtATime
<1>1. InEngine(v) /\ InEngine(w)
  BY DEF LinkInv
<1>2. Valid(v) /\ Valid(w)
  BY <1>1 DEF LinkInv, Overtaking
<1>3. PoolInv /\ wpc[v] \in Executing /\ wpc[w] \in Executing /\ wpc[v] \in Holding /\ wpc[w] \in Holding
  BY <1>1 DEF ControlInv, InEngine, Executing, Holding
<1>4. wrun[v] \in TaskRunIds /\ wrun[w] \in TaskRunIds
  BY <1>3 DEF PoolInv, RunsHeld
<1>5. task[wrun[v]].job = TreeJob /\ task[wrun[w]].job = TreeJob
  BY <1>1, <1>2, <1>3 DEF PoolInv, ExecutedIsRunning, Valid, InEngine
<1>6. wrun[v] \in InState(Active) /\ wrun[w] \in InState(Active)
  BY <1>2, <1>4 DEF Valid, InState, Active
<1>7. wrun[v] = wrun[w]
  BY <1>5, <1>6 DEF ActiveInv
<1>8. wserial[v] = wserial[w] /\ wserial[v] \notin meddled
  BY <1>2, <1>7 DEF Valid, Own
<1> QED
  BY <1>3, <1>8 DEF PoolInv, OneExecutor

\* Handlers and pool behave as specified whatever the syncs do ...
THEOREM ExecImplementsControl == ASSUME Syncs = Workers PROVE ExecSpec => ControlSpec
<1>1. ExecInit => ControlInit
  BY DEF ExecInit
<1>2. [ExecNext]_execVars => [ControlNext]_controlVars
  BY ExecStepImplements
<1> QED
  BY <1>1, <1>2, PTL DEF ExecSpec, ControlSpec

\* ... and the syncs as specified, whatever runs and process do.
THEOREM ExecImplementsSync == ASSUME Syncs = Workers PROVE ExecSpec => SyncSpec
<1>1. ExecInit => SyncInit
  BY DEF ExecInit
<1>2. [ExecNext]_execVars => [SyncNext]_syncVars
  BY ExecStepImplements
<1> QED
  BY <1>1, <1>2, PTL DEF ExecSpec, SyncSpec

LEMMA LinkInvariant == ASSUME Syncs = Workers PROVE ExecSpec => [](LinkInv /\ ControlInv /\ AccountsInv)
<1>1. ExecInit => LinkInv
  BY InitLink
<1>2. ControlInv /\ AccountsInv /\ LinkInv /\ [ExecNext]_execVars => LinkInv'
  BY NextLink
<1> QED
  BY <1>1, <1>2, ExecImplementsControl, ExecImplementsSync, ControlInvariant, AccountsInvariant, PTL
  DEF ExecSpec

\* WholeInv, as long as one sync at a time is at work.
WholeUntilOvertaken == ~raced /\ ~overtaken => WholeInv

\* Copies are whole at any moment, for every number of goroutines, runs, requests,
\* files, failures and restarts, with keys of runs that are given again: until a cron
\* callback enqueues or two RunJob overlap, or a run is executed beside one that was
\* cancelled, and perhaps deleted, but goes on.
THEOREM CopiesAreWholeHolds == ASSUME Syncs = Workers PROVE ExecSpec => []CopiesAreWhole
<1>1. ExecInit => WholeUntilOvertaken
  BY InitWhole DEF ExecInit, WholeUntilOvertaken
<1>2. (LinkInv /\ ControlInv /\ AccountsInv /\ ActiveInv /\ WholeUntilOvertaken
         /\ [ExecNext]_execVars) => WholeUntilOvertaken'
  <2> SUFFICES ASSUME LinkInv, ControlInv, AccountsInv, ActiveInv, WholeUntilOvertaken, [ExecNext]_execVars
               PROVE  WholeUntilOvertaken'
    OBVIOUS
  <2> SUFFICES ASSUME ~raced', ~overtaken' PROVE WholeInv'
    BY DEF WholeUntilOvertaken
  <2>1. [ControlNext]_controlVars /\ [SyncNext]_syncVars
    BY ExecStepImplements
  <2>2. ~raced
    BY <2>1 DEF ControlNext, Remember, controlVars
  <2>3. ~overtaken
    BY DEF ExecNext, execVars
  <2> QED
    BY <2>1, <2>2, <2>3, OneSyncAtATime, NextWhole DEF WholeUntilOvertaken
<1>3. WholeUntilOvertaken => CopiesAreWhole
  BY DEF CopiesAreWhole, WholeInv, WholeUntilOvertaken
<1> QED
  BY <1>1, <1>2, <1>3, LinkInvariant, ActiveInvariant, ExecImplementsControl, PTL DEF ExecSpec

\* A run whose sync was not cut short is written down as completed only when every
\* metadata file of its listing has been dealt with, once and for all.
THEOREM CompletedIsHandledHolds == ASSUME Syncs = Workers PROVE ExecSpec => []CompletedIsHandled
<1>1. LinkInv /\ AccountsOK => CompletedIsHandled
  BY DEF LinkInv, AccountsOK, OkCoversListing, CompletedIsHandled
<1> QED
  BY <1>1, LinkInvariant, ExecImplementsSync, AccountsOKHolds, PTL
===============================================================================
