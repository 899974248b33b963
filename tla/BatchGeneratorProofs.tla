------------------------- MODULE BatchGeneratorProofs -------------------------
(***************************************************************************)
(* Proofs about the generator that gathers items for the engine, for every *)
(* set of files, batches of any size, timers, any number of changes and of *)
(* failures: a file that is there has its .strm when its items were        *)
(* gathered in a map and flushed in batches (THEOREM TimelyHasStrmHolds),  *)
(* and Apply leaves nothing behind when it returns without an error        *)
(* (THEOREM ApplyOKHolds), from BatchInv.                                  *)
(*                                                                         *)
(* It takes what the same planner sends as the appliers of SyncPipeline,   *)
(* in the same order.  As there, the last item of a file in a sequence is  *)
(* the one that matters.                                                   *)
(***************************************************************************)
EXTENDS BatchGenerator, TLAPS

\* A sequence has an item of f.
Within(seq, f) == \E i \in 1..Len(seq) : seq[i].file = f

\* The last change of a file under way says whether the file is there.
Fits(op, content) == op = "delete" <=> content = 0
LastFits(seq, f, content) ==
  \A i \in 1..Len(seq) :
    (seq[i].file = f /\ \A j \in 1..Len(seq) : j > i => seq[j].file # f) => Fits(seq[i].op, content)

\* What a flush at work rests on, and what Apply leaves.
FlushOK ==
  /\ flush # NoFlush =>
       /\ flush.stage # "none" /\ failures < MaxFailures /\ result = "none"
       /\ flush.toDo \cup flush.failed \subseteq Gathered(pending)
  /\ flush.why = "ok" => closed /\ items = <<>>
  /\ result = "ok" => closed /\ items = <<>> /\ pending = Empty

\* Only a deletion has no time.
EachFits(seq, f) == \A i \in 1..Len(seq) : seq[i].file = f => Fits(seq[i].op, seq[i].time)
Timed(f) ==
  /\ EachFits(items, f)
  /\ pending[f] # NoItem => Fits(pending[f].op, pending[f].time)

\* The .strm of a file that is there, when no event of it is under way: gathered, being
\* written, or written.
Applied(f) ==
  IF pending[f] = NoItem THEN target[OutputOf[f]] = f
  ELSE /\ pending[f].op # "delete"
       /\ flush.stage = "delete" => f \in flush.toDo
       /\ flush.stage = "create" => f \in flush.toDo \cup flush.failed \/ target[OutputOf[f]] = f
Arrives(f) ==
  ~Within(raw, f) => /\ LastFits(items, f, source[f])
                     /\ ~Within(items, f) /\ source[f] # 0 => Applied(f)

BatchInv ==
  /\ TypeOK /\ FlushOK
  /\ \A f \in Files : LastFits(raw, f, source[f])
  /\ \A f \in Files \ raced : Timed(f)
  /\ \A f \in Matching \ (raced \cup lost) : Alone(f) => Arrives(f)

-------------------------------------------------------------------------------
(***************************************************************************)
(* Lemmas about sequences of items: the last item of a file.               *)
(***************************************************************************)
LEMMA Appending ==
  ASSUME NEW S, NEW seq \in Seq(S), NEW x \in S, NEW f, NEW content
  PROVE  LET s == Append(seq, x) IN
         /\ s \in Seq(S) /\ Len(s) = Len(seq) + 1 /\ Len(seq) \in Nat
         /\ Within(s, f) <=> Within(seq, f) \/ x.file = f
         /\ x.file # f /\ LastFits(seq, f, content) => LastFits(s, f, content)
         /\ x.file = f /\ Fits(x.op, content) => LastFits(s, f, content)
<1> DEFINE s == Append(seq, x)
<1>1. /\ s \in Seq(S) /\ Len(s) = Len(seq) + 1 /\ Len(seq) \in Nat
      /\ \A i \in 1..Len(seq) : s[i] = seq[i] /\ i \in 1..Len(s)
      /\ Len(seq) + 1 \in 1..Len(s)
      /\ \A i \in 1..Len(s) : i \in 1..Len(seq) \/ i = Len(seq) + 1
      /\ s[Len(seq) + 1] = x
  OBVIOUS
<1> HIDE DEF s
<1>2. Within(s, f) <=> Within(seq, f) \/ x.file = f
  BY <1>1 DEF Within
<1>3. ASSUME x.file # f, LastFits(seq, f, content)
      PROVE  LastFits(s, f, content)
  <2> SUFFICES ASSUME NEW i \in 1..Len(s), s[i].file = f,
                      \A j \in 1..Len(s) : j > i => s[j].file # f
               PROVE  Fits(s[i].op, content)
    BY DEF LastFits
  <2>1. i \in 1..Len(seq) /\ s[i] = seq[i]
    BY <1>1, <1>3
  <2>2. \A j \in 1..Len(seq) : j > i => seq[j].file # f
    BY <1>1
  <2>3. QED
    BY <1>3, <2>1, <2>2 DEF LastFits
<1>4. ASSUME x.file = f, Fits(x.op, content)
      PROVE  LastFits(s, f, content)
  <2> SUFFICES ASSUME NEW i \in 1..Len(s), s[i].file = f,
                      \A j \in 1..Len(s) : j > i => s[j].file # f
               PROVE  Fits(s[i].op, content)
    BY DEF LastFits
  <2>1. i = Len(seq) + 1
    BY <1>1, <1>4
  <2>2. QED
    BY <1>1, <1>4, <2>1
<1>5. QED
  BY <1>1, <1>2, <1>3, <1>4 DEF s

LEMMA Removing ==
  ASSUME NEW S, NEW seq \in Seq(S), seq # <<>>, NEW f, NEW content
  PROVE  /\ Tail(seq) \in Seq(S) /\ Head(seq) \in S
         /\ Len(Tail(seq)) = Len(seq) - 1 /\ Len(seq) \in Nat \ {0}
         /\ Within(seq, f) <=> Head(seq).file = f \/ Within(Tail(seq), f)
         /\ LastFits(seq, f, content) => LastFits(Tail(seq), f, content)
         /\ LastFits(seq, f, content) /\ Head(seq).file = f /\ ~Within(Tail(seq), f) =>
              Fits(Head(seq).op, content)
<1> DEFINE s == Tail(seq)
<1>1. /\ s \in Seq(S) /\ Len(s) = Len(seq) - 1 /\ Len(seq) \in Nat \ {0}
      /\ Head(seq) = seq[1] /\ Head(seq) \in S
      /\ \A i \in 1..Len(s) : s[i] = seq[i + 1] /\ i + 1 \in 1..Len(seq)
      /\ \A i \in 1..Len(seq) : i # 1 => i - 1 \in 1..Len(s) /\ s[i - 1] = seq[i]
      /\ 1 \in 1..Len(seq)
  <2>1. /\ s \in Seq(S) /\ Len(s) = Len(seq) - 1 /\ Len(seq) \in Nat \ {0}
        /\ Head(seq) = seq[1] /\ Head(seq) \in S
        /\ \A i \in 1..Len(s) : s[i] = seq[i + 1]
    OBVIOUS
  <2> HIDE DEF s
  <2>2. QED
    BY <2>1
<1> HIDE DEF s
<1>2. Within(seq, f) <=> Head(seq).file = f \/ Within(s, f)
  <2>1. ASSUME Within(seq, f) PROVE Head(seq).file = f \/ Within(s, f)
    BY <1>1, <2>1 DEF Within
  <2>2. ASSUME Head(seq).file = f \/ Within(s, f) PROVE Within(seq, f)
    BY <1>1, <2>2 DEF Within
  <2>3. QED
    BY <2>1, <2>2
<1>3. ASSUME LastFits(seq, f, content)
      PROVE  LastFits(s, f, content)
  <2> SUFFICES ASSUME NEW i \in 1..Len(s), s[i].file = f,
                      \A j \in 1..Len(s) : j > i => s[j].file # f
               PROVE  Fits(s[i].op, content)
    BY DEF LastFits
  <2>1. i + 1 \in 1..Len(seq) /\ s[i] = seq[i + 1]
    BY <1>1
  <2>2. \A j \in 1..Len(seq) : j > i + 1 => seq[j].file # f
    <3> SUFFICES ASSUME NEW j \in 1..Len(seq), j > i + 1 PROVE seq[j].file # f
      OBVIOUS
    <3>1. j - 1 \in 1..Len(s) /\ s[j - 1] = seq[j] /\ j - 1 > i
      BY <1>1
    <3>2. QED
      BY <3>1
  <2>3. QED
    BY <1>3, <2>1, <2>2 DEF LastFits
<1>4. ASSUME LastFits(seq, f, content), Head(seq).file = f, ~Within(s, f)
      PROVE  Fits(Head(seq).op, content)
  <2>1. \A j \in 1..Len(seq) : j > 1 => seq[j].file # f
    BY <1>1, <1>4 DEF Within
  <2>2. QED
    BY <1>1, <1>4, <2>1 DEF LastFits
<1>5. QED
  BY <1>1, <1>2, <1>3, <1>4 DEF s

LEMMA EmptyFits ==
  ASSUME NEW f, NEW content
  PROVE  LastFits(<<>>, f, content) /\ ~Within(<<>>, f)
BY DEF LastFits, Within

-------------------------------------------------------------------------------
Flushes == [why: {"none", "event", "ok", "cancelled"}, stage: {"none", "delete", "create"},
            toDo: SUBSET Files, failed: SUBSET Files]
Gathering == [Files -> Items \cup {NoItem}]
Events == [file: Files, op: Ops]

LEMMA NoFlushIs ==
  /\ NoFlush \in Flushes
  /\ NoFlush.why = "none" /\ NoFlush.stage = "none"
  /\ NoFlush.toDo = {} /\ NoFlush.failed = {}
BY DEF NoFlush, Flushes

LEMMA StartedIs ==
  ASSUME NEW map, NEW why \in {"event", "ok", "cancelled"}
  PROVE  LET s == Started(why, map) IN
         /\ s \in Flushes /\ s.failed = {} /\ s.why \in {"none", why}
         /\ Gathered(map) = {} => s = NoFlush
         /\ Gathered(map) # {} =>
              s.stage = "delete" /\ s.toDo = Gathered(map) /\ s.why = why
<1>1. Gathered(map) \in SUBSET Files
  BY DEF Gathered
<1>2. CASE Gathered(map) = {}
  BY <1>2, NoFlushIs DEF Started
<1>3. CASE Gathered(map) # {}
  <2>1. Started(why, map) =
          [why |-> why, stage |-> "delete", toDo |-> Gathered(map), failed |-> {}]
    BY <1>3 DEF Started, NoFlush
  <2>2. QED
    BY <1>1, <1>3, <2>1 DEF Flushes
<1>4. QED
  BY <1>2, <1>3

\* The steps of the source and the monitor, of the loop, and of the engine.
Input == (\E f \in Files : Change(f)) \/ HandleEvent \/ CloseItems \/ Cancel

LEMMA InitBatch == Init => BatchInv
<1> SUFFICES ASSUME Init PROVE BatchInv
  OBVIOUS
<1>1. /\ raw = <<>> /\ items = <<>> /\ flush = NoFlush /\ result = "none"
      /\ \A f \in Files : pending[f] = NoItem
  BY DEF Init, Empty
<1>2. TypeOK
  <2>1. {0, 1} \subseteq Clock /\ MaxChanges \in Nat /\ MaxFailures \in Nat
    BY BatchAssumption DEF Clock
  <2>2. source \in [Files -> Clock] /\ failures \in 0..MaxFailures /\ changes \in 0..MaxChanges
    BY <2>1 DEF Init
  <2>3. raw \in Seq(Events) /\ items \in Seq(Items)
    BY <1>1
  <2>4. pending \in Gathering
    BY DEF Init, Empty, Gathering
  <2>5. target \in [Outputs -> Files \cup {NoFile}]
    <3>1. \A o \in Outputs :
            target[o] = LET present == {f \in Matching : OutputOf[f] = o /\ source[f] = 1} IN
                        IF present = {} THEN NoFile ELSE CHOOSE f \in present : TRUE
      BY DEF Init
    <3>2. \A o \in Outputs : target[o] \in Files \cup {NoFile}
      BY <3>1, BatchAssumption
    <3>3. QED
      BY <3>2 DEF Init
  <2>6. strategy \in Strategies /\ closed \in BOOLEAN /\ cancelled \in BOOLEAN /\ retry \in BOOLEAN
        /\ idle \in BOOLEAN /\ result \in Results /\ lost \subseteq Files /\ raced \subseteq Files
    BY DEF Init, Results
  <2>7. flush \in Flushes
    BY <1>1, NoFlushIs
  <2>8. QED
    BY <2>2, <2>3, <2>4, <2>5, <2>6, <2>7 DEF TypeOK, Events, Gathering, Flushes
<1>3. FlushOK
  BY <1>1, NoFlushIs DEF FlushOK
<1>4. \A f \in Files : LastFits(raw, f, source[f]) /\ LastFits(items, f, source[f]) /\ ~Within(items, f)
  BY <1>1, EmptyFits
<1>5. \A f \in Files : Timed(f)
  <2>1. 1..Len(items) = {}
    BY <1>1
  <2>2. QED
    BY <1>1, <2>1 DEF Timed, EachFits
<1>6. ASSUME NEW f \in Matching, Alone(f), source[f] # 0
      PROVE  target[OutputOf[f]] = f
  <2>1. f \in Files /\ OutputOf[f] \in Outputs /\ source[f] = 1
    BY <1>6, BatchAssumption DEF Outputs, Init
  <2>2. {g \in Matching : OutputOf[g] = OutputOf[f] /\ source[g] = 1} = {f}
    BY <1>6, <2>1, BatchAssumption DEF Alone
  <2>3. target[OutputOf[f]] = IF {f} = {} THEN NoFile ELSE CHOOSE g \in {f} : TRUE
    BY <2>1, <2>2 DEF Init
  <2>4. QED
    BY <2>3
<1>7. \A f \in Matching : Alone(f) => Arrives(f)
  BY <1>1, <1>4, <1>6, BatchAssumption DEF Arrives, Applied
<1>8. QED
  BY <1>2, <1>3, <1>4, <1>5, <1>7 DEF BatchInv

\* The types.
LEMMA InputTypes ==
  ASSUME TypeOK, Input
  PROVE  TypeOK'
<1>1. ASSUME NEW f \in Files, Change(f)
      PROVE  TypeOK'
  <2>1. PICK op \in Ops, time \in Clock : Announce(f, op, time)
    <3>1. changes < MaxChanges /\ changes \in 0..MaxChanges /\ MaxChanges \in Nat
      BY <1>1, BatchAssumption DEF Change, Announce, TypeOK
    <3>2. changes + 2 \in Clock /\ 0 \in Clock /\ 1..changes + 2 \subseteq Clock
      BY <3>1 DEF Clock
    <3>3. QED
      BY <1>1, <3>2 DEF Change, Ops
  <2>2. /\ source' \in [Files -> Clock] /\ changes' \in 0..MaxChanges
    BY <2>1, BatchAssumption DEF Announce, TypeOK
  <2>3. raw' \in Seq(Events)
    <3>1. [file |-> f, op |-> op] \in Events
      BY DEF Events
    <3>2. QED
      BY <2>1, <3>1, Appending DEF Announce, TypeOK, Events
  <2>4. QED
    BY <2>1, <2>2, <2>3 DEF Announce, TypeOK, batchVars, Events
<1>2. CASE HandleEvent
  <2> DEFINE x == [file |-> Head(raw).file, op |-> Head(raw).op, time |-> source[Head(raw).file]]
  <2>1. Head(raw) \in Events /\ raw' \in Seq(Events)
    BY <1>2, Removing DEF HandleEvent, TypeOK, Events
  <2>2. x \in Items
    BY <2>1 DEF Events, Items, TypeOK
  <2>3. items' \in Seq(Items)
    BY <1>2, <2>2, Appending DEF HandleEvent, TypeOK
  <2>4. raced' \subseteq Files
    BY <1>2, <2>1 DEF HandleEvent, TypeOK, Events
  <2>5. QED
    BY <1>2, <2>1, <2>3, <2>4 DEF HandleEvent, TypeOK, batchVars, Events
<1>3. CASE CloseItems \/ Cancel
  BY <1>3 DEF CloseItems, Cancel, TypeOK, batchVars
<1>4. QED
  BY <1>1, <1>2, <1>3 DEF Input

LEMMA NewerIs ==
  ASSUME NEW old \in Items \cup {NoItem}, NEW new \in Items
  PROVE  /\ Newer(old, new) \in {old, new}
         /\ Newer(old, new) \in Items
         /\ old = NoItem => Newer(old, new) = new
BY DEF Newer

LEMMA ReceiveIs ==
  ASSUME TypeOK, Receive
  PROVE  LET x == Head(items) IN
         /\ x \in Items /\ items' \in Seq(Items) /\ items' = Tail(items)
         /\ items \in Seq(Items) /\ items # <<>>
         /\ pending' \in Gathering
         /\ pending'[x.file] = Newer(pending[x.file], x) /\ pending'[x.file] # NoItem
         /\ \A f \in Files : f # x.file => pending'[f] = pending[f]
         /\ flush' \in Flushes /\ flush'.failed = {} /\ flush'.why \in {"none", "event"}
         /\ flush' = NoFlush \/ (flush'.stage = "delete" /\ flush'.toDo = Gathered(pending)')
<1> DEFINE x == Head(items)
           new == Newer(pending[x.file], x)
<1>1. x \in Items /\ items' \in Seq(Items) /\ items' = Tail(items) /\ items # <<>>
      /\ items \in Seq(Items)
  BY Removing DEF Receive, TypeOK
<1>2. x.file \in Files /\ new \in Items /\ new # NoItem
  <2>1. x.file \in Files
    BY <1>1 DEF Items
  <2>2. QED
    BY <1>1, <2>1, NewerIs, BatchAssumption DEF TypeOK
<1>3. pending' = [pending EXCEPT ![x.file] = new]
  BY DEF Receive
<1>4. flush' = NoFlush \/ flush' = Started("event", pending')
  BY DEF Receive
<1> HIDE DEF x, new
<1>5. pending' \in Gathering /\ pending'[x.file] = new
      /\ \A f \in Files : f # x.file => pending'[f] = pending[f]
  BY <1>2, <1>3 DEF TypeOK, Gathering
<1>6. Gathered(pending)' = Gathered(pending')
  BY DEF Gathered
<1>7. QED
  BY <1>1, <1>2, <1>4, <1>5, <1>6, StartedIs, NoFlushIs DEF x, new

LEMMA LoopTypes ==
  ASSUME TypeOK, Loop
  PROVE  TypeOK'
<1>1. CASE Receive
  <2>1. idle' \in BOOLEAN
    BY <1>1 DEF Receive
  <2>2. items' \in Seq(Items) /\ pending' \in Gathering /\ flush' \in Flushes
    BY <1>1, ReceiveIs
  <2>3. QED
    BY <1>1, <2>1, <2>2 DEF Receive, TypeOK, Gathering, Flushes
<1>2. CASE TickerFires \/ IdleFires \/ RetryFires
  <2>1. flush' \in Flushes
    BY <1>2, StartedIs DEF TickerFires, IdleFires, RetryFires
  <2>2. QED
    BY <1>2, <2>1
    DEF TickerFires, IdleFires, RetryFires, TypeOK, inputVars, Flushes
<1>3. CASE SeesClosed \/ SeesCancelled
  <2>1. PICK why \in {"ok", "cancelled"} : Last(why)
    BY <1>3 DEF SeesClosed, SeesCancelled
  <2>2. flush' \in Flushes
    BY <2>1, StartedIs DEF Last, TypeOK, Flushes
  <2>3. result' \in Results
    BY <2>1 DEF Last, TypeOK, Results
  <2>4. QED
    BY <2>1, <2>2, <2>3 DEF Last, TypeOK, inputVars, Flushes
<1>4. CASE GiveUp
  BY <1>4 DEF GiveUp, TypeOK, inputVars, Results
<1>5. QED
  BY <1>1, <1>2, <1>3, <1>4 DEF Loop

\* A step of the engine with one file.
EngineStep(f) == Filtered(f) \/ Delete(f) \/ Create(f) \/ FileFails(f)

LEMMA EngineStepIs ==
  ASSUME flush \in Flushes, NEW f \in Files, EngineStep(f)
  PROVE  /\ flush' \in Flushes /\ flush'.why = flush.why /\ flush'.stage = flush.stage
         /\ f \in flush.toDo /\ flush'.toDo = flush.toDo \ {f}
         /\ flush'.failed \in {flush.failed, flush.failed \cup {f}}
         /\ flush' # NoFlush => flush # NoFlush
         /\ UNCHANGED runVars /\ UNCHANGED lost
<1>1. f \in flush.toDo /\ UNCHANGED runVars /\ UNCHANGED lost
  BY DEF EngineStep, Filtered, Delete, Create, FileFails, Working
<1>2. \/ flush' = [flush EXCEPT !.toDo = @ \ {f}]
      \/ flush' = [flush EXCEPT !.toDo = @ \ {f}, !.failed = @ \cup {f}]
  BY DEF EngineStep, Filtered, Delete, Create, FileFails, Did
<1>3. flush # NoFlush
  BY <1>1, NoFlushIs
<1>4. QED
  BY <1>1, <1>2, <1>3 DEF Flushes

LEMMA EngineTypes ==
  ASSUME TypeOK, FlushOK, RunIncremental
  PROVE  TypeOK'
<1>0. flush \in Flushes
  BY DEF TypeOK, Flushes
<1>1. ASSUME NEW f \in Files, EngineStep(f)
      PROVE  TypeOK'
  <2>1. flush' \in Flushes /\ UNCHANGED runVars /\ UNCHANGED lost
    BY <1>0, <1>1, EngineStepIs
  <2>2. target' \in [Outputs -> Files \cup {NoFile}]
    BY <1>1 DEF EngineStep, Filtered, Delete, Create, FileFails, TypeOK
  <2>3. QED
    BY <2>1, <2>2 DEF TypeOK, runVars, inputVars, Flushes
<1>2. CASE DeletesDone
  <2>1. flush' \in Flushes
    BY <1>0, <1>2 DEF DeletesDone, Flushes
  <2>2. QED
    BY <1>2, <2>1 DEF DeletesDone, TypeOK, runVars, inputVars, Flushes
<1>3. CASE FlushEnds
  <2>1. pending' \in Gathering
    BY <1>3 DEF FlushEnds, Empty, Gathering
  <2>2. lost' \subseteq Files /\ flush' \in Flushes
    BY <1>0, <1>3, NoFlushIs DEF FlushEnds, TypeOK, Flushes
  <2>3. failures' \in 0..MaxFailures /\ retry' \in BOOLEAN
    <3>1. MaxFailures \in Nat
      BY BatchAssumption
    <3>2. failures' = 0 /\ retry' = FALSE
      BY <1>3 DEF FlushEnds
    <3>3. failures' \in 0..MaxFailures
      BY <3>1, <3>2
    <3>4. QED
      BY <3>2, <3>3
  <2>4. result' \in Results
    BY <1>0, <1>3 DEF FlushEnds, Results, Flushes
  <2>5. QED
    BY <1>3, <2>1, <2>2, <2>3, <2>4 DEF FlushEnds, TypeOK, inputVars, Gathering, Flushes
<1>4. CASE FlushFails
  <2>1. failures' \in 0..MaxFailures
    <3>1. failures \in 0..MaxFailures /\ failures < MaxFailures /\ MaxFailures \in Nat
      BY <1>4, BatchAssumption DEF FlushFails, TypeOK, FlushOK
    <3>2. failures' = failures + 1
      BY <1>4 DEF FlushFails
    <3>3. QED
      BY <3>1, <3>2
  <2>2. result' \in Results
    BY <1>4 DEF FlushFails, Results
  <2>3. QED
    BY <1>4, <2>1, <2>2, NoFlushIs DEF FlushFails, TypeOK, inputVars, Flushes
<1>5. QED
  BY <1>1, <1>2, <1>3, <1>4 DEF RunIncremental, EngineStep

-------------------------------------------------------------------------------
\* What a flush rests on.
LEMMA InputFlush ==
  ASSUME FlushOK, Input
  PROVE  FlushOK'
<1>1. UNCHANGED batchVars
  BY DEF Input, Change, Announce, HandleEvent, CloseItems, Cancel
<1>2. closed => closed' /\ items' = items
  BY DEF Input, Change, Announce, HandleEvent, CloseItems, Cancel
<1>3. Gathered(pending)' = Gathered(pending) /\ NoFlush' = NoFlush
      /\ Empty' = Empty
  BY <1>1 DEF batchVars, Gathered, NoFlush, Empty
<1>4. QED
  BY <1>1, <1>2, <1>3 DEF FlushOK, batchVars

\* A step of the loop that may start a flush.
LEMMA StartFlush ==
  ASSUME Waiting, NEW why \in {"event", "ok", "cancelled"},
         flush' = NoFlush \/ flush' = Started(why, pending'),
         why = "ok" => closed /\ items = <<>>,
         UNCHANGED <<closed, failures, result>>, why = "ok" => UNCHANGED items
  PROVE  FlushOK'
<1>1. /\ flush'.why \in {"none", why} /\ flush'.failed = {}
      /\ flush' = NoFlush \/ (flush'.stage = "delete" /\ flush'.toDo = Gathered(pending)')
  <2>1. Gathered(pending)' = Gathered(pending')
    BY DEF Gathered
  <2>2. QED
    BY <2>1, StartedIs, NoFlushIs
<1>2. NoFlush' = NoFlush
  BY DEF NoFlush
<1>3. result' = "none" /\ failures' < MaxFailures
  BY DEF Waiting
<1>4. QED
  BY <1>1, <1>2, <1>3 DEF FlushOK

LEMMA LoopFlush ==
  ASSUME TypeOK, FlushOK, Loop
  PROVE  FlushOK'
<1>1. CASE Receive
  <2>1. flush' = NoFlush \/ flush' = Started("event", pending')
    BY <1>1 DEF Receive
  <2>2. Waiting /\ UNCHANGED <<closed, failures, result>>
    BY <1>1 DEF Receive
  <2>3. QED
    BY <2>1, <2>2, StartFlush
<1>2. CASE TickerFires \/ IdleFires \/ RetryFires
  <2>1. flush' = Started("event", pending') /\ Waiting /\ UNCHANGED <<closed, failures, result>>
    BY <1>2 DEF TickerFires, IdleFires, RetryFires, inputVars
  <2>2. QED
    BY <2>1, StartFlush
<1>3. ASSUME NEW why \in {"ok", "cancelled"}, Last(why), Waiting,
             why = "ok" => closed /\ items = <<>>
      PROVE  FlushOK'
  <2>1. UNCHANGED <<closed, items, pending, failures>>
    BY <1>3 DEF Last, inputVars
  <2>2. CASE Gathered(pending) # {}
    BY <1>3, <2>1, <2>2, StartFlush DEF Last
  <2>3. CASE Gathered(pending) = {}
    <3>1. flush' = NoFlush /\ result' = why
      BY <1>3, <2>3 DEF Last, Waiting
    <3>2. pending = Empty
      BY <2>3 DEF Gathered, Empty, TypeOK
    <3>3. NoFlush' = NoFlush /\ Empty' = Empty
      BY DEF NoFlush, Empty
    <3>4. QED
      BY <1>3, <2>1, <3>1, <3>2, <3>3, NoFlushIs DEF FlushOK
  <2>4. QED
    BY <2>2, <2>3
<1>4. CASE SeesClosed \/ SeesCancelled
  BY <1>3, <1>4 DEF SeesClosed, SeesCancelled
<1>5. CASE GiveUp
  <2>1. NoFlush' = NoFlush
    BY DEF NoFlush
  <2>2. QED
    BY <1>5, <2>1, NoFlushIs DEF GiveUp, FlushOK
<1>6. QED
  BY <1>1, <1>2, <1>4, <1>5 DEF Loop

LEMMA EngineFlush ==
  ASSUME TypeOK, FlushOK, RunIncremental
  PROVE  FlushOK'
<1>0. flush \in Flushes /\ NoFlush' = NoFlush /\ Empty' = Empty
  BY DEF TypeOK, Flushes, NoFlush, Empty
<1>1. ASSUME NEW f \in Files, EngineStep(f)
      PROVE  FlushOK'
  <2>1. /\ flush'.why = flush.why /\ flush'.stage = flush.stage
        /\ flush'.toDo \cup flush'.failed \subseteq flush.toDo \cup flush.failed
        /\ flush' # NoFlush => flush # NoFlush
        /\ UNCHANGED <<closed, items, pending, failures, result>>
    BY <1>0, <1>1, EngineStepIs DEF runVars, inputVars
  <2>2. Gathered(pending)' = Gathered(pending)
    BY <2>1 DEF Gathered
  <2>3. QED
    BY <1>0, <2>1, <2>2 DEF FlushOK
<1>2. CASE DeletesDone
  <2>1. /\ flush'.why = flush.why /\ flush'.stage = "create" /\ flush # NoFlush
        /\ flush'.toDo \cup flush'.failed = flush.toDo \cup flush.failed
        /\ UNCHANGED <<closed, items, pending, failures, result>>
    BY <1>0, <1>2, NoFlushIs DEF DeletesDone, runVars, inputVars, Flushes
  <2>2. Gathered(pending)' = Gathered(pending)
    BY <2>1 DEF Gathered
  <2>3. QED
    BY <1>0, <2>1, <2>2 DEF FlushOK
<1>3. CASE FlushEnds
  BY <1>0, <1>3, NoFlushIs DEF FlushEnds, inputVars, FlushOK
<1>4. CASE FlushFails
  <2>1. result' # "ok"
    BY <1>4 DEF FlushFails
  <2>2. QED
    BY <1>0, <1>4, <2>1, NoFlushIs DEF FlushFails, FlushOK
<1>5. QED
  BY <1>1, <1>2, <1>3, <1>4 DEF RunIncremental, EngineStep

-------------------------------------------------------------------------------
\* The last event reported of a file says whether it is there.
LEMMA RawKept ==
  ASSUME TypeOK, Next, \A f \in Files : LastFits(raw, f, source[f])
  PROVE  \A f \in Files : LastFits(raw, f, source[f])'
<1> SUFFICES ASSUME NEW g \in Files PROVE LastFits(raw', g, source'[g])
  BY DEF LastFits
<1>0. raw \in Seq(Events) /\ source \in [Files -> Clock]
  BY DEF TypeOK, Events
<1>1. ASSUME NEW f \in Files, Change(f)
      PROVE  LastFits(raw', g, source'[g])
  <2>1. PICK op \in Ops, time \in Clock : Announce(f, op, time) /\ Fits(op, time)
    <3>1. changes < MaxChanges /\ changes \in 0..MaxChanges /\ MaxChanges \in Nat
      BY <1>1, BatchAssumption DEF Change, Announce, TypeOK
    <3>2. /\ changes + 2 \in Clock /\ 0 \in Clock /\ 1..changes + 2 \subseteq Clock
          /\ changes + 2 # 0 /\ 0 \notin 1..changes + 2
      BY <3>1 DEF Clock
    <3>3. QED
      BY <1>1, <3>2 DEF Change, Ops, Fits
  <2>2. [file |-> f, op |-> op] \in Events
    BY DEF Events
  <2>3. raw' = Append(raw, [file |-> f, op |-> op]) /\ source' = [source EXCEPT ![f] = time]
    BY <2>1 DEF Announce
  <2>4. CASE g = f
    <3>1. source'[g] = time
      BY <1>0, <2>3, <2>4
    <3>2. QED
      BY <1>0, <2>1, <2>2, <2>3, <2>4, <3>1, Appending
  <2>5. CASE g # f
    <3>1. source'[g] = source[g]
      BY <1>0, <2>3, <2>5
    <3>2. QED
      BY <1>0, <2>2, <2>3, <2>5, <3>1, Appending
  <2>6. QED
    BY <2>4, <2>5
<1>2. CASE HandleEvent
  <2>1. raw # <<>> /\ raw' = Tail(raw) /\ source' = source
    BY <1>2 DEF HandleEvent
  <2>2. QED
    BY <1>0, <2>1, Removing
<1>3. CASE CloseItems \/ Cancel \/ Loop \/ RunIncremental
  <2>1. UNCHANGED <<raw, source>>
    BY <1>3
    DEF CloseItems, Cancel, Loop, Receive, TickerFires, IdleFires,
        RetryFires, SeesClosed, SeesCancelled, Last, GiveUp,
        RunIncremental, Filtered, Delete, Create, FileFails,
        DeletesDone, FlushEnds, FlushFails, runVars, inputVars
  <2>2. QED
    BY <2>1
<1>4. QED
  BY <1>1, <1>2, <1>3 DEF Next

\* The item of an event that no later one overtook.
LEMMA EventIs ==
  ASSUME TypeOK, HandleEvent,
         \A f \in Files : LastFits(raw, f, source[f])
  PROVE  \E x \in Items :
           /\ x.file = Head(raw).file /\ x.time = source[x.file]
           /\ items' = Append(items, x) /\ items \in Seq(Items)
           /\ raw' = Tail(raw) /\ raw # <<>> /\ raw \in Seq(Events)
           /\ raced \subseteq raced'
           /\ x.file \notin raced' => ~Within(Tail(raw), x.file) /\ Fits(x.op, x.time)
<1> DEFINE x == [file |-> Head(raw).file, op |-> Head(raw).op, time |-> source[Head(raw).file]]
<1>1. raw \in Seq(Events) /\ raw # <<>> /\ raw' = Tail(raw) /\ Head(raw) \in Events
      /\ items \in Seq(Items) /\ items' = Append(items, x)
  BY Removing DEF HandleEvent, TypeOK, Events
<1>2. x \in Items
  BY <1>1 DEF Events, Items, TypeOK
<1>3. raced \subseteq raced'
  BY DEF HandleEvent
<1>4. ASSUME x.file \notin raced'
      PROVE  ~Within(Tail(raw), x.file) /\ Fits(x.op, x.time)
  <2>1. \A i \in 2..Len(raw) : raw[i].file # x.file
    BY <1>4 DEF HandleEvent
  <2>2. \A i \in 1..Len(Tail(raw)) : Tail(raw)[i] = raw[i + 1] /\ i + 1 \in 2..Len(raw)
    BY <1>1
  <2>3. ~Within(Tail(raw), x.file)
    BY <2>1, <2>2 DEF Within
  <2>4. x.file \in Files
    BY <1>2 DEF Items
  <2>5. QED
    BY <1>1, <2>3, <2>4, Removing
<1>5. QED
  BY <1>1, <1>2, <1>3, <1>4

LEMMA TimedKept ==
  ASSUME TypeOK, Next,
         \A f \in Files : LastFits(raw, f, source[f]),
         NEW f \in Files, f \notin raced', f \notin raced => Timed(f)
  PROVE  Timed(f)'
<1>1. CASE HandleEvent
  <2>1. PICK x \in Items :
          /\ items' = Append(items, x) /\ items \in Seq(Items) /\ raced \subseteq raced'
          /\ x.file \notin raced' => Fits(x.op, x.time)
    BY <1>1, EventIs
  <2>2. Timed(f) /\ pending' = pending
    BY <1>1, <2>1 DEF HandleEvent, batchVars
  <2>3. \A i \in 1..Len(items') : (i \in 1..Len(items) /\ items'[i] = items[i]) \/ items'[i] = x
    BY <2>1
  <2>4. QED
    BY <2>1, <2>2, <2>3 DEF Timed, EachFits
<1>2. CASE Receive
  <2>1. Timed(f)
    BY <1>2 DEF Receive
  <2>2. /\ items' = Tail(items) /\ items \in Seq(Items) /\ items # <<>>
        /\ pending'[Head(items).file] \in {pending[Head(items).file], Head(items)}
        /\ f # Head(items).file => pending'[f] = pending[f]
        /\ Head(items) \in Items /\ Head(items).file \in Files
    <3>1. Head(items) \in Items
      BY <1>2, ReceiveIs
    <3>2. Head(items).file \in Files /\ pending[Head(items).file] \in Items \cup {NoItem}
      BY <3>1 DEF Items, TypeOK
    <3>3. QED
      BY <1>2, <3>1, <3>2, ReceiveIs, NewerIs
  <2>3. Head(items) = items[1] /\ 1 \in 1..Len(items)
        /\ \A i \in 1..Len(items') : items'[i] = items[i + 1] /\ i + 1 \in 1..Len(items)
    BY <2>2
  <2>4. QED
    BY <2>1, <2>2, <2>3 DEF Timed, EachFits
<1>3. CASE FlushEnds
  <2>1. Timed(f) /\ items' = items /\ pending'[f] = NoItem
    BY <1>3 DEF FlushEnds, inputVars, Empty
  <2>2. QED
    BY <2>1 DEF Timed, EachFits
<1>4. CASE UNCHANGED <<items, pending, raced>>
  BY <1>4 DEF Timed, EachFits
<1>5. ASSUME ~HandleEvent, ~Receive, ~FlushEnds
      PROVE  UNCHANGED <<items, pending, raced>>
  BY <1>5
  DEF Next, Change, Announce, CloseItems, Cancel, Loop,
      TickerFires, IdleFires,
      RetryFires, SeesClosed, SeesCancelled, Last, GiveUp,
      RunIncremental, Filtered, Delete, Create, FileFails,
      DeletesDone, FlushFails, runVars, inputVars, batchVars
<1>6. QED
  BY <1>1, <1>2, <1>3, <1>4, <1>5

-------------------------------------------------------------------------------
\* A file's .strm arrives.
LEMMA AppliedStays ==
  ASSUME NEW f, Arrives(f), UNCHANGED <<raw, source, items>>, Applied(f) => Applied(f)'
  PROVE  Arrives(f)'
BY DEF Arrives, Within, LastFits

LEMMA InputArrives ==
  ASSUME TypeOK, Input, NEW f \in Files, Arrives(f), f \notin raced',
         \A g \in Files : LastFits(raw, g, source[g])
  PROVE  Arrives(f)'
<1>0. raw \in Seq(Events) /\ source \in [Files -> Clock] /\ UNCHANGED batchVars
  BY DEF Input, Change, Announce, HandleEvent, CloseItems, Cancel,
         TypeOK, Events
<1>1. Applied(f)' <=> Applied(f)
  BY <1>0 DEF batchVars, Applied
<1>2. ASSUME NEW g \in Files, Change(g)
      PROVE  Arrives(f)'
  <2>1. PICK op \in Ops, time \in Nat : Announce(g, op, time)
    BY <1>2 DEF Change, Ops, TypeOK
  <2>2. [file |-> g, op |-> op] \in Events
    BY DEF Events
  <2>3. /\ raw' = Append(raw, [file |-> g, op |-> op]) /\ items' = items
        /\ f # g => source'[f] = source[f]
    BY <1>0, <2>1 DEF Announce
  <2>4. Within(raw', f) <=> Within(raw, f) \/ g = f
    BY <1>0, <2>2, <2>3, Appending
  <2>5. QED
    BY <1>1, <2>3, <2>4 DEF Arrives, Within, LastFits
<1>3. CASE HandleEvent
  <2>1. PICK x \in Items :
           /\ x.file = Head(raw).file /\ x.time = source[x.file]
           /\ items' = Append(items, x) /\ items \in Seq(Items)
           /\ raw' = Tail(raw) /\ raw # <<>> /\ raw \in Seq(Events)
           /\ x.file \notin raced' => Fits(x.op, x.time)
    BY <1>3, EventIs
  <2>2. source' = source
    BY <1>3 DEF HandleEvent
  <2>3. Within(raw, f) <=> x.file = f \/ Within(raw', f)
    BY <2>1, Removing
  <2>4. Within(items', f) <=> Within(items, f) \/ x.file = f
    BY <2>1, Appending
  <2>5. ASSUME ~Within(raw', f)
        PROVE  LastFits(items', f, source[f])
    <3>1. CASE x.file = f
      BY <2>1, <3>1, Appending
    <3>2. CASE x.file # f
      BY <2>1, <2>3, <2>5, <3>2, Appending DEF Arrives
    <3>3. QED
      BY <3>1, <3>2
  <2>6. QED
    BY <1>1, <2>2, <2>3, <2>4, <2>5 DEF Arrives, Within, LastFits
<1>4. CASE CloseItems \/ Cancel
  <2>1. UNCHANGED <<raw, source, items>>
    BY <1>4 DEF CloseItems, Cancel
  <2>2. QED
    BY <1>1, <2>1, AppliedStays
<1>5. QED
  BY <1>2, <1>3, <1>4 DEF Input

\* The map keeps the item that tells what is there, whichever it gathered before.
LEMMA ReceiveArrives ==
  ASSUME TypeOK, Receive, NEW f \in Files, Arrives(f), Timed(f)
  PROVE  Arrives(f)'
<1> DEFINE x == Head(items)
<1>1. /\ x \in Items /\ items' = Tail(items) /\ items \in Seq(Items) /\ items # <<>>
      /\ pending'[x.file] = Newer(pending[x.file], x) /\ pending'[x.file] # NoItem
      /\ f # x.file => pending'[f] = pending[f]
      /\ flush'.stage = "none" \/ (flush'.stage = "delete" /\ flush'.toDo = Gathered(pending)')
  BY ReceiveIs, NoFlushIs
<1>2. UNCHANGED <<raw, source, target>> /\ flush = NoFlush
  BY DEF Receive, Waiting
<1>3. Within(items, f) <=> x.file = f \/ Within(items', f)
  BY <1>1, Removing
<1> SUFFICES ASSUME ~Within(raw, f)
             PROVE  /\ LastFits(items', f, source[f])
                    /\ ~Within(items', f) /\ source[f] # 0 => Applied(f)'
  BY <1>2 DEF Arrives, Within, LastFits
<1>4. LastFits(items, f, source[f])
  BY DEF Arrives
<1>5. LastFits(items', f, source[f])
  BY <1>1, <1>4, Removing
<1>6. pending'[f] # NoItem => f \in Gathered(pending)'
  BY DEF Gathered
<1>7. ASSUME ~Within(items', f), source[f] # 0, x.file # f
      PROVE  Applied(f)'
  <2>1. Applied(f) /\ pending'[f] = pending[f]
    BY <1>1, <1>3, <1>7 DEF Arrives
  <2>2. QED
    BY <1>1, <1>2, <1>6, <2>1 DEF Applied
<1>8. ASSUME ~Within(items', f), source[f] # 0, x.file = f
      PROVE  Applied(f)'
  <2>1. x.op # "delete"
    BY <1>1, <1>4, <1>8, Removing DEF Fits
  <2>2. x.time # 0 /\ x.time \in Nat
    <3>1. items[1] = x /\ 1 \in 1..Len(items)
      BY <1>1
    <3>2. Fits(x.op, x.time)
      BY <1>8, <3>1 DEF Timed, EachFits
    <3>3. x.time \in Clock
      BY <1>1 DEF Items
    <3>4. QED
      BY <2>1, <3>2, <3>3, BatchAssumption DEF Fits, Clock
  <2>3. pending'[f].op # "delete"
    <3>1. CASE pending'[f] = x
      BY <2>1, <3>1
    <3>2. CASE pending'[f] # x
      <4>1. pending'[f] = pending[f] /\ pending[f] # NoItem /\ ~(x.time > pending[f].time)
        BY <1>1, <1>8, <3>2 DEF Newer
      <4>2. pending[f].time # 0
        BY <2>2, <4>1
      <4>3. QED
        BY <4>1, <4>2 DEF Timed, Fits
    <3>3. QED
      BY <3>1, <3>2
  <2>4. QED
    BY <1>1, <1>6, <1>8, <2>3 DEF Applied
<1>9. QED
  BY <1>5, <1>7, <1>8

LEMMA LoopArrives ==
  ASSUME TypeOK, Loop, NEW f \in Files, Arrives(f), Timed(f)
  PROVE  Arrives(f)'
<1>1. CASE Receive
  BY <1>1, ReceiveArrives
<1>2. ASSUME NEW why \in {"event", "ok", "cancelled"},
             flush' = flush \/ flush' = Started(why, pending),
             UNCHANGED <<inputVars, pending, target>>
      PROVE  Arrives(f)'
  <2>1. CASE flush' = flush
    BY <1>2, <2>1, AppliedStays DEF inputVars, Applied
  <2>2. CASE flush' = Started(why, pending)
    <3>1. flush'.stage = "none" \/ (flush'.stage = "delete" /\ flush'.toDo = Gathered(pending))
      BY <2>2, StartedIs, NoFlushIs
    <3>2. Applied(f) => Applied(f)'
      BY <1>2, <3>1 DEF Applied, Gathered
    <3>3. QED
      BY <1>2, <3>2, AppliedStays DEF inputVars
  <2>3. QED
    BY <1>2, <2>1, <2>2
<1>3. CASE TickerFires \/ IdleFires \/ RetryFires
  BY <1>2, <1>3 DEF TickerFires, IdleFires, RetryFires
<1>4. CASE SeesClosed \/ SeesCancelled
  BY <1>2, <1>4 DEF SeesClosed, SeesCancelled, Last
<1>5. CASE GiveUp
  BY <1>2, <1>5 DEF GiveUp
<1>6. QED
  BY <1>1, <1>3, <1>4, <1>5 DEF Loop

\* The engine writes the .strm of what was gathered, and no other file's.
LEMMA EngineArrives ==
  ASSUME TypeOK, FlushOK, RunIncremental,
         NEW f \in Matching \ lost', Alone(f), Arrives(f)
  PROVE  Arrives(f)'
<1>0. flush \in Flushes /\ f \in Files /\ target \in [Outputs -> Files \cup {NoFile}]
  BY BatchAssumption DEF TypeOK, Flushes
<1>1. UNCHANGED <<raw, source, items>>
  BY DEF RunIncremental, Filtered, Delete, Create, FileFails,
         DeletesDone, FlushEnds, FlushFails, runVars, inputVars
<1> SUFFICES ASSUME Applied(f) PROVE Applied(f)'
  BY <1>1, AppliedStays
<1>2. ASSUME NEW g \in Files, EngineStep(g)
      PROVE  Applied(f)'
  <2>1. /\ flush'.stage = flush.stage /\ flush'.toDo = flush.toDo \ {g} /\ flush.failed \subseteq flush'.failed
        /\ pending' = pending /\ g \in flush.toDo
    BY <1>0, <1>2, EngineStepIs DEF runVars
  <2>2. CASE g # f
    <3>1. OutputOf[g] # OutputOf[f]
      BY <2>2 DEF Alone
    <3>2. target'[OutputOf[f]] = target[OutputOf[f]]
      BY <1>2, <3>1, BatchAssumption DEF EngineStep, Filtered, Delete, Create, FileFails,
                        TypeOK, Outputs
    <3>3. QED
      BY <2>1, <2>2, <3>2 DEF Applied
  <2>3. CASE g = f
    <3>1. pending[f] # NoItem
      BY <2>1, <2>3, NoFlushIs DEF FlushOK, Gathered
    <3>2. pending[f].op # "delete"
      BY <3>1 DEF Applied
    <3>3. CASE Create(f)
      <4>1. OutputOf[f] \in Outputs
        BY <1>0 DEF Outputs
      <4>2. target'[OutputOf[f]] = f /\ flush.stage = "create"
        BY <1>0, <3>3, <4>1 DEF Create, Working
      <4>3. QED
        BY <2>1, <3>1, <3>2, <4>2 DEF Applied
    <3>4. CASE FileFails(f)
      <4>1. flush.stage = "create"
        BY <3>2, <3>4 DEF FileFails, Working
      <4>2. f \in flush'.failed
        BY <1>0, <3>4 DEF FileFails, Flushes
      <4>3. QED
        BY <2>1, <3>1, <3>2, <4>1, <4>2 DEF Applied
    <3>5. QED
      BY <1>2, <2>3, <3>2, <3>3, <3>4 DEF EngineStep, Filtered, Delete
  <2>4. QED
    BY <2>2, <2>3
<1>3. CASE DeletesDone
  <2>1. /\ flush.stage = "delete" /\ flush'.stage = "create" /\ flush'.toDo = flush.toDo
        /\ pending' = pending /\ target' = target
    BY <1>0, <1>3 DEF DeletesDone, runVars, Flushes
  <2>2. QED
    BY <2>1 DEF Applied
<1>4. CASE FlushEnds
  <2>1. pending'[f] = NoItem /\ target' = target /\ f \notin flush.failed
    BY <1>0, <1>4 DEF FlushEnds, Empty
  <2>2. target[OutputOf[f]] = f
    BY <1>4, <2>1 DEF FlushEnds, Applied
  <2>3. QED
    BY <2>1, <2>2 DEF Applied
<1>5. CASE FlushFails
  <2>1. pending' = pending /\ target' = target /\ flush'.stage = "none"
    BY <1>5, NoFlushIs DEF FlushFails
  <2>2. QED
    BY <2>1 DEF Applied
<1>6. QED
  BY <1>2, <1>3, <1>4, <1>5 DEF RunIncremental, EngineStep

LEMMA NextBatch == ASSUME BatchInv, [Next]_vars PROVE BatchInv'
<1>1. CASE Next
  <2>1. Input \/ Loop \/ RunIncremental
    BY <1>1 DEF Next, Input
  <2>2. TypeOK' /\ FlushOK'
    BY <2>1, InputTypes, LoopTypes, EngineTypes, InputFlush, LoopFlush, EngineFlush DEF BatchInv
  <2>3. \A f \in Files : LastFits(raw, f, source[f])'
    BY <1>1, RawKept DEF BatchInv
  <2>4. raced \subseteq raced' /\ lost \subseteq lost'
    BY <1>1
    DEF Next, Change, Announce, HandleEvent, CloseItems, Cancel,
        Loop, Receive, TickerFires, IdleFires,
        RetryFires, SeesClosed, SeesCancelled, Last, GiveUp,
        RunIncremental, Filtered, Delete, Create, FileFails,
        DeletesDone, FlushEnds, FlushFails, runVars, inputVars,
        batchVars
  <2>5. \A f \in Files \ raced' : Timed(f)'
    BY <1>1, <2>4, TimedKept DEF BatchInv
  <2>6. ASSUME NEW f \in Matching \ (raced' \cup lost'), Alone(f)
        PROVE  Arrives(f)'
    <3>1. f \in Files /\ f \notin raced \cup lost
      BY <2>4, BatchAssumption
    <3>2. Arrives(f) /\ Timed(f)
      BY <2>6, <3>1 DEF BatchInv
    <3>3. QED
      BY <2>1, <2>6, <3>1, <3>2, InputArrives, LoopArrives, EngineArrives DEF BatchInv
  <2>7. \A f : Alone(f)' <=> Alone(f)
    BY DEF Alone
  <2>8. QED
    BY <2>2, <2>3, <2>5, <2>6, <2>7 DEF BatchInv
<1>2. CASE UNCHANGED vars
  BY <1>2
  DEF vars, BatchInv, TypeOK, FlushOK, Timed, EachFits, Arrives, Applied, LastFits, Within,
      NoFlush, Empty, Gathered, Alone, Outputs
<1>3. QED
  BY <1>1, <1>2

\* Safety, Apply of the engine's generator: with every sort of file, settings, batch and
\* changes, its loop keeps BatchInv.
THEOREM BatchInvariant == Spec => []BatchInv
<1>1. Init => BatchInv
  BY InitBatch
<1>2. BatchInv /\ [Next]_vars => BatchInv'
  BY NextBatch
<1>3. QED
  BY <1>1, <1>2, PTL DEF Spec

LEMMA BatchInvSuffices == BatchInv => TimelyHasStrm /\ ApplyOK
<1> SUFFICES ASSUME BatchInv PROVE TimelyHasStrm /\ ApplyOK
  OBVIOUS
<1>1. ApplyOK
  BY DEF BatchInv, FlushOK, ApplyOK, OkLeavesNothing
<1>2. ASSUME NEW f \in Matching \ raced, Settled(f), Alone(f), source[f] # 0
      PROVE  target[OutputOf[f]] = f
  <2>1. ~Within(raw, f) /\ ~Within(items, f) /\ pending[f] = NoItem /\ f \notin lost
    BY <1>2 DEF Settled, Within
  <2>2. Arrives(f)
    BY <1>2, <2>1 DEF BatchInv
  <2>3. QED
    BY <1>2, <2>1, <2>2 DEF Arrives, Applied
<1>3. QED
  BY <1>1, <1>2 DEF TimelyHasStrm, HasStrm

\* Safety, mergePlanItem and RunIncremental: a file that is there has its .strm once none
\* of its events is under way, whichever items were merged and whenever they were
\* flushed, if the monitor handled each event before the file changed again, no item of
\* it failed, and no other file has the same .strm.
THEOREM TimelyHasStrmHolds == Spec => []TimelyHasStrm
<1>1. BatchInv => TimelyHasStrm
  BY BatchInvSuffices
<1>2. QED
  BY <1>1, BatchInvariant, PTL

\* Safety, Apply: it counts no more failures than it may, and returns without an error
\* only when the channel is closed, nothing is left in it and every item taken from it
\* has been handed to the engine.
THEOREM ApplyOKHolds == Spec => []ApplyOK
<1>1. BatchInv => ApplyOK
  BY BatchInvSuffices
<1>2. QED
  BY <1>1, BatchInvariant, PTL
===============================================================================
