-------------------------- MODULE SyncPipelineProofs --------------------------
(***************************************************************************)
(* Proofs about the sync pipeline, for every set of files and targets,     *)
(* channels of any size, any number of changes, and every failure:         *)
(*                                                                         *)
(*   1. while the pipeline runs, a target none of whose files has an event *)
(*      under way mirrors them (THEOREM SettledIsMirroredHolds, from       *)
(*      MirrorInv);                                                        *)
(*   2. a pipeline that ends leaves nothing in its channels (THEOREM       *)
(*      ChannelsOKHolds, from TypeOK and EndsInOrder).                     *)
(*                                                                         *)
(* The first says of every target what it is when nothing is under way, so *)
(* the invariant has to say what is under way: of a file's items, the one  *)
(* furthest from the target, whichever stage holds it, says whether the    *)
(* file is there now.  That is ChangeFits, and every step of a stage keeps *)
(* it: an item moves one stage further, behind those already there         *)
(* (Forward), so that the last item applied is the last change.  It is     *)
(* kept only for files that are Spared: no event dropped, no item failed,  *)
(* no change while the directory was not watched.                          *)
(***************************************************************************)
EXTENDS SyncPipeline, TLAPS

\* The last change of a file under way says whether the file is there.
Fits(op, content) == op = "delete" <=> content = 0
LastFits(seq, f, content) ==
  \A i \in 1..Len(seq) :
    (seq[i].file = f /\ \A j \in 1..Len(seq) : j > i => seq[j].file # f) => Fits(seq[i].op, content)

\* The stages in the order in which an item reaches them, last first.
AppliedFits(k, f) ==
  InHand(apply[k], f) =>
    Fits(apply[k].item.op, source[f]) /\ (apply[k].at = "rename" => apply[k].read = source[f])
QueuedFits(f) ==
  \A k \in Kinds :
    LastFits(queue[k], f, source[f]) /\ (~Within(queue[k], f) => AppliedFits(k, f))
RoutedFits(f) == IF InHand(route, f) THEN Fits(route.item.op, source[f]) ELSE QueuedFits(f)
PlannedFits(f) == IF InHand(plan, f) THEN Fits(plan.item.op, source[f]) ELSE RoutedFits(f)
SentFits(f) == LastFits(events, f, source[f]) /\ (~Within(events, f) => PlannedFits(f))
ChangeFits(f) == LastFits(raw, f, source[f]) /\ (~Within(raw, f) => SentFits(f))

\* An item is on the way its kind takes.
OnItsWay ==
  /\ plan.at = "send" => Kind[plan.item.file] \in Kinds
  /\ route.at = "send" => Kind[route.item.file] \in Kinds
  /\ \A k \in Kinds :
       /\ \A i \in 1..Len(queue[k]) : Kind[queue[k][i].file] = k
       /\ apply[k].at \in {"work", "rename"} => Kind[apply[k].item.file] = k
       /\ apply[k].at = "rename" => k = "meta" /\ apply[k].item.op # "delete"

\* A target of one file mirrors it when nothing is under way; a target is there only
\* if one of its files is, or is under way.
Justified(t) == \E g \in Owners(t) : Kind[g] \in Kinds /\ (source[g] # 0 \/ ~Settled(g))
TargetFits(t) ==
  /\ \A f \in Owners(t) : Owners(t) = {f} /\ Settled(f) => Mirrored(t)
  /\ target[t] # 0 => Justified(t)

Spared(f) == monitor = "on" /\ ~cancelled /\ f \notin excused \cup missed

MirrorInv ==
  /\ TypeOK /\ OnItsWay
  /\ \A f \in Files : Spared(f) => ChangeFits(f)
  /\ \A t \in Targets : (\A f \in Owners(t) : Spared(f)) => TargetFits(t)

\* A stage ends after the one before it, and leaves nothing behind, unless the
\* context is done.
EndsInOrder ==
  ~cancelled =>
    /\ plan.at = "done" => monitor = "done" /\ events = <<>>
    /\ route.at = "done" => plan.at = "done"
    /\ \A k \in Kinds : apply[k].at = "done" => route.at = "done" /\ queue[k] = <<>>

-------------------------------------------------------------------------------
(***************************************************************************)
(* Lemmas about sequences of items: the last item of a file.               *)
(***************************************************************************)
LEMMA Appending ==
  ASSUME NEW S, NEW seq \in Seq(S), NEW x \in S, NEW f, NEW content
  PROVE  LET s == Append(seq, x) IN
         /\ s \in Seq(S) /\ Len(s) = Len(seq) + 1 /\ Len(seq) \in Nat
         /\ Within(s, f) <=> Within(seq, f) \/ x.file = f
         /\ x.file # f /\ LastFits(seq, f, content) => LastFits(s, f, content)
         /\ x.file = f /\ Fits(x.op, content) => LastFits(s, f, content)
<1> DEFINE s == Append(seq, x)
<1>1. /\ s \in Seq(S) /\ Len(s) = Len(seq) + 1 /\ Len(seq) \in Nat
      /\ \A i \in 1..Len(seq) : s[i] = seq[i] /\ i \in 1..Len(s)
      /\ Len(seq) + 1 \in 1..Len(s)
      /\ \A i \in 1..Len(s) : i \in 1..Len(seq) \/ i = Len(seq) + 1
      /\ s[Len(seq) + 1] = x
  OBVIOUS
<1> HIDE DEF s
<1>2. Within(s, f) <=> Within(seq, f) \/ x.file = f
  BY <1>1 DEF Within
<1>3. ASSUME x.file # f, LastFits(seq, f, content)
      PROVE  LastFits(s, f, content)
  <2> SUFFICES ASSUME NEW i \in 1..Len(s), s[i].file = f,
                      \A j \in 1..Len(s) : j > i => s[j].file # f
               PROVE  Fits(s[i].op, content)
    BY DEF LastFits
  <2>1. i \in 1..Len(seq) /\ s[i] = seq[i]
    BY <1>1, <1>3
  <2>2. \A j \in 1..Len(seq) : j > i => seq[j].file # f
    BY <1>1
  <2>3. QED
    BY <1>3, <2>1, <2>2 DEF LastFits
<1>4. ASSUME x.file = f, Fits(x.op, content)
      PROVE  LastFits(s, f, content)
  <2> SUFFICES ASSUME NEW i \in 1..Len(s), s[i].file = f,
                      \A j \in 1..Len(s) : j > i => s[j].file # f
               PROVE  Fits(s[i].op, content)
    BY DEF LastFits
  <2>1. i = Len(seq) + 1
    BY <1>1, <1>4
  <2>2. QED
    BY <1>1, <1>4, <2>1
<1>5. QED
  BY <1>1, <1>2, <1>3, <1>4 DEF s

LEMMA Removing ==
  ASSUME NEW S, NEW seq \in Seq(S), seq # <<>>, NEW f, NEW content
  PROVE  /\ Tail(seq) \in Seq(S) /\ Head(seq) \in S
         /\ Len(Tail(seq)) = Len(seq) - 1 /\ Len(seq) \in Nat \ {0}
         /\ Within(seq, f) <=> Head(seq).file = f \/ Within(Tail(seq), f)
         /\ LastFits(seq, f, content) => LastFits(Tail(seq), f, content)
         /\ LastFits(seq, f, content) /\ Head(seq).file = f /\ ~Within(Tail(seq), f) =>
              Fits(Head(seq).op, content)
<1> DEFINE s == Tail(seq)
<1>1. /\ s \in Seq(S) /\ Len(s) = Len(seq) - 1 /\ Len(seq) \in Nat \ {0}
      /\ Head(seq) = seq[1] /\ Head(seq) \in S
      /\ \A i \in 1..Len(s) : s[i] = seq[i + 1] /\ i + 1 \in 1..Len(seq)
      /\ \A i \in 1..Len(seq) : i # 1 => i - 1 \in 1..Len(s) /\ s[i - 1] = seq[i]
      /\ 1 \in 1..Len(seq)
  <2>1. /\ s \in Seq(S) /\ Len(s) = Len(seq) - 1 /\ Len(seq) \in Nat \ {0}
        /\ Head(seq) = seq[1] /\ Head(seq) \in S
        /\ \A i \in 1..Len(s) : s[i] = seq[i + 1]
    OBVIOUS
  <2> HIDE DEF s
  <2>2. QED
    BY <2>1
<1> HIDE DEF s
<1>2. Within(seq, f) <=> Head(seq).file = f \/ Within(s, f)
  <2>1. ASSUME Within(seq, f) PROVE Head(seq).file = f \/ Within(s, f)
    BY <1>1, <2>1 DEF Within
  <2>2. ASSUME Head(seq).file = f \/ Within(s, f) PROVE Within(seq, f)
    BY <1>1, <2>2 DEF Within
  <2>3. QED
    BY <2>1, <2>2
<1>3. ASSUME LastFits(seq, f, content)
      PROVE  LastFits(s, f, content)
  <2> SUFFICES ASSUME NEW i \in 1..Len(s), s[i].file = f,
                      \A j \in 1..Len(s) : j > i => s[j].file # f
               PROVE  Fits(s[i].op, content)
    BY DEF LastFits
  <2>1. i + 1 \in 1..Len(seq) /\ s[i] = seq[i + 1]
    BY <1>1
  <2>2. \A j \in 1..Len(seq) : j > i + 1 => seq[j].file # f
    <3> SUFFICES ASSUME NEW j \in 1..Len(seq), j > i + 1 PROVE seq[j].file # f
      OBVIOUS
    <3>1. j - 1 \in 1..Len(s) /\ s[j - 1] = seq[j] /\ j - 1 > i
      BY <1>1
    <3>2. QED
      BY <3>1
  <2>3. QED
    BY <1>3, <2>1, <2>2 DEF LastFits
<1>4. ASSUME LastFits(seq, f, content), Head(seq).file = f, ~Within(s, f)
      PROVE  Fits(Head(seq).op, content)
  <2>1. \A j \in 1..Len(seq) : j > 1 => seq[j].file # f
    BY <1>1, <1>4 DEF Within
  <2>2. QED
    BY <1>1, <1>4, <2>1 DEF LastFits
<1>5. QED
  BY <1>1, <1>2, <1>3, <1>4 DEF s

LEMMA EmptyFits ==
  ASSUME NEW f, NEW content
  PROVE  LastFits(<<>>, f, content) /\ ~Within(<<>>, f)
BY DEF LastFits, Within

-------------------------------------------------------------------------------
(***************************************************************************)
(* Types.                                                                  *)
(***************************************************************************)
LEMMA InitTypes == Init => TypeOK
<1> SUFFICES ASSUME Init PROVE TypeOK
  OBVIOUS
<1>1. /\ source \in [Files -> Contents] /\ target \in [Targets -> Contents]
      /\ cancelled \in BOOLEAN /\ changes \in 0..MaxChanges
  <2>1. {0, 1} \subseteq Contents
    BY DEF Contents
  <2>2. source \in [Files -> Contents]
    BY <2>1 DEF Init
  <2>3. target \in [Targets -> Contents]
    BY <2>1 DEF Init
  <2>4. changes \in 0..MaxChanges
    BY PipelineAssumption DEF Init
  <2>5. cancelled \in BOOLEAN
    BY DEF Init
  <2>6. QED
    BY <2>2, <2>3, <2>4, <2>5
<1>2. raw = <<>> /\ events = <<>> /\ \A k \in Kinds : queue[k] = <<>>
  BY DEF Init
<1>3. /\ raw \in Seq(Items \cup {NewDir}) /\ events \in Seq(Items) /\ queue \in [Kinds -> Seq(Items)]
      /\ Len(events) <= EventCap /\ \A k \in Kinds : Len(queue[k]) <= QueueCap
  <2>1. /\ <<>> \in Seq(Items \cup {NewDir}) /\ <<>> \in Seq(Items) /\ Len(<<>>) = 0
    OBVIOUS
  <2>2. 0 <= EventCap /\ 0 <= QueueCap
    BY PipelineAssumption
  <2>3. QED
    BY <1>2, <2>1, <2>2 DEF Init
<1>4. QED
  BY <1>1, <1>3 DEF Init, TypeOK

\* A stage holds an item of the files, or NoItem.
LEMMA Stages ==
  ASSUME TypeOK
  PROVE  /\ plan.at = "send" => plan.item \in Items
         /\ plan.at # "send" => plan.item = NoItem
         /\ route.at = "send" => route.item \in Items
         /\ route.at # "send" => route.item = NoItem
         /\ \A k \in Kinds :
              /\ apply[k].at \in {"work", "rename"} => apply[k].item \in Items
              /\ apply[k].at \notin {"work", "rename"} => apply[k].item = NoItem
         /\ \A i \in Items : i.file \in Files /\ i.op \in Ops /\ i.file # "none" /\ i.file # "dir"
         /\ NoItem.file = "none" /\ NewDir.file = "dir" /\ "none" \notin Files /\ "dir" \notin Files
<1>1. /\ \A i \in Items : i.file \in Files /\ i.op \in Ops /\ i.file # "none" /\ i.file # "dir"
      /\ NoItem.file = "none" /\ NewDir.file = "dir" /\ "none" \notin Files /\ "dir" \notin Files
  BY PipelineAssumption DEF Items, NoItem, NewDir
<1>2. /\ plan.at = "send" => plan.item \in Items
      /\ plan.at # "send" => plan.item = NoItem
  BY DEF TypeOK
<1>3. /\ route.at = "send" => route.item \in Items
      /\ route.at # "send" => route.item = NoItem
  BY DEF TypeOK
<1>4. ASSUME NEW k \in Kinds
      PROVE  /\ apply[k].at \in {"work", "rename"} => apply[k].item \in Items
             /\ apply[k].at \notin {"work", "rename"} => apply[k].item = NoItem
  BY DEF TypeOK
<1>5. QED
  BY <1>1, <1>2, <1>3, <1>4

LEMMA TreeTypes ==
  ASSUME TypeOK, (\E f \in Files : ChangeFile(f)) \/ MakeDir \/ WatchDir
  PROVE  TypeOK'
<1>1. CASE \E f \in Files : ChangeFile(f)
  <2>1. PICK f \in Files, content \in Contents, op \in Ops : Change(f, content, op)
    <3>1. PICK f \in Files : ChangeFile(f)
      BY <1>1
    <3>2. 1 \in Contents /\ 0 \in Contents /\ (source[f] # 0 => 3 - source[f] \in Contents)
      <4>1. source[f] \in 0..2
        BY <3>1 DEF TypeOK, Contents
      <4>2. QED
        BY <4>1 DEF Contents
    <3>3. QED
      BY <3>1, <3>2 DEF ChangeFile, Ops
  <2>2. [file |-> f, op |-> op] \in Items
    BY DEF Items
  <2>3. raw' \in Seq(Items \cup {NewDir})
    BY <2>1, <2>2 DEF Change, TypeOK
  <2>4. changes' \in 0..MaxChanges
    BY <2>1, PipelineAssumption DEF Change, TypeOK
  <2>5. source' \in [Files -> Contents] /\ missed' \subseteq Files
    BY <2>1 DEF Change, TypeOK
  <2>6. QED
    BY <2>1, <2>3, <2>4, <2>5 DEF Change, TypeOK, stageVars, appliedVars
<1>2. CASE MakeDir
  <2>1. raw' \in Seq(Items \cup {NewDir})
    BY <1>2 DEF MakeDir, TypeOK
  <2>2. changes' \in 0..MaxChanges
    BY <1>2, PipelineAssumption DEF MakeDir, TypeOK
  <2>3. QED
    BY <1>2, <2>1, <2>2 DEF MakeDir, TypeOK, stageVars, appliedVars
<1>3. CASE WatchDir
  <2>1. raw' \in Seq(Items \cup {NewDir})
    BY <1>3 DEF WatchDir, TypeOK
  <2>2. QED
    BY <1>3, <2>1 DEF WatchDir, TypeOK, stageVars, appliedVars
<1>4. QED
  BY <1>1, <1>2, <1>3

LEMMA MonitorTypes ==
  ASSUME TypeOK, HandleEvent \/ MonitorEnds \/ Cancel
  PROVE  TypeOK'
<1>1. CASE HandleEvent
  <2>1. Head(raw) \in Items /\ raw' \in Seq(Items \cup {NewDir})
    BY <1>1, Removing DEF HandleEvent, TypeOK
  <2>2. events' \in Seq(Items) /\ Len(events') <= EventCap
    <3>1. CASE UNCHANGED events
      BY <3>1 DEF TypeOK
    <3>2. CASE Len(events) < EventCap /\ events' = Append(events, Head(raw))
      BY <2>1, <3>2, PipelineAssumption DEF TypeOK
    <3>3. QED
      BY <1>1, <3>1, <3>2 DEF HandleEvent, SendEvent
  <2>3. excused' \subseteq Files
    BY <1>1, <2>1 DEF HandleEvent, SendEvent, TypeOK, Items
  <2>4. QED
    BY <1>1, <2>1, <2>2, <2>3 DEF HandleEvent, TypeOK
<1>2. CASE MonitorEnds
  BY <1>2 DEF MonitorEnds, TypeOK, treeVars, appliedVars
<1>3. CASE Cancel
  BY <1>3 DEF Cancel, TypeOK, treeVars, stageVars, appliedVars
<1>4. QED
  BY <1>1, <1>2, <1>3

LEMMA PlanTypes ==
  ASSUME TypeOK, PlanStep \/ RouteStep
  PROVE  TypeOK'
<1>1. CASE PlanNext
  <2>1. Head(events) \in Items /\ events' \in Seq(Items) /\ Len(events') <= EventCap
    BY <1>1, Removing, PipelineAssumption DEF PlanNext, TypeOK
  <2>2. QED
    BY <1>1, <2>1 DEF PlanNext, TypeOK, treeVars, appliedVars
<1>2. CASE PlanEnds
  BY <1>2 DEF PlanEnds, TypeOK, treeVars, appliedVars
<1>3. CASE HandOver
  <2>1. plan.item \in Items
    BY <1>3, Stages DEF HandOver
  <2>2. QED
    BY <1>3, <2>1 DEF HandOver, TypeOK, treeVars, appliedVars
<1>4. CASE Route
  <2> DEFINE k == Kind[route.item.file]
  <2>1. route.item \in Items
    BY <1>4, Stages DEF Route
  <2>2. queue' = [queue EXCEPT ![k] = Append(queue[k], route.item)] /\ Len(queue[k]) < QueueCap
    BY <1>4 DEF Route
  <2> HIDE DEF k
  <2>3. k \in Kinds => Append(queue[k], route.item) \in Seq(Items)
                        /\ Len(Append(queue[k], route.item)) <= QueueCap
    BY <2>1, <2>2, PipelineAssumption DEF TypeOK
  <2>4. queue' \in [Kinds -> Seq(Items)] /\ \A j \in Kinds : Len(queue'[j]) <= QueueCap
    BY <2>2, <2>3 DEF TypeOK
  <2>5. QED
    BY <1>4, <2>4 DEF Route, TypeOK, treeVars, appliedVars
<1>5. CASE RouteEnds
  BY <1>5 DEF RouteEnds, TypeOK, treeVars, appliedVars
<1>6. QED
  BY <1>1, <1>2, <1>3, <1>4, <1>5 DEF PlanStep, RouteStep

Applier ==
  [at: {"wait", "done", "gone"}, item: {NoItem}, read: {0}]
    \cup [at: {"work"}, item: Items, read: {0}]
    \cup [at: {"rename"}, item: Items, read: Contents]

LEMMA ApplyTypes ==
  ASSUME TypeOK, NEW k \in Kinds, ApplyStep(k) \/ Abort(k)
  PROVE  TypeOK'
<1>1. /\ apply \in [Kinds -> Applier] /\ \A a \in Applier : Become(k, a) => apply' \in [Kinds -> Applier]
      /\ Idle \in Applier /\ [Idle EXCEPT !.at = "done"] \in Applier /\ [Idle EXCEPT !.at = "gone"] \in Applier
  BY DEF TypeOK, Applier, Become, Idle
<1>2. /\ apply[k].at \in {"work", "rename"} => apply[k].item \in Items /\ apply[k].item.file \in Files
      /\ \A f \in Files : TargetOf[f] \in Targets /\ source[f] \in Contents
      /\ 0 \in Contents /\ 1 \in Contents /\ 2 \in Contents
      /\ apply[k].read \in Contents
  BY <1>1, Stages DEF Targets, Contents, TypeOK, Applier
<1>3. CASE Take(k)
  <2> DEFINE q == Tail(queue[k])
  <2>1. /\ Head(queue[k]) \in Items /\ q \in Seq(Items) /\ Len(q) <= QueueCap
    BY <1>3, Removing, PipelineAssumption DEF Take, TypeOK
  <2>2. queue' = [queue EXCEPT ![k] = q]
    BY <1>3 DEF Take
  <2> HIDE DEF q
  <2>3. queue' \in [Kinds -> Seq(Items)] /\ \A j \in Kinds : Len(queue'[j]) <= QueueCap
    BY <2>1, <2>2 DEF TypeOK
  <2>4. [at |-> "work", item |-> Head(queue[k]), read |-> 0] \in Applier
    BY <2>1 DEF Applier
  <2>5. apply' \in [Kinds -> Applier]
    BY <1>1, <1>3, <2>4 DEF Take
  <2>6. QED
    BY <1>3, <2>3, <2>5 DEF Take, TypeOK, Applier, treeVars, appliedVars
<1>4. CASE CopySource(k)
  <2> DEFINE a == [apply[k] EXCEPT !.at = "rename", !.read = source[apply[k].item.file]]
  <2>1. a \in Applier
    BY <1>1, <1>2, <1>4 DEF CopySource, Applier
  <2>2. Become(k, a)
    BY <1>4 DEF CopySource
  <2> HIDE DEF a
  <2>3. apply' \in [Kinds -> Applier]
    BY <1>1, <2>1, <2>2
  <2>4. QED
    BY <1>4, <2>3 DEF CopySource, TypeOK, Applier, treeVars, appliedVars
<1>5. CASE SourceGone(k) \/ ApplyEnds(k)
  <2>1. apply' \in [Kinds -> Applier]
    BY <1>1, <1>5 DEF SourceGone, ApplyEnds
  <2>2. QED
    BY <1>5, <2>1 DEF SourceGone, ApplyEnds, TypeOK, Applier, treeVars, appliedVars
<1>6. CASE Rename(k) \/ WriteStrm(k) \/ Remove(k)
  <2>1. apply' \in [Kinds -> Applier]
    BY <1>1, <1>6 DEF Rename, WriteStrm, Remove
  <2>2. target' \in [Targets -> Contents]
    BY <1>2, <1>6 DEF Rename, WriteStrm, Remove, TypeOK
  <2>3. QED
    BY <1>6, <2>1, <2>2 DEF Rename, WriteStrm, Remove, TypeOK, Applier, treeVars
<1>7. CASE ApplyFails(k)
  <2>1. apply' \in [Kinds -> Applier]
    BY <1>1, <1>7 DEF ApplyFails
  <2>2. target' \in [Targets -> Contents]
    BY <1>2, <1>7 DEF ApplyFails, TypeOK
  <2>3. excused' \subseteq Files
    BY <1>2, <1>7 DEF ApplyFails, TypeOK
  <2>4. QED
    BY <1>7, <2>1, <2>2, <2>3 DEF ApplyFails, TypeOK, Applier, treeVars
<1>8. CASE Abort(k)
  <2>1. apply' \in [Kinds -> Applier]
    BY <1>1, <1>8 DEF Abort
  <2>2. excused' \subseteq Files
    BY <1>8 DEF Abort, TypeOK
  <2>3. QED
    BY <1>8, <2>1, <2>2 DEF Abort, TypeOK, Applier, treeVars
<1>9. QED
  BY <1>3, <1>4, <1>5, <1>6, <1>7, <1>8 DEF ApplyStep

LEMMA NextTypes == TypeOK /\ [Next]_vars => TypeOK'
<1> SUFFICES ASSUME TypeOK, [Next]_vars PROVE TypeOK'
  OBVIOUS
<1>1. CASE Next
  BY <1>1, TreeTypes, MonitorTypes, PlanTypes, ApplyTypes DEF Next, MonitorStep
<1>2. CASE UNCHANGED vars
  BY <1>2 DEF vars, TypeOK
<1>3. QED
  BY <1>1, <1>2

-------------------------------------------------------------------------------
(***************************************************************************)
(* Steps that move items on.                                               *)
(***************************************************************************)
\* The step keeps what ChangeFits says of f, and does not settle it.
Forward(f) == ChangeFits(f)' /\ (Kind[f] \in Kinds /\ Settled(f)' => Settled(f))

\* What the stages up to an unchanged one hold fits as before.
LEMMA Downstream ==
  ASSUME NEW f, UNCHANGED <<source, queue, apply>>
  PROVE  /\ QueuedFits(f)' <=> QueuedFits(f)
         /\ UNCHANGED route => (RoutedFits(f)' <=> RoutedFits(f))
         /\ UNCHANGED <<route, plan>> => (PlannedFits(f)' <=> PlannedFits(f))
         /\ UNCHANGED <<route, plan, events>> => (SentFits(f)' <=> SentFits(f))
<1>1. QueuedFits(f)' <=> QueuedFits(f)
  BY DEF QueuedFits, AppliedFits, InHand
<1>2. UNCHANGED route => (RoutedFits(f)' <=> RoutedFits(f))
  BY <1>1 DEF RoutedFits, InHand
<1>3. UNCHANGED <<route, plan>> => (PlannedFits(f)' <=> PlannedFits(f))
  BY <1>2 DEF PlannedFits, InHand
<1>4. UNCHANGED <<route, plan, events>> => (SentFits(f)' <=> SentFits(f))
  BY <1>3 DEF SentFits
<1>5. QED
  BY <1>1, <1>2, <1>3, <1>4

\* Who holds a file, by the state of the stage.
LEMMA Empty ==
  ASSUME TypeOK, NEW f \in Files
  PROVE  /\ plan.at # "send" => ~InHand(plan, f)
         /\ route.at # "send" => ~InHand(route, f)
         /\ \A k \in Kinds : apply[k].at \notin {"work", "rename"} => ~InHand(apply[k], f)
         /\ ~InHand([at |-> "done", item |-> NoItem], f)
         /\ ~InHand([at |-> "wait", item |-> NoItem], f)
         /\ ~InHand(Idle, f) /\ ~InHand([Idle EXCEPT !.at = "done"], f)
         /\ ~InHand([Idle EXCEPT !.at = "gone"], f)
BY Stages DEF InHand, Idle

LEMMA OffItsWay ==
  ASSUME TypeOK, OnItsWay, NEW f \in Files, NEW k \in Kinds, Kind[f] # k
  PROVE  ~Within(queue[k], f) /\ ~InHand(apply[k], f) /\ LastFits(queue[k], f, source[f])
<1>1. ~Within(queue[k], f) /\ LastFits(queue[k], f, source[f])
  BY DEF OnItsWay, Within, LastFits
<1>2. ~InHand(apply[k], f)
  <2>1. CASE apply[k].at \in {"work", "rename"}
    BY <2>1 DEF OnItsWay, InHand
  <2>2. CASE apply[k].at \notin {"work", "rename"}
    BY <2>2, Empty
  <2>3. QED
    BY <2>1, <2>2
<1>3. QED
  BY <1>1, <1>2

LEMMA SkippedFits ==
  ASSUME TypeOK, OnItsWay, NEW f \in Files, Kind[f] \notin Kinds
  PROVE  RoutedFits(f)
<1>1. ~InHand(route, f)
  <2>1. CASE route.at = "send"
    BY <2>1 DEF OnItsWay, InHand
  <2>2. CASE route.at # "send"
    BY <2>2, Empty
  <2>3. QED
    BY <2>1, <2>2
<1>2. QueuedFits(f)
  BY OffItsWay DEF QueuedFits, AppliedFits
<1>3. QED
  BY <1>1, <1>2 DEF RoutedFits

LEMMA WatchForward ==
  ASSUME TypeOK, NEW f \in Files, ChangeFits(f), WatchDir
  PROVE  Forward(f)
<1>1. /\ raw \in Seq(Items \cup {NewDir}) /\ raw # <<>> /\ Head(raw).file # f /\ raw' = Tail(raw)
      /\ UNCHANGED <<source, queue, apply, route, plan, events>>
  BY Stages DEF WatchDir, TypeOK, stageVars
<1>2. SentFits(f)' <=> SentFits(f)
  BY <1>1, Downstream
<1>3. (Within(raw, f) <=> Within(raw', f)) /\ (LastFits(raw, f, source[f]) => LastFits(raw', f, source[f]))
  BY <1>1, Removing
<1>4. ChangeFits(f)'
  BY <1>1, <1>2, <1>3 DEF ChangeFits
<1>5. Settled(f)' => Settled(f)
  BY <1>1, <1>3 DEF Settled, InHand
<1>6. QED
  BY <1>4, <1>5 DEF Forward

LEMMA EventForward ==
  ASSUME TypeOK, NEW f \in Files, ChangeFits(f), HandleEvent, f \notin excused'
  PROVE  Forward(f)
<1> DEFINE x == Head(raw)
<1>1. /\ raw \in Seq(Items \cup {NewDir}) /\ raw # <<>> /\ raw' = Tail(raw) /\ events \in Seq(Items)
      /\ UNCHANGED <<source, queue, apply, route, plan>>
  BY DEF HandleEvent, TypeOK
<1>2. /\ Within(raw, f) <=> x.file = f \/ Within(raw', f)
      /\ LastFits(raw, f, source[f]) => LastFits(raw', f, source[f])
      /\ LastFits(raw, f, source[f]) /\ x.file = f /\ ~Within(raw', f) => Fits(x.op, source[f])
      /\ x \in Items
  BY <1>1, Removing DEF HandleEvent
<1>3. PlannedFits(f)' <=> PlannedFits(f)
  BY <1>1, Downstream
<1>4. CASE events' = Append(events, x)
  <2>1. /\ Within(events', f) <=> Within(events, f) \/ x.file = f
        /\ x.file # f /\ LastFits(events, f, source[f]) => LastFits(events', f, source[f])
        /\ x.file = f /\ Fits(x.op, source[f]) => LastFits(events', f, source[f])
    BY <1>1, <1>2, <1>4, Appending
  <2>2. ChangeFits(f)'
    BY <1>1, <1>2, <1>3, <2>1 DEF ChangeFits, SentFits
  <2>3. Settled(f)' => Settled(f)
    BY <1>1, <1>2, <2>1 DEF Settled, InHand
  <2>4. QED
    BY <2>2, <2>3 DEF Forward
<1>5. CASE UNCHANGED events /\ x.file # f
  <2>1. SentFits(f)' <=> SentFits(f)
    BY <1>1, <1>5, Downstream
  <2>2. ChangeFits(f)'
    BY <1>1, <1>2, <1>5, <2>1 DEF ChangeFits
  <2>3. Settled(f)' => Settled(f)
    BY <1>1, <1>2, <1>5 DEF Settled, InHand
  <2>4. QED
    BY <2>2, <2>3 DEF Forward
<1>6. QED
  BY <1>4, <1>5 DEF HandleEvent, SendEvent

LEMMA PlanForward ==
  ASSUME TypeOK, OnItsWay, NEW f \in Files, ChangeFits(f), PlanNext
  PROVE  Forward(f)
<1> DEFINE x == Head(events)
<1>1. /\ events \in Seq(Items) /\ events # <<>> /\ events' = Tail(events) /\ ~InHand(plan, f)
      /\ UNCHANGED <<source, queue, apply, route, raw>>
  BY Empty DEF PlanNext, TypeOK, treeVars
<1>2. /\ Within(events, f) <=> x.file = f \/ Within(events', f)
      /\ LastFits(events, f, source[f]) => LastFits(events', f, source[f])
      /\ LastFits(events, f, source[f]) /\ x.file = f /\ ~Within(events', f) => Fits(x.op, source[f])
  BY <1>1, Removing
<1>3. RoutedFits(f)' <=> RoutedFits(f)
  BY <1>1, Downstream
<1>4. CASE plan' = [at |-> "send", item |-> x]
  <2>1. (InHand(plan, f)' <=> x.file = f) /\ plan'.item = x
    BY <1>4 DEF InHand
  <2>2. ChangeFits(f)'
    BY <1>1, <1>2, <1>3, <2>1 DEF ChangeFits, SentFits, PlannedFits
  <2>3. Settled(f)' => Settled(f)
    BY <1>1, <1>2, <2>1 DEF Settled, InHand
  <2>4. QED
    BY <2>2, <2>3 DEF Forward
<1>5. CASE UNCHANGED plan /\ Kind[x.file] = "skipped"
  <2>1. x.file = f => RoutedFits(f) /\ Kind[f] \notin Kinds
    BY <1>5, SkippedFits DEF Kinds
  <2>2. ChangeFits(f)'
    BY <1>1, <1>2, <1>3, <1>5, <2>1 DEF ChangeFits, SentFits, PlannedFits, InHand
  <2>3. Kind[f] \in Kinds /\ Settled(f)' => Settled(f)
    BY <1>1, <1>2, <1>5, <2>1 DEF Settled, InHand
  <2>4. QED
    BY <2>2, <2>3 DEF Forward
<1>6. QED
  BY <1>4, <1>5 DEF PlanNext

LEMMA HandOverForward ==
  ASSUME TypeOK, NEW f \in Files, ChangeFits(f), HandOver
  PROVE  Forward(f)
<1>1. /\ ~InHand(route, f) /\ ~InHand(plan, f)' /\ (InHand(route, f)' <=> InHand(plan, f))
      /\ route'.item = plan.item
      /\ UNCHANGED <<source, queue, apply, raw, events>>
  BY Empty DEF HandOver, treeVars, InHand
<1>2. QueuedFits(f)' <=> QueuedFits(f)
  BY <1>1, Downstream
<1>3. PlannedFits(f) => PlannedFits(f)'
  BY <1>1, <1>2 DEF PlannedFits, RoutedFits
<1>4. ChangeFits(f)'
  BY <1>1, <1>3 DEF ChangeFits, SentFits
<1>5. Settled(f)' => Settled(f)
  BY <1>1 DEF Settled, InHand
<1>6. QED
  BY <1>4, <1>5 DEF Forward

LEMMA RouteForward ==
  ASSUME TypeOK, OnItsWay, NEW f \in Files, ChangeFits(f), Route
  PROVE  Forward(f)
<1> DEFINE x == route.item
           k == Kind[x.file]
<1>1. /\ x \in Items /\ k \in Kinds /\ ~InHand(route, f)' /\ (InHand(route, f) <=> x.file = f)
      /\ UNCHANGED <<source, apply, raw, events, plan>>
      /\ queue \in [Kinds -> Seq(Items)] /\ queue' = [queue EXCEPT ![k] = Append(@, x)]
  BY Stages, Empty DEF Route, treeVars, InHand, OnItsWay, TypeOK
<1> HIDE DEF x, k
<1>2. /\ \A j \in Kinds \ {k} : queue'[j] = queue[j]
      /\ queue'[k] = Append(queue[k], x) /\ queue[k] \in Seq(Items)
  BY <1>1
<1>3. /\ Within(queue'[k], f) <=> Within(queue[k], f) \/ x.file = f
      /\ x.file # f /\ LastFits(queue[k], f, source[f]) => LastFits(queue'[k], f, source[f])
      /\ x.file = f /\ Fits(x.op, source[f]) => LastFits(queue'[k], f, source[f])
  BY <1>1, <1>2, Appending
<1>4. RoutedFits(f) => RoutedFits(f)'
  <2> SUFFICES ASSUME RoutedFits(f) PROVE QueuedFits(f)'
    BY <1>1 DEF RoutedFits
  <2> SUFFICES ASSUME NEW j \in Kinds
               PROVE  /\ LastFits(queue'[j], f, source[f])
                      /\ ~Within(queue'[j], f) => AppliedFits(j, f)'
    BY <1>1 DEF QueuedFits
  <2>1. AppliedFits(j, f)' <=> AppliedFits(j, f)
    BY <1>1 DEF AppliedFits, InHand
  <2>2. CASE x.file = f
    <3>1. Fits(x.op, source[f])
      BY <1>1, <2>2 DEF RoutedFits, x
    <3>2. CASE j = k
      BY <1>3, <2>2, <3>1, <3>2
    <3>3. CASE j # k
      <4>1. Kind[f] # j
        BY <2>2, <3>3 DEF k
      <4>2. QED
        BY <1>2, <2>1, <3>3, <4>1, OffItsWay DEF AppliedFits
    <3>4. QED
      BY <3>2, <3>3
  <2>3. CASE x.file # f
    <3>1. QueuedFits(f)
      BY <1>1, <2>3 DEF RoutedFits
    <3>2. QED
      BY <1>2, <1>3, <2>1, <2>3, <3>1 DEF QueuedFits
  <2>4. QED
    BY <2>2, <2>3
<1>5. ChangeFits(f)'
  BY <1>1, <1>4 DEF ChangeFits, SentFits, PlannedFits, InHand
<1>6. Settled(f)' => Settled(f)
  BY <1>1, <1>2, <1>3 DEF Settled, InHand
<1>7. QED
  BY <1>5, <1>6 DEF Forward

\* If what is with the appliers and in their channels still fits, so does the rest.
LEMMA Upstream ==
  ASSUME NEW f, UNCHANGED <<source, raw, events, plan, route>>, QueuedFits(f) => QueuedFits(f)'
  PROVE  ChangeFits(f) => ChangeFits(f)'
BY DEF ChangeFits, SentFits, PlannedFits, RoutedFits, InHand

LEMMA TakeForward ==
  ASSUME TypeOK, NEW f \in Files, NEW k \in Kinds, ChangeFits(f), Take(k)
  PROVE  Forward(f)
<1> DEFINE x == Head(queue[k])
<1>1. /\ queue[k] \in Seq(Items) /\ queue[k] # <<>> /\ ~InHand(apply[k], f)
      /\ queue' = [queue EXCEPT ![k] = Tail(@)]
      /\ apply' = [apply EXCEPT ![k] = [at |-> "work", item |-> x, read |-> 0]]
      /\ UNCHANGED <<source, raw, events, plan, route>>
  BY Empty DEF Take, Become, TypeOK, treeVars
<1>2. /\ \A j \in Kinds \ {k} : queue'[j] = queue[j] /\ apply'[j] = apply[j]
      /\ queue'[k] = Tail(queue[k])
      /\ apply'[k].item = x /\ apply'[k].at = "work"
  BY <1>1 DEF TypeOK
<1>3. /\ Within(queue[k], f) <=> x.file = f \/ Within(queue'[k], f)
      /\ LastFits(queue[k], f, source[f]) => LastFits(queue'[k], f, source[f])
      /\ LastFits(queue[k], f, source[f]) /\ x.file = f /\ ~Within(queue'[k], f) =>
           Fits(x.op, source[f])
  BY <1>1, <1>2, Removing
<1> HIDE DEF x
<1>4. QueuedFits(f) => QueuedFits(f)'
  <2> SUFFICES ASSUME QueuedFits(f), NEW j \in Kinds
               PROVE  /\ LastFits(queue'[j], f, source[f])
                      /\ ~Within(queue'[j], f) => AppliedFits(j, f)'
    BY <1>1 DEF QueuedFits
  <2>1. CASE j = k
    BY <1>1, <1>2, <1>3, <2>1 DEF QueuedFits, AppliedFits, InHand
  <2>2. CASE j # k
    BY <1>1, <1>2, <2>2 DEF QueuedFits, AppliedFits, InHand
  <2>3. QED
    BY <2>1, <2>2
<1>5. ChangeFits(f)'
  BY <1>1, <1>4, Upstream
<1>6. Settled(f)' => Settled(f)
  BY <1>1, <1>2, <1>3 DEF Settled, InHand
<1>7. QED
  BY <1>5, <1>6 DEF Forward

LEMMA CopyForward ==
  ASSUME TypeOK, NEW f \in Files, NEW k \in Kinds, ChangeFits(f), CopySource(k)
  PROVE  Forward(f)
<1>1. /\ \A j \in Kinds \ {k} : apply'[j] = apply[j]
      /\ apply'[k].item = apply[k].item /\ apply'[k].read = source[apply[k].item.file]
      /\ UNCHANGED <<source, raw, events, plan, route, queue>>
  BY DEF CopySource, Become, TypeOK, treeVars
<1>2. \A j \in Kinds : InHand(apply'[j], f) <=> InHand(apply[j], f)
  BY <1>1 DEF InHand
<1>3. QueuedFits(f) => QueuedFits(f)'
  <2> SUFFICES ASSUME NEW j \in Kinds, AppliedFits(j, f) PROVE AppliedFits(j, f)'
    BY <1>1 DEF QueuedFits
  <2>1. CASE j = k
    BY <1>1, <2>1 DEF AppliedFits, InHand
  <2>2. CASE j # k
    BY <1>1, <2>2 DEF AppliedFits, InHand
  <2>3. QED
    BY <2>1, <2>2
<1>4. ChangeFits(f)'
  BY <1>1, <1>3, Upstream
<1>5. Settled(f)' => Settled(f)
  BY <1>1, <1>2 DEF Settled, InHand
<1>6. QED
  BY <1>4, <1>5 DEF Forward

\* An applier with nothing in hand ends.
LEMMA LeaveForward ==
  ASSUME TypeOK, NEW f \in Files, NEW k \in Kinds, ChangeFits(f), ApplyEnds(k) \/ Abort(k)
  PROVE  Forward(f)
<1>1. /\ \A j \in Kinds \ {k} : apply'[j] = apply[j]
      /\ ~InHand(apply[k], f) /\ ~InHand(apply'[k], f)
      /\ UNCHANGED <<source, raw, events, plan, route, queue>>
  BY Empty DEF ApplyEnds, Abort, Become, TypeOK, treeVars
<1>2. QueuedFits(f) => QueuedFits(f)'
  <2> SUFFICES ASSUME NEW j \in Kinds, AppliedFits(j, f) PROVE AppliedFits(j, f)'
    BY <1>1 DEF QueuedFits
  <2>1. CASE j = k
    BY <1>1, <2>1 DEF AppliedFits, InHand
  <2>2. CASE j # k
    BY <1>1, <2>2 DEF AppliedFits, InHand
  <2>3. QED
    BY <2>1, <2>2
<1>3. ChangeFits(f)'
  BY <1>1, <1>2, Upstream
<1>4. Settled(f)' => Settled(f)
  BY <1>1 DEF Settled, InHand
<1>5. QED
  BY <1>3, <1>4 DEF Forward

\* The planner or the router ends, with nothing in hand.
LEMMA EndForward ==
  ASSUME TypeOK, NEW f \in Files, ChangeFits(f), PlanEnds \/ RouteEnds, ~cancelled
  PROVE  Forward(f)
<1>1. /\ InHand(plan, f)' <=> InHand(plan, f)
      /\ InHand(route, f)' <=> InHand(route, f)
      /\ InHand(plan, f)' => plan' = plan
      /\ InHand(route, f)' => route' = route
      /\ UNCHANGED <<source, raw, events, queue, apply>>
  BY Empty DEF PlanEnds, RouteEnds, InHand, treeVars
<1>2. QueuedFits(f)' <=> QueuedFits(f)
  BY <1>1, Downstream
<1>3. ChangeFits(f)'
  BY <1>1, <1>2 DEF ChangeFits, SentFits, PlannedFits, RoutedFits
<1>4. Settled(f)' => Settled(f)
  BY <1>1 DEF Settled, InHand
<1>5. QED
  BY <1>3, <1>4 DEF Forward

LEMMA MakeDirForward ==
  ASSUME TypeOK, NEW f \in Files, ChangeFits(f), MakeDir
  PROVE  Forward(f)
<1>1. /\ raw \in Seq(Items \cup {NewDir}) /\ raw' = Append(raw, NewDir) /\ NewDir.file # f
      /\ UNCHANGED <<source, queue, apply, route, plan, events>>
  BY Stages DEF MakeDir, TypeOK, stageVars
<1>2. /\ Within(raw', f) <=> Within(raw, f)
      /\ LastFits(raw, f, source[f]) => LastFits(raw', f, source[f])
  <2>1. NewDir \in Items \cup {NewDir}
    OBVIOUS
  <2>2. QED
    BY <1>1, <2>1, Appending
<1>3. ChangeFits(f)'
  BY <1>1, <1>2, Downstream DEF ChangeFits
<1>4. Settled(f)' => Settled(f)
  BY <1>1, <1>2 DEF Settled, InHand
<1>5. QED
  BY <1>3, <1>4 DEF Forward

\* A file that changed is under way, with what was done to it last; of the others
\* nothing changed.
LEMMA ChangeForward ==
  ASSUME TypeOK, NEW f \in Files, NEW g \in Files, ChangeFits(g), ChangeFile(f), g \notin missed'
  PROVE  /\ ChangeFits(g)'
         /\ g = f => ~Settled(g)'
         /\ g # f => source'[g] = source[g] /\ Forward(g)
<1>1. PICK content \in Contents, op \in Ops : Change(f, content, op) /\ Fits(op, content)
  <2>1. source[f] \in 0..2
    BY DEF TypeOK, Contents
  <2>2. 1 \in Contents /\ 0 \in Contents /\ (source[f] # 0 => 3 - source[f] \in Contents /\ 3 - source[f] # 0)
    BY <2>1 DEF Contents
  <2>3. QED
    BY <2>2 DEF ChangeFile, Ops, Fits
<1> DEFINE x == [file |-> f, op |-> op]
<1>2. /\ x \in Items /\ x.file = f /\ x.op = op
      /\ raw \in Seq(Items \cup {NewDir})
      /\ source' = [source EXCEPT ![f] = content]
      /\ raw' = IF Watched(f) THEN Append(raw, x) ELSE raw
      /\ ~Watched(f) => f \in missed'
      /\ UNCHANGED <<queue, apply, route, plan, events>>
  BY <1>1 DEF Change, Items, TypeOK, stageVars
<1> HIDE DEF x
<1>3. /\ Within(Append(raw, x), g) <=> Within(raw, g) \/ x.file = g
      /\ x.file # g /\ LastFits(raw, g, source'[g]) => LastFits(Append(raw, x), g, source'[g])
      /\ x.file = g /\ Fits(x.op, source'[g]) => LastFits(Append(raw, x), g, source'[g])
  <2>1. x \in Items \cup {NewDir}
    BY <1>2
  <2>2. QED
    BY <1>2, <2>1, Appending
<1>4. CASE g = f
  <2>1. source'[g] = content /\ raw' = Append(raw, x)
    BY <1>2, <1>4 DEF TypeOK
  <2>2. Within(raw', g) /\ LastFits(raw', g, source'[g])
    BY <1>1, <1>2, <1>3, <1>4, <2>1
  <2>3. ChangeFits(g)' /\ ~Settled(g)'
    BY <2>2 DEF ChangeFits, Settled
  <2>4. QED
    BY <1>4, <2>3
<1>5. CASE g # f
  <2>1. source'[g] = source[g]
    BY <1>2, <1>5 DEF TypeOK
  <2>2. /\ Within(raw', g) <=> Within(raw, g)
        /\ LastFits(raw, g, source[g]) => LastFits(raw', g, source[g])
    BY <1>2, <1>3, <1>5, <2>1
  <2>3. QueuedFits(g)' <=> QueuedFits(g)
    BY <1>2, <2>1 DEF QueuedFits, AppliedFits, InHand
  <2>4. SentFits(g)' <=> SentFits(g)
    BY <1>2, <2>1, <2>3 DEF SentFits, PlannedFits, RoutedFits, InHand
  <2>5. ChangeFits(g)'
    BY <2>1, <2>2, <2>4 DEF ChangeFits
  <2>6. Settled(g)' => Settled(g)
    BY <1>2, <2>2 DEF Settled, InHand
  <2>7. QED
    BY <1>5, <2>1, <2>5, <2>6 DEF Forward
<1>6. QED
  BY <1>4, <1>5

\* The applier is done with its item.  If nothing else is under way for that file,
\* the item was its last change.
LEMMA FinishForward ==
  ASSUME TypeOK, NEW f \in Files, NEW k \in Kinds, ChangeFits(f),
         UNCHANGED <<source, raw, events, plan, route, queue>>, Become(k, Idle)
  PROVE  /\ ChangeFits(f)'
         /\ ~InHand(apply[k], f) => Forward(f)
         /\ Settled(f)' => AppliedFits(k, f)
<1>1. /\ \A j \in Kinds \ {k} : apply'[j] = apply[j]
      /\ ~InHand(apply'[k], f)
  BY Empty DEF Become, TypeOK
<1>2. QueuedFits(f) => QueuedFits(f)'
  <2> SUFFICES ASSUME NEW j \in Kinds, AppliedFits(j, f) PROVE AppliedFits(j, f)'
    BY DEF QueuedFits
  <2>1. CASE j = k
    BY <1>1, <2>1 DEF AppliedFits, InHand
  <2>2. CASE j # k
    BY <1>1, <2>2 DEF AppliedFits, InHand
  <2>3. QED
    BY <2>1, <2>2
<1>3. ChangeFits(f)'
  BY <1>2, Upstream
<1>4. ~InHand(apply[k], f) => (Settled(f)' => Settled(f))
  BY <1>1 DEF Settled, InHand
<1>5. Settled(f)' => AppliedFits(k, f)
  <2> SUFFICES ASSUME Settled(f)' PROVE AppliedFits(k, f)
    OBVIOUS
  <2>1. /\ ~Within(raw, f) /\ ~Within(events, f) /\ ~InHand(plan, f) /\ ~InHand(route, f)
        /\ ~Within(queue[k], f)
    BY DEF Settled, InHand
  <2>2. QED
    BY <2>1 DEF ChangeFits, SentFits, PlannedFits, RoutedFits, QueuedFits
<1>6. QED
  BY <1>3, <1>4, <1>5 DEF Forward

-------------------------------------------------------------------------------
(***************************************************************************)
(* An item does not leave the way of its kind.                             *)
(***************************************************************************)
LEMMA OnItsWayKept == TypeOK /\ OnItsWay /\ [Next]_vars => OnItsWay'
<1> SUFFICES ASSUME TypeOK, OnItsWay, [Next]_vars PROVE OnItsWay'
  OBVIOUS
<1>1. CASE UNCHANGED <<plan, route, queue, apply>>
  BY <1>1 DEF OnItsWay
<1>2. CASE PlanNext
  <2>1. plan' = plan \/ (plan'.item.file \in Files /\ Kind[plan'.item.file] # "skipped")
    <3>1. Head(events) \in Items
      BY <1>2, Removing DEF PlanNext, TypeOK
    <3>2. QED
      BY <1>2, <3>1, Stages DEF PlanNext
  <2>2. plan'.at = "send" => Kind[plan'.item.file] \in Kinds
    BY <2>1, PipelineAssumption DEF OnItsWay, Kinds
  <2>3. QED
    BY <1>2, <2>2 DEF PlanNext, OnItsWay
<1>3. CASE PlanEnds \/ RouteEnds \/ HandOver
  BY <1>3 DEF PlanEnds, RouteEnds, HandOver, OnItsWay
<1>4. CASE Route
  <2> DEFINE k == Kind[route.item.file]
  <2>1. /\ k \in Kinds /\ queue \in [Kinds -> Seq(Items)] /\ route.item \in Items
        /\ queue' = [queue EXCEPT ![k] = Append(@, route.item)]
        /\ route'.at = "wait" /\ UNCHANGED <<plan, apply>>
    BY <1>4, Stages DEF Route, OnItsWay, TypeOK
  <2>2. \A i \in 1..Len(queue'[k]) : Kind[queue'[k][i].file] = k
    <3>1. /\ queue'[k] = Append(queue[k], route.item) /\ queue[k] \in Seq(Items)
      BY <2>1
    <3>2. \A i \in 1..Len(queue'[k]) :
            (i \in 1..Len(queue[k]) /\ queue'[k][i] = queue[k][i]) \/ queue'[k][i] = route.item
      BY <2>1, <3>1
    <3>3. QED
      BY <2>1, <3>2 DEF OnItsWay
  <2>3. \A j \in Kinds \ {k} : queue'[j] = queue[j]
    BY <2>1
  <2> HIDE DEF k
  <2>4. QED
    BY <2>1, <2>2, <2>3 DEF OnItsWay
<1>5. ASSUME NEW k \in Kinds, Take(k)
      PROVE  OnItsWay'
  <2>1. /\ queue[k] \in Seq(Items) /\ queue[k] # <<>>
        /\ queue' = [queue EXCEPT ![k] = Tail(@)]
        /\ apply' = [apply EXCEPT ![k] = [at |-> "work", item |-> Head(queue[k]), read |-> 0]]
        /\ UNCHANGED <<plan, route>>
    BY <1>5 DEF Take, Become, TypeOK
  <2>2. /\ \A j \in Kinds \ {k} : queue'[j] = queue[j] /\ apply'[j] = apply[j]
        /\ queue'[k] = Tail(queue[k]) /\ apply'[k].at = "work" /\ apply'[k].item = queue[k][1]
    BY <2>1 DEF TypeOK
  <2>3. \A i \in 1..Len(queue[k]) : Kind[queue[k][i].file] = k
    BY DEF OnItsWay
  <2>4. \A i \in 1..Len(queue'[k]) : Kind[queue'[k][i].file] = k
    <3>1. ASSUME NEW q \in Seq(Items), q # <<>>
          PROVE  \A i \in 1..Len(Tail(q)) : i + 1 \in 1..Len(q) /\ Tail(q)[i] = q[i + 1]
      OBVIOUS
    <3>2. \A i \in 1..Len(queue'[k]) : i + 1 \in 1..Len(queue[k]) /\ queue'[k][i] = queue[k][i + 1]
      BY <2>1, <2>2, <3>1
    <3>3. QED
      BY <2>3, <3>2
  <2>5. Kind[apply'[k].item.file] = k
    <3>1. 1 \in 1..Len(queue[k])
      BY <2>1
    <3>2. QED
      BY <2>2, <2>3, <3>1
  <2>6. QED
    BY <2>1, <2>2, <2>4, <2>5 DEF OnItsWay
<1>6. ASSUME NEW k \in Kinds, CopySource(k)
      PROVE  OnItsWay'
  <2>1. /\ \A j \in Kinds \ {k} : apply'[j] = apply[j]
        /\ apply'[k].item = apply[k].item /\ k = "meta" /\ apply[k].item.op # "delete"
        /\ apply[k].at = "work"
        /\ UNCHANGED <<plan, route, queue>>
    BY <1>6 DEF CopySource, Become, TypeOK
  <2>2. QED
    BY <2>1 DEF OnItsWay
<1>7. ASSUME NEW k \in Kinds,
             \/ SourceGone(k) \/ Rename(k) \/ WriteStrm(k) \/ Remove(k) \/ ApplyFails(k)
             \/ ApplyEnds(k) \/ Abort(k)
      PROVE  OnItsWay'
  <2>1. /\ \A j \in Kinds \ {k} : apply'[j] = apply[j]
        /\ apply'[k].at \notin {"work", "rename"}
        /\ UNCHANGED <<plan, route, queue>>
    BY <1>7 DEF SourceGone, Rename, WriteStrm, Remove, ApplyFails, ApplyEnds, Abort,
                Become, Idle, TypeOK
  <2>2. QED
    BY <2>1 DEF OnItsWay
<1>8. CASE (\E f \in Files : ChangeFile(f)) \/ MakeDir \/ MonitorStep \/ MonitorEnds \/ Cancel
  BY <1>1, <1>8 DEF ChangeFile, Change, MakeDir, MonitorStep, WatchDir, HandleEvent, MonitorEnds,
                    Cancel, stageVars
<1>9. QED
  BY <1>1, <1>2, <1>3, <1>4, <1>5, <1>6, <1>7, <1>8
     DEF Next, PlanStep, RouteStep, ApplyStep, vars

-------------------------------------------------------------------------------
(***************************************************************************)
(* Targets.                                                                *)
(***************************************************************************)
LEMMA OwnersAre ==
  ASSUME NEW t \in Targets, NEW f
  PROVE  /\ f \in Owners(t) <=> f \in Files /\ TargetOf[f] = t
         /\ f \in Owners(t) => Kind[f] \in Kinds \/ Kind[f] = "skipped"
BY PipelineAssumption DEF Owners

LEMMA MirroredAlone ==
  ASSUME NEW t \in Targets, NEW f \in Owners(t), Owners(t) = {f}
  PROVE  (Mirrored(t) <=> Mirrors(t, f)) /\ (Mirrored(t)' <=> Mirrors(t, f)')
<1>1. Mirrored(t) <=> Mirrors(t, f)
  BY DEF Mirrored
<1>2. Mirrored(t)' <=> Mirrors(t, f)'
  BY DEF Mirrored, Owners
<1>3. QED
  BY <1>1, <1>2

\* Nothing that matters to a target changed, but for items that moved on.
LEMMA TargetForward ==
  ASSUME NEW t \in Targets, TargetFits(t), target'[t] = target[t],
         \A f \in Owners(t) : source'[f] = source[f] /\ Forward(f)
  PROVE  TargetFits(t)'
<1>1. ASSUME NEW f \in Owners(t), Owners(t) = {f}, Settled(f)'
      PROVE  Mirrored(t)'
  <2>1. CASE Kind[f] \in Kinds
    <3>1. Settled(f)
      BY <1>1, <2>1 DEF Forward
    <3>2. Mirrors(t, f)
      BY <1>1, <3>1, MirroredAlone DEF TargetFits
    <3>3. QED
      BY <1>1, <3>2, MirroredAlone DEF Mirrors
  <2>2. CASE Kind[f] = "skipped"
    BY <1>1, <2>2, MirroredAlone DEF Mirrors
  <2>3. QED
    BY <2>1, <2>2, OwnersAre
<1>2. ASSUME target'[t] # 0
      PROVE  Justified(t)'
  <2>1. PICK g \in Owners(t) : Kind[g] \in Kinds /\ (source[g] # 0 \/ ~Settled(g))
    BY <1>2 DEF TargetFits, Justified
  <2>2. source'[g] # 0 \/ ~Settled(g)'
    BY <2>1 DEF Forward
  <2>3. QED
    BY <2>1, <2>2 DEF Justified, Owners
<1>3. \A f \in Owners(t) : Owners(t) = {f} /\ Settled(f)' => Mirrored(t)'
  BY <1>1
<1>4. QED
  BY <1>2, <1>3 DEF TargetFits, Owners

\* A file that changed is under way, and the others are as they were.
LEMMA TargetChange ==
  ASSUME NEW t \in Targets, TargetFits(t), target'[t] = target[t],
         NEW f \in Owners(t), ~Settled(f)',
         \A g \in Owners(t) : g # f => source'[g] = source[g] /\ Forward(g)
  PROVE  TargetFits(t)'
<1>1. \A g \in Owners(t) : Owners(t) = {g} /\ Settled(g)' => Mirrored(t)'
  OBVIOUS
<1>2. ASSUME target'[t] # 0
      PROVE  Justified(t)'
  <2>1. PICK g \in Owners(t) : Kind[g] \in Kinds /\ (source[g] # 0 \/ ~Settled(g))
    BY <1>2 DEF TargetFits, Justified
  <2>2. source'[g] # 0 \/ ~Settled(g)'
    BY <2>1 DEF Forward
  <2>3. QED
    BY <2>1, <2>2 DEF Justified, Owners
<1>3. QED
  BY <1>1, <1>2 DEF TargetFits, Owners

\* An item is applied: its file's target is what the item says, and the item says
\* what the source is if it is the last one.
LEMMA TargetApply ==
  ASSUME TypeOK, OnItsWay, NEW k \in Kinds, NEW t \in Targets,
         Rename(k) \/ WriteStrm(k) \/ Remove(k),
         \A f \in Owners(t) : ChangeFits(f), TargetFits(t)
  PROVE  TargetFits(t)'
<1>0. apply[k].at \in {"work", "rename"}
  BY DEF Rename, WriteStrm, Remove
<1> PICK f0 \in Files, op \in Ops : f0 = apply[k].item.file /\ op = apply[k].item.op
  BY <1>0, Stages
<1>1. /\ Kind[f0] = k /\ TargetOf[f0] \in Targets
      /\ UNCHANGED <<source, raw, events, plan, route, queue>> /\ Become(k, Idle)
  BY <1>0 DEF OnItsWay, Targets, Rename, WriteStrm, Remove, treeVars
<1>2. target' = [target EXCEPT ![TargetOf[f0]] = IF apply[k].at = "rename" THEN apply[k].read
                                                  ELSE IF op = "delete" THEN 0 ELSE 1]
  BY DEF Rename, WriteStrm, Remove
<1>3. apply[k].at = "rename" => k = "meta" /\ op # "delete"
  BY DEF OnItsWay
<1>4. apply[k].at # "rename" => k = "strm" \/ op = "delete"
  BY DEF Rename, WriteStrm, Remove
<1>5. \A f \in Owners(t) : f \in Files /\ TargetOf[f] = t
  BY OwnersAre
<1>6. /\ \A f \in Owners(t) : InHand(apply[k], f) <=> f = f0
      /\ AppliedFits(k, f0) => /\ op = "delete" <=> source[f0] = 0
                               /\ apply[k].at = "rename" => apply[k].read = source[f0]
  BY DEF AppliedFits, Fits, InHand
<1>7. CASE TargetOf[f0] # t
  <2>1. target'[t] = target[t]
    BY <1>2, <1>7 DEF TypeOK
  <2>2. \A f \in Owners(t) : Forward(f)
    BY <1>1, <1>5, <1>6, <1>7, FinishForward
  <2>3. QED
    BY <1>1, <2>1, <2>2, TargetForward
<1>8. CASE TargetOf[f0] = t
  <2>1. f0 \in Owners(t)
    BY <1>1, <1>8, OwnersAre
  <2>2. target'[t] = IF apply[k].at = "rename" THEN apply[k].read ELSE IF op = "delete" THEN 0 ELSE 1
    BY <1>2, <1>8 DEF TypeOK
  <2>3. ASSUME Settled(f0)'
        PROVE  /\ op = "delete" <=> source[f0] = 0
               /\ apply[k].at = "rename" => apply[k].read = source[f0]
    <3>1. AppliedFits(k, f0)
      BY <1>1, <2>1, <2>3, FinishForward
    <3>2. QED
      BY <1>6, <3>1
  <2>4. ASSUME NEW f \in Owners(t), Owners(t) = {f}, Settled(f)'
        PROVE  Mirrored(t)'
    <3>1. f = f0
      BY <2>1, <2>4
    <3>2. (Kind[f] = "strm" => (target'[t] = 0 <=> source[f] = 0))
          /\ (Kind[f] = "meta" => target'[t] = source[f])
      BY <1>1, <1>3, <1>4, <2>2, <2>3, <2>4, <3>1
    <3>3. QED
      BY <1>1, <2>4, <3>2, MirroredAlone DEF Mirrors
  <2>5. ASSUME target'[t] # 0
        PROVE  Justified(t)'
    <3>1. source[f0] # 0 \/ ~Settled(f0)'
      BY <1>3, <2>2, <2>3, <2>5
    <3>2. QED
      BY <1>1, <2>1, <3>1 DEF Justified, Owners
  <2>6. \A f \in Owners(t) : Owners(t) = {f} /\ Settled(f)' => Mirrored(t)'
    BY <2>4
  <2>7. QED
    BY <2>5, <2>6 DEF TargetFits, Owners
<1>9. QED
  BY <1>7, <1>8

-------------------------------------------------------------------------------
(***************************************************************************)
(* The inductive invariant.                                                *)
(***************************************************************************)
LEMMA InitMirror == Init => MirrorInv
<1> SUFFICES ASSUME Init PROVE MirrorInv
  OBVIOUS
<1>1. TypeOK
  BY InitTypes
<1>2. /\ raw = <<>> /\ events = <<>> /\ plan.at = "wait" /\ route.at = "wait"
      /\ \A k \in Kinds : queue[k] = <<>> /\ apply[k].at = "wait"
  BY DEF Init
<1>3. OnItsWay
  BY <1>2 DEF OnItsWay
<1>4. ASSUME NEW f \in Files PROVE ChangeFits(f)
  <2>1. /\ ~InHand(plan, f) /\ ~InHand(route, f)
        /\ \A k \in Kinds : ~InHand(apply[k], f)
    BY <1>1, <1>2, Empty
  <2>2. /\ LastFits(raw, f, source[f]) /\ LastFits(events, f, source[f])
        /\ \A k \in Kinds : LastFits(queue[k], f, source[f])
    BY <1>2, EmptyFits
  <2>3. QED
    BY <2>1, <2>2 DEF ChangeFits, SentFits, PlannedFits, RoutedFits, QueuedFits, AppliedFits
<1>5. ASSUME NEW t \in Targets PROVE TargetFits(t)
  <2>1. /\ target[t] = IF \E f \in Owners(t) : source[f] = 1 /\ Kind[f] # "skipped" THEN 1 ELSE 0
        /\ \A f \in Owners(t) : source[f] \in {0, 1}
    BY OwnersAre DEF Init
  <2>2. ASSUME NEW f \in Owners(t), Owners(t) = {f}
        PROVE  Mirrored(t)
    <3>1. Mirrors(t, f)
      BY <2>1, <2>2 DEF Mirrors
    <3>2. QED
      BY <2>2, <3>1, MirroredAlone
  <2>3. target[t] # 0 => Justified(t)
    BY <2>1, OwnersAre DEF Justified
  <2>4. QED
    BY <2>2, <2>3 DEF TargetFits
<1>6. QED
  BY <1>1, <1>3, <1>4, <1>5 DEF MirrorInv

\* What is spared was spared before: goroutines do not come back, and histories grow.
LEMMA SparedBefore ==
  ASSUME TypeOK, [Next]_vars, NEW f, Spared(f)'
  PROVE  Spared(f) /\ ~cancelled /\ ~cancelled' /\ f \notin excused' \cup missed' /\ ~MonitorEnds /\ ~Cancel
<1>1. ~MonitorEnds /\ ~Cancel /\ ~cancelled' /\ f \notin excused' \cup missed'
  BY DEF Spared, MonitorEnds, Cancel
<1>2. monitor = "on" /\ ~cancelled /\ excused \subseteq excused' /\ missed \subseteq missed'
  <2>1. CASE \E g \in Files : ChangeFile(g)
    BY <2>1 DEF Spared, ChangeFile, Change, stageVars, appliedVars
  <2>2. CASE MakeDir \/ WatchDir \/ HandleEvent
    BY <2>2 DEF Spared, MakeDir, WatchDir, HandleEvent, SendEvent, stageVars, appliedVars
  <2>3. CASE PlanStep \/ RouteStep
    BY <2>3 DEF Spared, PlanStep, PlanNext, PlanEnds, RouteStep, HandOver, Route, RouteEnds,
                treeVars, appliedVars
  <2>4. ASSUME NEW k \in Kinds, ApplyStep(k) \/ Abort(k)
        PROVE  monitor = "on" /\ ~cancelled /\ excused \subseteq excused' /\ missed \subseteq missed'
    BY <2>4 DEF Spared, ApplyStep, Take, CopySource, SourceGone, Rename, WriteStrm, Remove, ApplyFails,
                ApplyEnds, Abort, treeVars, appliedVars
  <2>5. CASE UNCHANGED vars
    BY <2>5 DEF Spared, vars
  <2>6. QED
    BY <1>1, <2>1, <2>2, <2>3, <2>4, <2>5 DEF Next, MonitorStep
<1>3. QED
  BY <1>1, <1>2 DEF Spared

\* A step of a stage that has nothing to do with the targets.
MovesOn ==
  \/ MakeDir \/ WatchDir \/ HandleEvent \/ PlanStep \/ RouteStep
  \/ \E k \in Kinds : Take(k) \/ CopySource(k) \/ SourceGone(k) \/ ApplyEnds(k) \/ Abort(k)

LEMMA MovesForward ==
  ASSUME TypeOK, OnItsWay, MovesOn, ~cancelled,
         NEW f \in Files, ChangeFits(f), f \notin excused'
  PROVE  Forward(f)
<1>1. CASE MakeDir \/ WatchDir \/ HandleEvent
  BY <1>1, MakeDirForward, WatchForward, EventForward
<1>2. CASE PlanStep \/ RouteStep
  BY <1>2, PlanForward, HandOverForward, RouteForward, EndForward DEF PlanStep, RouteStep
<1>3. ASSUME NEW k \in Kinds, Take(k) \/ CopySource(k) \/ ApplyEnds(k) \/ Abort(k)
      PROVE  Forward(f)
  BY <1>3, TakeForward, CopyForward, LeaveForward
<1>4. ASSUME NEW k \in Kinds, SourceGone(k)
      PROVE  Forward(f)
  <2>1. /\ Become(k, Idle) /\ UNCHANGED <<source, raw, events, plan, route, queue>>
        /\ apply[k].item.op # "delete" /\ source[apply[k].item.file] = 0
    BY <1>4 DEF SourceGone, treeVars
  <2>2. InHand(apply[k], f) => ~AppliedFits(k, f)
    BY <2>1 DEF AppliedFits, Fits, InHand
  <2>3. QED
    BY <2>1, <2>2, FinishForward DEF Forward
<1>5. QED
  BY <1>1, <1>2, <1>3, <1>4 DEF MovesOn

LEMMA MovesStay == MovesOn => UNCHANGED <<source, target>>
BY DEF MovesOn, MakeDir, WatchDir, HandleEvent, PlanStep, PlanNext, PlanEnds, RouteStep, HandOver,
       Route, RouteEnds, Take, CopySource, SourceGone, ApplyEnds, Abort, treeVars, appliedVars

\* An item failed: its file is excused, and the target it was for.
LEMMA FailsForward ==
  ASSUME TypeOK, NEW k \in Kinds, ApplyFails(k), NEW f \in Files, ChangeFits(f), f \notin excused'
  PROVE  Forward(f) /\ source' = source /\ \A t \in Targets : TargetOf[f] = t =>
           (target'[t] = target[t] \/ \E g \in excused' : TargetOf[g] = t)
<1>1. /\ Become(k, Idle) /\ UNCHANGED <<source, raw, events, plan, route, queue>>
      /\ apply[k].item.file \in excused'
      /\ target' = target \/ target' = [target EXCEPT ![TargetOf[apply[k].item.file]] = 2]
  BY DEF ApplyFails, treeVars
<1>2. ~InHand(apply[k], f)
  BY <1>1 DEF InHand
<1>3. Forward(f)
  BY <1>1, <1>2, FinishForward
<1>4. QED
  BY <1>1, <1>3 DEF TypeOK

LEMMA NextMirror == MirrorInv /\ [Next]_vars => MirrorInv'
<1> SUFFICES ASSUME MirrorInv, [Next]_vars PROVE MirrorInv'
  OBVIOUS
<1> USE DEF MirrorInv
<1>1. TypeOK' /\ OnItsWay'
  BY NextTypes, OnItsWayKept
<1>2. ASSUME NEW f \in Files, Spared(f)'
      PROVE  ChangeFits(f)'
  <2>1. ChangeFits(f) /\ ~cancelled /\ f \notin excused' /\ f \notin missed' /\ ~MonitorEnds /\ ~Cancel
    BY <1>2, SparedBefore
  <2>2. CASE MovesOn
    BY <2>1, <2>2, MovesForward DEF Forward
  <2>3. ASSUME NEW g \in Files, ChangeFile(g)
        PROVE  ChangeFits(f)'
    BY <2>1, <2>3, ChangeForward
  <2>4. ASSUME NEW k \in Kinds, Rename(k) \/ WriteStrm(k) \/ Remove(k) \/ ApplyFails(k)
        PROVE  ChangeFits(f)'
    <3>1. Become(k, Idle) /\ UNCHANGED <<source, raw, events, plan, route, queue>>
      BY <2>4 DEF Rename, WriteStrm, Remove, ApplyFails, treeVars
    <3>2. QED
      BY <2>1, <3>1, FinishForward
  <2>5. CASE UNCHANGED vars
    <3>1. QueuedFits(f)' <=> QueuedFits(f)
      BY <2>5, Downstream DEF vars
    <3>2. QED
      BY <2>1, <2>5, <3>1, Upstream DEF vars
  <2>6. QED
    BY <2>1, <2>2, <2>3, <2>4, <2>5 DEF Next, MonitorStep, ApplyStep, MovesOn
<1>3. ASSUME NEW t \in Targets, \A f \in Owners(t) : Spared(f)', Owners(t) # {}
      PROVE  TargetFits(t)'
  <2>1. /\ \A f \in Owners(t) : f \in Files /\ TargetOf[f] = t
        /\ \A f \in Files : TargetOf[f] = t => f \in Owners(t)
    BY OwnersAre
  <2>2. /\ ~cancelled /\ ~MonitorEnds /\ ~Cancel
        /\ \A f \in Owners(t) : Spared(f) /\ ChangeFits(f) /\ f \notin excused' /\ f \notin missed'
    BY <1>3, <2>1, SparedBefore
  <2>3. TargetFits(t)
    BY <2>2
  <2>4. CASE MovesOn
    <3>1. source' = source /\ target' = target
      BY <2>4, MovesStay
    <3>2. \A f \in Owners(t) : Forward(f)
      BY <2>1, <2>2, <2>4, MovesForward
    <3>3. QED
      BY <2>3, <3>1, <3>2, TargetForward
  <2>5. ASSUME NEW f \in Files, ChangeFile(f)
        PROVE  TargetFits(t)'
    <3>1. target' = target
      BY <2>5 DEF ChangeFile, Change, appliedVars
    <3>2. \A g \in Owners(t) : /\ g = f => ~Settled(g)'
                               /\ g # f => source'[g] = source[g] /\ Forward(g)
      BY <2>1, <2>2, <2>5, ChangeForward
    <3>3. CASE f \in Owners(t)
      BY <2>3, <3>1, <3>2, <3>3, TargetChange
    <3>4. CASE f \notin Owners(t)
      BY <2>3, <3>1, <3>2, <3>4, TargetForward
    <3>5. QED
      BY <3>3, <3>4
  <2>6. ASSUME NEW k \in Kinds, Rename(k) \/ WriteStrm(k) \/ Remove(k)
        PROVE  TargetFits(t)'
    BY <2>2, <2>3, <2>6, TargetApply
  <2>7. ASSUME NEW k \in Kinds, ApplyFails(k)
        PROVE  TargetFits(t)'
    <3>1. \A f \in Owners(t) : Forward(f) /\ source' = source
      BY <2>1, <2>2, <2>7, FailsForward
    <3>2. target'[t] = target[t]
      <4>1. \A g \in excused' : TargetOf[g] # t
        BY <1>1, <2>1, <2>2 DEF TypeOK
      <4>2. QED
        BY <1>3, <2>1, <2>2, <2>7, <4>1, FailsForward
    <3>3. QED
      BY <2>3, <3>1, <3>2, TargetForward
  <2>8. CASE UNCHANGED vars
    <3>1. ASSUME NEW f \in Owners(t) PROVE Forward(f)
      <4>1. QueuedFits(f)' <=> QueuedFits(f)
        BY <2>8, Downstream DEF vars
      <4>2. ChangeFits(f)'
        BY <2>2, <2>8, <4>1, Upstream DEF vars
      <4>3. Settled(f)' <=> Settled(f)
        BY <2>8 DEF vars, Settled, InHand
      <4>4. QED
        BY <4>2, <4>3 DEF Forward
    <3>2. QED
      BY <2>3, <2>8, <3>1, TargetForward DEF vars
  <2>9. QED
    BY <2>2, <2>4, <2>5, <2>6, <2>7, <2>8 DEF Next, MonitorStep, ApplyStep, MovesOn
<1>4. \A t \in Targets : Owners(t) # {}
  BY DEF Targets, Owners
<1>5. QED
  BY <1>1, <1>2, <1>3, <1>4 DEF Owners

-------------------------------------------------------------------------------
(***************************************************************************)
(* The mirror.                                                             *)
(***************************************************************************)
LEMMA MirrorSettles == MirrorInv => SettledIsMirrored
<1> SUFFICES ASSUME MirrorInv, NEW t \in Targets, monitor = "on", ~cancelled,
                    \A f \in Owners(t) : Settled(f) /\ f \notin excused \cup missed
             PROVE  Mirrored(t)
  BY DEF SettledIsMirrored
<1>1. TargetFits(t)
  BY DEF MirrorInv, Spared
<1>2. CASE \E f \in Owners(t) : Owners(t) = {f}
  BY <1>1, <1>2 DEF TargetFits
<1>3. CASE ~\E f \in Owners(t) : Owners(t) = {f}
  <2>1. target[t] # 0 => \E g \in Owners(t) : source[g] # 0
    BY <1>1 DEF TargetFits, Justified
  <2>2. QED
    BY <1>3, <2>1 DEF Mirrored
<1>4. QED
  BY <1>2, <1>3

\* Of each file whose changes all came through, the change furthest from its target
\* says whether the file is there; its target is justified, and mirrors it if
\* nothing is under way.
THEOREM MirrorInvariant == Spec => []MirrorInv
BY InitMirror, NextMirror, PTL DEF Spec

\* While the pipeline runs, a target none of whose files has an event under way, nor
\* lost one, mirrors them: a .strm or copy is there, and current, exactly if its file
\* is, and one that several files share does not outlive the last of them.
THEOREM SettledIsMirroredHolds == Spec => []SettledIsMirrored
BY MirrorInvariant, MirrorSettles, PTL

-------------------------------------------------------------------------------
(***************************************************************************)
(* The end.                                                                *)
(***************************************************************************)
LEMMA InitEnds == Init => EndsInOrder
BY DEF Init, EndsInOrder

\* A context that is done stays so.
LEMMA StaysCancelled == cancelled /\ [Next]_vars => cancelled'
<1> SUFFICES ASSUME cancelled, [Next]_vars PROVE cancelled'
  OBVIOUS
<1>1. CASE (\E f \in Files : ChangeFile(f)) \/ MakeDir \/ MonitorStep \/ MonitorEnds \/ Cancel
  BY <1>1 DEF ChangeFile, Change, MakeDir, MonitorStep, WatchDir, HandleEvent, MonitorEnds, Cancel
<1>2. CASE PlanStep \/ RouteStep
  BY <1>2 DEF PlanStep, PlanNext, PlanEnds, RouteStep, HandOver, Route, RouteEnds
<1>3. ASSUME NEW k \in Kinds, ApplyStep(k) \/ Abort(k)
      PROVE  cancelled'
  BY <1>3 DEF ApplyStep, Take, CopySource, SourceGone, Rename, WriteStrm, Remove, ApplyFails,
              ApplyEnds, Abort
<1>4. QED
  BY <1>1, <1>2, <1>3 DEF Next, vars

LEMMA NextEnds == TypeOK /\ EndsInOrder /\ [Next]_vars => EndsInOrder'
<1> SUFFICES ASSUME TypeOK, EndsInOrder, [Next]_vars, ~cancelled', ~cancelled
             PROVE  EndsInOrder'
  BY StaysCancelled DEF EndsInOrder
<1>1. CASE UNCHANGED stageVars
  BY <1>1 DEF EndsInOrder, stageVars
<1>2. CASE HandleEvent \/ MonitorEnds
  BY <1>2 DEF HandleEvent, SendEvent, MonitorEnds, EndsInOrder
<1>3. CASE PlanStep \/ HandOver \/ RouteEnds
  BY <1>3 DEF PlanStep, PlanNext, PlanEnds, HandOver, RouteEnds, EndsInOrder
<1>4. CASE Route
  <2>1. route.at = "send" /\ route'.at = "wait" /\ UNCHANGED <<monitor, events, plan, apply>>
    BY <1>4 DEF Route
  <2>2. QED
    BY <2>1 DEF EndsInOrder
<1>5. ASSUME NEW k \in Kinds, Take(k)
      PROVE  EndsInOrder'
  <2>1. /\ \A j \in Kinds \ {k} : apply'[j] = apply[j] /\ queue'[j] = queue[j]
        /\ apply'[k].at = "work" /\ UNCHANGED <<monitor, events, plan, route>>
    BY <1>5 DEF Take, Become, TypeOK
  <2>2. QED
    BY <2>1 DEF EndsInOrder
<1>6. ASSUME NEW k \in Kinds,
             \/ CopySource(k) \/ SourceGone(k) \/ Rename(k) \/ WriteStrm(k) \/ Remove(k)
             \/ ApplyFails(k) \/ ApplyEnds(k) \/ Abort(k)
      PROVE  EndsInOrder'
  <2>1. UNCHANGED <<monitor, events, plan, route, queue>>
    BY <1>6 DEF CopySource, SourceGone, Rename, WriteStrm, Remove, ApplyFails, ApplyEnds, Abort
  <2>2. PICK a : /\ Become(k, a)
                 /\ a.at = "done" => queue[k] = <<>> /\ route.at = "done"
    <3>1. CASE CopySource(k)
      <4>1. [apply[k] EXCEPT !.at = "rename", !.read = source[apply[k].item.file]].at = "rename"
        BY DEF TypeOK
      <4>2. QED
        BY <3>1, <4>1 DEF CopySource
    <3>2. CASE SourceGone(k) \/ Rename(k) \/ WriteStrm(k) \/ Remove(k) \/ ApplyFails(k)
      BY <3>2 DEF SourceGone, Rename, WriteStrm, Remove, ApplyFails, Idle
    <3>3. CASE ApplyEnds(k)
      BY <3>3 DEF ApplyEnds
    <3>4. CASE Abort(k)
      BY <3>4 DEF Abort, Idle
    <3>5. QED
      BY <1>6, <3>1, <3>2, <3>3, <3>4
  <2>3. (\A j \in Kinds \ {k} : apply'[j] = apply[j]) /\ apply'[k] = a
    BY <2>2 DEF Become, TypeOK
  <2>4. QED
    BY <2>1, <2>2, <2>3 DEF EndsInOrder
<1>7. CASE (\E f \in Files : ChangeFile(f)) \/ MakeDir \/ WatchDir \/ Cancel \/ UNCHANGED vars
  BY <1>1, <1>7 DEF ChangeFile, Change, MakeDir, WatchDir, Cancel, vars, stageVars
<1>8. QED
  BY <1>2, <1>3, <1>4, <1>5, <1>6, <1>7 DEF Next, MonitorStep, RouteStep, ApplyStep

LEMMA EndsLeaveNothing == EndsInOrder => NothingLeftBehind
BY DEF EndsInOrder, NothingLeftBehind, Returned

\* The channels carry the items they are for, within their room, and a pipeline that
\* returned without being cancelled or given up on has left nothing in them.
THEOREM ChannelsOKHolds == Spec => []ChannelsOK
<1> DEFINE Inv == TypeOK /\ EndsInOrder
<1>1. Init => Inv
  BY InitTypes, InitEnds
<1>2. Inv /\ [Next]_vars => Inv'
  BY NextTypes, NextEnds
<1>3. Inv => ChannelsOK
  BY EndsLeaveNothing DEF ChannelsOK
<1> HIDE DEF Inv
<1>4. QED
  BY <1>1, <1>2, <1>3, PTL DEF Spec
===============================================================================
