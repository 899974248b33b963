----------------------------- MODULE EngineProofs -----------------------------
(***************************************************************************)
(* Proofs about a run of the engine, in two parts.                         *)
(*                                                                         *)
(* Listing: what is listed lies below the directory the listing began at   *)
(* (RootOK, WaitingOK, FoundOK); a file that stays is listed, or an entry  *)
(* on the way to it still waits or was missed (CoverOK).  Exclusions need  *)
(* that the entries' paths and the engine's path name the same directory   *)
(* (ExcludedBelow).                                                        *)
(*                                                                         *)
(* Engine: what becomes of the listed sources.  A run of a remote driver   *)
(* has an entry for every source that was there all the time (SourceInv);  *)
(* a run no other overlaps knows what the output of each source looks like *)
(* at each place of the source's goroutine (MirrorInv).                    *)
(***************************************************************************)
EXTENDS Engine, Listing, SequenceTheorems, TLAPS

--------------------------------------------------------------------------------
(* Paths. *)

LEMMA InsideSelf == \A p \in Path : Inside(p, p)
  BY DEF Path, Inside

LEMMA InsideTransitive ==
  ASSUME NEW p \in Path, NEW q \in Path, NEW r \in Path, Inside(p, q), Inside(q, r)
  PROVE  Inside(p, r)
  BY DEF Path, Inside

LEMMA InsideEqual ==
  ASSUME NEW p \in Path, NEW q \in Path, Inside(p, q), Len(p) = Len(q)
  PROVE  p = q
<1>1. \A i \in 1..Len(p) : p[i] = q[i]
  BY DEF Path, Inside
<1> QED
  BY <1>1, SeqEqual DEF Path

LEMMA Prefix ==
  ASSUME NEW p \in Path, NEW n \in 0..Len(p)
  PROVE  /\ SubSeq(p, 1, n) \in Path /\ Len(SubSeq(p, 1, n)) = n
         /\ Inside(p, SubSeq(p, 1, n))
         /\ \A i \in 1..n : SubSeq(p, 1, n)[i] = p[i]
<1>1. n \in Nat /\ n <= Len(p) /\ Len(p) \in Nat
  BY DEF Path
<1>2. /\ SubSeq(p, 1, n) \in Path /\ Len(SubSeq(p, 1, n)) = n
      /\ \A i \in 1..n : SubSeq(p, 1, n)[i] = p[i]
  BY <1>1, SubSeqProperties DEF Path
<1> QED
  BY <1>1, <1>2 DEF Inside

(* The next directory on the way from a directory to what is below it.      *)
LEMMA Towards ==
  ASSUME NEW p \in Path, NEW dir \in Path, Inside(p, dir), Len(dir) < Len(p)
  PROVE  \E q \in Path : /\ q = SubSeq(p, 1, Len(dir) + 1)
                         /\ Child(q, dir) /\ Inside(p, q) /\ Len(q) = Len(dir) + 1
<1>1. Len(dir) + 1 \in 0..Len(p) /\ Len(dir) \in Nat
  BY DEF Path
<1>2. PICK q \in Path : q = SubSeq(p, 1, Len(dir) + 1)
  BY <1>1, Prefix
<1>3. Len(q) = Len(dir) + 1 /\ Inside(p, q) /\ \A i \in 1..Len(dir) + 1 : q[i] = p[i]
  BY <1>1, <1>2, Prefix
<1>4. Inside(q, dir)
  BY <1>1, <1>3 DEF Inside
<1> QED
  BY <1>2, <1>3, <1>4 DEF Child

LEMMA RelType ==
  ASSUME NEW p \in Path, NEW dir \in Path
  PROVE  Rel(p, dir) \in Path
  BY SubSeqProperties DEF Path, Rel

LEMMA RelInjective ==
  ASSUME NEW p \in Path, NEW q \in Path, NEW dir \in Path, Inside(p, dir), Inside(q, dir),
         Rel(p, dir) = Rel(q, dir)
  PROVE  p = q
<1>1. Len(dir) \in Nat /\ Len(p) \in Nat /\ Len(q) \in Nat /\ Len(dir) <= Len(p) /\ Len(dir) <= Len(q)
  BY DEF Path, Inside
<1>2. /\ Len(Rel(p, dir)) = Len(p) - Len(dir)
      /\ \A i \in 1..Len(p) - Len(dir) : Rel(p, dir)[i] = p[Len(dir) + i]
  BY <1>1, SubSeqProperties DEF Rel, Path
<1>3. /\ Len(Rel(q, dir)) = Len(q) - Len(dir)
      /\ \A i \in 1..Len(q) - Len(dir) : Rel(q, dir)[i] = q[Len(dir) + i]
  BY <1>1, SubSeqProperties DEF Rel, Path
<1>4. Len(p) = Len(q)
  BY <1>1, <1>2, <1>3
<1>5. ASSUME NEW i \in 1..Len(p) PROVE p[i] = q[i]
  <2>1. CASE i <= Len(dir)
    BY <1>1, <2>1 DEF Inside
  <2>2. CASE i > Len(dir)
    <3>1. i - Len(dir) \in 1..Len(p) - Len(dir) /\ Len(dir) + (i - Len(dir)) = i
      BY <1>1, <2>2
    <3> QED
      BY <1>2, <1>3, <1>4, <3>1
  <2> QED
    BY <1>1, <2>1, <2>2
<1> QED
  BY <1>4, <1>5, SeqEqual DEF Path
--------------------------------------------------------------------------------
(* Settings: the roots of a listing are paths, and a remote listing's paths  *)
(* are relative to a directory above its root.                               *)

LEMMA NamesType == ASSUME NEW p \in Path PROVE Names(p) \in Path
<1>1. p # <<>> => Tail(p) \in Path
  BY HeadTailProperties DEF Path
<1> QED
  BY <1>1 DEF Names, Abs

LEMMA SettingTypes ==
  ASSUME NEW s \in Setups
  PROVE  /\ s.source \in Path /\ s.shown \in Path
         /\ s.remoteRoot # None => s.remoteRoot \in Path
         /\ s.access # None => s.access \in Path
         /\ s.mount # None => s.mount \in Path
  BY ListingAssumption DEF Settings

LEMMA RemoteListRootType ==
  ASSUME NEW s \in Setups, RemoteListRoot(s) # None
  PROVE  RemoteListRoot(s) \in Path
<1>1. CASE s.remoteRoot # None
  BY <1>1, SettingTypes, NamesType DEF RemoteListRoot
<1>2. CASE s.remoteRoot = None /\ s.access = None
  BY <1>2, SettingTypes, NamesType DEF RemoteListRoot
<1>3. CASE s.remoteRoot = None /\ s.access # None
  <2>1. Names(s.access) \in Path /\ s.source \in Path
    BY <1>3, SettingTypes, NamesType
  <2>2. CASE s.mount # None /\ Abs(s.source) /\ Inside(s.source, s.mount)
    <3>1. Rel(s.source, s.mount) \in Path
      BY <2>2, SettingTypes, RelType
    <3>2. Names(s.access) \o Rel(s.source, s.mount) \in Path
      BY <2>1, <3>1, ConcatProperties DEF Path
    <3> QED
      BY <1>3, <2>2, <3>2 DEF RemoteListRoot
  <2>3. Names(s.access) \o s.source \in Path
    BY <2>1, ConcatProperties DEF Path
  <2> QED
    BY <1>3, <2>2, <2>3 DEF RemoteListRoot
<1> QED
  BY <1>1, <1>2, <1>3

LEMMA RemoteRootType ==
  ASSUME NEW s \in Setups, ListsRemotely(s)
  PROVE  /\ RemoteRoot(s) \in Path /\ RemoteBase(s) \in Path
         /\ Inside(RemoteRoot(s), RemoteBase(s))
<1>1. CASE Overridden(s)
  <2>1. RemoteListRoot(s) \in Path
    BY <1>1, RemoteListRootType DEF Overridden
  <2> QED
    BY <1>1, <2>1, InsideSelf DEF RemoteRoot, RemoteBase
<1>2. CASE ~Overridden(s)
  <2>1. s.type # "local"
    BY <1>2 DEF ListsRemotely
  <2>2. EngineRoot(s) \in Path
    BY <2>1, SettingTypes DEF EngineRoot
  <2>3. Names(EngineRoot(s)) \in Path
    BY <2>2, NamesType
  <2>4. <<>> \in Path /\ Len(<<>>) = 0
    BY DEF Path
  <2> QED
    BY <1>2, <2>3, <2>4 DEF RemoteRoot, RemoteBase, Inside, Path
<1> QED
  BY <1>1, <1>2

LEMMA LocalHasAccess ==
  ASSUME NEW s \in Setups, ~ListsRemotely(s)
  PROVE  s.access # None
  BY ListingAssumption DEF ListsRemotely, UsesLocalDriver, Settings

LEMMA LocalRootType ==
  ASSUME NEW s \in Setups, s.access # None, LocalRoot(s) # None
  PROVE  /\ LocalRoot(s) \in Path /\ s.shown \o LocalRoot(s) \in Path
         /\ Inside(s.shown \o LocalRoot(s), s.shown)
<1>1. s.access \in Path /\ s.source \in Path /\ s.shown \in Path
  BY SettingTypes
<1>2. <<>> \in Path
  BY DEF Path
<1>3. Rel(s.source, s.access) \in Path
  BY <1>1, RelType
<1>4. EngineRoot(s) # None
  BY DEF LocalRoot
<1>5. EngineRoot(s) # Root => EngineRoot(s) \in Path
  BY <1>1, <1>2, <1>3, <1>4, SettingTypes DEF EngineRoot
<1>6. EngineRoot(s) # Root => Rel(EngineRoot(s), s.access) \in Path
  BY <1>1, <1>5, RelType
<1>7. LocalRoot(s) \in Path
  BY <1>2, <1>5, <1>6 DEF LocalRoot, ScanRoot
<1>8. PICK r \in Path : r = LocalRoot(s)
  BY <1>7
<1>9. /\ s.shown \o r \in Path /\ Len(s.shown \o r) = Len(s.shown) + Len(r)
      /\ \A i \in 1..Len(s.shown) : (s.shown \o r)[i] = s.shown[i]
  BY <1>1, ConcatProperties DEF Path
<1> QED
  BY <1>1, <1>8, <1>9 DEF Inside, Path
--------------------------------------------------------------------------------
(* The invariant. *)

\* A file on the drive is in directories that are on it.
Closed == \A p \in drive : \A i \in 1..Len(p) - 1 : SubSeq(p, 1, i) \in drive

\* Who lists where.  A local listing of what would be listed remotely is the fallback.
RootOK ==
  phase \in {"listing", "listed"} =>
    /\ ListedDir \in Path /\ Base \in Path /\ Inside(ListedDir, Base)
    /\ lister = "remote" => ListsRemotely(setup)
    /\ lister = "local" /\ ListsRemotely(setup) => Overridden(setup)

SeenOK == Scanning => drive \subseteq seen

WaitingOK ==
  Scanning =>
    /\ stayed \subseteq drive
    /\ \A p \in waiting : /\ p \in Path /\ Inside(p, ListedDir) /\ Depth(p) <= MaxDepth
                          /\ lister = "remote" => Depth(p) < MaxDepth

FoundOK ==
  phase \in {"listing", "listed"} =>
    \A e \in found :
      e.file \in seen /\ InScope(e.file) /\ e.path = EntryPath(e.file)

Covered(f) ==
  \/ [file |-> f, path |-> EntryPath(f)] \in found
  \/ \E p \in missed : Inside(f, p)
  \/ \E p \in waiting : Inside(f, p)

CoverOK == Scanning => \A f \in Files \cap stayed : InScope(f) => Covered(f)

\* The directory all entries' paths are relative to if the setting is coherent.
HomeBase == IF ListsRemotely(setup) THEN RemoteBase(setup) ELSE setup.shown

PlacedOK ==
  Coherent(setup) =>
    \A e \in placed : Inside(e.file, HomeBase) /\ e.path = Rel(e.file, HomeBase)

ListingInv ==
  /\ ListingTypeOK /\ Closed /\ RootOK /\ SeenOK /\ WaitingOK /\ FoundOK /\ CoverOK
  /\ ListedWhatStayed /\ PlacedOK

LEMMA InitInv == ListingInit => ListingInv
  BY ListingAssumption
  DEF ListingInit, ListingInv, ListingTypeOK, Closed, RootOK, SeenOK, WaitingOK, FoundOK,
      CoverOK, ListedWhatStayed, PlacedOK,
      Scanning

\* The drive changes: the listing keeps what it has.
LEMMA ChangeKeeps ==
  ASSUME ListingInv, NEW p \in Files \cup Dirs, Appear(p) \/ Vanish(p)
  PROVE  ListingInv'
<1>1. ListingTypeOK'
  BY DEF ListingInv, ListingTypeOK, Appear, Vanish, Scanning
<1>2. Closed'
  <2>1. CASE Appear(p)
    <3>1. p \in Path /\ Len(p) \in Nat /\ p # <<>>
      BY ListingAssumption DEF Path
    <3>2. ASSUME NEW i \in 1..Len(p) - 1 PROVE SubSeq(p, 1, i) \in drive
      <4>1. CASE i = Len(p) - 1
        BY <2>1, <3>1, <3>2, <4>1, Prefix DEF Appear, There
      <4>2. CASE i < Len(p) - 1
        <5>1. Len(p) - 1 \in 0..Len(p) /\ i \in 0..Len(p)
          BY <3>1, <4>2
        <5>2. PICK q \in Path : q = SubSeq(p, 1, Len(p) - 1)
          BY <3>1, <5>1, Prefix
        <5>3. q # <<>> /\ Len(q) = Len(p) - 1
          <6>1. Len(q) = Len(p) - 1
            BY <5>1, <5>2, <3>1, Prefix
          <6>2. Len(q) > 0
            BY <3>1, <4>2, <6>1
          <6> QED
            BY <6>1, <6>2
        <5>4. q \in drive
          BY <2>1, <5>2, <5>3 DEF Appear, There
        <5>5. i \in 1..Len(q) - 1
          BY <3>1, <4>2, <5>3
        <5>6. SubSeq(q, 1, i) \in drive
          BY <5>4, <5>5 DEF ListingInv, Closed
        <5>7. SubSeq(q, 1, i) = SubSeq(p, 1, i)
          <6>1. i \in 0..Len(q)
            BY <5>5
          <6>2. /\ SubSeq(q, 1, i) \in Path /\ Len(SubSeq(q, 1, i)) = i
                /\ \A j \in 1..i : SubSeq(q, 1, i)[j] = q[j]
            BY <6>1, Prefix
          <6>3. /\ SubSeq(p, 1, i) \in Path /\ Len(SubSeq(p, 1, i)) = i
                /\ \A j \in 1..i : SubSeq(p, 1, i)[j] = p[j]
            BY <3>1, <5>1, Prefix
          <6>4. \A j \in 1..i : q[j] = p[j]
            BY <3>1, <4>2, <5>1, <5>2, Prefix
          <6> QED
            BY <6>2, <6>3, <6>4, SeqEqual DEF Path
        <5> QED
          BY <5>6, <5>7
      <4> QED
        BY <3>1, <4>1, <4>2
    <3> QED
      BY <2>1, <3>2 DEF ListingInv, Closed, Appear
  <2>2. CASE Vanish(p)
    <3>1. ASSUME NEW q \in drive', NEW i \in 1..Len(q) - 1 PROVE SubSeq(q, 1, i) \in drive'
      <4>1. q \in drive /\ q \in Path /\ p \in Path /\ ~Inside(q, p)
        BY <2>2, <3>1, ListingAssumption DEF Vanish, ListingInv, ListingTypeOK
      <4>2. SubSeq(q, 1, i) \in drive
        BY <4>1 DEF ListingInv, Closed
      <4>3. i \in 0..Len(q)
        BY <4>1 DEF Path
      <4>4. SubSeq(q, 1, i) \in Path /\ Inside(q, SubSeq(q, 1, i))
        BY <4>1, <4>3, Prefix
      <4>5. ~Inside(SubSeq(q, 1, i), p)
        BY <4>1, <4>4, InsideTransitive
      <4> QED
        BY <2>2, <4>2, <4>5 DEF Vanish
    <3> QED
      BY <3>1 DEF Closed
  <2> QED
    BY <2>1, <2>2
<1>3. /\ UNCHANGED <<setup, phase, lister, waiting, found, missed, placed>>
      /\ stayed' \subseteq stayed /\ seen \subseteq seen'
      /\ ~Scanning => stayed' = stayed /\ seen' = seen
  BY DEF Appear, Vanish
<1>4. ListedDir' = ListedDir /\ Base' = Base /\ HomeBase' = HomeBase
  BY <1>3 DEF ListedDir, Base, HomeBase
<1>5. RootOK' /\ PlacedOK'
  BY <1>3, <1>4 DEF ListingInv, RootOK, PlacedOK
<1>6. WaitingOK'
  <2>1. Scanning => stayed' \subseteq drive'
    BY DEF ListingInv, WaitingOK, Appear, Vanish
  <2> QED
    BY <1>3, <1>4, <2>1 DEF ListingInv, WaitingOK, Depth, Scanning
<1>9. SeenOK'
  BY DEF ListingInv, SeenOK, Appear, Vanish, Scanning
<1>7. FoundOK' /\ CoverOK'
  BY <1>3, <1>4 DEF ListingInv, FoundOK, CoverOK, Covered, InScope, Depth, EntryPath, Scanning
<1>8. ListedWhatStayed'
  BY <1>3, <1>4 DEF ListingInv, ListedWhatStayed, InScope, Depth, EntryPath, Scanning, Excluded
<1> QED
  BY <1>1, <1>2, <1>5, <1>6, <1>7, <1>8, <1>9 DEF ListingInv

\* A listing begins.
LEMMA StartKeeps ==
  ASSUME ListingInv, NEW driver \in {"remote", "local"}, NEW dir \in Path, Start(driver, dir),
         UNCHANGED <<setup, drive, placed>>,
         driver = "remote" => dir = RemoteRoot(setup) /\ ListsRemotely(setup),
         driver = "local" => /\ dir = setup.shown \o LocalRoot(setup)
                             /\ Inside(dir, setup.shown)
                             /\ ListsRemotely(setup) => Overridden(setup)
  PROVE  ListingInv'
<1>1. setup \in Setups /\ setup' = setup /\ lister' = driver /\ drive' = drive
  BY DEF ListingInv, ListingTypeOK, Start
<1>2. ListedDir' = dir
  BY <1>1 DEF ListedDir
<1>3. Base' \in Path /\ Inside(dir, Base')
  <2>1. CASE driver = "remote"
    BY <1>1, <2>1, RemoteRootType DEF Base
  <2>2. CASE driver = "local"
    BY <1>1, <2>2, SettingTypes DEF Base
  <2> QED
    BY <2>1, <2>2
<1>4. Inside(dir, dir) /\ Len(dir) - Len(dir) = 0
  BY InsideSelf DEF Path
<1>5. ListingTypeOK' /\ Closed'
  BY <1>1 DEF ListingInv, ListingTypeOK, Closed, Start
<1>6. RootOK' /\ PlacedOK'
  BY <1>1, <1>2, <1>3 DEF ListingInv, RootOK, PlacedOK, HomeBase, Coherent
<1>7. WaitingOK' /\ SeenOK'
  BY <1>1, <1>2, <1>4, ListingAssumption DEF WaitingOK, SeenOK, Start, Depth
<1>8. FoundOK' /\ ListedWhatStayed'
  BY DEF Start, FoundOK, ListedWhatStayed
<1>9. CoverOK'
  BY <1>1, <1>2 DEF CoverOK, Covered, InScope, Start
<1> QED
  BY <1>5, <1>6, <1>7, <1>8, <1>9 DEF ListingInv

\* It fails.
LEMMA FailKeeps ==
  ASSUME ListingInv, Fail, UNCHANGED <<setup, drive, placed>>
  PROVE  ListingInv'
  BY DEF ListingInv, Fail, ListingTypeOK, Closed, RootOK, SeenOK, WaitingOK, FoundOK, CoverOK,
         ListedWhatStayed, PlacedOK,
         HomeBase, Coherent, Scanning

LEMMA StartLocalKeeps ==
  ASSUME ListingInv, StartLocal, UNCHANGED <<setup, drive, placed>>, setup.access # None,
         ListsRemotely(setup) => Overridden(setup)
  PROVE  ListingInv'
<1>1. setup \in Setups
  BY DEF ListingInv, ListingTypeOK
<1>2. CASE LocalRoot(setup) = None
  BY <1>2, FailKeeps DEF StartLocal
<1>3. CASE LocalRoot(setup) # None
  <2>1. PICK dir \in Path : dir = setup.shown \o LocalRoot(setup)
    BY <1>1, <1>3, LocalRootType
  <2>2. Inside(dir, setup.shown)
    BY <1>1, <1>3, <2>1, LocalRootType
  <2>3. Start("local", dir)
    BY <1>3, <2>1 DEF StartLocal
  <2> QED
    BY <2>1, <2>2, <2>3, StartKeeps
<1> QED
  BY <1>2, <1>3

LEMMA BeginKeeps == ASSUME ListingInv, ListingBegins PROVE ListingInv'
<1>1. setup \in Setups
  BY DEF ListingInv, ListingTypeOK
<1>2. CASE ListsRemotely(setup)
  BY <1>1, <1>2, RemoteRootType, StartKeeps DEF ListingBegins
<1>3. CASE ~ListsRemotely(setup)
  BY <1>1, <1>3, LocalHasAccess, StartLocalKeeps DEF ListingBegins
<1> QED
  BY <1>2, <1>3

LEMMA RemoteFailsKeeps == ASSUME ListingInv, RemoteFails PROVE ListingInv'
<1>1. CASE Overridden(setup) /\ setup.access # None
  BY <1>1, StartLocalKeeps DEF RemoteFails
<1>2. CASE ~(Overridden(setup) /\ setup.access # None)
  BY <1>2, FailKeeps DEF RemoteFails
<1> QED
  BY <1>1, <1>2

--------------------------------------------------------------------------------
(* Steps of a listing.                                                       *)

\* What every step but the last leaves alone.
LEMMA StepKeeps ==
  ASSUME ListingInv, Scanning, UNCHANGED <<setup, drive, phase, lister, stayed, seen, placed>>,
         WaitingOK', FoundOK', CoverOK',
         found' \subseteq [file : Files, path : Path], waiting' \subseteq Path,
         missed' \subseteq Path
  PROVE  ListingInv'
<1>1. ListingTypeOK' /\ Closed'
  BY DEF ListingInv, ListingTypeOK, Closed
<1>2. RootOK' /\ PlacedOK'
  BY DEF ListingInv, RootOK, PlacedOK, ListedDir, Base, HomeBase, Coherent
<1>3. ListedWhatStayed' /\ SeenOK'
  BY DEF ListingInv, SeenOK, Scanning, ListedWhatStayed
<1> QED
  BY <1>1, <1>2, <1>3 DEF ListingInv

\* What a directory on the way to a file leads to.
LEMMA Onwards ==
  ASSUME ListingInv, Scanning, NEW dir \in waiting, There(dir), NEW f \in Files \cap stayed,
         Inside(f, dir), InScope(f)
  PROVE  \/ f \in Children(dir, Files)
         \/ /\ \E q \in Children(dir, Dirs) : Inside(f, q)
            /\ Depth(dir) + 1 < MaxDepth
<1>1. /\ dir \in Path /\ ListedDir \in Path /\ f \in Path /\ f \in drive
      /\ MaxDepth \in Nat
  BY ListingAssumption DEF ListingInv, WaitingOK, RootOK, Scanning
<1>2. Len(dir) \in Nat /\ Len(f) \in Nat /\ Len(ListedDir) \in Nat
  BY <1>1 DEF Path
<1>3. f # dir
  BY <1>1, ListingAssumption DEF There
<1>4. Len(dir) < Len(f)
  BY <1>1, <1>2, <1>3, InsideEqual DEF Inside
<1>5. CASE Len(f) = Len(dir) + 1
  BY <1>1, <1>5 DEF Children, Child
<1>6. CASE Len(f) # Len(dir) + 1
  <2>1. PICK q \in Path : /\ q = SubSeq(f, 1, Len(dir) + 1)
                          /\ Child(q, dir) /\ Inside(f, q)
    BY <1>1, <1>4, Towards
  <2>2. Len(dir) + 1 \in 1..Len(f) - 1
    BY <1>2, <1>4, <1>6
  <2>3. q \in drive /\ q \in Dirs
    BY <1>1, <2>1, <2>2, ListingAssumption DEF ListingInv, Closed
  <2>4. Depth(dir) + 1 < MaxDepth
    BY <1>1, <1>2, <1>4, <1>6 DEF InScope, Depth
  <2> QED
    BY <2>1, <2>3, <2>4 DEF Children
<1> QED
  BY <1>5, <1>6

\* A child of a directory is as far below the listed one as it should be.
LEMMA ChildOK ==
  ASSUME ListingInv, Scanning, NEW dir \in waiting, NEW p \in Files \cup Dirs, Child(p, dir)
  PROVE  /\ p \in Path /\ Inside(p, ListedDir)
         /\ Depth(p) = Depth(dir) + 1 /\ Depth(p) \in Int /\ Depth(dir) \in Int
         /\ Depth(dir) < MaxDepth => Depth(p) <= MaxDepth
<1>1. dir \in Path /\ p \in Path /\ ListedDir \in Path /\ Inside(dir, ListedDir) /\ MaxDepth \in Nat
  BY ListingAssumption DEF ListingInv, WaitingOK, RootOK, Scanning
<1>2. Inside(p, ListedDir)
  BY <1>1, InsideTransitive DEF Child
<1>3. Len(p) = Len(dir) + 1 /\ Len(dir) \in Nat /\ Len(ListedDir) \in Nat
  BY <1>1 DEF Child, Path
<1> QED
  BY <1>1, <1>2, <1>3 DEF Depth

LEMMA ListDirectoryKeeps == ASSUME ListingInv, ListDirectory PROVE ListingInv'
<1>1. PICK dir \in waiting :
        /\ There(dir)
        /\ found' = found \cup
             {[file |-> f, path |-> Rel(f, RemoteBase(setup))] : f \in Children(dir, Files)}
        /\ waiting' = (waiting \ {dir}) \cup
             {d \in Children(dir, Dirs) : Depth(dir) + 1 < MaxDepth}
  BY DEF ListDirectory
<1>2. /\ Scanning /\ lister = "remote" /\ Scanning'
      /\ UNCHANGED <<setup, drive, phase, lister, stayed, seen, missed, placed>>
  BY DEF ListDirectory, Scanning
<1>3. ListedDir' = ListedDir /\ Base' = Base /\ Base = RemoteBase(setup) /\ Base \in Path
  BY <1>2 DEF ListedDir, Base, ListingInv, RootOK, Scanning
<1>4. Depth(dir) \in Int /\ Depth(dir) < MaxDepth /\ MaxDepth \in Nat
  <2>1. dir \in Path /\ ListedDir \in Path
    BY <1>2 DEF ListingInv, WaitingOK, RootOK, Scanning
  <2> QED
    BY <1>2, <2>1, ListingAssumption DEF ListingInv, WaitingOK, Depth, Path
<1>5. WaitingOK'
  <2>1. stayed' \subseteq drive'
    BY <1>2 DEF ListingInv, WaitingOK
  <2>2. ASSUME NEW p \in waiting'
        PROVE  p \in Path /\ Inside(p, ListedDir) /\ Depth(p) <= MaxDepth /\ Depth(p) < MaxDepth
    <3>1. CASE p \in waiting
      BY <1>2, <3>1 DEF ListingInv, WaitingOK
    <3>2. CASE p \in Children(dir, Dirs) /\ Depth(dir) + 1 < MaxDepth
      BY <1>2, <1>4, <3>2, ChildOK DEF Children
    <3> QED
      BY <1>1, <2>2, <3>1, <3>2
  <2> QED
    BY <1>2, <1>3, <2>1, <2>2 DEF WaitingOK, Depth
<1>6. FoundOK'
  <2>1. ASSUME NEW e \in found'
        PROVE  e.file \in seen /\ InScope(e.file) /\ e.path = EntryPath(e.file)
    <3>1. CASE e \in found
      BY <1>2, <3>1 DEF ListingInv, FoundOK, Scanning
    <3>2. CASE \E f \in Children(dir, Files) : e = [file |-> f, path |-> Rel(f, RemoteBase(setup))]
      <4>1. PICK f \in Children(dir, Files) : e = [file |-> f, path |-> Rel(f, RemoteBase(setup))]
        BY <3>2
      <4>2. f \in seen
        BY <1>2, <4>1 DEF Children, ListingInv, SeenOK, Scanning
      <4>3. InScope(f)
        BY <1>2, <1>4, <4>1, ChildOK DEF Children, InScope
      <4> QED
        BY <1>3, <4>1, <4>2, <4>3 DEF EntryPath
    <3> QED
      BY <1>1, <2>1, <3>1, <3>2
  <2> QED
    BY <1>2, <1>3, <2>1 DEF FoundOK, InScope, Depth, EntryPath
<1>7. CoverOK'
  <2>1. ASSUME NEW f \in Files \cap stayed, InScope(f)
        PROVE  \/ [file |-> f, path |-> EntryPath(f)] \in found'
               \/ \E p \in missed' : Inside(f, p)
               \/ \E p \in waiting' : Inside(f, p)
    <3>1. CASE ~Inside(f, dir)
      BY <1>1, <1>2, <2>1, <3>1 DEF ListingInv, CoverOK, Covered
    <3>2. CASE Inside(f, dir)
      <4>1. CASE f \in Children(dir, Files)
        BY <1>1, <1>3, <4>1 DEF EntryPath
      <4>2. CASE f \notin Children(dir, Files)
        BY <1>1, <1>2, <2>1, <3>2, <4>2, Onwards
      <4> QED
        BY <4>1, <4>2
    <3> QED
      BY <3>1, <3>2
  <2> QED
    BY <1>2, <1>3, <2>1 DEF CoverOK, Covered, InScope, Depth, EntryPath
<1>8. found' \subseteq [file : Files, path : Path]
  <2>1. \A f \in Children(dir, Files) : f \in Files /\ Rel(f, RemoteBase(setup)) \in Path
    BY <1>3, RelType, ListingAssumption DEF Children
  <2> QED
    BY <1>1, <2>1 DEF ListingInv, ListingTypeOK
<1>9. waiting' \subseteq Path /\ missed' \subseteq Path
  BY <1>1, <1>2, ListingAssumption DEF ListingInv, ListingTypeOK, Children
<1> QED
  BY <1>2, <1>5, <1>6, <1>7, <1>8, <1>9, StepKeeps

LEMMA VisitFileKeeps == ASSUME ListingInv, VisitFile PROVE ListingInv'
<1>1. PICK f \in waiting \cap drive \cap Files :
        /\ found' = found \cup {[file |-> f, path |-> Rel(f, setup.shown)]}
        /\ waiting' = waiting \ {f}
  BY DEF VisitFile
<1>2. /\ Scanning /\ lister = "local" /\ Scanning'
      /\ UNCHANGED <<setup, drive, phase, lister, stayed, seen, missed, placed>>
  BY DEF VisitFile, Scanning
<1>3. ListedDir' = ListedDir /\ Base' = Base /\ Base = setup.shown /\ Base \in Path
  BY <1>2 DEF ListedDir, Base, ListingInv, RootOK, Scanning
<1>4. /\ f \in Path /\ f \in seen /\ InScope(f) /\ Rel(f, setup.shown) = EntryPath(f)
      /\ Rel(f, setup.shown) \in Path
  BY <1>2, <1>3, RelType DEF ListingInv, WaitingOK, SeenOK, InScope, EntryPath, Scanning
<1>5. WaitingOK'
  BY <1>1, <1>2, <1>3 DEF ListingInv, WaitingOK, Depth
<1>6. FoundOK'
  BY <1>1, <1>2, <1>3, <1>4 DEF ListingInv, FoundOK, InScope, Depth, EntryPath, Scanning
<1>7. CoverOK'
  <2>1. ASSUME NEW g \in Files \cap stayed, InScope(g)
        PROVE  \/ [file |-> g, path |-> EntryPath(g)] \in found'
               \/ \E p \in missed' : Inside(g, p)
               \/ \E p \in waiting' : Inside(g, p)
    <3>1. CASE g = f
      BY <1>1, <1>4, <3>1
    <3>2. CASE g # f
      <4>1. ~Inside(g, f)
        <5>1. g \in Path /\ g \in Files /\ f \in Files
          BY <1>1, ListingAssumption
        <5>2. SUFFICES ASSUME Inside(g, f) PROVE FALSE
          OBVIOUS
        <5>3. Len(f) \in Nat /\ Len(g) \in Nat /\ Len(f) <= Len(g) /\ Len(f) \in 0..Len(g)
          BY <1>4, <5>1, <5>2 DEF Inside, Path
        <5>4. Len(f) # Len(g)
          BY <1>4, <3>2, <5>1, <5>2, InsideEqual
        <5>5. PICK q \in Path : q = SubSeq(g, 1, Len(f))
          BY <5>1, <5>3, Prefix
        <5>6. Len(q) = Len(f) /\ \A i \in 1..Len(f) : q[i] = g[i]
          BY <5>1, <5>3, <5>5, Prefix
        <5>7. q = f
          BY <1>4, <5>2, <5>6, SeqEqual DEF Inside, Path
        <5>8. Len(f) # 0
          BY <1>4, <5>1, ListingAssumption DEF Path
        <5>9. Len(f) \in 1..Len(g) - 1
          BY <5>3, <5>4, <5>8
        <5>10. f \in Dirs
          BY <5>1, <5>5, <5>7, <5>9, ListingAssumption
        <5> QED
          BY <5>1, <5>10, ListingAssumption
      <4> QED
        BY <1>1, <1>2, <2>1, <4>1 DEF ListingInv, CoverOK, Covered
    <3> QED
      BY <3>1, <3>2
  <2> QED
    BY <1>2, <1>3, <2>1 DEF CoverOK, Covered, InScope, Depth, EntryPath
<1>8. /\ found' \subseteq [file : Files, path : Path]
      /\ waiting' \subseteq Path /\ missed' \subseteq Path
  BY <1>1, <1>2, <1>4 DEF ListingInv, ListingTypeOK
<1> QED
  BY <1>2, <1>5, <1>6, <1>7, <1>8, StepKeeps

LEMMA VisitDirKeeps == ASSUME ListingInv, VisitDir PROVE ListingInv'
<1>1. PICK dir \in waiting :
        /\ There(dir)
        /\ waiting' = (waiting \ {dir}) \cup
             {p \in Children(dir, Files \cup Dirs) : Depth(dir) < MaxDepth}
  BY DEF VisitDir
<1>2. /\ Scanning /\ lister = "local" /\ Scanning'
      /\ UNCHANGED <<setup, drive, phase, lister, found, stayed, seen, missed, placed>>
  BY DEF VisitDir, Scanning
<1>3. ListedDir' = ListedDir /\ Base' = Base
  BY <1>2 DEF ListedDir, Base
<1>4. Depth(dir) \in Int /\ MaxDepth \in Nat
  <2>1. dir \in Path /\ ListedDir \in Path
    BY <1>2 DEF ListingInv, WaitingOK, RootOK, Scanning
  <2> QED
    BY <2>1, ListingAssumption DEF Depth, Path
<1>5. WaitingOK'
  <2>1. stayed' \subseteq drive'
    BY <1>2 DEF ListingInv, WaitingOK
  <2>2. ASSUME NEW p \in waiting'
        PROVE  p \in Path /\ Inside(p, ListedDir) /\ Depth(p) <= MaxDepth
    <3>1. CASE p \in waiting
      BY <1>2, <3>1 DEF ListingInv, WaitingOK
    <3>2. CASE p \in Children(dir, Files \cup Dirs) /\ Depth(dir) < MaxDepth
      BY <1>2, <1>4, <3>2, ChildOK DEF Children
    <3> QED
      BY <1>1, <2>2, <3>1, <3>2
  <2> QED
    BY <1>2, <1>3, <2>1, <2>2 DEF WaitingOK, Depth
<1>6. FoundOK'
  BY <1>2, <1>3 DEF ListingInv, FoundOK, InScope, Depth, EntryPath, Scanning
<1>7. CoverOK'
  <2>1. ASSUME NEW f \in Files \cap stayed, InScope(f)
        PROVE  \/ [file |-> f, path |-> EntryPath(f)] \in found'
               \/ \E p \in missed' : Inside(f, p)
               \/ \E p \in waiting' : Inside(f, p)
    <3>1. CASE ~Inside(f, dir)
      BY <1>1, <1>2, <2>1, <3>1 DEF ListingInv, CoverOK, Covered
    <3>2. CASE Inside(f, dir)
      <4>1. PICK q \in Children(dir, Files \cup Dirs) : Inside(f, q) /\ Depth(dir) < MaxDepth
        <5>1. CASE f \in Children(dir, Files)
          <6>1. Inside(f, f)
            BY InsideSelf, ListingAssumption
          <6>2. Depth(f) = Depth(dir) + 1
            BY <1>2, <5>1, ChildOK DEF Children
          <6> QED
            BY <1>4, <2>1, <5>1, <6>1, <6>2 DEF InScope, Children
        <5>2. CASE f \notin Children(dir, Files)
          <6>1. PICK q \in Children(dir, Dirs) : Inside(f, q) /\ Depth(dir) + 1 < MaxDepth
            BY <1>1, <1>2, <2>1, <3>2, <5>2, Onwards
          <6> QED
            BY <1>4, <6>1 DEF Children
        <5> QED
          BY <5>1, <5>2
      <4> QED
        BY <1>1, <4>1
    <3> QED
      BY <3>1, <3>2
  <2> QED
    BY <1>2, <1>3, <2>1 DEF CoverOK, Covered, InScope, Depth, EntryPath
<1>8. /\ found' \subseteq [file : Files, path : Path]
      /\ waiting' \subseteq Path /\ missed' \subseteq Path
  BY <1>1, <1>2, ListingAssumption DEF ListingInv, ListingTypeOK, Children
<1> QED
  BY <1>2, <1>5, <1>6, <1>7, <1>8, StepKeeps

LEMMA MissKeeps == ASSUME ListingInv, Miss PROVE ListingInv'
<1>1. PICK p \in waiting : waiting' = waiting \ {p} /\ missed' = missed \cup {p}
  BY DEF Miss
<1>2. /\ Scanning /\ Scanning'
      /\ UNCHANGED <<setup, drive, phase, lister, found, stayed, seen, placed>>
  BY DEF Miss, Scanning
<1>3. ListedDir' = ListedDir /\ Base' = Base
  BY <1>2 DEF ListedDir, Base
<1>4. WaitingOK' /\ FoundOK'
  BY <1>1, <1>2, <1>3 DEF ListingInv, WaitingOK, FoundOK, InScope, Depth, EntryPath, Scanning
<1>5. CoverOK'
  BY <1>1, <1>2, <1>3 DEF ListingInv, CoverOK, Covered, InScope, Depth, EntryPath
<1>6. /\ found' \subseteq [file : Files, path : Path]
      /\ waiting' \subseteq Path /\ missed' \subseteq Path
  BY <1>1, <1>2 DEF ListingInv, ListingTypeOK
<1> QED
  BY <1>2, <1>4, <1>5, <1>6, StepKeeps

\* With nothing left to visit, what is covered has been found or was missed.
LEMMA ListingDoneKeeps == ASSUME ListingInv, ListingDone PROVE ListingInv'
<1>1. /\ Scanning /\ waiting = {} /\ phase' = "listed" /\ ~Scanning'
      /\ found' = {e \in found : ~Excluded(setup, e.path)}
      /\ placed' = placed \cup found'
      /\ UNCHANGED <<setup, drive, lister, waiting, stayed, seen, missed>>
  BY DEF ListingDone, Scanning
<1>2. ListedDir' = ListedDir /\ Base' = Base /\ HomeBase' = HomeBase
  BY <1>1 DEF ListedDir, Base, HomeBase
<1>3. ListingTypeOK' /\ Closed'
  BY <1>1 DEF ListingInv, ListingTypeOK, Closed
<1>4. RootOK' /\ WaitingOK' /\ CoverOK'
  BY <1>1, <1>2 DEF ListingInv, RootOK, WaitingOK, CoverOK, Scanning
<1>5. FoundOK'
  BY <1>1, <1>2 DEF ListingInv, FoundOK, InScope, Depth, EntryPath, Scanning
<1>6. ListedWhatStayed'
  <2>1. \A f \in Files \cap stayed :
          \/ ~InScope(f)
          \/ Excluded(setup, EntryPath(f))
          \/ \E p \in missed : Inside(f, p)
          \/ [file |-> f, path |-> EntryPath(f)] \in found'
    BY <1>1 DEF ListingInv, CoverOK, Covered
  <2> QED
    BY <1>1, <1>2, <1>5, <2>1
    DEF ListedWhatStayed, FoundOK, InScope, Depth, EntryPath, Excluded
<1>7. PlacedOK'
  <2>1. SUFFICES ASSUME Coherent(setup), NEW e \in found
                 PROVE  Inside(e.file, HomeBase) /\ e.path = Rel(e.file, HomeBase)
    BY <1>1, <1>2 DEF ListingInv, PlacedOK, Coherent
  <2>2. Base = HomeBase
    <3>1. lister \in {"remote", "local"}
      BY DEF ListingInv, ListingTypeOK
    <3>2. CASE lister = "remote"
      BY <1>1, <3>2 DEF ListingInv, RootOK, Base, HomeBase, Scanning
    <3>3. CASE lister = "local"
      <4>1. ListsRemotely(setup) => Overridden(setup)
        BY <1>1, <3>3 DEF ListingInv, RootOK, Scanning
      <4> QED
        BY <2>1, <3>3, <4>1 DEF Base, HomeBase, Coherent, RemoteBase
    <3> QED
      BY <3>1, <3>2, <3>3
  <2>3. /\ ListedDir \in Path /\ Base \in Path /\ Inside(ListedDir, Base)
        /\ e.file \in Path /\ Inside(e.file, ListedDir) /\ e.path = EntryPath(e.file)
    BY <1>1, <2>1, ListingAssumption DEF ListingInv, RootOK, FoundOK, InScope, ListingTypeOK, Scanning
  <2>4. Inside(e.file, Base)
    BY <2>3, InsideTransitive
  <2> QED
    BY <2>2, <2>3, <2>4 DEF EntryPath
<1> QED
  BY <1>3, <1>4, <1>5, <1>6, <1>7, <1>1 DEF ListingInv, SeenOK

LEMMA StepInv == ListingInv /\ [ListingNext]_listingVars => ListingInv'
<1> SUFFICES ASSUME ListingInv, [ListingNext]_listingVars PROVE ListingInv'
  OBVIOUS
<1>1. CASE ListingBegins
  BY <1>1, BeginKeeps
<1>2. CASE List
  <2>1. CASE WalkInterrupted
    BY <2>1, FailKeeps DEF WalkInterrupted
  <2> QED
    BY <1>2, <2>1, ListDirectoryKeeps, RemoteFailsKeeps, VisitFileKeeps, VisitDirKeeps, MissKeeps,
       ListingDoneKeeps DEF List
<1>3. CASE \E p \in Files \cup Dirs : Appear(p) \/ Vanish(p)
  BY <1>3, ChangeKeeps
<1>4. CASE UNCHANGED listingVars
  BY <1>4 DEF listingVars, ListingInv, ListingTypeOK, Closed, RootOK, WaitingOK, FoundOK,
              CoverOK, Covered,
              ListedWhatStayed, PlacedOK, SeenOK, ListedDir, Base, HomeBase, Coherent, Scanning,
              InScope, Depth, EntryPath, Excluded
<1> QED
  BY <1>1, <1>2, <1>3, <1>4 DEF ListingNext

LEMMA Always == ListingSpec => []ListingInv
  BY InitInv, StepInv, PTL DEF ListingSpec

--------------------------------------------------------------------------------
(* Results. *)

\* Every variable of the listing has its type, whatever the drive and the settings.
THEOREM ListingTypeCorrect == ListingSpec => []ListingTypeOK
<1>1. ListingInv => ListingTypeOK
  BY DEF ListingInv
<1> QED
  BY <1>1, Always, PTL

\* A listing the engine accepts has every file that was on the drive all the
\* time and is neither too deep nor excluded nor behind what a local walk could not read.
THEOREM ListedWhatStayedHolds == ListingSpec => []ListedWhatStayed
<1>1. ListingInv => ListedWhatStayed
  BY DEF ListingInv
<1> QED
  BY <1>1, Always, PTL

\* Remote listings and their local fallbacks give a file one path, in every run,
\* and two files two paths, if the access path shows the remote root.
THEOREM OutputIsStableHolds == ListingSpec => []OutputIsStable
<1>1. ListingInv => OutputIsStable
  <2> SUFFICES ASSUME ListingInv, Coherent(setup), NEW d \in placed, NEW e \in placed
               PROVE  d.file = e.file <=> d.path = e.path
    BY DEF OutputIsStable
  <2>1. /\ Inside(d.file, HomeBase) /\ d.path = Rel(d.file, HomeBase)
        /\ Inside(e.file, HomeBase) /\ e.path = Rel(e.file, HomeBase)
    BY DEF ListingInv, PlacedOK
  <2>2. d.file \in Path /\ e.file \in Path /\ setup \in Setups
    BY ListingAssumption DEF ListingInv, ListingTypeOK
  <2>3. HomeBase \in Path
    BY <2>2, RemoteRootType, SettingTypes DEF HomeBase
  <2> QED
    BY <2>1, <2>2, <2>3, RelInjective
<1> QED
  BY <1>1, Always, PTL

\* With a mount path apart from the access path nothing is mapped twice.
LEMMA NotMapped ==
  ASSUME NEW s \in Setups, MountIsApart(s), NEW path \in Path
  PROVE  Mapped(s, StrmRoot(s) \o path) = StrmRoot(s) \o path
<1>1. CASE ~UsesLocalDriver(s)
  BY <1>1 DEF Mapped
<1>2. CASE UsesLocalDriver(s) /\ s.access = s.mount
  BY <1>2 DEF Mapped, Cleaned
<1>3. CASE UsesLocalDriver(s) /\ s.access # s.mount
  <2>1. s.access # None /\ s.mount # None
    BY <1>3, ListingAssumption DEF MountIsApart
  <2>2. s.access \in Path /\ s.mount \in Path
    BY <2>1, SettingTypes
  <2>3. PICK text \in Path : text = s.mount \o path
    BY <2>2, ConcatProperties DEF Path
  <2>4. /\ Len(text) = Len(s.mount) + Len(path)
        /\ \A i \in 1..Len(s.mount) : text[i] = s.mount[i]
    BY <2>2, <2>3, ConcatProperties DEF Path
  <2>5. ~Inside(text, s.access)
    <3>1. SUFFICES ASSUME Inside(text, s.access)
                   PROVE  Inside(s.mount, s.access) \/ Inside(s.access, s.mount)
      BY <1>3 DEF MountIsApart
    <3>2. Len(s.mount) \in Nat /\ Len(s.access) \in Nat
      BY <2>2 DEF Path
    <3>3. CASE Len(s.access) <= Len(s.mount)
      BY <2>4, <3>1, <3>2, <3>3 DEF Inside
    <3>4. CASE Len(s.mount) <= Len(s.access)
      BY <2>4, <3>1, <3>2, <3>4 DEF Inside
    <3> QED
      BY <3>2, <3>3, <3>4
  <2> QED
    BY <2>1, <2>3, <2>5 DEF Mapped, StrmRoot, Cleaned
<1> QED
  BY <1>1, <1>2, <1>3

\* The .strm file of a listed file names that file, whichever driver listed it, if
\* the access path shows the remote root and the mount path is set and apart from it.
THEOREM StrmNamesTheFileHolds == ListingSpec => []StrmNamesTheFile
<1>1. ListingInv => StrmNamesTheFile
  <2> SUFFICES ASSUME ListingInv, phase = "listed", Coherent(setup), MountIsApart(setup), NEW e \in found,
                      setup.access = None \/ ~Inside(Root \o e.path, setup.access)
               PROVE  StrmText(setup, e.path) = PlayerPath(setup, e.file)
    BY DEF StrmNamesTheFile
  <2>1. /\ setup \in Setups /\ e.file \in Path /\ e.path \in Path /\ e.path = Rel(e.file, Base)
        /\ lister \in {"remote", "local"}
    BY ListingAssumption DEF ListingInv, ListingTypeOK, FoundOK, EntryPath
  <2>2. CASE setup.type # "local" /\ ~UsesLocalDriver(setup)
    <3>1. ~Overridden(setup) /\ ListsRemotely(setup)
      BY <2>2 DEF Overridden, ListsRemotely
    <3>2. Base = <<>>
      BY <2>1, <3>1 DEF ListingInv, RootOK, Base, RemoteBase
    <3>3. Rel(e.file, <<>>) = e.file
      BY <2>1, SubSeqFull DEF Rel, Path
    <3> QED
      BY <2>1, <2>2, <3>2, <3>3 DEF StrmText, Mapped, DriverText, PlayerPath
  <2>3. CASE setup.type = "local" \/ UsesLocalDriver(setup)
    <3>1. Base = setup.shown
      BY <2>1, <2>3 DEF ListingInv, RootOK, Base, RemoteBase, ListsRemotely, Overridden, UsesLocalDriver,
                        Coherent
    <3>2. DriverText(setup, e.path) = StrmRoot(setup) \o e.path
      <4>1. setup.access # None
        BY <2>1, <2>3, ListingAssumption DEF UsesLocalDriver
      <4>2. ~Inside(Root \o e.path, ScanRoot(setup))
        BY <4>1 DEF ScanRoot
      <4> QED
        BY <2>3, <4>2 DEF DriverText
    <3>3. PlayerPath(setup, e.file) = StrmRoot(setup) \o e.path
      BY <2>1, <2>3, <3>1 DEF PlayerPath
    <3> QED
      BY <2>1, <3>2, <3>3, NotMapped DEF StrmText
  <2> QED
    BY <2>2, <2>3
<1> QED
  BY <1>1, Always, PTL

--------------------------------------------------------------------------------
(* Exclusions.  The path an entry has names it below Base, the path of an    *)
(* exclusion below the directory listed: the two agree where that directory  *)
(* is Base followed by the names of the engine's path.                       *)

LEMMA RelValue ==
  ASSUME NEW p \in Path, NEW dir \in Path, Len(dir) <= Len(p)
  PROVE  /\ Len(Rel(p, dir)) = Len(p) - Len(dir)
         /\ \A i \in 1..Len(p) - Len(dir) : Rel(p, dir)[i] = p[Len(dir) + i]
<1>1. Len(p) \in Nat /\ Len(dir) \in Nat
  BY DEF Path
<1> QED
  BY <1>1, SubSeqProperties DEF Rel, Path

LEMMA RelOfRel ==
  ASSUME NEW f \in Path, NEW base \in Path, NEW root \in Path, Inside(f, base \o root)
  PROVE  /\ Inside(Rel(f, base), root)
         /\ Rel(Rel(f, base), root) = Rel(f, base \o root)
<1>1. Len(f) \in Nat /\ Len(base) \in Nat /\ Len(root) \in Nat
  BY DEF Path
<1>2. /\ base \o root \in Path /\ Len(base \o root) = Len(base) + Len(root)
      /\ \A i \in 1..Len(base) + Len(root) :
           (base \o root)[i] = IF i <= Len(base) THEN base[i] ELSE root[i - Len(base)]
  BY ConcatProperties DEF Path
<1>3. Len(base) + Len(root) <= Len(f)
  BY <1>2 DEF Inside
<1>4. PICK g \in Path : g = Rel(f, base)
  BY RelType
<1>5. Len(g) = Len(f) - Len(base) /\ \A i \in 1..Len(f) - Len(base) : g[i] = f[Len(base) + i]
  BY <1>1, <1>3, <1>4, RelValue
<1>6. Inside(g, root)
  <2>1. ASSUME NEW i \in 1..Len(root) PROVE g[i] = root[i]
    <3>1. /\ i \in 1..Len(f) - Len(base) /\ Len(base) + i \in 1..Len(base) + Len(root)
          /\ ~(Len(base) + i <= Len(base)) /\ Len(base) + i - Len(base) = i
      BY <1>1, <1>3
    <3>2. f[Len(base) + i] = (base \o root)[Len(base) + i]
      BY <1>2, <3>1 DEF Inside
    <3> QED
      BY <1>2, <1>5, <3>1, <3>2
  <2> QED
    BY <1>1, <1>3, <1>5, <2>1 DEF Inside
<1>7. PICK h \in Path : h = Rel(g, root)
  BY RelType
<1>8. PICK k \in Path : k = Rel(f, base \o root)
  BY <1>2, RelType
<1>9. /\ Len(h) = Len(g) - Len(root)
      /\ \A i \in 1..Len(g) - Len(root) : h[i] = g[Len(root) + i]
  BY <1>6, <1>7, RelValue DEF Inside
<1>10. /\ Len(k) = Len(f) - Len(base \o root)
       /\ \A i \in 1..Len(f) - Len(base \o root) : k[i] = f[Len(base \o root) + i]
  BY <1>1, <1>2, <1>3, <1>8, RelValue
<1>11. Len(h) = Len(k)
  BY <1>1, <1>2, <1>5, <1>9, <1>10
<1>12. ASSUME NEW i \in 1..Len(h) PROVE h[i] = k[i]
  <2>1. /\ i \in 1..Len(g) - Len(root) /\ i \in 1..Len(f) - Len(base \o root)
        /\ Len(root) + i \in 1..Len(f) - Len(base)
        /\ Len(base) + (Len(root) + i) = Len(base \o root) + i
    BY <1>1, <1>2, <1>3, <1>5, <1>9
  <2> QED
    BY <1>5, <1>9, <1>10, <2>1
<1>13. h = k
  BY <1>11, <1>12, SeqEqual DEF Path
<1> QED
  BY <1>4, <1>6, <1>7, <1>8, <1>13

LEMMA NamesOfRoot == Names(Root) = <<>> /\ Abs(Root)
  BY HeadTailProperties DEF Names, Abs, Root

\* The source of a local server, below its access path, begins with no "/".
LEMMA SourceBelowAccess ==
  ASSUME NEW s \in Setups, s.access # None, Inside(s.source, s.access)
  PROVE  ~Abs(Rel(s.source, s.access))
<1>1. s.source \in Path /\ s.access \in Path /\ s.access # <<>>
  BY SettingTypes, ListingAssumption
<1>2. Len(s.access) \in Nat /\ Len(s.access) # 0 /\ Len(s.source) \in Nat
      /\ Len(s.access) <= Len(s.source)
  BY <1>1 DEF Path, Inside
<1>3. PICK r \in Path : r = Rel(s.source, s.access)
  BY <1>1, RelType
<1>4. /\ Len(r) = Len(s.source) - Len(s.access)
      /\ \A i \in 1..Len(s.source) - Len(s.access) : r[i] = s.source[Len(s.access) + i]
  BY <1>1, <1>2, <1>3, RelValue
<1>5. SUFFICES ASSUME r # <<>> PROVE r[1] # "/"
  BY <1>3 DEF Abs
<1>6. 1 \in 1..Len(s.source) - Len(s.access) /\ Len(s.access) + 1 \in 2..Len(s.source)
  BY <1>2, <1>4, <1>5 DEF Path
<1> QED
  BY <1>4, <1>6, ListingAssumption

\* A local listing where exclusions apply begins at the engine's path.
LEMMA LocalRootNames ==
  ASSUME NEW s \in Setups, s.access # None, LocalRoot(s) # None, ExclusionsApply(s),
         ListsRemotely(s) => Overridden(s)
  PROVE  LocalRoot(s) = Names(EngineRoot(s))
<1>1. CASE EngineRoot(s) = Root
  BY <1>1, NamesOfRoot DEF LocalRoot
<1>2. CASE EngineRoot(s) # Root /\ ~Abs(EngineRoot(s))
  BY <1>2 DEF LocalRoot, Names
<1>3. CASE EngineRoot(s) # Root /\ Abs(EngineRoot(s))
  <2>1. s.type = "local"
    BY <1>3 DEF ExclusionsApply, ListsRemotely, Overridden
  <2>2. EngineRoot(s) # None
    BY DEF LocalRoot
  <2>3. Inside(s.source, s.access) /\ EngineRoot(s) = Rel(s.source, s.access)
    BY <1>3, <2>1, <2>2 DEF EngineRoot
  <2> QED
    BY <1>3, <2>3, SourceBelowAccess
<1> QED
  BY <1>1, <1>2, <1>3

\* Where exclusions apply, a path is excluded by what it is below the directory listed.
LEMMA ExcludedBelow ==
  ASSUME ListingInv, phase = "listed", lister = "local" => LocalRoot(setup) # None,
         ExclusionsApply(setup), NEW f \in Path, Inside(f, ListedDir)
  PROVE  Excluded(setup, EntryPath(f)) <=>
           \E dir \in setup.exclude : Inside(Rel(f, ListedDir), dir)
<1> DEFINE root == Names(EngineRoot(setup))
<1>1. SUFFICES root \in Path /\ ListedDir = Base \o root
  BY RelOfRel DEF ListingInv, RootOK, Excluded, EntryPath
<1>2. setup \in Setups /\ lister \in {"remote", "local"} /\ ListedDir \in Path /\ Base \in Path
  BY DEF ListingInv, ListingTypeOK, RootOK
<1>3. CASE lister = "remote" /\ Overridden(setup)
  <2>1. root = <<>>
    BY <1>3, NamesOfRoot DEF ExclusionsApply, Overridden
  <2>2. ListedDir = Base
    BY <1>3 DEF ListedDir, Base, RemoteRoot, RemoteBase
  <2>3. Base \o <<>> = Base /\ <<>> \in Path
    BY <1>2, ConcatEmptySeq DEF Path
  <2> QED
    BY <2>1, <2>2, <2>3
<1>4. CASE lister = "remote" /\ ~Overridden(setup)
  <2>1. ListedDir = root /\ Base = <<>>
    BY <1>4 DEF ListedDir, Base, RemoteRoot, RemoteBase
  <2>2. <<>> \o root = root
    BY <1>2, <2>1, ConcatEmptySeq DEF Path
  <2> QED
    BY <1>2, <2>1, <2>2
<1>5. CASE lister = "local"
  <2>1. ListsRemotely(setup) => Overridden(setup)
    BY <1>5 DEF ListingInv, RootOK
  <2>2. setup.access # None
    BY <1>2, <2>1, LocalHasAccess, ListingAssumption DEF Overridden, UsesLocalDriver
  <2>3. LocalRoot(setup) = root /\ root \in Path
    BY <1>2, <1>5, <2>1, <2>2, LocalRootNames, LocalRootType
  <2> QED
    BY <1>5, <2>3 DEF ListedDir, Base
<1> QED
  BY <1>2, <1>3, <1>4, <1>5

\* Nothing excluded is left in an accepted listing, and who lists locally has a
\* directory to begin at.
FilteredOK ==
  /\ phase \in {"listing", "listed"} /\ lister = "local" => LocalRoot(setup) # None
  /\ phase = "listed" => \A e \in found : ~Excluded(setup, e.path)

LEMMA FilteredStep ==
  ASSUME FilteredOK, [ListingNext]_listingVars
  PROVE  FilteredOK'
<1>1. CASE ListingBegins \/ RemoteFails
  BY <1>1 DEF ListingBegins, RemoteFails, StartLocal, Start, Fail, FilteredOK
<1>2. CASE ListDirectory \/ VisitFile \/ VisitDir \/ Miss
  BY <1>2 DEF ListDirectory, VisitFile, VisitDir, Miss, Scanning, FilteredOK
<1>3. CASE WalkInterrupted
  BY <1>3 DEF WalkInterrupted, Fail, FilteredOK
<1>4. CASE ListingDone
  BY <1>4 DEF ListingDone, Scanning, FilteredOK
<1>5. CASE (\E p \in Files \cup Dirs : Appear(p) \/ Vanish(p)) \/ UNCHANGED listingVars
  <2>1. UNCHANGED <<setup, phase, lister, found>>
    BY <1>5 DEF Appear, Vanish, listingVars
  <2> QED
    BY <2>1 DEF FilteredOK
<1> QED
  BY <1>1, <1>2, <1>3, <1>4, <1>5 DEF ListingNext, List

\* A file that stays is left out of an accepted listing if and only if it lies in
\* a directory the job excludes, by its path in the directory listed, whichever
\* driver listed it and whatever paths that driver gives its entries.
THEOREM ExclusionsAreKeptHolds == ListingSpec => []ExclusionsAreKept
<1>1. ListingInv /\ FilteredOK => ExclusionsAreKept
  <2> SUFFICES ASSUME ListingInv, FilteredOK, phase = "listed", ExclusionsApply(setup),
                      NEW f \in Files \cap stayed, InScope(f), \A p \in missed : ~Inside(f, p)
               PROVE  (\E e \in found : e.file = f)
                        <=> ~\E dir \in setup.exclude : Inside(Rel(f, ListedDir), dir)
    BY DEF ExclusionsAreKept
  <2>1. Excluded(setup, EntryPath(f)) <=>
          \E dir \in setup.exclude : Inside(Rel(f, ListedDir), dir)
    BY ExcludedBelow, ListingAssumption DEF FilteredOK, InScope
  <2>2. Excluded(setup, EntryPath(f)) => ~\E e \in found : e.file = f
    BY DEF ListingInv, FoundOK, FilteredOK
  <2>3. ~Excluded(setup, EntryPath(f)) => [file |-> f, path |-> EntryPath(f)] \in found
    BY DEF ListingInv, ListedWhatStayed
  <2> QED
    BY <2>1, <2>2, <2>3
<1>2. ListingInit => FilteredOK
  BY DEF ListingInit, FilteredOK
<1>3. FilteredOK /\ [ListingNext]_listingVars => FilteredOK'
  BY FilteredStep
<1> QED
  BY <1>1, <1>2, <1>3, Always, PTL DEF ListingSpec

-------------------------------------------------------------------------------
(***************************************************************************)
(* The run: what becomes of the listed sources (module Engine).            *)
(***************************************************************************)
USE EngineAssumption

ProgramCounter == Active \cup Ends \cup {"none", "start"}

LEMMA SetField ==
  ASSUME NEW r \in Run
  PROVE  /\ \A x \in Working \cup {"idle", "done", "failed"} : [r EXCEPT !.phase = x] \in Run
         /\ \A x \in SUBSET Sources : [r EXCEPT !.toScan = x] \in Run
         /\ \A x \in [Sources -> Times \cup {Absent}] : [r EXCEPT !.entries = x] \in Run
         /\ \A x \in [Sources -> ProgramCounter] : [r EXCEPT !.pc = x] \in Run
         /\ \A x \in [Sources -> Times \cup {WriteTime, 0}] : [r EXCEPT !.seen = x] \in Run
         /\ \A x \in SUBSET Outputs : [r EXCEPT !.toVisit = x] \in Run
         /\ \A x \in SUBSET Outputs : [r EXCEPT !.kept = x] \in Run
         /\ \A x \in SUBSET Sources : [r EXCEPT !.gone = x] \in Run
         /\ \A x \in BOOLEAN : [r EXCEPT !.alone = x] \in Run
  BY DEF Run, ProgramCounter

LEMMA GotoType ==
  ASSUME run \in [Engines -> Run], NEW e \in Engines, NEW s \in Sources,
         NEW step \in ProgramCounter, Goto(e, s, step)
  PROVE  run' \in [Engines -> Run]
<1> DEFINE p == [run[e].pc EXCEPT ![s] = step]
<1>1. p \in [Sources -> ProgramCounter]
  BY DEF Run, ProgramCounter
<1>2. [run[e] EXCEPT !.pc = p] \in Run
  BY <1>1, SetField
<1>3. run' = [run EXCEPT ![e] = [run[e] EXCEPT !.pc = p]]
  BY DEF Goto
<1> QED
  BY <1>2, <1>3

LEMMA NewRunType ==
  ASSUME NEW result \in Working \cup {"idle", "done", "failed"}
  PROVE  NewRun(result) \in Run
  BY DEF NewRun, Run

(***************************************************************************)
(* Types.                                                                  *)
(***************************************************************************)
\* A run at work has options, only listed files have a goroutine, and only files
\* with a known time get to Chtimes.
RunOK(r) ==
  /\ r.phase \in Working => r.opts \in Options
  /\ \A s \in Sources : r.pc[s] # "none" =>
       r.phase \in {"files", "orphans"} /\ s \in r.opts.match /\ r.entries[s] # Absent
  /\ \A s \in Sources : r.pc[s] = "times" => r.entries[s] # 0

TypeInv == EngineTypeOK /\ \A e \in Engines : RunOK(run[e])

\* What a goroutine changes: its own place, what it saw, and its output, which it
\* does not remove.
FileStep(e, s) ==
  /\ \A f \in Engines : f # e => run'[f] = run[f]
  /\ run'[e] = [run[e] EXCEPT !.pc = run'[e].pc, !.seen = run'[e].seen]
  /\ \A q \in Sources : q # s => /\ run'[e].pc[q] = run[e].pc[q]
                                 /\ run'[e].seen[q] = run[e].seen[q]
  /\ run'[e].pc[s] \in Active \cup Ends
  /\ \A o \in Outputs : o # OutputOf[s] => target'[o] = target[o]
  /\ target'[OutputOf[s]].content = Missing => target[OutputOf[s]].content = Missing
  /\ UNCHANGED <<remote, cancelled>>

LEMMA ListedWorks ==
  ASSUME TypeInv, NEW e \in Engines, NEW s \in Sources, run[e].pc[s] # "none"
  PROVE  /\ run[e].phase \in {"files", "orphans"} /\ run[e].opts \in Options
         /\ s \in Listed(e) /\ run[e].entries[s] \in Times
         /\ Mine(e, s) \in Strm
<1>1. run[e] \in Run /\ run[e].phase \in {"files", "orphans"} /\ s \in Listed(e)
  BY DEF TypeInv, RunOK, EngineTypeOK, Run, Listed
<1>2. run[e].opts \in Options
  BY <1>1 DEF TypeInv, RunOK, Working
<1>3. run[e].entries[s] \in Times
  BY <1>1 DEF Listed, Run
<1>4. Mine(e, s) \in Strm
  BY <1>2 DEF Mine, Strm, Setting
<1> QED
  BY <1>1, <1>2, <1>3, <1>4

LEMMA GotoStep ==
  ASSUME TypeInv, NEW e \in Engines, NEW s \in Sources,
         NEW step \in Active \cup Ends, Goto(e, s, step)
  PROVE  /\ run' \in [Engines -> Run]
         /\ \A f \in Engines : f # e => run'[f] = run[f]
         /\ run'[e] = [run[e] EXCEPT !.pc = run'[e].pc, !.seen = run'[e].seen]
         /\ \A q \in Sources : q # s => /\ run'[e].pc[q] = run[e].pc[q]
                                        /\ run'[e].seen[q] = run[e].seen[q]
         /\ run'[e].pc[s] = step
<1>1. run' \in [Engines -> Run]
  BY GotoType DEF TypeInv, EngineTypeOK, ProgramCounter
<1>2. run[e] \in Run
  BY DEF TypeInv, EngineTypeOK
<1>3. run' = [run EXCEPT ![e] = [run[e] EXCEPT !.pc = [run[e].pc EXCEPT ![s] = step]]]
  BY DEF Goto
<1> QED
  BY <1>1, <1>2, <1>3 DEF TypeInv, EngineTypeOK, Run

LEMMA QuietStep ==
  ASSUME TypeInv, NEW e \in Engines, NEW s \in Sources,
         NEW step \in Active \cup Ends, Goto(e, s, step), UNCHANGED <<remote, target, cancelled>>
  PROVE  /\ run' \in [Engines -> Run] /\ target' \in [Outputs -> File]
         /\ FileStep(e, s)
  BY GotoStep DEF FileStep, TypeInv, EngineTypeOK

LEMMA GotoPlace ==
  ASSUME TypeInv, NEW e \in Engines, NEW s \in Sources,
         NEW step \in Active \cup Ends, Goto(e, s, step)
  PROVE  run'[e].pc[s] = step
<1>1. run[e] \in Run
  BY DEF TypeInv, EngineTypeOK
<1>2. run' = [run EXCEPT ![e] = [run[e] EXCEPT !.pc = [run[e].pc EXCEPT ![s] = step]]]
  BY DEF Goto
<1> QED
  BY <1>1, <1>2 DEF TypeInv, EngineTypeOK, Run

LEMMA StatStep ==
  ASSUME TypeInv, NEW e \in Engines, NEW s \in Sources, Stat(e, s)
  PROVE  run' \in [Engines -> Run] /\ FileStep(e, s) /\ run'[e].pc[s] # "times"
<1> DEFINE o == OutputOf[s]
<1>1. ASSUME NEW step \in {"end", "open"}, Goto(e, s, step)
      PROVE  run' \in [Engines -> Run] /\ FileStep(e, s) /\ run'[e].pc[s] # "times"
  <2>1. step \in Active \cup Ends
    BY DEF Active, Ends
  <2>2. UNCHANGED <<remote, target, cancelled>>
    BY DEF Stat
  <2>3. /\ run' \in [Engines -> Run]
        /\ FileStep(e, s)
    BY <1>1, <2>1, <2>2, QuietStep
  <2>4. run'[e].pc[s] = step
    BY <1>1, <2>1, GotoPlace
  <2> QED
    BY <2>3, <2>4
<1>2. CASE \E step \in {"skip", "open", "read"} :
             run' = [run EXCEPT ![e].seen[s] = target[o].time, ![e].pc[s] = step]
  <2>1. PICK step \in {"skip", "open", "read"} :
               run' = [run EXCEPT ![e].seen[s] = target[o].time, ![e].pc[s] = step]
    BY <1>2
  <2> DEFINE p == [run[e].pc EXCEPT ![s] = step]
             q == [run[e].seen EXCEPT ![s] = target[o].time]
             new == [[run[e] EXCEPT !.seen = q] EXCEPT !.pc = p]
  <2>2. run[e] \in Run /\ target[o] \in File
    BY DEF TypeInv, EngineTypeOK
  <2>3. p \in [Sources -> ProgramCounter] /\ q \in [Sources -> Times \cup {WriteTime, 0}]
    BY <2>2 DEF Run, ProgramCounter, Active, File
  <2>4. new \in Run
    BY <2>2, <2>3, SetField
  <2>5. run' = [run EXCEPT ![e] = new]
    BY <2>1
  <2>6. run' \in [Engines -> Run]
    BY <2>4, <2>5 DEF TypeInv, EngineTypeOK
  <2>7. new = [run[e] EXCEPT !.pc = new.pc, !.seen = new.seen] /\ new.pc = p /\ new.seen = q
    BY <2>2 DEF Run
  <2>8. run'[e] = new /\ \A f \in Engines : f # e => run'[f] = run[f]
    BY <2>5 DEF TypeInv, EngineTypeOK
  <2>9. p[s] \in (Active \cup Ends) \ {"times"} /\ \A r \in Sources : r # s => p[r] = run[e].pc[r] /\ q[r] = run[e].seen[r]
    BY <2>2 DEF Run, Active
  <2>10. UNCHANGED <<remote, target, cancelled>>
    BY DEF Stat
  <2> HIDE DEF new, p, q
  <2>11. run'[e] = [run[e] EXCEPT !.pc = run'[e].pc, !.seen = run'[e].seen]
    BY <2>7, <2>8
  <2>12. run'[e].pc = p /\ run'[e].seen = q
    BY <2>7, <2>8
  <2> QED
    BY <2>6, <2>8, <2>9, <2>10, <2>11, <2>12 DEF FileStep
<1> QED
  BY <1>1, <1>2 DEF Stat

\* A step of a goroutine with what it writes to its output.
LEMMA WriteStep ==
  ASSUME TypeInv, NEW e \in Engines, NEW s \in Sources,
         NEW step \in Active \cup Ends, Goto(e, s, step),
         NEW file \in File, file.content # Missing \/ file.content = target[OutputOf[s]].content,
         target' = [target EXCEPT ![OutputOf[s]] = file], UNCHANGED <<remote, cancelled>>
  PROVE  /\ run' \in [Engines -> Run] /\ target' \in [Outputs -> File]
         /\ FileStep(e, s)
<1>1. target \in [Outputs -> File] /\ OutputOf[s] \in Outputs
  BY DEF TypeInv, EngineTypeOK
<1>2. target' \in [Outputs -> File]
  BY <1>1
<1>3. target'[OutputOf[s]] = file /\ \A o \in Outputs : o # OutputOf[s] => target'[o] = target[o]
  BY <1>1
<1>4. target'[OutputOf[s]].content = Missing => target[OutputOf[s]].content = Missing
  BY <1>3
<1>5. UNCHANGED <<remote, cancelled>>
  OBVIOUS
<1>6. /\ run' \in [Engines -> Run]
      /\ \A f \in Engines : f # e => run'[f] = run[f]
      /\ run'[e] = [run[e] EXCEPT !.pc = run'[e].pc, !.seen = run'[e].seen]
      /\ \A q \in Sources : q # s => /\ run'[e].pc[q] = run[e].pc[q]
                                     /\ run'[e].seen[q] = run[e].seen[q]
      /\ run'[e].pc[s] \in Active \cup Ends
  BY GotoStep
<1> QED
  BY ONLY <1>2, <1>3, <1>4, <1>5, <1>6 DEF FileStep

LEMMA GoroutineStep ==
  ASSUME TypeInv, NEW e \in Engines, NEW s \in Sources, Goroutine(e, s)
  PROVE  /\ run[e].pc[s] # "none"
         /\ run' \in [Engines -> Run] /\ target' \in [Outputs -> File]
         /\ FileStep(e, s)
<1> USE DEF At
<1>0. /\ run[e].pc[s] # "none"
      /\ "open" \in Active \cup Ends /\ "read" \in Active \cup Ends
      /\ "end" \in Active \cup Ends /\ "times" \in Active \cup Ends
      /\ "failed" \in Active \cup Ends
  BY DEF Goroutine, Active, Ends, Acquire, Leave, Stat, SkipRead, Read, Open, WriteContent,
         WriteLost, Chtimes, ChtimesFails, FileFails, WriteFails
<1>1. CASE Acquire(e, s)
  BY <1>0, <1>1, QuietStep DEF Acquire, Active
<1>2. CASE Leave(e, s)
  BY <1>0, <1>2, QuietStep DEF Leave, Ends
<1>3. CASE Stat(e, s)
  <2>1. target' = target
    BY <1>3 DEF Stat
  <2> QED
    BY <1>0, <1>3, <2>1, StatStep DEF TypeInv, EngineTypeOK
<1>4. CASE SkipRead(e, s)
  BY <1>0, <1>4, QuietStep DEF SkipRead
<1>5. CASE Read(e, s)
  BY <1>0, <1>5, QuietStep DEF Read
<1>6. CASE Open(e, s)
  <2>1. [content |-> Blank, time |-> WriteTime] \in File
    BY DEF File, Content
  <2> QED
    BY <1>0, <1>6, <2>1, WriteStep DEF Open, Active
<1>7. CASE WriteContent(e, s)
  <2>1. PICK c \in {Mine(e, s), Other} :
          target' = [target EXCEPT ![OutputOf[s]] = [content |-> c, time |-> WriteTime]]
    BY <1>7 DEF WriteContent
  <2>2. Mine(e, s) \in Strm
    BY <1>0, ListedWorks
  <2>3. [content |-> c, time |-> WriteTime] \in File /\ c # Missing
    BY <2>2 DEF File, Content
  <2>4. PICK step \in {"end", "times"} : Goto(e, s, step)
    BY <1>7 DEF WriteContent, AfterWrite
  <2>5. UNCHANGED <<remote, cancelled>>
    BY <1>7 DEF WriteContent
  <2> QED
    BY <1>0, <2>1, <2>3, <2>4, <2>5, WriteStep
<1>8. CASE WriteLost(e, s)
  BY <1>0, <1>8, QuietStep DEF WriteLost, AfterWrite
<1>9. CASE Chtimes(e, s)
  <2> DEFINE f == target[OutputOf[s]]
             g == [f EXCEPT !.time = run[e].entries[s]]
  <2>1. f \in File
    BY DEF TypeInv, EngineTypeOK
  <2>2. run[e].entries[s] \in Times \ {0}
    BY <1>0, <1>9, ListedWorks DEF Chtimes, TypeInv, RunOK
  <2>3. g \in File /\ g.content = f.content
    BY <2>1, <2>2 DEF File
  <2>4. target' = [target EXCEPT ![OutputOf[s]] = g]
    BY <1>9 DEF Chtimes
  <2>5. Goto(e, s, "end") /\ UNCHANGED <<remote, cancelled>>
    BY <1>9 DEF Chtimes
  <2> HIDE DEF g
  <2> QED
    BY <1>0, <2>3, <2>4, <2>5, WriteStep
<1>10. CASE ChtimesFails(e, s)
  BY <1>0, <1>10, QuietStep DEF ChtimesFails, Ends
<1>11. CASE FileFails(e, s)
  BY <1>0, <1>11, QuietStep DEF FileFails
<1>12. CASE WriteFails(e, s)
  <2>1. [content |-> Other, time |-> WriteTime] \in File
    BY DEF File, Content
  <2> QED
    BY <1>0, <1>12, <2>1, WriteStep DEF WriteFails
<1> QED
  BY <1>1, <1>2, <1>3, <1>4, <1>5, <1>6, <1>7, <1>8, <1>9, <1>10, <1>11, <1>12 DEF Goroutine

LEMMA TimesStep ==
  ASSUME TypeInv, NEW e \in Engines, NEW s \in Sources, Goroutine(e, s),
         run'[e].pc[s] = "times"
  PROVE  run[e].entries[s] # 0
<1>1. ASSUME AfterWrite(e, s), run[e].entries[s] = 0 PROVE FALSE
  <2>1. Goto(e, s, "end")
    BY <1>1 DEF AfterWrite
  <2>2. run'[e].pc[s] = "end"
    BY <2>1, GotoPlace DEF Ends
  <2> QED
    BY <2>2
<1>2. ASSUME Stat(e, s) PROVE FALSE
  BY <1>2, StatStep
<1>3. ASSUME NEW step \in (Active \cup Ends) \ {"times"}, Goto(e, s, step) PROVE FALSE
  <2>1. run'[e].pc[s] = step
    BY <1>3, GotoPlace
  <2> QED
    BY <1>3, <2>1
<1>4. \/ AfterWrite(e, s) \/ Stat(e, s)
      \/ \E step \in (Active \cup Ends) \ {"times"} : Goto(e, s, step)
  BY DEF Goroutine, Acquire, Leave, SkipRead, Read, Open, WriteContent, WriteLost, Chtimes,
         ChtimesFails, FileFails, WriteFails, Active, Ends
<1> QED
  BY <1>1, <1>2, <1>3, <1>4

\* A step that gives one run new locals.
LEMMA OneRun ==
  ASSUME TypeInv, NEW e \in Engines, NEW new \in Run, RunOK(new),
         run' = [run EXCEPT ![e] = new],
         remote' = remote, target' \in [Outputs -> File], cancelled' \in BOOLEAN
  PROVE  TypeInv'
  BY DEF TypeInv, EngineTypeOK

LEMMA NewRunOK ==
  ASSUME NEW result \in {"idle", "done", "failed"}
  PROVE  NewRun(result) \in Run /\ RunOK(NewRun(result))
<1>1. NewRun(result) \in Run
  BY NewRunType
<1>2. RunOK(NewRun(result))
  BY DEF RunOK, NewRun, Working
<1> QED
  BY <1>1, <1>2

LEMMA GoroutineType ==
  ASSUME TypeInv, NEW e \in Engines, NEW s \in Sources, Goroutine(e, s)
  PROVE  TypeInv'
<1>1. /\ run[e].pc[s] # "none"
      /\ run' \in [Engines -> Run] /\ target' \in [Outputs -> File]
      /\ FileStep(e, s)
  BY GoroutineStep
<1>2. run'[e].pc[s] = "times" => run[e].entries[s] # 0
  BY TimesStep
<1>3. RunOK(run'[e])
  <2> DEFINE p == run'[e].pc
             q == run'[e].seen
  <2>1. run[e] \in Run /\ RunOK(run[e])
    BY DEF TypeInv, EngineTypeOK
  <2>2. /\ run'[e].phase = run[e].phase /\ run'[e].opts = run[e].opts
        /\ run'[e].entries = run[e].entries
    BY <1>1, <2>1 DEF FileStep, Run
  <2>3. \A r \in Sources : r # s => run'[e].pc[r] = run[e].pc[r]
    BY <1>1 DEF FileStep
  <2> QED
    BY <1>1, <1>2, <2>1, <2>2, <2>3 DEF RunOK
<1>4. \A f \in Engines : RunOK(run'[f])
  BY <1>1, <1>3 DEF FileStep, TypeInv
<1> QED
  BY <1>1, <1>4 DEF FileStep, TypeInv, EngineTypeOK

LEMMA BeginType ==
  ASSUME TypeInv, NEW e \in Engines, NEW o \in Options, Begin(e, o)
  PROVE  TypeInv'
<1> DEFINE gone == {s \in o.match : remote[s] = Absent}
           solo == \A g \in Engines \ {e} : ~AtWork(g)
           fresh == NewRun("scan")
           new == [fresh EXCEPT !.opts = o, !.toScan = o.match, !.gone = gone, !.alone = solo]
<1>1. o \in Setting /\ o.match \in SUBSET Sources /\ gone \in SUBSET Sources /\ solo \in BOOLEAN
  BY DEF Setting
<1>2. new \in Run /\ RunOK(new)
  BY <1>1 DEF NewRun, Run, RunOK, Working
<1>3. \A f \in Engines : [run[f] EXCEPT !.alone = FALSE] \in Run
                       /\ RunOK([run[f] EXCEPT !.alone = FALSE])
  <2> SUFFICES ASSUME NEW f \in Engines
               PROVE  /\ [run[f] EXCEPT !.alone = FALSE] \in Run
                      /\ RunOK([run[f] EXCEPT !.alone = FALSE])
    OBVIOUS
  <2>1. run[f] \in Run /\ RunOK(run[f])
    BY DEF TypeInv, EngineTypeOK
  <2> DEFINE old == [run[f] EXCEPT !.alone = FALSE]
  <2>2. old \in Run
    BY <2>1, SetField
  <2>3. /\ old.phase = run[f].phase /\ old.opts = run[f].opts /\ old.pc = run[f].pc
        /\ old.entries = run[f].entries
    BY <2>1 DEF Run
  <2> HIDE DEF old
  <2>4. RunOK(old)
    BY <2>1, <2>3 DEF RunOK
  <2> QED
    BY <2>2, <2>4 DEF old
<1>4. run' = [f \in Engines |-> IF f # e THEN [run[f] EXCEPT !.alone = FALSE] ELSE new]
  BY DEF Begin
<1>5. UNCHANGED <<remote, target, cancelled>>
  BY DEF Begin
<1> HIDE DEF new
<1> QED
  BY <1>2, <1>3, <1>4, <1>5 DEF TypeInv, EngineTypeOK

LEMMA ScanType ==
  ASSUME TypeInv, NEW e \in Engines, NEW s \in Sources, ScanEntry(e, s) \/ ScanMisses(e, s)
  PROVE  TypeInv'
<1>1. run[e] \in Run /\ RunOK(run[e]) /\ remote[s] \in Times \cup {Absent}
  BY DEF TypeInv, EngineTypeOK
<1>2. run[e].phase = "scan" /\ UNCHANGED <<remote, target, cancelled>>
  BY DEF ScanEntry, ScanMisses
<1>3. \A q \in Sources : run[e].pc[q] = "none"
  BY <1>1, <1>2 DEF RunOK
<1>4. CASE ScanEntry(e, s)
  <2> DEFINE rest == run[e].toScan \ {s}
             noted == [run[e].entries EXCEPT ![s] = remote[s]]
             new == [[run[e] EXCEPT !.toScan = rest] EXCEPT !.entries = noted]
  <2>1. rest \in SUBSET Sources /\ noted \in [Sources -> Times \cup {Absent}]
    BY <1>1 DEF Run
  <2>2. new \in Run
    BY <1>1, <2>1, SetField
  <2>3. new.phase = run[e].phase /\ new.opts = run[e].opts /\ new.pc = run[e].pc
    BY <1>1 DEF Run
  <2>4. RunOK(new)
    BY <1>1, <1>3, <2>3 DEF RunOK
  <2>5. run' = [run EXCEPT ![e] = new]
    BY <1>4 DEF ScanEntry
  <2> HIDE DEF new
  <2> QED
    BY <1>2, <2>2, <2>4, <2>5, OneRun DEF TypeInv, EngineTypeOK
<1>5. CASE ScanMisses(e, s)
  <2> DEFINE new == [run[e] EXCEPT !.toScan = @ \ {s}]
  <2>1. new \in Run /\ RunOK(new)
    BY <1>1 DEF Run, RunOK
  <2>2. run' = [run EXCEPT ![e] = new]
    BY <1>5 DEF ScanMisses
  <2> HIDE DEF new
  <2> QED
    BY <1>2, <2>1, <2>2, OneRun DEF TypeInv, EngineTypeOK
<1> QED
  BY <1>4, <1>5

LEMMA ScanDoneType ==
  ASSUME TypeInv, NEW e \in Engines, ScanDone(e)
  PROVE  TypeInv'
<1> DEFINE place == [s \in Sources |-> IF s \in Listed(e) THEN "start" ELSE "none"]
           new == [[run[e] EXCEPT !.phase = "files"] EXCEPT !.pc = place]
<1>1. run[e] \in Run /\ RunOK(run[e]) /\ run[e].phase = "scan"
  BY DEF ScanDone, TypeInv, EngineTypeOK
<1>2. place \in [Sources -> ProgramCounter]
  BY DEF ProgramCounter
<1>3. new \in Run
  BY <1>1, <1>2, SetField DEF Working
<1>4. /\ new.phase = "files" /\ new.opts = run[e].opts /\ new.pc = place
      /\ new.entries = run[e].entries
  BY <1>1 DEF Run
<1>5. RunOK(new)
  BY <1>1, <1>4 DEF RunOK, Working, Listed
<1>6. run' = [run EXCEPT ![e] = new] /\ UNCHANGED <<remote, target, cancelled>>
  BY DEF ScanDone
<1> HIDE DEF new
<1> QED
  BY <1>3, <1>5, <1>6, OneRun DEF TypeInv, EngineTypeOK

LEMMA CleanBeginType ==
  ASSUME TypeInv, NEW e \in Engines, CleanBegin(e)
  PROVE  TypeInv'
<1> DEFINE new == [[run[e] EXCEPT !.phase = "orphans"] EXCEPT !.toVisit = Outputs]
<1>1. run[e] \in Run /\ RunOK(run[e]) /\ run[e].phase = "files"
  BY DEF CleanBegin, FilesOver, TypeInv, EngineTypeOK
<1>2. new \in Run
  BY <1>1, SetField DEF Working
<1>3. /\ new.phase = "orphans" /\ new.opts = run[e].opts /\ new.pc = run[e].pc
      /\ new.entries = run[e].entries
  BY <1>1 DEF Run
<1>4. RunOK(new)
  BY <1>1, <1>3 DEF RunOK, Working
<1>5. run' = [run EXCEPT ![e] = new] /\ UNCHANGED <<remote, target, cancelled>>
  BY DEF CleanBegin
<1> HIDE DEF new
<1> QED
  BY <1>2, <1>4, <1>5, OneRun DEF TypeInv, EngineTypeOK

LEMMA EndType ==
  ASSUME TypeInv, NEW e \in Engines, ScanFails(e) \/ Return(e) \/ CleanDone(e)
  PROVE  TypeInv'
<1>1. PICK result \in {"idle", "done", "failed"} : run' = [run EXCEPT ![e] = NewRun(result)]
  BY DEF ScanFails, Return, CleanDone
<1>2. UNCHANGED <<remote, target, cancelled>>
  BY DEF ScanFails, Return, CleanDone
<1> QED
  BY <1>1, <1>2, NewRunOK, OneRun DEF TypeInv, EngineTypeOK

LEMMA VisitType ==
  ASSUME TypeInv, NEW e \in Engines, NEW o \in Outputs, Pass(e, o) \/ DeleteFails(e, o)
  PROVE  TypeInv'
<1>1. run[e] \in Run /\ RunOK(run[e])
  BY DEF TypeInv, EngineTypeOK
<1> DEFINE visited == [run[e] EXCEPT !.toVisit = @ \ {o}]
           new == [visited EXCEPT !.kept = @ \cup {o}]
<1>2. visited \in Run /\ RunOK(visited)
  BY <1>1 DEF Run, RunOK
<1>3. new \in Run /\ RunOK(new)
  BY <1>2 DEF Run, RunOK
<1>4. UNCHANGED <<remote, target, cancelled>>
  BY DEF Pass, DeleteFails
<1>5. run' = [run EXCEPT ![e] = visited] \/ run' = [run EXCEPT ![e] = new]
  BY DEF Pass, DeleteFails
<1> HIDE DEF visited, new
<1> QED
  BY <1>2, <1>3, <1>4, <1>5, OneRun DEF TypeInv, EngineTypeOK

LEMMA DeleteType ==
  ASSUME TypeInv, NEW e \in Engines, NEW o \in Outputs, Delete(e, o)
  PROVE  TypeInv'
<1> DEFINE rest(f) == IF f = e THEN run[f].toVisit \ {o} ELSE run[f].toVisit
           place(f) == [s \in Sources |->
             IF OutputOf[s] = o /\ run[f].pc[s] = "content" THEN "lost" ELSE run[f].pc[s]]
           new(f) == [[run[f] EXCEPT !.toVisit = rest(f)] EXCEPT !.pc = place(f)]
<1>1. ASSUME NEW f \in Engines PROVE new(f) \in Run /\ RunOK(new(f))
  <2>1. run[f] \in Run /\ RunOK(run[f])
    BY DEF TypeInv, EngineTypeOK
  <2>2. rest(f) \in SUBSET Outputs /\ place(f) \in [Sources -> ProgramCounter]
    BY <2>1 DEF Run, ProgramCounter, Active
  <2>3. new(f) \in Run
    BY <2>1, <2>2, SetField
  <2>4. /\ new(f).phase = run[f].phase /\ new(f).opts = run[f].opts /\ new(f).pc = place(f)
        /\ new(f).entries = run[f].entries
    BY <2>1 DEF Run
  <2> HIDE DEF new
  <2>5. RunOK(new(f))
    BY <2>1, <2>4 DEF RunOK
  <2> QED
    BY <2>3, <2>5
<1>2. run' = [f \in Engines |-> new(f)]
  BY DEF Delete
<1>3. NoFile \in File
  BY DEF NoFile, File, Content
<1>4. target' \in [Outputs -> File] /\ UNCHANGED <<remote, cancelled>>
  BY <1>3 DEF Delete, TypeInv, EngineTypeOK
<1> HIDE DEF new
<1> QED
  BY <1>1, <1>2, <1>4 DEF TypeInv, EngineTypeOK

LEMMA RemoteChangeType ==
  ASSUME TypeInv, NEW s \in Sources, RemoteChange(s)
  PROVE  TypeInv'
<1>1. PICK t \in Times \cup {Absent} :
        /\ remote' = [remote EXCEPT ![s] = t]
        /\ run' = [e \in Engines |-> [run[e] EXCEPT
             !.gone = IF t = Absent /\ AtWork(e) THEN @ \cup ({s} \cap run[e].opts.match)
                     ELSE @]]
  BY DEF RemoteChange
<1> DEFINE more(e) == IF t = Absent /\ AtWork(e)
                      THEN run[e].gone \cup ({s} \cap run[e].opts.match) ELSE run[e].gone
           new(e) == [run[e] EXCEPT !.gone = more(e)]
<1>2. ASSUME NEW e \in Engines PROVE new(e) \in Run /\ RunOK(new(e))
  <2>1. run[e] \in Run /\ RunOK(run[e])
    BY DEF TypeInv, EngineTypeOK
  <2>2. more(e) \in SUBSET Sources
    BY <2>1 DEF Run
  <2>3. new(e) \in Run
    BY <2>1, <2>2, SetField
  <2>4. /\ new(e).phase = run[e].phase /\ new(e).opts = run[e].opts
        /\ new(e).pc = run[e].pc /\ new(e).entries = run[e].entries
    BY <2>1 DEF Run
  <2> HIDE DEF new
  <2>5. RunOK(new(e))
    BY <2>1, <2>4 DEF RunOK
  <2> QED
    BY <2>3, <2>5
<1>3. run' = [e \in Engines |-> new(e)]
  BY <1>1
<1>4. remote' \in [Sources -> Times \cup {Absent}]
  BY <1>1 DEF TypeInv, EngineTypeOK
<1>5. UNCHANGED <<target, cancelled>>
  BY DEF RemoteChange
<1> HIDE DEF new
<1> QED
  BY <1>2, <1>3, <1>4, <1>5 DEF TypeInv, EngineTypeOK

LEMMA TypeInvInit == EngineInit => TypeInv
<1> SUFFICES ASSUME EngineInit PROVE TypeInv
  OBVIOUS
<1>1. NewRun("idle") \in Run /\ RunOK(NewRun("idle"))
  BY NewRunOK
<1>2. NoFile \in File /\ [content |-> Other, time |-> WriteTime] \in File
  BY DEF NoFile, File, Content
<1>3. run \in [Engines -> Run] /\ \A e \in Engines : RunOK(run[e])
  BY <1>1 DEF EngineInit
<1> QED
  BY <1>2, <1>3 DEF EngineInit, TypeInv, EngineTypeOK

LEMMA TypeInvNext == TypeInv /\ [EngineNext]_engineVars => TypeInv'
<1> SUFFICES ASSUME TypeInv, [EngineNext]_engineVars PROVE TypeInv'
  OBVIOUS
<1>1. ASSUME NEW e \in Engines, RunStep(e) PROVE TypeInv'
  BY <1>1, GoroutineType, ScanType, ScanDoneType, CleanBeginType, EndType, VisitType, DeleteType
     DEF RunStep
<1>2. ASSUME NEW e \in Engines, NEW o \in Options, Begin(e, o) PROVE TypeInv'
  BY <1>2, BeginType
<1>3. CASE Cancel
  BY <1>3 DEF Cancel, TypeInv, EngineTypeOK
<1>4. CASE Restart
  <2>1. run' \in [Engines -> Run] /\ \A e \in Engines : RunOK(run'[e])
    BY <1>4, NewRunOK DEF Restart
  <2> QED
    BY <1>4, <2>1 DEF Restart, TypeInv, EngineTypeOK
<1>5. ASSUME NEW s \in Sources, RemoteChange(s) PROVE TypeInv'
  BY <1>5, RemoteChangeType
<1>6. CASE UNCHANGED engineVars
  BY <1>6 DEF engineVars, TypeInv, EngineTypeOK
<1> QED
  BY <1>1, <1>2, <1>3, <1>4, <1>5, <1>6 DEF EngineNext

\* The type invariant, of every number of runs, files and options.
THEOREM EngineTypeCorrect == EngineSpec => []EngineTypeOK
<1>1. TypeInv => EngineTypeOK
  BY DEF TypeInv
<1> QED
  BY <1>1, TypeInvInit, TypeInvNext, PTL DEF EngineSpec

-------------------------------------------------------------------------------
(***************************************************************************)
(* Orphans.  A run that is not listed by the local driver knows each       *)
(* source it looks for, unless the source was absent at some time.         *)
(***************************************************************************)
SourceOK(r, there) ==
  r.phase \in Working /\ ~r.opts.local =>
    \A s \in r.opts.match :
      /\ there[s] = Absent => s \in r.gone
      /\ (r.phase = "scan" /\ s \in r.toScan) \/ r.entries[s] # Absent \/ s \in r.gone

SourceInv == \A e \in Engines : SourceOK(run[e], remote)

Inv == TypeInv /\ SourceInv

\* What a step of a run at work leaves alone once the listing is over.
SameListing(r, q) ==
  /\ q.phase = r.phase \/ (r.phase = "files" /\ q.phase = "orphans")
  /\ q.opts = r.opts /\ q.entries = r.entries /\ q.gone = r.gone /\ q.toScan = r.toScan

LEMMA SameListingSource ==
  ASSUME NEW r, NEW q, NEW there, SameListing(r, q), SourceOK(r, there)
  PROVE  SourceOK(q, there)
  BY DEF SameListing, SourceOK, Working

LEMMA IdleSource ==
  ASSUME NEW result \in {"idle", "done", "failed"}, NEW there
  PROVE  SourceOK(NewRun(result), there)
  BY DEF NewRun, SourceOK, Working

LEMMA GoroutineSource ==
  ASSUME Inv, NEW e \in Engines, NEW s \in Sources, Goroutine(e, s)
  PROVE  SourceInv'
<1>1. TypeInv /\ FileStep(e, s) /\ run[e] \in Run
  BY GoroutineStep DEF Inv, TypeInv, EngineTypeOK
<1>2. /\ run'[e].phase = run[e].phase /\ run'[e].opts = run[e].opts
      /\ run'[e].entries = run[e].entries /\ run'[e].gone = run[e].gone
      /\ run'[e].toScan = run[e].toScan
  BY <1>1 DEF FileStep, Run
<1>3. SameListing(run[e], run'[e])
  BY <1>2 DEF SameListing
<1>4. SourceOK(run'[e], remote)
  BY <1>3, SameListingSource DEF Inv, SourceInv
<1> QED
  BY <1>1, <1>4 DEF FileStep, Inv, SourceInv

LEMMA ScanSource ==
  ASSUME Inv, NEW e \in Engines, NEW s \in Sources, ScanEntry(e, s) \/ ScanMisses(e, s)
  PROVE  SourceInv'
<1>1. run[e] \in Run /\ SourceOK(run[e], remote) /\ run \in [Engines -> Run]
  BY DEF Inv, SourceInv, TypeInv, EngineTypeOK
<1>2. /\ run[e].phase = "scan" /\ remote' = remote
      /\ \A f \in Engines : f # e => run'[f] = run[f]
  BY <1>1 DEF ScanEntry, ScanMisses
<1>3. CASE ScanEntry(e, s)
  <2> DEFINE rest == run[e].toScan \ {s}
             noted == [run[e].entries EXCEPT ![s] = remote[s]]
             new == [run[e] EXCEPT !.toScan = rest, !.entries = noted]
  <2>1. run' = [run EXCEPT ![e] = new]
    BY <1>3 DEF ScanEntry
  <2>2. /\ new.phase = "scan" /\ new.opts = run[e].opts /\ new.gone = run[e].gone
        /\ new.toScan = rest /\ new.entries = noted
    BY <1>1, <1>2 DEF Run
  <2>3. noted[s] = remote[s] /\ \A q \in Sources : q # s => noted[q] = run[e].entries[q]
    BY <1>1 DEF Run
  <2>4. ~run[e].opts.local /\ run[e].phase \in Working => run[e].opts.match \subseteq Sources
    BY DEF Inv, TypeInv, RunOK, Setting
  <2> HIDE DEF new, noted
  <2>5. SourceOK(new, remote)
    BY <1>1, <1>2, <2>2, <2>3, <2>4 DEF SourceOK
  <2>6. run'[e] = new
    BY <1>1, <2>1
  <2> QED
    BY <1>2, <2>5, <2>6 DEF Inv, SourceInv
<1>4. CASE ScanMisses(e, s)
  <2> DEFINE new == [run[e] EXCEPT !.toScan = @ \ {s}]
  <2>1. run'[e] = new
    BY <1>1, <1>4 DEF ScanMisses
  <2>2. new.opts.local
    BY <1>1, <1>4 DEF ScanMisses, Run
  <2> HIDE DEF new
  <2>3. SourceOK(new, remote)
    BY <2>2 DEF SourceOK
  <2> QED
    BY <1>2, <2>1, <2>3 DEF Inv, SourceInv
<1> QED
  BY <1>3, <1>4

LEMMA BeginSource ==
  ASSUME Inv, NEW e \in Engines, NEW o \in Options, Begin(e, o)
  PROVE  SourceInv'
<1> DEFINE gone == {s \in o.match : remote[s] = Absent}
           solo == \A g \in Engines \ {e} : ~AtWork(g)
           fresh == NewRun("scan")
           new == [fresh EXCEPT !.opts = o, !.toScan = o.match, !.gone = gone, !.alone = solo]
<1>1. run' = [f \in Engines |-> IF f # e THEN [run[f] EXCEPT !.alone = FALSE] ELSE new]
      /\ remote' = remote
  BY DEF Begin
<1>2. /\ new.phase = "scan" /\ new.opts = o /\ new.gone = gone /\ new.toScan = o.match
  BY DEF NewRun
<1> HIDE DEF new
<1>3. SourceOK(new, remote)
  BY <1>2 DEF SourceOK
<1>4. ASSUME NEW f \in Engines, f # e PROVE SourceOK(run'[f], remote)
  <2>1. run[f] \in Run /\ SourceOK(run[f], remote)
    BY DEF Inv, SourceInv, TypeInv, EngineTypeOK
  <2> DEFINE old == [run[f] EXCEPT !.alone = FALSE]
  <2>2. SameListing(run[f], old)
    BY <2>1 DEF SameListing, Run
  <2>3. run'[f] = old
    BY <1>1, <1>4
  <2> HIDE DEF old
  <2> QED
    BY <2>1, <2>2, <2>3, SameListingSource
<1> QED
  BY <1>1, <1>3, <1>4 DEF SourceInv

LEMMA ScanDoneSource ==
  ASSUME Inv, NEW e \in Engines, ScanDone(e)
  PROVE  SourceInv'
<1> DEFINE place == [s \in Sources |-> IF s \in Listed(e) THEN "start" ELSE "none"]
           new == [[run[e] EXCEPT !.phase = "files"] EXCEPT !.pc = place]
<1>1. run[e] \in Run /\ SourceOK(run[e], remote) /\ run \in [Engines -> Run]
  BY DEF Inv, SourceInv, TypeInv, EngineTypeOK
<1>2. /\ new.phase = "files" /\ new.opts = run[e].opts /\ new.gone = run[e].gone
      /\ new.entries = run[e].entries
  BY <1>1 DEF Run
<1>3. /\ run[e].phase = "scan" /\ run[e].toScan = {} /\ remote' = remote
      /\ run' = [run EXCEPT ![e] = new]
  BY DEF ScanDone
<1> HIDE DEF new
<1>4. SourceOK(new, remote)
  BY <1>1, <1>2, <1>3 DEF SourceOK, Working
<1> QED
  BY <1>1, <1>3, <1>4 DEF Inv, SourceInv

LEMMA CleanSource ==
  ASSUME Inv, NEW e \in Engines,
         CleanBegin(e) \/ \E o \in Outputs : Pass(e, o) \/ Delete(e, o) \/ DeleteFails(e, o)
  PROVE  SourceInv'
<1>1. run \in [Engines -> Run] /\ \A f \in Engines : run[f] \in Run
  BY DEF Inv, TypeInv, EngineTypeOK
<1>2. ASSUME CleanBegin(e), NEW f \in Engines PROVE SameListing(run[f], run'[f])
  BY <1>1, <1>2 DEF CleanBegin, FilesOver, SameListing, Run
<1>3. ASSUME NEW o \in Outputs, Pass(e, o) \/ DeleteFails(e, o), NEW f \in Engines
      PROVE  SameListing(run[f], run'[f])
  <2>1. CASE Pass(e, o)
    BY <1>1, <2>1 DEF Pass, SameListing, Run
  <2>2. CASE DeleteFails(e, o)
    <3> DEFINE new == [run[e] EXCEPT !.toVisit = @ \ {o}, !.kept = @ \cup {o}]
    <3>1. SameListing(run[e], new)
      BY <1>1 DEF SameListing, Run
    <3>2. run' = [run EXCEPT ![e] = new]
      BY <2>2 DEF DeleteFails
    <3>3. SameListing(run[f], run[f])
      BY DEF SameListing
    <3> HIDE DEF new
    <3> QED
      BY <1>1, <3>1, <3>2, <3>3
  <2> QED
    BY <1>3, <2>1, <2>2
<1>4. ASSUME NEW o \in Outputs, Delete(e, o), NEW f \in Engines PROVE SameListing(run[f], run'[f])
  <2> DEFINE rest == IF f = e THEN run[f].toVisit \ {o} ELSE run[f].toVisit
             place == [s \in Sources |->
               IF OutputOf[s] = o /\ run[f].pc[s] = "content" THEN "lost" ELSE run[f].pc[s]]
             new == [run[f] EXCEPT !.toVisit = rest, !.pc = place]
  <2>1. run'[f] = new
    BY <1>4 DEF Delete
  <2> HIDE DEF rest, place
  <2>2. SameListing(run[f], new)
    BY <1>1 DEF SameListing, Run
  <2> QED
    BY <2>1, <2>2
<1>5. remote' = remote
  BY DEF CleanBegin, Pass, Delete, DeleteFails
<1>6. \A f \in Engines : SameListing(run[f], run'[f])
  BY <1>2, <1>3, <1>4
<1> QED
  BY <1>5, <1>6, SameListingSource DEF Inv, SourceInv

LEMMA RemoteChangeSource ==
  ASSUME Inv, NEW s \in Sources, RemoteChange(s)
  PROVE  SourceInv'
<1>1. PICK t \in Times \cup {Absent} :
        /\ remote' = [remote EXCEPT ![s] = t]
        /\ run' = [e \in Engines |-> [run[e] EXCEPT
             !.gone = IF t = Absent /\ AtWork(e) THEN @ \cup ({s} \cap run[e].opts.match)
                     ELSE @]]
  BY DEF RemoteChange
<1> SUFFICES ASSUME NEW e \in Engines PROVE SourceOK(run'[e], remote')
  BY DEF SourceInv
<1> DEFINE more == IF t = Absent /\ AtWork(e)
                   THEN run[e].gone \cup ({s} \cap run[e].opts.match) ELSE run[e].gone
           new == [run[e] EXCEPT !.gone = more]
<1>2. run[e] \in Run /\ SourceOK(run[e], remote) /\ remote \in [Sources -> Times \cup {Absent}]
  BY DEF Inv, SourceInv, TypeInv, EngineTypeOK
<1>3. run'[e] = new
  BY <1>1
<1>4. /\ new.phase = run[e].phase /\ new.opts = run[e].opts /\ new.gone = more
      /\ new.entries = run[e].entries /\ new.toScan = run[e].toScan
  BY <1>2 DEF Run
<1>5. /\ run[e].gone \subseteq more
      /\ t = Absent /\ run[e].phase \in Working /\ s \in run[e].opts.match => s \in more
  BY DEF AtWork
<1>6. \A q : q # s => (remote'[q] = Absent <=> remote[q] = Absent)
  BY <1>1, <1>2
<1>7. remote'[s] = t
  BY <1>1, <1>2
<1> HIDE DEF new, more
<1>8. SourceOK(new, remote')
  BY <1>2, <1>4, <1>5, <1>6, <1>7 DEF SourceOK
<1> QED
  BY <1>3, <1>8

LEMMA SourceNext ==
  ASSUME Inv, [EngineNext]_engineVars
  PROVE  SourceInv'
<1>1. ASSUME NEW e \in Engines, ScanFails(e) \/ Return(e) \/ CleanDone(e) PROVE SourceInv'
  <2>1. PICK result \in {"idle", "done", "failed"} : run' = [run EXCEPT ![e] = NewRun(result)]
    BY <1>1 DEF ScanFails, Return, CleanDone
  <2>2. remote' = remote
    BY <1>1 DEF ScanFails, Return, CleanDone
  <2> QED
    BY <2>1, <2>2, IdleSource DEF Inv, SourceInv, TypeInv, EngineTypeOK
<1>2. ASSUME NEW e \in Engines, RunStep(e) PROVE SourceInv'
  BY <1>1, <1>2, GoroutineSource, ScanSource, ScanDoneSource, CleanSource DEF RunStep
<1>3. ASSUME NEW e \in Engines, NEW o \in Options, Begin(e, o) PROVE SourceInv'
  BY <1>3, BeginSource
<1>4. CASE Cancel
  BY <1>4 DEF Cancel, Inv, SourceInv
<1>5. CASE Restart
  BY <1>5, IdleSource DEF Restart, SourceInv
<1>6. ASSUME NEW s \in Sources, RemoteChange(s) PROVE SourceInv'
  BY <1>6, RemoteChangeSource
<1>7. CASE UNCHANGED engineVars
  BY <1>7 DEF engineVars, Inv, SourceInv
<1> QED
  BY <1>2, <1>3, <1>4, <1>5, <1>6, <1>7 DEF EngineNext

LEMMA InvInit == EngineInit => Inv
<1>1. EngineInit => SourceInv
  BY IdleSource DEF EngineInit, SourceInv
<1> QED
  BY <1>1, TypeInvInit DEF Inv

LEMMA InvNext == Inv /\ [EngineNext]_engineVars => Inv'
  BY TypeInvNext, SourceNext DEF Inv

\* A file vanishes only by Delete, and then the run has no source for it.
LEMMA VanishesByDelete ==
  ASSUME Inv, [EngineNext]_engineVars, NEW o \in Outputs, Vanishes(o)
  PROVE  \E e \in Engines : Delete(e, o)
<1>1. ASSUME NEW e \in Engines, NEW s \in Sources, Goroutine(e, s) PROVE FALSE
  <2>1. FileStep(e, s)
    BY <1>1, GoroutineStep DEF Inv
  <2> QED
    BY <2>1 DEF FileStep, Vanishes
<1>2. ASSUME NEW e \in Engines, NEW p \in Outputs, Delete(e, p) PROVE p = o
  BY <1>2 DEF Delete, Vanishes, Inv, TypeInv, EngineTypeOK
<1>3. target' # target
  BY DEF Vanishes
<1>4. \E e \in Engines : \/ \E s \in Sources : Goroutine(e, s)
                       \/ \E p \in Outputs : Delete(e, p)
  BY <1>3 DEF EngineNext, engineVars, RunStep, Begin, ScanEntry, ScanMisses, ScanFails, ScanDone,
              CleanBegin, Return, Pass, DeleteFails, CleanDone, Cancel, Restart, RemoteChange
<1> QED
  BY <1>1, <1>2, <1>4

LEMMA DeletesOrphan ==
  ASSUME Inv, NEW e \in Engines, NEW o \in Outputs, Delete(e, o)
  PROVE  Visits(e, o) /\ (run[e].opts.local \/ ~HasSource(e, o))
<1>1. run[e] \in Run /\ RunOK(run[e]) /\ SourceOK(run[e], remote)
  BY DEF Inv, SourceInv, TypeInv, EngineTypeOK
<1>2. run[e].phase = "orphans" /\ o \in run[e].toVisit /\ o \notin Index(e)
  BY DEF Delete, Visiting, Keeps
<1>3. o \notin run'[e].toVisit
  <2> DEFINE rest == run[e].toVisit \ {o}
             place == [s \in Sources |-> IF OutputOf[s] = o /\ run[e].pc[s] = "content"
                                         THEN "lost" ELSE run[e].pc[s]]
             new == [run[e] EXCEPT !.toVisit = rest, !.pc = place]
  <2>1. run'[e] = new
    BY DEF Delete
  <2> HIDE DEF rest, place
  <2>2. new.toVisit = rest
    BY <1>1 DEF Run
  <2> QED
    BY <2>1, <2>2 DEF rest
<1>4. ASSUME ~run[e].opts.local, NEW s \in run[e].opts.match \ run[e].gone, OutputOf[s] = o
      PROVE  FALSE
  <2>1. run[e].entries[s] # Absent
    BY <1>1, <1>2, <1>4 DEF SourceOK, Working
  <2> QED
    BY <1>2, <1>4, <2>1 DEF Index, Listed
<1> QED
  BY <1>2, <1>3, <1>4 DEF Visits, HasSource

\* No run of a remote driver deletes a file for which it has a source that has been
\* there since the run began, for every number of runs, files and options.
THEOREM RemoteOrphansOnlyHolds == EngineSpec => RemoteOrphansOnly
<1>1. Inv /\ [EngineNext]_engineVars =>
        [\A o \in Outputs : Vanishes(o) => \E e \in Engines :
           Visits(e, o) /\ (run[e].opts.local \/ ~HasSource(e, o))]_engineVars
  BY VanishesByDelete, DeletesOrphan
<1> QED
  BY <1>1, InvInit, InvNext, PTL DEF EngineSpec, RemoteOrphansOnly

-------------------------------------------------------------------------------
(***************************************************************************)
(* The mirror.  What the output of a source that is alone with it looks    *)
(* like at each place of the source's goroutine, in a run that no other    *)
(* overlaps.                                                               *)
(***************************************************************************)
Text(r, s) == [of |-> s, form |-> r.opts.written]

\* The file is as the run is to leave it.
RightFile(r, s, f) ==
  IF r.opts.skip THEN f.content \notin {Missing, Blank}
  ELSE f.content = Text(r, s) /\ (r.entries[s] = 0 \/ Within(f.time, r.entries[s]))

PlaceOK(r, s, f) ==
  /\ r.pc[s] = "end" => RightFile(r, s, f)
  /\ r.pc[s] = "times" => f.content = Text(r, s)
  /\ r.pc[s] = "content" => f.content = Blank
  /\ r.pc[s] # "lost"
  /\ r.pc[s] \in {"skip", "read"} => r.seen[s] = f.time
  /\ r.pc[s] = "skip" => r.opts.skip

Found(r) == {s \in r.opts.match : r.entries[s] # Absent}
Sole(r, s) == \A q \in Found(r) : OutputOf[q] = OutputOf[s] => q = s
Known(r) == {OutputOf[s] : s \in Found(r)}

\* Goroutines are over when orphans are cleaned, and what was visited has a source
\* or could not be deleted.
CleanOK(r, tree) ==
  r.phase = "orphans" =>
    /\ \A s \in Sources : r.pc[s] \in Ends \cup {"none"}
    /\ ~r.opts.orphanDryRun =>
         \A o \in Outputs : tree[o].content # Missing =>
           o \in r.toVisit \/ o \in Known(r) \/ o \in r.kept

MirrorOK(r, tree) ==
  /\ \A s \in Found(r) : Sole(r, s) => PlaceOK(r, s, tree[OutputOf[s]])
  /\ CleanOK(r, tree)

MirrorInv ==
  \A e \in Engines : AtWork(e) /\ run[e].alone =>
    /\ \A f \in Engines : f # e => ~AtWork(f)
    /\ ~run[e].opts.dryRun => MirrorOK(run[e], target)

Mirror == TypeInv /\ MirrorInv

\* The forms an existing file is compared with and a file is written in agree.
SameForm == \A o \in Options : o.compared = o.written

LEMMA StepAtWork ==
  ASSUME TypeInv, NEW e \in Engines, RunStep(e)
  PROVE  AtWork(e)
<1>1. ASSUME NEW s \in Sources, Goroutine(e, s) PROVE AtWork(e)
  <2>1. run[e].pc[s] # "none"
    BY <1>1, GoroutineStep
  <2> QED
    BY <2>1, ListedWorks DEF AtWork, Working
<1> QED
  BY <1>1 DEF RunStep, ScanEntry, ScanMisses, ScanFails, ScanDone, CleanBegin, FilesOver, Return,
              Pass, Delete, DeleteFails, Visiting, CleanDone, AtWork, Working

\* What else a step of a goroutine leaves alone.
LEMMA GotoFrame ==
  ASSUME TypeInv, NEW e \in Engines, NEW s \in Sources,
         NEW step \in Active \cup Ends, Goto(e, s, step)
  PROVE  /\ run'[e].opts = run[e].opts /\ run'[e].entries = run[e].entries
         /\ run'[e].seen = run[e].seen /\ run'[e].pc[s] = step
<1>1. run[e] \in Run
  BY DEF TypeInv, EngineTypeOK
<1>2. run' = [run EXCEPT ![e] = [run[e] EXCEPT !.pc = [run[e].pc EXCEPT ![s] = step]]]
  BY DEF Goto
<1> QED
  BY <1>1, <1>2 DEF TypeInv, EngineTypeOK, Run

LEMMA StatFrame ==
  ASSUME TypeInv, NEW e \in Engines, NEW s \in Sources, Stat(e, s), ~run[e].opts.dryRun
  PROVE  \/ Goto(e, s, "open")
         \/ /\ run'[e].opts = run[e].opts /\ run'[e].entries = run[e].entries
            /\ run'[e].seen[s] = target[OutputOf[s]].time
            /\ run'[e].pc[s] = IF run[e].opts.skip THEN "skip"
                               ELSE IF run[e].opts.force THEN "open" ELSE "read"
<1> DEFINE o == OutputOf[s]
           step == IF run[e].opts.skip THEN "skip" ELSE IF run[e].opts.force THEN "open" ELSE "read"
<1>1. run[e] \in Run
  BY DEF TypeInv, EngineTypeOK
<1>2. CASE run' = [run EXCEPT ![e].seen[s] = target[o].time, ![e].pc[s] = step]
  <2> DEFINE p == [run[e].pc EXCEPT ![s] = step]
             q == [run[e].seen EXCEPT ![s] = target[o].time]
             new == [run[e] EXCEPT !.seen = q, !.pc = p]
  <2>1. run'[e] = new
    BY <1>2 DEF TypeInv, EngineTypeOK
  <2>2. p[s] = step /\ q[s] = target[o].time
    BY <1>1 DEF Run
  <2> HIDE DEF p, q
  <2>3. new.opts = run[e].opts /\ new.entries = run[e].entries /\ new.seen = q /\ new.pc = p
    BY <1>1 DEF Run
  <2> QED
    BY <2>1, <2>2, <2>3
<1> QED
  BY <1>2 DEF Stat

\* Places of which nothing is known.
Free == {"stat", "left", "open", "failed", "untimed"}

LEMMA FreePlace ==
  ASSUME NEW r, NEW s, NEW f, r.pc[s] \in Free \cup {"none", "start"}
  PROVE  PlaceOK(r, s, f)
  BY DEF PlaceOK, Free

LEMMA GotoFree ==
  ASSUME TypeInv, NEW e \in Engines, NEW s \in Sources, NEW step \in Free, Goto(e, s, step), NEW f
  PROVE  PlaceOK(run'[e], s, f)
<1>1. step \in Active \cup Ends
  BY DEF Free, Active, Ends
<1>2. run'[e].pc[s] = step
  BY <1>1, GotoFrame
<1> QED
  BY <1>2, FreePlace

LEMMA StatPlace ==
  ASSUME TypeInv, NEW e \in Engines, NEW s \in Sources, ~run[e].opts.dryRun, Stat(e, s)
  PROVE  PlaceOK(run'[e], s, target'[OutputOf[s]])
<1>1. target' = target
  BY DEF Stat
<1>2. CASE Goto(e, s, "open")
  BY <1>2, GotoFree DEF Free
<1>3. CASE /\ run'[e].opts = run[e].opts /\ run'[e].entries = run[e].entries
           /\ run'[e].seen[s] = target[OutputOf[s]].time
           /\ run'[e].pc[s] = IF run[e].opts.skip THEN "skip"
                              ELSE IF run[e].opts.force THEN "open" ELSE "read"
  BY <1>1, <1>3 DEF PlaceOK
<1> QED
  BY <1>2, <1>3, StatFrame

LEMMA SkipReadPlace ==
  ASSUME TypeInv, NEW e \in Engines, NEW s \in Sources,
         PlaceOK(run[e], s, target[OutputOf[s]]), SkipRead(e, s)
  PROVE  PlaceOK(run'[e], s, target'[OutputOf[s]])
<1> DEFINE f == target[OutputOf[s]]
<1>1. target' = target /\ run[e].opts.skip /\ run[e].seen[s] = f.time
  BY DEF SkipRead, At, PlaceOK
<1>2. CASE Goto(e, s, "end") /\ f.content \notin {Missing, Blank}
  <2>1. run'[e].opts = run[e].opts /\ run'[e].pc[s] = "end"
    BY <1>2, GotoFrame DEF Ends
  <2> QED
    BY <1>1, <1>2, <2>1 DEF PlaceOK, RightFile
<1>3. CASE Goto(e, s, "open")
  BY <1>3, GotoFree DEF Free
<1>4. CASE Goto(e, s, "read")
  <2>1. run'[e].seen = run[e].seen /\ run'[e].pc[s] = "read"
    BY <1>4, GotoFrame DEF Active
  <2> QED
    BY <1>1, <2>1 DEF PlaceOK
<1> QED
  BY <1>2, <1>3, <1>4 DEF SkipRead

LEMMA Tolerance ==
  ASSUME NEW a \in Nat \ {0}, NEW b \in Nat, ~ModTimeDifferent(a, b)
  PROVE  b = 0 \/ Within(a, b)
<1>1. Epsilon \in Nat
  OBVIOUS
<1> QED
  BY ONLY <1>1, a \in Nat \ {0}, b \in Nat, ~ModTimeDifferent(a, b) DEF ModTimeDifferent, Within

LEMMA ReadPlace ==
  ASSUME TypeInv, SameForm, NEW e \in Engines, NEW s \in Sources,
         PlaceOK(run[e], s, target[OutputOf[s]]), Read(e, s)
  PROVE  PlaceOK(run'[e], s, target'[OutputOf[s]])
<1> DEFINE f == target[OutputOf[s]]
<1>1. target' = target /\ run[e].pc[s] = "read" /\ run[e].seen[s] = f.time
  BY DEF Read, At, PlaceOK
<1>2. /\ run[e].opts \in Options /\ run[e].entries[s] \in Times /\ Mine(e, s) \in Strm
      /\ run[e].opts.compared = run[e].opts.written
  BY <1>1, ListedWorks DEF SameForm
<1>3. f.time \in Nat \ {0}
  BY DEF TypeInv, EngineTypeOK, File
<1>4. CASE Goto(e, s, "open")
  BY <1>4, GotoFree DEF Free
<1>5. CASE Goto(e, s, "end") /\ ~Outdated(e, s, f.content, f.time)
  <2>1. /\ run'[e].opts = run[e].opts /\ run'[e].pc[s] = "end"
        /\ run'[e].entries = run[e].entries
    BY <1>5, GotoFrame DEF Ends
  <2>2. f.content = Mine(e, s) /\ ~ModTimeDifferent(f.time, run[e].entries[s])
    BY <1>2, <1>5 DEF Outdated, Mine
  <2>3. run[e].entries[s] = 0 \/ Within(f.time, run[e].entries[s])
    <3>1. run[e].entries[s] \in Nat
      BY <1>2
    <3> QED
      BY <1>3, <2>2, <3>1, Tolerance
  <2>4. f.content \notin {Missing, Blank}
    BY <1>2, <2>2
  <2>5. f.content = Text(run'[e], s)
    BY <2>1, <2>2 DEF Text, Mine
  <2> QED
    BY <1>1, <2>1, <2>3, <2>4, <2>5 DEF PlaceOK, RightFile
<1> QED
  BY <1>1, <1>4, <1>5 DEF Read

LEMMA AfterWritePlace ==
  ASSUME TypeInv, NEW e \in Engines, NEW s \in Sources, run[e].pc[s] # "none",
         AfterWrite(e, s), NEW f, f.content = Mine(e, s)
  PROVE  PlaceOK(run'[e], s, f)
<1>1. Mine(e, s) \in Strm
  BY ListedWorks
<1>2. f.content \notin {Missing, Blank}
  BY <1>1
<1>3. PICK step \in {"end", "times"} : Goto(e, s, step) /\ (step = "end" => run[e].entries[s] = 0)
  BY DEF AfterWrite
<1>4. step \in Active \cup Ends
  BY DEF Active, Ends
<1>5. /\ run'[e].opts = run[e].opts /\ run'[e].pc[s] = step
      /\ run'[e].entries = run[e].entries
  BY <1>3, <1>4, GotoFrame
<1>6. f.content = Text(run'[e], s)
  BY <1>5 DEF Text, Mine
<1> QED
  BY <1>2, <1>3, <1>5, <1>6 DEF PlaceOK, RightFile

LEMMA WritePlace ==
  ASSUME TypeInv, NEW e \in Engines, NEW s \in Sources,
         PlaceOK(run[e], s, target[OutputOf[s]]), Open(e, s) \/ WriteContent(e, s)
  PROVE  PlaceOK(run'[e], s, target'[OutputOf[s]])
<1> DEFINE o == OutputOf[s]
<1>1. target \in [Outputs -> File] /\ o \in Outputs
  BY DEF TypeInv, EngineTypeOK
<1>2. CASE Open(e, s)
  <2>1. target'[o].content = Blank
    BY <1>1, <1>2 DEF Open
  <2>2. run'[e].pc[s] = "content"
    BY <1>2, GotoFrame DEF Open, Active
  <2> QED
    BY <2>1, <2>2 DEF PlaceOK
<1>3. CASE WriteContent(e, s)
  <2>1. target[o].content = Blank /\ run[e].pc[s] = "content"
    BY <1>3 DEF WriteContent, At, PlaceOK
  <2>2. target' = [target EXCEPT ![o] = [content |-> Mine(e, s), time |-> WriteTime]]
    BY <1>3, <2>1 DEF WriteContent
  <2>3. target'[o].content = Mine(e, s)
    BY <1>1, <2>2
  <2> QED
    BY <1>3, <2>1, <2>3, AfterWritePlace DEF WriteContent
<1> QED
  BY <1>2, <1>3

LEMMA ChtimesPlace ==
  ASSUME TypeInv, NEW e \in Engines, NEW s \in Sources,
         PlaceOK(run[e], s, target[OutputOf[s]]), Chtimes(e, s)
  PROVE  PlaceOK(run'[e], s, target'[OutputOf[s]])
<1> DEFINE o == OutputOf[s]
           f == target[o]
<1>1. run[e].pc[s] = "times" /\ f.content = Text(run[e], s) /\ f \in File
  BY DEF Chtimes, At, PlaceOK, TypeInv, EngineTypeOK
<1>2. Mine(e, s) \in Strm /\ run[e].entries[s] \in Nat
  BY <1>1, ListedWorks
<1>3. target'[o] = [f EXCEPT !.time = run[e].entries[s]]
  BY DEF Chtimes, TypeInv, EngineTypeOK
<1>4. target'[o].content = f.content /\ target'[o].time = run[e].entries[s]
  BY <1>1, <1>3 DEF File
<1>5. /\ run'[e].opts = run[e].opts /\ run'[e].pc[s] = "end"
      /\ run'[e].entries = run[e].entries
  BY GotoFrame DEF Chtimes, Ends
<1>6. Within(run[e].entries[s], run[e].entries[s])
  <2>1. Epsilon \in Nat
    OBVIOUS
  <2> QED
    BY ONLY <1>2, <2>1 DEF Within
<1>7. f.content \notin {Missing, Blank}
  BY <1>1, <1>2 DEF Text, Mine
<1>8. f.content = Text(run'[e], s)
  BY <1>1, <1>5 DEF Text
<1> QED
  BY <1>4, <1>5, <1>6, <1>7, <1>8 DEF PlaceOK, RightFile

LEMMA GoroutinePlace ==
  ASSUME TypeInv, SameForm, NEW e \in Engines, NEW s \in Sources, ~run[e].opts.dryRun,
         PlaceOK(run[e], s, target[OutputOf[s]]), Goroutine(e, s)
  PROVE  PlaceOK(run'[e], s, target'[OutputOf[s]])
<1>1. CASE \/ Acquire(e, s) \/ Leave(e, s) \/ ChtimesFails(e, s) \/ FileFails(e, s)
           \/ WriteFails(e, s)
  <2>1. PICK step \in Free : Goto(e, s, step)
    BY <1>1 DEF Acquire, Leave, ChtimesFails, FileFails, WriteFails, Free
  <2> QED
    BY <2>1, GotoFree
<1>2. ~WriteLost(e, s)
  BY DEF WriteLost, At, PlaceOK
<1> QED
  BY <1>1, <1>2, StatPlace, SkipReadPlace, ReadPlace, WritePlace, ChtimesPlace DEF Goroutine

\* Nothing a step of a goroutine does is about another source that is alone with
\* its output, or happens while orphans are cleaned.
LEMMA GoroutineMirror ==
  ASSUME Mirror, SameForm, NEW e \in Engines, NEW s \in Sources, Goroutine(e, s)
  PROVE  MirrorInv'
<1>1. TypeInv /\ FileStep(e, s) /\ AtWork(e) /\ run[e] \in Run /\ run[e].pc[s] # "none"
  BY GoroutineStep, StepAtWork DEF RunStep, Mirror, TypeInv, EngineTypeOK
<1>2. s \in Found(run[e])
  BY <1>1, ListedWorks DEF Found, Listed
<1>3. /\ run'[e].phase = run[e].phase /\ run'[e].opts = run[e].opts
      /\ run'[e].entries = run[e].entries /\ run'[e].alone = run[e].alone
  BY <1>1 DEF FileStep, Run
<1>4. \A f \in Engines : (AtWork(f)' <=> AtWork(f)) /\ run'[f].alone = run[f].alone
  BY <1>1, <1>3 DEF FileStep, AtWork
<1>5. ASSUME run[e].alone, ~run[e].opts.dryRun PROVE MirrorOK(run'[e], target')
  <2>1. MirrorOK(run[e], target)
    BY <1>1, <1>5 DEF Mirror, MirrorInv
  <2>2. run[e].phase # "orphans"
    <3>1. run[e].pc[s] \notin Ends \cup {"none"}
      BY DEF Goroutine, Ends, Active, At, Acquire, Leave, Stat, SkipRead, Read, Open,
             WriteContent, WriteLost, Chtimes, ChtimesFails, FileFails, WriteFails
    <3> QED
      BY <2>1, <3>1 DEF MirrorOK, CleanOK
  <2>3. Found(run'[e]) = Found(run[e]) /\ \A q : Sole(run'[e], q) = Sole(run[e], q)
    BY <1>3 DEF Found, Sole
  <2>4. ASSUME NEW q \in Found(run[e]), Sole(run[e], q)
        PROVE  PlaceOK(run'[e], q, target'[OutputOf[q]])
    <3>1. PlaceOK(run[e], q, target[OutputOf[q]])
      BY <2>1, <2>4 DEF MirrorOK
    <3>2. CASE q = s
      BY <1>1, <1>5, <3>1, <3>2, GoroutinePlace
    <3>3. CASE q # s
      <4>1. q \in Sources
        BY <1>1, ListedWorks DEF Found, Setting
      <4>2. OutputOf[q] # OutputOf[s]
        BY <1>2, <2>4, <3>3 DEF Sole
      <4>3. target'[OutputOf[q]] = target[OutputOf[q]]
        BY <1>1, <4>1, <4>2 DEF FileStep
      <4>4. run'[e].pc[q] = run[e].pc[q] /\ run'[e].seen[q] = run[e].seen[q]
        BY <1>1, <3>3, <4>1 DEF FileStep
      <4> QED
        BY <1>3, <3>1, <4>3, <4>4 DEF PlaceOK, RightFile, Text
    <3> QED
      BY <3>2, <3>3
  <2> QED
    BY <1>3, <2>2, <2>3, <2>4 DEF MirrorOK, CleanOK
<1>6. ASSUME NEW f \in Engines, AtWork(f), run[f].alone PROVE f = e
  BY <1>1, <1>6 DEF Mirror, MirrorInv
<1> QED
  BY <1>3, <1>4, <1>5, <1>6 DEF Mirror, MirrorInv

\* A step of the run e: no other run at work is alone.
LEMMA OneMirror ==
  ASSUME Mirror, NEW e \in Engines, AtWork(e),
         \A f \in Engines : f # e => run'[f].phase = run[f].phase /\ run'[f].alone = run[f].alone,
         run'[e].phase \in Working =>
           run'[e].alone = run[e].alone /\ run'[e].opts = run[e].opts,
         run'[e].phase \in Working /\ ~run[e].opts.dryRun /\ MirrorOK(run[e], target)
           => MirrorOK(run'[e], target')
  PROVE  MirrorInv'
<1>1. ASSUME NEW f \in Engines, f # e, AtWork(f)', run'[f].alone PROVE FALSE
  BY <1>1 DEF Mirror, MirrorInv, AtWork
<1>2. ASSUME AtWork(e)', run'[e].alone
      PROVE  /\ \A f \in Engines : f # e => ~AtWork(f)'
             /\ ~run'[e].opts.dryRun => MirrorOK(run'[e], target')
  BY <1>2 DEF Mirror, MirrorInv, AtWork
<1> QED
  BY <1>1, <1>2 DEF MirrorInv

LEMMA BeginMirror ==
  ASSUME Mirror, NEW e \in Engines, NEW o \in Options, Begin(e, o)
  PROVE  MirrorInv'
<1> DEFINE gone == {s \in o.match : remote[s] = Absent}
           solo == \A g \in Engines \ {e} : ~AtWork(g)
           fresh == NewRun("scan")
           new == [fresh EXCEPT !.opts = o, !.toScan = o.match, !.gone = gone, !.alone = solo]
<1>1. run' = [f \in Engines |-> IF f # e THEN [run[f] EXCEPT !.alone = FALSE] ELSE new]
  BY DEF Begin
<1>2. /\ new.phase = "scan" /\ new.opts = o /\ new.alone = solo
      /\ new.entries = [s \in Sources |-> Absent]
  BY DEF NewRun
<1> HIDE DEF new
<1>3. ASSUME NEW f \in Engines, f # e
      PROVE  ~run'[f].alone /\ run'[f].phase = run[f].phase
  <2>1. run[f] \in Run
    BY DEF Mirror, TypeInv, EngineTypeOK
  <2> QED
    BY <1>1, <1>3, <2>1 DEF Run
<1>4. run'[e] = new
  BY <1>1
<1>5. o.match \subseteq Sources
  BY DEF Setting
<1>6. MirrorOK(new, target')
  BY <1>2, <1>5 DEF MirrorOK, Found, CleanOK
<1>7. ASSUME solo, NEW f \in Engines, f # e PROVE ~AtWork(f)'
  BY <1>3, <1>7 DEF AtWork
<1> HIDE DEF solo
<1> QED
  BY <1>2, <1>3, <1>4, <1>6, <1>7 DEF MirrorInv

LEMMA ScanMirror ==
  ASSUME Mirror, NEW e \in Engines, NEW s \in Sources, ScanEntry(e, s) \/ ScanMisses(e, s)
  PROVE  MirrorInv'
<1>1. /\ run \in [Engines -> Run] /\ run[e] \in Run /\ RunOK(run[e]) /\ AtWork(e)
      /\ run[e].phase = "scan"
  BY DEF Mirror, TypeInv, EngineTypeOK, ScanEntry, ScanMisses, AtWork, Working
<1>2. \A f \in Engines : f # e => run'[f] = run[f]
  BY <1>1 DEF ScanEntry, ScanMisses
<1>3. /\ run'[e].phase = "scan" /\ run'[e].alone = run[e].alone /\ run'[e].opts = run[e].opts
      /\ run'[e].pc = run[e].pc
  <2>1. CASE ScanEntry(e, s)
    <3> DEFINE rest == run[e].toScan \ {s}
               noted == [run[e].entries EXCEPT ![s] = remote[s]]
               new == [run[e] EXCEPT !.toScan = rest, !.entries = noted]
    <3>1. run'[e] = new
      BY <1>1, <2>1 DEF ScanEntry
    <3> HIDE DEF rest, noted
    <3> QED
      BY <1>1, <3>1 DEF Run
  <2>2. CASE ScanMisses(e, s)
    BY <1>1, <2>2 DEF ScanMisses, Run
  <2> QED
    BY <2>1, <2>2
<1>4. \A q \in Sources : run[e].pc[q] = "none"
  BY <1>1 DEF RunOK
<1>5. run[e].opts.match \subseteq Sources
  BY <1>1 DEF RunOK, Working, Setting
<1>6. MirrorOK(run'[e], target')
  <2>1. \A q \in Found(run'[e]) : run'[e].pc[q] = "none"
    BY <1>3, <1>4, <1>5 DEF Found
  <2>2. CleanOK(run'[e], target')
    BY <1>3 DEF CleanOK
  <2> QED
    BY <2>1, <2>2, FreePlace DEF MirrorOK
<1> QED
  BY <1>1, <1>2, <1>3, <1>6, OneMirror

LEMMA ScanDoneMirror ==
  ASSUME Mirror, NEW e \in Engines, ScanDone(e)
  PROVE  MirrorInv'
<1> DEFINE place == [s \in Sources |-> IF s \in Listed(e) THEN "start" ELSE "none"]
           new == [run[e] EXCEPT !.phase = "files", !.pc = place]
<1>1. /\ run \in [Engines -> Run] /\ run[e] \in Run /\ RunOK(run[e]) /\ AtWork(e)
      /\ run[e].phase = "scan"
  BY DEF Mirror, TypeInv, EngineTypeOK, ScanDone, AtWork, Working
<1>2. \A f \in Engines : f # e => run'[f] = run[f]
  BY <1>1 DEF ScanDone
<1>3. run'[e] = new
  BY <1>1 DEF ScanDone
<1>4. \A q \in Sources : place[q] \in {"none", "start"}
  OBVIOUS
<1> HIDE DEF place
<1>5. /\ new.phase = "files" /\ new.alone = run[e].alone /\ new.opts = run[e].opts
      /\ new.pc = place
  BY <1>1 DEF Run
<1>6. run[e].opts.match \subseteq Sources
  BY <1>1 DEF RunOK, Working, Setting
<1> HIDE DEF new
<1>7. MirrorOK(new, target')
  <2>1. \A q \in Found(new) : new.pc[q] \in {"none", "start"}
    BY <1>4, <1>5, <1>6 DEF Found
  <2>2. CleanOK(new, target')
    BY <1>5 DEF CleanOK
  <2> QED
    BY <2>1, <2>2, FreePlace DEF MirrorOK
<1> QED
  BY <1>1, <1>2, <1>3, <1>5, <1>7, OneMirror

LEMMA StepSources ==
  ASSUME Mirror, NEW e \in Engines, AtWork(e)
  PROVE  Found(run[e]) \subseteq Sources
<1>1. run[e].opts \in Setting
  BY DEF Mirror, TypeInv, RunOK, AtWork
<1> QED
  BY <1>1 DEF Found, Setting

LEMMA CleanBeginMirror ==
  ASSUME Mirror, NEW e \in Engines, CleanBegin(e)
  PROVE  MirrorInv'
<1> DEFINE new == [run[e] EXCEPT !.phase = "orphans", !.toVisit = Outputs]
<1>1. /\ run \in [Engines -> Run] /\ run[e] \in Run /\ AtWork(e) /\ target' = target
      /\ \A s \in Sources : run[e].pc[s] \in Ends \cup {"none"}
  BY DEF Mirror, TypeInv, EngineTypeOK, CleanBegin, FilesOver, AtWork, Working
<1>2. (\A f \in Engines : f # e => run'[f] = run[f]) /\ run'[e] = new
  BY <1>1 DEF CleanBegin
<1>3. /\ new.phase = "orphans" /\ new.alone = run[e].alone /\ new.opts = run[e].opts
      /\ new.pc = run[e].pc /\ new.entries = run[e].entries /\ new.seen = run[e].seen
      /\ new.toVisit = Outputs
  BY <1>1 DEF Run
<1> HIDE DEF new
<1>4. ASSUME MirrorOK(run[e], target) PROVE MirrorOK(new, target')
  <2>1. Found(new) = Found(run[e]) /\ \A q : Sole(new, q) = Sole(run[e], q)
    BY <1>3 DEF Found, Sole
  <2>2. \A q, f : PlaceOK(run[e], q, f) => PlaceOK(new, q, f)
    BY <1>3 DEF PlaceOK, RightFile, Text
  <2>3. CleanOK(new, target')
    BY <1>1, <1>3 DEF CleanOK
  <2> QED
    BY <1>1, <1>4, <2>1, <2>2, <2>3 DEF MirrorOK
<1> QED
  BY <1>1, <1>2, <1>3, <1>4, OneMirror

LEMMA EndMirror ==
  ASSUME Mirror, NEW e \in Engines, ScanFails(e) \/ Return(e) \/ CleanDone(e)
  PROVE  MirrorInv'
<1>1. AtWork(e) /\ run \in [Engines -> Run]
  BY StepAtWork DEF RunStep, Mirror, TypeInv, EngineTypeOK
<1>2. PICK result \in {"idle", "done", "failed"} : run' = [run EXCEPT ![e] = NewRun(result)]
  BY DEF ScanFails, Return, CleanDone
<1>3. run'[e].phase \notin Working
  BY <1>1, <1>2 DEF NewRun, Working
<1>4. \A f \in Engines : f # e => run'[f] = run[f]
  BY <1>1, <1>2
<1> QED
  BY <1>1, <1>3, <1>4, OneMirror

LEMMA DeletedIsMissing ==
  ASSUME Mirror, NEW e \in Engines, NEW o \in Outputs, Delete(e, o)
  PROVE  target'[o].content = Missing /\ target' # target
<1>1. target \in [Outputs -> File] /\ target[o].content # Missing
  BY DEF Mirror, TypeInv, EngineTypeOK, Delete, Keeps
<1>2. target'[o] = NoFile
  BY <1>1 DEF Delete
<1> QED
  BY <1>1, <1>2 DEF NoFile

\* A visited output was not there, is in the index, could not be deleted, or is
\* deleted; none of the first kinds is touched.
LEMMA VisitMirror ==
  ASSUME Mirror, NEW e \in Engines, NEW o \in Outputs,
         Pass(e, o) \/ Delete(e, o) \/ DeleteFails(e, o)
  PROVE  MirrorInv'
<1>1. /\ run \in [Engines -> Run] /\ AtWork(e) /\ run[e].phase = "orphans"
      /\ \A f \in Engines : run[f] \in Run
  BY DEF Mirror, TypeInv, EngineTypeOK, Pass, Delete, DeleteFails, Visiting, AtWork, Working
<1> DEFINE place(f) == [s \in Sources |->
             IF OutputOf[s] = o /\ run[f].pc[s] = "content" THEN "lost" ELSE run[f].pc[s]]
           rest(f) == IF f = e THEN run[f].toVisit \ {o} ELSE run[f].toVisit
<1>2. /\ \A f \in Engines : f # e => run'[f].phase = run[f].phase /\ run'[f].alone = run[f].alone
      /\ run'[e].phase = run[e].phase /\ run'[e].alone = run[e].alone
      /\ run'[e].opts = run[e].opts /\ run'[e].entries = run[e].entries
      /\ run'[e].seen = run[e].seen /\ run'[e].toVisit = run[e].toVisit \ {o}
      /\ IF Delete(e, o) THEN run'[e].pc = place(e) ELSE run'[e].pc = run[e].pc
      /\ IF DeleteFails(e, o) THEN run'[e].kept = run[e].kept \cup {o}
         ELSE run'[e].kept = run[e].kept
  <2>1. CASE Pass(e, o) /\ ~Delete(e, o) /\ ~DeleteFails(e, o)
    BY <1>1, <2>1 DEF Pass, Run
  <2>2. CASE DeleteFails(e, o) /\ ~Delete(e, o)
    <3> DEFINE new == [run[e] EXCEPT !.toVisit = @ \ {o}, !.kept = @ \cup {o}]
    <3>1. run' = [run EXCEPT ![e] = new]
      BY <2>2 DEF DeleteFails
    <3>2. /\ new.phase = run[e].phase /\ new.alone = run[e].alone
          /\ new.opts = run[e].opts /\ new.entries = run[e].entries
          /\ new.seen = run[e].seen /\ new.toVisit = run[e].toVisit \ {o}
          /\ new.pc = run[e].pc /\ new.kept = run[e].kept \cup {o}
      BY <1>1 DEF Run
    <3> HIDE DEF new
    <3> QED
      BY <1>1, <2>2, <3>1, <3>2
  <2>3. CASE Delete(e, o)
    <3>1. ~DeleteFails(e, o)
      BY <2>3, DeletedIsMissing DEF DeleteFails, Keeps
    <3>2. \A f \in Engines : run'[f] = [run[f] EXCEPT !.toVisit = rest(f), !.pc = place(f)]
      BY <2>3 DEF Delete
    <3>3. rest(e) = run[e].toVisit \ {o}
      OBVIOUS
    <3> HIDE DEF place, rest
    <3>4. ASSUME NEW f \in Engines
          PROVE  /\ run'[f].phase = run[f].phase /\ run'[f].alone = run[f].alone
                 /\ run'[f].opts = run[f].opts /\ run'[f].entries = run[f].entries
                 /\ run'[f].seen = run[f].seen /\ run'[f].toVisit = rest(f)
                 /\ run'[f].pc = place(f) /\ run'[f].kept = run[f].kept
      <4> DEFINE new == [run[f] EXCEPT !.toVisit = rest(f), !.pc = place(f)]
      <4>1. run'[f] = new
        BY <3>2
      <4>2. /\ new.phase = run[f].phase /\ new.alone = run[f].alone
            /\ new.opts = run[f].opts /\ new.entries = run[f].entries
            /\ new.seen = run[f].seen /\ new.toVisit = rest(f)
            /\ new.pc = place(f) /\ new.kept = run[f].kept
        BY <1>1 DEF Run
      <4> QED
        BY <4>1, <4>2
    <3> QED
      BY <2>3, <3>1, <3>3, <3>4
  <2> QED
    BY <2>1, <2>2, <2>3
<1>3. ASSUME ~run[e].opts.dryRun, MirrorOK(run[e], target) PROVE MirrorOK(run'[e], target')
  <2>1. \A s \in Sources : run[e].pc[s] \in Ends \cup {"none"}
    BY <1>1, <1>3 DEF MirrorOK, CleanOK
  <2>2. run'[e].pc = run[e].pc
    BY <1>1, <1>2, <2>1 DEF Run, Ends
  <2>3. /\ Found(run'[e]) = Found(run[e]) /\ Known(run'[e]) = Known(run[e])
        /\ \A q : Sole(run'[e], q) = Sole(run[e], q)
    BY <1>2 DEF Found, Known, Sole
  <2>4. \A q, f : PlaceOK(run[e], q, f) => PlaceOK(run'[e], q, f)
    BY <1>2, <2>2 DEF PlaceOK, RightFile, Text
  <2>5. /\ Known(run[e]) = Index(e)
        /\ \A p \in Outputs : p # o => target'[p] = target[p]
        /\ o \in Index(e) => target'[o] = target[o]
    BY DEF Pass, Delete, DeleteFails, Keeps, Known, Found, Index, Listed, Mirror, TypeInv,
           EngineTypeOK
  <2>6. ~run[e].opts.orphanDryRun =>
          o \in Index(e) \/ target'[o].content = Missing \/ o \in run'[e].kept
    <3>1. CASE Pass(e, o)
      BY <1>3, <3>1 DEF Pass, Keeps
    <3>2. CASE Delete(e, o)
      BY <3>2, DeletedIsMissing
    <3>3. CASE DeleteFails(e, o)
      BY <1>2, <3>3
    <3> QED
      BY <3>1, <3>2, <3>3
  <2>7. CleanOK(run'[e], target')
    <3>1. run[e].kept \subseteq run'[e].kept
      BY <1>2
    <3> QED
      BY <1>1, <1>2, <1>3, <2>1, <2>2, <2>3, <2>5, <2>6, <3>1 DEF MirrorOK, CleanOK
  <2>8. \A s \in Found(run[e]) : OutputOf[s] \in Known(run[e]) /\ OutputOf[s] \in Outputs
    BY <1>1, StepSources DEF Known, Found
  <2>9. \A s \in Found(run[e]) : target'[OutputOf[s]] = target[OutputOf[s]]
    BY <2>5, <2>8
  <2> QED
    BY <1>3, <2>3, <2>4, <2>7, <2>9 DEF MirrorOK
<1> QED
  BY <1>1, <1>2, <1>3, OneMirror

LEMMA RemoteChangeMirror ==
  ASSUME Mirror, NEW s \in Sources, RemoteChange(s)
  PROVE  MirrorInv'
<1>1. target' = target
  BY DEF RemoteChange
<1>2. ASSUME NEW e \in Engines
      PROVE  /\ run'[e].phase = run[e].phase /\ run'[e].alone = run[e].alone
             /\ run'[e].opts = run[e].opts /\ run'[e].entries = run[e].entries
             /\ run'[e].pc = run[e].pc /\ run'[e].seen = run[e].seen
             /\ run'[e].toVisit = run[e].toVisit /\ run'[e].kept = run[e].kept
  <2>1. PICK gone : run'[e] = [run[e] EXCEPT !.gone = gone]
    BY DEF RemoteChange
  <2>2. run[e] \in Run
    BY DEF Mirror, TypeInv, EngineTypeOK
  <2> QED
    BY <2>1, <2>2 DEF Run
<1>3. ASSUME NEW e \in Engines, MirrorOK(run[e], target) PROVE MirrorOK(run'[e], target')
  <2>1. /\ Found(run'[e]) = Found(run[e]) /\ Known(run'[e]) = Known(run[e])
        /\ \A q : Sole(run'[e], q) = Sole(run[e], q)
    BY <1>2 DEF Found, Known, Sole
  <2>2. \A q, f : PlaceOK(run[e], q, f) => PlaceOK(run'[e], q, f)
    BY <1>2 DEF PlaceOK, RightFile, Text
  <2>3. CleanOK(run'[e], target')
    BY <1>1, <1>2, <1>3, <2>1 DEF MirrorOK, CleanOK
  <2> QED
    BY <1>1, <1>3, <2>1, <2>2, <2>3 DEF MirrorOK
<1> QED
  BY <1>2, <1>3 DEF Mirror, MirrorInv, AtWork

LEMMA MirrorInit == EngineInit => Mirror
<1>1. ASSUME EngineInit, NEW e \in Engines PROVE ~AtWork(e)
  BY <1>1 DEF EngineInit, NewRun, AtWork, Working
<1> QED
  BY <1>1, TypeInvInit DEF Mirror, MirrorInv

LEMMA MirrorNext ==
  ASSUME Mirror, SameForm, [EngineNext]_engineVars
  PROVE  Mirror'
<1>1. ASSUME NEW e \in Engines, RunStep(e) PROVE MirrorInv'
  BY <1>1, GoroutineMirror, ScanMirror, ScanDoneMirror, CleanBeginMirror, EndMirror, VisitMirror
     DEF RunStep
<1>2. ASSUME NEW e \in Engines, NEW o \in Options, Begin(e, o) PROVE MirrorInv'
  BY <1>2, BeginMirror
<1>3. ASSUME Cancel \/ UNCHANGED engineVars PROVE MirrorInv'
  <2>1. run' = run /\ target' = target
    BY <1>3 DEF Cancel, engineVars
  <2> QED
    BY <2>1 DEF Mirror, MirrorInv, AtWork
<1>4. ASSUME Restart PROVE MirrorInv'
  <2>1. \A e \in Engines : ~AtWork(e)'
    BY <1>4 DEF Restart, NewRun, AtWork, Working
  <2> QED
    BY <2>1 DEF MirrorInv
<1>5. ASSUME NEW s \in Sources, RemoteChange(s) PROVE MirrorInv'
  BY <1>5, RemoteChangeMirror
<1>6. MirrorInv'
  BY <1>1, <1>2, <1>3, <1>4, <1>5 DEF EngineNext
<1> QED
  BY <1>6, TypeInvNext DEF Mirror

\* A step of a goroutine leaves its run in the phase it is in.
LEMMA FileStepPhase ==
  ASSUME TypeInv, NEW e \in Engines, NEW s \in Sources, FileStep(e, s)
  PROVE  run'[e].phase = run[e].phase
<1>1. run[e] \in Run /\ run \in [Engines -> Run]
  BY DEF TypeInv, EngineTypeOK
<1> QED
  BY <1>1 DEF FileStep, Run

\* A run succeeds by Return or CleanDone.
LEMMA SuccessStep ==
  ASSUME Mirror, [EngineNext]_engineVars, NEW e \in Engines, AtWork(e), run[e].alone,
         run'[e].phase = "done"
  PROVE  Return(e) \/ CleanDone(e)
<1>1. run \in [Engines -> Run] /\ run[e] \in Run /\ run[e].phase # "done"
  BY DEF Mirror, TypeInv, EngineTypeOK, AtWork, Working
<1>2. ASSUME NEW f \in Engines, RunStep(f) PROVE f = e
  BY <1>2, StepAtWork DEF Mirror, MirrorInv
<1>3. ASSUME NEW s \in Sources, Goroutine(e, s) PROVE FALSE
  <2>1. FileStep(e, s)
    BY <1>3, GoroutineStep DEF Mirror
  <2>2. run'[e].phase = run[e].phase
    BY <2>1, FileStepPhase DEF Mirror
  <2> QED
    BY <1>1, <2>2
<1>4. ASSUME NEW s \in Sources, ScanEntry(e, s) \/ ScanMisses(e, s) PROVE FALSE
  BY <1>1, <1>4 DEF ScanEntry, ScanMisses, Run
<1>5. ASSUME ScanFails(e) \/ ScanDone(e) \/ CleanBegin(e) PROVE FALSE
  BY <1>1, <1>5 DEF ScanFails, ScanDone, CleanBegin, NewRun, Run
<1>6. ASSUME NEW o \in Outputs, Pass(e, o) \/ DeleteFails(e, o) PROVE FALSE
  BY <1>1, <1>6 DEF Pass, DeleteFails, Run
<1>7. ASSUME NEW o \in Outputs, Delete(e, o) PROVE FALSE
  <2>1. PICK rest, place : run'[e] = [run[e] EXCEPT !.toVisit = rest, !.pc = place]
    BY <1>7 DEF Delete
  <2>2. run'[e].phase = run[e].phase
    BY <1>1, <2>1 DEF Run
  <2> QED
    BY <1>1, <2>2
<1>8. ASSUME NEW f \in Engines, NEW o \in Options, Begin(f, o) PROVE FALSE
  BY <1>1, <1>8 DEF Begin, NewRun, Run
<1>9. ASSUME Cancel \/ Restart \/ UNCHANGED engineVars PROVE FALSE
  BY <1>1, <1>9 DEF Cancel, Restart, engineVars, NewRun
<1>10. ASSUME NEW s \in Sources, RemoteChange(s) PROVE FALSE
  <2>1. PICK lost : run'[e] = [run[e] EXCEPT !.gone = lost]
    BY <1>10 DEF RemoteChange
  <2> QED
    BY <1>1, <2>1 DEF Run
<1>11. RunStep(e)
  BY <1>2, <1>8, <1>9, <1>10 DEF EngineNext
<1> QED
  BY <1>3, <1>4, <1>5, <1>6, <1>7, <1>11 DEF RunStep

LEMMA SuccessIsMirrored ==
  ASSUME Mirror, [EngineNext]_engineVars, NEW e \in Engines,
         AtWork(e), run'[e].phase = "done", run[e].alone, ~run[e].opts.dryRun
  PROVE  /\ \A s \in Listed(e) : At(e, s, "end") /\ SoleSource(e, s) => FileIsRight(e, s)
         /\ run[e].opts.orphans /\ ~run[e].opts.orphanDryRun /\ ~cancelled =>
              \A o \in Outputs : target[o].content # Missing => o \in Index(e) \cup run[e].kept
<1>1. MirrorOK(run[e], target)
  BY DEF Mirror, MirrorInv
<1>2. /\ Listed(e) = Found(run[e]) /\ Index(e) = Known(run[e])
      /\ \A s : SoleSource(e, s) = Sole(run[e], s)
  BY DEF Listed, Found, Index, Known, SoleSource, Sole
<1>3. ASSUME NEW s \in Listed(e), At(e, s, "end"), SoleSource(e, s) PROVE FileIsRight(e, s)
  <2>1. PlaceOK(run[e], s, target[OutputOf[s]])
    BY <1>1, <1>2, <1>3 DEF MirrorOK
  <2>2. RightFile(run[e], s, target[OutputOf[s]])
    BY <1>3, <2>1 DEF PlaceOK, At
  <2> QED
    BY <2>2 DEF RightFile, FileIsRight, Text, Mine
<1>4. ASSUME run[e].opts.orphans, ~run[e].opts.orphanDryRun, ~cancelled,
             NEW o \in Outputs, target[o].content # Missing
      PROVE  o \in Index(e) \cup run[e].kept
  <2>1. CleanDone(e)
    BY <1>4, SuccessStep DEF Return
  <2>2. run[e].phase = "orphans" /\ run[e].toVisit = {}
    BY <1>4, <2>1 DEF CleanDone
  <2> QED
    BY <1>1, <1>2, <1>4, <2>2 DEF MirrorOK, CleanOK
<1> QED
  BY <1>3, <1>4

\* A run that succeeds and overlapped with no other has left each of its files right and
\* no orphan it could delete, for every number of runs, files and settings in which a
\* file is compared with what would be written.
THEOREM DoneIsMirroredHolds ==
  ASSUME SameForm
  PROVE  EngineSpec => DoneIsMirrored
<1>1. Mirror /\ [EngineNext]_engineVars => Mirror'
  BY MirrorNext
<1>2. Mirror /\ [EngineNext]_engineVars =>
        [\A e \in Engines :
           AtWork(e) /\ run'[e].phase = "done" /\ run[e].alone /\ ~run[e].opts.dryRun =>
             /\ \A s \in Listed(e) : At(e, s, "end") /\ SoleSource(e, s) => FileIsRight(e, s)
             /\ run[e].opts.orphans /\ ~run[e].opts.orphanDryRun /\ ~cancelled =>
                  \A o \in Outputs :
                    target[o].content # Missing => o \in Index(e) \cup run[e].kept]_engineVars
  BY SuccessIsMirrored
<1> QED
  BY <1>1, <1>2, MirrorInit, PTL DEF EngineSpec, DoneIsMirrored
=============================================================================
