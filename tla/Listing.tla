-------------------------------- MODULE Listing --------------------------------
(***************************************************************************)
(* What a run of a job lists and what it makes of it: the choice of        *)
(* drivers and roots in internal/worker/executor.go, the drivers'          *)
(* recursive listings (internal/infra/filesystem), the fallback from a     *)
(* remote listing to a local one, and the path and the .strm text each     *)
(* listed file gets.  A listing takes many requests, and the drive changes *)
(* between them.                                                           *)
(*                                                                         *)
(* A drive path is a tuple of names; a path of a setting is one too, with  *)
(* "/" in front when it is absolute.  A test for a string prefix compares  *)
(* whole names here: settings in which a name is a prefix of another are   *)
(* left out.                                                               *)
(***************************************************************************)
EXTENDS Integers, Sequences

CONSTANTS
  Files, Dirs,        \* what may be on the drive: drive paths, <<>> is its root
  Setups,             \* settings of a job and its server
  MaxDepth,           \* of a listing; 100 in the code
  None

Path == Seq(STRING)
Settings ==
  [type : {"local", "clouddrive2", "openlist"}, mode : {"local", "url"}, prefer : BOOLEAN,
   source : Path, remoteRoot : {None} \cup Path, access : {None} \cup Path,
   mount : {None} \cup Path, exclude : SUBSET Path, shown : Path]

ASSUME ListingAssumption ==
  /\ MaxDepth \in Nat \ {0}
  /\ Files \cup Dirs \subseteq Path \ {<<>>} /\ Files \cap Dirs = {}
  /\ \A p \in Files \cup Dirs : \A i \in 1..Len(p) - 1 : SubSeq(p, 1, i) \in Dirs
  /\ Setups \subseteq Settings
  \* helpers.go requires an access path, of OpenList only if there is a mount path
  /\ \A s \in Setups : s.access = None => s.mount = None /\ s.type = "openlist"
  \* an empty access path is none at all, and a name has no "/" in it
  /\ \A s \in Setups : s.access # <<>> /\ \A i \in 2..Len(s.source) : s.source[i] # "/"

VARIABLES
  setup,              \* of the job, whose runs follow one another
  drive,              \* the files and directories there are
  phase,              \* of the run: "idle", "listing", "listed" or "failed"
  lister,             \* the driver that lists or has listed: "remote" or "local"
  waiting,            \* directories, for a local driver files too, still to visit
  found,              \* files listed, with the path each entry has
  stayed, seen,       \* history: what was on the drive always, at some time, of this listing
  missed,             \* history: what a local listing could not read
  placed              \* history: the files of the accepted listings of all runs, with their paths

listingVars == <<setup, drive, phase, lister, waiting, found, stayed, seen, missed, placed>>

Root == <<"/">>
Abs(p) == p # <<>> /\ p[1] = "/"
Names(p) == IF Abs(p) THEN Tail(p) ELSE p
Rel(p, dir) == SubSeq(p, Len(dir) + 1, Len(p))
Inside(p, dir) == Len(dir) <= Len(p) /\ \A i \in 1..Len(dir) : p[i] = dir[i]

--------------------------------------------------------------------------------
(* Settings. *)

UsesLocalDriver(s) ==
  s.type # "local" /\ s.mode # "url" /\ (s.type = "openlist" => s.access # None)

(* The local driver: the directory it lists, and what .strm files call it.   *)
ScanRoot(s) == s.access
StrmRoot(s) == IF s.mount # None THEN s.mount ELSE ScanRoot(s)

(* The path the engine is started with.  A remote server's is its remote root. *)
EngineRoot(s) ==
  IF s.type # "local" THEN IF s.remoteRoot # None THEN s.remoteRoot ELSE s.source
  ELSE IF s.access = None \/ ~Abs(s.source) THEN s.source
  ELSE IF s.source = s.access THEN Root
  ELSE IF Inside(s.source, s.access) THEN Rel(s.source, s.access)
  ELSE None

(* The directory below ScanRoot that a local driver lists for it.             *)
LocalRoot(s) ==
  LET p == EngineRoot(s) IN
  IF p = None THEN None
  ELSE IF p = Root THEN <<>>
  ELSE IF ~Abs(p) THEN p
  ELSE IF Inside(p, ScanRoot(s)) THEN Rel(p, ScanRoot(s))
  ELSE None

(* The drive directory of a remote listing that takes the local one's place. *)
RemoteListRoot(s) ==
  IF s.remoteRoot # None THEN Names(s.remoteRoot)
  ELSE IF s.access = None THEN Names(s.source)
  ELSE IF s.mount # None /\ Abs(s.source)
       THEN IF Inside(s.source, s.mount)
            THEN Names(s.access) \o Rel(s.source, s.mount) ELSE None
  ELSE IF Abs(s.source) THEN None
  ELSE Names(s.access) \o s.source

Overridden(s) == s.prefer /\ UsesLocalDriver(s) /\ RemoteListRoot(s) # None
ListsRemotely(s) == Overridden(s) \/ (s.type # "local" /\ ~UsesLocalDriver(s))

(* The drive directory a remote listing begins at, and the one its entries'  *)
(* paths are relative to.                                                    *)
RemoteRoot(s) == IF Overridden(s) THEN RemoteListRoot(s) ELSE Names(EngineRoot(s))

(* Mutant: the paths of a remote listing are not mapped to local ones. *)
RemoteBase_Bug(s) == <<>>

RemoteBase(s) == IF Overridden(s) THEN RemoteListRoot(s) ELSE <<>>

(* The text of the .strm file of an entry.  A local driver takes a path that *)
(* looks like one below its root for one.                                    *)
DriverText(s, path) ==
  IF s.type # "local" /\ ~UsesLocalDriver(s) THEN <<"url">> \o path
  ELSE StrmRoot(s) \o
       (IF Inside(Root \o path, ScanRoot(s)) THEN Rel(Root \o path, ScanRoot(s)) ELSE path)

Cleaned(p) == IF p = None THEN <<".">> ELSE p

(* Mutant: the two paths are swapped. *)
Mapped_Bug(s, text) ==
  IF UsesLocalDriver(s) /\ Cleaned(s.access) # Cleaned(s.mount) /\ Inside(text, Cleaned(s.mount))
  THEN Cleaned(s.access) \o Rel(text, Cleaned(s.mount))
  ELSE text

Mapped(s, text) ==
  IF UsesLocalDriver(s) /\ Cleaned(s.access) # Cleaned(s.mount) /\ Inside(text, Cleaned(s.access))
  THEN Cleaned(s.mount) \o Rel(text, Cleaned(s.access))
  ELSE text

StrmText(s, path) == Mapped(s, DriverText(s, path))

(* Mutant: the path is not made relative to the root. *)
Excluded_Bug(s, path) == \E dir \in s.exclude : Inside(path, dir)

(* exclude.go: directories are excluded by their path below the engine's.   *)
Excluded(s, path) ==
  LET root == Names(EngineRoot(s)) IN
  /\ Inside(path, root)
  /\ \E dir \in s.exclude : Inside(Rel(path, root), dir)

--------------------------------------------------------------------------------
(* The drive.  s.shown is the directory the access path shows.               *)

Child(p, dir) == Len(p) = Len(dir) + 1 /\ Inside(p, dir)
There(dir) == dir = <<>> \/ dir \in drive \cap Dirs
Children(dir, kinds) == {p \in drive \cap kinds : Child(p, dir)}
Scanning == phase = "listing"

Appear(p) ==
  /\ p \in (Files \cup Dirs) \ drive /\ There(SubSeq(p, 1, Len(p) - 1))
  /\ drive' = drive \cup {p}
  /\ seen' = IF Scanning THEN seen \cup {p} ELSE seen
  /\ UNCHANGED <<setup, phase, lister, waiting, found, stayed, missed, placed>>

Vanish(p) ==
  /\ p \in drive
  /\ drive' = {q \in drive : ~Inside(q, p)}
  /\ stayed' = IF Scanning THEN stayed \cap drive' ELSE stayed
  /\ UNCHANGED <<setup, phase, lister, waiting, found, seen, missed, placed>>

--------------------------------------------------------------------------------
(* Listing.  Entries wait in no order: that of the requests, breadth first,  *)
(* and that of the walk, depth first, are two of those it allows.            *)

ListedDir == IF lister = "remote" THEN RemoteRoot(setup) ELSE setup.shown \o LocalRoot(setup)
Depth(p) == Len(p) - Len(ListedDir)

Start(driver, dir) ==
  /\ phase' = "listing" /\ lister' = driver /\ waiting' = {dir}
  /\ stayed' = drive /\ seen' = drive
  /\ found' = {} /\ missed' = {}

Fail ==
  /\ phase' = "failed" /\ waiting' = {} /\ found' = {}
  /\ UNCHANGED <<lister, stayed, seen, missed>>

StartLocal ==
  IF LocalRoot(setup) = None THEN Fail ELSE Start("local", setup.shown \o LocalRoot(setup))

ListingBegins ==
  /\ ~Scanning
  /\ IF ListsRemotely(setup) THEN Start("remote", RemoteRoot(setup)) ELSE StartLocal
  /\ UNCHANGED <<setup, drive, placed>>

(* One request of listCloudDrive2 or listOpenList, for one directory.       *)
ListDirectory ==
  /\ Scanning /\ lister = "remote"
  /\ \E dir \in waiting :
       /\ There(dir)
       /\ found' = found \cup
            {[file |-> f, path |-> Rel(f, RemoteBase(setup))] : f \in Children(dir, Files)}
       /\ waiting' = (waiting \ {dir}) \cup
            {d \in Children(dir, Dirs) : Depth(dir) + 1 < MaxDepth}
  /\ UNCHANGED <<setup, drive, phase, lister, stayed, seen, missed, placed>>

(* Mutant: what was listed so far is taken for the listing. *)
RemoteFails_Bug ==
  /\ Scanning /\ lister = "remote" /\ waiting # {}
  /\ waiting' = {}
  /\ UNCHANGED <<setup, drive, phase, lister, found, stayed, seen, missed, placed>>

(* A request or the login fails, the directory is gone, or the context ended. *)
(* What was listed so far is dropped; the fallback begins anew.               *)
RemoteFails ==
  /\ Scanning /\ lister = "remote" /\ waiting # {}
  /\ IF Overridden(setup) /\ setup.access # None THEN StartLocal ELSE Fail
  /\ UNCHANGED <<setup, drive, placed>>

(* One call of the function WalkDir is given.                                *)
VisitFile ==
  /\ Scanning /\ lister = "local"
  /\ \E f \in waiting \cap drive \cap Files :
       /\ found' = found \cup {[file |-> f, path |-> Rel(f, setup.shown)]}
       /\ waiting' = waiting \ {f}
  /\ UNCHANGED <<setup, drive, phase, lister, stayed, seen, missed, placed>>

VisitDir ==
  /\ Scanning /\ lister = "local"
  /\ \E dir \in waiting :
       /\ There(dir)
       /\ waiting' = (waiting \ {dir}) \cup
            {p \in Children(dir, Files \cup Dirs) : Depth(dir) < MaxDepth}
  /\ UNCHANGED <<setup, drive, phase, lister, found, stayed, seen, missed, placed>>

(* Gone or unreadable: logged, and the walk goes on, even without its root. *)
Miss ==
  /\ Scanning /\ lister = "local"
  /\ \E p \in waiting : waiting' = waiting \ {p} /\ missed' = missed \cup {p}
  /\ UNCHANGED <<setup, drive, phase, lister, found, stayed, seen, placed>>

WalkInterrupted ==
  /\ Scanning /\ lister = "local" /\ waiting # {}
  /\ Fail
  /\ UNCHANGED <<setup, drive, placed>>

(* The engine takes the listing and filters it.                             *)
ListingDone ==
  /\ Scanning /\ waiting = {}
  /\ phase' = "listed"
  /\ found' = {e \in found : ~Excluded(setup, e.path)}
  /\ placed' = placed \cup found'
  /\ UNCHANGED <<setup, drive, lister, waiting, stayed, seen, missed>>

ListingInit ==
  /\ setup \in Setups
  /\ drive \in {d \in SUBSET (Files \cup Dirs) :
                 \A p \in d : \A i \in 1..Len(p) - 1 : SubSeq(p, 1, i) \in d}
  /\ phase = "idle" /\ lister = "remote" /\ waiting = {} /\ found = {}
  /\ stayed = {} /\ seen = {} /\ missed = {} /\ placed = {}

List == ListDirectory \/ RemoteFails \/ VisitFile \/ VisitDir \/ Miss \/ WalkInterrupted \/ ListingDone

ListingNext == ListingBegins \/ List \/ \E p \in Files \cup Dirs : Appear(p) \/ Vanish(p)

ListingSpec == ListingInit /\ [][ListingNext]_listingVars

--------------------------------------------------------------------------------
(* Properties. *)

(* The access path shows the directory the remote listing begins at.        *)
Coherent(s) == Overridden(s) => s.shown = RemoteListRoot(s)

InScope(f) == Inside(f, ListedDir) /\ Depth(f) <= MaxDepth
Base == IF lister = "remote" THEN RemoteBase(setup) ELSE setup.shown
EntryPath(f) == Rel(f, Base)

ListingTypeOK ==
  /\ setup \in Setups /\ drive \subseteq Files \cup Dirs
  /\ phase \in {"idle", "listing", "listed", "failed"} /\ lister \in {"remote", "local"}
  /\ waiting \subseteq Path /\ missed \subseteq Path
  /\ found \cup placed \subseteq [file : Files, path : Path]
  /\ stayed \subseteq seen /\ seen \subseteq Files \cup Dirs

(* A listing the engine accepts has every file that was there all the time, *)
(* unless it is too deep, excluded by its path, or behind a directory a     *)
(* local walk could not read; and it has no file that never was there.      *)
ListedWhatStayed ==
  phase = "listed" =>
    /\ \A e \in found : e.file \in seen /\ InScope(e.file)
    /\ \A f \in Files \cap stayed :
         \/ ~InScope(f)
         \/ Excluded(setup, EntryPath(f))
         \/ \E p \in missed : Inside(f, p)
         \/ [file |-> f, path |-> EntryPath(f)] \in found

(* The engine's path names the directory that entries' paths are relative   *)
(* to, or the driver keeps it in front of them.                             *)
ExclusionsApply(s) ==
  \/ EngineRoot(s) = Root
  \/ ~UsesLocalDriver(s)
  \/ ~Abs(EngineRoot(s)) /\ ~Overridden(s)

(* The files of the directories a job excludes, by their paths in the       *)
(* directory listed, are left out, and no others are.                       *)
ExclusionsAreKept ==
  phase = "listed" /\ ExclusionsApply(setup) =>
    \A f \in Files \cap stayed :
      InScope(f) /\ (\A p \in missed : ~Inside(f, p)) =>
        ((\E e \in found : e.file = f)
           <=> ~\E dir \in setup.exclude : Inside(Rel(f, ListedDir), dir))

(* Whichever driver lists, a file has one output in every run, and no two   *)
(* files share it: else cleaning would delete what the last run has written. *)
OutputIsStable ==
  Coherent(setup) => \A d, e \in placed : d.file = e.file <=> d.path = e.path

(* What a player that sees the drive at the mount path calls a file.         *)
PlayerPath(s, f) ==
  IF s.type # "local" /\ ~UsesLocalDriver(s) THEN <<"url">> \o f
  ELSE StrmRoot(s) \o Rel(f, s.shown)

(* The mount path is set, and neither path is below the other.               *)
MountIsApart(s) ==
  UsesLocalDriver(s) =>
    /\ s.mount # None
    /\ Inside(s.mount, s.access) \/ Inside(s.access, s.mount) => s.mount = s.access

(* The .strm file of a listed file names that file, whichever driver listed *)
(* it, unless its path looks like a path below the access path.             *)
StrmNamesTheFile ==
  phase = "listed" /\ Coherent(setup) /\ MountIsApart(setup) =>
    \A e \in found :
      setup.access = None \/ ~Inside(Root \o e.path, setup.access) =>
        StrmText(setup, e.path) = PlayerPath(setup, e.file)
================================================================================
