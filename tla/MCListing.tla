------------------------------- MODULE MCListing -------------------------------
(***************************************************************************)
(* Instances of Listing for TLC: three files, at the root, in a directory  *)
(* and in a directory of that, and settings of every kind, each differing  *)
(* from MCServer in what its comment says.                                 *)
(***************************************************************************)
EXTENDS Listing, TLC

MCDirs == {<<"media">>, <<"media", "tv">>}
MCFiles == {<<"x">>, <<"media", "x">>, <<"media", "tv", "x">>}

(* The remote list first, the local one for a fallback. *)
MCServer ==
  [type |-> "clouddrive2", access |-> <<"/", "mnt">>, mount |-> <<"/", "vol">>,
   source |-> <<"/", "mnt">>, remoteRoot |-> Root, mode |-> "local", prefer |-> TRUE,
   exclude |-> {}, shown |-> <<>>]
MCLocalServer == [MCServer EXCEPT !.type = "local", !.remoteRoot = None, !.prefer = FALSE]

MCSetups ==
  { MCServer,
    \* a directory is excluded, and the mount path is not set
    [MCServer EXCEPT !.exclude = {<<"media", "tv">>}, !.mount = None],
    \* the access path shows the remote root: the fallback cannot list it
    [MCServer EXCEPT !.remoteRoot = <<"/", "media">>, !.shown = <<"media">>],
    \* and has its name, so that the fallback can
    [MCServer EXCEPT !.remoteRoot = <<"/", "media">>, !.shown = <<"media">>,
                     !.access = <<"/", "media">>],
    \* the access path has the name of a directory on the drive
    [MCServer EXCEPT !.access = <<"/", "media">>],
    \* a relative source instead of a remote root, and a remote root that is not shown
    [MCServer EXCEPT !.remoteRoot = None, !.access = <<"/", "media">>, !.source = <<"tv">>,
                     !.shown = <<"media">>],
    \* a source below the mount path: the fallback cannot list it
    [MCServer EXCEPT !.remoteRoot = None, !.access = <<"/", "media">>,
                     !.source = <<"/", "vol">>, !.shown = <<"media">>],
    \* OpenList, local listing only
    [MCServer EXCEPT !.type = "openlist", !.prefer = FALSE, !.mount = <<"/", "mnt">>],
    \* OpenList without an access path, and URLs: remote only
    [MCServer EXCEPT !.type = "openlist", !.access = None, !.mount = None,
                     !.remoteRoot = <<"media">>, !.exclude = {<<"tv">>}],
    [MCServer EXCEPT !.mode = "url"],
    \* a local server, all of it or one directory of it
    MCLocalServer,
    [MCLocalServer EXCEPT !.source = <<"/", "mnt", "media">>, !.exclude = {<<"tv">>}] }
================================================================================
