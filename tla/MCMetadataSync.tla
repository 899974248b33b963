---------------------------- MODULE MCMetadataSync ----------------------------
(***************************************************************************)
(* An instance of MetadataSync for TLC: a second version of a file, of the *)
(* size of the first, may appear about when a copy of the first is         *)
(* written.  Nothing tells the size of the first.                          *)
(***************************************************************************)
EXTENDS MetadataSync

CONSTANTS c1, nfo, cover

MCSizeOf == [v \in Versions |-> 5]
MCListedSize == [v \in Versions |-> IF v = 1 THEN 0 ELSE 5]
MCTimeOf == [v \in Versions |-> IF v = 1 THEN 1 ELSE 5]
===============================================================================
