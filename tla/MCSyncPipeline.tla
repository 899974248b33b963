---------------------------- MODULE MCSyncPipeline ----------------------------
(***************************************************************************)
(* Instances of SyncPipeline for TLC.                                      *)
(***************************************************************************)
EXTENDS SyncPipeline

\* Two films that share a .strm, and a cover.
MCFiles == {"mkv", "mp4", "cover"}
MCKindOf(f) == IF f = "cover" THEN "meta" ELSE "strm"
MCKind == [f \in MCFiles |-> MCKindOf(f)]
MCTargetOf == [f \in MCFiles |-> IF MCKindOf(f) = "strm" THEN "strm" ELSE f]
MCCover == {"cover"}
MCStrm == {"strm"}
===============================================================================
