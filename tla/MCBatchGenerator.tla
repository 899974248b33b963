--------------------------- MODULE MCBatchGenerator ---------------------------
(***************************************************************************)
(* Instances of BatchGenerator for TLC: a film, and a note the filter     *)
(* drops.                                                                  *)
(***************************************************************************)
EXTENDS BatchGenerator

MCFiles == {"film", "note"}
MCMatching == {"film"}
MCOutputOf == [f \in MCFiles |-> f]
===============================================================================
