------------------------------- MODULE MCServers -------------------------------
(***************************************************************************)
(* Instances of Servers for TLC: two ids, two names and two configurations *)
(* for a table, one job.  Callers, ids, names and configurations are       *)
(* interchangeable.                                                        *)
(***************************************************************************)
EXTENDS Servers, TLC

CONSTANTS c1, c2, s1, s2, home, work, x, y, j1

MCIds == {s1, s2}
MCNames == {home, work}
MCConfigs == {x, y}
MCCallers == {c1, c2}
MCSymmetry ==
  Permutations(MCCallers) \cup Permutations(MCIds) \cup Permutations(MCNames)
  \cup Permutations(MCConfigs)
================================================================================
