----------------------------- MODULE MCScheduler -----------------------------
(***************************************************************************)
(* Instances of Scheduler for TLC.                                         *)
(***************************************************************************)
EXTENDS Scheduler, TLC

CONSTANTS five1, five2, six, r1, r2

MCFiveField == {five1, five2}
MCSixField == {six}
MCReqs == {r1, r2}
MCSymmetry == Permutations(MCReqs) \cup Permutations(MCFiveField)

\* Bound: behaviours in which requests overlap are followed with one job, the
\* others with all of them.
MCOverlapBound ==
  overlapped =>
    /\ \A j \in JobIds \ {1} : rows[j] = NoRow /\ entries[j] = NoEntry
    /\ \A r \in Reqs : req[r].job \in {1, Null}
=============================================================================
