----------------------------- MODULE MCExecution -----------------------------
(***************************************************************************)
(* An instance of Execution for TLC: two goroutines, one job, and requests *)
(* that run it or cancel or delete its runs, one at a time.  A sync        *)
(* overwrites the one metadata file there is.                              *)
(***************************************************************************)
EXTENDS Execution, TLC

CONSTANTS j1, k1, k2, id, w1, w2, r1, nfo

MCJobIds == {j1}
MCDedupKeys == {k1, k2}
MCWorkerIds == {id}
MCWorkers == {w1, w2}
MCReqs == {r1}
MCOps == {"run", "cancelRun", "deleteRuns"}
MCSymmetry == Permutations(MCDedupKeys) \cup Permutations(MCWorkers)
MCZero == {0}
MCNormal == {TaskPriorityNormal}
MCEntries == {nfo}
MCStrategies == {"overwrite"}
MCSizeOf == [v \in Versions |-> 5]
MCTimeOf == [v \in Versions |-> v]

\* A run is retried once.
MCClockBound == clock <= 1
===============================================================================
