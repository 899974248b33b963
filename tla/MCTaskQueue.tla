----------------------------- MODULE MCTaskQueue -----------------------------
(***************************************************************************)
(* Instances of TaskQueue for TLC.                                         *)
(***************************************************************************)
EXTENDS TaskQueue, TLC

CONSTANTS j1, k1, k2, w1

MCJobIds == {j1}
MCDedupKeys == {k1, k2}
MCWorkerIds == {w1}
MCPriorities == {0, 1}
MCAttemptLimits == {0, 2}
MCStartDelays == {0, 1}

\* Keys are only compared with each other.
MCSymmetry == Permutations(MCDedupKeys)
=============================================================================
