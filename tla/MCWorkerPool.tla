----------------------------- MODULE MCWorkerPool -----------------------------
(***************************************************************************)
(* Instances of WorkerPool for TLC.                                        *)
(***************************************************************************)
EXTENDS WorkerPool, TLC

CONSTANTS j1, k1, id, w1, w2

MCJobIds == {j1}
MCDedupKeys == {k1}
MCWorkerIds == {id}
MCWorkers == {w1, w2}
MCZero == {0}
MCLimit2 == {2}

MCEnvJobRows == {[exists |-> FALSE, enabled |-> FALSE, status |-> "idle"]}
=============================================================================
