----------------------------- MODULE MCJobControl -----------------------------
(***************************************************************************)
(* Instances of JobControl for TLC.                                        *)
(***************************************************************************)
EXTENDS JobControl, TLC

CONSTANTS j1, k1, k2, id, w1, r1, r2

MCJobIds == {j1}
MCDedupKeys == {k1, k2}
MCWorkerIds == {id}
MCWorkers1 == {w1}
MCReqs == {r1, r2}
MCReqs1 == {r1}
MCZero == {0}
MCNormal == {TaskPriorityNormal}
MCDeleteOps == {"run", "delete"}

MCSymmetry == Permutations(MCDedupKeys) \cup Permutations(MCReqs)

\* Two requests are followed only where they enqueue or cancel runs that are
\* there while the server is up, and past a race only StopJob and the workers.  A
\* server that goes down and a job that is changed have one run, and nothing comes
\* after the last run but StopJob.
MCRaceBound ==
  /\ (\A r \in Reqs : req[r] # NoReq) =>
       stops = 0 /\ server = "up"
  /\ raced => \A r \in Reqs : req[r].next \in {"none", "list", "cancel", "idle", "cronEnqueue"}
  /\ created > 1 =>
       /\ stops = 0 /\ server = "up"
       /\ job[j1].exists /\ job[j1].enabled
       /\ \A r \in Reqs : req[r].next \in {"none", "mark", "list", "cancel", "idle", "deleteRuns"}
       /\ \E r \in Reqs : req[r].next \in {"none", "deleteRuns"}
=============================================================================
