----------------------------- MODULE MCJobService -----------------------------
(***************************************************************************)
(* Instances of JobService for TLC.                                        *)
(***************************************************************************)
EXTENDS JobService, TLC

CONSTANTS j1, j2, c1, c2, s1, i1, i2

MCJobs == {j1, j2}
MCRuns == {c1, c2}
MCStops == {s1}
MCIds == {i1, i2}

\* Jobs are alike: the first call may as well be for the first job.
MCFirstJob == call[c1].job = j1
===============================================================================
