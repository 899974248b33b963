------------------------------- MODULE MCEngine -------------------------------
(***************************************************************************)
(* Instances of Engine for TLC.                                            *)
(***************************************************************************)
EXTENDS Engine, TLC

CONSTANTS s1, s2, o1, e1, e2, url, mapped

MCSources == {s1, s2}
MCOutputs == {o1}
MCForms == {url, mapped}
MCTimes == {0, 1, 3}
MCKnownTime == {1}
MCEngines == {e1, e2}

\* movie.mkv and movie.mp4 have the same output.
MCOutputOf == [s \in MCSources |-> o1]

MCPlain ==
  [match |-> MCSources, dryRun |-> FALSE, force |-> FALSE, skip |-> FALSE,
   orphans |-> TRUE, orphanDryRun |-> FALSE, written |-> url, compared |-> url,
   local |-> FALSE]

MCOptions ==
  {MCPlain,
   [MCPlain EXCEPT !.match = {s1}, !.skip = TRUE, !.local = TRUE],
   [MCPlain EXCEPT !.match = {s1}, !.force = TRUE, !.skip = TRUE, !.orphans = FALSE],
   [MCPlain EXCEPT !.match = {s1}, !.force = TRUE, !.dryRun = TRUE],
   [MCPlain EXCEPT !.match = {s2}, !.orphanDryRun = TRUE, !.written = mapped,
                   !.compared = mapped]}

\* Two jobs with one tree.
MCJobs ==
  {[MCPlain EXCEPT !.match = {s1}], [MCPlain EXCEPT !.match = {s2}, !.skip = TRUE]}

MCAllOptions == MCOptions \cup MCJobs
MCLocal == {[MCPlain EXCEPT !.local = TRUE]}

\* The time of s2 is known and never changes.  Runs with other options are made by
\* e1, one after the other.  The two jobs run over files whose times are known and
\* a tree nobody has written to: e2 begins when e1 has made its listing, and once
\* e1 is over it does not begin again before e2 is.  While both are at work the
\* context is not cancelled and the file of s1 stays; that of s2 may be absent.
MCOverlapBound ==
  /\ remote[s2] \in {1, Absent}
  /\ IF \E e \in Engines : run[e].opts \in MCJobs
     THEN /\ \A e \in Engines : run[e].opts \in MCJobs \cup {NoOptions}
          /\ remote[s1] \in {1, Absent}
          /\ (\A e \in Engines : AtWork(e)) => ~cancelled /\ remote[s1] = 1
          /\ AtWork(e2) => ~run[e2].alone /\ (AtWork(e1) => run[e1].toScan = {})
          /\ AtWork(e1) /\ run[e1].alone =>
               /\ run[e2].phase = "idle"
               /\ run[e1].toScan # {} =>
                    \A o \in Outputs : target[o].content \in {Missing, Other}
     ELSE run[e2].phase = "idle"
=============================================================================
