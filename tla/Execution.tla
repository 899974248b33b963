------------------------------- MODULE Execution -------------------------------
(***************************************************************************)
(* Runs and their metadata synchronisation together: Executor.Run of       *)
(* internal/worker/executor.go, called by the goroutines of the pool       *)
(* (JobControl), calls syncMetadata (MetadataSync) once the engine has     *)
(* returned without an error, and returns what it returns.                 *)
(*                                                                         *)
(* Each goroutine has one sync: Syncs are the Workers.  The tree is that   *)
(* of one job, which no other job writes to.  The context of a run is the  *)
(* pool's: cancelling a run changes its row and nothing else, so that its  *)
(* executor goes on to the end.                                            *)
(***************************************************************************)
EXTENDS JobControl, MetadataSync

CONSTANTS
  TreeJob             \* the job whose tree MetadataSync is about

VARIABLES
  began,              \* goroutines whose run has begun its metadata sync
  overtaken           \* history: a run of TreeJob was executed beside one taken for over

execVars == <<controlVars, syncVars, began, overtaken>>

ExecInit == ControlInit /\ SyncInit /\ began = {} /\ overtaken = FALSE

InEngine(w) == wpc[w] = "exec" /\ wjob[w] = TreeJob

\* The row of w's run is there, says that it is running, and no goroutine of an
\* earlier run with its key has changed it.
Valid(w) ==
  /\ Own(w) /\ wserial[w] \notin meddled
  /\ task[wrun[w]].status = "running"

\* A run that was cancelled, and perhaps deleted, is still executed while another
\* goroutine works on the same tree.
Overtaking ==
  \E v, w \in Workers : v # w /\ InEngine(v) /\ InEngine(w) /\ ~Valid(v)

\* RunOnce has returned nil, and the job's options ask for metadata.
SyncBegins(w) ==
  /\ InEngine(w) /\ w \notin began
  /\ \E s \in Strategies : Begin(w, s)
  /\ began' = began \cup {w}
  /\ UNCHANGED controlVars

SyncGoesOn ==
  /\ (\E w \in Workers : SyncStep(w)) \/ (\E e \in Entries : Change(e))
  /\ UNCHANGED <<controlVars, began>>

\* Executor.Run returns nil only if syncMetadata, where it was called, has, and an
\* error if it has not.
Returns(w) ==
  w \in began =>
    \/ wpc'[w] = "complete" /\ sync[w].phase = "ok"
    \/ wpc'[w] = "fail" /\ sync[w].phase \in {"idle", "failed"}

\* What a step of handlers, goroutines or process means for the syncs.
Follows ==
  /\ \A w \in Workers : wpc[w] = "exec" /\ wpc'[w] \in {"complete", "fail"} => Returns(w)
  /\ began' = {w \in began : wpc'[w] \in {"exec", "complete"}}
  /\ \/ server # "down" /\ server' = "down" /\ Restart
     \/ server = "draining" /\ server' = "stopping" /\ ContextEnds
     \/ /\ server' = server \/ server' \notin {"down", "stopping"}
        /\ UNCHANGED syncVars

ExecStep ==
  \/ (\E w \in Workers : SyncBegins(w)) \/ SyncGoesOn
  \/ ControlNext /\ Follows

ExecNext == ExecStep /\ overtaken' = (overtaken \/ Overtaking')

ExecSpec == ExecInit /\ [][ExecNext]_execVars

-------------------------------------------------------------------------------
(***************************************************************************)
(* Properties.                                                             *)
(***************************************************************************)

\* The copies beside a job's .strm files are whole at any moment, through failures,
\* retries, restarts, deletions and cancellations: as long as its runs were enqueued
\* one at a time (~raced), and none was executed beside one that a StopJob or
\* CancelRun took for over, deleted or not, its key given again or not (~overtaken).
CopiesAreWhole == ~raced /\ ~overtaken => TargetIsWhole

\* A run that is about to be written down as completed, and whose sync was not cut
\* short by the end of the pool, has dealt with every metadata file of its listing,
\* and nothing is left that would still do so.
CompletedIsHandled ==
  \A w \in began : wpc[w] = "complete" =>
    /\ sync[w].phase = "ok" /\ sync[w].prod = "closed"
    /\ ~sync[w].halted => Handled(w) = Listed(w)
===============================================================================
