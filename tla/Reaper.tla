------------------------------- MODULE Reaper -------------------------------
(***************************************************************************)
(* sweep_stale_jobs, run at worker start and then on a timer by the reaper *)
(* thread.  Clocks are abstracted: a sweep finds some set of started rows  *)
(* past timeout + grace.  Unless a job may overrun, no task is still alive *)
(* then: RQ raises inside the task at the timeout and the parent of the    *)
(* forked work-horse kills it before the grace period is over.             *)
(***************************************************************************)
EXTENDS Worker

(* A task that has claimed j and has not ended.                            *)
TaskAlive(j) ==
    \E w \in Workers : /\ worker[w].job = j
                       /\ worker[w].pc \in {"load", "run", "save", "saved",
                                            "handler", "fail"}

MayBeOverdue(j) ==
    /\ jobs[j].started
    /\ "overrun" \in Faults \/ ~TaskAlive(j)

SweepStaleJobs(S) ==
    /\ S # {}
    /\ \A j \in S : MayBeOverdue(j)
    /\ SweepRows(S)
    /\ UNCHANGED <<results, queue, worker>>

ReaperNext == \E S \in SUBSET JobIds : SweepStaleJobs(S)
=============================================================================
