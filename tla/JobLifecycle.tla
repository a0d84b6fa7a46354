---------------------------- MODULE JobLifecycle ----------------------------
(***************************************************************************)
(* What the service promises about a job, without processes, calls or      *)
(* faults: the lifecycle diagram of the README and the JobStatus comment   *)
(* of models.py.  A job has one life, its terminal status is final, and    *)
(* its results are published by the very step that makes it succeeded.     *)
(***************************************************************************)
CONSTANT JobIds

VARIABLES
    status,      \* JobIds -> status, "absent" before the submission
    published    \* the jobs whose results can be read

lifeVars == <<status, published>>

LifeInit ==
    /\ status = [j \in JobIds |-> "absent"]
    /\ published = {}

Move(j, from, to) ==
    /\ status[j] = from
    /\ status' = [status EXCEPT ![j] = to]

Submit(j)  == Move(j, "absent", "queued") /\ UNCHANGED published
Start(j)   == Move(j, "queued", "running") /\ UNCHANGED published
Cancel(j)  == Move(j, "queued", "cancelled") /\ UNCHANGED published
Succeed(j) == Move(j, "running", "succeeded") /\ published' = published \cup {j}

(* One reaper sweep may fail several jobs at once.                         *)
Fail(S) ==
    /\ \A j \in S : status[j] \in {"queued", "running"}
    /\ status' = [j \in JobIds |-> IF j \in S THEN "failed" ELSE status[j]]
    /\ UNCHANGED published

LifeNext ==
    \/ \E j \in JobIds : Submit(j) \/ Start(j) \/ Cancel(j) \/ Succeed(j)
    \/ \E S \in SUBSET JobIds : Fail(S)

LifeSpec == LifeInit /\ [][LifeNext]_lifeVars
=============================================================================
