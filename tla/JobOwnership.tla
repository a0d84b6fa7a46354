---------------------------- MODULE JobOwnership ----------------------------
(***************************************************************************)
(* What the worker processes promise each other about the jobs, without    *)
(* clocks, phases or processes that start and die: a job is claimed once   *)
(* and while it is queued, its holder decides how it ends or drops it, and *)
(* only jobs that no guarded worker holds are reaped.                      *)
(***************************************************************************)
CONSTANTS
    Workers, Jobs,
    Guarded     \* the workers whose overdue tasks are killed in time

VARIABLES
    status,     \* of each job
    held        \* the job in the hands of each worker, as a set

ownVars == <<status, held>>

OwnInit ==
    /\ status = [j \in Jobs |-> "queued"]
    /\ held = [w \in Workers |-> {}]

Claim(w, j) ==
    /\ status[j] = "queued" /\ held[w] = {}
    /\ status' = [status EXCEPT ![j] = "running"]
    /\ held' = [held EXCEPT ![w] = {j}]

(* An unguarded worker may end a job that has been reaped meanwhile.       *)
End(w, j, outcome) ==
    /\ held[w] = {j}
    /\ status' = [status EXCEPT ![j] = outcome]
    /\ held' = [held EXCEPT ![w] = {}]

Drop(w) ==
    /\ held[w] # {}
    /\ held' = [held EXCEPT ![w] = {}]
    /\ UNCHANGED status

Abandoned(j) == status[j] = "running" /\ \A w \in Guarded : j \notin held[w]

Reap(S) ==
    /\ UNCHANGED held
    /\ \A j \in S : Abandoned(j)
    /\ status' = [j \in Jobs |-> IF j \in S THEN "failed" ELSE status[j]]

OwnNext ==
    \/ \E S \in SUBSET Jobs : Reap(S)
    \/ \E w \in Workers : Drop(w)
    \/ \E w \in Workers, j \in Jobs :
          Claim(w, j) \/ \E outcome \in {"succeeded", "failed"} : End(w, j, outcome)

OwnSpec == OwnInit /\ [][OwnNext]_ownVars
=============================================================================
