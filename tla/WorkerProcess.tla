---------------------------- MODULE WorkerProcess ----------------------------
(***************************************************************************)
(* The worker processes in time: worker.main with its start-up sweep and   *)
(* its reaper thread, the RQ worker it chooses, and the claim and the end  *)
(* of a task.  JobService lets a sweep find any job that has no live task; *)
(* here the clocks decide, and what JobService takes for granted of them   *)
(* is what is shown.                                                       *)
(***************************************************************************)
EXTENDS Integers

CONSTANTS
    Workers, Jobs,
    worker_class, sys_platform,     \* of each worker: the setting, the host
    Skew,                           \* how far each host's clock is ahead
    job_timeout_seconds, stale_job_grace_seconds,
    KillGrace,                      \* when RQ has killed an overdue work-horse
    MaxTime                         \* bounds the clock

None == 0

ASSUME ProcessAssumption ==
    /\ worker_class \in [Workers -> {"auto", "fork", "simple"}]
    /\ sys_platform \in [Workers -> {"linux", "darwin"}]
    /\ Skew \in [Workers -> Int]
    /\ job_timeout_seconds \in Nat /\ stale_job_grace_seconds \in Nat
    /\ KillGrace \in Nat /\ MaxTime \in Nat /\ None \notin Workers

(* What the deployment must provide: clocks that agree well enough.        *)
ASSUME ClocksAssumption ==
    \A v, w \in Workers : KillGrace + Skew[v] - Skew[w] <= stale_job_grace_seconds

VARIABLES
    now,
    queue,      \* the ids RQ still holds
    row,        \* status, started_at and, as a history, who claimed
    proc,       \* of each worker process: its phase, its timer and, as a
                \* history, its start and its last completed sweep's cutoff
    sweep,      \* a sweep between its clock reading and its UPDATE
    horse       \* the task in hand

processVars == <<now, queue, row, proc, sweep, horse>>

Clock(w)  == now + Skew[w]
Limit     == job_timeout_seconds + stale_job_grace_seconds

(* Slip: the timeout is forgotten.                                         *)
GraceOnly(w) == Clock(w) - stale_job_grace_seconds

Cutoff(w) == Clock(w) - Limit

(* resolve_worker_class: does the worker fork a work-horse for each job?   *)
Forks(w) ==
    \/ worker_class[w] = "fork"
    \/ worker_class[w] = "auto" /\ sys_platform[w] = "linux"

NoProcess == [phase |-> "down", born |-> 0, due |-> 0, swept |-> 0]
NoSweep   == [pc |-> "none", cutoff |-> 0]
NoHorse   == [pc |-> "none", job |-> None, start |-> 0, stamp |-> 0]

ProcessInit ==
    /\ now = 0
    /\ queue = Jobs
    /\ row = [j \in Jobs |-> [status |-> "queued", started_at |-> 0, owner |-> None]]
    /\ proc = [w \in Workers |-> NoProcess]
    /\ sweep = [w \in Workers |-> NoSweep]
    /\ horse = [w \in Workers |-> NoHorse]

(***************************************************************************)
(* worker.main.                                                            *)
(***************************************************************************)
OpenSweep(w) == sweep' = [sweep EXCEPT ![w] = [pc |-> "update", cutoff |-> Cutoff(w)]]

(* main: the start-up sweep comes first.                                   *)
StartProcess(w) ==
    /\ proc[w].phase = "down"
    /\ OpenSweep(w)
    /\ proc' = [proc EXCEPT ![w] =
          [phase |-> "startup", born |-> Clock(w), due |-> now, swept |-> 0]]
    /\ UNCHANGED <<now, queue, row, horse>>

(* The thread's next turn.                                                 *)
TimerSweep(w) ==
    /\ proc[w].phase = "working" /\ sweep[w].pc = "none" /\ now >= proc[w].due
    /\ OpenSweep(w)
    /\ UNCHANGED <<now, queue, row, proc, horse>>

(* The thread's first turn comes at once, the others after an interval.    *)
Rested(w) ==
    IF proc[w].phase = "startup" THEN [proc[w] EXCEPT !.phase = "working"]
    ELSE [proc[w] EXCEPT !.due = now + stale_job_grace_seconds]

(* Slip: a process looks after its own jobs only.                          *)
OwnStale(w, r) ==
    r.status = "running" /\ r.started_at < sweep[w].cutoff /\ r.owner = w

(* Slip: the rows are not selected by their status.                        *)
AnyStale(w, r) == r.started_at < sweep[w].cutoff

Stale(w, r) == r.status = "running" /\ r.started_at < sweep[w].cutoff

EndSweep(w) ==
    /\ sweep[w].pc = "update"
    /\ row' = [j \in Jobs |->
                  IF Stale(w, row[j]) THEN [row[j] EXCEPT !.status = "failed"] ELSE row[j]]
    /\ proc' = [proc EXCEPT ![w] = [Rested(w) EXCEPT !.swept = sweep[w].cutoff]]
    /\ sweep' = [sweep EXCEPT ![w] = NoSweep]
    /\ UNCHANGED <<now, queue, horse>>

(* Slip: an error of the start-up sweep is logged and forgotten.           *)
SweepErrorIgnored(w) ==
    /\ sweep[w].pc = "update"
    /\ proc' = [proc EXCEPT ![w] = Rested(w)]
    /\ sweep' = [sweep EXCEPT ![w] = NoSweep]
    /\ UNCHANGED <<now, queue, row, horse>>

(* The database does not answer: the thread logs it, main ends.            *)
SweepError(w) ==
    /\ sweep[w].pc = "update"
    /\ proc' = [proc EXCEPT ![w] = IF @.phase = "startup" THEN NoProcess ELSE Rested(w)]
    /\ sweep' = [sweep EXCEPT ![w] = NoSweep]
    /\ UNCHANGED <<now, queue, row, horse>>

(* SIGKILL, OOM or the container's end: the process and its work-horse,    *)
(* since the process is the container's first one.  (On a bare host an     *)
(* orphaned work-horse lives on until its own alarm, at the timeout.)      *)
KillProcess(w) ==
    /\ proc[w].phase # "down"
    /\ proc' = [proc EXCEPT ![w] = NoProcess]
    /\ sweep' = [sweep EXCEPT ![w] = NoSweep]
    /\ horse' = [horse EXCEPT ![w] = NoHorse]
    /\ UNCHANGED <<now, queue, row>>

(***************************************************************************)
(* The RQ worker and run_benchmark_job.                                    *)
(***************************************************************************)
Dequeue(w, j) ==
    /\ proc[w].phase = "working" /\ horse[w].pc = "none" /\ j \in queue
    /\ queue' = queue \ {j}
    /\ horse' = [horse EXCEPT ![w] =
          [pc |-> "begun", job |-> j, start |-> now, stamp |-> 0]]
    /\ UNCHANGED <<now, row, proc, sweep>>

(* Slip: the clock is read when the module is loaded.                      *)
StampOfProcess(w) == proc[w].born

Stamp(w) == Clock(w)

(* mark_running reads the clock, then sends the UPDATE.                    *)
StampClaim(w) ==
    /\ horse[w].pc = "begun"
    /\ horse' = [horse EXCEPT ![w].pc = "stamped", ![w].stamp = Stamp(w)]
    /\ UNCHANGED <<now, queue, row, proc, sweep>>

ClaimJob(w) ==
    /\ horse[w].pc = "stamped"
    /\ row[horse[w].job].status = "queued"
    /\ row' = [row EXCEPT ![horse[w].job] =
                  [status |-> "running", started_at |-> horse[w].stamp, owner |-> w]]
    /\ horse' = [horse EXCEPT ![w].pc = "claimed"]
    /\ UNCHANGED <<now, queue, proc, sweep>>

(* mark_succeeded or, when the engine or RQ's alarm raises, mark_failed:   *)
(* the row is flushed whatever it says by then.                            *)
EndJob(w, status) ==
    /\ horse[w].pc = "claimed"
    /\ row' = [row EXCEPT ![horse[w].job].status = status]
    /\ horse' = [horse EXCEPT ![w] = NoHorse]
    /\ UNCHANGED <<now, queue, proc, sweep>>

(* The work-horse dies alone, or is killed: "a job that overruns its       *)
(* timeout can be killed outright".                                        *)
HorseDies(w) ==
    /\ horse[w].pc # "none" /\ Forks(w)
    /\ horse' = [horse EXCEPT ![w] = NoHorse]
    /\ UNCHANGED <<now, queue, row, proc, sweep>>

(* Time passes.  The parent wakes up every half minute and kills a work-   *)
(* horse that is a minute over its timeout.                                *)
KillDue(w) ==
    Forks(w) /\ horse[w].pc # "none" /\ now >= horse[w].start + job_timeout_seconds + KillGrace
Tick ==
    /\ now < MaxTime
    /\ \A w \in Workers : ~KillDue(w)
    /\ now' = now + 1
    /\ UNCHANGED <<queue, row, proc, sweep, horse>>

ProcessNext ==
    \/ \E w \in Workers :
          \/ StartProcess(w) \/ TimerSweep(w) \/ EndSweep(w) \/ SweepError(w) \/ KillProcess(w)
          \/ \E j \in Jobs : Dequeue(w, j)
          \/ StampClaim(w) \/ ClaimJob(w)
          \/ \E status \in {"succeeded", "failed"} : EndJob(w, status)
          \/ HorseDies(w)
    \/ Tick

ProcessSpec == ProcessInit /\ [][ProcessNext]_processVars

-----------------------------------------------------------------------------
(***************************************************************************)
(* The inductive invariant.                                                *)
(***************************************************************************)
Consuming(w) == horse[w].pc # "none"
Claimed(w)   == horse[w].pc = "claimed"

ProcessTypeOK ==
    /\ now \in Nat
    /\ queue \subseteq Jobs
    /\ row \in [Jobs -> [status : {"queued", "running", "succeeded", "failed"},
                         started_at : Int, owner : Workers \cup {None}]]
    /\ proc \in [Workers -> [phase : {"down", "startup", "working"}, born : Int,
                             due : Int, swept : Int]]
    /\ sweep \in [Workers -> [pc : {"none", "update"}, cutoff : Int]]
    /\ horse \in [Workers -> [pc : {"none", "begun", "stamped", "claimed"},
                              job : Jobs \cup {None}, start : Int, stamp : Int]]

(* A process consumes after its start-up sweep.                            *)
PhasesOK ==
    \A w \in Workers :
        /\ proc[w].phase = "startup" => sweep[w].pc = "update" /\ sweep[w].cutoff = proc[w].born - Limit
        /\ Consuming(w) => proc[w].phase = "working"
        /\ proc[w].phase = "working" => proc[w].swept >= proc[w].born - Limit
        /\ proc[w].phase # "down" => proc[w].born <= Clock(w)

(* No clock of a sweep runs ahead of its host's.                           *)
CutoffsOK ==
    \A w \in Workers :
        /\ proc[w].phase = "working" => proc[w].swept <= Cutoff(w)
        /\ sweep[w].pc = "update" => sweep[w].cutoff <= Cutoff(w)
        /\ sweep[w].pc = "update" /\ proc[w].phase = "working" => sweep[w].cutoff >= proc[w].born - Limit

(* A forked task is not older than RQ lets it become, and each task holds  *)
(* a job of its own.                                                       *)
HorsesOK ==
    \A w \in Workers : Consuming(w) =>
        /\ horse[w].job \in Jobs /\ horse[w].job \notin queue
        /\ horse[w].start <= now
        /\ Forks(w) => now <= horse[w].start + job_timeout_seconds + KillGrace
        /\ horse[w].pc # "begun" => horse[w].start + Skew[w] <= horse[w].stamp
        /\ ~Claimed(w) => row[horse[w].job].status = "queued"
        /\ Claimed(w) => row[horse[w].job].started_at = horse[w].stamp
        /\ \A v \in Workers \ {w} : Consuming(v) => horse[v].job # horse[w].job

QueuedAreUnclaimed == \A j \in queue : row[j].status = "queued"

ProcessInv == ProcessTypeOK /\ PhasesOK /\ CutoffsOK /\ HorsesOK /\ QueuedAreUnclaimed

-----------------------------------------------------------------------------
(* A job in the hands of a living work-horse is never declared abandoned,  *)
(* whichever process sweeps and however late its UPDATE arrives after it   *)
(* read the clock (sweep_stale_jobs: "by definition abandoned").           *)
LiveJobIsNeverSwept ==
    \A w \in Workers : Forks(w) /\ Claimed(w) => row[horse[w].job].status = "running"

(* A completed sweep leaves no job that was overdue by its clock, and none *)
(* appears later: a claim that was stamped long ago does not arrive after  *)
(* it, for its work-horse is dead.                                         *)
StaleRowsAreGone ==
    \A v \in Workers, j \in Jobs :
        proc[v].phase = "working" /\ row[j].status = "running" /\ Forks(row[j].owner) =>
            row[j].started_at >= proc[v].swept

(* "Before consuming anything it reaps jobs abandoned by a previous        *)
(* worker" (main.py): what was overdue when the process started is gone    *)
(* when it takes its first job, although the sweep may fail.               *)
NothingAbandonedWhileConsuming ==
    \A w \in Workers, j \in Jobs :
        Consuming(w) /\ row[j].status = "running" /\ Forks(row[j].owner) =>
            row[j].started_at >= proc[w].born - Limit

(* With the clocks, the phases and the deaths hidden, the processes do     *)
(* what the Reaper module takes for granted: what is swept is abandoned,   *)
(* for a holder that forks is dead before its job is overdue.              *)
Ownership ==
    INSTANCE JobOwnership
        WITH Guarded <- {w \in Workers : Forks(w)},
             status <- [j \in Jobs |-> row[j].status],
             held <- [w \in Workers |-> IF Claimed(w) THEN {horse[w].job} ELSE {}]
ImplementsOwnership == Ownership!OwnSpec
=============================================================================
