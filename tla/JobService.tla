----------------------------- MODULE JobService -----------------------------
(***************************************************************************)
(* The benchmark service: API handlers, workers and the reaper over one    *)
(* database and one queue.  A step of one actor leaves the private state   *)
(* of the others alone; they meet in jobs, results and queue.              *)
(***************************************************************************)
EXTENDS Submission, Cancellation, ResultsReader, Reaper

vars == <<jobs, results, queue, submit, cancel, read, worker>>

Init ==
    /\ StoreInit
    /\ BrokerInit
    /\ SubmitInit
    /\ CancelInit
    /\ ReadInit
    /\ WorkerInit

RedisLoss ==
    /\ "redis_loss" \in Faults
    /\ LoseAll
    /\ UNCHANGED <<jobs, results, submit, cancel, read, worker>>

Next ==
    \/ SubmitNext /\ UNCHANGED <<cancel, read, worker>>
    \/ CancelNext /\ UNCHANGED <<submit, read, worker>>
    \/ ReadNext /\ UNCHANGED <<queue, submit, cancel, worker>>
    \/ WorkerNext /\ UNCHANGED <<submit, cancel, read>>
    \/ ReaperNext /\ UNCHANGED <<submit, cancel, read>>
    \/ RedisLoss

(***************************************************************************)
(* Fairness.  A handler that has been entered runs on (threads of the API  *)
(* are scheduled), a worker keeps popping and executing (worker.work loops *)
(* on after the death of its work-horse), a benchmark ends (bounded        *)
(* iterations), and the reaper thread of the surviving parent keeps        *)
(* sweeping while time passes, so every abandoned RUNNING row is swept at  *)
(* last.  Nothing restarts a worker process: docker-compose.yml has no     *)
(* restart policy, and what a service owes whose workers are all gone is   *)
(* not claimed.  No client owes a request and no fault is fair.            *)
(***************************************************************************)
SweepIncluding(j) ==
    \E S \in SUBSET JobIds : j \in S /\ SweepStaleJobs(S) /\ UNCHANGED <<submit, cancel, read>>

Fairness ==
    /\ \A s \in Submitters : WF_vars(SubmitStep(s) /\ UNCHANGED <<cancel, read, worker>>)
    /\ \A c \in Cancellers : WF_vars(CancelStep(c) /\ UNCHANGED <<submit, read, worker>>)
    /\ \A w \in Workers : WF_vars(TaskStep(w) /\ UNCHANGED <<submit, cancel, read>>)
    /\ \A j \in JobIds : WF_vars(SweepIncluding(j))

Spec == Init /\ [][Next]_vars /\ Fairness

-----------------------------------------------------------------------------
TypeOK ==
    /\ StoreTypeOK
    /\ queue \in Seq(JobIds)
    /\ SubmitTypeOK
    /\ CancelTypeOK
    /\ ReadTypeOK
    /\ WorkerTypeOK

(***************************************************************************)
(* The inductive invariant behind the safety properties below.             *)
(***************************************************************************)

(* Whatever an actor holds while it works is the id of a row that exists.  *)
QueueHolds == \A i \in 1..Len(queue) : Exists(queue[i])
SubmitHolds ==
    \A s \in Submitters : submit[s].pc \in {"enqueue", "fail"} =>
        submit[s].job \in JobIds /\ Exists(submit[s].job)
CancelHolds == \A c \in Cancellers : cancel[c].pc # "idle" => cancel[c].job \in JobIds
ReadHolds   == \A r \in Readers : read[r].pc # "idle" => read[r].job \in JobIds
TaskHolds ==
    \A w \in Workers : worker[w].pc # "idle" =>
        worker[w].job \in JobIds /\ Exists(worker[w].job)

HandsHoldJobs == QueueHolds /\ SubmitHolds /\ CancelHolds /\ ReadHolds /\ TaskHolds

(* The columns of one row agree, and with the result rows.                 *)
RowsConsistent ==
    \A j \in JobIds :
        /\ jobs[j].started => jobs[j].status \in {RUNNING, SUCCEEDED, FAILED}
        /\ jobs[j].status \in {RUNNING, SUCCEEDED} => jobs[j].started
        /\ jobs[j].status = SUCCEEDED => j \in results
        /\ j \in results => jobs[j].started
        /\ jobs[j].status = FAILED => jobs[j].error # "none"
        /\ jobs[j].status \in {"absent", QUEUED, RUNNING, CANCELLED} =>
              jobs[j].error = "none"

(* What a worker knows of its job still holds when it acts on it.          *)
WorkersConsistent ==
    \A w \in Workers :
        /\ Executing(w) => jobs[worker[w].job].started
        /\ worker[w].pc \in {"load", "run", "save"} => worker[w].job \notin results
        /\ worker[w].pc \in {"run", "save"} => worker[w].seen.status # SUCCEEDED
        /\ worker[w].pc = "fail" /\ worker[w].seen.status = FAILED =>
              jobs[worker[w].job].status \in {SUCCEEDED, FAILED}
        /\ /\ worker[w].pc = "fail"
           /\ worker[w].seen.status # FAILED
           /\ worker[w].seen.error # "none"
           => worker[w].job \in results /\ jobs[worker[w].job].error # "none"

CancelsConsistent ==
    \A c \in Cancellers :
        /\ cancel[c].pc = "update" => Exists(cancel[c].job)
        /\ cancel[c].pc \in {"remove", "refresh", "refuse"} =>
              jobs[cancel[c].job].status \notin {"absent", QUEUED}
        /\ cancel[c].reply = "not_cancellable" => cancel[c].shown \notin {"none", QUEUED}

ReadsConsistent ==
    \A r \in Readers :
        /\ read[r].pc = "results" /\ read[r].seen = SUCCEEDED => read[r].job \in results
        /\ read[r].reply # "incomplete"

(***************************************************************************)
(* Safety, under every fault.                                              *)
(***************************************************************************)

(* No two workers are ever inside the benchmark of the same job, whatever  *)
(* was delivered twice, swept, cancelled or lost (mark_running's claim).   *)
ExclusiveExecution ==
    \A v, w \in Workers :
        v # w /\ Executing(v) /\ Executing(w) => worker[v].job # worker[w].job

(* A job that cancel_job won was not started and is in no worker's try:    *)
(* cancellation and claim exclude each other (cancel_job's docstring).     *)
CancelledNeverRuns ==
    \A j \in JobIds : jobs[j].status = CANCELLED =>
        /\ ~jobs[j].started
        /\ \A w \in Workers : Executing(w) => worker[w].job # j

(* The only moves a status ever makes, overwritten terminal rows included: *)
(* a row never becomes queued again, runs only from queued, and a          *)
(* cancelled job can become failed but never running or succeeded.         *)
StatusMoves ==
    { <<"absent", QUEUED>>, <<QUEUED, RUNNING>>, <<QUEUED, CANCELLED>>,
      <<QUEUED, FAILED>>, <<RUNNING, SUCCEEDED>>, <<RUNNING, FAILED>>,
      <<FAILED, SUCCEEDED>>, <<SUCCEEDED, FAILED>>, <<CANCELLED, FAILED>> }

OnlyStatusMoves ==
    [][\A j \in JobIds :
          jobs[j].status # jobs'[j].status
              => <<jobs[j].status, jobs'[j].status>> \in StatusMoves]_vars

(* A client that is answered with results gets all of them, although the   *)
(* job and its results are read by two statements with two snapshots.      *)
ReadersSeeWholeResults == \A r \in Readers : read[r].reply # "incomplete"

(* job_results has UNIQUE (job_id, attack_name): a worker about to store   *)
(* its results never finds the job's rows there already.                   *)
ResultsNeverCollide ==
    \A w \in Workers : worker[w].pc = "save" => worker[w].job \notin results

(* The 409 of cancel_job is formatted after the UPDATE that refused, from  *)
(* a fresh read; it still never claims the job is queued.                  *)
RefusalIsTruthful ==
    \A c \in Cancellers : cancel[c].reply = "not_cancellable" =>
        cancel[c].shown \in {RUNNING} \cup TERMINAL_STATUSES

(* A failed job always says why, even when several writers flushed partial *)
(* column sets over each other.                                            *)
FailedIsExplained ==
    \A j \in JobIds : jobs[j].status = FAILED => jobs[j].error # "none"

(* The inductive invariant: all the parts.                                 *)
Inv ==
    /\ TypeOK
    /\ HandsHoldJobs
    /\ RowsConsistent
    /\ WorkersConsistent
    /\ ExclusiveExecution
    /\ CancelsConsistent
    /\ ReadsConsistent

(* A replay answers with the job of the same key and body, and no key ever *)
(* belongs to two jobs, however the submissions interleave.                *)
KeyNamesOneJob ==
    /\ \A i, j \in JobIds : jobs[i].key = jobs[j].key /\ jobs[i].key # NoKey => i = j
    /\ \A s \in Submitters : submit[s].reply = "replayed" =>
          /\ jobs[submit[s].job].key = submit[s].key
          /\ jobs[submit[s].job].fingerprint = submit[s].fingerprint

(* The count of _assert_capacity and the INSERT are two statements and     *)
(* nothing serialises the handlers: each one between them can add a job    *)
(* above the limit, no more.                                               *)
ActiveBound ==
    Cardinality(Active) <= MaxActive - 1 + Cardinality(Submitters)

(***************************************************************************)
(* Safety, under the faults each property survives.                        *)
(***************************************************************************)
Pending(j) ==
    \/ \E s \in Submitters : submit[s].pc \in {"enqueue", "fail"} /\ submit[s].job = j
    \/ InQueue(j)
    \/ \E w \in Workers : Unclaimed(w) /\ worker[w].job = j

(* Unless a stranding fault struck, a queued row has someone who will take *)
(* it on: the handler that inserted it, the queue, or a worker's hands.    *)
QueuedIsAccounted ==
    StrandingFaults \cap Faults = {} =>
        \A j \in JobIds : jobs[j].status = QUEUED => Pending(j)

(* A queued row is stranded when nobody will take it on any more.          *)
Stranded(j) == jobs[j].status = QUEUED /\ ~Pending(j)

(* The steps in which job j can lose its last holder: Redis forgets it,    *)
(* the handler between its INSERT and its push dies or is cut off from the *)
(* database, or the worker between its pop and its claim is lost.          *)
Abandons(j) ==
    \/ RedisLoss
    \/ \E s \in Submitters :
          \/ InsertReplyLost(s, j)
          \/ submit[s].job = j /\ submit[s].pc = "fail" /\ SubmitDbError(s)
          \/ submit[s].job = j /\ submit[s].pc \in {"enqueue", "fail"} /\ SubmitCrash(s)
    \/ \E w \in Workers :
          /\ worker[w].job = j /\ Unclaimed(w)
          /\ ImportFails(w) \/ StrayAlarm(w) \/ TaskDbError(w) \/ Kill(w)

(* Whatever else fails, is refused, doubled, cancelled or swept, and       *)
(* however the actors interleave, no other step strands a job: row and     *)
(* queue entry have no common transaction, and between the two there is    *)
(* always one handler or worker that has the job in its hands.             *)
OnlyFaultsStrand ==
    [][\A j \in JobIds : ~Stranded(j) /\ Stranded(j)' => Abandons(j)]_vars

(* Unless an overwriting fault struck, what a client reads about the end   *)
(* of a job is consistent: exactly the succeeded jobs have results, and no *)
(* succeeded job carries the error message of an earlier writer.           *)
OutcomeConsistent ==
    OverwritingFaults \cap Faults = {} =>
        \A j \in JobIds :
            /\ j \in results <=> jobs[j].status = SUCCEEDED
            /\ jobs[j].status = SUCCEEDED => jobs[j].error = "none"

Lifecycle ==
    INSTANCE JobLifecycle WITH status    <- [j \in JobIds |-> jobs[j].status],
                               published <- results

(* Unless an overwriting fault struck, the service implements the          *)
(* lifecycle: one life per job, terminal statuses final, results published *)
(* together with the status.                                               *)
ImplementsLifecycle == Lifecycle!LifeSpec

(***************************************************************************)
(* Liveness.                                                               *)
(***************************************************************************)

(* A running job reaches a terminal status whatever kills or interrupts    *)
(* its worker: "a job only ever leaves running in a terminal state", and   *)
(* it leaves it.                                                           *)
RunningEnds ==
    \A j \in JobIds : jobs[j].status = RUNNING ~> jobs[j].status \in TERMINAL_STATUSES

(* Every submitted job reaches a terminal status, unless a stranding fault *)
(* struck: the contract in the docstring of tasks.py.                      *)
JobsEnd ==
    \A j \in JobIds : Exists(j) ~> jobs[j].status \in TERMINAL_STATUSES
=============================================================================
