------------------------------ MODULE JobStore ------------------------------
(***************************************************************************)
(* The database, as jobs.py and models.py use it: the tables jobs and      *)
(* job_results, and the statements that write them.  PostgreSQL under READ *)
(* COMMITTED locks the row an UPDATE matches and evaluates its WHERE on    *)
(* the latest version, so each committed transaction is one step here.     *)
(*                                                                         *)
(* JobIds is the supply of uuid4 values: a row is "absent" until a         *)
(* submission inserts it and no code path deletes one.  A request body is  *)
(* the member of Fingerprints that request_fingerprint computes for it.    *)
(***************************************************************************)
EXTENDS Naturals, FiniteSets

CONSTANTS JobIds, NoJob, Keys, NoKey, Fingerprints, NoFingerprint

ASSUME StoreAssumption ==
    /\ NoJob \notin JobIds
    /\ NoKey \notin Keys
    /\ NoFingerprint \notin Fingerprints

VARIABLES
    jobs,      \* the table jobs: JobIds -> Row
    results    \* the jobs whose job_results rows are committed

QUEUED    == "queued"
RUNNING   == "running"
SUCCEEDED == "succeeded"
FAILED    == "failed"
CANCELLED == "cancelled"

ACTIVE_STATUSES   == {QUEUED, RUNNING}
TERMINAL_STATUSES == {SUCCEEDED, FAILED, CANCELLED}
JobStatus == ACTIVE_STATUSES \cup TERMINAL_STATUSES

(* Who wrote error_message: nobody (NULL), create_job after a failed       *)
(* enqueue, the worker's exception handler, or the reaper.                 *)
ErrorSources == {"none", "enqueue", "worker", "reaper"}

Row ==
    [ status      : JobStatus \cup {"absent"},
      key         : Keys \cup {NoKey},
      fingerprint : Fingerprints \cup {NoFingerprint},
      error       : ErrorSources,
      started     : BOOLEAN ]         \* started_at IS NOT NULL

AbsentRow ==
    [ status |-> "absent", key |-> NoKey, fingerprint |-> NoFingerprint,
      error |-> "none", started |-> FALSE ]

NewRow(k, f) ==
    [ status |-> QUEUED, key |-> k, fingerprint |-> f,
      error |-> "none", started |-> FALSE ]

StoreTypeOK ==
    /\ jobs \in [JobIds -> Row]
    /\ results \subseteq JobIds

StoreInit ==
    /\ jobs = [j \in JobIds |-> AbsentRow]
    /\ results = {}

Exists(j) == jobs[j].status # "absent"
Active    == { j \in JobIds : jobs[j].status \in ACTIVE_STATUSES }

(* The UNIQUE constraint on idempotency_key: NULL does not collide.        *)
KeyTaken(k) == k # NoKey /\ \E j \in JobIds : jobs[j].key = k

(* INSERT of create_job's row, under an id no other row has.               *)
InsertRow(j, k, f) ==
    /\ jobs[j].status = "absent"
    /\ jobs' = [jobs EXCEPT ![j] = NewRow(k, f)]

(* Slips the checks must notice: the claim without its WHERE status =      *)
(* queued, one that only spares cancelled jobs, one that forgets           *)
(* started_at, and the cancellation without its WHERE.                     *)
ClaimRowUnguarded(j) ==
    jobs' = [jobs EXCEPT ![j].status = RUNNING, ![j].started = TRUE]
ClaimRowUnlessCancelled(j) == jobs[j].status # CANCELLED /\ ClaimRowUnguarded(j)
ClaimRowUnstamped(j) ==
    jobs[j].status = QUEUED /\ jobs' = [jobs EXCEPT ![j].status = RUNNING]
CancelRowUnguarded(j) == jobs' = [jobs EXCEPT ![j].status = CANCELLED]

(* A conditional UPDATE reports rowcount 1 exactly when the row is QUEUED. *)
ClaimRow(j) ==
    /\ jobs[j].status = QUEUED
    /\ jobs' = [jobs EXCEPT ![j].status = RUNNING, ![j].started = TRUE]

CancelRow(j) ==
    /\ jobs[j].status = QUEUED
    /\ jobs' = [jobs EXCEPT ![j].status = CANCELLED]

(***************************************************************************)
(* mark_succeeded and mark_failed assign attributes of an ORM object and   *)
(* commit.  The flush matches the row by primary key alone, and puts into  *)
(* the UPDATE only the columns whose new value differs from the value the  *)
(* session has cached for that object.                                     *)
(***************************************************************************)
CacheOf(row) == [status |-> row.status, error |-> row.error]

OrmUpdate(row, seen, status, error) ==
    [row EXCEPT !.status = IF status = seen.status THEN @ ELSE status,
                !.error  = IF error  = seen.error  THEN @ ELSE error]

MarkSucceeded(j, seen) ==
    /\ jobs' = [jobs EXCEPT ![j] = OrmUpdate(@, seen, SUCCEEDED, "none")]
    /\ results' = results \cup {j}

MarkFailed(j, seen, error) ==
    jobs' = [jobs EXCEPT ![j] = OrmUpdate(@, seen, FAILED, error)]

(* Slips: a sweep that leaves error_message NULL, and one that looks at    *)
(* started_at but not at the status.                                       *)
SweepRowsSilently(S) ==
    jobs' = [j \in JobIds |->
               IF j \in S /\ jobs[j].status = RUNNING /\ jobs[j].started
               THEN [jobs[j] EXCEPT !.status = FAILED] ELSE jobs[j]]
SweepRowsByAge(S) ==
    jobs' = [j \in JobIds |->
               IF j \in S /\ jobs[j].started
               THEN [jobs[j] EXCEPT !.status = FAILED, !.error = "reaper"]
               ELSE jobs[j]]

(* The UPDATE of sweep_stale_jobs, for the rows S that are past the cutoff.*)
SweepRows(S) ==
    jobs' = [j \in JobIds |->
               IF j \in S /\ jobs[j].status = RUNNING /\ jobs[j].started
               THEN [jobs[j] EXCEPT !.status = FAILED, !.error = "reaper"]
               ELSE jobs[j]]
=============================================================================
