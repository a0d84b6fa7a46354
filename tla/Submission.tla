----------------------------- MODULE Submission -----------------------------
(***************************************************************************)
(* POST /v1/jobs: submit_job and create_job.  A submitter is a handler     *)
(* thread of the API; its pc names the next database or Redis call, so     *)
(* every other actor may run between two calls.  The request has passed    *)
(* validate_submission, which reads configuration only.                    *)
(***************************************************************************)
EXTENDS FaultModel, JobStore, Broker

CONSTANTS Submitters, MaxActive

ASSUME SubmissionAssumption ==
    /\ IsFiniteSet(Submitters)
    /\ IsFiniteSet(JobIds)
    /\ MaxActive \in Nat \ {0}

VARIABLE submit

SubmitReplies ==
    { "accepted",         \* 202, the row is queued
      "enqueue_failed",   \* 202, the row is failed: Redis refused the push
      "replayed",         \* 200 with Idempotency-Replayed
      "key_reuse",        \* 409 idempotency_key_reuse
      "capacity",         \* 503 capacity_exceeded
      "error" }           \* 500 internal_error

Submit ==
    [ pc          : {"idle", "check", "insert", "lookup", "enqueue", "fail", "replied"},
      key         : Keys \cup {NoKey},
      fingerprint : Fingerprints \cup {NoFingerprint},
      job         : JobIds \cup {NoJob},
      reply       : SubmitReplies \cup {"none"} ]

IdleSubmit ==
    [ pc |-> "idle", key |-> NoKey, fingerprint |-> NoFingerprint,
      job |-> NoJob, reply |-> "none" ]

SubmitTypeOK == submit \in [Submitters -> Submit]
SubmitInit   == submit = [s \in Submitters |-> IdleSubmit]

SubmitGoto(s, pc) == submit' = [submit EXCEPT ![s].pc = pc]
SubmitReply(s, r) == submit' = [submit EXCEPT ![s].pc = "replied", ![s].reply = r]
SubmitReplyJob(s, r, j) ==
    submit' = [submit EXCEPT ![s] = [@ EXCEPT !.pc = "replied", !.reply = r, !.job = j]]

(* The bound on submissions: a request is received while a fresh id is     *)
(* left for each handler that may still insert, or when it is a replay.    *)
IdsLeft ==
    Cardinality({t \in Submitters : submit[t].pc \in {"check", "insert"}})
        < Cardinality({j \in JobIds : ~Exists(j)})

Receive(s, k, f) ==
    /\ submit[s].pc = "idle"
    /\ IdsLeft \/ KeyTaken(k)
    /\ submit' = [submit EXCEPT ![s] = [IdleSubmit EXCEPT !.pc = "check", !.key = k,
                                                          !.fingerprint = f]]
    /\ UNCHANGED <<jobs, results, queue>>

(* A slip: the limit compared with > instead of >=.                        *)
AssertCapacityOffByOne(s) ==
    /\ submit[s].pc = "check"
    /\ \/ Cardinality(Active) <= MaxActive /\ SubmitGoto(s, "insert")
       \/ Cardinality(Active) > MaxActive /\ SubmitReply(s, "capacity")
    /\ UNCHANGED <<jobs, results, queue>>

(* _assert_capacity: one SELECT that counts the active rows.               *)
AssertCapacity(s) ==
    /\ submit[s].pc = "check"
    /\ \/ /\ Cardinality(Active) < MaxActive
          /\ SubmitGoto(s, "insert")
       \/ /\ Cardinality(Active) >= MaxActive
          /\ SubmitReply(s, "capacity")
    /\ UNCHANGED <<jobs, results, queue>>

(* A slip: idempotency without the UNIQUE constraint.                      *)
InsertJobUnconstrained(s, j) ==
    /\ submit[s].pc = "insert"
    /\ InsertRow(j, submit[s].key, submit[s].fingerprint)
    /\ submit' = [submit EXCEPT ![s].pc = "enqueue", ![s].job = j]
    /\ UNCHANGED <<results, queue>>

(* session.add and commit; the UNIQUE constraint decides between the       *)
(* creator and the replays.                                                *)
InsertJob(s, j) ==
    /\ submit[s].pc = "insert"
    /\ ~KeyTaken(submit[s].key)
    /\ InsertRow(j, submit[s].key, submit[s].fingerprint)
    /\ submit' = [submit EXCEPT ![s].pc = "enqueue", ![s].job = j]
    /\ UNCHANGED <<results, queue>>

InsertCollision(s) ==
    /\ submit[s].pc = "insert"
    /\ KeyTaken(submit[s].key)
    /\ SubmitGoto(s, "lookup")
    /\ UNCHANGED <<jobs, results, queue>>

(* The IntegrityError branch: read the winner's row, compare fingerprints. *)
LookupExisting(s, j) ==
    /\ submit[s].pc = "lookup"
    /\ jobs[j].key = submit[s].key
    /\ \/ /\ jobs[j].fingerprint = submit[s].fingerprint
          /\ SubmitReplyJob(s, "replayed", j)
       \/ /\ jobs[j].fingerprint # submit[s].fingerprint
          /\ SubmitReplyJob(s, "key_reuse", j)
    /\ UNCHANGED <<jobs, results, queue>>

EnqueueJob(s) ==
    /\ submit[s].pc = "enqueue"
    /\ \/ Push(submit[s].job)
       \/ "duplicate_push" \in Faults /\ PushTwice(submit[s].job)
    /\ SubmitReply(s, "accepted")
    /\ UNCHANGED <<jobs, results>>

(* A slip: the exception of queue.enqueue logged and swallowed.            *)
EnqueueFailsSwallowed(s) ==
    /\ submit[s].pc = "enqueue"
    /\ "enqueue_error" \in Faults
    /\ SubmitReply(s, "accepted")
    /\ UNCHANGED <<jobs, results, queue>>

(* queue.enqueue raises, before or after Redis has taken the entry.        *)
EnqueueFails(s) ==
    /\ submit[s].pc = "enqueue"
    /\ \/ "enqueue_error" \in Faults /\ UNCHANGED queue
       \/ "enqueue_reply_lost" \in Faults /\ Push(submit[s].job)
    /\ SubmitGoto(s, "fail")
    /\ UNCHANGED <<jobs, results>>

(* A slip: the handler answers without calling mark_failed.                *)
FailUnqueuedUnrecorded(s) ==
    /\ submit[s].pc = "fail"
    /\ SubmitReply(s, "enqueue_failed")
    /\ UNCHANGED <<jobs, results, queue>>

(* mark_failed with the object inserted above: cached as QUEUED, no error. *)
FailUnqueued(s) ==
    /\ submit[s].pc = "fail"
    /\ MarkFailed(submit[s].job, [status |-> QUEUED, error |-> "none"], "enqueue")
    /\ SubmitReply(s, "enqueue_failed")
    /\ UNCHANGED <<results, queue>>

Return(s) ==
    /\ submit[s].pc = "replied"
    /\ submit' = [submit EXCEPT ![s] = IdleSubmit]
    /\ UNCHANGED <<jobs, results, queue>>

(* The database refuses a statement: nothing committed, a 500.             *)
SubmitDbError(s) ==
    /\ "api_db_error" \in Faults
    /\ submit[s].pc \in {"check", "insert", "lookup", "fail"}
    /\ SubmitReply(s, "error")
    /\ UNCHANGED <<jobs, results, queue>>

(* The INSERT commits but the connection drops before the API learns it:   *)
(* OperationalError is not IntegrityError, so create_job does not catch it.*)
InsertReplyLost(s, j) ==
    /\ "api_db_error" \in Faults
    /\ submit[s].pc = "insert"
    /\ ~KeyTaken(submit[s].key)
    /\ InsertRow(j, submit[s].key, submit[s].fingerprint)
    /\ SubmitReplyJob(s, "error", j)
    /\ UNCHANGED <<results, queue>>

(* The same of the commit of mark_failed.                                  *)
FailReplyLost(s) ==
    /\ "api_db_error" \in Faults
    /\ submit[s].pc = "fail"
    /\ MarkFailed(submit[s].job, [status |-> QUEUED, error |-> "none"], "enqueue")
    /\ SubmitReply(s, "error")
    /\ UNCHANGED <<results, queue>>

SubmitCrash(s) ==
    /\ "api_crash" \in Faults
    /\ submit[s].pc \notin {"idle", "replied"}
    /\ submit' = [submit EXCEPT ![s] = IdleSubmit]
    /\ UNCHANGED <<jobs, results, queue>>

(* The calls of one request, in the absence of faults.                     *)
SubmitStep(s) ==
    \/ AssertCapacity(s)
    \/ \E j \in JobIds : InsertJob(s, j)
    \/ InsertCollision(s)
    \/ \E j \in JobIds : LookupExisting(s, j)
    \/ EnqueueJob(s)
    \/ FailUnqueued(s)
    \/ Return(s)

SubmitFault(s) ==
    \/ EnqueueFails(s)
    \/ SubmitDbError(s)
    \/ \E j \in JobIds : InsertReplyLost(s, j)
    \/ FailReplyLost(s)
    \/ SubmitCrash(s)

SubmitNext ==
    \E s \in Submitters :
        \/ \E k \in Keys \cup {NoKey}, f \in Fingerprints : Receive(s, k, f)
        \/ SubmitStep(s)
        \/ SubmitFault(s)
=============================================================================
