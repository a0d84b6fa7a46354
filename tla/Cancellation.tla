---------------------------- MODULE Cancellation ----------------------------
(***************************************************************************)
(* DELETE /v1/jobs/{id}: cancel_job.  The conditional UPDATE decides; the  *)
(* queue entry is removed afterwards, and the row is read again for the    *)
(* response.                                                               *)
(***************************************************************************)
EXTENDS FaultModel, JobStore, Broker

CONSTANT Cancellers

VARIABLE cancel

CancelReplies == {"cancelled", "not_cancellable", "not_found", "error"}

Cancel ==
    [ pc    : {"idle", "get", "update", "remove", "refresh", "refuse", "replied"},
      job   : JobIds \cup {NoJob},
      reply : CancelReplies \cup {"none"},
      shown : JobStatus \cup {"none"} ]      \* the status in the response body

IdleCancel == [pc |-> "idle", job |-> NoJob, reply |-> "none", shown |-> "none"]

CancelTypeOK == cancel \in [Cancellers -> Cancel]
CancelInit   == cancel = [c \in Cancellers |-> IdleCancel]

CancelGoto(c, pc) == cancel' = [cancel EXCEPT ![c].pc = pc]
CancelReply(c, r, st) ==
    cancel' = [cancel EXCEPT ![c].pc = "replied", ![c].reply = r, ![c].shown = st]

ReceiveCancel(c, j) ==
    /\ cancel[c].pc = "idle"
    /\ cancel' = [cancel EXCEPT ![c].pc = "get", ![c].job = j]
    /\ UNCHANGED <<jobs, results, queue>>

(* get_job: 404 for an id no row has.                                      *)
GetJobToCancel(c) ==
    /\ cancel[c].pc = "get"
    /\ \/ Exists(cancel[c].job) /\ CancelGoto(c, "update")
       \/ ~Exists(cancel[c].job) /\ CancelReply(c, "not_found", "none")
    /\ UNCHANGED <<jobs, results, queue>>

(* UPDATE ... WHERE status = queued, and its commit.                       *)
CancelQueued(c) ==
    /\ cancel[c].pc = "update"
    /\ CancelRow(cancel[c].job)
    /\ CancelGoto(c, "remove")
    /\ UNCHANGED <<results, queue>>

(* A slip: the refusal taken without looking at the rowcount.              *)
NotQueuedUnchecked(c) ==
    /\ cancel[c].pc = "update"
    /\ CancelGoto(c, "refuse")
    /\ UNCHANGED <<jobs, results, queue>>

NotQueued(c) ==
    /\ cancel[c].pc = "update"
    /\ jobs[cancel[c].job].status # QUEUED
    /\ CancelGoto(c, "refuse")
    /\ UNCHANGED <<jobs, results, queue>>

RemoveFromQueue(c) ==
    /\ cancel[c].pc = "remove"
    /\ RemoveEntry(cancel[c].job)
    /\ CancelGoto(c, "refresh")
    /\ UNCHANGED <<jobs, results>>

(* session.refresh, then 200 with the row, or 409 job_not_cancellable.     *)
ReportCancelled(c) ==
    /\ cancel[c].pc = "refresh"
    /\ CancelReply(c, "cancelled", jobs[cancel[c].job].status)
    /\ UNCHANGED <<jobs, results, queue>>

RefuseCancel(c) ==
    /\ cancel[c].pc = "refuse"
    /\ CancelReply(c, "not_cancellable", jobs[cancel[c].job].status)
    /\ UNCHANGED <<jobs, results, queue>>

ReturnCancel(c) ==
    /\ cancel[c].pc = "replied"
    /\ cancel' = [cancel EXCEPT ![c] = IdleCancel]
    /\ UNCHANGED <<jobs, results, queue>>

(* RedisQueue.cancel catches NoSuchJobError only, cancel_job nothing.      *)
RemoveFails(c) ==
    /\ "cancel_error" \in Faults
    /\ cancel[c].pc = "remove"
    /\ CancelReply(c, "error", "none")
    /\ UNCHANGED <<jobs, results, queue>>

(* A statement raises; the UPDATE may have been committed all the same.    *)
CancelDbError(c) ==
    /\ "api_db_error" \in Faults
    /\ cancel[c].pc \in {"get", "update", "refresh", "refuse"}
    /\ \/ UNCHANGED jobs
       \/ cancel[c].pc = "update" /\ CancelRow(cancel[c].job)
    /\ CancelReply(c, "error", "none")
    /\ UNCHANGED <<results, queue>>

CancelCrash(c) ==
    /\ "api_crash" \in Faults
    /\ cancel[c].pc \notin {"idle", "replied"}
    /\ cancel' = [cancel EXCEPT ![c] = IdleCancel]
    /\ UNCHANGED <<jobs, results, queue>>

CancelStep(c) ==
    \/ GetJobToCancel(c)
    \/ CancelQueued(c)
    \/ NotQueued(c)
    \/ RemoveFromQueue(c)
    \/ ReportCancelled(c)
    \/ RefuseCancel(c)
    \/ ReturnCancel(c)

CancelFault(c) ==
    \/ RemoveFails(c)
    \/ CancelDbError(c)
    \/ CancelCrash(c)

CancelNext ==
    \E c \in Cancellers :
        \/ \E j \in JobIds : ReceiveCancel(c, j)
        \/ CancelStep(c)
        \/ CancelFault(c)
=============================================================================
