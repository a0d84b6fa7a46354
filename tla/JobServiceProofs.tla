-------------------------- MODULE JobServiceProofs --------------------------
(***************************************************************************)
(* Proofs about JobService, for every number of jobs, handlers, workers    *)
(* and keys, every capacity and every set of faults.                       *)
(***************************************************************************)
EXTENDS JobService, TLAPS

-----------------------------------------------------------------------------
(* Typing.                                                                 *)

(* A flush of status and error columns leaves a well-formed row.           *)
LEMMA OrmUpdateType ==
    ASSUME NEW row \in Row, NEW seen,
           NEW status \in JobStatus, NEW error \in ErrorSources
    PROVE  OrmUpdate(row, seen, status, error) \in Row
  BY DEF OrmUpdate, Row

(* Removing one entry leaves a list of job ids.                            *)
LEMMA RemoveEntryType ==
    ASSUME queue \in Seq(JobIds), NEW j, RemoveEntry(j)
    PROVE  queue' \in Seq(JobIds)
  <1>1. CASE UNCHANGED queue
    BY <1>1
  <1>2. ASSUME NEW i \in 1..Len(queue),
               queue' = SubSeq(queue, 1, i - 1) \o SubSeq(queue, i + 1, Len(queue))
        PROVE  queue' \in Seq(JobIds)
    <2>1. SubSeq(queue, 1, i - 1) \in Seq(JobIds)
      OBVIOUS
    <2>2. SubSeq(queue, i + 1, Len(queue)) \in Seq(JobIds)
      OBVIOUS
    <2> QED BY <1>2, <2>1, <2>2
  <1> QED BY <1>1, <1>2 DEF RemoveEntry

(* Each statement on the store leaves well-formed rows.                    *)
LEMMA StoreWritesType ==
    ASSUME StoreTypeOK, NEW j \in JobIds
    PROVE  /\ \A k \in Keys \cup {NoKey}, f \in Fingerprints \cup {NoFingerprint} :
                 InsertRow(j, k, f) => jobs' \in [JobIds -> Row]
           /\ ClaimRow(j) => jobs' \in [JobIds -> Row]
           /\ CancelRow(j) => jobs' \in [JobIds -> Row]
           /\ \A seen : MarkSucceeded(j, seen) =>
                 jobs' \in [JobIds -> Row] /\ results' \subseteq JobIds
           /\ \A seen, error : error \in ErrorSources /\ MarkFailed(j, seen, error) =>
                 jobs' \in [JobIds -> Row]
           /\ \A S : SweepRows(S) => jobs' \in [JobIds -> Row]
  <1> USE DEF StoreTypeOK
  <1>1. ASSUME NEW k \in Keys \cup {NoKey}, NEW f \in Fingerprints \cup {NoFingerprint},
               InsertRow(j, k, f)
        PROVE  jobs' \in [JobIds -> Row]
    <2>1. NewRow(k, f) \in Row
      BY DEF NewRow, Row, JobStatus, ACTIVE_STATUSES, ErrorSources
    <2> QED BY <1>1, <2>1 DEF InsertRow
  <1>2. ASSUME ClaimRow(j) PROVE jobs' \in [JobIds -> Row]
    <2>1. [jobs[j] EXCEPT !.status = RUNNING, !.started = TRUE] \in Row
      BY DEF Row, JobStatus, ACTIVE_STATUSES
    <2> QED BY <1>2, <2>1 DEF ClaimRow
  <1>3. ASSUME CancelRow(j) PROVE jobs' \in [JobIds -> Row]
    BY <1>3 DEF CancelRow, Row, JobStatus, TERMINAL_STATUSES
  <1>4. ASSUME NEW seen, MarkSucceeded(j, seen)
        PROVE  jobs' \in [JobIds -> Row] /\ results' \subseteq JobIds
    <2>1. SUCCEEDED \in JobStatus /\ "none" \in ErrorSources
      BY DEF JobStatus, TERMINAL_STATUSES, ErrorSources
    <2> QED BY <1>4, <2>1, OrmUpdateType DEF MarkSucceeded
  <1>5. ASSUME NEW seen, NEW error \in ErrorSources, MarkFailed(j, seen, error)
        PROVE  jobs' \in [JobIds -> Row]
    <2>1. FAILED \in JobStatus
      BY DEF JobStatus, TERMINAL_STATUSES
    <2> QED BY <1>5, <2>1, OrmUpdateType DEF MarkFailed
  <1>6. ASSUME NEW S, SweepRows(S) PROVE jobs' \in [JobIds -> Row]
    <2>1. \A i \in JobIds : [jobs[i] EXCEPT !.status = FAILED, !.error = "reaper"] \in Row
      BY DEF Row, JobStatus, TERMINAL_STATUSES, ErrorSources
    <2> QED BY <1>6, <2>1 DEF SweepRows
  <1> QED BY <1>1, <1>2, <1>3, <1>4, <1>5, <1>6

(* The initial state is well typed.                                        *)
LEMMA InitTyped == ASSUME Init PROVE TypeOK
  <1>1. StoreTypeOK
    BY DEF Init, StoreInit, StoreTypeOK, AbsentRow, Row, ErrorSources
  <1>2. queue \in Seq(JobIds)
    BY DEF Init, BrokerInit
  <1>3. SubmitTypeOK
    BY DEF Init, SubmitInit, SubmitTypeOK, IdleSubmit, Submit
  <1>4. CancelTypeOK
    BY DEF Init, CancelInit, CancelTypeOK, IdleCancel, Cancel
  <1>5. ReadTypeOK
    BY DEF Init, ReadInit, ReadTypeOK, IdleRead, Read
  <1>6. WorkerTypeOK
    BY DEF Init, WorkerInit, WorkerTypeOK, IdleTask, Task, NoCache, ErrorSources
  <1> QED BY <1>1, <1>2, <1>3, <1>4, <1>5, <1>6 DEF TypeOK

(* The replies the handlers send are replies of their kind.                *)
LEMMA Replies ==
    /\ {"accepted", "enqueue_failed", "replayed", "key_reuse", "capacity", "error"}
          = SubmitReplies
    /\ {"cancelled", "not_cancellable", "not_found", "error"} = CancelReplies
  BY DEF SubmitReplies, CancelReplies

(* A reply to a submission is a well-typed submission record.              *)
LEMMA SubmitUpdates ==
    ASSUME SubmitTypeOK, NEW s \in Submitters
    PROVE  /\ \A r \in SubmitReplies : SubmitReply(s, r) => SubmitTypeOK'
           /\ \A r \in SubmitReplies, j \in JobIds :
                 SubmitReplyJob(s, r, j) => SubmitTypeOK'
  <1>1. ASSUME NEW r \in SubmitReplies, SubmitReply(s, r) PROVE SubmitTypeOK'
    <2>1. [submit[s] EXCEPT !.pc = "replied", !.reply = r] \in Submit
      BY <1>1 DEF SubmitTypeOK, Submit
    <2> QED BY <1>1, <2>1 DEF SubmitTypeOK, SubmitReply
  <1>2. ASSUME NEW r \in SubmitReplies, NEW j \in JobIds, SubmitReplyJob(s, r, j)
        PROVE  SubmitTypeOK'
    <2>1. [submit[s] EXCEPT !.pc = "replied", !.reply = r, !.job = j] \in Submit
      BY DEF SubmitTypeOK, Submit
    <2> QED BY <1>2, <2>1 DEF SubmitTypeOK, SubmitReplyJob
  <1> QED BY <1>1, <1>2

(* A handler that has replied is at pc replied.                            *)
LEMMA RepliedPc ==
    ASSUME SubmitTypeOK, NEW s \in Submitters, NEW r, NEW j,
           SubmitReply(s, r) \/ SubmitReplyJob(s, r, j)
    PROVE  submit'[s].pc = "replied"
  <1>1. CASE SubmitReply(s, r)
    BY <1>1 DEF SubmitReply, SubmitTypeOK, Submit
  <1>2. CASE SubmitReplyJob(s, r, j)
    <2>1. submit'[s] = [submit[s] EXCEPT !.pc = "replied", !.reply = r, !.job = j]
      BY <1>2 DEF SubmitReplyJob, SubmitTypeOK
    <2> QED BY <2>1 DEF SubmitTypeOK, Submit
  <1> QED BY <1>1, <1>2

(* A reply to a cancellation is a well-typed cancellation record.          *)
LEMMA CancelUpdates ==
    ASSUME CancelTypeOK, NEW c \in Cancellers
    PROVE  \A r \in CancelReplies, st \in JobStatus \cup {"none"} :
              CancelReply(c, r, st) => CancelTypeOK'
  <1>1. ASSUME NEW r \in CancelReplies, NEW st \in JobStatus \cup {"none"}, CancelReply(c, r, st)
        PROVE  CancelTypeOK'
    <2>1. [cancel[c] EXCEPT !.pc = "replied", !.reply = r, !.shown = st] \in Cancel
      BY DEF CancelTypeOK, Cancel
    <2> QED BY <1>1, <2>1 DEF CancelTypeOK, CancelReply
  <1> QED BY <1>1

(* The steps of a submission keep every variable in its type.              *)
LEMMA SubmitTyped ==
    ASSUME TypeOK, HandsHoldJobs, SubmitNext, UNCHANGED <<cancel, read, worker>>
    PROVE  TypeOK'
  <1> USE DEF TypeOK, SubmitTypeOK, Submit
  <1>0. CancelTypeOK' /\ ReadTypeOK' /\ WorkerTypeOK'
    BY DEF CancelTypeOK, ReadTypeOK, WorkerTypeOK
  <1> SUFFICES ASSUME NEW s \in Submitters,
                      \/ \E k \in Keys \cup {NoKey}, f \in Fingerprints : Receive(s, k, f)
                      \/ SubmitStep(s)
                      \/ SubmitFault(s)
               PROVE  StoreTypeOK' /\ queue' \in Seq(JobIds) /\ SubmitTypeOK'
    BY <1>0 DEF SubmitNext
  <1>1. ASSUME NEW k \in Keys \cup {NoKey}, NEW f \in Fingerprints, Receive(s, k, f)
        PROVE  StoreTypeOK' /\ queue' \in Seq(JobIds) /\ SubmitTypeOK'
    BY <1>1 DEF Receive, IdleSubmit, StoreTypeOK
  <1>2. CASE AssertCapacity(s)
    <2>1. CASE SubmitGoto(s, "insert")
      <3>1. [submit[s] EXCEPT !.pc = "insert"] \in Submit
        BY DEF SubmitTypeOK, Submit
      <3> QED BY <1>2, <2>1, <3>1 DEF AssertCapacity, SubmitGoto, StoreTypeOK
    <2>2. CASE SubmitReply(s, "capacity")
      BY <1>2, <2>2, SubmitUpdates, Replies DEF AssertCapacity, StoreTypeOK
    <2> QED BY <1>2, <2>1, <2>2 DEF AssertCapacity
  <1>3. ASSUME NEW j \in JobIds, InsertJob(s, j) \/ InsertReplyLost(s, j)
        PROVE  StoreTypeOK' /\ queue' \in Seq(JobIds) /\ SubmitTypeOK'
    <2>1. InsertRow(j, submit[s].key, submit[s].fingerprint)
      BY <1>3 DEF InsertJob, InsertReplyLost
    <2>2. StoreTypeOK'
      BY <1>3, <2>1, StoreWritesType DEF InsertJob, InsertReplyLost, StoreTypeOK
    <2>3. CASE InsertJob(s, j)
      <3>1. [submit[s] EXCEPT !.pc = "enqueue", !.job = j] \in Submit
        BY DEF SubmitTypeOK, Submit
      <3> QED BY <2>2, <2>3, <3>1 DEF InsertJob
    <2>4. CASE InsertReplyLost(s, j)
      BY <2>2, <2>4, SubmitUpdates, Replies DEF InsertReplyLost
    <2> QED BY <1>3, <2>3, <2>4
  <1>4. CASE InsertCollision(s)
    <2>1. [submit[s] EXCEPT !.pc = "lookup"] \in Submit
      BY DEF SubmitTypeOK, Submit
    <2> QED BY <1>4, <2>1 DEF InsertCollision, SubmitGoto, StoreTypeOK
  <1>5. ASSUME NEW j \in JobIds, LookupExisting(s, j)
        PROVE  StoreTypeOK' /\ queue' \in Seq(JobIds) /\ SubmitTypeOK'
    BY <1>5, SubmitUpdates, Replies DEF LookupExisting, StoreTypeOK
  <1>6. CASE EnqueueJob(s)
    <2>1. submit[s].job \in JobIds
      BY <1>6 DEF EnqueueJob, HandsHoldJobs, SubmitHolds
    <2>2. Append(queue, submit[s].job) \in Seq(JobIds)
      BY <2>1
    <2>3. Append(Append(queue, submit[s].job), submit[s].job) \in Seq(JobIds)
      BY <2>1, <2>2
    <2>4. queue' \in Seq(JobIds)
      BY <1>6, <2>2, <2>3 DEF EnqueueJob, Push, PushTwice
    <2> QED BY <1>6, <2>4, SubmitUpdates, Replies DEF EnqueueJob, StoreTypeOK
  <1>7. CASE EnqueueFails(s)
    <2>1. submit[s].job \in JobIds
      BY <1>7 DEF EnqueueFails, HandsHoldJobs, SubmitHolds
    <2>2. queue' \in Seq(JobIds)
      BY <1>7, <2>1 DEF EnqueueFails, Push
    <2> QED BY <1>7, <2>2 DEF EnqueueFails, SubmitGoto, StoreTypeOK
  <1>8. CASE FailUnqueued(s) \/ FailReplyLost(s)
    <2>1. submit[s].job \in JobIds
      BY <1>8 DEF FailUnqueued, FailReplyLost, HandsHoldJobs, SubmitHolds
    <2>2. StoreTypeOK'
      BY <1>8, <2>1, StoreWritesType DEF FailUnqueued, FailReplyLost, StoreTypeOK, ErrorSources
    <2> QED BY <1>8, <2>2, SubmitUpdates, Replies DEF FailUnqueued, FailReplyLost
  <1>9. CASE Return(s) \/ SubmitCrash(s)
    BY <1>9 DEF Return, SubmitCrash, IdleSubmit, StoreTypeOK
  <1>10. CASE SubmitDbError(s)
    BY <1>10, SubmitUpdates, Replies DEF SubmitDbError, StoreTypeOK
  <1> QED
    BY <1>1, <1>2, <1>3, <1>4, <1>5, <1>6, <1>7, <1>8, <1>9, <1>10 DEF SubmitStep, SubmitFault

(* The steps of a cancellation keep every variable in its type.            *)
LEMMA CancelTyped ==
    ASSUME TypeOK, HandsHoldJobs, CancelsConsistent, CancelNext, UNCHANGED <<submit, read, worker>>
    PROVE  TypeOK'
  <1> USE DEF TypeOK, CancelTypeOK, Cancel
  <1>0. SubmitTypeOK' /\ ReadTypeOK' /\ WorkerTypeOK'
    BY DEF SubmitTypeOK, ReadTypeOK, WorkerTypeOK
  <1> SUFFICES ASSUME NEW c \in Cancellers,
                      \/ \E j \in JobIds : ReceiveCancel(c, j)
                      \/ CancelStep(c)
                      \/ CancelFault(c)
               PROVE  StoreTypeOK' /\ queue' \in Seq(JobIds) /\ CancelTypeOK'
    BY <1>0 DEF CancelNext
  <1>1. ASSUME NEW j \in JobIds, ReceiveCancel(c, j)
        PROVE  StoreTypeOK' /\ queue' \in Seq(JobIds) /\ CancelTypeOK'
    <2>1. [cancel[c] EXCEPT !.pc = "get", !.job = j] \in Cancel
      BY DEF CancelTypeOK, Cancel
    <2> QED BY <1>1, <2>1 DEF ReceiveCancel, StoreTypeOK
  <1>2. CASE GetJobToCancel(c)
    <2>1. CASE CancelGoto(c, "update")
      BY <1>2, <2>1 DEF GetJobToCancel, CancelGoto, StoreTypeOK
    <2>2. CASE CancelReply(c, "not_found", "none")
      BY <1>2, <2>2, CancelUpdates, Replies DEF GetJobToCancel, StoreTypeOK
    <2> QED BY <1>2, <2>1, <2>2 DEF GetJobToCancel
  <1>3. CASE CancelQueued(c)
    <2>1. StoreTypeOK'
      BY <1>3, StoreWritesType DEF CancelQueued, StoreTypeOK, HandsHoldJobs, CancelHolds
    <2> QED BY <1>3, <2>1 DEF CancelQueued, CancelGoto
  <1>4. CASE NotQueued(c)
    BY <1>4 DEF NotQueued, CancelGoto, StoreTypeOK
  <1>5. CASE RemoveFromQueue(c)
    BY <1>5, RemoveEntryType DEF RemoveFromQueue, CancelGoto, StoreTypeOK
  <1>6. CASE ReportCancelled(c) \/ RefuseCancel(c)
    <2>1. cancel[c].job \in JobIds
      BY <1>6 DEF ReportCancelled, RefuseCancel, HandsHoldJobs, CancelHolds
    <2>2. jobs[cancel[c].job].status \in JobStatus
      BY <1>6, <2>1 DEF ReportCancelled, RefuseCancel, CancelsConsistent, StoreTypeOK, Row
    <2> QED
      BY <1>6, <2>2, CancelUpdates, Replies DEF ReportCancelled, RefuseCancel, StoreTypeOK
  <1>7. CASE ReturnCancel(c) \/ CancelCrash(c)
    BY <1>7 DEF ReturnCancel, CancelCrash, IdleCancel, StoreTypeOK
  <1>8. CASE RemoveFails(c)
    BY <1>8, CancelUpdates, Replies DEF RemoveFails, StoreTypeOK
  <1>9. CASE CancelDbError(c)
    <2>1. cancel[c].job \in JobIds
      BY <1>9 DEF CancelDbError, HandsHoldJobs, CancelHolds
    <2>2. StoreTypeOK'
      BY <1>9, <2>1, StoreWritesType DEF CancelDbError, StoreTypeOK
    <2> QED BY <1>9, <2>2, CancelUpdates, Replies DEF CancelDbError
  <1> QED
    BY <1>1, <1>2, <1>3, <1>4, <1>5, <1>6, <1>7, <1>8, <1>9 DEF CancelStep, CancelFault

(* The steps of a results request keep every variable in its type.         *)
LEMMA ReadTyped ==
    ASSUME TypeOK, HandsHoldJobs, ReadNext, UNCHANGED <<queue, submit, cancel, worker>>
    PROVE  TypeOK'
  <1> USE DEF TypeOK, ReadTypeOK, Read
  <1>0. SubmitTypeOK' /\ CancelTypeOK' /\ WorkerTypeOK' /\ queue' \in Seq(JobIds)
    BY DEF SubmitTypeOK, CancelTypeOK, WorkerTypeOK
  <1> SUFFICES ASSUME NEW r \in Readers,
                      \/ \E j \in JobIds : ReceiveRead(r, j)
                      \/ SelectJob(r) \/ SelectResults(r) \/ ReturnRead(r)
               PROVE  StoreTypeOK' /\ ReadTypeOK'
    BY <1>0 DEF ReadNext
  <1>1. ASSUME NEW j \in JobIds, ReceiveRead(r, j) PROVE StoreTypeOK' /\ ReadTypeOK'
    <2>1. [read[r] EXCEPT !.pc = "job", !.job = j] \in Read
      BY DEF ReadTypeOK, Read
    <2> QED BY <1>1, <2>1 DEF ReceiveRead, StoreTypeOK
  <1>2. CASE SelectJob(r)
    <2>1. Exists(read[r].job) => jobs[read[r].job].status \in JobStatus
      BY <1>2 DEF SelectJob, HandsHoldJobs, ReadHolds, Exists, StoreTypeOK, Row
    <2> QED BY <1>2, <2>1 DEF SelectJob, ReadReply, ReadReplies, StoreTypeOK
  <1>3. CASE SelectResults(r)
    <2>1. PICK a \in ReadReplies : ReadReply(r, a)
      BY <1>3 DEF SelectResults, ReadReplies
    <2>2. ReadTypeOK'
      <3>1. [read[r] EXCEPT !.pc = "replied", !.reply = a] \in Read
        BY DEF ReadTypeOK, Read
      <3> QED BY <2>1, <3>1 DEF ReadReply
    <2> QED BY <1>3, <2>2 DEF SelectResults, StoreTypeOK
  <1>4. CASE ReturnRead(r)
    BY <1>4 DEF ReturnRead, IdleRead, StoreTypeOK
  <1> QED BY <1>1, <1>2, <1>3, <1>4

(* The cached columns of a row that exists are well formed.                *)
LEMMA CacheType ==
    ASSUME StoreTypeOK, NEW j \in JobIds, Exists(j)
    PROVE  CacheOf(jobs[j]) \in [status : JobStatus \cup {"none"}, error : ErrorSources]
  BY DEF StoreTypeOK, Exists, CacheOf, Row

(* The updates of a worker's record leave it well typed.                   *)
LEMMA WorkerUpdates ==
    ASSUME WorkerTypeOK, NEW w \in Workers
    PROVE  /\ \A pc \in {"claim", "load", "run", "save", "saved", "handler", "fail"} :
                 /\ TaskGoto(w, pc) => WorkerTypeOK'
                 /\ /\ CacheOf(jobs[worker[w].job])
                           \in [status : JobStatus \cup {"none"}, error : ErrorSources]
                    /\ TaskLoad(w, pc)
                    => WorkerTypeOK'
           /\ TaskEnd(w) => WorkerTypeOK'
           /\ worker' = [worker EXCEPT ![w].pc = "handler", ![w].armed = FALSE]
                 => WorkerTypeOK'
  <1>1. ASSUME NEW pc \in {"claim", "load", "run", "save", "saved", "handler", "fail"},
               TaskGoto(w, pc)
        PROVE  WorkerTypeOK'
    BY <1>1 DEF WorkerTypeOK, Task, TaskGoto
  <1>2. ASSUME NEW pc \in {"claim", "load", "run", "save", "saved", "handler", "fail"},
               CacheOf(jobs[worker[w].job])
                  \in [status : JobStatus \cup {"none"}, error : ErrorSources],
               TaskLoad(w, pc)
        PROVE  WorkerTypeOK'
    <2>1. [worker[w] EXCEPT !.pc = pc, !.seen = CacheOf(jobs[worker[w].job])] \in Task
      BY <1>2 DEF WorkerTypeOK, Task
    <2> QED BY <1>2, <2>1 DEF WorkerTypeOK, TaskLoad
  <1>3. ASSUME TaskEnd(w) PROVE WorkerTypeOK'
    <2>1. IdleTask \in Task
      BY DEF IdleTask, Task, NoCache, ErrorSources
    <2> QED BY <1>3, <2>1 DEF WorkerTypeOK, TaskEnd
  <1>4. ASSUME worker' = [worker EXCEPT ![w].pc = "handler", ![w].armed = FALSE]
        PROVE  WorkerTypeOK'
    <2>1. [worker[w] EXCEPT !.pc = "handler", !.armed = FALSE] \in Task
      BY DEF WorkerTypeOK, Task
    <2> QED BY <1>4, <2>1 DEF WorkerTypeOK
  <1> QED BY <1>1, <1>2, <1>3, <1>4

(* The steps of a worker keep every variable in its type.                  *)
LEMMA WorkerTyped ==
    ASSUME TypeOK, HandsHoldJobs, WorkerNext, UNCHANGED <<submit, cancel, read>>
    PROVE  TypeOK'
  <1> USE DEF TypeOK
  <1>0. SubmitTypeOK' /\ CancelTypeOK' /\ ReadTypeOK'
    BY DEF SubmitTypeOK, CancelTypeOK, ReadTypeOK
  <1> SUFFICES ASSUME NEW w \in Workers, TaskStep(w) \/ TaskFault(w)
               PROVE  StoreTypeOK' /\ queue' \in Seq(JobIds) /\ WorkerTypeOK'
    BY <1>0 DEF WorkerNext
  <1>a. worker[w].pc # "idle" => worker[w].job \in JobIds /\ Exists(worker[w].job)
    BY DEF HandsHoldJobs, TaskHolds
  <1>1. ASSUME NEW j \in JobIds, Dequeue(w, j)
        PROVE  StoreTypeOK' /\ queue' \in Seq(JobIds) /\ WorkerTypeOK'
    <2>1. queue' \in Seq(JobIds)
      BY <1>1 DEF Dequeue, Pop
    <2>2. [pc |-> "import", job |-> j, seen |-> NoCache, armed |-> TRUE] \in Task
      BY DEF Task, NoCache, ErrorSources
    <2> QED BY <1>1, <2>1, <2>2 DEF Dequeue, WorkerTypeOK, StoreTypeOK
  <1>2. CASE ImportEngine(w) \/ RunBenchmark(w) \/ EngineRaises(w)
    BY <1>2, WorkerUpdates DEF ImportEngine, RunBenchmark, EngineRaises, StoreTypeOK
  <1>3. CASE ClaimJob(w)
    BY <1>3, <1>a, StoreWritesType, WorkerUpdates DEF ClaimJob, StoreTypeOK
  <1>4. CASE SkipJob(w) \/ FinishTask(w) \/ ImportFails(w) \/ Kill(w)
    BY <1>4, WorkerUpdates DEF SkipJob, FinishTask, ImportFails, Kill, StoreTypeOK
  <1>5. CASE LoadJob(w) \/ ReloadJob(w)
    <2>1. CacheOf(jobs[worker[w].job])
             \in [status : JobStatus \cup {"none"}, error : ErrorSources]
      BY <1>5, <1>a, CacheType DEF LoadJob, ReloadJob
    <2> QED BY <1>5, <2>1, WorkerUpdates DEF LoadJob, ReloadJob, StoreTypeOK
  <1>6. CASE SaveResults(w)
    BY <1>6, <1>a, StoreWritesType, WorkerUpdates DEF SaveResults, StoreTypeOK
  <1>7. CASE FailJob(w)
    <2>1. "worker" \in ErrorSources
      BY DEF ErrorSources
    <2> QED BY <1>7, <1>a, <2>1, StoreWritesType, WorkerUpdates DEF FailJob, StoreTypeOK
  <1>8. CASE Alarm(w) \/ StrayAlarm(w)
    <2>1. [worker[w] EXCEPT !.pc = "fail", !.armed = FALSE,
                            !.seen = [status |-> SUCCEEDED, error |-> "none"]] \in Task
      BY DEF WorkerTypeOK, Task, ErrorSources, JobStatus, TERMINAL_STATUSES
    <2> QED BY <1>8, <2>1, WorkerUpdates DEF Alarm, StrayAlarm, StoreTypeOK, WorkerTypeOK
  <1>9. CASE TaskDbError(w)
    <2>1. StoreTypeOK'
      BY <1>9, <1>a, StoreWritesType DEF TaskDbError, StoreTypeOK
    <2> QED BY <1>9, <2>1, WorkerUpdates DEF TaskDbError
  <1> QED
    BY <1>1, <1>2, <1>3, <1>4, <1>5, <1>6, <1>7, <1>8, <1>9 DEF TaskStep, TaskFault

(* Every step of the service keeps every variable in its type.             *)
LEMMA NextTyped ==
    ASSUME TypeOK, HandsHoldJobs, CancelsConsistent, [Next]_vars
    PROVE  TypeOK'
  <1>1. CASE SubmitNext /\ UNCHANGED <<cancel, read, worker>>
    BY <1>1, SubmitTyped
  <1>2. CASE CancelNext /\ UNCHANGED <<submit, read, worker>>
    BY <1>2, CancelTyped
  <1>3. CASE ReadNext /\ UNCHANGED <<queue, submit, cancel, worker>>
    BY <1>3, ReadTyped
  <1>4. CASE WorkerNext /\ UNCHANGED <<submit, cancel, read>>
    BY <1>4, WorkerTyped
  <1>5. CASE ReaperNext /\ UNCHANGED <<submit, cancel, read>>
    <2>1. PICK S \in SUBSET JobIds : SweepStaleJobs(S)
      BY <1>5 DEF ReaperNext
    <2>2. jobs' \in [JobIds -> Row]
      <3>1. PICK j \in JobIds : j \in S
        BY <2>1 DEF SweepStaleJobs
      <3> QED BY <2>1, <3>1, StoreWritesType DEF SweepStaleJobs, TypeOK
    <2> QED
      BY <1>5, <2>1, <2>2 DEF SweepStaleJobs, TypeOK, StoreTypeOK, SubmitTypeOK, CancelTypeOK,
                              ReadTypeOK, WorkerTypeOK
  <1>6. CASE RedisLoss \/ UNCHANGED vars
    <2>1. queue' \in Seq(JobIds)
      <3>1. << >> \in Seq(JobIds)
        OBVIOUS
      <3> QED BY <1>6, <3>1 DEF RedisLoss, LoseAll, vars, TypeOK
    <2> QED
      BY <1>6, <2>1 DEF RedisLoss, vars, TypeOK, StoreTypeOK, SubmitTypeOK, CancelTypeOK,
                        ReadTypeOK, WorkerTypeOK
  <1> QED BY <1>1, <1>2, <1>3, <1>4, <1>5, <1>6 DEF Next

-----------------------------------------------------------------------------
(* The database, step by step.                                             *)

(* The writes a step may make to the store, and what is known of the actor *)
(* that makes them.                                                        *)
Untouched == UNCHANGED <<jobs, results>>
Inserts   == \E s \in Submitters, j \in JobIds : InsertJob(s, j) \/ InsertReplyLost(s, j)
Claims    == results' = results /\ \E j \in JobIds : ClaimRow(j)
Cancels   == results' = results /\ \E j \in JobIds : CancelRow(j)
Succeeds  == \E w \in Workers : /\ worker[w].pc = "save"
                                /\ MarkSucceeded(worker[w].job, worker[w].seen)
Fails     == /\ results' = results
             /\ \/ \E w \in Workers :
                     /\ worker[w].pc = "fail"
                     /\ MarkFailed(worker[w].job, worker[w].seen, "worker")
                \/ \E s \in Submitters :
                     /\ submit[s].pc = "fail"
                     /\ MarkFailed(submit[s].job, [status |-> QUEUED, error |-> "none"], "enqueue")
Sweeps    == results' = results /\ \E S : SweepRows(S)

StoreStep ==
    Untouched \/ Inserts \/ Claims \/ Cancels \/ Succeeds \/ Fails \/ Sweeps

(* Every step of the service is one of these writes.                       *)
LEMMA StepsWriteTheStore ==
    ASSUME HandsHoldJobs, [Next]_vars
    PROVE  StoreStep
  <1>1. CASE SubmitNext
    <2> SUFFICES ASSUME NEW s \in Submitters,
                        \/ \E k \in Keys \cup {NoKey}, f \in Fingerprints : Receive(s, k, f)
                        \/ SubmitStep(s)
                        \/ SubmitFault(s)
                 PROVE  Untouched \/ Inserts \/ Fails
      BY <1>1 DEF SubmitNext, StoreStep
    <2>1. CASE FailUnqueued(s) \/ FailReplyLost(s)
      BY <2>1 DEF FailUnqueued, FailReplyLost, Fails
    <2>2. CASE \E j \in JobIds : InsertJob(s, j) \/ InsertReplyLost(s, j)
      BY <2>2 DEF Inserts
    <2> QED
      BY <2>1, <2>2 DEF SubmitStep, SubmitFault, Receive, AssertCapacity, InsertCollision,
          LookupExisting, EnqueueJob, Return, EnqueueFails, SubmitDbError, SubmitCrash, Untouched
  <1>2. CASE CancelNext
    <2> SUFFICES ASSUME NEW c \in Cancellers,
                        \/ \E j \in JobIds : ReceiveCancel(c, j)
                        \/ CancelStep(c)
                        \/ CancelFault(c)
                 PROVE  Untouched \/ Cancels
      BY <1>2 DEF CancelNext, StoreStep
    <2>1. CASE CancelQueued(c) \/ CancelDbError(c)
      BY <2>1 DEF CancelQueued, CancelDbError, Untouched, Cancels, HandsHoldJobs, CancelHolds
    <2> QED
      BY <2>1 DEF CancelStep, CancelFault, ReceiveCancel, GetJobToCancel, NotQueued,
          RemoveFromQueue, ReportCancelled, RefuseCancel, ReturnCancel, RemoveFails,
          CancelCrash, Untouched
  <1>3. CASE ReadNext
    BY <1>3 DEF ReadNext, ReceiveRead, SelectJob, SelectResults, ReturnRead, StoreStep, Untouched
  <1>4. CASE WorkerNext
    <2> SUFFICES ASSUME NEW w \in Workers, TaskStep(w) \/ TaskFault(w)
                 PROVE  Untouched \/ Claims \/ Succeeds \/ Fails
      BY <1>4 DEF WorkerNext, StoreStep
    <2>1. CASE ClaimJob(w)
      BY <2>1 DEF ClaimJob, Claims, HandsHoldJobs, TaskHolds
    <2>2. CASE SaveResults(w)
      BY <2>2 DEF SaveResults, Succeeds
    <2>3. CASE FailJob(w)
      BY <2>3 DEF FailJob, Fails
    <2>4. CASE TaskDbError(w)
      BY <2>4 DEF TaskDbError, Claims, Succeeds, Untouched, HandsHoldJobs, TaskHolds
    <2> QED
      BY <2>1, <2>2, <2>3, <2>4 DEF TaskStep, TaskFault, Dequeue, ImportEngine, SkipJob,
          LoadJob, RunBenchmark, FinishTask, ReloadJob, ImportFails, EngineRaises, Alarm,
          StrayAlarm, Kill, Untouched
  <1>5. CASE ReaperNext
    BY <1>5 DEF ReaperNext, SweepStaleJobs, StoreStep, Sweeps
  <1>6. CASE RedisLoss \/ UNCHANGED vars
    BY <1>6 DEF RedisLoss, vars, StoreStep, Untouched
  <1> QED BY <1>1, <1>2, <1>3, <1>4, <1>5, <1>6 DEF Next

(* What is once true of a row and stays true: it exists, it was started,   *)
(* it has left the queued state, it has succeeded or failed, its results   *)
(* are there, and once they are there an error message is not erased.      *)
RowGrows(j) ==
    /\ jobs[j].status # "absent" => jobs'[j].status # "absent"
    /\ jobs[j].started => jobs'[j].started
    /\ jobs[j].status \notin {"absent", QUEUED} => jobs'[j].status \notin {"absent", QUEUED}
    /\ jobs[j].status \in {SUCCEEDED, FAILED} => jobs'[j].status \in {SUCCEEDED, FAILED}
    /\ j \in results /\ jobs[j].error # "none" => jobs'[j].error # "none"

RowsOnlyGrow == results \subseteq results' /\ \A j \in JobIds : RowGrows(j)

(* An INSERT adds one row and no results.                                  *)
LEMMA InsertsWrite ==
    ASSUME Inserts
    PROVE  results' = results /\ \E j \in JobIds : \E k, f : InsertRow(j, k, f)
  BY DEF Inserts, InsertJob, InsertReplyLost

(* The same facts, read off one row.                                       *)
LEMMA RowFacts ==
    ASSUME TypeOK, NEW j \in JobIds
    PROVE  /\ jobs[j] \in Row
           /\ jobs[j].status \in {"absent", QUEUED, RUNNING, SUCCEEDED, FAILED, CANCELLED}
           /\ jobs[j].started \in BOOLEAN
  BY DEF TypeOK, StoreTypeOK, Row, JobStatus, ACTIVE_STATUSES, TERMINAL_STATUSES

RowInv(j) ==
    /\ jobs[j].started => jobs[j].status \in {RUNNING, SUCCEEDED, FAILED}
    /\ jobs[j].status \in {RUNNING, SUCCEEDED} => jobs[j].started
    /\ jobs[j].status = SUCCEEDED => j \in results
    /\ j \in results => jobs[j].started
    /\ jobs[j].status = FAILED => jobs[j].error # "none"
    /\ jobs[j].status \in {"absent", QUEUED, RUNNING, CANCELLED} => jobs[j].error = "none"

(* Each write keeps its row consistent and forgets nothing about it.       *)
LEMMA WritesKeepRows ==
    ASSUME TypeOK, HandsHoldJobs, RowsConsistent, WorkersConsistent, StoreStep
    PROVE  RowsConsistent' /\ RowsOnlyGrow
  <1> DEFINE Goal(j) == RowInv(j)' /\ RowGrows(j)
  <1> USE DEF QUEUED, RUNNING, SUCCEEDED, FAILED, CANCELLED, RowInv, RowGrows
  <1>0. \A j \in JobIds : RowInv(j)
    BY DEF RowsConsistent
  <1>a. jobs = [j \in JobIds |-> jobs[j]]
    BY DEF TypeOK, StoreTypeOK
  <1>1. ASSUME NEW i \in JobIds, Untouched PROVE Goal(i)
    BY <1>0, <1>1 DEF Untouched
  <1>2. ASSUME NEW i \in JobIds, Inserts PROVE Goal(i)
    <2>0. PICK j \in JobIds : \E k, f : InsertRow(j, k, f)
      BY <1>2, InsertsWrite
    <2>1. PICK k, f : InsertRow(j, k, f)
      BY <2>0
    <2>2. CASE i = j
      BY <1>0, <1>2, <1>a, <2>1, <2>2, RowFacts, InsertsWrite DEF InsertRow, NewRow
    <2>3. CASE i # j
      BY <1>0, <1>2, <1>a, <2>1, <2>3, InsertsWrite DEF InsertRow
    <2> QED BY <2>2, <2>3
  <1>3. ASSUME NEW i \in JobIds, Claims PROVE Goal(i)
    <2>1. PICK j \in JobIds : ClaimRow(j)
      BY <1>3 DEF Claims
    <2>2. CASE i = j
      <3>1. jobs'[i].status = RUNNING /\ jobs'[i].started /\ jobs'[i].error = jobs[i].error
        BY <1>a, <2>1, <2>2, RowFacts DEF ClaimRow, Row
      <3> QED BY <1>0, <1>3, <2>1, <2>2, <3>1 DEF Claims, ClaimRow
    <2>3. CASE i # j
      BY <1>0, <1>3, <1>a, <2>1, <2>3 DEF ClaimRow, Claims
    <2> QED BY <2>2, <2>3
  <1>4. ASSUME NEW i \in JobIds, Cancels PROVE Goal(i)
    <2>1. PICK j \in JobIds : CancelRow(j)
      BY <1>4 DEF Cancels
    <2>2. CASE i = j
      <3>1. /\ jobs'[i].status = CANCELLED
            /\ jobs'[i].started = jobs[i].started
            /\ jobs'[i].error = jobs[i].error
        BY <1>a, <2>1, <2>2, RowFacts DEF CancelRow, Row
      <3> QED BY <1>0, <1>4, <2>1, <2>2, <3>1 DEF Cancels, CancelRow
    <2>3. CASE i # j
      BY <1>0, <1>4, <1>a, <2>1, <2>3 DEF CancelRow, Cancels
    <2> QED BY <2>2, <2>3
  <1>5. ASSUME NEW i \in JobIds, Succeeds PROVE Goal(i)
    <2>1. PICK w \in Workers : /\ worker[w].pc = "save"
                               /\ MarkSucceeded(worker[w].job, worker[w].seen)
      BY <1>5 DEF Succeeds
    <2>2. /\ worker[w].job \in JobIds
          /\ worker[w].job \notin results
          /\ jobs[worker[w].job].started
          /\ worker[w].seen.status # SUCCEEDED
      BY <2>1 DEF HandsHoldJobs, TaskHolds, WorkersConsistent, Executing
    <2>3. CASE i = worker[w].job
      <3>1. /\ jobs'[i].status = SUCCEEDED
            /\ jobs'[i].started = jobs[i].started
            /\ results' = results \cup {i}
        BY <1>a, <2>1, <2>2, <2>3, RowFacts DEF MarkSucceeded, OrmUpdate, Row
      <3> QED BY <1>0, <2>2, <2>3, <3>1
    <2>4. CASE i # worker[w].job
      BY <1>0, <1>a, <2>1, <2>4 DEF MarkSucceeded
    <2> QED BY <2>3, <2>4
  <1>6. ASSUME NEW i \in JobIds, Fails PROVE Goal(i)
    <2> DEFINE Writes(j, seen, error) ==
             /\ MarkFailed(j, seen, error)
             /\ Exists(j)
             /\ error \in {"worker", "enqueue"}
             /\ seen.status # FAILED /\ seen.error = error
                  => j \in results /\ jobs[j].error # "none"
             /\ seen.status = FAILED => jobs[j].status \in {SUCCEEDED, FAILED}
    <2>0. PICK j \in JobIds : \E seen, error : Writes(j, seen, error)
      BY <1>6 DEF Fails, HandsHoldJobs, SubmitHolds, TaskHolds, WorkersConsistent
    <2>1. PICK seen, error : Writes(j, seen, error)
      BY <2>0
    <2>2. CASE i = j
      <3>1. /\ jobs'[i].status = IF FAILED = seen.status THEN jobs[i].status ELSE FAILED
            /\ jobs'[i].started = jobs[i].started
            /\ jobs'[i].error = IF error = seen.error THEN jobs[i].error ELSE error
        BY <1>a, <2>1, <2>2, RowFacts DEF MarkFailed, OrmUpdate, Row
      <3> QED BY <1>0, <1>6, <2>1, <2>2, <3>1, RowFacts DEF Fails, Exists
    <2>3. CASE i # j
      BY <1>0, <1>6, <1>a, <2>1, <2>3 DEF MarkFailed, Fails
    <2> QED BY <2>2, <2>3
  <1>7. ASSUME NEW i \in JobIds, Sweeps PROVE Goal(i)
    <2>1. PICK S : SweepRows(S)
      BY <1>7 DEF Sweeps
    <2>2. CASE jobs'[i] = jobs[i]
      BY <1>0, <1>7, <2>2 DEF Sweeps
    <2>3. CASE jobs'[i] # jobs[i]
      <3>1. /\ jobs[i].started
            /\ jobs'[i].status = FAILED /\ jobs'[i].error = "reaper" /\ jobs'[i].started
        BY <2>1, <2>3, RowFacts DEF SweepRows, Row
      <3> QED BY <1>0, <1>7, <2>1, <3>1 DEF Sweeps
    <2> QED BY <2>2, <2>3
  <1>8. \A i \in JobIds : Goal(i)
    BY <1>1, <1>2, <1>3, <1>4, <1>5, <1>6, <1>7 DEF StoreStep
  <1>9. results \subseteq results'
    BY InsertsWrite DEF StoreStep, Untouched, Claims, Cancels, Succeeds, Fails, Sweeps, MarkSucceeded
  <1> QED BY <1>8, <1>9 DEF RowsConsistent, RowsOnlyGrow

-----------------------------------------------------------------------------
(* The actors.                                                             *)

(* What is known of an actor that does not move survives the others' steps.*)
LEMMA IdleActorsKeepTheirFacts ==
    ASSUME TypeOK, HandsHoldJobs, RowsOnlyGrow
    PROVE  /\ queue' = queue => QueueHolds'
           /\ submit' = submit => SubmitHolds'
           /\ CancelsConsistent /\ cancel' = cancel => CancelHolds' /\ CancelsConsistent'
           /\ ReadsConsistent /\ read' = read => ReadHolds' /\ ReadsConsistent'
           /\ worker' = worker => TaskHolds'
  <1> USE DEF HandsHoldJobs, RowsOnlyGrow, RowGrows, Exists
  <1>1. ASSUME queue' = queue PROVE QueueHolds'
    <2>1. \A i \in 1..Len(queue) : queue[i] \in JobIds
      BY DEF TypeOK
    <2> QED BY <1>1, <2>1 DEF QueueHolds
  <1>2. ASSUME submit' = submit PROVE SubmitHolds'
    BY <1>2 DEF SubmitHolds
  <1>3. ASSUME CancelsConsistent, cancel' = cancel PROVE CancelHolds' /\ CancelsConsistent'
    BY <1>3 DEF CancelHolds, CancelsConsistent
  <1>4. ASSUME ReadsConsistent, read' = read PROVE ReadHolds' /\ ReadsConsistent'
    BY <1>4 DEF ReadHolds, ReadsConsistent
  <1>5. ASSUME worker' = worker PROVE TaskHolds'
    BY <1>5 DEF TaskHolds
  <1> QED BY <1>1, <1>2, <1>3, <1>4, <1>5

(* So does what is known of a worker, unless the step publishes results.   *)
LEMMA IdleWorkersKeepTheirFacts ==
    ASSUME TypeOK, HandsHoldJobs, RowsOnlyGrow, WorkersConsistent, ExclusiveExecution,
           worker' = worker, results' = results
    PROVE  WorkersConsistent' /\ ExclusiveExecution'
  <1>1. WorkersConsistent'
    <2> SUFFICES ASSUME NEW w \in Workers, worker[w].pc # "idle"
                 PROVE  /\ Executing(w)' => jobs'[worker[w].job].started
                        /\ worker[w].pc = "fail" /\ worker[w].seen.status = FAILED =>
                              jobs'[worker[w].job].status \in {SUCCEEDED, FAILED}
                        /\ /\ worker[w].pc = "fail"
                           /\ worker[w].seen.status # FAILED
                           /\ worker[w].seen.error # "none"
                           => worker[w].job \in results /\ jobs'[worker[w].job].error # "none"
      BY DEF WorkersConsistent, Executing
    <2>1. worker[w].job \in JobIds
      BY DEF HandsHoldJobs, TaskHolds
    <2> QED BY <2>1 DEF RowsOnlyGrow, RowGrows, WorkersConsistent, Executing
  <1>2. ExclusiveExecution'
    BY DEF ExclusiveExecution, Executing
  <1> QED BY <1>1, <1>2

(* Pushing a job whose row exists, once or twice.                          *)
LEMMA QueueGrows ==
    ASSUME TypeOK, HandsHoldJobs, RowsOnlyGrow,
           NEW j \in JobIds, jobs'[j].status # "absent",
           \/ queue' = queue
           \/ queue' = Append(queue, j)
           \/ queue' = Append(Append(queue, j), j)
    PROVE  QueueHolds'
  <1>1. \A i \in 1..Len(queue) : jobs'[queue[i]].status # "absent"
    BY DEF TypeOK, HandsHoldJobs, QueueHolds, RowsOnlyGrow, RowGrows, Exists
  <1>2. \A i \in 1..Len(queue') : queue'[i] = j \/ \E k \in 1..Len(queue) : queue'[i] = queue[k]
    <2>1. CASE queue' = queue
      BY <2>1
    <2>2. CASE queue' = Append(queue, j)
      BY <2>2 DEF TypeOK
    <2>3. CASE queue' = Append(Append(queue, j), j)
      <3>1. Append(queue, j) \in Seq(JobIds)
        BY DEF TypeOK
      <3> QED BY <2>3, <3>1 DEF TypeOK
    <2> QED BY <2>1, <2>2, <2>3
  <1> QED BY <1>1, <1>2 DEF QueueHolds, Exists

(* A submission keeps the invariant.                                       *)
LEMMA SubmitKeepsInv ==
    ASSUME Inv, SubmitNext, UNCHANGED <<cancel, read, worker>>, RowsConsistent', RowsOnlyGrow
    PROVE  Inv'
  <1> USE DEF Inv
  <1>1. TypeOK'
    BY SubmitTyped
  <1>2. results' = results
    BY DEF SubmitNext, SubmitStep, SubmitFault, Receive, AssertCapacity, InsertJob, InsertCollision,
           LookupExisting, EnqueueJob, FailUnqueued, FailReplyLost, Return, EnqueueFails, SubmitDbError,
           InsertReplyLost, SubmitCrash
  <1>3. QueueHolds' /\ SubmitHolds'
    <2> SUFFICES ASSUME NEW s \in Submitters,
                        \/ \E k \in Keys \cup {NoKey}, f \in Fingerprints : Receive(s, k, f)
                        \/ SubmitStep(s)
                        \/ SubmitFault(s)
                 PROVE  QueueHolds' /\ SubmitHolds'
      BY DEF SubmitNext
    <2>1. QueueHolds'
      <3>1. CASE EnqueueJob(s) \/ EnqueueFails(s)
        <4>1. submit[s].job \in JobIds /\ jobs'[submit[s].job].status # "absent"
          BY <3>1 DEF EnqueueJob, EnqueueFails, HandsHoldJobs, SubmitHolds, RowsOnlyGrow,
                      RowGrows, Exists
        <4>2. \/ queue' = queue
              \/ queue' = Append(queue, submit[s].job)
              \/ queue' = Append(Append(queue, submit[s].job), submit[s].job)
          BY <3>1 DEF EnqueueJob, EnqueueFails, Push, PushTwice
        <4> QED BY <4>1, <4>2, QueueGrows
      <3>2. CASE queue' = queue
        BY <3>2, IdleActorsKeepTheirFacts
      <3> QED
        BY <3>1, <3>2 DEF SubmitStep, SubmitFault, Receive, AssertCapacity, InsertJob,
           InsertCollision, LookupExisting, FailUnqueued, FailReplyLost, Return, SubmitDbError,
           InsertReplyLost, SubmitCrash
    <2>2. SubmitHolds'
      <3> SUFFICES ASSUME NEW t \in Submitters, submit'[t].pc \in {"enqueue", "fail"}
                   PROVE  /\ submit'[t].job \in JobIds
                          /\ jobs'[submit'[t].job].status # "absent"
        BY DEF SubmitHolds, Exists
      <3>1. CASE submit'[t].job = submit[t].job /\ submit[t].pc \in {"enqueue", "fail"}
        BY <3>1 DEF HandsHoldJobs, SubmitHolds, RowsOnlyGrow, RowGrows, Exists
      <3>2. CASE submit'[t] = submit[t]
        BY <3>1, <3>2
      <3>3. ASSUME NEW j \in JobIds, InsertJob(s, j), s = t
            PROVE  submit'[t].job \in JobIds /\ jobs'[submit'[t].job].status # "absent"
        <4>1. submit'[t].job = j
          BY <3>3 DEF InsertJob, TypeOK, SubmitTypeOK, Submit
        <4>2. jobs'[j].status = QUEUED
          BY <3>3 DEF InsertJob, InsertRow, NewRow, TypeOK, StoreTypeOK
        <4> QED BY <4>1, <4>2 DEF QUEUED
      <3>4. CASE EnqueueFails(s) /\ s = t
        BY <3>1, <3>4 DEF EnqueueFails, SubmitGoto, TypeOK, SubmitTypeOK, Submit
      <3>5. CASE s # t
        BY <3>2, <3>5 DEF SubmitStep, SubmitFault, Receive, AssertCapacity, InsertJob,
           InsertCollision, LookupExisting, EnqueueJob, EnqueueFails, FailUnqueued, FailReplyLost, Return,
           SubmitDbError, InsertReplyLost, SubmitCrash, SubmitGoto, SubmitReply, SubmitReplyJob,
           TypeOK, SubmitTypeOK
      <3>6. CASE s = t /\ ~EnqueueFails(s) /\ ~\E j \in JobIds : InsertJob(s, j)
        <4> DEFINE Quiet == submit'[s].pc \notin {"enqueue", "fail"}
        <4>1. ASSUME NEW k, NEW f, Receive(s, k, f) PROVE Quiet
          BY <4>1 DEF Receive, IdleSubmit, TypeOK, SubmitTypeOK
        <4>2. ASSUME Return(s) \/ SubmitCrash(s) PROVE Quiet
          BY <4>2 DEF Return, SubmitCrash, IdleSubmit, TypeOK, SubmitTypeOK
        <4>3. ASSUME AssertCapacity(s) \/ InsertCollision(s) PROVE Quiet
          BY <4>3 DEF AssertCapacity, InsertCollision, SubmitGoto, SubmitReply, TypeOK,
                      SubmitTypeOK, Submit
        <4>4. ASSUME EnqueueJob(s) \/ FailUnqueued(s) \/ FailReplyLost(s) \/ SubmitDbError(s)
              PROVE  Quiet
          BY <4>4, RepliedPc DEF EnqueueJob, FailUnqueued, FailReplyLost, SubmitDbError, TypeOK
        <4>5. ASSUME NEW j, LookupExisting(s, j) \/ InsertReplyLost(s, j) PROVE Quiet
          BY <4>5, RepliedPc DEF LookupExisting, InsertReplyLost, TypeOK
        <4>6. Quiet
          BY <3>6, <4>1, <4>2, <4>3, <4>4, <4>5 DEF SubmitStep, SubmitFault
        <4> QED BY <3>6, <4>6
      <3> QED BY <3>3, <3>4, <3>5, <3>6
    <2> QED BY <2>1, <2>2
  <1> QED
    BY <1>1, <1>2, <1>3, IdleActorsKeepTheirFacts, IdleWorkersKeepTheirFacts DEF HandsHoldJobs

(* A cancellation keeps the invariant.                                     *)
LEMMA CancelKeepsInv ==
    ASSUME Inv, CancelNext, UNCHANGED <<submit, read, worker>>, RowsConsistent', RowsOnlyGrow
    PROVE  Inv'
  <1> USE DEF Inv
  <1>1. TypeOK'
    BY CancelTyped
  <1>2. results' = results
    BY DEF CancelNext, CancelStep, CancelFault, ReceiveCancel, GetJobToCancel, CancelQueued,
           NotQueued, RemoveFromQueue, ReportCancelled, RefuseCancel, ReturnCancel, RemoveFails,
           CancelDbError, CancelCrash
  <1>3. QueueHolds' /\ CancelHolds' /\ CancelsConsistent'
    <2> SUFFICES ASSUME NEW c \in Cancellers,
                        \/ \E j \in JobIds : ReceiveCancel(c, j)
                        \/ CancelStep(c)
                        \/ CancelFault(c)
                 PROVE  QueueHolds' /\ CancelHolds' /\ CancelsConsistent'
      BY DEF CancelNext
    <2> DEFINE Part(d) ==
          /\ cancel[d].pc # "idle" => cancel[d].job \in JobIds
          /\ cancel[d].pc = "update" => jobs[cancel[d].job].status # "absent"
          /\ cancel[d].pc \in {"remove", "refresh", "refuse"} =>
                jobs[cancel[d].job].status \notin {"absent", QUEUED}
          /\ cancel[d].reply = "not_cancellable" => cancel[d].shown \notin {"none", QUEUED}
    <2>0. \A d \in Cancellers : Part(d)
      BY DEF HandsHoldJobs, CancelHolds, CancelsConsistent, Exists
    <2>1. QueueHolds'
      <3>1. CASE RemoveFromQueue(c)
        <4>1. jobs' = jobs /\ RemoveEntry(cancel[c].job)
          BY <3>1 DEF RemoveFromQueue
        <4>2. \A i \in 1..Len(queue') : \E k \in 1..Len(queue) : queue'[i] = queue[k]
          <5>1. queue \in Seq(JobIds)
            BY DEF TypeOK
          <5>2. CASE UNCHANGED queue
            BY <5>2
          <5>3. ASSUME NEW n \in 1..Len(queue),
                       queue' = SubSeq(queue, 1, n - 1) \o SubSeq(queue, n + 1, Len(queue))
                PROVE  \A i \in 1..Len(queue') : \E k \in 1..Len(queue) : queue'[i] = queue[k]
            <6> DEFINE a == SubSeq(queue, 1, n - 1)
                       b == SubSeq(queue, n + 1, Len(queue))
            <6>1. a \in Seq(JobIds) /\ Len(a) = n - 1 /\ \A i \in 1..(n - 1) : a[i] = queue[i]
              BY <5>1
            <6>2. /\ b \in Seq(JobIds) /\ Len(b) = Len(queue) - n
                  /\ \A i \in 1..(Len(queue) - n) : b[i] = queue[n + i]
              BY <5>1
            <6>3. queue' = a \o b
              BY <5>3
            <6> HIDE DEF a, b
            <6>4. Len(queue') = Len(queue) - 1
              <7>0. a \in Seq(JobIds) /\ b \in Seq(JobIds)
                BY <6>1, <6>2
              <7>1. Len(a \o b) = Len(a) + Len(b)
                BY <7>0
              <7>2. Len(queue) \in Nat /\ n \in Nat
                BY <5>1
              <7> QED BY <6>1, <6>2, <6>3, <7>1, <7>2
            <6>5. \A i \in 1..Len(queue') :
                     queue'[i] = IF i < n THEN a[i] ELSE b[i - (n - 1)]
              BY <5>1, <6>1, <6>2, <6>3, <6>4
            <6> SUFFICES ASSUME NEW i \in 1..Len(queue')
                         PROVE  \E k \in 1..Len(queue) : queue'[i] = queue[k]
              OBVIOUS
            <6>6. CASE i < n
              BY <5>1, <6>1, <6>4, <6>5, <6>6
            <6>7. CASE i >= n
              <7>1. i - (n - 1) \in 1..(Len(queue) - n) /\ n + (i - (n - 1)) = i + 1
                BY <5>1, <6>4, <6>7
              <7>2. queue'[i] = queue[i + 1]
                BY <5>1, <6>2, <6>4, <6>5, <6>7, <7>1
              <7> QED BY <5>1, <6>4, <7>2
            <6> QED BY <5>1, <6>4, <6>6, <6>7
          <5> QED BY <4>1, <5>2, <5>3 DEF RemoveEntry
        <4> QED BY <4>1, <4>2 DEF HandsHoldJobs, QueueHolds, Exists
      <3>2. CASE queue' = queue
        BY <3>2, IdleActorsKeepTheirFacts
      <3> QED
        BY <3>1, <3>2 DEF CancelStep, CancelFault, ReceiveCancel, GetJobToCancel, CancelQueued,
           NotQueued, ReportCancelled, RefuseCancel, ReturnCancel, RemoveFails,
           CancelDbError, CancelCrash
    <2>2. ASSUME NEW d \in Cancellers, cancel'[d] = cancel[d] PROVE Part(d)'
      BY <2>0, <2>2 DEF RowsOnlyGrow, RowGrows
    <2>3. Part(c)'
      <3>1. ASSUME NEW j \in JobIds, ReceiveCancel(c, j) PROVE Part(c)'
        BY <2>0, <3>1 DEF ReceiveCancel, TypeOK, CancelTypeOK, Cancel
      <3>2. CASE GetJobToCancel(c)
        BY <2>0, <3>2 DEF GetJobToCancel, CancelGoto, CancelReply, Exists, TypeOK, CancelTypeOK, Cancel
      <3>3. CASE CancelQueued(c)
        <4>1. jobs'[cancel[c].job].status = CANCELLED
          BY <2>0, <3>3 DEF CancelQueued, CancelRow, TypeOK, StoreTypeOK, Row
        <4> QED
          BY <2>0, <3>3, <4>1 DEF CancelQueued, CancelGoto, TypeOK, CancelTypeOK, Cancel,
                                  CANCELLED, QUEUED
      <3>4. CASE NotQueued(c)
        BY <2>0, <3>4 DEF NotQueued, CancelGoto, TypeOK, CancelTypeOK, Cancel
      <3>5. CASE RemoveFromQueue(c)
        BY <2>0, <3>5 DEF RemoveFromQueue, CancelGoto, TypeOK, CancelTypeOK, Cancel
      <3>6. CASE ReportCancelled(c) \/ RefuseCancel(c)
        BY <2>0, <3>6 DEF ReportCancelled, RefuseCancel, CancelReply, TypeOK, CancelTypeOK, Cancel
      <3>7. CASE ReturnCancel(c) \/ CancelCrash(c)
        BY <3>7 DEF ReturnCancel, CancelCrash, IdleCancel, TypeOK, CancelTypeOK
      <3>8. CASE RemoveFails(c) \/ CancelDbError(c)
        BY <2>0, <3>8 DEF RemoveFails, CancelDbError, CancelReply, TypeOK, CancelTypeOK, Cancel
      <3> QED
        BY <3>1, <3>2, <3>3, <3>4, <3>5, <3>6, <3>7, <3>8 DEF CancelStep, CancelFault
    <2>4. \A d \in Cancellers : d # c => cancel'[d] = cancel[d]
      BY DEF CancelStep, CancelFault, ReceiveCancel, GetJobToCancel, CancelQueued,
           NotQueued, RemoveFromQueue, ReportCancelled, RefuseCancel, ReturnCancel, RemoveFails,
           CancelDbError, CancelCrash, CancelGoto, CancelReply, TypeOK, CancelTypeOK
    <2> QED BY <2>1, <2>2, <2>3, <2>4 DEF CancelHolds, CancelsConsistent, Exists
  <1> QED
    BY <1>1, <1>2, <1>3, IdleActorsKeepTheirFacts, IdleWorkersKeepTheirFacts DEF HandsHoldJobs

(* A results request keeps the invariant: the status it saw was SUCCEEDED  *)
(* only if the results were there already, and they do not go away.        *)
LEMMA ReadKeepsInv ==
    ASSUME Inv, ReadNext, UNCHANGED <<queue, submit, cancel, worker>>,
           RowsConsistent', RowsOnlyGrow
    PROVE  Inv'
  <1> USE DEF Inv
  <1>1. TypeOK'
    BY ReadTyped
  <1>2. results' = results /\ jobs' = jobs
    BY DEF ReadNext, ReceiveRead, SelectJob, SelectResults, ReturnRead
  <1>3. ReadHolds' /\ ReadsConsistent'
    <2> SUFFICES ASSUME NEW r \in Readers,
                        \/ \E j \in JobIds : ReceiveRead(r, j)
                        \/ SelectJob(r) \/ SelectResults(r) \/ ReturnRead(r)
                 PROVE  ReadHolds' /\ ReadsConsistent'
      BY DEF ReadNext
    <2> DEFINE Part(d) ==
          /\ read[d].pc # "idle" => read[d].job \in JobIds
          /\ read[d].pc = "results" /\ read[d].seen = SUCCEEDED => read[d].job \in results
          /\ read[d].reply # "incomplete"
    <2>0. \A d \in Readers : Part(d)
      BY DEF HandsHoldJobs, ReadHolds, ReadsConsistent
    <2>1. \A d \in Readers : d # r => read'[d] = read[d]
      BY DEF ReceiveRead, SelectJob, SelectResults, ReturnRead, ReadReply, TypeOK, ReadTypeOK
    <2>2. Part(r)'
      <3> USE DEF TypeOK, ReadTypeOK, Read
      <3>1. ASSUME NEW j \in JobIds, ReceiveRead(r, j) PROVE Part(r)'
        BY <1>2, <2>0, <3>1 DEF ReceiveRead
      <3>2. CASE SelectJob(r)
        BY <1>2, <2>0, <3>2 DEF SelectJob, ReadReply, HandsHoldJobs, ReadHolds, RowsConsistent
      <3>3. CASE SelectResults(r)
        BY <1>2, <2>0, <3>3 DEF SelectResults, ReadReply
      <3>4. CASE ReturnRead(r)
        BY <3>4 DEF ReturnRead, IdleRead
      <3> QED BY <3>1, <3>2, <3>3, <3>4
    <2> QED BY <1>2, <2>0, <2>1, <2>2 DEF ReadHolds, ReadsConsistent
  <1> QED
    BY <1>1, <1>2, <1>3, IdleActorsKeepTheirFacts, IdleWorkersKeepTheirFacts DEF HandsHoldJobs

(* What the invariant says of one worker.                                  *)
TaskInv(w) ==
    /\ worker[w].pc # "idle" =>
          worker[w].job \in JobIds /\ jobs[worker[w].job].status # "absent"
    /\ worker[w].pc \in {"load", "run", "save", "saved"} => jobs[worker[w].job].started
    /\ worker[w].pc \in {"load", "run", "save"} => worker[w].job \notin results
    /\ worker[w].pc \in {"run", "save"} => worker[w].seen.status # SUCCEEDED
    /\ worker[w].pc = "fail" /\ worker[w].seen.status = FAILED =>
          jobs[worker[w].job].status \in {SUCCEEDED, FAILED}
    /\ /\ worker[w].pc = "fail"
       /\ worker[w].seen.status # FAILED
       /\ worker[w].seen.error # "none"
       => worker[w].job \in results /\ jobs[worker[w].job].error # "none"

(* A worker that does not move keeps its facts when another one publishes, *)
(* because that one executes a different job.                              *)
LEMMA OtherTasksKeepTheirFacts ==
    ASSUME Inv, RowsOnlyGrow, NEW w \in Workers, NEW v \in Workers, v # w,
           worker'[v] = worker[v],
           \/ results' = results
           \/ worker[w].pc = "save" /\ results' = results \cup {worker[w].job}
    PROVE  TaskInv(v)'
  <1>1. TaskInv(v)
    BY DEF Inv, HandsHoldJobs, TaskHolds, WorkersConsistent, TaskInv, Exists, Executing
  <1>2. worker[v].pc \in {"load", "run", "save"} => worker[v].job \notin results'
    BY <1>1 DEF TaskInv, Inv, ExclusiveExecution, Executing
  <1> QED BY <1>1, <1>2 DEF TaskInv, RowsOnlyGrow, RowGrows

(* The worker that moves.                                                  *)
LEMMA MovingTaskKeepsItsFacts ==
    ASSUME Inv, RowsOnlyGrow, RowsConsistent', NEW w \in Workers, TaskStep(w) \/ TaskFault(w)
    PROVE  TaskInv(w)'
  <1> USE DEF Inv, TaskInv
  <1>0. /\ TaskInv(w)
        /\ worker \in [Workers -> Task]
    BY DEF HandsHoldJobs, TaskHolds, WorkersConsistent, Exists, Executing, TypeOK, WorkerTypeOK
  <1>a. ASSUME TaskEnd(w) PROVE TaskInv(w)'
    BY <1>0, <1>a DEF TaskEnd, IdleTask
  <1>b. ASSUME NEW pc, TaskGoto(w, pc)
        PROVE  /\ worker'[w].pc = pc
               /\ worker'[w].job = worker[w].job
               /\ worker'[w].seen = worker[w].seen
    BY <1>0, <1>b DEF TaskGoto, Task
  <1>c. ASSUME NEW pc, TaskLoad(w, pc)
        PROVE  /\ worker'[w].pc = pc
               /\ worker'[w].job = worker[w].job
               /\ worker'[w].seen.status = jobs[worker[w].job].status
               /\ worker'[w].seen.error = jobs[worker[w].job].error
    <2>1. worker'[w] = [worker[w] EXCEPT !.pc = pc, !.seen = CacheOf(jobs[worker[w].job])]
      BY <1>0, <1>c DEF TaskLoad
    <2> QED BY <1>0, <2>1 DEF Task, CacheOf
  <1>1. ASSUME NEW j \in JobIds, Dequeue(w, j) PROVE TaskInv(w)'
    <2>1. Exists(j)
      BY <1>1 DEF Dequeue, Pop, HandsHoldJobs, QueueHolds, TypeOK
    <2> QED BY <1>0, <1>1, <2>1 DEF Dequeue, Exists
  <1>2. CASE ImportEngine(w) \/ RunBenchmark(w) \/ EngineRaises(w)
    BY <1>0, <1>2, <1>b DEF ImportEngine, RunBenchmark, EngineRaises
  <1>3. CASE ClaimJob(w)
    <2>1. /\ worker[w].job \in JobIds /\ worker[w].job \notin results
          /\ jobs'[worker[w].job].started /\ jobs'[worker[w].job].status = RUNNING
      BY <1>0, <1>3 DEF ClaimJob, ClaimRow, RowsConsistent, TypeOK, StoreTypeOK, Row,
         QUEUED, RUNNING, SUCCEEDED, FAILED
    <2> QED BY <1>3, <1>b, <2>1 DEF ClaimJob, RUNNING
  <1>4. CASE SkipJob(w) \/ FinishTask(w) \/ ImportFails(w) \/ Kill(w)
    BY <1>4, <1>a DEF SkipJob, FinishTask, ImportFails, Kill
  <1>5. CASE LoadJob(w)
    BY <1>0, <1>5, <1>c DEF LoadJob, RowsConsistent
  <1>6. CASE SaveResults(w)
    BY <1>0, <1>6, <1>b DEF SaveResults, RowsOnlyGrow, RowGrows
  <1>7. CASE FailJob(w)
    BY <1>7, <1>a DEF FailJob
  <1>8. CASE ReloadJob(w)
    <2>1. worker[w].job \in JobIds /\ jobs[worker[w].job].status # "absent"
      BY <1>0, <1>8 DEF ReloadJob
    <2>2. jobs[worker[w].job].status # FAILED /\ jobs[worker[w].job].error # "none"
             => worker[w].job \in results
      BY <2>1, RowFacts DEF RowsConsistent
    <2> QED BY <1>8, <1>c, <2>1, <2>2 DEF ReloadJob
  <1>9. CASE Alarm(w) \/ StrayAlarm(w)
    <2>1. ASSUME worker' = [worker EXCEPT ![w].pc = "handler", ![w].armed = FALSE]
          PROVE  worker'[w].pc = "handler" /\ worker'[w].job = worker[w].job
      BY <1>0, <2>1 DEF Task
    <2>2. ASSUME worker' = [worker EXCEPT ![w] =
                    [@ EXCEPT !.pc = "fail", !.armed = FALSE,
                              !.seen = [status |-> SUCCEEDED, error |-> "none"]]]
          PROVE  /\ worker'[w].pc = "fail" /\ worker'[w].job = worker[w].job
                 /\ worker'[w].seen.status # FAILED /\ worker'[w].seen.error = "none"
      <3>1. worker'[w] = [worker[w] EXCEPT !.pc = "fail", !.armed = FALSE,
                             !.seen = [status |-> SUCCEEDED, error |-> "none"]]
        BY <1>0, <2>2
      <3> QED BY <1>0, <3>1 DEF Task, SUCCEEDED, FAILED
    <2> QED BY <1>0, <1>9, <1>a, <2>1, <2>2 DEF Alarm, StrayAlarm
  <1>10. CASE TaskDbError(w)
    <2>1. CASE TaskGoto(w, "handler")
      BY <1>0, <1>10, <1>b, <2>1 DEF TaskDbError, RowsOnlyGrow, RowGrows
    <2> QED BY <1>10, <1>a, <2>1 DEF TaskDbError
  <1> QED
    BY <1>1, <1>2, <1>3, <1>4, <1>5, <1>6, <1>7, <1>8, <1>9, <1>10 DEF TaskStep, TaskFault

(* A worker starts executing by the claim of a queued row, which nobody    *)
(* has started; otherwise it was executing that job before.                *)
LEMMA ExecutionStartsWithClaim ==
    ASSUME TypeOK, NEW w \in Workers, TaskStep(w) \/ TaskFault(w), Executing(w)'
    PROVE  /\ worker'[w].job = worker[w].job
           /\ \/ Executing(w)
              \/ ClaimJob(w) /\ jobs[worker[w].job].status = QUEUED
  <1>0. worker \in [Workers -> Task]
    BY DEF TypeOK, WorkerTypeOK
  <1>a. ASSUME TaskEnd(w) PROVE FALSE
    BY <1>0, <1>a DEF TaskEnd, IdleTask, Executing
  <1>b. ASSUME NEW pc, TaskGoto(w, pc)
        PROVE  worker'[w].pc = pc /\ worker'[w].job = worker[w].job
    BY <1>0, <1>b DEF TaskGoto, Task
  <1>c. ASSUME NEW pc, TaskLoad(w, pc)
        PROVE  worker'[w].pc = pc /\ worker'[w].job = worker[w].job
    <2>1. worker'[w] = [worker[w] EXCEPT !.pc = pc, !.seen = CacheOf(jobs[worker[w].job])]
      BY <1>0, <1>c DEF TaskLoad
    <2> QED BY <1>0, <2>1 DEF Task
  <1>1. ASSUME NEW j \in JobIds, Dequeue(w, j) PROVE FALSE
    BY <1>0, <1>1 DEF Dequeue, Executing
  <1>2. ASSUME worker' = [worker EXCEPT ![w].pc = "handler", ![w].armed = FALSE] PROVE FALSE
    BY <1>0, <1>2 DEF Executing, Task
  <1>3. ASSUME ImportEngine(w) \/ EngineRaises(w) PROVE FALSE
    BY <1>3, <1>b DEF ImportEngine, EngineRaises, Executing
  <1>4. ASSUME Alarm(w) \/ StrayAlarm(w) PROVE FALSE
    <2>1. ASSUME worker' = [worker EXCEPT ![w] =
                    [@ EXCEPT !.pc = "fail", !.armed = FALSE,
                              !.seen = [status |-> SUCCEEDED, error |-> "none"]]]
          PROVE  FALSE
      <3>1. worker'[w] = [worker[w] EXCEPT !.pc = "fail", !.armed = FALSE,
                             !.seen = [status |-> SUCCEEDED, error |-> "none"]]
        BY <1>0, <2>1
      <3> QED BY <1>0, <3>1 DEF Task, Executing
    <2> QED BY <1>4, <1>2, <1>a, <2>1 DEF Alarm, StrayAlarm
  <1>5. ASSUME TaskDbError(w) PROVE FALSE
    BY <1>5, <1>a, <1>b DEF TaskDbError, Executing
  <1>6. CASE ClaimJob(w)
    BY <1>6, <1>b DEF ClaimJob, ClaimRow
  <1>7. CASE LoadJob(w)
    BY <1>7, <1>c DEF LoadJob, Executing
  <1>8. CASE RunBenchmark(w) \/ SaveResults(w)
    BY <1>8, <1>b DEF RunBenchmark, SaveResults, Executing
  <1>9. ASSUME ReloadJob(w) PROVE FALSE
    BY <1>9, <1>c DEF ReloadJob, Executing
  <1>10. ASSUME SkipJob(w) \/ FinishTask(w) \/ FailJob(w) \/ ImportFails(w) \/ Kill(w) PROVE FALSE
    BY <1>10, <1>a DEF SkipJob, FinishTask, FailJob, ImportFails, Kill
  <1> QED
    BY <1>1, <1>3, <1>4, <1>5, <1>6, <1>7, <1>8, <1>9, <1>10 DEF TaskStep, TaskFault

(* A worker keeps the invariant.                                           *)
LEMMA WorkerKeepsInv ==
    ASSUME Inv, WorkerNext, UNCHANGED <<submit, cancel, read>>, RowsConsistent', RowsOnlyGrow
    PROVE  Inv'
  <1> USE DEF Inv
  <1>1. TypeOK'
    BY WorkerTyped
  <1> SUFFICES ASSUME NEW w \in Workers, TaskStep(w) \/ TaskFault(w)
               PROVE  Inv'
    BY DEF WorkerNext
  <1>2. \A v \in Workers : v # w => worker'[v] = worker[v]
    BY DEF TypeOK, WorkerTypeOK, TaskStep, TaskFault, Dequeue, ImportEngine, ClaimJob, SkipJob,
       LoadJob, RunBenchmark, SaveResults, FinishTask, ReloadJob, FailJob, ImportFails,
       EngineRaises, Alarm, StrayAlarm, TaskDbError, Kill, TaskGoto, TaskEnd, TaskLoad
  <1>3. \/ results' = results
        \/ worker[w].pc = "save" /\ results' = results \cup {worker[w].job}
    BY DEF TaskStep, TaskFault, Dequeue, ImportEngine, ClaimJob, SkipJob,
       LoadJob, RunBenchmark, SaveResults, FinishTask, ReloadJob, FailJob, ImportFails,
       EngineRaises, Alarm, StrayAlarm, TaskDbError, Kill, MarkSucceeded
  <1>4. \A v \in Workers : TaskInv(v)'
    BY <1>2, <1>3, OtherTasksKeepTheirFacts, MovingTaskKeepsItsFacts
  <1>5. TaskHolds' /\ WorkersConsistent'
    BY <1>4 DEF TaskHolds, WorkersConsistent, TaskInv, Exists, Executing
  <1>6. ExclusiveExecution'
    <2> SUFFICES ASSUME NEW v \in Workers, v # w, Executing(v)', Executing(w)'
                 PROVE  worker'[v].job # worker'[w].job
      BY <1>2 DEF ExclusiveExecution, Executing
    <2>1. Executing(v) /\ worker'[v].job = worker[v].job
      BY <1>2 DEF Executing
    <2>2. CASE Executing(w)
      BY <2>1, <2>2, ExecutionStartsWithClaim DEF ExclusiveExecution
    <2>3. CASE jobs[worker[w].job].status = QUEUED /\ ClaimJob(w)
      <3>1. worker[w].job \in JobIds
        BY <2>3 DEF ClaimJob, HandsHoldJobs, TaskHolds
      <3>2. ~jobs[worker[w].job].started
        BY <2>3, <3>1 DEF RowsConsistent, QUEUED, RUNNING, SUCCEEDED, FAILED
      <3> QED BY <2>1, <3>2, ExecutionStartsWithClaim DEF WorkersConsistent
    <2> QED BY <2>2, <2>3, ExecutionStartsWithClaim
  <1>7. QueueHolds'
    <2>1. CASE queue' = queue
      BY <2>1, IdleActorsKeepTheirFacts
    <2>2. ASSUME NEW j, Dequeue(w, j) PROVE QueueHolds'
      <3>1. jobs' = jobs /\ queue # << >> /\ queue' = Tail(queue)
        BY <2>2 DEF Dequeue, Pop
      <3>2. Len(queue') = Len(queue) - 1 /\ \A i \in 1..Len(queue') : queue'[i] = queue[i + 1]
        BY <3>1 DEF TypeOK
      <3>3. \A i \in 1..Len(queue') : i + 1 \in 1..Len(queue)
        BY <3>1, <3>2 DEF TypeOK
      <3> QED BY <3>1, <3>2, <3>3 DEF HandsHoldJobs, QueueHolds, Exists
    <2> QED
      BY <2>1, <2>2 DEF TaskStep, TaskFault, ImportEngine, ClaimJob, SkipJob,
         LoadJob, RunBenchmark, SaveResults, FinishTask, ReloadJob, FailJob, ImportFails,
         EngineRaises, Alarm, StrayAlarm, TaskDbError, Kill
  <1> QED
    BY <1>1, <1>5, <1>6, <1>7, IdleActorsKeepTheirFacts DEF HandsHoldJobs

-----------------------------------------------------------------------------
(* The invariant holds at the start.                                       *)
LEMMA InitInv == ASSUME Init PROVE Inv
  <1>1. TypeOK
    BY InitTyped
  <1>2. HandsHoldJobs
    BY DEF Init, HandsHoldJobs, QueueHolds, SubmitHolds, CancelHolds, ReadHolds, TaskHolds,
       BrokerInit, SubmitInit, CancelInit, ReadInit, WorkerInit, IdleSubmit, IdleCancel,
       IdleRead, IdleTask
  <1>3. RowsConsistent
    BY DEF Init, StoreInit, AbsentRow, RowsConsistent, RUNNING, SUCCEEDED, FAILED
  <1>4. WorkersConsistent /\ ExclusiveExecution
    BY DEF Init, WorkerInit, IdleTask, WorkersConsistent, ExclusiveExecution, Executing
  <1>5. CancelsConsistent /\ ReadsConsistent
    BY DEF Init, CancelInit, ReadInit, IdleCancel, IdleRead, CancelsConsistent, ReadsConsistent
  <1> QED BY <1>1, <1>2, <1>3, <1>4, <1>5 DEF Inv

(* Every step keeps it.                                                    *)
LEMMA NextInv == ASSUME Inv, [Next]_vars PROVE Inv'
  <1> USE DEF Inv
  <1>1. StoreStep
    BY StepsWriteTheStore
  <1>2. RowsConsistent' /\ RowsOnlyGrow
    BY <1>1, WritesKeepRows
  <1>3. TypeOK'
    BY NextTyped
  <1>4. CASE SubmitNext /\ UNCHANGED <<cancel, read, worker>>
    BY <1>2, <1>4, SubmitKeepsInv
  <1>5. CASE CancelNext /\ UNCHANGED <<submit, read, worker>>
    BY <1>2, <1>5, CancelKeepsInv
  <1>6. CASE ReadNext /\ UNCHANGED <<queue, submit, cancel, worker>>
    BY <1>2, <1>6, ReadKeepsInv
  <1>7. CASE WorkerNext /\ UNCHANGED <<submit, cancel, read>>
    BY <1>2, <1>7, WorkerKeepsInv
  <1>8. CASE \/ ReaperNext /\ UNCHANGED <<submit, cancel, read>>
             \/ RedisLoss
             \/ UNCHANGED vars
    <2>1. UNCHANGED <<results, submit, cancel, read, worker>>
      BY <1>8 DEF ReaperNext, SweepStaleJobs, RedisLoss, vars
    <2>2. QueueHolds'
      <3>1. CASE queue' = queue
        BY <1>2, <3>1, IdleActorsKeepTheirFacts
      <3>2. CASE queue' = << >>
        BY <3>2 DEF QueueHolds
      <3> QED BY <1>8, <3>1, <3>2 DEF ReaperNext, SweepStaleJobs, RedisLoss, LoseAll, vars
    <2> QED
      BY <1>2, <1>3, <2>1, <2>2, IdleActorsKeepTheirFacts, IdleWorkersKeepTheirFacts
         DEF HandsHoldJobs
  <1> QED BY <1>4, <1>5, <1>6, <1>7, <1>8 DEF Next

(* The invariant holds in every reachable state, whatever goes wrong.      *)
THEOREM Invariance == Spec => []Inv
  <1>1. Init => Inv
    BY InitInv
  <1>2. Inv /\ [Next]_vars => Inv'
    BY NextInv
  <1> QED BY <1>1, <1>2, PTL DEF Spec

(* Type correctness.                                                       *)
THEOREM TypeCorrect == Spec => []TypeOK
  <1>1. Inv => TypeOK
    BY DEF Inv
  <1> QED BY <1>1, Invariance, PTL

(* mark_running's claim gives a job to one worker at a time.               *)
THEOREM ExecutionIsExclusive == Spec => []ExclusiveExecution
  <1>1. Inv => ExclusiveExecution
    BY DEF Inv
  <1> QED BY <1>1, Invariance, PTL

(* A job that cancel_job cancelled was never started and never will be.    *)
THEOREM CancellationWins == Spec => []CancelledNeverRuns
  <1>1. Inv => CancelledNeverRuns
    <2> SUFFICES ASSUME Inv, NEW j \in JobIds, jobs[j].status = CANCELLED
                 PROVE  ~jobs[j].started /\ \A w \in Workers : Executing(w) => worker[w].job # j
      BY DEF CancelledNeverRuns
    <2>1. ~jobs[j].started
      BY DEF Inv, RowsConsistent, RUNNING, SUCCEEDED, FAILED, CANCELLED
    <2> QED BY <2>1 DEF Inv, WorkersConsistent
  <1> QED BY <1>1, Invariance, PTL

(* get_job_results never shows a succeeded job without its results.        *)
THEOREM ResultsAreWhole == Spec => []ReadersSeeWholeResults
  <1>1. Inv => ReadersSeeWholeResults
    BY DEF Inv, ReadsConsistent, ReadersSeeWholeResults
  <1> QED BY <1>1, Invariance, PTL

(* A worker never violates UNIQUE (job_id, attack_name).                   *)
THEOREM ResultsCollideNever == Spec => []ResultsNeverCollide
  <1>1. Inv => ResultsNeverCollide
    BY DEF Inv, WorkersConsistent, ResultsNeverCollide
  <1> QED BY <1>1, Invariance, PTL

(* A failed job carries an error message.                                  *)
THEOREM FailuresAreExplained == Spec => []FailedIsExplained
  <1>1. Inv => FailedIsExplained
    BY DEF Inv, RowsConsistent, FailedIsExplained
  <1> QED BY <1>1, Invariance, PTL

(* The 409 of cancel_job never says that the job is queued.                *)
THEOREM RefusalsAreTruthful == Spec => []RefusalIsTruthful
  <1>1. Inv => RefusalIsTruthful
    <2> SUFFICES ASSUME Inv, NEW c \in Cancellers, cancel[c].reply = "not_cancellable"
                 PROVE  cancel[c].shown \in {RUNNING} \cup TERMINAL_STATUSES
      BY DEF RefusalIsTruthful
    <2>1. cancel[c].shown \in JobStatus \cup {"none"}
      BY DEF Inv, TypeOK, CancelTypeOK, Cancel
    <2>2. cancel[c].shown \notin {"none", QUEUED}
      BY DEF Inv, CancelsConsistent
    <2> QED BY <2>1, <2>2 DEF JobStatus, ACTIVE_STATUSES
  <1> QED BY <1>1, Invariance, PTL

(* No step moves a status otherwise than StatusMoves allows: a row is      *)
(* never queued again, runs only from queued, and is not resurrected from  *)
(* cancelled except to failed.                                             *)
LEMMA StepMoves ==
    ASSUME Inv, [Next]_vars, NEW i \in JobIds, jobs[i].status # jobs'[i].status
    PROVE  <<jobs[i].status, jobs'[i].status>> \in StatusMoves
  <1> USE DEF QUEUED, RUNNING, SUCCEEDED, FAILED, CANCELLED
  <1>0. TypeOK /\ HandsHoldJobs /\ jobs = [j \in JobIds |-> jobs[j]]
    BY DEF Inv, TypeOK, StoreTypeOK
  <1>1. StoreStep
    BY <1>0, StepsWriteTheStore
  <1>2. CASE Untouched
    BY <1>2 DEF Untouched
  <1>3. CASE Inserts
    BY <1>0, <1>3, InsertsWrite DEF InsertRow, NewRow, StatusMoves
  <1>4. CASE Claims
    <2>1. jobs[i].status = QUEUED /\ jobs'[i].status = RUNNING
      BY <1>0, <1>4, RowFacts DEF Claims, ClaimRow, Row
    <2> QED BY <2>1 DEF StatusMoves
  <1>5. CASE Cancels
    <2>1. jobs[i].status = QUEUED /\ jobs'[i].status = CANCELLED
      BY <1>0, <1>5, RowFacts DEF Cancels, CancelRow, Row
    <2> QED BY <2>1 DEF StatusMoves
  <1>6. CASE Succeeds
    <2>1. PICK w \in Workers : /\ worker[w].pc = "save"
                               /\ MarkSucceeded(worker[w].job, worker[w].seen)
      BY <1>6 DEF Succeeds
    <2>2. i = worker[w].job
      BY <1>0, <2>1 DEF MarkSucceeded
    <2>3. jobs'[i].status = SUCCEEDED
      BY <1>0, <2>1, <2>2, RowFacts DEF MarkSucceeded, OrmUpdate, Row
    <2>4. jobs[i].status \in {RUNNING, FAILED}
      BY <2>1, <2>2, <2>3, RowFacts DEF Inv, WorkersConsistent, Executing, RowsConsistent
    <2> QED BY <2>3, <2>4 DEF StatusMoves
  <1>7. CASE Fails
    <2>0. PICK j \in JobIds : \E seen, error : MarkFailed(j, seen, error) /\ Exists(j)
      BY <1>0, <1>7 DEF Fails, HandsHoldJobs, SubmitHolds, TaskHolds
    <2>1. PICK seen, error : MarkFailed(j, seen, error) /\ Exists(j)
      BY <2>0
    <2>2. i = j
      BY <1>0, <2>1 DEF MarkFailed
    <2>3. jobs'[i].status = FAILED
      BY <1>0, <2>1, <2>2, RowFacts DEF MarkFailed, OrmUpdate, Row
    <2> QED BY <1>0, <2>1, <2>2, <2>3, RowFacts DEF StatusMoves, Exists
  <1>8. CASE Sweeps
    <2>1. jobs[i].status = RUNNING /\ jobs'[i].status = FAILED
      BY <1>0, <1>8, RowFacts DEF Sweeps, SweepRows, Row
    <2> QED BY <2>1 DEF StatusMoves
  <1> QED BY <1>1, <1>2, <1>3, <1>4, <1>5, <1>6, <1>7, <1>8 DEF StoreStep

(* A status makes only the moves of OnlyStatusMoves.                       *)
THEOREM StatusMovesOnly == Spec => OnlyStatusMoves
  <1>1. Inv /\ [Next]_vars
           => [\A j \in JobIds :
                 jobs[j].status # jobs'[j].status
                    => <<jobs[j].status, jobs'[j].status>> \in StatusMoves]_vars
    BY StepMoves
  <1> QED BY <1>1, Invariance, PTL DEF Spec, OnlyStatusMoves
=============================================================================
