-------------------------- MODULE LifecycleProofs ---------------------------
(***************************************************************************)
(* JobService implements JobLifecycle in every environment without an      *)
(* overwriting fault, for every number of processes and jobs.              *)
(***************************************************************************)
EXTENDS JobServiceProofs

(* A worker that has claimed its job and has not written its end yet.      *)
Owning(w) == worker[w].pc \in {"load", "run", "save", "handler", "fail"}

(* An owned job is running, has one owner, and no submitter is about to    *)
(* fail a job.  Each overwriting fault breaks one of these.                *)
OwnedJobsRun == \A w \in Workers : Owning(w) => jobs[worker[w].job].status = RUNNING
OneOwner ==
    \A v, w \in Workers : v # w /\ Owning(v) /\ Owning(w) => worker[v].job # worker[w].job
FailersSawRunning ==
    \A w \in Workers : worker[w].pc = "fail" => worker[w].seen.status = RUNNING
NoSubmitterFails == \A s \in Submitters : submit[s].pc # "fail"

LifeInv == OwnedJobsRun /\ OneOwner /\ FailersSawRunning /\ NoSubmitterFails

NoOverwriting == Faults \cap OverwritingFaults = {}

(* Nothing is owned at the start.                                          *)
LEMMA InitLifeInv == ASSUME Init PROVE LifeInv
  BY DEF Init, WorkerInit, SubmitInit, IdleTask, IdleSubmit, LifeInv, OwnedJobsRun, OneOwner,
     FailersSawRunning, NoSubmitterFails, Owning

(* The API and Redis leave running rows running.                           *)
LEMMA ApiSparesRunningRows ==
    ASSUME TypeOK, HandsHoldJobs, NoSubmitterFails,
           \/ SubmitNext
           \/ CancelNext
           \/ ReadNext
           \/ RedisLoss
           \/ UNCHANGED vars,
           NEW i \in JobIds, jobs[i].status = RUNNING
    PROVE  jobs'[i].status = RUNNING
  <1> USE DEF QUEUED, RUNNING
  <1>0. jobs = [j \in JobIds |-> jobs[j]]
    BY DEF TypeOK, StoreTypeOK
  <1>1. CASE SubmitNext
    <2> SUFFICES ASSUME NEW s \in Submitters,
                        \/ \E k \in Keys \cup {NoKey}, f \in Fingerprints : Receive(s, k, f)
                        \/ SubmitStep(s)
                        \/ SubmitFault(s)
                 PROVE  jobs'[i].status = RUNNING
      BY <1>1 DEF SubmitNext
    <2>1. CASE FailUnqueued(s) \/ FailReplyLost(s)
      BY <2>1 DEF FailUnqueued, FailReplyLost, NoSubmitterFails
    <2>2. ASSUME NEW j \in JobIds, InsertJob(s, j) \/ InsertReplyLost(s, j)
          PROVE  jobs'[i].status = RUNNING
      BY <1>0, <2>2 DEF InsertJob, InsertReplyLost, InsertRow
    <2> QED
      BY <2>1, <2>2 DEF SubmitStep, SubmitFault, Receive, AssertCapacity, InsertCollision,
          LookupExisting, EnqueueJob, Return, EnqueueFails, SubmitDbError, SubmitCrash
  <1>2. CASE CancelNext
    <2> SUFFICES ASSUME NEW c \in Cancellers,
                        \/ \E j \in JobIds : ReceiveCancel(c, j)
                        \/ CancelStep(c)
                        \/ CancelFault(c)
                 PROVE  jobs'[i].status = RUNNING
      BY <1>2 DEF CancelNext
    <2>1. CASE CancelQueued(c) \/ CancelDbError(c)
      BY <1>0, <2>1 DEF CancelQueued, CancelDbError, CancelRow
    <2> QED
      BY <2>1 DEF CancelStep, CancelFault, ReceiveCancel, GetJobToCancel, NotQueued,
          RemoveFromQueue, ReportCancelled, RefuseCancel, ReturnCancel, RemoveFails, CancelCrash
  <1>3. CASE ReadNext \/ RedisLoss \/ UNCHANGED vars
    BY <1>3 DEF ReadNext, ReceiveRead, SelectJob, SelectResults, ReturnRead, RedisLoss, vars
  <1> QED BY <1>1, <1>2, <1>3

(* A submitter turns to failing a job only after a failed push.            *)
LEMMA SubmittersDoNotFail ==
    ASSUME TypeOK, NoOverwriting, NoSubmitterFails, SubmitNext
    PROVE  NoSubmitterFails'
  <1> SUFFICES ASSUME NEW s \in Submitters,
                      \/ \E k \in Keys \cup {NoKey}, f \in Fingerprints : Receive(s, k, f)
                      \/ SubmitStep(s)
                      \/ SubmitFault(s)
               PROVE  NoSubmitterFails'
    BY DEF SubmitNext
  <1> USE DEF NoSubmitterFails, TypeOK, SubmitTypeOK
  <1>0. ASSUME NEW x, submit' = [submit EXCEPT ![s] = x], x.pc # "fail" PROVE NoSubmitterFails'
    BY <1>0
  <1>1. IdleSubmit.pc # "fail"
    BY DEF IdleSubmit
  <1>2. ASSUME NEW pc, SubmitGoto(s, pc), pc # "fail" PROVE NoSubmitterFails'
    BY <1>2 DEF SubmitGoto, Submit
  <1>3. ASSUME NEW r, SubmitReply(s, r) PROVE NoSubmitterFails'
    BY <1>3 DEF SubmitReply, Submit
  <1>4. ASSUME NEW r, NEW j, SubmitReplyJob(s, r, j) PROVE NoSubmitterFails'
    <2>1. [submit[s] EXCEPT !.pc = "replied", !.reply = r, !.job = j].pc # "fail"
      BY DEF Submit
    <2> QED BY <1>0, <1>4, <2>1 DEF SubmitReplyJob
  <1>5. ASSUME NEW k, NEW f, Receive(s, k, f) PROVE NoSubmitterFails'
    <2>1. [IdleSubmit EXCEPT !.pc = "check", !.key = k, !.fingerprint = f].pc # "fail"
      BY DEF IdleSubmit
    <2> QED BY <1>0, <1>5, <2>1 DEF Receive
  <1>6. ASSUME NEW j, InsertJob(s, j) PROVE NoSubmitterFails'
    BY <1>6 DEF InsertJob, Submit
  <1>7. ASSUME EnqueueFails(s) PROVE FALSE
    BY <1>7 DEF EnqueueFails, NoOverwriting, OverwritingFaults
  <1>8. CASE Return(s) \/ SubmitCrash(s)
    BY <1>0, <1>1, <1>8 DEF Return, SubmitCrash
  <1>9. CASE AssertCapacity(s) \/ InsertCollision(s) \/ EnqueueJob(s) \/ FailUnqueued(s)
             \/ FailReplyLost(s) \/ SubmitDbError(s)
    BY <1>2, <1>3, <1>9 DEF AssertCapacity, InsertCollision, EnqueueJob, FailUnqueued,
       FailReplyLost, SubmitDbError
  <1>10. ASSUME NEW j, LookupExisting(s, j) \/ InsertReplyLost(s, j) PROVE NoSubmitterFails'
    BY <1>4, <1>10 DEF LookupExisting, InsertReplyLost
  <1> QED
    BY <1>5, <1>6, <1>7, <1>8, <1>9, <1>10 DEF SubmitStep, SubmitFault

(* A worker's step with respect to ownership.                              *)
StaysOut(w) == ~Owning(w)' /\ ~Owning(w) /\ jobs' = jobs
Releases(w) ==
    /\ ~Owning(w)' /\ Owning(w)
    /\ \A i \in JobIds : i # worker[w].job => jobs'[i] = jobs[i]
KeepsOn(w) ==
    /\ Owning(w)' /\ Owning(w) /\ jobs' = jobs
    /\ worker'[w].job = worker[w].job
    /\ worker'[w].pc = "fail" => worker'[w].seen.status = RUNNING
TakesOver(w) ==
    /\ Owning(w)' /\ ~Owning(w) /\ worker'[w].pc # "fail"
    /\ worker'[w].job = worker[w].job
    /\ worker[w].pc = "claim" /\ ClaimRow(worker[w].job)

(* Without overwriting faults a worker comes to own its job by claiming    *)
(* it, and the handler remembers a running row.                            *)
LEMMA WorkerStepKinds ==
    ASSUME TypeOK, HandsHoldJobs, NoOverwriting, OwnedJobsRun, FailersSawRunning,
           NEW w \in Workers, TaskStep(w) \/ TaskFault(w)
    PROVE  /\ \A v \in Workers : v # w => worker'[v] = worker[v]
           /\ StaysOut(w) \/ Releases(w) \/ KeepsOn(w) \/ TakesOver(w)
  <1> USE DEF TypeOK, WorkerTypeOK, StoreTypeOK, Owning, StaysOut, Releases, KeepsOn, TakesOver
  <1>0. worker \in [Workers -> Task] /\ worker[w] \in Task
    OBVIOUS
  <1>a. ASSUME TaskEnd(w)
        PROVE  worker'[w].pc = "idle" /\ \A v \in Workers : v # w => worker'[v] = worker[v]
    BY <1>0, <1>a DEF TaskEnd, IdleTask
  <1>b. ASSUME NEW pc, TaskGoto(w, pc)
        PROVE  /\ worker'[w].pc = pc
               /\ worker'[w].job = worker[w].job
               /\ worker'[w].seen = worker[w].seen
               /\ \A v \in Workers : v # w => worker'[v] = worker[v]
    BY <1>0, <1>b DEF TaskGoto, Task
  <1>c. ASSUME NEW pc, TaskLoad(w, pc)
        PROVE  /\ worker'[w].pc = pc
               /\ worker'[w].job = worker[w].job
               /\ worker'[w].seen.status = jobs[worker[w].job].status
               /\ \A v \in Workers : v # w => worker'[v] = worker[v]
    <2>1. worker'[w] = [worker[w] EXCEPT !.pc = pc, !.seen = CacheOf(jobs[worker[w].job])]
      BY <1>0, <1>c DEF TaskLoad
    <2>2. \A v \in Workers : v # w => worker'[v] = worker[v]
      BY <1>0, <1>c DEF TaskLoad
    <2> QED BY <1>0, <2>1, <2>2 DEF Task, CacheOf
  <1>1. CASE \E j \in JobIds : Dequeue(w, j)
    BY <1>0, <1>1 DEF Dequeue
  <1>2. CASE ImportEngine(w) \/ RunBenchmark(w) \/ EngineRaises(w)
    BY <1>2, <1>b DEF ImportEngine, RunBenchmark, EngineRaises
  <1>3. CASE ClaimJob(w)
    BY <1>3, <1>b DEF ClaimJob
  <1>4. CASE SkipJob(w) \/ FinishTask(w) \/ ImportFails(w)
    BY <1>4, <1>a DEF SkipJob, FinishTask, ImportFails
  <1>5. CASE Kill(w)
    BY <1>5, <1>a DEF Kill
  <1>6. CASE LoadJob(w) \/ ReloadJob(w)
    BY <1>6, <1>c DEF LoadJob, ReloadJob, OwnedJobsRun
  <1>7. CASE SaveResults(w)
    BY <1>7, <1>b DEF SaveResults, MarkSucceeded
  <1>8. CASE FailJob(w)
    BY <1>8, <1>a DEF FailJob, MarkFailed
  <1>9. CASE Alarm(w)
    <2>1. worker'[w].pc = "handler" /\ worker'[w].job = worker[w].job
      BY <1>0, <1>9 DEF Alarm, Task
    <2>2. \A v \in Workers : v # w => worker'[v] = worker[v]
      BY <1>0, <1>9 DEF Alarm
    <2> QED BY <1>9, <2>1, <2>2 DEF Alarm
  <1>10. ASSUME StrayAlarm(w) \/ TaskDbError(w) PROVE FALSE
    BY <1>10 DEF StrayAlarm, TaskDbError, NoOverwriting, OverwritingFaults
  <1> QED
    BY <1>1, <1>2, <1>3, <1>4, <1>5, <1>6, <1>7, <1>8, <1>9, <1>10 DEF TaskStep, TaskFault

(* A worker's step keeps the lifecycle invariant.                          *)
LEMMA WorkerKeepsLifeInv ==
    ASSUME TypeOK, HandsHoldJobs, NoOverwriting, LifeInv, WorkerNext, submit' = submit
    PROVE  LifeInv'
  <1> USE DEF LifeInv
  <1> SUFFICES ASSUME NEW w \in Workers, TaskStep(w) \/ TaskFault(w)
               PROVE  LifeInv'
    BY DEF WorkerNext
  <1>0. jobs = [j \in JobIds |-> jobs[j]] /\ \A j \in JobIds : jobs[j] \in Row
    BY DEF TypeOK, StoreTypeOK
  <1>1. NoSubmitterFails'
    BY DEF NoSubmitterFails
  <1>2. \A v \in Workers : v # w => worker'[v] = worker[v]
    BY WorkerStepKinds
  <1>h. \A v \in Workers : Owning(v) => worker[v].job \in JobIds
    BY DEF HandsHoldJobs, TaskHolds, Owning
  <1>3. CASE StaysOut(w)
    BY <1>1, <1>2, <1>3 DEF StaysOut, OwnedJobsRun, OneOwner, FailersSawRunning, Owning
  <1>4. CASE Releases(w)
    <2>1. \A v \in Workers : Owning(v)' =>
             v # w /\ Owning(v) /\ worker'[v] = worker[v] /\ worker[v].job # worker[w].job
      BY <1>2, <1>4 DEF Releases, OneOwner, Owning
    <2>2. OwnedJobsRun'
      BY <1>4, <1>h, <2>1 DEF Releases, OwnedJobsRun
    <2> QED BY <1>1, <1>2, <1>4, <2>1, <2>2 DEF Releases, OneOwner, FailersSawRunning, Owning
  <1>5. CASE KeepsOn(w)
    BY <1>1, <1>2, <1>5 DEF KeepsOn, OwnedJobsRun, OneOwner, FailersSawRunning, Owning
  <1>6. CASE TakesOver(w)
    <2>1. worker[w].job \in JobIds
      BY <1>6 DEF TakesOver, HandsHoldJobs, TaskHolds
    <2>2. /\ jobs[worker[w].job].status = QUEUED
          /\ jobs'[worker[w].job].status = RUNNING
          /\ \A i \in JobIds : i # worker[w].job => jobs'[i] = jobs[i]
      BY <1>0, <1>6, <2>1 DEF TakesOver, ClaimRow, Row
    <2>3. \A v \in Workers : Owning(v) => worker[v].job # worker[w].job
      BY <2>2 DEF TakesOver, OwnedJobsRun, QUEUED, RUNNING
    <2>4. \A v \in Workers : Owning(v)' /\ v # w => Owning(v) /\ worker'[v] = worker[v]
      BY <1>2 DEF TakesOver, Owning
    <2>5. OwnedJobsRun'
      BY <1>6, <1>h, <2>2, <2>3, <2>4 DEF TakesOver, OwnedJobsRun
    <2>6. OneOwner'
      BY <1>6, <2>3, <2>4 DEF TakesOver, OneOwner
    <2>7. FailersSawRunning'
      BY <1>2, <1>6 DEF TakesOver, FailersSawRunning
    <2> QED BY <1>1, <2>5, <2>6, <2>7
  <1> QED BY <1>3, <1>4, <1>5, <1>6, WorkerStepKinds

(* The reaper finds no owned job past the cutoff.                          *)
LEMMA ReaperSparesOwnedJobs ==
    ASSUME TypeOK, HandsHoldJobs, NoOverwriting, LifeInv, ReaperNext, submit' = submit
    PROVE  LifeInv'
  <1> USE DEF LifeInv
  <1>1. PICK S \in SUBSET JobIds : SweepStaleJobs(S)
    BY DEF ReaperNext
  <1>2. worker' = worker
    BY <1>1 DEF SweepStaleJobs
  <1>3. ASSUME NEW w \in Workers, Owning(w) PROVE jobs'[worker[w].job].status = RUNNING
    <2>1. worker[w].job \in JobIds
      BY <1>3 DEF HandsHoldJobs, TaskHolds, Owning
    <2>2. TaskAlive(worker[w].job)
      BY <1>3 DEF TaskAlive, Owning
    <2>3. worker[w].job \notin S
      BY <1>1, <2>2 DEF SweepStaleJobs, MayBeOverdue, NoOverwriting, OverwritingFaults
    <2> QED BY <1>1, <1>3, <2>1, <2>3 DEF SweepStaleJobs, SweepRows, OwnedJobsRun
  <1>4. OwnedJobsRun'
    BY <1>2, <1>3 DEF OwnedJobsRun, Owning
  <1> QED BY <1>2, <1>4 DEF OneOwner, FailersSawRunning, NoSubmitterFails, Owning

(* Every step keeps it.                                                    *)
LEMMA NextLifeInv ==
    ASSUME Inv, NoOverwriting, LifeInv, [Next]_vars
    PROVE  LifeInv'
  <1>0. TypeOK /\ HandsHoldJobs /\ NoSubmitterFails
    BY DEF Inv, LifeInv
  <1>1. ASSUME worker' = worker, NoSubmitterFails',
               \/ SubmitNext
               \/ CancelNext
               \/ ReadNext
               \/ RedisLoss
               \/ UNCHANGED vars
        PROVE  LifeInv'
    <2>1. \A i \in JobIds : jobs[i].status = RUNNING => jobs'[i].status = RUNNING
      BY <1>0, <1>1, ApiSparesRunningRows
    <2>2. \A w \in Workers : Owning(w) => worker[w].job \in JobIds
      BY <1>0 DEF HandsHoldJobs, TaskHolds, Owning
    <2>3. OwnedJobsRun'
      BY <1>1, <2>1, <2>2 DEF OwnedJobsRun, LifeInv, Owning
    <2> QED BY <1>1, <2>3 DEF LifeInv, OneOwner, FailersSawRunning, Owning
  <1>2. CASE SubmitNext /\ UNCHANGED <<cancel, read, worker>>
    BY <1>0, <1>1, <1>2, SubmittersDoNotFail
  <1>3. CASE \/ CancelNext /\ UNCHANGED <<submit, read, worker>>
             \/ ReadNext /\ UNCHANGED <<queue, submit, cancel, worker>>
             \/ RedisLoss
             \/ UNCHANGED vars
    <2>1. submit' = submit /\ worker' = worker
      BY <1>3 DEF RedisLoss, vars
    <2> QED BY <1>0, <1>1, <1>3, <2>1 DEF NoSubmitterFails
  <1>4. CASE WorkerNext /\ UNCHANGED <<submit, cancel, read>>
    BY <1>0, <1>4, WorkerKeepsLifeInv
  <1>5. CASE ReaperNext /\ UNCHANGED <<submit, cancel, read>>
    BY <1>0, <1>5, ReaperSparesOwnedJobs
  <1> QED BY <1>2, <1>3, <1>4, <1>5 DEF Next

-----------------------------------------------------------------------------
(* The refinement.                                                         *)

(* The initial states map to the initial state of the lifecycle.           *)
LEMMA InitRefines == ASSUME Init PROVE Lifecycle!LifeInit
  BY DEF Init, StoreInit, AbsentRow, Lifecycle!LifeInit

(* Each write of the store is a step of the lifecycle or a stutter.        *)
LEMMA WritesRefine ==
    ASSUME Inv, LifeInv, StoreStep
    PROVE  [Lifecycle!LifeNext]_(Lifecycle!lifeVars)
  <1> USE DEF QUEUED, RUNNING, SUCCEEDED, FAILED, CANCELLED
  <1>0. /\ jobs = [j \in JobIds |-> jobs[j]]
        /\ \A j \in JobIds : jobs[j] \in Row
    BY DEF Inv, TypeOK, StoreTypeOK
  <1>a. ASSUME NEW j \in JobIds, NEW from, NEW to,
               jobs[j].status = from, jobs'[j].status = to,
               \A i \in JobIds : i # j => jobs'[i].status = jobs[i].status
        PROVE  Lifecycle!Move(j, from, to)
    BY <1>a DEF Lifecycle!Move
  <1>b. ASSUME NEW S \in SUBSET JobIds, results' = results,
               \A j \in S : jobs[j].status \in {"queued", "running"} /\ jobs'[j].status = "failed",
               \A i \in JobIds : i \notin S => jobs'[i].status = jobs[i].status
        PROVE  Lifecycle!LifeNext
    <2>1. Lifecycle!Fail(S)
      BY <1>b DEF Lifecycle!Fail
    <2> QED BY <2>1 DEF Lifecycle!LifeNext
  <1>1. CASE Untouched
    BY <1>1 DEF Untouched, Lifecycle!lifeVars
  <1>2. CASE Inserts
    <2>1. PICK j \in JobIds : \E k, f : InsertRow(j, k, f)
      BY <1>2, InsertsWrite
    <2>2. Lifecycle!Submit(j)
      BY <1>0, <1>a, <1>2, <2>1, InsertsWrite DEF InsertRow, NewRow, Lifecycle!Submit
    <2> QED BY <2>2 DEF Lifecycle!LifeNext
  <1>3. CASE Claims
    <2>1. PICK j \in JobIds : ClaimRow(j)
      BY <1>3 DEF Claims
    <2>2. jobs'[j].status = RUNNING
      BY <1>0, <2>1 DEF ClaimRow, Row
    <2>3. Lifecycle!Start(j)
      BY <1>0, <1>a, <1>3, <2>1, <2>2 DEF Claims, ClaimRow, Lifecycle!Start
    <2> QED BY <2>3 DEF Lifecycle!LifeNext
  <1>4. CASE Cancels
    <2>1. PICK j \in JobIds : CancelRow(j)
      BY <1>4 DEF Cancels
    <2>2. jobs'[j].status = CANCELLED
      BY <1>0, <2>1 DEF CancelRow, Row
    <2>3. Lifecycle!Cancel(j)
      BY <1>0, <1>a, <1>4, <2>1, <2>2 DEF Cancels, CancelRow, Lifecycle!Cancel
    <2> QED BY <2>3 DEF Lifecycle!LifeNext
  <1>5. CASE Succeeds
    <2>1. PICK w \in Workers : /\ worker[w].pc = "save"
                               /\ MarkSucceeded(worker[w].job, worker[w].seen)
      BY <1>5 DEF Succeeds
    <2>2. PICK j \in JobIds : /\ j = worker[w].job /\ jobs[j].status = RUNNING
                              /\ worker[w].seen.status # SUCCEEDED
      BY <2>1 DEF Inv, WorkersConsistent, HandsHoldJobs, TaskHolds, LifeInv, OwnedJobsRun, Owning
    <2>3. jobs'[j].status = SUCCEEDED
      BY <1>0, <2>1, <2>2 DEF MarkSucceeded, OrmUpdate, Row
    <2>4. \A i \in JobIds : i # j => jobs'[i].status = jobs[i].status
      BY <1>0, <2>1, <2>2 DEF MarkSucceeded
    <2>5. Lifecycle!Move(j, RUNNING, SUCCEEDED)
      BY <1>a, <2>2, <2>3, <2>4
    <2>6. Lifecycle!Succeed(j)
      BY <2>1, <2>2, <2>5 DEF MarkSucceeded, Lifecycle!Succeed
    <2> QED BY <2>6 DEF Lifecycle!LifeNext
  <1>6. CASE Fails
    <2>1. PICK w \in Workers : /\ worker[w].pc = "fail"
                               /\ MarkFailed(worker[w].job, worker[w].seen, "worker")
      BY <1>6 DEF Fails, LifeInv, NoSubmitterFails
    <2>2. PICK j \in JobIds : /\ j = worker[w].job /\ jobs[j].status = RUNNING
                              /\ worker[w].seen.status = RUNNING
      BY <2>1 DEF Inv, HandsHoldJobs, TaskHolds, LifeInv, OwnedJobsRun, FailersSawRunning, Owning
    <2>3. jobs'[j].status = FAILED
      BY <1>0, <2>1, <2>2 DEF MarkFailed, OrmUpdate, Row
    <2>4. \A i \in JobIds : i \notin {j} => jobs'[i].status = jobs[i].status
      BY <1>0, <2>1, <2>2 DEF MarkFailed
    <2>5. Lifecycle!LifeNext
      BY <1>b, <1>6, <2>2, <2>3, <2>4 DEF Fails
    <2> QED BY <2>5
  <1>7. CASE Sweeps
    <2>1. PICK S : SweepRows(S)
      BY <1>7 DEF Sweeps
    <2> DEFINE Swept == {j \in JobIds : j \in S /\ jobs[j].status = RUNNING /\ jobs[j].started}
    <2>2. \A j \in Swept : jobs[j].status = RUNNING /\ jobs'[j].status = FAILED
      BY <1>0, <2>1 DEF SweepRows, Row
    <2>3. \A i \in JobIds : i \notin Swept => jobs'[i].status = jobs[i].status
      BY <2>1 DEF SweepRows
    <2> QED BY <1>b, <1>7, <2>2, <2>3 DEF Sweeps
  <1> QED BY <1>1, <1>2, <1>3, <1>4, <1>5, <1>6, <1>7 DEF StoreStep

(* Without an overwriting fault the service implements the lifecycle: one  *)
(* life per job, terminal statuses final, results published by the step    *)
(* that makes the job succeeded.                                           *)
THEOREM Refinement ==
    ASSUME NoOverwriting
    PROVE  Spec => ImplementsLifecycle
  <1>1. Init => LifeInv /\ Lifecycle!LifeInit
    BY InitLifeInv, InitRefines
  <1>2. Inv /\ LifeInv /\ [Next]_vars => LifeInv'
    BY NextLifeInv
  <1>3. Inv /\ LifeInv /\ [Next]_vars => [Lifecycle!LifeNext]_(Lifecycle!lifeVars)
    BY StepsWriteTheStore, WritesRefine DEF Inv
  <1> QED BY <1>1, <1>2, <1>3, Invariance, PTL DEF Spec, ImplementsLifecycle, Lifecycle!LifeSpec

-----------------------------------------------------------------------------
(* The end of a job, as a client reads it.                                 *)

OutcomeOf(j) ==
    /\ j \in results <=> jobs[j].status = SUCCEEDED
    /\ jobs[j].status = SUCCEEDED => jobs[j].error = "none"

(* Each write keeps status, results and error message of a row in step.    *)
LEMMA WritesKeepOutcomes ==
    ASSUME Inv, LifeInv, StoreStep, \A j \in JobIds : OutcomeOf(j)
    PROVE  \A j \in JobIds : OutcomeOf(j)'
  <1> USE DEF QUEUED, RUNNING, SUCCEEDED, FAILED, CANCELLED, OutcomeOf
  <1>0. /\ jobs = [j \in JobIds |-> jobs[j]]
        /\ \A j \in JobIds : jobs[j] \in Row
    BY DEF Inv, TypeOK, StoreTypeOK
  <1> SUFFICES ASSUME NEW i \in JobIds PROVE OutcomeOf(i)'
    OBVIOUS
  <1>1. CASE jobs'[i] = jobs[i] /\ results' = results
    BY <1>1
  <1>2. CASE Inserts
    <2>0. PICK j \in JobIds : \E k, f : InsertRow(j, k, f)
      BY <1>2, InsertsWrite
    <2>1. PICK k, f : InsertRow(j, k, f)
      BY <2>0
    <2>2. CASE i = j
      BY <1>0, <1>2, <2>1, <2>2, InsertsWrite DEF InsertRow, NewRow
    <2>3. CASE i # j
      BY <1>0, <1>2, <2>1, <2>3, InsertsWrite DEF InsertRow
    <2> QED BY <2>2, <2>3
  <1>6. CASE Claims
    <2>1. PICK j \in JobIds : ClaimRow(j)
      BY <1>6 DEF Claims
    <2>2. i = j => jobs[i].status = QUEUED /\ jobs'[i].status = RUNNING
      BY <1>0, <2>1 DEF ClaimRow, Row
    <2>3. i # j => jobs'[i] = jobs[i]
      BY <1>0, <2>1 DEF ClaimRow
    <2> QED BY <1>6, <2>2, <2>3 DEF Claims
  <1>7. CASE Cancels
    <2>1. PICK j \in JobIds : CancelRow(j)
      BY <1>7 DEF Cancels
    <2>2. i = j => jobs[i].status = QUEUED /\ jobs'[i].status = CANCELLED
      BY <1>0, <2>1 DEF CancelRow, Row
    <2>3. i # j => jobs'[i] = jobs[i]
      BY <1>0, <2>1 DEF CancelRow
    <2> QED BY <1>7, <2>2, <2>3 DEF Cancels
  <1>3. CASE Succeeds
    <2>1. PICK w \in Workers : /\ worker[w].pc = "save"
                               /\ MarkSucceeded(worker[w].job, worker[w].seen)
      BY <1>3 DEF Succeeds
    <2>2. PICK j \in JobIds : /\ j = worker[w].job /\ jobs[j].status = RUNNING
                              /\ worker[w].seen.status # SUCCEEDED
      BY <2>1 DEF Inv, WorkersConsistent, HandsHoldJobs, TaskHolds, LifeInv, OwnedJobsRun, Owning
    <2>3. jobs[j].error = "none"
      BY <2>2 DEF Inv, RowsConsistent
    <2>4. jobs'[j].status = SUCCEEDED /\ jobs'[j].error = "none" /\ results' = results \cup {j}
      BY <1>0, <2>1, <2>2, <2>3 DEF MarkSucceeded, OrmUpdate, Row
    <2>5. i # j => jobs'[i] = jobs[i]
      BY <1>0, <2>1, <2>2 DEF MarkSucceeded
    <2> QED BY <2>4, <2>5
  <1>4. CASE Fails
    <2>1. PICK w \in Workers : /\ worker[w].pc = "fail"
                               /\ MarkFailed(worker[w].job, worker[w].seen, "worker")
      BY <1>4 DEF Fails, LifeInv, NoSubmitterFails
    <2>2. PICK j \in JobIds : /\ j = worker[w].job /\ jobs[j].status = RUNNING
                              /\ worker[w].seen.status = RUNNING
      BY <2>1 DEF Inv, HandsHoldJobs, TaskHolds, LifeInv, OwnedJobsRun, FailersSawRunning, Owning
    <2>3. jobs'[j].status = FAILED
      BY <1>0, <2>1, <2>2 DEF MarkFailed, OrmUpdate, Row
    <2>4. i # j => jobs'[i] = jobs[i]
      BY <1>0, <2>1, <2>2 DEF MarkFailed
    <2> QED BY <1>4, <2>2, <2>3, <2>4 DEF Fails
  <1>5. CASE Sweeps
    <2>1. PICK S : SweepRows(S)
      BY <1>5 DEF Sweeps
    <2>2. jobs'[i] # jobs[i] => jobs[i].status = RUNNING /\ jobs'[i].status = FAILED
      BY <1>0, <2>1 DEF SweepRows, Row
    <2> QED BY <1>1, <1>5, <2>2 DEF Sweeps
  <1> QED BY <1>1, <1>2, <1>3, <1>4, <1>5, <1>6, <1>7 DEF StoreStep, Untouched

(* Without an overwriting fault exactly the succeeded jobs have results,   *)
(* and none of them carries an error message.                              *)
THEOREM OutcomesAgree == Spec => []OutcomeConsistent
  <1>1. CASE NoOverwriting
    <2> DEFINE Outcomes == \A j \in JobIds : OutcomeOf(j)
    <2>1. Init => LifeInv /\ Outcomes
      BY InitLifeInv DEF Init, StoreInit, AbsentRow, OutcomeOf, SUCCEEDED
    <2>2. Inv /\ LifeInv /\ Outcomes /\ [Next]_vars => LifeInv' /\ Outcomes'
      BY <1>1, NextLifeInv, StepsWriteTheStore, WritesKeepOutcomes DEF Inv
    <2>3. Outcomes => OutcomeConsistent
      BY DEF OutcomeOf, OutcomeConsistent
    <2> HIDE DEF Outcomes
    <2> QED BY <2>1, <2>2, <2>3, Invariance, PTL DEF Spec
  <1>2. CASE ~NoOverwriting
    <2>1. OutcomeConsistent
      BY <1>2 DEF NoOverwriting, OutcomeConsistent
    <2> QED BY <2>1, PTL
  <1> QED BY <1>1, <1>2
=============================================================================
