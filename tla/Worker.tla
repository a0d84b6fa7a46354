------------------------------- MODULE Worker -------------------------------
(***************************************************************************)
(* run_benchmark_job, as an RQ worker runs it.  A worker executes one job  *)
(* at a time; its pc names the next call of the task, so the API, the      *)
(* other workers and the reaper may run between two calls.                 *)
(*                                                                         *)
(*   import   the engine import, before the try                            *)
(*   claim    mark_running: the conditional UPDATE                         *)
(*   load     mark_running: session.get of the claimed row                 *)
(*   run      run_benchmark                                                *)
(*   save     mark_succeeded                                               *)
(*   saved    committed, not yet returned: still inside the try            *)
(*   handler  except Exception: rollback, session.get                      *)
(*   fail     except Exception: mark_failed                                *)
(***************************************************************************)
EXTENDS FaultModel, JobStore, Broker

CONSTANT Workers

VARIABLE worker

NoCache == [status |-> "none", error |-> "none"]

Task ==
    [ pc    : {"idle", "import", "claim", "load", "run", "save", "saved",
               "handler", "fail"},
      job   : JobIds \cup {NoJob},
      seen  : [status : JobStatus \cup {"none"}, error : ErrorSources],
      armed : BOOLEAN ]             \* RQ's alarm for this job is still to fire

IdleTask == [pc |-> "idle", job |-> NoJob, seen |-> NoCache, armed |-> FALSE]

WorkerTypeOK == worker \in [Workers -> Task]
WorkerInit   == worker = [w \in Workers |-> IdleTask]

(* Inside the try, with the row claimed by this worker.                    *)
Executing(w) == worker[w].pc \in {"load", "run", "save", "saved"}
(* In the worker's hands but not claimed yet.                              *)
Unclaimed(w) == worker[w].pc \in {"import", "claim"}

TaskGoto(w, pc) == worker' = [worker EXCEPT ![w].pc = pc]
(* session.get: the row as the ORM object of this session will remember it.*)
TaskLoad(w, pc) ==
    worker' = [worker EXCEPT ![w] =
                 [@ EXCEPT !.pc = pc, !.seen = CacheOf(jobs[worker[w].job])]]
TaskEnd(w)      == worker' = [worker EXCEPT ![w] = IdleTask]

(* RQ pops the entry and arms the job timeout; the entry is gone.          *)
Dequeue(w, j) ==
    /\ worker[w].pc = "idle"
    /\ Pop(j)
    /\ worker' = [worker EXCEPT ![w] = [pc |-> "import", job |-> j,
                                        seen |-> NoCache, armed |-> TRUE]]
    /\ UNCHANGED <<jobs, results>>

ImportEngine(w) ==
    /\ worker[w].pc = "import"
    /\ TaskGoto(w, "claim")
    /\ UNCHANGED <<jobs, results, queue>>

(* mark_running: UPDATE ... WHERE status = queued, committed.              *)
ClaimJob(w) ==
    /\ worker[w].pc = "claim"
    /\ ClaimRow(worker[w].job)
    /\ TaskGoto(w, "load")
    /\ UNCHANGED <<results, queue>>

SkipJob(w) ==
    /\ worker[w].pc = "claim"
    /\ jobs[worker[w].job].status # QUEUED
    /\ TaskEnd(w)
    /\ UNCHANGED <<jobs, results, queue>>

(* mark_running: session.get, in a transaction of its own.                 *)
LoadJob(w) ==
    /\ worker[w].pc = "load"
    /\ TaskLoad(w, "run")
    /\ UNCHANGED <<jobs, results, queue>>

RunBenchmark(w) ==
    /\ worker[w].pc = "run"
    /\ TaskGoto(w, "save")
    /\ UNCHANGED <<jobs, results, queue>>

(* A slip: status and results committed in two transactions.               *)
SaveStatusFirst(w) ==
    /\ worker[w].pc = "save"
    /\ \/ /\ jobs[worker[w].job].status # SUCCEEDED
          /\ jobs' = [jobs EXCEPT ![worker[w].job] =
                         OrmUpdate(@, worker[w].seen, SUCCEEDED, "none")]
          /\ UNCHANGED <<results, worker>>
       \/ /\ jobs[worker[w].job].status = SUCCEEDED
          /\ results' = results \cup {worker[w].job}
          /\ TaskGoto(w, "saved")
          /\ UNCHANGED jobs
    /\ UNCHANGED queue

SaveResults(w) ==
    /\ worker[w].pc = "save"
    /\ MarkSucceeded(worker[w].job, worker[w].seen)
    /\ TaskGoto(w, "saved")
    /\ UNCHANGED queue

FinishTask(w) ==
    /\ worker[w].pc = "saved"
    /\ TaskEnd(w)
    /\ UNCHANGED <<jobs, results, queue>>

(* rollback expires the cached object, so session.get reads the row again. *)
(* (Rows are never deleted: the None case of the handler cannot occur.)    *)
ReloadJob(w) ==
    /\ worker[w].pc = "handler"
    /\ TaskLoad(w, "fail")
    /\ UNCHANGED <<jobs, results, queue>>

FailJob(w) ==
    /\ worker[w].pc = "fail"
    /\ MarkFailed(worker[w].job, worker[w].seen, "worker")
    /\ TaskEnd(w)
    /\ UNCHANGED <<results, queue>>

-----------------------------------------------------------------------------
(* The import is outside the try: the exception leaves the task, RQ files  *)
(* the entry under its failed jobs, and the row is not touched.            *)
ImportFails(w) ==
    /\ "import_error" \in Faults
    /\ worker[w].pc = "import"
    /\ TaskEnd(w)
    /\ UNCHANGED <<jobs, results, queue>>

EngineRaises(w) ==
    /\ "engine_error" \in Faults
    /\ worker[w].pc = "run"
    /\ TaskGoto(w, "handler")
    /\ UNCHANGED <<jobs, results, queue>>

(* JobTimeoutException is raised wherever the task is, once per job.       *)
Alarm(w) ==
    /\ "alarm" \in Faults
    /\ worker[w].armed
    /\ worker[w].pc \in {"load", "run", "save"}
    /\ worker' = [worker EXCEPT ![w].pc = "handler", ![w].armed = FALSE]
    /\ UNCHANGED <<jobs, results, queue>>

(* Before the claim the handler takes over a job that is not this task's.  *)
(* After mark_succeeded no transaction is open: rollback expires nothing   *)
(* and session.get answers from the identity map.  Before the try or       *)
(* inside the handler nothing catches the exception.                       *)
StrayAlarm(w) ==
    /\ "stray_alarm" \in Faults
    /\ worker[w].armed
    /\ \/ /\ worker[w].pc = "claim"
          /\ worker' = [worker EXCEPT ![w].pc = "handler", ![w].armed = FALSE]
       \/ /\ worker[w].pc = "saved"
          /\ worker' = [worker EXCEPT ![w] =
                          [@ EXCEPT !.pc = "fail", !.armed = FALSE,
                                    !.seen = [status |-> SUCCEEDED, error |-> "none"]]]
       \/ /\ worker[w].pc \in {"import", "handler", "fail"}
          /\ TaskEnd(w)
    /\ UNCHANGED <<jobs, results, queue>>

(* A database call raises; a commit may have taken effect all the same.    *)
(* Inside the try the handler takes over, inside the handler nothing does. *)
TaskDbError(w) ==
    /\ "worker_db_error" \in Faults
    /\ \/ /\ worker[w].pc \in {"claim", "load", "save"}
          /\ TaskGoto(w, "handler")
          /\ UNCHANGED <<jobs, results>>
       \/ /\ worker[w].pc = "claim"
          /\ ClaimRow(worker[w].job)
          /\ TaskGoto(w, "handler")
          /\ UNCHANGED results
       \/ /\ worker[w].pc = "save"
          /\ MarkSucceeded(worker[w].job, worker[w].seen)
          /\ TaskGoto(w, "handler")
       \/ /\ worker[w].pc \in {"handler", "fail"}
          /\ TaskEnd(w)
          /\ UNCHANGED <<jobs, results>>
    /\ UNCHANGED queue

Kill(w) ==
    /\ \/ "kill_unclaimed" \in Faults /\ Unclaimed(w)
       \/ /\ "kill_claimed" \in Faults
          /\ worker[w].pc \in {"load", "run", "save", "saved", "handler", "fail"}
    /\ TaskEnd(w)
    /\ UNCHANGED <<jobs, results, queue>>

(* The calls of the task in the absence of faults.                         *)
TaskStep(w) ==
    \/ \E j \in JobIds : Dequeue(w, j)
    \/ ImportEngine(w)
    \/ ClaimJob(w)
    \/ SkipJob(w)
    \/ LoadJob(w)
    \/ RunBenchmark(w)
    \/ SaveResults(w)
    \/ FinishTask(w)
    \/ ReloadJob(w)
    \/ FailJob(w)

TaskFault(w) ==
    \/ ImportFails(w)
    \/ EngineRaises(w)
    \/ Alarm(w)
    \/ StrayAlarm(w)
    \/ TaskDbError(w)
    \/ Kill(w)

WorkerNext == \E w \in Workers : TaskStep(w) \/ TaskFault(w)
=============================================================================
