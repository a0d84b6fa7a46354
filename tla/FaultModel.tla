----------------------------- MODULE FaultModel -----------------------------
(***************************************************************************)
(* What may go wrong around the benchmark service.  The fault actions of   *)
(* the component modules are guarded by membership in Faults, so that one  *)
(* specification is checked in many environments and each property is      *)
(* stated together with the environment it needs.                          *)
(***************************************************************************)

CONSTANT Faults

(* Redis, as the API uses it.                                              *)
RedisFaults ==
    { "enqueue_error",        \* the push fails, nothing reaches the list
      "enqueue_reply_lost",   \* the push happens, the API sees an exception
      "duplicate_push",       \* the client library sends the push twice
      "redis_loss",           \* Redis restarts without its data
      "cancel_error" }        \* queue.cancel raises (Redis unreachable)

(* The API process and its database connection.                            *)
ApiFaults ==
    { "api_crash",            \* the process dies inside a handler
      "api_db_error" }        \* a statement or a commit raises

(* The worker process.                                                     *)
WorkerFaults ==
    { "import_error",         \* benchmark.engine cannot be imported
      "engine_error",         \* run_benchmark raises
      "alarm",                \* RQ's job timeout interrupts a claimed job
      "stray_alarm",          \* ... or lands outside the claimed section
      "worker_db_error",      \* a statement or a commit raises
      "kill_unclaimed",       \* SIGKILL/OOM between dequeue and claim
      "kill_claimed",         \* SIGKILL/OOM once the job is claimed
      "overrun" }             \* the job outlives timeout + grace, still alive

FaultKinds == RedisFaults \cup ApiFaults \cup WorkerFaults

(* Faults after which a QUEUED row may have nothing left that would ever   *)
(* pick it up.                                                             *)
StrandingFaults ==
    { "redis_loss", "api_crash", "api_db_error", "import_error",
      "stray_alarm", "worker_db_error", "kill_unclaimed" }

(* Faults after which a handler may write over a row that has already      *)
(* reached a terminal status.                                              *)
OverwritingFaults ==
    { "enqueue_error", "enqueue_reply_lost", "stray_alarm",
      "worker_db_error", "overrun" }

ASSUME FaultsAssumption == Faults \subseteq FaultKinds
=============================================================================
