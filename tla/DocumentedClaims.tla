-------------------------- MODULE DocumentedClaims --------------------------
(***************************************************************************)
(* What the repository's own documents and tests say of the service where  *)
(* the code does something else.  Each is checked alone, with the smallest *)
(* fault set that shows the disagreement.                                  *)
(***************************************************************************)
EXTENDS MCJobService

EnqueueErrorOnly == {"enqueue_error"}
ImportErrorOnly  == {"import_error"}

(* "Terminal states are succeeded/failed/cancelled" (models.py, and the    *)
(* lifecycle diagram, where nothing leaves them).  But create_job's        *)
(* mark_failed writes over a row that was cancelled in the meantime.       *)
TerminalIsFinal ==
    [][\A j \in JobIds : jobs[j].status \in TERMINAL_STATUSES =>
          jobs'[j].status = jobs[j].status]_vars

(* The deferred import "turns an engine import error into a failed job"    *)
(* (tasks.py).  But it stands before the try.                              *)
ImportErrorFailsTheJob ==
    \A j \in JobIds : Exists(j) ~> jobs[j].status \in TERMINAL_STATUSES
=============================================================================
