--------------------------- MODULE ResultsReader ----------------------------
(***************************************************************************)
(* GET /v1/jobs/{id}/results: get_job_results reads the job row and then,  *)
(* in a second statement with its own snapshot, the result rows            *)
(* (selectinload under READ COMMITTED).                                    *)
(***************************************************************************)
EXTENDS JobStore

CONSTANT Readers

VARIABLE read

ReadReplies == {"not_found", "not_ready", "complete", "incomplete"}

Read ==
    [ pc    : {"idle", "job", "results", "replied"},
      job   : JobIds \cup {NoJob},
      reply : ReadReplies \cup {"none"},
      seen  : JobStatus \cup {"none"} ]     \* the status the first statement read

IdleRead == [pc |-> "idle", job |-> NoJob, reply |-> "none", seen |-> "none"]

ReadTypeOK == read \in [Readers -> Read]
ReadInit   == read = [r \in Readers |-> IdleRead]

ReadReply(r, a) == read' = [read EXCEPT ![r].pc = "replied", ![r].reply = a]

ReceiveRead(r, j) ==
    /\ read[r].pc = "idle"
    /\ read' = [read EXCEPT ![r].pc = "job", ![r].job = j]
    /\ UNCHANGED <<jobs, results>>

(* A slip: no 404 for an unknown id.                                       *)
SelectJobUnchecked(r) ==
    /\ read[r].pc = "job"
    /\ read' = [read EXCEPT ![r].pc = "results", ![r].seen = jobs[read[r].job].status]
    /\ UNCHANGED <<jobs, results>>

SelectJob(r) ==
    /\ read[r].pc = "job"
    /\ \/ /\ ~Exists(read[r].job)
          /\ ReadReply(r, "not_found")
       \/ /\ Exists(read[r].job)
          /\ read' = [read EXCEPT ![r].pc = "results",
                                  ![r].seen = jobs[read[r].job].status]
    /\ UNCHANGED <<jobs, results>>

(* The rows are loaded for every job found; the status decides the reply.  *)
SelectResults(r) ==
    /\ read[r].pc = "results"
    /\ \/ read[r].seen # SUCCEEDED /\ ReadReply(r, "not_ready")
       \/ /\ read[r].seen = SUCCEEDED
          /\ ReadReply(r, IF read[r].job \in results THEN "complete" ELSE "incomplete")
    /\ UNCHANGED <<jobs, results>>

ReturnRead(r) ==
    /\ read[r].pc = "replied"
    /\ read' = [read EXCEPT ![r] = IdleRead]
    /\ UNCHANGED <<jobs, results>>

ReadNext ==
    \E r \in Readers :
        \/ \E j \in JobIds : ReceiveRead(r, j)
        \/ SelectJob(r)
        \/ SelectResults(r)
        \/ ReturnRead(r)
=============================================================================
