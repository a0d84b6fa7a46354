--------------------------- MODULE ConnectionPool ---------------------------
(***************************************************************************)
(* The database connections of one worker process: the module-level engine *)
(* of database.py keeps one pool, which the start-up sweep, the reaper     *)
(* thread and the task use.  RQ's Worker forks a work-horse for each job,  *)
(* and the child inherits a copy of the pool with the idle connections in  *)
(* it: the same sockets, the same server sessions.                         *)
(***************************************************************************)
EXTENDS Naturals

CONSTANTS
    Forks,          \* resolve_worker_class chose RQ's forking Worker
    Connections     \* the server sessions this process may ever open

NoConnection == 0

VARIABLES
    phase,          \* of worker.main: "startup" or "working"
    opened,         \* the connections the engine has opened
    pool,           \* the idle connections of the worker process
    childPool,      \* ... of the work-horse
    sweep,          \* the connection in a sweep's session
    task            \* the task: its step, the connection in its session

poolVars == <<phase, opened, pool, childPool, sweep, task>>

NoTask == [pc |-> "none", conn |-> NoConnection]

PoolInit ==
    /\ phase = "startup"
    /\ opened = {} /\ pool = {} /\ childPool = {}
    /\ sweep = NoConnection
    /\ task = NoTask

(* QueuePool: an idle connection, a new one only when there is none.       *)
Available(idle) == IF idle # {} THEN idle ELSE Connections \ opened

(* session_scope, entered by the start-up sweep or by the thread's turn.   *)
BeginSweep ==
    /\ sweep = NoConnection
    /\ \E c \in Available(pool) :
          /\ sweep' = c
          /\ opened' = opened \cup {c}
          /\ pool' = pool \ {c}
    /\ UNCHANGED <<phase, childPool, task>>

(* The commit and the close give the connection back; after the start-up   *)
(* sweep main starts the thread and the worker.                            *)
EndSweep ==
    /\ sweep # NoConnection
    /\ pool' = pool \cup {sweep}
    /\ sweep' = NoConnection
    /\ phase' = "working"
    /\ UNCHANGED <<opened, childPool, task>>

(* A job is dequeued.  Whatever is idle at the fork is idle on both sides. *)
StartTask ==
    /\ phase = "working" /\ task.pc = "none"
    /\ task' = [task EXCEPT !.pc = "claim"]
    /\ childPool' = IF Forks THEN pool ELSE {}
    /\ UNCHANGED <<phase, opened, pool, sweep>>

(* The pool of the process the task runs in.                               *)
TaskPool == IF Forks THEN childPool ELSE pool

SetTaskPool(idle) ==
    IF Forks THEN childPool' = idle /\ UNCHANGED pool
             ELSE pool' = idle /\ UNCHANGED childPool

(* The session's first statement of a transaction: mark_running's UPDATE,  *)
(* and after its commit the session.get that returns the claimed job.      *)
TaskStatement(from, to) ==
    /\ task.pc = from
    /\ \E c \in Available(TaskPool) :
          /\ task' = [pc |-> to, conn |-> c]
          /\ opened' = opened \cup {c}
          /\ SetTaskPool(TaskPool \ {c})
    /\ UNCHANGED <<phase, sweep>>

TaskCommit(from, to) ==
    /\ task.pc = from
    /\ SetTaskPool(TaskPool \cup {task.conn})
    /\ task' = [pc |-> to, conn |-> NoConnection]
    /\ UNCHANGED <<phase, opened, sweep>>

ClaimJob   == TaskStatement("claim", "claiming")
Claimed    == TaskCommit("claiming", "get")
(* The transaction of this read stays open while the benchmark runs.       *)
LoadJob    == TaskStatement("get", "running")
FinishJob  == TaskCommit("running", "done")

(* The task returns: the session is closed, the work-horse exits.  A task  *)
(* that lost the claim returns at once.                                    *)
EndTask ==
    /\ task.pc \in {"get", "done"}
    /\ task' = NoTask
    /\ childPool' = {}
    /\ UNCHANGED <<phase, opened, pool, sweep>>

PoolNext ==
    \/ BeginSweep \/ EndSweep
    \/ StartTask \/ ClaimJob \/ Claimed \/ LoadJob \/ FinishJob \/ EndTask

PoolSpec == PoolInit /\ [][PoolNext]_poolVars

-----------------------------------------------------------------------------
(* session_scope is a "transactional session for code outside a request    *)
(* (the worker, the reaper)" (database.py), and a forked benchmark "gets a *)
(* fresh process" (main.py).  But nothing disposes of the pool in the      *)
(* child: a sweep and a task can be on one server session, where the       *)
(* commit of either ends the transaction of both.                          *)
TransactionsAreSeparate ==
    sweep # NoConnection => task.conn # sweep
=============================================================================
