----------------------------- MODULE PoolProofs -----------------------------
(***************************************************************************)
(* The connections of a worker that does not fork: whatever the number of  *)
(* connections, no transaction of the task is one of a sweep.  That it may *)
(* be one when the worker forks is what the run SharedConnection shows.    *)
(***************************************************************************)
EXTENDS ConnectionPool, TLAPS

(* The connections in use.                                                 *)
InSweep == sweep # NoConnection
InTask  == task.conn # NoConnection

(* One process: a connection is idle, or in one session, and was opened.   *)
PoolOK ==
    /\ NoConnection \notin opened /\ pool \subseteq opened
    /\ InSweep => sweep \in opened /\ sweep \notin pool
    /\ InTask => task.conn \in opened /\ task.conn \notin pool /\ task.conn # sweep
    /\ task.pc \in {"none", "claim", "get", "done"} => ~InTask
    /\ task.pc \in {"claiming", "running"} => InTask
    /\ task = [pc |-> task.pc, conn |-> task.conn]

(* In-process, the sweeps and the task are never on one connection: each   *)
(* takes what is idle, or what was never opened, and gives back its own.   *)
THEOREM InProcessTransactionsAreSeparate ==
    ASSUME ~Forks, NoConnection \notin Connections
    PROVE  PoolSpec => []TransactionsAreSeparate
  <1>1. PoolInit => PoolOK
    BY DEF PoolInit, PoolOK, InSweep, InTask, NoTask
  <1>2. PoolOK /\ [PoolNext]_poolVars => PoolOK'
    <2> SUFFICES ASSUME PoolOK, [PoolNext]_poolVars PROVE PoolOK'
      OBVIOUS
    <2>1. CASE BeginSweep
      BY <2>1 DEF BeginSweep, Available, PoolOK, InSweep, InTask
    <2>2. CASE EndSweep
      BY <2>2 DEF EndSweep, PoolOK, InSweep, InTask
    <2>3. CASE StartTask
      <3>1. task' = [pc |-> "claim", conn |-> task.conn] /\ UNCHANGED <<opened, pool, sweep>> /\ ~InTask
        BY <2>3 DEF StartTask, PoolOK
      <3> QED BY <3>1 DEF PoolOK, InSweep, InTask
    <2>4. ASSUME NEW from, NEW to \in {"claiming", "running"}, TaskStatement(from, to) PROVE PoolOK'
      BY <2>4 DEF TaskStatement, Available, TaskPool, SetTaskPool, PoolOK, InSweep, InTask
    <2>5. ASSUME NEW from \in {"claiming", "running"}, NEW to \in {"get", "done"},
                 TaskCommit(from, to)
          PROVE  PoolOK'
      BY <2>5 DEF TaskCommit, TaskPool, SetTaskPool, PoolOK, InSweep, InTask
    <2>6. CASE EndTask
      BY <2>6 DEF EndTask, PoolOK, InSweep, InTask, NoTask
    <2>7. CASE UNCHANGED poolVars
      BY <2>7 DEF poolVars, PoolOK, InSweep, InTask
    <2> QED BY <2>1, <2>2, <2>3, <2>4, <2>5, <2>6, <2>7
          DEF PoolNext, ClaimJob, Claimed, LoadJob, FinishJob
  <1>3. PoolOK => TransactionsAreSeparate
    BY DEF PoolOK, InSweep, InTask, TransactionsAreSeparate
  <1> QED BY <1>1, <1>2, <1>3, PTL DEF PoolSpec
=============================================================================
