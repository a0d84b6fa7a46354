-------------------------- MODULE SubmissionProofs --------------------------
(***************************************************************************)
(* What POST /v1/jobs promises, for every number of handlers, every limit  *)
(* and every set of faults: a bounded backlog, one job per key, and that   *)
(* no accepted job is forgotten (the last one without stranding faults).   *)
(***************************************************************************)
EXTENDS JobServiceProofs, FiniteSetTheorems

-----------------------------------------------------------------------------
(* The backlog.                                                            *)

(* The handlers that were admitted and have not inserted yet.              *)
Inserting == {s \in Submitters : submit[s].pc = "insert"}

(* Each of them may still add one active row: this is what a step keeps.   *)
Backlog == Cardinality(Active) + Cardinality(Inserting)
LimitInv == Backlog <= MaxActive - 1 + Cardinality(Submitters)

(* Sets of jobs and sets of handlers can be counted and compared.          *)
LEMMA Counting ==
    /\ \A S \in SUBSET JobIds : IsFiniteSet(S) /\ Cardinality(S) \in Nat
    /\ \A S \in SUBSET JobIds : \A T \in SUBSET S : Cardinality(T) <= Cardinality(S)
    /\ \A S \in SUBSET Submitters : IsFiniteSet(S) /\ Cardinality(S) \in Nat
    /\ \A S \in SUBSET Submitters : \A T \in SUBSET S : Cardinality(T) <= Cardinality(S)
  BY SubmissionAssumption, FS_Subset, FS_CardinalityType

(* Only an INSERT makes a row exist.                                       *)
LEMMA OnlyInsertsCreate ==
    ASSUME Inv, StoreStep, ~Inserts, NEW i \in JobIds, ~Exists(i)
    PROVE  ~Exists(i)'
  <1> USE DEF QUEUED, RUNNING, SUCCEEDED, FAILED, CANCELLED, Exists
  <1>0. jobs = [j \in JobIds |-> jobs[j]]
    BY DEF Inv, TypeOK, StoreTypeOK
  <1>1. CASE Untouched
    BY <1>1 DEF Untouched
  <1>2. CASE Claims \/ Cancels
    BY <1>0, <1>2 DEF Claims, Cancels, ClaimRow, CancelRow
  <1>3. CASE Succeeds \/ Fails
    <2>1. PICK j \in JobIds : Exists(j) /\ \E row : jobs' = [jobs EXCEPT ![j] = row]
      BY <1>3 DEF Succeeds, Fails, MarkSucceeded, MarkFailed, Inv, HandsHoldJobs, TaskHolds,
                  SubmitHolds
    <2> QED BY <1>0, <2>1
  <1>4. CASE Sweeps
    BY <1>0, <1>4 DEF Sweeps, SweepRows
  <1> QED BY <1>1, <1>2, <1>3, <1>4 DEF StoreStep

(* No other step adds an active row: none comes back from a terminal       *)
(* status.                                                                 *)
LEMMA OnlyInsertsActivate ==
    ASSUME Inv, [Next]_vars, ~Inserts
    PROVE  Active' \subseteq Active
  <1> USE DEF QUEUED, RUNNING, SUCCEEDED, FAILED, CANCELLED
  <1> SUFFICES ASSUME NEW i \in JobIds, jobs'[i].status \in ACTIVE_STATUSES
               PROVE  jobs[i].status \in ACTIVE_STATUSES
    BY DEF Active
  <1>1. jobs[i].status # "absent"
    BY StepsWriteTheStore, OnlyInsertsCreate DEF Inv, Exists, ACTIVE_STATUSES
  <1>2. CASE jobs[i].status = jobs'[i].status
    BY <1>2
  <1>3. CASE jobs[i].status # jobs'[i].status
    BY <1>1, <1>3, StepMoves DEF StatusMoves, ACTIVE_STATUSES
  <1> QED BY <1>2, <1>3

(* An INSERT turns one admitted handler into one active row.               *)
LEMMA InsertsTrade ==
    ASSUME Inv, Inserts
    PROVE  \E s \in Submitters, j \in JobIds :
              /\ s \in Inserting /\ Inserting' = Inserting \ {s}
              /\ j \notin Active /\ Active' = Active \cup {j}
  <1> USE DEF QUEUED, RUNNING, SUCCEEDED, FAILED, CANCELLED
  <1>1. PICK s \in Submitters, j \in JobIds : InsertJob(s, j) \/ InsertReplyLost(s, j)
    BY DEF Inserts
  <1>2. InsertRow(j, submit[s].key, submit[s].fingerprint) /\ submit[s].pc = "insert"
    BY <1>1 DEF InsertJob, InsertReplyLost
  <1>3. j \notin Active /\ Active' = Active \cup {j}
    BY <1>2 DEF Active, InsertRow, NewRow, ACTIVE_STATUSES, Inv, TypeOK, StoreTypeOK
  <1>4. submit' = [submit EXCEPT ![s] = submit'[s]] /\ submit'[s].pc # "insert"
    <2>1. CASE InsertJob(s, j)
      BY <2>1 DEF InsertJob, Inv, TypeOK, SubmitTypeOK, Submit
    <2>2. CASE InsertReplyLost(s, j)
      <3>1. SubmitReplyJob(s, "error", j)
        BY <2>2 DEF InsertReplyLost
      <3> QED BY <3>1, RepliedPc DEF SubmitReplyJob, Inv, TypeOK, SubmitTypeOK
    <2> QED BY <1>1, <2>1, <2>2
  <1>5. s \in Inserting /\ Inserting' = Inserting \ {s}
    BY <1>2, <1>4 DEF Inserting, Inv, TypeOK, SubmitTypeOK
  <1> QED BY <1>3, <1>5

(* A step of a handler rewrites the record of that handler only.           *)
LEMMA OneHandlerMoves ==
    ASSUME SubmitTypeOK, NEW s \in Submitters,
           \/ \E k \in Keys \cup {NoKey}, f \in Fingerprints : Receive(s, k, f)
           \/ SubmitStep(s)
           \/ SubmitFault(s)
    PROVE  submit' = [submit EXCEPT ![s] = submit'[s]]
  <1>1. CASE \E rec : submit' = [submit EXCEPT ![s] = rec]
    BY <1>1 DEF SubmitTypeOK
  <1>2. CASE \E r, j : SubmitReply(s, r) \/ SubmitReplyJob(s, r, j)
    BY <1>2 DEF SubmitReply, SubmitReplyJob, SubmitTypeOK
  <1>3. CASE \E pc : SubmitGoto(s, pc)
    BY <1>3 DEF SubmitGoto, SubmitTypeOK
  <1>4. CASE \E k, f : Receive(s, k, f)
    BY <1>1, <1>4 DEF Receive
  <1>5. CASE \E j : InsertJob(s, j)
    BY <1>5 DEF InsertJob, SubmitTypeOK
  <1> QED
    BY <1>1, <1>2, <1>3, <1>4, <1>5 DEF SubmitStep, SubmitFault, AssertCapacity, InsertCollision,
       LookupExisting, EnqueueJob, FailUnqueued, FailReplyLost, Return, EnqueueFails, SubmitDbError,
       InsertReplyLost, SubmitCrash

(* Only the capacity check admits a handler.                               *)
LEMMA OnlyCheckAdmits ==
    ASSUME Inv, [Next]_vars, ~ \E s \in Submitters : AssertCapacity(s)
    PROVE  Inserting' \subseteq Inserting
  <1>1. CASE UNCHANGED submit
    BY <1>1 DEF Inserting
  <1>2. CASE SubmitNext
    <2> SUFFICES ASSUME NEW s \in Submitters,
                        \/ \E k \in Keys \cup {NoKey}, f \in Fingerprints : Receive(s, k, f)
                        \/ SubmitStep(s)
                        \/ SubmitFault(s)
                 PROVE  Inserting' \subseteq Inserting
      BY <1>2 DEF SubmitNext
    <2>0. SubmitTypeOK /\ submit' = [submit EXCEPT ![s] = submit'[s]]
      BY OneHandlerMoves DEF Inv, TypeOK
    <2>1. submit'[s].pc # "insert"
      <3>0. SubmitTypeOK
        BY <2>0
      <3>1. CASE \E r, j : SubmitReply(s, r) \/ SubmitReplyJob(s, r, j)
        <4>1. PICK r, j : SubmitReply(s, r) \/ SubmitReplyJob(s, r, j)
          BY <3>1
        <4> QED BY <3>0, <4>1, RepliedPc
      <3>2. CASE \E pc : pc # "insert" /\ SubmitGoto(s, pc)
        BY <3>0, <3>2 DEF SubmitGoto, SubmitTypeOK, Submit
      <3>3. CASE submit' = [submit EXCEPT ![s] = IdleSubmit]
        BY <3>0, <3>3 DEF IdleSubmit, SubmitTypeOK
      <3>4. CASE \E k, f : Receive(s, k, f)
        BY <3>0, <3>4 DEF Receive, IdleSubmit, SubmitTypeOK
      <3>5. CASE \E j : InsertJob(s, j)
        BY <3>0, <3>5 DEF InsertJob, SubmitTypeOK, Submit
      <3> QED
        BY <3>1, <3>2, <3>3, <3>4, <3>5 DEF SubmitStep, SubmitFault, InsertCollision,
           LookupExisting, EnqueueJob, FailUnqueued, FailReplyLost, Return, EnqueueFails, SubmitDbError,
           InsertReplyLost, SubmitCrash
    <2> QED BY <2>0, <2>1 DEF Inserting, SubmitTypeOK
  <1> QED BY <1>1, <1>2 DEF Next, vars, RedisLoss

(* Every step keeps the bound: an admission is made below the limit, and   *)
(* an INSERT uses one up.                                                  *)
LEMMA NextLimitInv ==
    ASSUME Inv, LimitInv, [Next]_vars
    PROVE  LimitInv'
  <1> DEFINE a  == Cardinality(Active)
             a2 == Cardinality(Active')
             n  == Cardinality(Inserting)
             n2 == Cardinality(Inserting')
             H  == Cardinality(Submitters)
  <1>0. a \in Nat /\ a2 \in Nat /\ n \in Nat /\ n2 \in Nat /\ n2 <= H /\ H \in Nat
    BY Counting DEF Active, Inserting
  <1>1. a + n <= MaxActive - 1 + H /\ MaxActive \in Nat
    BY SubmissionAssumption DEF LimitInv, Backlog
  <1>2. CASE Inserts
    <2>1. PICK s \in Submitters, j \in JobIds :
              /\ s \in Inserting /\ Inserting' = Inserting \ {s}
              /\ j \notin Active /\ Active' = Active \cup {j}
      BY <1>2, InsertsTrade
    <2>2. a2 = a + 1
      BY <2>1, Counting, FS_AddElement DEF Active
    <2>3. n2 = n - 1
      BY <2>1, Counting, FS_RemoveElement DEF Inserting
    <2> HIDE DEF a, a2, n, n2, H
    <2>4. a2 + n2 <= MaxActive - 1 + H
      BY <1>0, <1>1, <2>2, <2>3
    <2> QED BY <2>4 DEF LimitInv, Backlog, a, a2, n, n2, H
  <1>3. CASE ~Inserts /\ \E s \in Submitters : AssertCapacity(s)
    <2>1. a2 = a
      BY <1>3 DEF AssertCapacity, Active
    <2>2. CASE a < MaxActive
      <3> HIDE DEF a, a2, n, n2, H
      <3>1. a2 + n2 <= MaxActive - 1 + H
        BY <1>0, <1>1, <2>1, <2>2
      <3> QED BY <3>1 DEF LimitInv, Backlog, a, a2, n, n2, H
    <2>3. CASE ~(a < MaxActive)
      <3>1. Inserting' \subseteq Inserting
        BY <1>3, <2>3 DEF AssertCapacity, SubmitReply, Inserting, Inv, TypeOK, SubmitTypeOK, Submit
      <3>2. n2 <= n
        BY <3>1, Counting DEF Inserting
      <3> HIDE DEF a, a2, n, n2, H
      <3>3. a2 + n2 <= MaxActive - 1 + H
        BY <1>0, <1>1, <2>1, <3>2
      <3> QED BY <3>3 DEF LimitInv, Backlog, a, a2, n, n2, H
    <2> QED BY <2>2, <2>3
  <1>4. CASE ~Inserts /\ ~ \E s \in Submitters : AssertCapacity(s)
    <2>1. a2 <= a
      BY <1>4, OnlyInsertsActivate, Counting DEF Active
    <2>2. n2 <= n
      BY <1>4, OnlyCheckAdmits, Counting DEF Inserting
    <2> HIDE DEF a, a2, n, n2, H
    <2>3. a2 + n2 <= MaxActive - 1 + H
      BY <1>0, <1>1, <2>1, <2>2
    <2> QED BY <2>3 DEF LimitInv, Backlog, a, a2, n, n2, H
  <1> QED BY <1>2, <1>3, <1>4

(* However the handlers race, the backlog exceeds the limit by less than   *)
(* their number.                                                           *)
THEOREM BacklogBounded == Spec => []ActiveBound
  <1>1. Init => LimitInv
    <2> SUFFICES ASSUME Init PROVE LimitInv
      OBVIOUS
    <2>1. Active = {} /\ Inserting = {}
      BY DEF Init, StoreInit, AbsentRow, SubmitInit, IdleSubmit, Active, Inserting,
             ACTIVE_STATUSES, QUEUED, RUNNING
    <2>2. Cardinality({}) = 0 /\ Cardinality(Submitters) \in Nat /\ MaxActive \in Nat \ {0}
      BY SubmissionAssumption, Counting, FS_EmptySet
    <2>3. 0 + 0 <= MaxActive - 1 + Cardinality(Submitters)
      BY <2>2
    <2> QED BY <2>1, <2>2, <2>3 DEF LimitInv, Backlog
  <1>2. Inv /\ LimitInv /\ [Next]_vars => LimitInv'
    BY NextLimitInv
  <1>3. LimitInv => ActiveBound
    <2>1. /\ Cardinality(Active) \in Nat /\ Cardinality(Inserting) \in Nat
          /\ Cardinality(Submitters) \in Nat /\ MaxActive \in Nat
      BY SubmissionAssumption, Counting DEF Active, Inserting
    <2> QED BY <2>1 DEF LimitInv, Backlog, ActiveBound
  <1> QED BY <1>1, <1>2, <1>3, Invariance, PTL DEF Spec

-----------------------------------------------------------------------------
(* Idempotency.                                                            *)

(* Keys name rows, only rows that exist have one, only a handler with a    *)
(* key looks up a row, and an answered replay still matches its row.       *)
UniqueKeys == \A i, j \in JobIds : jobs[i].key = jobs[j].key /\ jobs[i].key # NoKey => i = j
KeysOfRows == \A j \in JobIds : ~Exists(j) => jobs[j].key = NoKey
LookupsHaveKeys == \A s \in Submitters : submit[s].pc = "lookup" => submit[s].key # NoKey
ReplayFits(s) ==
    /\ submit[s].pc = "replied"
    /\ submit[s].key # NoKey
    /\ submit[s].job \in JobIds
    /\ jobs[submit[s].job].key = submit[s].key
    /\ jobs[submit[s].job].fingerprint = submit[s].fingerprint
ReplaysFit == \A s \in Submitters : submit[s].reply = "replayed" => ReplayFits(s)

KeyInv == UniqueKeys /\ KeysOfRows /\ LookupsHaveKeys /\ ReplaysFit

SameIdentity(j) == jobs'[j].key = jobs[j].key /\ jobs'[j].fingerprint = jobs[j].fingerprint

(* No UPDATE touches the key or the fingerprint of a row.                  *)
LEMMA OnlyInsertsNameRows ==
    ASSUME Inv, StoreStep, ~Inserts, NEW i \in JobIds
    PROVE  SameIdentity(i)
  <1> USE DEF SameIdentity
  <1>0. /\ jobs = [j \in JobIds |-> jobs[j]]
        /\ \A j \in JobIds : jobs[j] \in Row
    BY DEF Inv, TypeOK, StoreTypeOK
  <1>1. CASE Untouched
    BY <1>1 DEF Untouched
  <1>2. CASE Claims \/ Cancels
    <2>1. PICK j \in JobIds : ClaimRow(j) \/ CancelRow(j)
      BY <1>2 DEF Claims, Cancels
    <2>2. CASE i = j
      BY <1>0, <2>1, <2>2 DEF ClaimRow, CancelRow, Row
    <2>3. CASE i # j
      BY <1>0, <2>1, <2>3 DEF ClaimRow, CancelRow
    <2> QED BY <2>2, <2>3
  <1>3. ASSUME NEW j \in JobIds, NEW seen, NEW error,
               MarkSucceeded(j, seen) \/ MarkFailed(j, seen, error)
        PROVE  SameIdentity(i)
    <2>1. CASE i = j
      <3>1. PICK status, e : jobs'[i] = OrmUpdate(jobs[i], seen, status, e)
        BY <1>0, <1>3, <2>1 DEF MarkSucceeded, MarkFailed
      <3>2. jobs[i] \in Row
        BY <1>0
      <3> QED BY <3>1, <3>2 DEF OrmUpdate, Row
    <2>2. CASE i # j
      BY <1>0, <1>3, <2>2 DEF MarkSucceeded, MarkFailed
    <2> QED BY <2>1, <2>2
  <1>5. CASE Succeeds
    <2>1. PICK w \in Workers : /\ worker[w].pc = "save"
                               /\ MarkSucceeded(worker[w].job, worker[w].seen)
      BY <1>5 DEF Succeeds
    <2>2. worker[w].job \in JobIds
      BY <2>1 DEF Inv, HandsHoldJobs, TaskHolds
    <2> QED BY <1>3, <2>1, <2>2
  <1>6. CASE Fails
    <2>1. CASE \E w \in Workers : /\ worker[w].pc = "fail"
                                  /\ MarkFailed(worker[w].job, worker[w].seen, "worker")
      BY <1>3, <2>1 DEF Inv, HandsHoldJobs, TaskHolds
    <2>2. CASE \E s \in Submitters :
                  /\ submit[s].pc = "fail"
                  /\ MarkFailed(submit[s].job, [status |-> QUEUED, error |-> "none"], "enqueue")
      BY <1>3, <2>2 DEF Inv, HandsHoldJobs, SubmitHolds
    <2> QED BY <1>6, <2>1, <2>2 DEF Fails
  <1>4. CASE Sweeps
    BY <1>0, <1>4 DEF Sweeps, SweepRows, Row
  <1> QED BY <1>1, <1>2, <1>4, <1>5, <1>6 DEF StoreStep

(* So keys stay unique, and what a named row is called stays.              *)
LEMMA NextNames ==
    ASSUME Inv, UniqueKeys, KeysOfRows, [Next]_vars
    PROVE  /\ UniqueKeys' /\ KeysOfRows'
           /\ \A j \in JobIds : jobs[j].key # NoKey => SameIdentity(j)
  <1>1. CASE Inserts
    <2>1. PICK s \in Submitters, j \in JobIds : InsertJob(s, j) \/ InsertReplyLost(s, j)
      BY <1>1 DEF Inserts
    <2>2. /\ ~Exists(j) /\ ~KeyTaken(submit[s].key)
          /\ jobs' = [jobs EXCEPT ![j] = NewRow(submit[s].key, submit[s].fingerprint)]
      BY <2>1 DEF InsertJob, InsertReplyLost, InsertRow, Exists
    <2>3. /\ jobs'[j].key = submit[s].key /\ Exists(j)'
          /\ \A i \in JobIds \ {j} : jobs'[i] = jobs[i]
      BY <2>2 DEF NewRow, Exists, Inv, TypeOK, StoreTypeOK, QUEUED
    <2>4. jobs[j].key = NoKey
      BY <2>2 DEF KeysOfRows
    <2>5. UniqueKeys'
      BY <2>2, <2>3 DEF UniqueKeys, KeyTaken
    <2>6. KeysOfRows'
      BY <2>3 DEF KeysOfRows, Exists
    <2> QED BY <2>3, <2>4, <2>5, <2>6 DEF SameIdentity
  <1>2. CASE ~Inserts
    <2>1. StoreStep
      BY StepsWriteTheStore DEF Inv
    <2>2. \A i \in JobIds : SameIdentity(i)
      BY <1>2, <2>1, OnlyInsertsNameRows
    <2>3. \A i \in JobIds : Exists(i) => Exists(i)'
      BY <2>1, WritesKeepRows DEF Inv, RowsOnlyGrow, RowGrows, Exists
    <2> QED BY <2>2, <2>3 DEF UniqueKeys, KeysOfRows, SameIdentity
  <1> QED BY <1>1, <1>2

(* Every step keeps the invariant.                                         *)
LEMMA NextKeyInv ==
    ASSUME Inv, KeyInv, [Next]_vars
    PROVE  KeyInv'
  <1>0. SubmitTypeOK /\ UniqueKeys /\ KeysOfRows
    BY DEF Inv, TypeOK, KeyInv
  <1>1. /\ UniqueKeys' /\ KeysOfRows'
        /\ \A j \in JobIds : jobs[j].key # NoKey => SameIdentity(j)
    BY <1>0, NextNames
  <1>2. ASSUME NEW s \in Submitters, submit'[s] = submit[s]
        PROVE  /\ submit'[s].pc = "lookup" => submit'[s].key # NoKey
               /\ submit'[s].reply = "replayed" => ReplayFits(s)'
    BY <1>1, <1>2 DEF KeyInv, LookupsHaveKeys, ReplaysFit, ReplayFits, SameIdentity
  <1>3. ASSUME SubmitNext, NEW s \in Submitters, submit'[s] # submit[s]
        PROVE  /\ submit'[s].pc = "lookup" => submit'[s].key # NoKey
               /\ submit'[s].reply = "replayed" => ReplayFits(s)'
    <2>0. PICK t \in Submitters :
              \/ \E k \in Keys \cup {NoKey}, f \in Fingerprints : Receive(t, k, f)
              \/ SubmitStep(t)
              \/ SubmitFault(t)
      BY <1>3 DEF SubmitNext
    <2>1. s = t
      BY <1>0, <1>3, <2>0, OneHandlerMoves DEF SubmitTypeOK
    <2>2. CASE InsertCollision(s)
      BY <1>0, <2>2 DEF InsertCollision, KeyTaken, KeyInv, ReplaysFit, ReplayFits, SubmitGoto,
                        SubmitTypeOK, Submit
    <2>3. ASSUME NEW j \in JobIds, LookupExisting(s, j)
          PROVE  /\ submit'[s].pc = "lookup" => submit'[s].key # NoKey
                 /\ submit'[s].reply = "replayed" => ReplayFits(s)'
      <3>1. submit[s].key # NoKey /\ jobs[j].key = submit[s].key /\ jobs' = jobs
        BY <2>3 DEF LookupExisting, KeyInv, LookupsHaveKeys
      <3>2. CASE jobs[j].fingerprint = submit[s].fingerprint
        <4>1. submit'[s] = [submit[s] EXCEPT !.pc = "replied", !.reply = "replayed", !.job = j]
          BY <1>0, <2>3, <3>2 DEF LookupExisting, SubmitReplyJob, SubmitTypeOK
        <4> QED BY <1>0, <3>1, <3>2, <4>1 DEF ReplayFits, SubmitTypeOK, Submit
      <3>3. CASE jobs[j].fingerprint # submit[s].fingerprint
        <4>1. submit'[s] = [submit[s] EXCEPT !.pc = "replied", !.reply = "key_reuse", !.job = j]
          BY <1>0, <2>3, <3>3 DEF LookupExisting, SubmitReplyJob, SubmitTypeOK
        <4> QED BY <1>0, <4>1 DEF SubmitTypeOK, Submit
      <3> QED BY <3>2, <3>3
    <2>4. CASE submit[s].pc # "replied" /\ \E pc : pc # "lookup" /\ SubmitGoto(s, pc)
      BY <1>0, <2>4 DEF KeyInv, ReplaysFit, ReplayFits, SubmitGoto, SubmitTypeOK, Submit
    <2>5. CASE \E r : r # "replayed" /\ SubmitReply(s, r)
      BY <1>0, <2>5 DEF SubmitReply, SubmitTypeOK, Submit
    <2>6. CASE \E j : SubmitReplyJob(s, "error", j)
      <3>1. PICK j : submit'[s] = [submit[s] EXCEPT !.pc = "replied", !.reply = "error", !.job = j]
        BY <1>0, <2>6 DEF SubmitReplyJob, SubmitTypeOK
      <3> QED BY <1>0, <3>1 DEF SubmitTypeOK, Submit
    <2>7. CASE \/ submit'[s] = IdleSubmit
              \/ \E k, f : Receive(s, k, f)
      <3>1. CASE submit'[s] = IdleSubmit
        BY <3>1 DEF IdleSubmit
      <3>2. CASE \E k, f : Receive(s, k, f)
        <4>1. PICK k, f : submit'[s] = [IdleSubmit EXCEPT !.pc = "check", !.key = k,
                                                        !.fingerprint = f]
          BY <1>0, <3>2 DEF Receive, SubmitTypeOK
        <4> QED BY <4>1 DEF IdleSubmit
      <3> QED BY <2>7, <3>1, <3>2
    <2>8. CASE \E j : InsertJob(s, j)
      BY <1>0, <2>8 DEF InsertJob, KeyInv, ReplaysFit, ReplayFits, SubmitTypeOK, Submit
    <2>9. CASE Return(s) \/ SubmitCrash(s)
      BY <1>0, <2>7, <2>9 DEF Return, SubmitCrash, SubmitTypeOK
    <2> QED
      BY <2>0, <2>1, <2>2, <2>3, <2>4, <2>5, <2>6, <2>7, <2>8, <2>9
         DEF SubmitStep, SubmitFault, AssertCapacity, EnqueueJob, FailUnqueued, FailReplyLost,
             EnqueueFails, SubmitDbError, InsertReplyLost
  <1>4. LookupsHaveKeys' /\ ReplaysFit'
    <2>1. SubmitNext \/ UNCHANGED submit
      BY DEF Next, vars, RedisLoss
    <2> QED BY <1>2, <1>3, <2>1 DEF LookupsHaveKeys, ReplaysFit
  <1> QED BY <1>1, <1>4 DEF KeyInv

(* A key never has two jobs, and a replay names the job of that key and    *)
(* body.                                                                   *)
THEOREM SubmissionsAreIdempotent == Spec => []KeyNamesOneJob
  <1>1. Init => KeyInv
    BY DEF Init, StoreInit, AbsentRow, SubmitInit, IdleSubmit, KeyInv, UniqueKeys, KeysOfRows,
           LookupsHaveKeys, ReplaysFit, ReplayFits
  <1>2. Inv /\ KeyInv /\ [Next]_vars => KeyInv'
    BY NextKeyInv
  <1>3. KeyInv => KeyNamesOneJob
    BY DEF KeyInv, UniqueKeys, ReplaysFit, ReplayFits, KeyNamesOneJob
  <1> QED BY <1>1, <1>2, <1>3, Invariance, PTL DEF Spec

-----------------------------------------------------------------------------
(* No accepted job is lost, but by the steps that Abandons names.          *)

(* What the operations on the list do to the entries of job i.             *)
LEMMA EntriesStay ==
    ASSUME queue \in Seq(JobIds), NEW i \in JobIds, NEW j \in JobIds
    PROVE  /\ Push(j) \/ PushTwice(j) => InQueue(j)' /\ (InQueue(i) => InQueue(i)')
           /\ RemoveEntry(j) /\ i # j /\ InQueue(i) => InQueue(i)'
           /\ Pop(j) /\ i # j /\ InQueue(i) => InQueue(i)'
  <1>1. ASSUME Push(j) \/ PushTwice(j) PROVE InQueue(j)' /\ (InQueue(i) => InQueue(i)')
    <2>1. /\ Len(queue') >= Len(queue) + 1
          /\ \A k \in 1..Len(queue) : queue'[k] = queue[k]
          /\ queue'[Len(queue) + 1] = j
      BY <1>1 DEF Push, PushTwice
    <2>2. Len(queue) \in Nat /\ Len(queue') \in Nat
      BY <1>1 DEF Push, PushTwice
    <2> QED BY <2>1, <2>2 DEF InQueue
  <1>2. ASSUME RemoveEntry(j), i # j, InQueue(i) PROVE InQueue(i)'
    <2>1. PICK k \in 1..Len(queue) : queue[k] = i
      BY <1>2 DEF InQueue
    <2>2. CASE UNCHANGED queue
      BY <2>1, <2>2 DEF InQueue
    <2>3. ASSUME NEW m \in 1..Len(queue), queue[m] = j,
                 queue' = SubSeq(queue, 1, m - 1) \o SubSeq(queue, m + 1, Len(queue))
          PROVE  InQueue(i)'
      <3> DEFINE front == SubSeq(queue, 1, m - 1)
                 back  == SubSeq(queue, m + 1, Len(queue))
      <3>1. /\ front \in Seq(JobIds) /\ Len(front) = m - 1
            /\ \A l \in 1..(m - 1) : front[l] = queue[l]
        OBVIOUS
      <3>2. /\ back \in Seq(JobIds) /\ Len(back) = Len(queue) - m
            /\ \A l \in 1..(Len(queue) - m) : back[l] = queue[m + l]
        OBVIOUS
      <3>3. queue' = front \o back
        BY <2>3
      <3> HIDE DEF front, back
      <3>4. CASE k < m
        <4>1. k \in 1..Len(front) /\ queue'[k] = front[k]
          BY <2>1, <3>1, <3>2, <3>3, <3>4
        <4>2. k \in 1..Len(queue')
          BY <4>1, <3>1, <3>2, <3>3
        <4> QED BY <2>1, <3>1, <4>1, <4>2 DEF InQueue
      <3>5. CASE k > m
        <4>1. k - m \in 1..Len(back) /\ queue'[Len(front) + (k - m)] = back[k - m]
          BY <2>1, <3>1, <3>2, <3>3, <3>5
        <4>2. Len(front) + (k - m) \in 1..Len(queue') /\ back[k - m] = queue[k]
          BY <4>1, <3>1, <3>2, <3>3
        <4> QED BY <2>1, <4>1, <4>2 DEF InQueue
      <3> QED BY <1>2, <2>1, <2>3, <3>4, <3>5
    <2> QED BY <1>2, <2>2, <2>3 DEF RemoveEntry
  <1>3. ASSUME Pop(j), i # j, InQueue(i) PROVE InQueue(i)'
    <2>1. PICK k \in 1..Len(queue) : queue[k] = i
      BY <1>3 DEF InQueue
    <2>2. k # 1
      BY <1>3, <2>1 DEF Pop
    <2>3. Len(queue') = Len(queue) - 1 /\ queue'[k - 1] = i
      BY <1>3, <2>1, <2>2 DEF Pop
    <2> QED BY <2>1, <2>2, <2>3 DEF InQueue
  <1> QED BY <1>1, <1>2, <1>3

(* A submission hands its job to the queue or fails it.                    *)
LEMMA SubmittersHandOver ==
    ASSUME Inv, SubmitNext, worker' = worker,
           NEW i \in JobIds, ~Abandons(i), jobs'[i].status = QUEUED, ~Stranded(i)
    PROVE  Pending(i)'
  <1> USE DEF QUEUED, RUNNING, SUCCEEDED, FAILED, CANCELLED
  <1>0. /\ SubmitTypeOK /\ queue \in Seq(JobIds) /\ jobs = [j \in JobIds |-> jobs[j]]
        /\ \A j \in JobIds : jobs[j] \in Row
        /\ jobs[i].status = QUEUED => Pending(i)
    BY DEF Inv, TypeOK, StoreTypeOK, Stranded
  <1>1. PICK s \in Submitters :
            \/ \E k \in Keys \cup {NoKey}, f \in Fingerprints : Receive(s, k, f)
            \/ SubmitStep(s)
            \/ SubmitFault(s)
    BY DEF SubmitNext
  <1>2. submit' = [submit EXCEPT ![s] = submit'[s]]
    BY <1>0, <1>1, OneHandlerMoves
  <1>3. ASSUME Pending(i), queue' = queue,
               ~(submit[s].pc \in {"enqueue", "fail"} /\ submit[s].job = i)
        PROVE  Pending(i)'
    BY <1>0, <1>2, <1>3 DEF Pending, InQueue, Unclaimed, SubmitTypeOK
  <1>4. ASSUME NEW j \in JobIds, InsertJob(s, j) PROVE Pending(i)'
    <2>1. CASE i = j
      BY <1>0, <1>4, <2>1 DEF InsertJob, Pending, SubmitTypeOK, Submit
    <2>2. CASE i # j
      <3>1. jobs[i].status = QUEUED /\ queue' = queue
        BY <1>0, <1>4, <2>2 DEF InsertJob, InsertRow
      <3> QED
        BY <1>0, <1>2, <1>4, <3>1 DEF InsertJob, Pending, InQueue, Unclaimed, SubmitTypeOK
    <2> QED BY <2>1, <2>2
  <1>5. CASE EnqueueJob(s)
    <2>1. PICK j \in JobIds : j = submit[s].job /\ (Push(j) \/ PushTwice(j))
      BY <1>5 DEF EnqueueJob, Inv, HandsHoldJobs, SubmitHolds
    <2>2. Pending(i)
      BY <1>0, <1>5 DEF EnqueueJob
    <2>3. InQueue(j)' /\ (InQueue(i) => InQueue(i)')
      BY <1>0, <2>1, EntriesStay
    <2> QED
      BY <1>0, <1>2, <2>1, <2>2, <2>3 DEF Pending, Unclaimed, SubmitTypeOK
  <1>6. CASE EnqueueFails(s)
    <2>1. Pending(i) /\ submit'[s].pc = "fail" /\ submit'[s].job = submit[s].job
      BY <1>0, <1>6 DEF EnqueueFails, SubmitGoto, SubmitTypeOK, Submit
    <2>2. InQueue(i) => InQueue(i)'
      <3>1. submit[s].job \in JobIds
        BY <1>6 DEF EnqueueFails, Inv, HandsHoldJobs, SubmitHolds
      <3>2. CASE queue' = queue
        BY <3>2 DEF InQueue
      <3> QED BY <1>0, <1>6, <3>1, <3>2, EntriesStay DEF EnqueueFails
    <2> QED
      BY <1>0, <1>2, <2>1, <2>2 DEF Pending, Unclaimed, SubmitTypeOK
  <1>7. CASE FailUnqueued(s) \/ FailReplyLost(s)
    <2>1. PICK j \in JobIds : /\ j = submit[s].job
                              /\ MarkFailed(j, [status |-> QUEUED, error |-> "none"], "enqueue")
      BY <1>7 DEF FailUnqueued, FailReplyLost, Inv, HandsHoldJobs, SubmitHolds
    <2>2. i # j
      BY <1>0, <2>1 DEF MarkFailed, OrmUpdate, Row
    <2>3. jobs[i].status = QUEUED /\ queue' = queue
      BY <1>0, <1>7, <2>1, <2>2 DEF MarkFailed, FailUnqueued, FailReplyLost
    <2> QED BY <1>0, <1>3, <2>1, <2>2, <2>3
  <1>8. CASE submit[s].pc \notin {"enqueue", "fail"} /\ UNCHANGED <<jobs, queue>>
    BY <1>0, <1>3, <1>8
  <1>9. ASSUME NEW j \in JobIds, InsertReplyLost(s, j) PROVE Pending(i)'
    <2>1. i # j
      BY <1>9 DEF Abandons
    <2>2. jobs[i].status = QUEUED /\ queue' = queue /\ submit[s].pc = "insert"
      BY <1>0, <1>9, <2>1 DEF InsertReplyLost, InsertRow
    <2> QED BY <1>0, <1>3, <2>2
  <1>10. CASE SubmitDbError(s) \/ SubmitCrash(s)
    <2>1. UNCHANGED <<jobs, queue>>
      BY <1>10 DEF SubmitDbError, SubmitCrash
    <2>2. ~(submit[s].pc \in {"enqueue", "fail"} /\ submit[s].job = i)
      BY <1>10 DEF Abandons, SubmitDbError
    <2> QED BY <1>0, <1>3, <2>1, <2>2
  <1> QED
    BY <1>1, <1>4, <1>5, <1>6, <1>7, <1>8, <1>9, <1>10 DEF SubmitStep, SubmitFault, Receive,
       AssertCapacity, InsertCollision, LookupExisting, Return

(* A worker holds what it popped until it has claimed or skipped it.       *)
LEMMA WorkersTakeOver ==
    ASSUME Inv, WorkerNext, submit' = submit,
           NEW i \in JobIds, ~Abandons(i), jobs[i].status = QUEUED, jobs'[i].status = QUEUED,
           Pending(i)
    PROVE  Pending(i)'
  <1> USE DEF QUEUED, RUNNING, SUCCEEDED, FAILED, CANCELLED
  <1>0. /\ WorkerTypeOK /\ queue \in Seq(JobIds) /\ jobs = [j \in JobIds |-> jobs[j]]
        /\ \A j \in JobIds : jobs[j] \in Row
    BY DEF Inv, TypeOK, StoreTypeOK
  <1>1. PICK w \in Workers : TaskStep(w) \/ TaskFault(w)
    BY DEF WorkerNext
  <1>2. CASE \E j \in JobIds : Dequeue(w, j)
    <2>1. PICK j \in JobIds : Dequeue(w, j)
      BY <1>2
    <2>2. /\ worker[w].pc = "idle" /\ Pop(j)
          /\ worker'[w].pc = "import" /\ worker'[w].job = j
          /\ \A v \in Workers \ {w} : worker'[v] = worker[v]
      BY <1>0, <2>1 DEF Dequeue, WorkerTypeOK
    <2>3. i # j /\ InQueue(i) => InQueue(i)'
      BY <1>0, <2>2, EntriesStay
    <2> QED BY <2>2, <2>3 DEF Pending, Unclaimed
  <1>3. CASE Unclaimed(w) /\ worker[w].job # i /\ UNCHANGED queue
             /\ \A v \in Workers \ {w} : worker'[v] = worker[v]
    BY <1>3 DEF Pending, InQueue, Unclaimed
  <1>4. CASE ~Unclaimed(w) /\ UNCHANGED queue
             /\ \A v \in Workers \ {w} : worker'[v] = worker[v]
    BY <1>4 DEF Pending, InQueue, Unclaimed
  <1>5. CASE ImportEngine(w)
    BY <1>0, <1>5 DEF ImportEngine, TaskGoto, Pending, InQueue, Unclaimed, WorkerTypeOK, Task
  <1>6. CASE ClaimJob(w) \/ SkipJob(w)
    <2>1. worker[w].job \in JobIds
      BY <1>6 DEF ClaimJob, SkipJob, Inv, HandsHoldJobs, TaskHolds
    <2>2. worker[w].job # i
      BY <1>0, <1>6, <2>1 DEF ClaimJob, SkipJob, ClaimRow, Row
    <2> QED
      BY <1>0, <1>3, <1>6, <2>2 DEF ClaimJob, SkipJob, TaskGoto, TaskEnd, Unclaimed, WorkerTypeOK
  <1>7. CASE ImportFails(w) \/ StrayAlarm(w) \/ TaskDbError(w) \/ Kill(w)
    <2>1. UNCHANGED queue /\ \A v \in Workers \ {w} : worker'[v] = worker[v]
      BY <1>0, <1>7 DEF ImportFails, StrayAlarm, TaskDbError, Kill, TaskGoto, TaskEnd, WorkerTypeOK
    <2>2. ~Unclaimed(w) \/ worker[w].job # i
      BY <1>7 DEF Abandons
    <2> QED BY <1>3, <1>4, <2>1, <2>2
  <1>8. CASE \/ LoadJob(w) \/ RunBenchmark(w) \/ SaveResults(w) \/ FinishTask(w)
            \/ ReloadJob(w) \/ FailJob(w) \/ EngineRaises(w) \/ Alarm(w)
    BY <1>0, <1>4, <1>8 DEF LoadJob, RunBenchmark, SaveResults, FinishTask, ReloadJob,
       FailJob, EngineRaises, Alarm, TaskGoto, TaskLoad, TaskEnd, Unclaimed, WorkerTypeOK
  <1> QED BY <1>1, <1>2, <1>5, <1>6, <1>7, <1>8 DEF TaskStep, TaskFault

(* Every other step keeps a queued job in somebody's hands.                *)
LEMMA OnlyAbandonedStrand ==
    ASSUME Inv, [Next]_vars, NEW i \in JobIds, ~Stranded(i), ~Abandons(i)
    PROVE  ~Stranded(i)'
  <1> SUFFICES ASSUME jobs'[i].status = QUEUED
               PROVE  Pending(i)'
    BY DEF Stranded
  <1>1. CASE SubmitNext /\ UNCHANGED <<cancel, read, worker>>
    BY <1>1, SubmittersHandOver
  <1>2. CASE ~(SubmitNext /\ UNCHANGED <<cancel, read, worker>>)
    <2>0. submit' = submit
      BY <1>2 DEF Next, vars, RedisLoss
    <2>1. ~Inserts
      BY <2>0, InsertsTrade DEF Inserting
    <2>2. jobs[i].status # "absent"
      BY <2>1, StepsWriteTheStore, OnlyInsertsCreate DEF Inv, Exists, QUEUED
    <2>3. jobs[i].status = QUEUED
      <3>1. CASE jobs[i].status = jobs'[i].status
        BY <3>1
      <3>2. CASE jobs[i].status # jobs'[i].status
        BY <2>2, <3>2, StepMoves
           DEF StatusMoves, QUEUED, RUNNING, SUCCEEDED, FAILED, CANCELLED
      <3> QED BY <3>1, <3>2
    <2>4. Pending(i)
      BY <2>3 DEF Stranded
    <2>5. CASE WorkerNext /\ UNCHANGED submit
      BY <2>3, <2>4, <2>5, WorkersTakeOver
    <2>6. CASE CancelNext /\ UNCHANGED <<submit, worker>>
      <3>1. CASE UNCHANGED queue
        BY <2>4, <2>6, <3>1 DEF Pending, InQueue, Unclaimed
      <3>2. ASSUME NEW c \in Cancellers, RemoveFromQueue(c) PROVE Pending(i)'
        <4>1. /\ cancel[c].job \in JobIds /\ jobs[cancel[c].job].status # QUEUED
              /\ RemoveEntry(cancel[c].job) /\ queue \in Seq(JobIds)
          <5>1. cancel[c].pc = "remove" /\ RemoveEntry(cancel[c].job)
            BY <3>2 DEF RemoveFromQueue
          <5>2. cancel[c].job \in JobIds /\ jobs[cancel[c].job].status # QUEUED
            BY <5>1 DEF Inv, HandsHoldJobs, CancelHolds, CancelsConsistent
          <5> QED BY <5>1, <5>2 DEF Inv, TypeOK
        <4>2. InQueue(i) => InQueue(i)'
          BY <2>3, <4>1, EntriesStay
        <4> QED BY <2>4, <2>6, <4>2 DEF Pending, Unclaimed
      <3> QED
        BY <2>6, <3>1, <3>2 DEF CancelNext, CancelStep, CancelFault, ReceiveCancel,
           GetJobToCancel, CancelQueued, NotQueued, ReportCancelled, RefuseCancel, ReturnCancel,
           RemoveFails, CancelDbError, CancelCrash
    <2>7. CASE UNCHANGED <<submit, worker, queue>>
      BY <2>4, <2>7 DEF Pending, InQueue, Unclaimed
    <2>8. ~RedisLoss
      BY DEF Abandons
    <2>9. CASE ReaperNext /\ UNCHANGED <<submit, cancel, read>>
      BY <2>7, <2>9 DEF ReaperNext, SweepStaleJobs
    <2>10. CASE UNCHANGED vars
      BY <2>7, <2>10 DEF vars
    <2> QED
      BY <1>2, <2>5, <2>6, <2>7, <2>8, <2>9, <2>10 DEF Next
  <1> QED BY <1>1, <1>2

(* Under every fault, a job that loses its last holder loses it in one of  *)
(* the steps that Abandons names.                                          *)
THEOREM OnlyFaultsStrandJobs == Spec => OnlyFaultsStrand
  <1>1. Inv /\ [Next]_vars
            => [\A j \in JobIds : ~Stranded(j) /\ Stranded(j)' => Abandons(j)]_vars
    BY OnlyAbandonedStrand
  <1> QED BY <1>1, Invariance, PTL DEF Spec, OnlyFaultsStrand

(* And none of these steps happens without a stranding fault: no queued    *)
(* job is forgotten.                                                       *)
THEOREM QueuedJobsAreKept == Spec => []QueuedIsAccounted
  <1> DEFINE NoStranding == StrandingFaults \cap Faults = {}
             Accounted   == \A j \in JobIds : ~Stranded(j)
  <1>1. CASE NoStranding
    <2>1. Init => Accounted
      BY DEF Init, StoreInit, AbsentRow, Stranded, QUEUED
    <2>2. \A j \in JobIds : ~Abandons(j)
      BY <1>1 DEF StrandingFaults, Abandons, RedisLoss, InsertReplyLost, SubmitDbError, SubmitCrash,
         ImportFails, StrayAlarm, TaskDbError, Kill, Unclaimed
    <2>3. Inv /\ Accounted /\ [Next]_vars => Accounted'
      BY <2>2, OnlyAbandonedStrand
    <2>4. Accounted => QueuedIsAccounted
      BY DEF Stranded, QueuedIsAccounted
    <2> HIDE DEF Accounted
    <2> QED BY <2>1, <2>3, <2>4, Invariance, PTL DEF Spec
  <1>2. CASE ~NoStranding
    <2>1. QueuedIsAccounted
      BY <1>2 DEF QueuedIsAccounted
    <2> QED BY <2>1, PTL
  <1> QED BY <1>1, <1>2
=============================================================================
