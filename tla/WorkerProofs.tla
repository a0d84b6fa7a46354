---------------------------- MODULE WorkerProofs ----------------------------
(***************************************************************************)
(* The reaper and the clocks, for every number of workers and jobs, every  *)
(* timeout and every skew the grace period covers.                         *)
(***************************************************************************)
EXTENDS WorkerProcess, TLAPS

LEMMA LimitIsInt == Limit \in Int /\ job_timeout_seconds \in Nat /\ KillGrace \in Nat
  BY ProcessAssumption DEF Limit

LEMMA ClocksAreInts ==
    ASSUME now \in Int, NEW w \in Workers
    PROVE  /\ Skew[w] \in Int /\ Clock(w) \in Int /\ Cutoff(w) \in Int
           /\ Clock(w) = now + Skew[w] /\ Cutoff(w) = (now + Skew[w]) - Limit
  BY ProcessAssumption, LimitIsInt DEF Clock, Cutoff

(* The clocks: a claim that a living work-horse of w has stamped is not    *)
(* older than any cutoff a worker v may have read so far.                  *)
LEMMA StampsAreRecent ==
    ASSUME ProcessInv, NEW v \in Workers, NEW w \in Workers,
           Forks(w), Consuming(w), horse[w].pc # "begun",
           NEW cutoff \in Int, cutoff <= Cutoff(v)
    PROVE  horse[w].stamp >= cutoff
  <1>1. /\ now \in Int /\ horse[w].start \in Int /\ horse[w].stamp \in Int
        /\ now <= horse[w].start + job_timeout_seconds + KillGrace
        /\ horse[w].start + Skew[w] <= horse[w].stamp
    BY DEF ProcessInv, ProcessTypeOK, HorsesOK
  <1>2. KillGrace + Skew[v] - Skew[w] <= stale_job_grace_seconds
    BY ClocksAssumption
  <1>3. /\ Skew[v] \in Int /\ Skew[w] \in Int /\ Cutoff(v) = now + Skew[v] - Limit
        /\ Limit = job_timeout_seconds + stale_job_grace_seconds
        /\ job_timeout_seconds \in Nat /\ stale_job_grace_seconds \in Nat /\ KillGrace \in Nat
    BY <1>1, ClocksAreInts, ProcessAssumption DEF Limit
  <1> QED BY <1>1, <1>2, <1>3

(* What a sweep finds overdue is in no living work-horse's hands.          *)
LEMMA OverdueIsAbandoned ==
    ASSUME ProcessInv, NEW v \in Workers, sweep[v].pc = "update",
           NEW w \in Workers, Forks(w), Claimed(w)
    PROVE  ~Stale(v, row[horse[w].job])
  <1>1. /\ Consuming(w) /\ horse[w].job \in Jobs /\ horse[w].pc # "begun"
        /\ row[horse[w].job].started_at = horse[w].stamp /\ horse[w].stamp \in Int
    BY DEF Claimed, Consuming, ProcessInv, ProcessTypeOK, HorsesOK
  <1>2. sweep[v].cutoff \in Int /\ sweep[v].cutoff <= Cutoff(v)
    BY DEF ProcessInv, ProcessTypeOK, CutoffsOK
  <1>3. horse[w].stamp >= sweep[v].cutoff
    BY <1>1, <1>2, StampsAreRecent
  <1> QED BY <1>1, <1>2, <1>3 DEF Stale

-----------------------------------------------------------------------------
LEMMA ProcessInvHolds == ProcessInit => ProcessInv
  <1> SUFFICES ASSUME ProcessInit PROVE ProcessInv
    OBVIOUS
  <1>1. ProcessTypeOK
    BY DEF ProcessInit, ProcessTypeOK, NoProcess, NoSweep, NoHorse
  <1>2. PhasesOK /\ CutoffsOK /\ HorsesOK /\ QueuedAreUnclaimed
    BY DEF ProcessInit, PhasesOK, CutoffsOK, HorsesOK, QueuedAreUnclaimed, Consuming,
           NoProcess, NoSweep, NoHorse
  <1> QED BY <1>1, <1>2 DEF ProcessInv

(* The sweeps and the processes touch no task but the one they kill.       *)
LEMMA SweepsKeep ==
    ASSUME ProcessInv, NEW w \in Workers,
           StartProcess(w) \/ TimerSweep(w) \/ EndSweep(w) \/ SweepError(w) \/ KillProcess(w)
    PROVE  ProcessInv'
  <1>1. /\ now \in Nat /\ queue \subseteq Jobs /\ now' = now /\ queue' = queue
        /\ Skew[w] \in Int /\ Clock(w) \in Int /\ Cutoff(w) \in Int /\ Limit \in Int
        /\ Cutoff(w) = Clock(w) - Limit /\ stale_job_grace_seconds \in Nat
        /\ \A v \in Workers : Clock(v)' = Clock(v) /\ Cutoff(v)' = Cutoff(v)
    BY ClocksAreInts, LimitIsInt, ProcessAssumption DEF ProcessInv, ProcessTypeOK,
       StartProcess, TimerSweep, EndSweep, SweepError, KillProcess, Clock, Cutoff
  <1>2. CASE StartProcess(w)
    <2>1. /\ proc' = [proc EXCEPT ![w] = [phase |-> "startup", born |-> Clock(w), due |-> now, swept |-> 0]]
          /\ sweep' = [sweep EXCEPT ![w] = [pc |-> "update", cutoff |-> Cutoff(w)]]
          /\ UNCHANGED <<row, horse>> /\ proc[w].phase = "down"
      BY <1>2 DEF StartProcess, OpenSweep
    <2>2. ProcessTypeOK'
      BY <1>1, <2>1 DEF ProcessInv, ProcessTypeOK
    <2>3. PhasesOK' /\ CutoffsOK'
      BY <1>1, <2>1 DEF ProcessInv, ProcessTypeOK, PhasesOK, CutoffsOK, Consuming
    <2>4. HorsesOK' /\ QueuedAreUnclaimed'
      BY <1>1, <2>1 DEF ProcessInv, HorsesOK, QueuedAreUnclaimed, Consuming, Claimed
    <2> QED BY <2>2, <2>3, <2>4 DEF ProcessInv
  <1>3. CASE TimerSweep(w)
    <2>1. /\ sweep' = [sweep EXCEPT ![w] = [pc |-> "update", cutoff |-> Cutoff(w)]]
          /\ UNCHANGED <<row, proc, horse>> /\ proc[w].phase = "working"
      BY <1>3 DEF TimerSweep, OpenSweep
    <2>2. ProcessTypeOK'
      BY <1>1, <2>1 DEF ProcessInv, ProcessTypeOK
    <2>3. PhasesOK' /\ CutoffsOK'
      BY <1>1, <2>1 DEF ProcessInv, ProcessTypeOK, PhasesOK, CutoffsOK, Consuming
    <2>4. HorsesOK' /\ QueuedAreUnclaimed'
      BY <1>1, <2>1 DEF ProcessInv, HorsesOK, QueuedAreUnclaimed, Consuming, Claimed
    <2> QED BY <2>2, <2>3, <2>4 DEF ProcessInv
  <1>4. ASSUME UNCHANGED horse, sweep' = [sweep EXCEPT ![w] = NoSweep], sweep[w].pc = "update",
               NEW s \in Int,
               proc' = [proc EXCEPT ![w] = [Rested(w) EXCEPT !.swept = s]],
               s <= Cutoff(w), proc[w].phase \in {"startup", "working"} => s >= proc[w].born - Limit,
               row' \in [Jobs -> [status : {"queued", "running", "succeeded", "failed"},
                                  started_at : Int, owner : Workers \cup {None}]],
               \A j \in Jobs : /\ row'[j].started_at = row[j].started_at
                               /\ row[j].status = "queued" => row'[j].status = "queued"
        PROVE  ProcessInv'
    <2>1. /\ Rested(w) \in [phase : {"down", "startup", "working"}, born : Int, due : Int, swept : Int]
          /\ Rested(w).born = proc[w].born
          /\ proc[w].phase = "startup" => Rested(w).phase = "working"
          /\ proc[w].phase # "startup" => Rested(w).phase = proc[w].phase
      BY <1>1 DEF ProcessInv, ProcessTypeOK, Rested
    <2>2. ProcessTypeOK'
      BY <1>1, <1>4, <2>1 DEF ProcessInv, ProcessTypeOK, NoSweep
    <2>3. /\ proc'[w].born = proc[w].born /\ proc'[w].swept = s
          /\ proc'[w].phase # "startup"
          /\ proc[w].phase = "working" => proc'[w].phase = "working"
          /\ proc'[w].phase = "working" => proc[w].phase \in {"startup", "working"}
          /\ proc'[w].phase # "down" => proc[w].phase # "down"
          /\ sweep'[w].pc = "none"
          /\ \A v \in Workers \ {w} : proc'[v] = proc[v] /\ sweep'[v] = sweep[v]
      BY <1>4, <2>1 DEF ProcessInv, ProcessTypeOK, NoSweep
    <2>4. PhasesOK' /\ CutoffsOK'
      BY <1>1, <1>4, <2>3 DEF ProcessInv, ProcessTypeOK, PhasesOK, CutoffsOK, Consuming
    <2>5. HorsesOK' /\ QueuedAreUnclaimed'
      BY <1>1, <1>4 DEF ProcessInv, HorsesOK, QueuedAreUnclaimed, Consuming, Claimed
    <2> QED BY <2>2, <2>4, <2>5 DEF ProcessInv
  <1>5. CASE EndSweep(w)
    <2>1. /\ UNCHANGED horse /\ sweep' = [sweep EXCEPT ![w] = NoSweep] /\ sweep[w].pc = "update"
          /\ proc' = [proc EXCEPT ![w] = [Rested(w) EXCEPT !.swept = sweep[w].cutoff]]
          /\ row' = [j \in Jobs |->
                  IF Stale(w, row[j]) THEN [row[j] EXCEPT !.status = "failed"] ELSE row[j]]
      BY <1>5 DEF EndSweep
    <2>2. /\ sweep[w].cutoff \in Int /\ sweep[w].cutoff <= Cutoff(w)
          /\ proc[w].phase \in {"startup", "working"} => sweep[w].cutoff >= proc[w].born - Limit
      BY <1>1, <2>1 DEF ProcessInv, ProcessTypeOK, PhasesOK, CutoffsOK
    <2>3. /\ row' \in [Jobs -> [status : {"queued", "running", "succeeded", "failed"},
                                started_at : Int, owner : Workers \cup {None}]]
          /\ \A j \in Jobs : /\ row'[j].started_at = row[j].started_at
                             /\ row[j].status = "queued" => row'[j].status = "queued"
      <3>1. \A j \in Jobs : /\ row[j] \in [status : {"queued", "running", "succeeded", "failed"},
                                           started_at : Int, owner : Workers \cup {None}]
                            /\ row[j].status = "queued" => ~Stale(w, row[j])
        BY DEF ProcessInv, ProcessTypeOK, Stale
      <3>2. \A j \in Jobs : row'[j] = IF Stale(w, row[j]) THEN [row[j] EXCEPT !.status = "failed"]
                                      ELSE row[j]
        BY <2>1
      <3>3. \A j \in Jobs : row'[j] \in [status : {"queued", "running", "succeeded", "failed"},
                                         started_at : Int, owner : Workers \cup {None}]
        BY <3>1, <3>2
      <3>4. \A j \in Jobs : /\ row'[j].started_at = row[j].started_at
                            /\ row[j].status = "queued" => row'[j].status = "queued"
        BY <3>1, <3>2
      <3> QED BY <2>1, <3>3, <3>4
    <2> QED BY <1>4, <2>1, <2>2, <2>3
  <1>6. ASSUME UNCHANGED row, proc' = [proc EXCEPT ![w] = NoProcess],
               sweep' = [sweep EXCEPT ![w] = NoSweep],
               \/ horse' = horse /\ ~Consuming(w)
               \/ horse' = [horse EXCEPT ![w] = NoHorse]
        PROVE  ProcessInv'
    <2>1. ProcessTypeOK'
      <3>1. horse' \in [Workers -> [pc : {"none", "begun", "stamped", "claimed"},
                              job : Jobs \cup {None}, start : Int, stamp : Int]]
        BY <1>6 DEF ProcessInv, ProcessTypeOK, NoHorse
      <3>2. proc' \in [Workers -> [phase : {"down", "startup", "working"}, born : Int,
                                   due : Int, swept : Int]]
        BY <1>6 DEF ProcessInv, ProcessTypeOK, NoProcess
      <3>3. sweep' \in [Workers -> [pc : {"none", "update"}, cutoff : Int]]
        BY <1>6 DEF ProcessInv, ProcessTypeOK, NoSweep
      <3>4. /\ now' \in Nat /\ queue' \subseteq Jobs
            /\ row' \in [Jobs -> [status : {"queued", "running", "succeeded", "failed"},
                                  started_at : Int, owner : Workers \cup {None}]]
        BY <1>1, <1>6 DEF ProcessInv, ProcessTypeOK
      <3> QED BY <3>1, <3>2, <3>3, <3>4 DEF ProcessTypeOK
    <2>2. /\ proc'[w].phase = "down" /\ sweep'[w].pc = "none" /\ ~(Consuming(w)')
          /\ \A v \in Workers \ {w} : proc'[v] = proc[v] /\ sweep'[v] = sweep[v] /\ horse'[v] = horse[v]
      BY <1>6 DEF ProcessInv, ProcessTypeOK, NoProcess, NoSweep, NoHorse, Consuming
    <2>3. PhasesOK' /\ CutoffsOK'
      BY <1>1, <2>2 DEF ProcessInv, PhasesOK, CutoffsOK, Consuming
    <2>4. HorsesOK' /\ QueuedAreUnclaimed'
      BY <1>1, <1>6, <2>2 DEF ProcessInv, HorsesOK, QueuedAreUnclaimed, Consuming, Claimed
    <2> QED BY <2>1, <2>3, <2>4 DEF ProcessInv
  <1>7. CASE SweepError(w)
    <2>1. CASE proc[w].phase = "startup"
      <3>1. /\ UNCHANGED <<row, horse>> /\ proc' = [proc EXCEPT ![w] = NoProcess]
            /\ sweep' = [sweep EXCEPT ![w] = NoSweep]
        BY <1>7, <2>1 DEF SweepError
      <3>2. ~Consuming(w)
        BY <2>1 DEF ProcessInv, PhasesOK
      <3> QED BY <1>6, <3>1, <3>2
    <2>2. CASE proc[w].phase # "startup"
      <3>1. /\ UNCHANGED <<row, horse>> /\ sweep[w].pc = "update"
            /\ proc' = [proc EXCEPT ![w] = Rested(w)] /\ sweep' = [sweep EXCEPT ![w] = NoSweep]
        BY <1>7, <2>2 DEF SweepError
      <3>2. Rested(w) = [proc[w] EXCEPT !.due = now + stale_job_grace_seconds]
        BY <2>2 DEF Rested
      <3>3. /\ \A v \in Workers : /\ proc'[v].phase = proc[v].phase /\ proc'[v].born = proc[v].born
                                  /\ proc'[v].swept = proc[v].swept
            /\ \A v \in Workers : sweep'[v].pc = "update" => sweep'[v] = sweep[v]
            /\ sweep'[w].pc = "none" /\ \A v \in Workers \ {w} : sweep'[v] = sweep[v]
        BY <3>1, <3>2 DEF ProcessInv, ProcessTypeOK, NoSweep
      <3>4. ProcessTypeOK'
        <4>1. Rested(w) \in [phase : {"down", "startup", "working"}, born : Int, due : Int, swept : Int]
          <5>1. proc[w] \in [phase : {"down", "startup", "working"}, born : Int, due : Int, swept : Int]
            BY DEF ProcessInv, ProcessTypeOK
          <5>2. now + stale_job_grace_seconds \in Int
            BY <1>1
          <5> QED BY <3>2, <5>1, <5>2
        <4>2. NoSweep \in [pc : {"none", "update"}, cutoff : Int]
          BY DEF NoSweep
        <4> QED BY <1>1, <3>1, <4>1, <4>2 DEF ProcessInv, ProcessTypeOK
      <3>5. PhasesOK' /\ CutoffsOK'
        BY <1>1, <2>2, <3>1, <3>3 DEF ProcessInv, PhasesOK, CutoffsOK, Consuming
      <3>6. HorsesOK' /\ QueuedAreUnclaimed'
        BY <1>1, <3>1 DEF ProcessInv, HorsesOK, QueuedAreUnclaimed, Consuming, Claimed
      <3> QED BY <3>4, <3>5, <3>6 DEF ProcessInv
    <2> QED BY <2>1, <2>2
  <1>8. CASE KillProcess(w)
    BY <1>6, <1>8 DEF KillProcess
  <1> QED BY <1>2, <1>3, <1>5, <1>7, <1>8

(* A task's steps.                                                         *)
LEMMA TasksKeep ==
    ASSUME ProcessInv, NEW w \in Workers,
           \/ \E j \in Jobs : Dequeue(w, j)
           \/ StampClaim(w) \/ ClaimJob(w) \/ HorseDies(w)
           \/ \E status \in {"succeeded", "failed"} : EndJob(w, status)
    PROVE  ProcessInv'
  <1>1. /\ now \in Nat /\ queue \subseteq Jobs /\ now' = now /\ UNCHANGED <<proc, sweep>>
        /\ Skew[w] \in Int /\ Clock(w) \in Int /\ Clock(w) = now + Skew[w]
        /\ job_timeout_seconds \in Nat /\ KillGrace \in Nat
        /\ \A v \in Workers : Clock(v)' = Clock(v) /\ Cutoff(v)' = Cutoff(v)
    <2>1. now' = now /\ UNCHANGED <<proc, sweep>>
      BY DEF Dequeue, StampClaim, ClaimJob, HorseDies, EndJob
    <2>2. now \in Nat /\ queue \subseteq Jobs
      BY DEF ProcessInv, ProcessTypeOK
    <2>3. \A v \in Workers : Clock(v)' = Clock(v) /\ Cutoff(v)' = Cutoff(v)
      BY <2>1 DEF Clock, Cutoff
    <2> QED BY <2>1, <2>2, <2>3, ClocksAreInts, LimitIsInt
  <1>2. ASSUME \A v \in Workers : Consuming(v)' => Consuming(v) \/ proc[v].phase = "working"
        PROVE  PhasesOK' /\ CutoffsOK'
    BY <1>1, <1>2 DEF ProcessInv, PhasesOK, CutoffsOK
  <1>3. ASSUME NEW j \in Jobs, Dequeue(w, j) PROVE ProcessInv'
    <2>1. /\ proc[w].phase = "working" /\ j \in queue /\ queue' = queue \ {j} /\ row' = row
          /\ horse' = [horse EXCEPT ![w] = [pc |-> "begun", job |-> j, start |-> now, stamp |-> 0]]
      BY <1>3 DEF Dequeue
    <2>2. ProcessTypeOK'
      BY <1>1, <2>1 DEF ProcessInv, ProcessTypeOK
    <2>3. /\ horse'[w] = [pc |-> "begun", job |-> j, start |-> now, stamp |-> 0]
          /\ \A v \in Workers \ {w} : horse'[v] = horse[v]
      BY <2>1 DEF ProcessInv, ProcessTypeOK
    <2>4. PhasesOK' /\ CutoffsOK'
      BY <1>2, <2>1, <2>3 DEF Consuming
    <2>5. HorsesOK'
      BY <1>1, <2>1, <2>3 DEF ProcessInv, HorsesOK, QueuedAreUnclaimed, Consuming, Claimed
    <2>6. QueuedAreUnclaimed'
      BY <2>1 DEF ProcessInv, QueuedAreUnclaimed
    <2> QED BY <2>2, <2>4, <2>5, <2>6 DEF ProcessInv
  <1>4. CASE StampClaim(w)
    <2>1. /\ horse[w].pc = "begun" /\ UNCHANGED <<queue, row>>
          /\ horse' = [horse EXCEPT ![w] = [horse[w] EXCEPT !.pc = "stamped", !.stamp = Clock(w)]]
      BY <1>4 DEF StampClaim, Stamp, ProcessInv, ProcessTypeOK
    <2>2. ProcessTypeOK'
      BY <1>1, <2>1 DEF ProcessInv, ProcessTypeOK
    <2>3. /\ horse'[w].pc = "stamped" /\ horse'[w].stamp = Clock(w) /\ horse'[w].job = horse[w].job
          /\ horse'[w].start = horse[w].start
          /\ \A v \in Workers \ {w} : horse'[v] = horse[v]
      BY <2>1 DEF ProcessInv, ProcessTypeOK
    <2>4. PhasesOK' /\ CutoffsOK'
      BY <1>2, <2>1, <2>3 DEF Consuming
    <2>5. horse[w].start \in Int /\ horse[w].start <= now
      BY <2>1 DEF ProcessInv, ProcessTypeOK, HorsesOK, Consuming
    <2>6. HorsesOK'
      BY <1>1, <2>1, <2>3, <2>5 DEF ProcessInv, HorsesOK, Consuming, Claimed
    <2>7. QueuedAreUnclaimed'
      BY <2>1 DEF ProcessInv, QueuedAreUnclaimed
    <2> QED BY <2>2, <2>4, <2>6, <2>7 DEF ProcessInv
  <1>5. CASE ClaimJob(w)
    <2>1. /\ horse[w].pc = "stamped" /\ UNCHANGED queue /\ horse[w].job \in Jobs
          /\ row' = [row EXCEPT ![horse[w].job] =
                        [status |-> "running", started_at |-> horse[w].stamp, owner |-> w]]
          /\ horse' = [horse EXCEPT ![w] = [horse[w] EXCEPT !.pc = "claimed"]]
      BY <1>5 DEF ClaimJob, ProcessInv, ProcessTypeOK, HorsesOK, Consuming
    <2>2. ProcessTypeOK'
      BY <1>1, <2>1 DEF ProcessInv, ProcessTypeOK
    <2>3. /\ horse'[w].pc = "claimed" /\ horse'[w].stamp = horse[w].stamp
          /\ horse'[w].job = horse[w].job /\ horse'[w].start = horse[w].start
          /\ \A v \in Workers \ {w} : horse'[v] = horse[v]
          /\ row'[horse[w].job].started_at = horse[w].stamp
          /\ \A j \in Jobs \ {horse[w].job} : row'[j] = row[j]
      BY <2>1 DEF ProcessInv, ProcessTypeOK
    <2>4. PhasesOK' /\ CutoffsOK'
      BY <1>2, <2>1, <2>3 DEF Consuming
    <2>5. HorsesOK'
      BY <1>1, <2>1, <2>3 DEF ProcessInv, HorsesOK, Consuming, Claimed
    <2>6. QueuedAreUnclaimed'
      BY <1>1, <2>1, <2>3 DEF ProcessInv, QueuedAreUnclaimed, HorsesOK, Consuming
    <2> QED BY <2>2, <2>4, <2>5, <2>6 DEF ProcessInv
  <1>6. ASSUME horse' = [horse EXCEPT ![w] = NoHorse], UNCHANGED queue,
               row' \in [Jobs -> [status : {"queued", "running", "succeeded", "failed"},
                                  started_at : Int, owner : Workers \cup {None}]],
               \A j \in Jobs : row'[j] = row[j] \/ (Consuming(w) /\ j = horse[w].job)
        PROVE  ProcessInv'
    <2>1. ProcessTypeOK'
      BY <1>1, <1>6 DEF ProcessInv, ProcessTypeOK, NoHorse
    <2>2. horse'[w].pc = "none" /\ \A v \in Workers \ {w} : horse'[v] = horse[v]
      BY <1>6 DEF ProcessInv, ProcessTypeOK, NoHorse
    <2>3. PhasesOK' /\ CutoffsOK'
      BY <1>2, <2>2 DEF Consuming
    <2>4. HorsesOK'
      BY <1>1, <1>6, <2>2 DEF ProcessInv, HorsesOK, Consuming, Claimed
    <2>5. QueuedAreUnclaimed'
      BY <1>1, <1>6 DEF ProcessInv, QueuedAreUnclaimed, HorsesOK, Consuming
    <2> QED BY <2>1, <2>3, <2>4, <2>5 DEF ProcessInv
  <1>7. CASE HorseDies(w)
    <2>1. row' = row /\ horse' = [horse EXCEPT ![w] = NoHorse] /\ UNCHANGED queue
      BY <1>7 DEF HorseDies
    <2>2. row' \in [Jobs -> [status : {"queued", "running", "succeeded", "failed"},
                                  started_at : Int, owner : Workers \cup {None}]]
      BY <2>1 DEF ProcessInv, ProcessTypeOK
    <2> QED BY <1>6, <2>1, <2>2
  <1>8. ASSUME NEW status \in {"succeeded", "failed"}, EndJob(w, status) PROVE ProcessInv'
    <2>1. /\ Consuming(w) /\ horse[w].job \in Jobs
          /\ row' = [row EXCEPT ![horse[w].job] = [row[horse[w].job] EXCEPT !.status = status]]
          /\ horse' = [horse EXCEPT ![w] = NoHorse] /\ UNCHANGED queue
      BY <1>8 DEF EndJob, ProcessInv, ProcessTypeOK, HorsesOK, Consuming
    <2>2. row' \in [Jobs -> [status : {"queued", "running", "succeeded", "failed"},
                                  started_at : Int, owner : Workers \cup {None}]]
      <3>1. [row[horse[w].job] EXCEPT !.status = status] \in
               [status : {"queued", "running", "succeeded", "failed"},
                started_at : Int, owner : Workers \cup {None}]
        <4>1. row[horse[w].job] \in [status : {"queued", "running", "succeeded", "failed"},
                                     started_at : Int, owner : Workers \cup {None}]
          BY <2>1 DEF ProcessInv, ProcessTypeOK
        <4>2. status \in {"queued", "running", "succeeded", "failed"}
          OBVIOUS
        <4> QED BY <4>1, <4>2
      <3> QED BY <2>1, <3>1 DEF ProcessInv, ProcessTypeOK
    <2>3. \A j \in Jobs : row'[j] = row[j] \/ (Consuming(w) /\ j = horse[w].job)
      BY <2>1 DEF ProcessInv, ProcessTypeOK
    <2> QED BY <1>6, <2>1, <2>2, <2>3
  <1> QED BY <1>3, <1>4, <1>5, <1>7, <1>8

(* Time passes only while no work-horse is due to be killed.               *)
LEMMA TickKeeps ==
    ASSUME ProcessInv, Tick
    PROVE  ProcessInv'
  <1>1. /\ now \in Nat /\ now' = now + 1 /\ UNCHANGED <<queue, row, proc, sweep, horse>>
        /\ \A w \in Workers : ~KillDue(w)
    BY DEF Tick, ProcessInv, ProcessTypeOK
  <1>2. \A w \in Workers : /\ Clock(w) \in Int /\ Clock(w)' = Clock(w) + 1
                           /\ Cutoff(w) \in Int /\ Cutoff(w)' = Cutoff(w) + 1
    <2> SUFFICES ASSUME NEW w \in Workers
                 PROVE  /\ Clock(w) \in Int /\ Clock(w)' = Clock(w) + 1
                        /\ Cutoff(w) \in Int /\ Cutoff(w)' = Cutoff(w) + 1
      OBVIOUS
    <2>1. Clock(w)' = now' + Skew[w] /\ Cutoff(w)' = (now' + Skew[w]) - Limit
      <3>1. Clock(w)' = now' + Skew[w]
        BY DEF Clock
      <3>2. Cutoff(w)' = Clock(w)' - Limit
        BY DEF Cutoff, Limit
      <3> QED BY <3>1, <3>2
    <2>2. /\ Skew[w] \in Int /\ Clock(w) \in Int /\ Cutoff(w) \in Int
          /\ Clock(w) = now + Skew[w] /\ Cutoff(w) = (now + Skew[w]) - Limit
      BY <1>1, ClocksAreInts
    <2> QED BY <1>1, <2>1, <2>2, LimitIsInt
  <1>3. ProcessTypeOK'
    BY <1>1 DEF ProcessInv, ProcessTypeOK
  <1>4. PhasesOK' /\ CutoffsOK'
    BY <1>1, <1>2 DEF ProcessInv, ProcessTypeOK, PhasesOK, CutoffsOK, Consuming
  <1>5. HorsesOK'
    <2>1. ASSUME NEW w \in Workers, Consuming(w), Forks(w)
          PROVE  now + 1 <= horse[w].start + job_timeout_seconds + KillGrace
      BY <1>1, <2>1, LimitIsInt DEF KillDue, Consuming, ProcessInv, ProcessTypeOK
    <2>2. \A w \in Workers : horse[w].start \in Int
      BY DEF ProcessInv, ProcessTypeOK
    <2> QED BY <1>1, <2>1, <2>2 DEF ProcessInv, HorsesOK, Consuming, Claimed
  <1>6. QueuedAreUnclaimed'
    BY <1>1 DEF ProcessInv, QueuedAreUnclaimed
  <1> QED BY <1>3, <1>4, <1>5, <1>6 DEF ProcessInv

LEMMA ProcessInvKept == ProcessInv /\ [ProcessNext]_processVars => ProcessInv'
  <1> SUFFICES ASSUME ProcessInv, [ProcessNext]_processVars PROVE ProcessInv'
    OBVIOUS
  <1>1. CASE UNCHANGED processVars
    BY <1>1 DEF processVars, ProcessInv, ProcessTypeOK, PhasesOK, CutoffsOK, HorsesOK,
                QueuedAreUnclaimed, Consuming, Claimed, Cutoff, Clock
  <1>2. CASE ProcessNext
    BY <1>2, SweepsKeep, TasksKeep, TickKeeps DEF ProcessNext
  <1> QED BY <1>1, <1>2

(* Forked tasks end in time, sweeps look at the past, and a process sweeps *)
(* before it consumes.                                                     *)
THEOREM ProcessInvariance == ProcessSpec => []ProcessInv
  BY ProcessInvHolds, ProcessInvKept, PTL DEF ProcessSpec

-----------------------------------------------------------------------------
(* The reaper never fails the job of a living work-horse: the grace period *)
(* covers RQ's delay and the skew of the clocks.                           *)
THEOREM ReaperSparesTheLiving == ProcessSpec => []LiveJobIsNeverSwept
  <1>1. ProcessInit => LiveJobIsNeverSwept
    BY DEF ProcessInit, LiveJobIsNeverSwept, Claimed, NoHorse
  <1>2. ProcessInv /\ LiveJobIsNeverSwept /\ [ProcessNext]_processVars => LiveJobIsNeverSwept'
    <2> SUFFICES ASSUME ProcessInv, LiveJobIsNeverSwept, [ProcessNext]_processVars,
                        NEW w \in Workers, Forks(w), Claimed(w)'
                 PROVE  row'[horse'[w].job].status = "running"
      BY DEF LiveJobIsNeverSwept
    <2>0. row \in [Jobs -> [status : {"queued", "running", "succeeded", "failed"},
                           started_at : Int, owner : Workers \cup {None}]]
          /\ horse \in [Workers -> [pc : {"none", "begun", "stamped", "claimed"},
                              job : Jobs \cup {None}, start : Int, stamp : Int]]
      BY DEF ProcessInv, ProcessTypeOK
    <2>1. ASSUME horse'[w] = horse[w], row' = row
          PROVE  row'[horse'[w].job].status = "running"
      BY <2>1 DEF LiveJobIsNeverSwept, Claimed
    <2>2. ASSUME NEW v \in Workers, EndSweep(v)
          PROVE  row'[horse'[w].job].status = "running"
      <3>1. /\ horse' = horse /\ sweep[v].pc = "update"
            /\ row' = [j \in Jobs |->
                  IF Stale(v, row[j]) THEN [row[j] EXCEPT !.status = "failed"] ELSE row[j]]
        BY <2>2 DEF EndSweep
      <3>2. Claimed(w) /\ horse[w].job \in Jobs /\ row[horse[w].job].status = "running"
        BY <3>1 DEF Claimed, Consuming, LiveJobIsNeverSwept, ProcessInv, HorsesOK
      <3>5. ~Stale(v, row[horse[w].job])
        BY <3>1, <3>2, OverdueIsAbandoned
      <3> QED BY <3>1, <3>2, <3>5
    <2>3. ASSUME NEW v \in Workers, ClaimJob(v)
          PROVE  row'[horse'[w].job].status = "running"
      <3>1. /\ Consuming(v) /\ horse[v].job \in Jobs /\ horse[v].pc = "stamped"
            /\ row' = [row EXCEPT ![horse[v].job] =
                          [status |-> "running", started_at |-> horse[v].stamp, owner |-> v]]
            /\ horse' = [horse EXCEPT ![v] = [horse[v] EXCEPT !.pc = "claimed"]]
        BY <2>0, <2>3 DEF ClaimJob, Consuming, ProcessInv, HorsesOK
      <3>2. CASE w = v
        BY <2>0, <3>1, <3>2
      <3>3. CASE w # v
        <4>1. horse'[w] = horse[w] /\ Claimed(w) /\ Consuming(w) /\ row[horse[w].job].status = "running"
          BY <2>0, <3>1, <3>3 DEF Claimed, Consuming, LiveJobIsNeverSwept
        <4>2. horse[w].job # horse[v].job /\ horse[w].job \in Jobs
          BY <3>1, <3>3, <4>1 DEF ProcessInv, HorsesOK
        <4> QED BY <2>0, <3>1, <4>1, <4>2
      <3> QED BY <3>2, <3>3
    <2>4. ASSUME NEW v \in Workers, NEW status \in {"succeeded", "failed"}, EndJob(v, status)
          PROVE  row'[horse'[w].job].status = "running"
      <3>1. /\ Consuming(v) /\ horse[v].job \in Jobs
            /\ row' = [row EXCEPT ![horse[v].job].status = status]
            /\ horse' = [horse EXCEPT ![v] = NoHorse]
        BY <2>4 DEF EndJob, Consuming, ProcessInv, HorsesOK
      <3>2. w # v
        BY <2>0, <3>1 DEF Claimed, NoHorse
      <3>3. horse'[w] = horse[w] /\ Claimed(w) /\ Consuming(w) /\ row[horse[w].job].status = "running"
        BY <2>0, <3>1, <3>2 DEF Claimed, Consuming, LiveJobIsNeverSwept
      <3>4. horse[w].job # horse[v].job /\ horse[w].job \in Jobs
        BY <3>1, <3>2, <3>3 DEF ProcessInv, HorsesOK
      <3> QED BY <2>0, <3>1, <3>3, <3>4
    <2>5. ASSUME NEW v \in Workers,
                 \/ StartProcess(v) \/ TimerSweep(v) \/ SweepError(v) \/ KillProcess(v)
                 \/ StampClaim(v) \/ HorseDies(v) \/ \E j \in Jobs : Dequeue(v, j)
          PROVE  row'[horse'[w].job].status = "running"
      <3>1. row' = row
        BY <2>5 DEF StartProcess, TimerSweep, SweepError, KillProcess, StampClaim, HorseDies, Dequeue
      <3>2. horse' = horse \/ \E h : horse' = [horse EXCEPT ![v] = h] /\ h.pc # "claimed"
        <4>1. CASE StampClaim(v)
          <5>1. horse' = [horse EXCEPT ![v] = [horse[v] EXCEPT !.pc = "stamped", !.stamp = Stamp(v)]]
            BY <2>0, <4>1 DEF StampClaim
          <5>2. [horse[v] EXCEPT !.pc = "stamped", !.stamp = Stamp(v)].pc # "claimed"
            BY <2>0
          <5> QED BY <5>1, <5>2
        <4>2. CASE StartProcess(v) \/ TimerSweep(v) \/ SweepError(v)
          BY <4>2 DEF StartProcess, TimerSweep, SweepError
        <4>3. CASE KillProcess(v) \/ HorseDies(v)
          <5>1. horse' = [horse EXCEPT ![v] = NoHorse] /\ NoHorse.pc # "claimed"
            BY <4>3 DEF KillProcess, HorseDies, NoHorse
          <5> QED BY <5>1
        <4>4. ASSUME NEW j \in Jobs, Dequeue(v, j)
              PROVE  \E h : horse' = [horse EXCEPT ![v] = h] /\ h.pc # "claimed"
          <5> DEFINE h == [pc |-> "begun", job |-> j, start |-> now, stamp |-> 0]
          <5>1. horse' = [horse EXCEPT ![v] = h] /\ h.pc # "claimed"
            BY <4>4 DEF Dequeue
          <5> QED BY <5>1
        <4> QED BY <2>5, <4>1, <4>2, <4>3, <4>4
      <3>3. horse'[w] = horse[w]
        BY <2>0, <3>2 DEF Claimed
      <3> QED BY <2>1, <3>1, <3>3
    <2>6. ASSUME Tick \/ UNCHANGED processVars PROVE row'[horse'[w].job].status = "running"
      BY <2>1, <2>6 DEF Tick, processVars
    <2> QED BY <2>2, <2>3, <2>4, <2>5, <2>6 DEF ProcessNext
  <1> QED BY <1>1, <1>2, ProcessInvariance, PTL DEF ProcessSpec

(* No overdue job outlives a completed sweep, or appears after it.         *)
THEOREM SweepsAreFinal == ProcessSpec => []StaleRowsAreGone
  <1>1. ProcessInit => StaleRowsAreGone
    BY DEF ProcessInit, StaleRowsAreGone
  <1>2. ProcessInv /\ StaleRowsAreGone /\ [ProcessNext]_processVars => StaleRowsAreGone'
    <2> SUFFICES ASSUME ProcessInv, StaleRowsAreGone, [ProcessNext]_processVars,
                        NEW v \in Workers, NEW j \in Jobs,
                        proc'[v].phase = "working", row'[j].status = "running", Forks(row'[j].owner)
                 PROVE  row'[j].started_at >= proc'[v].swept
      BY DEF StaleRowsAreGone, Forks
    <2>0. /\ row \in [Jobs -> [status : {"queued", "running", "succeeded", "failed"},
                              started_at : Int, owner : Workers \cup {None}]]
          /\ proc \in [Workers -> [phase : {"down", "startup", "working"}, born : Int,
                                   due : Int, swept : Int]]
          /\ sweep \in [Workers -> [pc : {"none", "update"}, cutoff : Int]]
          /\ \A w \in Workers : horse[w].stamp \in Int
      BY DEF ProcessInv, ProcessTypeOK
    <2>1. ASSUME row'[j] = row[j], proc'[v].swept = proc[v].swept, proc[v].phase = "working"
          PROVE  row'[j].started_at >= proc'[v].swept
      BY <2>1 DEF StaleRowsAreGone
    <2>2. ASSUME NEW w \in Workers, EndSweep(w)
          PROVE  row'[j].started_at >= proc'[v].swept
      <3>1. /\ row'[j] = IF Stale(w, row[j]) THEN [row[j] EXCEPT !.status = "failed"] ELSE row[j]
            /\ proc' = [proc EXCEPT ![w] = [Rested(w) EXCEPT !.swept = sweep[w].cutoff]]
        BY <2>2 DEF EndSweep
      <3>2. row'[j] = row[j] /\ ~Stale(w, row[j])
        BY <2>0, <3>1
      <3>3. CASE w = v
        <4>1. Rested(w).swept = proc[w].swept /\ DOMAIN Rested(w) = {"phase", "born", "due", "swept"}
          BY <2>0 DEF Rested
        <4>2. proc'[v].swept = sweep[w].cutoff
          BY <2>0, <3>1, <3>3, <4>1
        <4> QED BY <2>0, <3>2, <4>2 DEF Stale
      <3>4. CASE w # v
        BY <2>0, <2>1, <3>1, <3>2, <3>4
      <3> QED BY <3>3, <3>4
    <2>3. ASSUME NEW w \in Workers, ClaimJob(w)
          PROVE  row'[j].started_at >= proc'[v].swept
      <3>1. /\ Consuming(w) /\ horse[w].job \in Jobs /\ horse[w].pc = "stamped" /\ proc' = proc
            /\ row' = [row EXCEPT ![horse[w].job] =
                          [status |-> "running", started_at |-> horse[w].stamp, owner |-> w]]
        BY <2>3 DEF ClaimJob, Consuming, ProcessInv, HorsesOK
      <3>2. CASE j = horse[w].job
        <4>1. row'[j].started_at = horse[w].stamp /\ Forks(w)
          BY <2>0, <3>1, <3>2
        <4>2. proc[v].swept \in Int /\ proc[v].swept <= Cutoff(v)
          BY <2>0, <3>1 DEF ProcessInv, CutoffsOK
        <4> QED BY <3>1, <4>1, <4>2, StampsAreRecent
      <3>3. CASE j # horse[w].job
        BY <2>0, <2>1, <3>1, <3>3
      <3> QED BY <3>2, <3>3
    <2>4. ASSUME NEW w \in Workers, NEW status \in {"succeeded", "failed"}, EndJob(w, status)
          PROVE  row'[j].started_at >= proc'[v].swept
      <3>1. row' = [row EXCEPT ![horse[w].job].status = status] /\ proc' = proc
        BY <2>4 DEF EndJob
      <3>2. row'[j] = row[j]
        BY <2>0, <3>1
      <3> QED BY <2>1, <3>1, <3>2
    <2>5. ASSUME NEW w \in Workers,
                 \/ StartProcess(w) \/ TimerSweep(w) \/ SweepError(w) \/ KillProcess(w)
                 \/ StampClaim(w) \/ HorseDies(w) \/ \E i \in Jobs : Dequeue(w, i)
          PROVE  row'[j].started_at >= proc'[v].swept
      <3>1. row' = row
        BY <2>5 DEF StartProcess, TimerSweep, SweepError, KillProcess, StampClaim, HorseDies, Dequeue
      <3>2. proc'[v].swept = proc[v].swept /\ proc[v].phase = "working"
        <4>1. CASE SweepError(w)
          <5>1. proc' = [proc EXCEPT ![w] = IF proc[w].phase = "startup" THEN NoProcess ELSE Rested(w)]
            BY <4>1 DEF SweepError
          <5>2. CASE w = v
            BY <2>0, <5>1, <5>2 DEF Rested, NoProcess
          <5>3. CASE w # v
            BY <2>0, <5>1, <5>3
          <5> QED BY <5>2, <5>3
        <4>2. CASE ~SweepError(w)
          <5>1. \/ proc' = proc
                \/ \E p : proc' = [proc EXCEPT ![w] = p] /\ p.phase # "working"
            <6>1. CASE StartProcess(w)
              <7> DEFINE p == [phase |-> "startup", born |-> Clock(w), due |-> now, swept |-> 0]
              <7>1. proc' = [proc EXCEPT ![w] = p] /\ p.phase # "working"
                BY <6>1 DEF StartProcess
              <7> QED BY <7>1
            <6>2. CASE KillProcess(w)
              <7>1. proc' = [proc EXCEPT ![w] = NoProcess] /\ NoProcess.phase # "working"
                BY <6>2 DEF KillProcess, NoProcess
              <7> QED BY <7>1
            <6>3. CASE ~StartProcess(w) /\ ~KillProcess(w)
              BY <2>5, <4>2, <6>3 DEF TimerSweep, StampClaim, HorseDies, Dequeue
            <6> QED BY <6>1, <6>2, <6>3
          <5> QED BY <2>0, <5>1
        <4> QED BY <4>1, <4>2
      <3> QED BY <2>1, <3>1, <3>2
    <2>6. ASSUME Tick \/ UNCHANGED processVars PROVE row'[j].started_at >= proc'[v].swept
      BY <2>1, <2>6 DEF Tick, processVars
    <2> QED BY <2>2, <2>3, <2>4, <2>5, <2>6 DEF ProcessNext
  <1> QED BY <1>1, <1>2, ProcessInvariance, PTL DEF ProcessSpec

(* What was overdue when a process started is gone before it consumes.     *)
THEOREM SweptBeforeConsuming == ProcessSpec => []NothingAbandonedWhileConsuming
  <1>1. ProcessInv /\ StaleRowsAreGone => NothingAbandonedWhileConsuming
    <2> SUFFICES ASSUME ProcessInv, StaleRowsAreGone, NEW w \in Workers, NEW j \in Jobs,
                        Consuming(w), row[j].status = "running", Forks(row[j].owner)
                 PROVE  row[j].started_at >= proc[w].born - Limit
      BY DEF NothingAbandonedWhileConsuming
    <2>1. proc[w].phase = "working" /\ proc[w].swept >= proc[w].born - Limit
      BY DEF ProcessInv, PhasesOK
    <2>2. row[j].started_at >= proc[w].swept
      BY <2>1 DEF StaleRowsAreGone
    <2>3. proc[w].swept \in Int /\ proc[w].born \in Int /\ row[j].started_at \in Int /\ Limit \in Int
      BY LimitIsInt DEF ProcessInv, ProcessTypeOK
    <2> QED BY <2>1, <2>2, <2>3
  <1> QED BY <1>1, ProcessInvariance, SweepsAreFinal, PTL

-----------------------------------------------------------------------------
(* The processes implement the ownership of jobs.                          *)

Held(w) == IF Claimed(w) THEN {horse[w].job} ELSE {}

(* A step of one work-horse leaves what the others hold.                   *)
LEMMA OneHolder ==
    ASSUME NEW w \in Workers, DOMAIN horse = Workers,
           NEW h, horse' = [horse EXCEPT ![w] = h],
           NEW S, S = IF h.pc = "claimed" THEN {h.job} ELSE {}
    PROVE  [v \in Workers |-> Held(v)]' = [[v \in Workers |-> Held(v)] EXCEPT ![w] = S]
  <1>1. ASSUME NEW v \in Workers
        PROVE  Held(v)' = IF v = w THEN S ELSE Held(v)
    BY DEF Held, Claimed
  <1> QED BY <1>1

(* Clocks, timers, start-ups and deaths hidden, every step claims, ends,   *)
(* drops or reaps a job as the Reaper module allows: only jobs that no     *)
(* forked task holds are ever reaped.                                      *)
THEOREM ProcessesKeepOwnership == ProcessSpec => ImplementsOwnership
  <1> DEFINE status == [j \in Jobs |-> row[j].status]
             held   == [w \in Workers |-> Held(w)]
  <1>1. ProcessInit => Ownership!OwnInit
    BY DEF ProcessInit, Ownership!OwnInit, Claimed, NoHorse
  <1>2. ProcessInv /\ [ProcessNext]_processVars => [Ownership!OwnNext]_Ownership!ownVars
    <2> SUFFICES ASSUME ProcessInv, [ProcessNext]_processVars
                 PROVE  Ownership!OwnNext \/ UNCHANGED Ownership!ownVars
      OBVIOUS
    <2>0. row \in [Jobs -> [status : {"queued", "running", "succeeded", "failed"},
                           started_at : Int, owner : Workers \cup {None}]]
          /\ horse \in [Workers -> [pc : {"none", "begun", "stamped", "claimed"},
                              job : Jobs \cup {None}, start : Int, stamp : Int]]
      BY DEF ProcessInv, ProcessTypeOK
    <2>1. ASSUME UNCHANGED <<row, horse>> PROVE UNCHANGED Ownership!ownVars
      BY <2>1 DEF Ownership!ownVars, Claimed
    <2>2. ASSUME NEW w \in Workers, EndSweep(w) PROVE Ownership!OwnNext
      <3>0. PICK S \in SUBSET Jobs : S = {j \in Jobs : Stale(w, row[j])}
        OBVIOUS
      <3>1. /\ horse' = horse /\ sweep[w].pc = "update"
            /\ row' = [j \in Jobs |->
                  IF Stale(w, row[j]) THEN [row[j] EXCEPT !.status = "failed"] ELSE row[j]]
        BY <2>2 DEF EndSweep
      <3>2. held' = held
        BY <3>1 DEF Held, Claimed
      <3>3. ASSUME NEW j \in S
            PROVE  status[j] = "running" /\ \A v \in {u \in Workers : Forks(u)} : j \notin held[v]
        <4>1. status[j] = "running"
          BY <3>0, <3>3 DEF Stale
        <4>2. ASSUME NEW v \in Workers, Forks(v) PROVE j \notin held[v]
          BY <3>0, <3>1, <3>3, <4>2, OverdueIsAbandoned DEF Held
        <4> QED BY <4>1, <4>2
      <3>4. status' = [j \in Jobs |-> IF j \in S THEN "failed" ELSE status[j]]
        <4>1. \A j \in Jobs : row'[j].status = IF j \in S THEN "failed" ELSE status[j]
          BY <2>0, <3>0, <3>1
        <4> QED BY <4>1
      <3>5. Ownership!Reap(S)
        BY <3>2, <3>3, <3>4 DEF Ownership!Reap, Ownership!Abandoned, Held
      <3> QED BY <3>5 DEF Ownership!OwnNext
    <2>3. ASSUME NEW w \in Workers, ClaimJob(w) PROVE Ownership!OwnNext
      <3>0. PICK j \in Jobs : j = horse[w].job
        BY <2>3 DEF ClaimJob, Consuming, ProcessInv, HorsesOK
      <3>1. /\ horse[w].pc = "stamped" /\ row[j].status = "queued"
            /\ row' = [row EXCEPT ![j] =
                          [status |-> "running", started_at |-> horse[w].stamp, owner |-> w]]
            /\ horse' = [horse EXCEPT ![w] = [horse[w] EXCEPT !.pc = "claimed"]]
        BY <2>0, <2>3, <3>0 DEF ClaimJob
      <3>2. PICK h : horse' = [horse EXCEPT ![w] = h] /\ h.pc = "claimed" /\ h.job = j
        <4> DEFINE g == [horse[w] EXCEPT !.pc = "claimed"]
        <4>1. horse' = [horse EXCEPT ![w] = g]
          BY <3>1
        <4>2. g.pc = "claimed" /\ g.job = j
          BY <2>0, <3>0
        <4> QED BY <4>1, <4>2
      <3>3. held' = [held EXCEPT ![w] = {j}]
        BY <2>0, <3>2, OneHolder
      <3>4. held[w] = {}
        BY <3>1 DEF Held, Claimed
      <3>5. status' = [status EXCEPT ![j] = "running"]
        BY <2>0, <3>1
      <3>6. status[j] = "queued"
        BY <3>1
      <3>7. Ownership!Claim(w, j)
        BY <3>3, <3>4, <3>5, <3>6 DEF Ownership!Claim, Held
      <3> QED BY <3>7 DEF Ownership!OwnNext
    <2>4. ASSUME NEW w \in Workers, NEW outcome \in {"succeeded", "failed"}, EndJob(w, outcome)
          PROVE  Ownership!OwnNext
      <3>0. PICK j \in Jobs : j = horse[w].job
        BY <2>4 DEF EndJob, Consuming, ProcessInv, HorsesOK
      <3>1. /\ horse[w].pc = "claimed"
            /\ row' = [row EXCEPT ![j].status = outcome]
            /\ horse' = [horse EXCEPT ![w] = NoHorse]
        BY <2>4, <3>0 DEF EndJob
      <3>2. held' = [held EXCEPT ![w] = {}]
        <4>1. NoHorse.pc # "claimed"
          BY DEF NoHorse
        <4> QED BY <2>0, <3>1, <4>1, OneHolder
      <3>3. held[w] = {j}
        BY <3>0, <3>1 DEF Held, Claimed
      <3>4. status' = [status EXCEPT ![j] = outcome]
        BY <2>0, <3>1
      <3>5. Ownership!End(w, j, outcome)
        BY <3>2, <3>3, <3>4 DEF Ownership!End, Held
      <3> QED BY <3>5 DEF Ownership!OwnNext
    <2>5. ASSUME NEW w \in Workers, KillProcess(w) \/ HorseDies(w)
          PROVE  Ownership!OwnNext \/ UNCHANGED Ownership!ownVars
      <3>1. row' = row /\ horse' = [horse EXCEPT ![w] = NoHorse]
        BY <2>5 DEF KillProcess, HorseDies
      <3>2. held' = [held EXCEPT ![w] = {}] /\ status' = status
        <4>1. NoHorse.pc # "claimed"
          BY DEF NoHorse
        <4>2. held' = [held EXCEPT ![w] = {}]
          BY <2>0, <3>1, <4>1, OneHolder
        <4> QED BY <3>1, <4>2
      <3>3. CASE held[w] # {}
        <4>1. Ownership!Drop(w)
          BY <3>2, <3>3 DEF Ownership!Drop, Held
        <4> QED BY <4>1 DEF Ownership!OwnNext
      <3>4. CASE held[w] = {}
        <4>1. held' = held
          BY <3>2, <3>4
        <4> QED BY <3>2, <4>1 DEF Ownership!ownVars, Held
      <3> QED BY <3>3, <3>4
    <2>6. ASSUME NEW w \in Workers, StampClaim(w) \/ \E j \in Jobs : Dequeue(w, j)
          PROVE  UNCHANGED Ownership!ownVars
      <3>1. row' = row /\ horse[w].pc # "claimed"
        BY <2>6 DEF StampClaim, Dequeue
      <3>2. PICK h : horse' = [horse EXCEPT ![w] = h] /\ h.pc # "claimed"
        <4>1. CASE StampClaim(w)
          <5> DEFINE h == [horse[w] EXCEPT !.pc = "stamped", !.stamp = Stamp(w)]
          <5>1. horse' = [horse EXCEPT ![w] = h]
            BY <2>0, <4>1 DEF StampClaim
          <5>2. h.pc # "claimed"
            BY <2>0
          <5> QED BY <5>1, <5>2
        <4>2. ASSUME NEW j \in Jobs, Dequeue(w, j)
              PROVE  \E h : horse' = [horse EXCEPT ![w] = h] /\ h.pc # "claimed"
          <5> DEFINE h == [pc |-> "begun", job |-> j, start |-> now, stamp |-> 0]
          <5>1. horse' = [horse EXCEPT ![w] = h] /\ h.pc # "claimed"
            BY <4>2 DEF Dequeue
          <5> QED BY <5>1
        <4> QED BY <2>6, <4>1, <4>2
      <3>3. held' = [held EXCEPT ![w] = {}]
        BY <2>0, <3>2, OneHolder
      <3>4. held[w] = {}
        BY <3>1 DEF Held, Claimed
      <3>5. held' = held
        BY <3>3, <3>4
      <3> QED BY <3>1, <3>5 DEF Ownership!ownVars, Held
    <2>7. ASSUME NEW w \in Workers, StartProcess(w) \/ TimerSweep(w) \/ SweepError(w)
          PROVE  UNCHANGED Ownership!ownVars
      BY <2>1, <2>7 DEF StartProcess, TimerSweep, SweepError
    <2>8. ASSUME Tick \/ UNCHANGED processVars PROVE UNCHANGED Ownership!ownVars
      BY <2>1, <2>8 DEF Tick, processVars
    <2> QED BY <2>2, <2>3, <2>4, <2>5, <2>6, <2>7, <2>8 DEF ProcessNext
  <1> QED BY <1>1, <1>2, ProcessInvariance, PTL
        DEF ProcessSpec, ImplementsOwnership, Ownership!OwnSpec
=============================================================================
