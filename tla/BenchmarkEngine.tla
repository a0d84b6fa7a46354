--------------------------- MODULE BenchmarkEngine ---------------------------
(***************************************************************************)
(* One job's numbers end to end: a body is checked and stored, the engine  *)
(* runs each attack over the batches of the evaluation set and checks its  *)
(* perturbation against the budget, the results are stored and scored.     *)
(* How the service's processes race is the subject of JobService; here the *)
(* job has one worker, and what may go wrong is the arithmetic.            *)
(***************************************************************************)
EXTENDS Requests, Attacks

CONSTANTS
    Payloads,       \* the bodies clients send
    DatasetSize, benchmark_max_samples, benchmark_batch_size,
    Pixels,         \* the values of a pixel of the images
    Tolerance,      \* 1e-6
    Limit           \* 0.11

VARIABLES
    job,        \* the row of jobs
    reply,      \* the last answer of the API, with what it was asked
    eval,       \* the local variables of _evaluate_attack
    results,    \* the list run_benchmark builds
    stored      \* the rows of job_results

engineVars == <<job, reply, eval, results, stored, attack>>

Samples == Lesser(DatasetSize, benchmark_max_samples)

ASSUME EngineAssumption ==
    /\ DatasetSize \in Nat \ {0} /\ benchmark_max_samples \in Nat \ {0}
    /\ benchmark_batch_size \in Nat \ {0}
    /\ Pixels \subseteq 0..One
    /\ Tolerance \in Nat /\ 2 * Ulp <= Tolerance
    /\ Limit \in Nat /\ MAX_EPSILON + Tolerance + 50 < Limit     \* half of the norm's last decimal
    /\ Payloads \subseteq [model : STRING, epsilon : Int, iterations : Int, attacks : Seq(STRING)]

(* No answer yet, or a 400 or 409, which shows no column of a job.         *)
NothingShown == [code |-> "none"]

NoJob  == [status |-> "absent"]
NoEval == [batch |-> 0, correct |-> 0, total |-> 0, worst |-> 0, nll |-> "finite"]

EngineInit ==
    /\ job = NoJob
    /\ reply = NothingShown
    /\ eval = NoEval
    /\ results = <<>>
    /\ stored = <<>>
    /\ attack = Idle

(***************************************************************************)
(* POST /v1/jobs.                                                          *)
(***************************************************************************)
Acceptable(p) == JobCreateRequest(p) /\ ValidateSubmission(p)

Refuse(p) ==
    /\ ~Acceptable(p)
    /\ reply' = NothingShown
    /\ UNCHANGED <<job, eval, results, stored, attack>>

(* What a client is shown of a job, and the body that would ask for it.    *)
JobResource(j) ==
    [ status |-> j.status, model |-> j.model, attacks |-> j.attacks,
      epsilon |-> j.epsilon, iterations |-> j.iterations ]

JobOf(p, status) ==
    [ status |-> status, model |-> p.model, attacks |-> p.attacks,
      epsilon |-> StoredEpsilon(p.epsilon), iterations |-> p.iterations,
      fingerprint |-> RequestFingerprint(p) ]

(* The row that is stored, unless the CHECK on epsilon refuses it: then    *)
(* create_job finds no job with the key and raises the error again (500).  *)
(* The answer shows the object that was inserted, which the session does   *)
(* not read back (expire_on_commit=False): its epsilon is not yet rounded. *)
Create(p) ==
    /\ job.status = "absent"
    /\ Acceptable(p)
    /\ IF StoredEpsilon(p.epsilon) > 0
       THEN /\ job' = JobOf(p, "queued")
            /\ reply' = [code |-> "created", body |-> p,
                         shown |-> [JobResource(JobOf(p, "queued")) EXCEPT !.epsilon = p.epsilon]]
       ELSE /\ reply' = [code |-> "error", body |-> p]
            /\ UNCHANGED job
    /\ UNCHANGED <<eval, results, stored, attack>>

(* Another body with the key of the job, whatever has become of it.        *)
Replay(p) ==
    /\ job.status # "absent"
    /\ Acceptable(p)
    /\ reply' = IF RequestFingerprint(p) = job.fingerprint
                THEN [code |-> "replayed", body |-> p, shown |-> JobResource(job)]
                ELSE NothingShown
    /\ UNCHANGED <<job, eval, results, stored, attack>>

(***************************************************************************)
(* run_benchmark.                                                          *)
(***************************************************************************)
Start ==
    /\ job.status = "queued"
    /\ job' = [job EXCEPT !.status = "running"]
    /\ reply' = NothingShown
    /\ UNCHANGED <<eval, results, stored, attack>>

Fail ==
    /\ job' = [job EXCEPT !.status = "failed"]
    /\ eval' = NoEval /\ results' = <<>> /\ attack' = Idle
    /\ UNCHANGED <<reply, stored>>

(* A missing or foreign checkpoint, no dataset, an error of the engine or  *)
(* RQ's alarm.                                                             *)
EngineRaises == job.status = "running" /\ Fail

Batches == (Samples + benchmark_batch_size - 1) \div benchmark_batch_size

(* Slip: the last batch is taken to be full.                               *)
FullBatch(b) == benchmark_batch_size

(* The loader's batches are a prefix of the dataset; the last may be short. *)
BatchLength(b) == Lesser(benchmark_batch_size, Samples - b * benchmark_batch_size)

Running == job.status = "running" /\ Len(results) < Len(job.attacks)

CallAttack(pixel) ==
    /\ Running /\ eval.batch < Batches
    /\ Call(job.attacks[Len(results) + 1], pixel, job.epsilon, job.iterations)
    /\ UNCHANGED <<job, reply, eval, results, stored>>

StepAttack == Running /\ AttackStep /\ UNCHANGED <<job, reply, eval, results, stored>>

(* max(max_perturbation, batch_norm) keeps its first argument when the     *)
(* second is NaN; the sum of the losses does not.                          *)
MeasureBatch(correct) ==
    /\ Running /\ attack.pc = "returned"
    /\ \E norm \in IF attack.x = NaN THEN {NaN} ELSE Near(Distance(attack.x, attack.orig)) :
          eval' = [ batch   |-> eval.batch + 1,
                    correct |-> eval.correct + correct,
                    total   |-> eval.total + BatchLength(eval.batch),
                    worst   |-> IF norm = NaN THEN eval.worst ELSE Greater(eval.worst, norm),
                    nll     |-> IF norm = NaN THEN "nan" ELSE eval.nll ]
    /\ attack' = Idle
    /\ UNCHANGED <<job, reply, results, stored>>

(* Slip: no allowance for rounding.                                        *)
OverBudgetExactly(worst) == worst > job.epsilon

OverBudget(worst) == worst > job.epsilon + Tolerance

(* Slip: each result goes to the front.                                    *)
KeepResultFirst(r) == results' = <<r>> \o results

KeepResult(r) == results' = Append(results, r)

(* An attack's results are kept, or the job fails.                         *)
FinishAttack ==
    /\ Running /\ eval.batch = Batches /\ attack.pc = "idle"
    /\ IF OverBudget(eval.worst) THEN Fail
       ELSE /\ KeepResult([name |-> job.attacks[Len(results) + 1], correct |-> eval.correct,
                           total |-> eval.total, worst |-> eval.worst, nll |-> eval.nll])
            /\ eval' = NoEval
            /\ UNCHANGED <<job, reply, stored, attack>>

(* One row for each result, as the columns keep it.                        *)
ResultRow(r) == [ name |-> r.name, accuracy |-> StoredAccuracy(r.correct, r.total),
                  norm |-> StoredNorm(r.worst) ]

(* Slip: the results are saved before the last attack has one.             *)
SomeResults == results # <<>>

AllResults == Len(results) = Len(job.attacks)

SaveResults ==
    /\ job.status = "running" /\ AllResults
    /\ job' = [job EXCEPT !.status = "succeeded"]
    /\ stored' = [i \in DOMAIN results |-> ResultRow(results[i])]
    /\ UNCHANGED <<reply, eval, results, attack>>

-----------------------------------------------------------------------------
(***************************************************************************)
(* GET /v1/jobs/{id} and its results.                                      *)
(***************************************************************************)
GetJob ==
    /\ job.status # "absent"
    /\ reply' = [code |-> "job", shown |-> JobResource(job)]
    /\ UNCHANGED <<job, eval, results, stored, attack>>

AttackResultResource(row) ==
    [ attack_name |-> row.name, robust_accuracy |-> row.accuracy, perturbation_norm |-> row.norm ]

ResultLines == [i \in DOMAIN stored |-> AttackResultResource(stored[i])]

JobResultsResponse ==
    [ epsilon       |-> job.epsilon,
      results       |-> ResultLines,
      defence_score |-> DefenceScore([i \in DOMAIN stored |-> stored[i].accuracy]) ]

(* The 409 before the job has succeeded is in ResultsReader.               *)
GetResults ==
    /\ job.status = "succeeded"
    /\ reply' = [code |-> "results", report |-> JobResultsResponse]
    /\ UNCHANGED <<job, eval, results, stored, attack>>

EngineStep ==
    \/ \E x \in Pixels : CallAttack(x)
    \/ StepAttack
    \/ \E c \in 0..BatchLength(eval.batch) : MeasureBatch(c)
    \/ FinishAttack \/ SaveResults

EngineNext ==
    \/ \E p \in Payloads : Refuse(p) \/ Create(p) \/ Replay(p)
    \/ Start \/ EngineRaises \/ EngineStep
    \/ GetJob \/ GetResults

(* The engine's loops are the worker's; nobody else owes a step.           *)
EngineSpec == EngineInit /\ [][EngineNext]_engineVars /\ WF_engineVars(EngineStep)

-----------------------------------------------------------------------------
(* A pixel an attack may return: a number in the image range and in the    *)
(* ball but for rounding, or NaN.                                          *)
Returnable(x, orig, epsilon) ==
    \/ x = NaN
    \/ x \in 0..One /\ Distance(x, orig) <= epsilon + Ulp

AttackOK ==
    \/ attack = Idle
    \/ /\ attack \in [ pc : {"fgsm", "pgd", "cw", "lbfgs", "compare", "returned"},
                      ensemble : BOOLEAN, orig : 0..One, epsilon : 0..job.epsilon,
                      steps : Nat \ {0}, step : Nat, x : Int \cup {NaN}, moved : BOOLEAN,
                      candidates : Seq(Int \cup {NaN}), losses : Seq(Losses \cup {NaN}),
                      best : [x : 0..One, loss : Losses \cup {-1}] ]
       /\ attack.pc = "returned" => Returnable(attack.x, attack.orig, attack.epsilon)
       /\ attack.pc # "returned" => attack.x # NaN
       /\ \A i \in DOMAIN attack.candidates :
             Returnable(attack.candidates[i], attack.orig, attack.epsilon)
       /\ Distance(attack.best.x, attack.orig) <= attack.epsilon + Ulp

(* Where an ensemble is in its list of members, and what it has seen.      *)
EnsembleOK ==
    attack.pc # "idle" /\ attack.ensemble =>
        /\ attack.pc # "fgsm"
        /\ attack.pc = "pgd" => Len(attack.candidates) = 0
        /\ attack.pc \notin {"pgd", "idle"} => Len(attack.candidates) > 0 /\ attack.candidates[1] # NaN
        /\ attack.pc \notin {"compare", "returned"} => attack.losses = <<>>
        /\ Len(attack.losses) <= Len(attack.candidates)
        /\ attack.pc = "returned" =>
              attack.x = attack.best.x /\ Len(attack.losses) = Len(attack.candidates)
        /\ \A i \in DOMAIN attack.losses :
              /\ attack.candidates[i] = NaN => attack.losses[i] = NaN
              /\ attack.losses[i] = NaN \/ attack.losses[i] <= attack.best.loss
        /\ attack.losses = <<>> => attack.best.loss = -1
        /\ attack.losses # <<>> => attack.losses[1] # NaN /\ \E i \in DOMAIN attack.losses :
              attack.best = [x |-> attack.candidates[i], loss |-> attack.losses[i]]

EvalOK ==
    /\ eval \in [batch : Nat, correct : Nat, total : Nat, worst : Nat, nll : {"finite", "nan"}]
    /\ Running => eval.worst <= job.epsilon + 2 * Ulp

Result == [name : ATTACK_NAMES, correct : Nat, total : Nat, worst : Nat, nll : {"finite", "nan"}]

ResultsOK ==
    /\ results \in Seq(Result)
    /\ \A i \in DOMAIN results : results[i].worst <= MAX_EPSILON + Tolerance
    /\ job.status \notin {"running", "succeeded"} => results = <<>>
    /\ job.status = "running" => Len(results) <= Len(job.attacks)
    /\ stored = IF job.status = "succeeded"
                THEN [i \in DOMAIN results |-> ResultRow(results[i])] ELSE <<>>

JobOK ==
    \/ job = NoJob
    \/ \E p \in Payloads, s \in {"queued", "running", "succeeded", "failed"} :
          Acceptable(p) /\ StoredEpsilon(p.epsilon) > 0 /\ job = JobOf(p, s)

IdleOK == ~Running => attack = Idle /\ eval = NoEval

(* The job is that of a body; what is measured stays near its budget.      *)
EngineInv == JobOK /\ IdleOK /\ AttackOK /\ EnsembleOK /\ EvalOK /\ ResultsOK

(* The check of run_benchmark never fails an honest job: its 1e-6 covers   *)
(* what single precision adds to a projected perturbation.                 *)
BudgetNeverBlamesRounding ==
    job.status = "running" => ~OverBudget(eval.worst)

(* "STRICTLY less than 0.11" (constants.py), for what is measured and for  *)
(* what is stored, whatever epsilon was accepted and rounded on its way.   *)
PerturbationBelowLimit ==
    /\ \A i \in DOMAIN results : results[i].worst < Limit
    /\ \A i \in DOMAIN stored : stored[i].norm < Limit

(* How much of the evaluation set the loop of an attack has counted.       *)
CountOK ==
    /\ eval.batch \in 0..Batches
    /\ attack.pc # "idle" => eval.batch < Batches
    /\ eval.total = Lesser(eval.batch * benchmark_batch_size, Samples)
    /\ eval.correct \in 0..eval.total

(* Every sample of the prefix is counted once in each attack, short last   *)
(* batch included, and the results are those of the requested attacks in   *)
(* their order.                                                            *)
SamplesCountedOnce ==
    \A i \in DOMAIN results :
        results[i].total = Samples /\ results[i].correct \in 0..Samples
ResultsInOrder ==
    /\ \A i \in DOMAIN results : results[i].name = job.attacks[i]
    /\ job.status = "succeeded" => Len(stored) = Len(job.attacks)

(* An ensemble returns a candidate no other candidate outdoes, and never   *)
(* one whose loss is NaN: the diverged optimiser cannot win.               *)
EnsembleReturnsTheWorst ==
    attack.pc = "returned" /\ attack.ensemble =>
        \E i \in DOMAIN attack.candidates :
            /\ attack.x = attack.candidates[i] /\ attack.losses[i] # NaN
            /\ \A j \in DOMAIN attack.losses :
                  attack.losses[j] = NaN \/ attack.losses[j] <= attack.losses[i]

(* A body is stored as it was asked for, to half a unit of the column; the *)
(* only acceptable body that cannot be stored is one below half a unit;    *)
(* and a body that counts as a replay would have been stored as a job that *)
(* differs by one unit at most.                                            *)
EpsilonSurvives ==
    LET p == reply.body
        kept == StoredEpsilon(p.epsilon)
    IN  /\ reply.code = "created" =>
              2 * Distance(job.epsilon, p.epsilon) <= Unit /\ job.epsilon <= MAX_EPSILON
        /\ reply.code = "error" => 2 * p.epsilon < Unit
        /\ reply.code = "replayed" =>
              /\ p.model = job.model /\ p.attacks = job.attacks /\ p.iterations = job.iterations
              /\ Distance(kept, job.epsilon) <= Unit

(* The score a client reads is the mean of the true robust accuracies to   *)
(* one unit of its last decimal, although each was rounded before.         *)
ScoreIsMean ==
    reply.code = "results" =>
        LET n   == Len(results)
            sum == Total([i \in DOMAIN results |-> results[i].correct])
        IN  Distance(reply.report.defence_score * n * Samples, Unit * sum) <= n * Samples

(* What any answer shows of a job is what runs, to half a unit of the      *)
(* column.  Sent back as a body it is accepted, if the deployment's limit  *)
(* has no more decimals than the column; and sent back with the key it is  *)
(* the same body, unless epsilon was a tie that .4f rounds down and the    *)
(* column up: then client and key differ by a unit.                        *)
ShownJobCanBeResubmitted ==
    reply.code \in {"created", "replayed", "job"} =>
        LET s == reply.shown
        IN  /\ s.model = job.model /\ s.attacks = job.attacks /\ s.iterations = job.iterations
            /\ 2 * Distance(s.epsilon, job.epsilon) <= Unit
            /\ max_epsilon % Unit = 0 => Acceptable(s)
            /\ \/ RequestFingerprint(s) = job.fingerprint
               \/ /\ reply.code # "created"
                  /\ s.epsilon = job.fingerprint[3] + Unit

(* Seen from outside, batches, attack loops and rounding are stuttering:   *)
(* the job, its attacks and the lines a client reads keep the contract.    *)
Contract ==
    INSTANCE BenchmarkContract
        WITH Names <- ATTACK_NAMES, Full <- Unit,
             status <- job.status,
             asked <- IF job.status = "absent" THEN <<>> ELSE job.attacks,
             report <- ResultLines
ImplementsContract == Contract!ContractSpec

(* Every started job ends: each loop of the engine and of the attacks has  *)
(* a bound.                                                                *)
BenchmarkEnds == job.status = "running" ~> job.status \in {"succeeded", "failed"}
=============================================================================
