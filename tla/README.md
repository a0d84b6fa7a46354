# A verification project for the adversarial-robustness benchmark service

The repository is a small web service that benchmarks neural-network defenders
against adversarial attacks. A FastAPI process accepts jobs, PostgreSQL keeps
them, a Redis list (RQ) hands them to worker processes, a reaper thread in each
worker fails jobs whose worker died. This directory holds TLA+ modules of it,
TLC configurations that model-check them, and proofs checked by TLAPS.

All paths below are relative to the repository root; `jobs.py` is
`src/service/jobs.py`, `tasks.py` is `src/service/worker/tasks.py`.

## 1. Inventory

| Component | State | Operations | Meets the others through | What makes it correct |
|---|---|---|---|---|
| Job table (`models.py`, `database.py`, statements of `jobs.py`) | tables `jobs`, `job_results` | INSERT, conditional UPDATEs (claim, cancel, sweep), ORM flushes (succeed, fail) | every actor | one life per row, results land with the status, a failed row says why |
| Redis queue (`queue.py`) | one list of job ids | enqueue, cancel, (worker) dequeue | API pushes, workers pop | at-most-once hand-over; a lost or doubled entry does no harm |
| Submission (`create_job`, `submit_job`) | one request per handler thread | count, insert, look up the key, enqueue, fail | table, queue | one job per idempotency key, bounded backlog, no orphan row |
| Cancellation (`cancel_job`) | one request per handler thread | read, conditional UPDATE, remove from Redis, read | table, queue | cancelled jobs never run; honest answers |
| Results endpoint (`get_job_results`) | one request per handler thread | two SELECTs | table | no client sees `succeeded` without results |
| Worker task (`tasks.py`) | the task of one worker process, its ORM session, RQ's alarm | dequeue, import, claim, load, run, save, handle an exception | table, queue | exclusive execution; always a terminal status |
| Reaper (`sweep_stale_jobs`, `worker/main.py`) | none | sweep at start and on a timer | table | every abandoned running row ends, no live one does |
| Worker process (`worker/main.py`, RQ) | phase, timer, work-horse, connection pool | start-up sweep, thread, dequeue, fork, kill | table, queue, clocks | sweeps before it consumes; overdue work-horses die before they are swept |
| Listing (`list_jobs`, cursors) | none; the cursor is the client's | page by `(created_at, id)` | table | a walk neither repeats nor skips a row |
| Validation and fingerprint (`validate_submission`, `schemas.py`) | none | limits, rounding | submission | every accepted request can be stored; equal fingerprints mean equal requests |
| Defence score, formatting (`defence_score`, `schemas.py`) | none | mean of decimals | results | rounding to the stored precision |
| Engine (`benchmark/engine.py`) | loop over attacks | evaluate, check the epsilon budget | worker | one result per requested attack, in order |
| Attacks (`benchmark/attacks.py`) | tensors | projected iterations, best of several | engine | stays within epsilon and the image range; the ensemble returns its worst member |
| Catalogue, checkpoints, data, health check, API key, configuration, middleware, logging, error envelopes, migrations, scripts | constants, files or none | read-only or wiring | - | - |

What is hard here: three kinds of process share two stores without a common
transaction (the row is committed before the push; the pop happens before the
claim); RQ's timeout is an exception that may be raised at any line of the task;
processes die anywhere; Redis may lose, double or refuse an entry; the ORM
writes back objects that were read earlier; clocks of several hosts decide what
is abandoned; a list is read page by page while it changes; and every number is
rounded several times, by Python, PostgreSQL and torch, some of them NaN.
`PROJECT.json` lists each hazard at its line with the property that covers it.

## 2. Modules

```
FaultModel   JobStore   Broker
      \        |   \      |
       Submission  Cancellation  Worker      ResultsReader
              \         |          |            /
               \        |        Reaper        /
                `-----------.------'----------'
                       JobService  -- refines --> JobLifecycle
                       /        \
             MCJobService     JobServiceProofs
                   |            |         |
           DocumentedClaims     |    SubmissionProofs
                          LifecycleProofs

    Listing       BenchmarkConstants
       |            /          \
 ListingProofs   Requests      Attacks
                 /      \       /
      RequestProofs    BenchmarkEngine  -- refines --> BenchmarkContract
                 \       /      \
               EngineProofs    MCBenchmark

      WorkerProcess  -- refines --> JobOwnership       ConnectionPool
        /       \                                            |
 MCWorkerProcess  WorkerProofs                           PoolProofs
```

The five groups share the code but not the state. JobService is about who
writes which row when; its rows have no numbers and no times. The others take
one of the questions it abstracts from: what a page walk sees (Listing), what
becomes of the numbers of a job (BenchmarkEngine), which rows are overdue when
(WorkerProcess), and who holds which database connection (ConnectionPool).

- **FaultModel** names what may go wrong around the code. `Faults` is a
  constant, so each run and each theorem says in which environment it holds.
- **JobStore** is the database. Each committed transaction is one step, because
  an UPDATE under READ COMMITTED locks its row and evaluates its WHERE on the
  latest version. `ClaimRow`, `CancelRow` and `SweepRows` are the conditional
  UPDATEs. `MarkSucceeded` and `MarkFailed` are ORM flushes: SQLAlchemy matches
  the row by primary key only and writes only the columns that differ from what
  the session has cached (`OrmUpdate`). A row has a status, a key, a
  fingerprint, who wrote `error_message`, and whether `started_at` is set;
  `results` are the jobs whose result rows are committed.
- **Broker** is the Redis list, as `RedisQueue` uses it.
- **Submission**, **Cancellation**, **ResultsReader**, **Worker**: one record
  per process (`submit[s]`, `cancel[c]`, `read[r]`, `worker[w]`) whose `pc` is
  the next database, Redis or engine call. Everything between two calls is
  local, so a call is the unit of interleaving. Each action is one call with the
  code up to the next one; fault actions are guarded by the fault they need.
- **Reaper** is the sweep. Clocks are abstracted: a started row may be past the
  cutoff once no task is working on it, or at any time under the fault
  `overrun`.
- **JobService** puts the actors together, states fairness and all properties.
- **JobLifecycle** is the abstract specification: the lifecycle of a job
  without processes. `ImplementsLifecycle` maps `status` to the status column
  and `published` to the committed results.
- **MCJobService** gives TLC its fault sets and symmetries, **DocumentedClaims**
  states sentences of the repository that the code does not keep.
- **Listing** is `GET /v1/jobs`: rows get their `created_at` when the INSERT is
  flushed (`Stamp`), become visible later (`CommitRow`) or never
  (`RollBackRow`), and change status; a client follows cursors (`StartWalk`,
  `NextPage`). Each page is one SELECT, hence one step. The cursor is the sort
  key itself, since `isoformat` and `hex` lose nothing.
- **BenchmarkConstants**, **Requests**, **Attacks**, **BenchmarkEngine**: the
  numbers of one job, as integers in units of 1e-8. Requests has the limits, the
  three roundings (`.4f` of the fingerprint, NUMERIC columns, ROUND_HALF_UP of
  the score); Attacks has each attack function at one pixel of one batch, with
  gradients, losses and optimisers nondeterministic and projection, steps and
  choice the code's; BenchmarkEngine puts them into `run_benchmark`'s loops,
  between the POST that stores the body and the answers that show the job
  (`GetJob`) and its scored results (`GetResults`). NaN is a value of its own,
  and every comparison with it is false, as in Python. A POST answers with the
  object it inserted, whose epsilon the column has not rounded
  (`expire_on_commit=False`); a GET answers with the row.
- **BenchmarkContract** is what all this promises a client: the attacks are fixed
  with the job, and the step that makes it succeeded publishes one line for each
  of them, in order, each below the limit. `ImplementsContract` maps `report` to
  the lines `GetResults` answers.
- **WorkerProcess** is `worker/main.py` with a clock: the start-up sweep and the
  reaper thread (`OpenSweep` reads the clock, `EndSweep` sends the UPDATE), RQ's
  forking or in-process worker (`Forks`), the claim (`StampClaim` reads the
  clock, `ClaimJob` sends the UPDATE), and RQ killing an overdue work-horse:
  `Tick` does not pass the moment at which it is due.
- **JobOwnership** is WorkerProcess without clocks, phases and processes that
  start and die: jobs are claimed, ended or dropped by their holder, and reaped
  when no guarded (forking) worker holds them. `ImplementsOwnership` maps `held`
  to the job of each work-horse whose claim has been committed.
- **ConnectionPool** is the pool of one worker process across the fork.
- **JobServiceProofs**, **LifecycleProofs**, **SubmissionProofs**,
  **ListingProofs**, **RequestProofs**, **EngineProofs**, **WorkerProofs** and
  **PoolProofs** hold the theorems.

Operators introduced by a comment "Slip", "Slips" or "A slip" are wrong variants
of the definition that follows them (a WHERE dropped, an off-by-one, a swallowed
exception). No action uses them; putting one in the place of its definition must
make a property fail, which is how the properties are tested.

Correspondence in detail (`PROJECT.json` "map" has every definition):

| Code | Actions |
|---|---|
| `submit_job` / `create_job` | `Receive`, `AssertCapacity`, `InsertJob` / `InsertCollision`, `LookupExisting`, `EnqueueJob` / `EnqueueFails`, `FailUnqueued`, `Return`; faults: `InsertReplyLost`, `FailReplyLost`, `SubmitDbError`, `SubmitCrash` |
| `cancel_job` | `ReceiveCancel`, `GetJobToCancel`, `CancelQueued` / `NotQueued`, `RemoveFromQueue`, `ReportCancelled` / `RefuseCancel`, `ReturnCancel` |
| `get_job_results` | `ReceiveRead`, `SelectJob`, `SelectResults`, `ReturnRead` |
| `run_benchmark_job` | `Dequeue`, `ImportEngine`, `ClaimJob` / `SkipJob`, `LoadJob`, `RunBenchmark`, `SaveResults`, `FinishTask`; handler: `ReloadJob`, `FailJob` |
| `sweep_stale_jobs` | `SweepStaleJobs`; with clocks `OpenSweep`, `EndSweep`, `SweepError` |
| `list_jobs`, `encode_cursor`, `decode_cursor` | `StartWalk`, `NextPage` with `Matching`, `IsPage`, `IsLast`, `HasMore` |
| `validate_submission`, `JobCreateRequest` | `Refuse`, `Create`, `Replay` with `Acceptable` |
| `get_job`, `get_results`, `JobResource`, `AttackResultResource` | `GetJob`, `GetResults` with `JobResource`, `ResultLines`, `JobResultsResponse` |
| `_evaluate_attack`, `run_benchmark` | `CallAttack`, `StepAttack`, `MeasureBatch`, `FinishAttack`, `SaveResults`, `EngineRaises` |
| `fgsm`, `pgd`, `carlini_wagner`, `lbfgs`, `ensemble` | `Fgsm`, `PgdStart`, `PgdStep`, `CarliniWagnerStep`, `CarliniWagner`, `Lbfgs`, `Compare`, `ReturnBest` |
| `worker.main`, `start_reaper_thread` | `StartProcess`, `TimerSweep`, `EndSweep`, `SweepError` |

Two details of SQLAlchemy matter and are modelled. In the exception handler of
the task, `session.rollback()` expires the loaded job when a transaction is
open, so `session.get` reads the row again (`ReloadJob`); after
`mark_succeeded`'s commit none is open, rollback does nothing, and
`session.get` answers from the identity map (`StrayAlarm` at `saved`). And
`create_job` fails an unqueued job through the object it inserted, cached as
queued (`FailUnqueued`).

## 3. What the runs check

| Run | Instance | Faults | Properties |
|---|---|---|---|
| Execution | 2 jobs, 1 submitter, 2 workers | Redis and worker faults | `ExclusiveExecution`, `ResultsNeverCollide`, `FailedIsExplained`, `RunningEnds` |
| Racing | 1 job and key, 1 submitter, 2 cancellers, 1 reader, 1 worker | all | `TypeOK`, `Inv`, `CancelledNeverRuns`, `RefusalIsTruthful`, `ReadersSeeWholeResults`, `OnlyStatusMoves`, `OnlyFaultsStrand` |
| Submitting | 3 jobs, 2 submitters, 2 keys, 2 bodies, limit 1 | API faults | `KeyNamesOneJob`, `ActiveBound` |
| Refinement | 2 jobs, 1 submitter, 1 canceller, 2 workers | all but `OverwritingFaults` | `ImplementsLifecycle`, `OutcomeConsistent` |
| Liveness | 2 jobs, 1 submitter, 1 canceller, 1 worker | all but `StrandingFaults` | `JobsEnd`, `QueuedIsAccounted` |
| Listing | 3 rows, 2 instants, pages of 1 and 2, two filters | uncommitted and rolled-back rows | `ListInv`, `PagesDescend`, `WalkIsComplete`, `WalkEnds` |
| Benchmark | 16 bodies, 3 samples in batches of 2, 2 pixels, 2 rounding errors | rounding, NaN, adverse optimisers, engine errors | `EngineInv`, `BudgetNeverBlamesRounding`, `PerturbationBelowLimit`, `SamplesCountedOnce`, `ResultsInOrder`, `EnsembleReturnsTheWorst`, `EpsilonSurvives`, `ScoreIsMean`, `ShownJobCanBeResubmitted`, `ImplementsContract`, `BenchmarkEnds` |
| WorkerProcess | a forking and an in-process worker, 2 jobs, 4 instants, skew 1 | kills, failing sweeps, skewed clocks | `ProcessInv`, `LiveJobIsNeverSwept`, `StaleRowsAreGone`, `NothingAbandonedWhileConsuming`, `ImplementsOwnership` |

- **ExclusiveExecution**: whatever is delivered twice, swept, or failed by a
  late handler, two workers are never inside the benchmark of one job. The
  claim's WHERE is the only thing that ensures it.
- **ResultsNeverCollide**: a worker about to store results never runs into
  UNIQUE (job_id, attack_name).
- **FailedIsExplained**: every failed row has an error message, although the
  writers flush partial column sets over each other.
- **CancelledNeverRuns**: the promise of `cancel_job`'s docstring.
- **RefusalIsTruthful**: the 409 is worded from a later read, but never claims
  "queued".
- **ReadersSeeWholeResults**: the promise of `mark_succeeded`'s docstring,
  although job and results are read in two snapshots.
- **OnlyStatusMoves**: the moves a status can make under every fault. Terminal
  rows can be overwritten, but only in the listed ways: no row is queued again,
  none runs except from queued, a cancelled row can become failed but never
  succeeded.
- **OnlyFaultsStrand**: under every fault, a queued row loses its last chance to
  be picked up (a live list entry, a handler about to push or to fail it, a worker
  that popped it) only in the steps `Abandons` lists: Redis loses its data; a
  handler dies or gets a database error between the commit of the row and its
  push, or while it fails the row; a worker dies, cannot import the engine, gets
  an alarm or a database error between dequeue and claim. Such a row never
  runs, since the reaper looks at running rows only: it stays queued and counts
  against `max_active_jobs` unless a client cancels it.
- **KeyNamesOneJob**: a key never has two jobs and a replay answers with the job
  of the same body.
- **ActiveBound**: `MaxActive - 1 + number of handlers` bounds the backlog.
- **QueuedIsAccounted**, **JobsEnd**: without a stranding fault a queued row is
  always in somebody's hands, and every job ends.
- **RunningEnds**: under every fault of the run a running job ends; the reaper
  is what makes this true after a kill.
- **ImplementsLifecycle**, **OutcomeConsistent**: without an overwriting fault
  terminal statuses are final, the results appear in the step that makes the job
  succeeded, and no succeeded job carries an old error message.

- **PagesDescend**, **WalkIsComplete**, **WalkEnds**: a walk returns no row
  twice, goes strictly from newer to older rows, returns every row that was
  visible when it began and matched the filter ever since, and reaches its last
  page although rows keep arriving. What it may miss is a row committed later
  with an older `created_at`; the code cannot promise more, and the property
  says so.
- **BudgetNeverBlamesRounding**, **PerturbationBelowLimit**: the 1e-6 of
  `run_benchmark`'s check covers what two single-precision roundings add, so no
  honest job fails; and what is measured and what is stored stays strictly
  below 0.11, as `constants.py` promises.
- **SamplesCountedOnce**, **ResultsInOrder**: each attack counts the whole
  prefix once, short last batch included; one result for each requested attack,
  in order.
- **EnsembleReturnsTheWorst**: no candidate outdoes the one returned, and a
  diverged L-BFGS never wins, whether NaN is in the pixel that is followed or in
  another one of the batch (`LossesOf`). Only L-BFGS diverges: with finite weights
  the sign steps of fgsm and pgd and the iterates of C&W stay numbers. Were every
  loss NaN, the code would return the clean image.
- **EpsilonSurvives**: a body is stored to half a unit of the column; the only
  accepted body that fails is one whose epsilon rounds to 0; a body that counts
  as a replay would have been stored within one unit of the job it names.
  (Fingerprint and column round decimal ties differently, so "equal
  fingerprints, equal rows" does not hold.)
- **ScoreIsMean**: the score a client reads is the mean of the true accuracies to
  one unit of its last decimal, although each was rounded before.
- **ShownJobCanBeResubmitted**: what an answer shows of a job is what runs, to
  half a unit of the column. Sent back as a body it passes validation, if the
  deployment's limit has no more decimals than the column, and with the key of
  the job it is a replay. The exception is part of the property: where `.4f`
  rounds a decimal tie down and the column rounds it up, the client that sends
  back what a GET showed is told of a conflict.
- **ImplementsContract**: batches, attack loops and rounding are invisible from
  outside; no client ever reads part of a report, and a failed or unfinished job
  has none.
- **BenchmarkEnds**: a started job ends by its own loops.
- **LiveJobIsNeverSwept**: the job of a living forked work-horse is never
  failed, whichever host sweeps, provided skew and kill delay fit in the grace
  period (`ClocksAssumption`). This is what `MayBeOverdue` of the Reaper module
  takes for granted without the fault `overrun`: forked tasks overrun only where
  the assumption fails, in-process ones, which RQ cannot kill outright, always may.
  `ImplementsOwnership` says the same of whole behaviours.
- **StaleRowsAreGone**: what a completed sweep cleared does not come back by a
  claim stamped before it, because its work-horse is dead by then.
- **ImplementsOwnership**: whatever processes start, sweep, fail and die, and
  whichever host's clock a sweep read, a job is claimed once, ended by its holder,
  and reaped only when no forking worker holds it. An in-process worker may end a
  job that was reaped under its hands; the abstract specification says so.
- **NothingAbandonedWhileConsuming**: a process that takes jobs has swept what
  was overdue when it started. It does not sweep more: a job abandoned a minute
  before stays running until it is older than timeout and grace.

`FaultModel` says which faults are stranding or overwriting. These sets are
part of the result: leaving out any one member of them would break the property.
Among what they stand for: a worker that dies between dequeue and claim leaves a
queued job for ever (`kill_unclaimed`); RQ's timeout that is raised after the
results are committed fails a succeeded job (`stray_alarm`); a Redis error after
the cancelling UPDATE answers 500 for a cancelled job (`cancel_error`). At
capacity a replay gets a 503, since the backlog is counted before the key is
looked at, and racing handlers exceed the limit by up to their number less one.

### Bounds, and why they are enough

One job already gives every race on a row; two jobs add order in the queue, two
sweeps at once and workers that go on to the next job; a third would only repeat
them. Two workers are needed for a duplicated delivery, two cancellers for
cancel against cancel, two submitters for a key that is taken between check and
INSERT and for a job above the limit; more submitters are what the theorems of
SubmissionProofs are about. `IdsLeft` bounds submissions: a fresh id must be
left for each handler that may still insert. The queue needs no bound of its
own: each job is pushed at most twice. In Listing three rows and pages of one
and two give full, short and empty last pages, equal and different times, and a
row that appears behind the cursor. In Benchmark the bodies are one for each
rule and each tie, the pixels one at the end of the image range and one near its
middle, three samples a full and a short batch; epsilon is the maximum, a tie
that `.4f` and the column round alike, one they round apart, and tiny values.
Two attacks are requested of one body only and the mean is taken of one or two
accuracies; more are what the theorems are about. In WorkerProcess timeout 1, grace 2, kill delay 1 and skew 1 use the
whole of what `ClocksAssumption` allows, and three units of time let a job of a
dead worker become overdue on one host while it is not on the other. Requests
repeat without bound, because a client that has its answer may ask again, and in
Benchmark they come at any time, whatever the status of the job.
Deadlock is checked where requests can always come; the configurations that
switch it off say why.

### Fairness

Weak fairness for the calls of an entered handler (API threads are scheduled),
for the calls of a worker (`worker.work` loops on when its work-horse is killed:
here, the worker is idle again), and for a sweep that includes any given overdue
row (the reaper's loop survives exceptions and time passes). This covers the death
of a work-horse whose parent, with its reaper thread, survives. It does not cover
the loss of the last worker process: `docker-compose.yml` gives the worker no
restart policy, and nothing is claimed of a service without workers. Benchmarks
end because iterations are bounded. In Listing the client that follows its
cursor is fair, in Benchmark the engine's own steps are; time and table owe
nothing. No client owes a request, no fault is fair. WorkerProcess and
ConnectionPool claim safety only.

### Where the code and its documents disagree

| Run | Sentence | What the code does |
|---|---|---|
| TerminalStates | `models.py`: succeeded, failed, cancelled are terminal | a failing push overwrites a job cancelled in the meantime |
| EngineImport | `tasks.py`: the deferred import turns an import error into a failed job | the import is outside the `try`; the job stays queued |
| TanhSpace | `attacks.py`: no projection step fights the optimiser | each step projects into the ball, and where it clips no gradient comes back: most pixels of the C&W attack are never optimised |
| SharedConnection | `database.py`: a transactional session for the worker, the reaper; `main.py`: a fresh process | the forked work-horse inherits the parent's idle connection, and the reaper thread uses it too |

Each of these runs checks one property with the smallest instance that shows it;
`PROJECT.json` quotes the sentences.

## 4. What is proved

The theorems hold for every value of the constants that satisfies the named
assumptions: for JobService `FaultsAssumption` (the faults are among those of
`FaultModel`), `StoreAssumption` (the null values are no ids, keys or
fingerprints) and `SubmissionAssumption` (finitely many submitters and ids, a
positive limit); for Listing `ListingAssumption`, `FilterAssumption` and
`CursorAssumption`; for BenchmarkEngine `ConstantsAssumption`,
`RequestsAssumption`, `AttacksAssumption` and `EngineAssumption` (rounding errors
bounded by `Ulp`, two of them within the tolerance, and MAX_EPSILON with
tolerance and half a decimal of the column below 0.11); for WorkerProcess
`ProcessAssumption` and `ClocksAssumption` (skew and kill delay fit in the grace
period).

| Module | Theorem | States | Environment |
|---|---|---|---|
| JobServiceProofs | `Invariance`, `TypeCorrect` | `Inv`, `TypeOK` | every fault |
| JobServiceProofs | `ExecutionIsExclusive` | `ExclusiveExecution` | every fault |
| JobServiceProofs | `CancellationWins` | `CancelledNeverRuns` | every fault |
| JobServiceProofs | `ResultsAreWhole` | `ReadersSeeWholeResults` | every fault |
| JobServiceProofs | `ResultsCollideNever` | `ResultsNeverCollide` | every fault |
| JobServiceProofs | `FailuresAreExplained` | `FailedIsExplained` | every fault |
| JobServiceProofs | `RefusalsAreTruthful` | `RefusalIsTruthful` | every fault |
| JobServiceProofs | `StatusMovesOnly` | `OnlyStatusMoves` | every fault |
| LifecycleProofs | `Refinement` | `ImplementsLifecycle` | no overwriting fault |
| LifecycleProofs | `OutcomesAgree` | `OutcomeConsistent` | no overwriting fault |
| SubmissionProofs | `BacklogBounded` | `ActiveBound` | every fault |
| SubmissionProofs | `SubmissionsAreIdempotent` | `KeyNamesOneJob` | every fault |
| SubmissionProofs | `OnlyFaultsStrandJobs` | `OnlyFaultsStrand` | every fault |
| SubmissionProofs | `QueuedJobsAreKept` | `QueuedIsAccounted` | no stranding fault |
| ListingProofs | `ListInvariance`, `PagesAlwaysDescend`, `WalksAreComplete` | `ListInv`, `PagesDescend`, `WalkIsComplete` | any table |
| EngineProofs | `EngineInvariance` | `EngineInv` | any network whose gradients are finite |
| EngineProofs | `BudgetIsFair`, `AlwaysBelowLimit` | `BudgetNeverBlamesRounding`, `PerturbationBelowLimit` | rounding within `Ulp` |
| EngineProofs | `EnsembleIsStrongest` | `EnsembleReturnsTheWorst` | any losses; that of L-BFGS may be NaN |
| EngineProofs | `ResultsKeepTheirOrder`, `EverySampleOnce` | `ResultsInOrder`, `SamplesCountedOnce` | any batch size |
| EngineProofs | `EpsilonIsKept`, `ShownIsWhatRuns` | `EpsilonSurvives`, `ShownJobCanBeResubmitted` | any bodies |
| RequestProofs | `RoundingTwiceCostsOneUnit` | a fact of `DefenceScore`, for accuracies of any number | - |
| EngineProofs | `ScoreIsTheMean` | `ScoreIsMean` | any number of attacks and samples |
| EngineProofs | `EngineKeepsItsContract` | `ImplementsContract` | any network whose gradients are finite, rounding within `Ulp` |
| WorkerProofs | `ProcessInvariance` | `ProcessInv` | skew within the grace period |
| WorkerProofs | `ReaperSparesTheLiving` | `LiveJobIsNeverSwept` | skew within the grace period |
| WorkerProofs | `SweepsAreFinal`, `SweptBeforeConsuming` | `StaleRowsAreGone`, `NothingAbandonedWhileConsuming` | skew within the grace period |
| WorkerProofs | `ProcessesKeepOwnership` | `ImplementsOwnership` | skew within the grace period |
| PoolProofs | `InProcessTransactionsAreSeparate` | `TransactionsAreSeparate` | a worker that does not fork |

**The inductive invariant.** `ExclusiveExecution` alone is not inductive: that
no second worker can claim a job somebody executes holds because an executed job
was started, a started row is never queued, and a claim needs a queued row. So
`Inv` adds what each actor holds (`HandsHoldJobs`: ids of rows that exist), what
the columns of a row say about each other (`RowsConsistent`), and what an actor
knows that the others cannot undo (`WorkersConsistent`, `CancelsConsistent`,
`ReadsConsistent`). The last ones are needed because a handler acts on what it
read earlier. For example, a worker's handler that cached `failed` writes only
the error message, so its row must still be finished when it does; and one that
cached an error message must not leave a row failed without one.

**The proof.** A step either leaves the store alone or is one of six writes
(`StoreStep`, `StepsWriteTheStore`). Each write keeps its row consistent and
only lets it grow: a row that exists, was started, has ended or has results
stays so (`WritesKeepRows`, `RowsOnlyGrow`). From that alone the facts of every
actor that does not move survive (`IdleActorsKeepTheirFacts`,
`IdleWorkersKeepTheirFacts`); what is left is one lemma per component for the
actor that moves (`SubmitKeepsInv`, `CancelKeepsInv`, `ReadKeepsInv`,
`WorkerKeepsInv`). `ExecutionStartsWithClaim` carries exclusive execution.

**The refinement.** `LifeInv` says that a claimed job has one owner and is
running until its owner ends it; each overwriting fault breaks this. With it
`WritesRefine` maps each write to a step of `JobLifecycle` or a stutter.

**Submission.** `LimitInv` counts the handlers that were admitted and have not
inserted yet: an admission happens below the limit, an INSERT trades one such
handler for one active row (`InsertsTrade`), and nothing else adds to either
(`OnlyInsertsActivate`, `OnlyCheckAdmits`). `KeyInv` adds that rows that do not
exist have no key, that only a handler with a key looks one up, and that no
UPDATE changes a key. A queued job changes hands from handler to list to worker:
whoever gives it up hands it to the next one, unless the step is one of `Abandons`
(`SubmittersHandOver`, `WorkersTakeOver`, `OnlyAbandonedStrand`). This is
`OnlyFaultsStrand`; `QueuedIsAccounted` follows, since without a stranding fault
no step of `Abandons` happens.

**Listing.** Pages descend and walks are complete because of what holds between
two pages (`OwedAhead`): what is owed and not yet returned lies behind the
cursor, what was returned does not. A committed row never changes its sort key,
so only the page step can disturb it.

**Engine.** `EngineInv` bounds a pixel by its image plus epsilon plus one
rounding at each place an attack can yield it (`Returnable`), and a measurement
by one rounding more. `BudgetIsFair` and `AlwaysBelowLimit` are then arithmetic.
The job's epsilon is at most MAX_EPSILON because MAX_EPSILON is a multiple of
the column's unit: rounding cannot pass it. `CountOK` says how much of the
prefix the batches so far are, and `EnsembleOK` what the comparison has seen.

**The score.** The score is a mean of values that were rounded, and the proof must
say what a sum over any number of terms does. `Sums` is a recursive function on
the indices of the sequence; the library's induction theorem is out of reach
(section 5), but the least-number principle is not: were some partial sum farther
off than its number of terms allows, there would be a first one, and the sum
before it, which is not, refutes it. Each stored accuracy is off by half a unit at
most, so their sum is off by half a unit for each, and rounding the mean adds half
a unit more (`RoundingTwiceCostsOneUnit`).

**What a client is shown.** The rounding of a value in whole units is the value
(`WholeUnitsStay`), and what a column keeps is in whole units (`StoredIsWhole`):
this is why a GET's answer can be sent back, and why the deployment's limit must
not have more decimals than the column. The row stands for the body it came from
(`RowIsFaithful`); the case that is left over is a tie on which `.4f` and the
column differ.

**The contract.** Every step that does not publish leaves the lines alone
(`ReportsStand`). The step that does has one result for each attack in order
(`ResultsInOrder`), an accuracy between 0 and 1 because no batch counts more
correct samples than samples (`CountOK`), and a norm below the limit
(`AlwaysBelowLimit`).

**Worker processes.** Each overdue work-horse is dead before the clock of any
host says so: `HorsesOK` bounds its age by timeout and kill delay, a stamp is
not older than its start, and a cutoff lies timeout and grace behind its host's
clock (`CutoffsOK`), so `ClocksAssumption` keeps the stamp of a living
work-horse out of every cutoff read so far (`StampsAreRecent`). The same lemma
shows that a late claim cannot undo a sweep.

**Ownership.** A row that a sweep fails is overdue at the cutoff it read, however
long ago; by the bounds above no living forked work-horse holds it
(`OverdueIsAbandoned`), so a sweep is a `Reap` of abandoned jobs. A claim,
an end and a death change what one worker holds (`OneHolder`) and are a `Claim`,
an `End` and a `Drop`; every other step, of clocks, phases and processes without a
claimed job, is a stutter.

**Connections.** In one process a connection is idle or in one session. The
theorem has `~Forks` as its hypothesis: with a fork the property is false, as the
run SharedConnection shows, so the fork is the whole cause.

## 5. What is only model-checked, and what is not modelled

Liveness (`JobsEnd`, `RunningEnds`, `WalkEnds`, `BenchmarkEnds`) is checked by
TLC only: fairness and ENABLED are out of the prover's reach. Every other
property of the passing runs is proved. The library's induction theorems, which
take an operator as a parameter, cannot be used with the installed provers; the
one induction that is needed, over the terms of the score, is done by hand. The
sentences of the violation runs are refuted by TLC, so there is nothing to prove
about them beyond what holds without a fork.

Not modelled, and why:

- the network and its gradients, hence how strong an attack is: tensors are out
  of reach, and what is claimed holds for any network whose gradients are finite
  (a NaN gradient of a network with NaN weights is not modelled);
- `extended_attacks.py` loads an external package that the service does not use;
- the health check, the API key and the catalogue's endpoints: stateless reads
  and comparisons;
- configuration, wiring, middleware, logging, error envelopes, and of the
  conversion of rows to JSON the times, links and floats; of `errors.py` only the 500 for an unhandled exception is a
  step of the handlers;
- column types and migrations, beyond the tables that JobStore starts from and
  the precision of the NUMERIC columns;
- `InlineQueue`, which runs the task inside the request for tests and demos;
- scripts, notebook and deployment files, outside the service;
- a database failover that loses committed transactions, isolation levels other
  than READ COMMITTED, and SQLite, which serves the tests only;
- who restarts a worker process that a start-up sweep or a kill has ended: no
  restart policy is configured, so in WorkerProcess a start may come at any time,
  or never;
- a work-horse that outlives its parent: `KillProcess` ends both, as the end of a
  container does. On a bare host the orphan lives on until its own alarm.

## 6. What could come next

1. The JSON of a result whose `mean_nll` is NaN: what the column and the
   response make of it depends on library versions and was left out.
2. `InlineQueue` as a second implementation of the Broker, inside the request.
3. One composition of JobService and WorkerProcess, with `MayBeOverdue` replaced
   by the clocks: both are now shown to keep their own abstract specification
   (JobLifecycle, JobOwnership), and the two meet in this text only.
