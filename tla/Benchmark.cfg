\* One job through the whole engine: two batches, the second one short.
SPECIFICATION EngineSpec
CONSTANTS
    MAX_EPSILON = 10900000
    MAX_ITERATIONS_LIMIT = 3
    MODEL_NAMES = {"defender-0"}
    MaxAttacks = 3
    max_attacks_per_job = 2
    max_epsilon = 10900000
    max_iterations_limit = 2
    TiesDown <- MCTies
    Payloads <- MCPayloads
    DatasetSize = 10
    benchmark_max_samples = 3
    benchmark_batch_size = 2
    Pixels <- MCPixels
    Tolerance = 100
    Limit = 11000000
    Ulp = 10
    Errors = {0, 10}
    NaN = NaN
    CwMoves <- MCMoves
    LbfgsIterates <- MCIterates
    Losses = {1, 2}
INVARIANTS EngineInv BudgetNeverBlamesRounding PerturbationBelowLimit SamplesCountedOnce
INVARIANTS ResultsInOrder EnsembleReturnsTheWorst EpsilonSurvives ScoreIsMean
INVARIANTS ShownJobCanBeResubmitted
PROPERTIES ImplementsContract BenchmarkEnds
\* The life of one job ends.
CHECK_DEADLOCK FALSE
