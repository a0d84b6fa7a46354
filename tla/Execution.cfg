\* The supply of job ids is bounded and nobody reads or cancels here, so the
\* instance stops when it is used up.
SPECIFICATION Spec
CONSTANTS
    JobIds = {j1, j2}
    NoJob = NoJob
    Keys = {}
    NoKey = NoKey
    Fingerprints = {f1}
    NoFingerprint = NoFingerprint
    Submitters = {s1}
    Cancellers = {}
    Readers = {}
    Workers = {w1, w2}
    MaxActive = 2
    Faults <- ExecutionFaults
INVARIANTS ExclusiveExecution ResultsNeverCollide FailedIsExplained
PROPERTIES RunningEnds
CHECK_DEADLOCK FALSE
