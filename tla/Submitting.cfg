\* The supply of job ids is bounded and nobody reads or cancels here, so the
\* instance stops when it is used up.
SPECIFICATION Spec
CONSTANTS
    JobIds = {j1, j2, j3}
    NoJob = NoJob
    Keys = {k1, k2}
    NoKey = NoKey
    Fingerprints = {f1, f2}
    NoFingerprint = NoFingerprint
    Submitters = {s1, s2}
    Cancellers = {}
    Readers = {}
    Workers = {w1}
    MaxActive = 1
    Faults <- ApiFaultsOnly
SYMMETRY Symmetry
INVARIANTS KeyNamesOneJob ActiveBound
CHECK_DEADLOCK FALSE
