SPECIFICATION Spec
CONSTANTS
    JobIds = {j1, j2}
    NoJob = NoJob
    Keys = {}
    NoKey = NoKey
    Fingerprints = {f1}
    NoFingerprint = NoFingerprint
    Submitters = {s1}
    Cancellers = {c1}
    Readers = {}
    Workers = {w1, w2}
    MaxActive = 2
    Faults <- LifecycleFaults
SYMMETRY Symmetry
INVARIANTS OutcomeConsistent
PROPERTIES ImplementsLifecycle
