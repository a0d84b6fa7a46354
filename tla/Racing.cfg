SPECIFICATION Spec
CONSTANTS
    JobIds = {j1}
    NoJob = NoJob
    Keys = {k1}
    NoKey = NoKey
    Fingerprints = {f1}
    NoFingerprint = NoFingerprint
    Submitters = {s1}
    Cancellers = {c1, c2}
    Readers = {r1}
    Workers = {w1}
    MaxActive = 1
    Faults <- AllFaults
SYMMETRY Symmetry
INVARIANTS TypeOK Inv CancelledNeverRuns RefusalIsTruthful ReadersSeeWholeResults
PROPERTIES OnlyStatusMoves OnlyFaultsStrand
