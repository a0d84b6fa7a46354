\* A small instance, with one or two requests: it may stop once they are served.
SPECIFICATION Spec
CONSTANTS
    JobIds = {j1}
    NoJob = NoJob
    Keys = {}
    NoKey = NoKey
    Fingerprints = {f1}
    NoFingerprint = NoFingerprint
    Submitters = {s1}
    Cancellers = {c1}
    Readers = {}
    Workers = {w1}
    MaxActive = 1
    Faults <- EnqueueErrorOnly
PROPERTY TerminalIsFinal
CHECK_DEADLOCK FALSE
