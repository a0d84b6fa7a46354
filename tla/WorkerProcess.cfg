\* A forking and an in-process worker, clocks one unit apart: as far as the grace allows.
SPECIFICATION ProcessSpec
CONSTANTS
    w1 = w1
    w2 = w2
    Workers = {w1, w2}
    Jobs = {j1, j2}
    worker_class <- MCClasses
    sys_platform <- MCPlatforms
    Skew <- MCSkew
    job_timeout_seconds = 1
    stale_job_grace_seconds = 2
    KillGrace = 1
    MaxTime = 3
SYMMETRY JobSymmetry
INVARIANTS ProcessInv LiveJobIsNeverSwept StaleRowsAreGone NothingAbandonedWhileConsuming
PROPERTIES ImplementsOwnership
