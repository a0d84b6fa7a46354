---------------------------- MODULE MCJobService ----------------------------
(***************************************************************************)
(* JobService for TLC: fault sets of the runs, and the symmetry of the     *)
(* sets of identical processes (used by safety runs only).                 *)
(***************************************************************************)
EXTENDS JobService, TLC

AllFaults          == FaultKinds
NoStrandingFaults  == FaultKinds \ StrandingFaults
LifecycleFaults    == FaultKinds \ OverwritingFaults
ExecutionFaults    == (WorkerFaults \cup RedisFaults) \ {"cancel_error"}
ApiFaultsOnly      == ApiFaults

Symmetry ==
    Permutations(JobIds) \cup Permutations(Submitters) \cup Permutations(Workers)
        \cup Permutations(Cancellers) \cup Permutations(Keys)
=============================================================================
