--------------------------- MODULE MCWorkerProcess ---------------------------
(***************************************************************************)
(* Two hosts for TLC: a container, and a laptop with the in-process worker *)
(* whose clock is ahead.                                                   *)
(***************************************************************************)
EXTENDS WorkerProcess, TLC

CONSTANTS w1, w2

JobSymmetry == Permutations(Jobs)

MCClasses   == [w \in Workers |-> "auto"]
MCPlatforms == [w \in Workers |-> IF w = w1 THEN "linux" ELSE "darwin"]
MCSkew      == [w \in Workers |-> IF w = w1 THEN 0 ELSE 1]

=============================================================================
