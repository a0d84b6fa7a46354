----------------------------- MODULE MCBenchmark -----------------------------
(***************************************************************************)
(* Bodies and pixels for TLC, in units of 1e-8.                            *)
(***************************************************************************)
EXTENDS BenchmarkEngine

Body(epsilon, iterations, attacks) ==
    [model |-> "defender-0", epsilon |-> epsilon, iterations |-> iterations, attacks |-> attacks]

(* Good bodies: the limit, a tie that fingerprint and column round alike,  *)
(* one they round apart and its neighbours; single attacks and a sequence. *)
GoodBodies ==
    { Body(10900000, 1, <<"fgsm", "cw">>), Body(10005000, 1, <<"lbfgs">>),
      Body(15000, 2, <<"pgd">>), Body(10000, 2, <<"pgd">>), Body(20000, 1, <<"ensemble">>) }
(* The first one's epsilon is too small for its column.  Each other one    *)
(* breaks one rule.                                                        *)
BadBodies ==
    { Body(4999, 1, <<"fgsm">>), Body(0, 1, <<"fgsm">>), Body(10900001, 1, <<"fgsm">>),
      Body(10000, 0, <<"fgsm">>), Body(10000, 4, <<"fgsm">>), Body(10000, 3, <<"fgsm">>),
      Body(10000, 1, <<>>), Body(10000, 1, <<"fgsm", "fgsm">>), Body(10000, 1, <<"none">>),
      Body(10000, 1, <<"fgsm", "pgd", "cw">>), [Body(10000, 1, <<"fgsm">>) EXCEPT !.model = "none"] }
MCPayloads == GoodBodies \cup BadBodies

(* At an end of the image range, and near its middle.                      *)
MCPixels  == {0, 45000000}
MCMoves   == {500000}
MCIterates == {-300000000}
MCTies    == {15000}

-----------------------------------------------------------------------------
(* "tanh reparametrisation keeps the iterate inside the image box without  *)
(* a projection step fighting the optimiser" (attacks.py).  But each step  *)
(* projects into the ball, and where the projection acts no gradient       *)
(* comes back: a pixel farther than epsilon from the middle of the range   *)
(* is never optimised.                                                     *)
OptimiserIsNeverBlocked ==
    attack.pc = "cw" /\ attack.step > 0 =>
        Distance(attack.x, attack.orig) <= attack.epsilon \/ attack.moved
=============================================================================
