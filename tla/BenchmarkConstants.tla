------------------------- MODULE BenchmarkConstants -------------------------
(***************************************************************************)
(* The limits the service and the engine share.  Every real number of the  *)
(* benchmark is an integer number of 1e-8.                                 *)
(***************************************************************************)
EXTENDS Integers

CONSTANTS MAX_EPSILON, MAX_ITERATIONS_LIMIT

One  == 100000000
Unit == 10000               \* 1e-4, the last decimal of the NUMERIC columns

ASSUME ConstantsAssumption ==
    /\ MAX_EPSILON \in 1..One /\ MAX_EPSILON % Unit = 0
    /\ MAX_ITERATIONS_LIMIT \in Nat

Lesser(a, b)   == IF a < b THEN a ELSE b
Greater(a, b)  == IF a > b THEN a ELSE b
Distance(a, b) == Greater(a - b, b - a)
=============================================================================
