------------------------------ MODULE Requests ------------------------------
(***************************************************************************)
(* The numbers of a job on their way through the service: the limits a     *)
(* submission must keep, the body that counts as the same body, what the   *)
(* columns keep of a value, and the score made of the stored values.       *)
(***************************************************************************)
EXTENDS BenchmarkConstants, SequencesExt

CONSTANTS
    MODEL_NAMES,            \* the whitelisted models
    MaxAttacks,             \* of the schema
    max_attacks_per_job,    \* of the deployment
    max_epsilon, max_iterations_limit,
    TiesDown                \* the decimal ties that format .4f rounds down

ASSUME RequestsAssumption ==
    /\ max_epsilon \in Int /\ max_iterations_limit \in Int
    /\ MaxAttacks \in Nat /\ max_attacks_per_job \in Int
    /\ \A e \in TiesDown : e \in 0..One /\ e % Unit = Unit \div 2

ATTACK_NAMES == {"fgsm", "pgd", "cw", "lbfgs", "ensemble"}

(* What the schema lets through: 400 otherwise.                            *)
JobCreateRequest(p) ==
    /\ 0 < p.epsilon /\ p.epsilon <= MAX_EPSILON
    /\ 1 <= p.iterations /\ p.iterations <= MAX_ITERATIONS_LIMIT
    /\ Len(p.attacks) \in 1..MaxAttacks
    /\ IsInjective(p.attacks)

(* What the service lets through: 400 otherwise.                           *)
ValidateSubmission(p) ==
    /\ p.model \in MODEL_NAMES
    /\ \A i \in DOMAIN p.attacks : p.attacks[i] \in ATTACK_NAMES
    /\ Len(p.attacks) <= max_attacks_per_job
    /\ p.iterations <= max_iterations_limit
    /\ p.epsilon <= max_epsilon

HalfUp(e, unit) == ((e + unit \div 2) \div unit) * unit

(* Slip: the digits as the client sent them.                               *)
AllDigits(e) == e

(* Format .4f rounds the double, which lies on one side of a decimal tie   *)
(* (0.00015 goes down) or is the tie (0.03125 goes to the even digit).     *)
Formatted(e) == IF e \in TiesDown THEN (e \div Unit) * Unit ELSE HalfUp(e, Unit)

(* The body as the idempotency key knows it.                               *)
RequestFingerprint(p) == <<p.model, p.attacks, Formatted(p.epsilon), p.iterations>>

(* Slip: the column keeps two decimals.                                    *)
CoarseEpsilon(e) == HalfUp(e, 100 * Unit)

(* What NUMERIC(6,4) keeps: PostgreSQL rounds the shortest decimal.        *)
StoredEpsilon(e) == HalfUp(e, Unit)

(* NUMERIC(5,4), in units of 1e-4.                                         *)
StoredAccuracy(correct, total) == (2 * Unit * correct + total) \div (2 * total)

(* Slip: the column keeps two decimals.                                    *)
CoarseNorm(e) == HalfUp(e, 100 * Unit)

(* NUMERIC(8,6).                                                           *)
StoredNorm(e) == HalfUp(e, 100)

(* The sums of the first 0, 1, ... numbers of a sequence.                  *)
Sums(s) ==
    LET sum[k \in 0..Len(s)] == IF k = 0 THEN 0 ELSE sum[k - 1] + s[k]
    IN  sum

Total(s) == Sums(s)[Len(s)]

(* Slip: the mean is rounded to two decimals.                              *)
CoarseScore(accuracies) == HalfUp(Total(accuracies) \div Len(accuracies), 100)

(* ROUND_HALF_UP of the mean of the stored accuracies, in units of 1e-4.   *)
DefenceScore(accuracies) ==
    LET n == Len(accuracies)
    IN  (2 * Total(accuracies) + n) \div (2 * n)
=============================================================================
