-------------------------- MODULE BenchmarkContract --------------------------
(***************************************************************************)
(* What a benchmark promises whoever asked for it, without batches, attack *)
(* loops or rounding: the attacks that were asked for are fixed with the   *)
(* job, nothing is reported before the job has succeeded, and then the     *)
(* report has one line for each of them, in their order, each within the   *)
(* competition's limit.                                                    *)
(***************************************************************************)
EXTENDS Naturals, Sequences

CONSTANTS
    Names,      \* the attacks there are
    Full,       \* an accuracy of one
    Limit       \* the norm no perturbation may reach

VARIABLES
    status,     \* of the job
    asked,      \* the attacks of the job, in order
    report      \* what a client reads

contractVars == <<status, asked, report>>

ContractInit == status = "absent" /\ asked = <<>> /\ report = <<>>

Ask ==
    /\ status = "absent" /\ status' = "queued"
    /\ asked' \in Seq(Names) /\ asked' # <<>>
    /\ report' = report

Begin == status = "queued" /\ status' = "running" /\ UNCHANGED <<asked, report>>

GiveUp == status = "running" /\ status' = "failed" /\ UNCHANGED <<asked, report>>

Line(name) ==
    [attack_name : {name}, robust_accuracy : 0..Full, perturbation_norm : 0..Limit - 1]

(* The report is all there in the step that makes the job succeeded.       *)
Report ==
    /\ status = "running" /\ status' = "succeeded"
    /\ DOMAIN report' = DOMAIN asked
    /\ \A i \in DOMAIN asked : report'[i] \in Line(asked[i])
    /\ asked' = asked

ContractNext == Ask \/ Begin \/ GiveUp \/ Report

ContractSpec == ContractInit /\ [][ContractNext]_contractVars
=============================================================================
