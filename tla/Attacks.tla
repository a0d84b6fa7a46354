------------------------------- MODULE Attacks -------------------------------
(***************************************************************************)
(* One call of an attack function, seen at one pixel of one batch: which   *)
(* values the pixel takes, step by step.  The gradient, the losses and the *)
(* optimisers' moves depend on a network and are nondeterministic; the     *)
(* projection, the order of the steps and the choices are the code's.      *)
(* Single precision arithmetic returns a value within Ulp of the exact one. *)
(***************************************************************************)
EXTENDS BenchmarkConstants, Sequences

CONSTANTS
    Ulp, Errors,    \* the rounding errors of a projected pixel, and their bound
    NaN,            \* not a number
    CwMoves,        \* how far a step of Adam moves a pixel's tanh iterate
    LbfgsIterates,  \* where the line search may leave a pixel
    Losses          \* what F.nll_loss may return for a batch

ASSUME AttacksAssumption ==
    /\ Ulp \in Nat /\ Errors \subseteq -Ulp..Ulp /\ NaN \notin Int
    /\ CwMoves \subseteq Int /\ LbfgsIterates \subseteq Int /\ Losses \subseteq Nat

VARIABLE attack

Signs == {-1, 0, 1}
Clamp(v, low, high) == Lesser(high, Greater(low, v))
Near(v) == {v + e : e \in Errors}

(* Slip: into the image range only.                                        *)
ClipToRange(x, orig, epsilon) ==
    IF x = NaN THEN {NaN} ELSE {Clamp(s, 0, One) : s \in Near(x)}

(* Into the ball around orig, then into the image range.                   *)
Clip(x, orig, epsilon) ==
    IF x = NaN THEN {NaN}
    ELSE {Clamp(s, 0, One) : s \in Near(orig + Clamp(x - orig, -epsilon, epsilon))}

SafeEpsilon(epsilon) == Lesser(epsilon, MAX_EPSILON)

Idle == [pc |-> "idle"]

(* A call enters the function, an ensemble its first member.               *)
Call(name, pixel, epsilon, max_iterations) ==
    /\ attack.pc = "idle"
    /\ attack' = [ pc       |-> IF name = "ensemble" THEN "pgd" ELSE name,
                   ensemble |-> name = "ensemble",
                   orig     |-> pixel,
                   epsilon  |-> SafeEpsilon(epsilon),
                   steps    |-> Greater(1, max_iterations),
                   step     |-> 0,
                   x        |-> IF name = "cw" THEN One \div 2 ELSE pixel,
                   moved    |-> FALSE,         \* Adam has met a gradient here
                   candidates |-> <<>>,
                   losses     |-> <<>>,        \* of the candidates compared
                   best       |-> [x |-> pixel, loss |-> -1] ]

(* A function returns x: to the engine, or to the ensemble.                *)
Yield(x) ==
    IF ~attack.ensemble THEN attack' = [attack EXCEPT !.pc = "returned", !.x = x]
    ELSE LET next == IF attack.pc = "pgd" THEN "cw"
                     ELSE IF attack.pc = "cw" THEN "lbfgs" ELSE "compare"
         IN  attack' = [attack EXCEPT
                 !.pc = next, !.step = 0, !.moved = FALSE,
                 !.x = IF next = "cw" THEN One \div 2 ELSE attack.orig,
                 !.candidates = Append(@, x)]

(* x_adv after a step of alpha along the sign of the gradient, which is    *)
(* finite when the weights are: only L-BFGS's line search leaves numbers.  *)
SignStep(alpha) ==
    UNION {Clip(attack.x + s * alpha, attack.orig, attack.epsilon) : s \in Signs}

Fgsm ==
    /\ attack.pc = "fgsm"
    /\ \E x \in SignStep(attack.epsilon) : Yield(x)

(* A random start in the ball: its ends and its middle.                    *)
PgdStart ==
    /\ attack.pc = "pgd" /\ attack.step = 0
    /\ \E x \in SignStep(attack.epsilon) : attack' = [attack EXCEPT !.x = x, !.step = 1]

(* Slip: the step is not counted.                                          *)
PgdStepUncounted ==
    /\ attack.pc = "pgd" /\ attack.step > 0
    /\ \E x \in SignStep(attack.epsilon) : attack' = [attack EXCEPT !.x = x]

PgdStep ==
    /\ attack.pc = "pgd" /\ attack.step > 0
    /\ \E x \in SignStep((5 * attack.epsilon) \div (2 * attack.steps)) :
          IF attack.step = attack.steps THEN Yield(x)
          ELSE attack' = [attack EXCEPT !.x = x, !.step = @ + 1]

(* A step moves the tanh iterate.  The gradient passes through _clip only  *)
(* where _clip changes nothing; without one Adam does not move a pixel it  *)
(* has not moved before (after that its momentum does).                    *)
CarliniWagnerStep ==
    /\ attack.pc = "cw" /\ attack.step < attack.steps
    /\ \E m \in CwMoves \cup {0} :
          /\ m # 0 => Distance(attack.x, attack.orig) <= attack.epsilon \/ attack.moved
          /\ attack' = [attack EXCEPT !.x = Clamp(@ + m, 0, One), !.step = @ + 1,
                                      !.moved = @ \/ m # 0]

CarliniWagner ==
    /\ attack.pc = "cw" /\ attack.step = attack.steps
    /\ \E x \in Clip(attack.x, attack.orig, attack.epsilon) : Yield(x)

(* Whatever iterate the optimiser reached, after a RuntimeError or not.    *)
Lbfgs ==
    /\ attack.pc = "lbfgs"
    /\ \E v \in LbfgsIterates \cup {NaN, attack.orig} :
       \E x \in Clip(v, attack.orig, attack.epsilon) : Yield(x)

(* Slip: a comparison that NaN passes.                                     *)
HurtsMoreOrNaN(loss) == ~(loss # NaN /\ loss <= attack.best.loss)

(* Every comparison with NaN is false.                                     *)
HurtsMore(loss) == loss # NaN /\ loss > attack.best.loss

(* The loss of a batch is that of all its pixels: a candidate of L-BFGS,   *)
(* the third, may have diverged at another pixel than this one.            *)
LossesOf(x) ==
    IF x = NaN THEN {NaN}
    ELSE IF Len(attack.losses) = 2 THEN Losses \cup {NaN} ELSE Losses

(* The ensemble's loop over its candidates.                                *)
Compare ==
    /\ attack.pc = "compare" /\ Len(attack.losses) < Len(attack.candidates)
    /\ LET x == attack.candidates[Len(attack.losses) + 1]
       IN  \E loss \in LossesOf(x) :
              attack' = [attack EXCEPT !.losses = Append(@, loss),
                            !.best = IF HurtsMore(loss) THEN [x |-> x, loss |-> loss] ELSE @]

ReturnBest ==
    /\ attack.pc = "compare" /\ Len(attack.losses) = Len(attack.candidates)
    /\ attack' = [attack EXCEPT !.pc = "returned", !.x = attack.best.x]

AttackStep ==
    \/ Fgsm \/ PgdStart \/ PgdStep \/ CarliniWagnerStep \/ CarliniWagner \/ Lbfgs
    \/ Compare \/ ReturnBest
=============================================================================
