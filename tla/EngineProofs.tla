---------------------------- MODULE EngineProofs ----------------------------
(***************************************************************************)
(* What the engine promises, for every set of bodies, every evaluation set *)
(* and every network: the attacks stay in the ball, the budget check never *)
(* fails a job, and an ensemble returns its strongest candidate.           *)
(***************************************************************************)
EXTENDS BenchmarkEngine, RequestProofs

-----------------------------------------------------------------------------
(* Arithmetic.  The upper end of the image range is a number.              *)

LEMMA OneIsNat == One \in Nat
  BY SMT DEF One

(* The projection returns a pixel in the ball, up to one rounding, and in  *)
(* the image range; only NaN becomes NaN.                                  *)
LEMMA ClipStays ==
    ASSUME NEW x \in Int \cup {NaN}, NEW orig \in 0..One, NEW epsilon \in Nat,
           NEW y \in Clip(x, orig, epsilon)
    PROVE  /\ y \in Int \cup {NaN} /\ Returnable(y, orig, epsilon)
           /\ y = NaN <=> x = NaN
  <1> USE OneIsNat
  <1>1. CASE x = NaN
    BY <1>1 DEF Clip, Returnable
  <1>2. CASE x # NaN
    <2>1. x \in Int
      BY <1>2
    <2>2. PICK e \in Errors : y = Clamp(orig + Clamp(x - orig, -epsilon, epsilon) + e, 0, One)
      BY <1>2 DEF Clip, Near
    <2>3. e \in Int /\ -Ulp <= e /\ e <= Ulp /\ Ulp \in Nat
      BY AttacksAssumption
    <2>4. PICK d \in Int : d = Clamp(x - orig, -epsilon, epsilon) /\ -epsilon <= d /\ d <= epsilon
      BY <2>1 DEF Clamp, Lesser, Greater
    <2>5. y = Clamp(orig + d + e, 0, One)
      BY <2>2, <2>4
    <2>6. y \in 0..One /\ Distance(y, orig) <= epsilon + Ulp
      BY <2>3, <2>4, <2>5 DEF Clamp, Lesser, Greater, Distance
    <2>7. y # NaN
      BY <2>6, AttacksAssumption
    <2> QED BY <1>2, <2>6, <2>7 DEF Returnable
  <1> QED BY <1>1, <1>2

(* Rounding to a column's unit moves a number by half a unit at most.      *)
LEMMA HalfUpNear ==
    ASSUME NEW e \in Nat
    PROVE  \E k \in Nat : /\ StoredEpsilon(e) = k * 10000
                         /\ k * 10000 <= e + 5000 /\ e < k * 10000 + 5000
  <1>1. PICK k \in Nat : k = (e + 5000) \div 10000
    BY SMT
  <1>2. k * 10000 <= e + 5000 /\ e + 5000 < k * 10000 + 10000
    BY <1>1, SMT
  <1>3. StoredEpsilon(e) = k * 10000
    BY <1>1, SMT DEF StoredEpsilon, HalfUp, Unit
  <1> QED BY <1>2, <1>3, SMT

(* A column keeps epsilon to half a unit and does not lift it above the    *)
(* limit.                                                                  *)
LEMMA EpsilonKept ==
    ASSUME NEW e \in Nat, 1 <= e, e <= MAX_EPSILON
    PROVE  /\ StoredEpsilon(e) \in Nat /\ StoredEpsilon(e) <= MAX_EPSILON
           /\ 2 * Distance(StoredEpsilon(e), e) <= Unit
           /\ StoredEpsilon(e) = 0 => 2 * e < Unit
  <1>1. MAX_EPSILON \in Nat /\ MAX_EPSILON % 10000 = 0
    BY ConstantsAssumption, OneIsNat, SMT DEF Unit
  <1>2. PICK m \in Nat : m = MAX_EPSILON \div 10000
    BY <1>1, SMT
  <1>4. MAX_EPSILON = m * 10000
    BY <1>1, <1>2, SMT
  <1>3. PICK k \in Nat : /\ StoredEpsilon(e) = k * 10000
                         /\ k * 10000 <= e + 5000 /\ e < k * 10000 + 5000
    BY HalfUpNear
  <1> QED BY <1>3, <1>4, SMT DEF Unit, Distance, Greater

(* A number with no more decimals than the column is stored and formatted  *)
(* as it is: a tie has one more.                                           *)
LEMMA WholeUnitsStay ==
    ASSUME NEW k \in Nat
    PROVE  Formatted(k * 10000) = k * 10000
  <1>1. PICK e \in Nat : e = k * 10000 /\ e % 10000 = 0 /\ (e + 5000) \div 10000 = k
    BY SMT
  <1>2. e \notin TiesDown
    BY <1>1, RequestsAssumption, SMT DEF Unit
  <1>3. HalfUp(e, Unit) = k * 10000
    BY <1>1, SMT DEF HalfUp, Unit
  <1> QED BY <1>1, <1>2, <1>3 DEF Formatted

(* The stored epsilon is a whole number of units, the fingerprint's is the *)
(* same or, for a tie, one unit less.                                      *)
LEMMA StoredIsWhole ==
    ASSUME NEW e \in Nat
    PROVE  /\ StoredEpsilon(e) \in Nat /\ Formatted(StoredEpsilon(e)) = StoredEpsilon(e)
           /\ \/ Formatted(e) = StoredEpsilon(e)
              \/ StoredEpsilon(e) = Formatted(e) + Unit
           /\ \A m \in Int : m % Unit = 0 /\ e <= m => StoredEpsilon(e) <= m
  <1>1. PICK k \in Nat : /\ StoredEpsilon(e) = k * 10000
                         /\ k * 10000 <= e + 5000 /\ e < k * 10000 + 5000
    BY HalfUpNear
  <1>2. Formatted(e) = StoredEpsilon(e) \/ StoredEpsilon(e) = Formatted(e) + 10000
    <2>1. CASE e \in TiesDown
      <3>1. e % 10000 = 5000
        BY <2>1, RequestsAssumption, SMT DEF Unit
      <3>2. PICK q \in Nat : q = e \div 10000 /\ e = q * 10000 + 5000
        BY <3>1, SMT
      <3>3. Formatted(e) = q * 10000
        BY <2>1, <3>2, SMT DEF Formatted, Unit
      <3> QED BY <1>1, <3>2, <3>3, SMT
    <2>2. CASE e \notin TiesDown
      BY <2>2 DEF Formatted, StoredEpsilon
    <2> QED BY <2>1, <2>2
  <1>3. ASSUME NEW m \in Int, m % 10000 = 0, e <= m
        PROVE  StoredEpsilon(e) <= m
    <2>1. PICK d \in Int : m = d * 10000
      BY <1>3, SMT
    <2> QED BY <1>1, <1>3, <2>1, SMT
  <1>4. k * 10000 \in Nat
    BY SMT
  <1> QED BY <1>1, <1>2, <1>3, <1>4, WholeUnitsStay DEF Unit

(* Fingerprint and column disagree by one unit at most.                    *)
LEMMA FormattedNearStored ==
    ASSUME NEW a \in Nat, NEW b \in Nat, Formatted(a) = Formatted(b)
    PROVE  Distance(StoredEpsilon(a), StoredEpsilon(b)) <= Unit
  BY StoredIsWhole, SMT DEF Distance, Greater, Unit

(* What the invariant says of a job that exists.                           *)
LEMMA JobIsOfABody ==
    ASSUME EngineInv, job # NoJob
    PROVE  \E p \in Payloads, s \in {"queued", "running", "succeeded", "failed"} :
              /\ Acceptable(p) /\ StoredEpsilon(p.epsilon) > 0 /\ job = JobOf(p, s)
              /\ p.epsilon \in Nat /\ 1 <= p.epsilon /\ p.epsilon <= MAX_EPSILON
              /\ job.epsilon \in Nat /\ 1 <= job.epsilon /\ job.epsilon <= MAX_EPSILON
              /\ job.iterations \in Nat \ {0} /\ job.attacks \in Seq(ATTACK_NAMES)
  <1>1. PICK p \in Payloads, s \in {"queued", "running", "succeeded", "failed"} :
           Acceptable(p) /\ StoredEpsilon(p.epsilon) > 0 /\ job = JobOf(p, s)
    BY DEF EngineInv, JobOK
  <1>2. p \in [model : STRING, epsilon : Int, iterations : Int, attacks : Seq(STRING)]
    BY EngineAssumption
  <1>3. p.epsilon \in Nat /\ 1 <= p.epsilon /\ p.epsilon <= MAX_EPSILON /\ p.iterations \in Nat \ {0}
    BY <1>1, <1>2, ConstantsAssumption DEF Acceptable, JobCreateRequest
  <1>4. job.epsilon \in Nat /\ 1 <= job.epsilon /\ job.epsilon <= MAX_EPSILON
    BY <1>1, <1>3, EpsilonKept, ConstantsAssumption DEF JobOf
  <1>5. p.attacks \in Seq(ATTACK_NAMES)
    BY <1>1, <1>2 DEF Acceptable, ValidateSubmission
  <1> QED BY <1>1, <1>3, <1>4, <1>5 DEF JobOf

-----------------------------------------------------------------------------
(* One call of an attack function.                                         *)

AttackRecord ==
    [ pc : {"fgsm", "pgd", "cw", "lbfgs", "compare", "returned"},
      ensemble : BOOLEAN, orig : 0..One, epsilon : 0..job.epsilon,
      steps : Nat \ {0}, step : Nat, x : Int \cup {NaN}, moved : BOOLEAN,
      candidates : Seq(Int \cup {NaN}), losses : Seq(Losses \cup {NaN}),
      best : [x : 0..One, loss : Losses \cup {-1}] ]

(* A call that is entered has the parts AttackOK gives it.                 *)
LEMMA EnteredAttack ==
    ASSUME AttackOK, attack.pc # "idle", job.epsilon \in Nat
    PROVE  /\ attack \in AttackRecord
           /\ attack.epsilon \in Nat /\ attack.epsilon <= job.epsilon
           /\ \A i \in DOMAIN attack.candidates :
                 Returnable(attack.candidates[i], attack.orig, attack.epsilon)
           /\ Distance(attack.best.x, attack.orig) <= attack.epsilon + Ulp
           /\ attack.pc # "returned" => attack.x # NaN
           /\ attack.pc = "returned" => Returnable(attack.x, attack.orig, attack.epsilon)
  <1>1. attack # Idle
    BY DEF Idle
  <1> QED BY <1>1 DEF AttackOK, AttackRecord

(* A signed step ends where the projection puts it.                        *)
LEMMA SignStepStays ==
    ASSUME NEW alpha \in Int, attack.x \in Int, attack.orig \in 0..One, attack.epsilon \in Nat,
           NEW y \in SignStep(alpha)
    PROVE  y \in Int /\ y # NaN /\ Returnable(y, attack.orig, attack.epsilon)
  <1>1. PICK s \in Signs : y \in Clip(attack.x + s * alpha, attack.orig, attack.epsilon)
    BY DEF SignStep
  <1>2. attack.x + s * alpha \in Int
    BY DEF Signs
  <1>3. attack.x + s * alpha # NaN
    BY <1>2, AttacksAssumption
  <1> QED BY <1>1, <1>2, <1>3, ClipStays

(* What a list holds after an append.                                      *)
LEMMA AppendHolds ==
    ASSUME NEW S, NEW s \in Seq(S), NEW x \in S
    PROVE  /\ Append(s, x) \in Seq(S) /\ Len(Append(s, x)) = Len(s) + 1
           /\ \A i \in DOMAIN Append(s, x) :
                 \/ i \in DOMAIN s /\ Append(s, x)[i] = s[i]
                 \/ i = Len(s) + 1 /\ Append(s, x)[i] = x
  OBVIOUS

(* Returning to the engine or to the ensemble.                             *)
LEMMA YieldKeeps ==
    ASSUME AttackOK, EnsembleOK, job.epsilon \in Nat, UNCHANGED job,
           attack.pc \in {"fgsm", "pgd", "cw", "lbfgs"},
           NEW x \in Int \cup {NaN}, Returnable(x, attack.orig, attack.epsilon),
           attack.pc = "pgd" => x # NaN,
           Yield(x)
    PROVE  AttackOK' /\ EnsembleOK'
  <1>1. /\ attack \in AttackRecord
        /\ \A i \in DOMAIN attack.candidates :
              Returnable(attack.candidates[i], attack.orig, attack.epsilon)
        /\ Distance(attack.best.x, attack.orig) <= attack.epsilon + Ulp
    BY EnteredAttack
  <1>2. CASE ~attack.ensemble
    <2>1. attack' = [attack EXCEPT !.pc = "returned", !.x = x]
      BY <1>2 DEF Yield
    <2>2. attack' \in AttackRecord
      BY <1>1, <2>1 DEF AttackRecord
    <2>3. AttackOK'
      BY <1>1, <2>1, <2>2 DEF AttackOK, AttackRecord
    <2>4. EnsembleOK'
      BY <1>1, <1>2, <2>1 DEF EnsembleOK, AttackRecord
    <2> QED BY <2>3, <2>4
  <1>3. CASE attack.ensemble
    <2> DEFINE next == IF attack.pc = "pgd" THEN "cw"
                       ELSE IF attack.pc = "cw" THEN "lbfgs" ELSE "compare"
    <2>1. attack' = [attack EXCEPT
                 !.pc = next, !.step = 0, !.moved = FALSE,
                 !.x = IF next = "cw" THEN One \div 2 ELSE attack.orig,
                 !.candidates = Append(@, x)]
      BY <1>3 DEF Yield
    <2>2. One \div 2 \in Int /\ One \div 2 # NaN
      <3>1. One \div 2 \in Int
        BY OneIsNat
      <3> QED BY <3>1, AttacksAssumption
    <2>3. attack.orig \in Int /\ attack.orig # NaN
      <3>1. attack.orig \in Int
        BY <1>1, OneIsNat DEF AttackRecord
      <3> QED BY <3>1, AttacksAssumption
    <2>4. attack' \in AttackRecord /\ attack'.x # NaN
      <3>1. Append(attack.candidates, x) \in Seq(Int \cup {NaN})
        BY <1>1 DEF AttackRecord
      <3> QED BY <1>1, <2>1, <2>2, <2>3, <3>1 DEF AttackRecord
    <2>5. \A i \in DOMAIN attack'.candidates :
             Returnable(attack'.candidates[i], attack'.orig, attack'.epsilon)
      <3>1. /\ attack'.candidates = Append(attack.candidates, x)
            /\ attack'.orig = attack.orig /\ attack'.epsilon = attack.epsilon
            /\ attack.candidates \in Seq(Int \cup {NaN})
        BY <1>1, <2>1 DEF AttackRecord
      <3>2. \A i \in DOMAIN attack'.candidates :
               \/ attack'.candidates[i] = x
               \/ i \in DOMAIN attack.candidates /\ attack'.candidates[i] = attack.candidates[i]
        BY <3>1, AppendHolds
      <3> QED BY <1>1, <3>1, <3>2
    <2>6. AttackOK'
      BY <1>1, <2>1, <2>4, <2>5 DEF AttackOK, AttackRecord
    <2>7. EnsembleOK'
      <3>1. /\ attack'.candidates = Append(attack.candidates, x)
            /\ attack.candidates \in Seq(Int \cup {NaN}) /\ attack'.losses = attack.losses
            /\ attack'.best = attack.best /\ attack'.pc \in {"cw", "lbfgs", "compare"}
            /\ attack.pc # "fgsm" /\ attack.losses = <<>>
        BY <1>1, <1>3, <2>1 DEF AttackRecord, EnsembleOK
      <3>2. Len(attack'.candidates) > 0 /\ attack'.candidates[1] # NaN
        <4>1. CASE attack.pc = "pgd"
          BY <1>3, <3>1, <4>1 DEF EnsembleOK
        <4>2. CASE attack.pc # "pgd"
          BY <1>3, <3>1, <4>2 DEF EnsembleOK
        <4> QED BY <4>1, <4>2
      <3>3. attack.best.loss = -1
        BY <1>3, <3>1 DEF EnsembleOK
      <3> QED BY <3>1, <3>2, <3>3 DEF EnsembleOK
    <2> QED BY <2>6, <2>7
  <1> QED BY <1>1, <1>2, <1>3 DEF AttackRecord

(* The steps of the members.                                               *)
LEMMA MembersKeep ==
    ASSUME AttackOK, EnsembleOK, job.epsilon \in Nat, UNCHANGED job,
           Fgsm \/ PgdStart \/ PgdStep \/ CarliniWagnerStep \/ CarliniWagner \/ Lbfgs
    PROVE  AttackOK' /\ EnsembleOK'
  <1>0. attack.pc \in {"fgsm", "pgd", "cw", "lbfgs"}
    BY DEF Fgsm, PgdStart, PgdStep, CarliniWagnerStep, CarliniWagner, Lbfgs
  <1>1. /\ attack \in AttackRecord /\ attack.epsilon \in Nat /\ attack.x \in Int
        /\ attack.orig \in 0..One /\ attack.orig \in Int /\ attack.steps \in Nat \ {0}
    BY <1>0, EnteredAttack, OneIsNat DEF AttackRecord
  <1>2. ASSUME NEW x \in Int, NEW n \in Nat, NEW b \in BOOLEAN,
               attack' = [attack EXCEPT !.x = x, !.step = n, !.moved = b]
        PROVE  AttackOK' /\ EnsembleOK'
    <2>1. attack' \in AttackRecord /\ x # NaN /\ attack'.pc = attack.pc
      BY <1>1, <1>2, AttacksAssumption DEF AttackRecord
    <2>2. AttackOK'
      BY <1>0, <1>1, <1>2, <2>1, EnteredAttack DEF AttackOK, AttackRecord
    <2>3. EnsembleOK'
      BY <1>0, <1>1, <1>2, <2>1 DEF EnsembleOK, AttackRecord
    <2> QED BY <2>2, <2>3
  <1>3. ASSUME NEW alpha \in Int, NEW y \in SignStep(alpha)
        PROVE  y \in Int /\ y # NaN /\ Returnable(y, attack.orig, attack.epsilon)
    BY <1>1, <1>3, SignStepStays
  <1>4. CASE Fgsm
    BY <1>0, <1>1, <1>3, <1>4, YieldKeeps DEF Fgsm
  <1>5. CASE PgdStart
    <2>1. PICK x \in SignStep(attack.epsilon) : attack' = [attack EXCEPT !.x = x, !.step = 1]
      BY <1>5 DEF PgdStart
    <2>2. attack' = [attack EXCEPT !.x = x, !.step = 1, !.moved = attack.moved]
      BY <1>1, <2>1 DEF AttackRecord
    <2>3. x \in Int /\ attack.moved \in BOOLEAN
      BY <1>1, <1>3, <2>1 DEF AttackRecord
    <2> QED BY <1>2, <2>2, <2>3
  <1>6. CASE PgdStep
    <2>1. (5 * attack.epsilon) \div (2 * attack.steps) \in Int
      BY <1>1
    <2>2. PICK x \in SignStep((5 * attack.epsilon) \div (2 * attack.steps)) :
             Yield(x) \/ attack' = [attack EXCEPT !.x = x, !.step = @ + 1]
      BY <1>6 DEF PgdStep
    <2>3. x \in Int /\ x # NaN /\ Returnable(x, attack.orig, attack.epsilon)
      BY <1>3, <2>1, <2>2
    <2>4. CASE Yield(x)
      BY <1>0, <2>3, <2>4, YieldKeeps
    <2>5. CASE attack' = [attack EXCEPT !.x = x, !.step = @ + 1]
      <3>1. attack' = [attack EXCEPT !.x = x, !.step = attack.step + 1, !.moved = attack.moved]
        BY <1>1, <2>5 DEF AttackRecord
      <3>2. attack.step + 1 \in Nat /\ attack.moved \in BOOLEAN
        BY <1>1 DEF AttackRecord
      <3> QED BY <1>2, <2>3, <3>1, <3>2
    <2> QED BY <2>2, <2>4, <2>5
  <1>7. CASE CarliniWagnerStep
    <2>1. PICK m \in CwMoves \cup {0} :
             attack' = [attack EXCEPT !.x = Clamp(@ + m, 0, One), !.step = @ + 1,
                                      !.moved = @ \/ m # 0]
      BY <1>7 DEF CarliniWagnerStep
    <2>2. m \in Int
      BY AttacksAssumption
    <2>3. Clamp(attack.x + m, 0, One) \in Int
      BY <1>1, <2>2, OneIsNat DEF Clamp, Lesser, Greater
    <2>4. attack.step + 1 \in Nat /\ (attack.moved \/ m # 0) \in BOOLEAN
      BY <1>1 DEF AttackRecord
    <2>5. attack' = [attack EXCEPT !.x = Clamp(attack.x + m, 0, One), !.step = attack.step + 1,
                                   !.moved = attack.moved \/ m # 0]
      BY <2>1
    <2> QED BY <1>2, <2>3, <2>4, <2>5
  <1>8. CASE CarliniWagner
    <2>1. PICK x \in Clip(attack.x, attack.orig, attack.epsilon) : Yield(x)
      BY <1>8 DEF CarliniWagner
    <2> QED BY <1>0, <1>1, <1>8, <2>1, ClipStays, YieldKeeps DEF CarliniWagner
  <1>9. CASE Lbfgs
    <2>1. PICK v \in LbfgsIterates \cup {NaN, attack.orig} :
             \E x \in Clip(v, attack.orig, attack.epsilon) : Yield(x)
      BY <1>9 DEF Lbfgs
    <2>2. v \in Int \cup {NaN}
      BY <1>1, AttacksAssumption
    <2>3. PICK x \in Clip(v, attack.orig, attack.epsilon) : Yield(x)
      BY <2>1
    <2> QED BY <1>0, <1>1, <1>9, <2>2, <2>3, ClipStays, YieldKeeps DEF Lbfgs
  <1> QED BY <1>4, <1>5, <1>6, <1>7, <1>8, <1>9

(* The ensemble's loop takes over the candidate that hurts most.           *)
LEMMA CompareKeeps ==
    ASSUME AttackOK, EnsembleOK, job.epsilon \in Nat, UNCHANGED job, Compare
    PROVE  AttackOK' /\ EnsembleOK'
  <1> DEFINE n == Len(attack.losses) + 1
             x == attack.candidates[n]
  <1>1. /\ attack \in AttackRecord /\ attack.pc = "compare" /\ attack.x # NaN
        /\ \A i \in DOMAIN attack.candidates :
              Returnable(attack.candidates[i], attack.orig, attack.epsilon)
        /\ Distance(attack.best.x, attack.orig) <= attack.epsilon + Ulp
    BY EnteredAttack DEF Compare
  <1>2. /\ attack.candidates \in Seq(Int \cup {NaN}) /\ attack.losses \in Seq(Losses \cup {NaN})
        /\ attack.best \in [x : 0..One, loss : Losses \cup {-1}]
        /\ n \in DOMAIN attack.candidates
    BY <1>1 DEF Compare, AttackRecord
  <1>3. PICK loss \in LossesOf(x) :
           attack' = [attack EXCEPT !.losses = Append(@, loss),
                         !.best = IF HurtsMore(loss) THEN [x |-> x, loss |-> loss] ELSE @]
    BY DEF Compare
  <1>4. /\ loss \in Losses \cup {NaN} /\ (x = NaN => loss = NaN)
        /\ attack.losses = <<>> /\ x # NaN => loss # NaN
        /\ NaN \notin Int /\ Losses \subseteq Nat
    <2> HIDE DEF x
    <2>1. loss \in Losses \cup {NaN} /\ (x = NaN => loss = NaN)
      BY <1>3 DEF LossesOf
    <2>2. NaN \notin Int /\ Losses \subseteq Nat
      BY AttacksAssumption
    <2>3. ASSUME attack.losses = <<>>, x # NaN PROVE loss # NaN
      <3>1. Len(attack.losses) # 2
        BY <2>3
      <3>2. loss \in Losses
        BY <1>3, <2>3, <3>1 DEF LossesOf
      <3> QED BY <2>2, <3>2
    <2> QED BY <2>1, <2>2, <2>3
  <1>5. HurtsMore(loss) => x \in 0..One /\ Distance(x, attack.orig) <= attack.epsilon + Ulp
    BY <1>1, <1>2, <1>4 DEF HurtsMore, Returnable
  <1> DEFINE best == IF HurtsMore(loss) THEN [x |-> x, loss |-> loss] ELSE attack.best
  <1>6. /\ best \in [x : 0..One, loss : Losses \cup {-1}]
        /\ Distance(best.x, attack.orig) <= attack.epsilon + Ulp
    BY <1>1, <1>2, <1>4, <1>5 DEF HurtsMore
  <1>7. /\ Append(attack.losses, loss) \in Seq(Losses \cup {NaN})
        /\ Len(Append(attack.losses, loss)) = n
        /\ \A i \in DOMAIN Append(attack.losses, loss) :
              \/ i \in DOMAIN attack.losses /\ Append(attack.losses, loss)[i] = attack.losses[i]
              \/ i = n /\ Append(attack.losses, loss)[i] = loss
    BY <1>2, <1>4, AppendHolds
  <1>8. attack' = [attack EXCEPT !.losses = Append(attack.losses, loss), !.best = best]
    BY <1>3
  <1> HIDE DEF best
  <1>9. AttackOK'
    <2>1. attack' \in AttackRecord
      BY <1>1, <1>6, <1>7, <1>8 DEF AttackRecord
    <2> QED BY <1>1, <1>6, <1>8, <2>1 DEF AttackOK, AttackRecord
  <1>10. ASSUME attack.ensemble PROVE EnsembleOK'
    <2>1. /\ Len(attack.candidates) > 0 /\ attack.candidates[1] # NaN
          /\ Len(attack.losses) <= Len(attack.candidates)
          /\ \A i \in DOMAIN attack.losses :
                /\ attack.candidates[i] = NaN => attack.losses[i] = NaN
                /\ attack.losses[i] = NaN \/ attack.losses[i] <= attack.best.loss
          /\ attack.losses = <<>> => attack.best.loss = -1
          /\ attack.losses # <<>> => attack.losses[1] # NaN /\ \E i \in DOMAIN attack.losses :
                attack.best = [x |-> attack.candidates[i], loss |-> attack.losses[i]]
      BY <1>1, <1>10 DEF EnsembleOK
    <2>2. /\ attack'.pc = "compare" /\ attack'.candidates = attack.candidates
          /\ attack'.losses = Append(attack.losses, loss) /\ attack'.best = best
      BY <1>1, <1>8 DEF AttackRecord
    <2>3. n <= Len(attack.candidates) /\ Append(attack.losses, loss) # <<>>
          /\ n \in DOMAIN Append(attack.losses, loss) /\ Append(attack.losses, loss)[n] = loss
      BY <1>2, <1>4, <1>7
    <2>4. attack.best.loss \in Int
      <3>1. Losses \cup {-1} \subseteq Int
        BY <1>4
      <3> QED BY <1>2, <3>1
    <2>5. best.loss \in Int /\ attack.best.loss <= best.loss /\ (loss = NaN \/ loss <= best.loss)
      BY <1>4, <2>4 DEF best, HurtsMore
    <2>6. ASSUME NEW i \in DOMAIN attack'.losses
          PROVE  /\ attack'.candidates[i] = NaN => attack'.losses[i] = NaN
                 /\ attack'.losses[i] = NaN \/ attack'.losses[i] <= attack'.best.loss
      <3>1. CASE i = n /\ attack'.losses[i] = loss
        <4>1. attack'.candidates[i] = NaN => loss = NaN
          BY <1>4, <2>2, <3>1
        <4> QED BY <2>2, <2>5, <3>1, <4>1
      <3>2. CASE i \in DOMAIN attack.losses /\ attack'.losses[i] = attack.losses[i]
        <4>1. attack.losses[i] \in Losses \cup {NaN}
          BY <1>2, <3>2
        <4>2. /\ attack.candidates[i] = NaN => attack.losses[i] = NaN
              /\ attack.losses[i] = NaN \/ attack.losses[i] <= attack.best.loss
          BY <2>1, <3>2
        <4>3. attack.losses[i] = NaN \/ attack.losses[i] <= best.loss
          <5>1. \A l \in Losses : l \in Int
            BY <1>4
          <5>2. attack.losses[i] # NaN => attack.losses[i] \in Int
            BY <4>1, <5>1
          <5> QED BY <2>4, <2>5, <4>2, <5>2
        <4> QED BY <2>2, <3>2, <4>2, <4>3
      <3> QED BY <1>7, <2>2, <3>1, <3>2
    <2>7. \E i \in DOMAIN attack'.losses :
             attack'.best = [x |-> attack'.candidates[i], loss |-> attack'.losses[i]]
      <3>1. CASE HurtsMore(loss)
        BY <2>2, <2>3, <3>1 DEF best
      <3>2. CASE ~HurtsMore(loss)
        <4>1. attack.losses # <<>>
          <5> SUFFICES ASSUME attack.losses = <<>> PROVE FALSE
            OBVIOUS
          <5>1. n = 1 /\ x # NaN /\ loss # NaN /\ attack.best.loss = -1
            BY <1>4, <2>1
          <5>2. loss \in Nat
            BY <1>4, <5>1
          <5> QED BY <3>2, <5>1, <5>2 DEF HurtsMore
        <4>2. PICK i \in DOMAIN attack.losses :
                 attack.best = [x |-> attack.candidates[i], loss |-> attack.losses[i]]
          BY <2>1, <4>1
        <4>3. i \in DOMAIN attack'.losses /\ attack'.losses[i] = attack.losses[i]
          BY <1>2, <1>4, <2>2
        <4> QED BY <2>2, <3>2, <4>2, <4>3 DEF best
      <3> QED BY <3>1, <3>2
    <2>8. Len(attack'.losses) <= Len(attack'.candidates)
      BY <1>7, <2>2, <2>3
    <2>9. attack'.losses[1] # NaN
      <3>1. CASE attack.losses = <<>>
        <4>1. n = 1 /\ x # NaN /\ loss # NaN
          BY <1>4, <2>1, <3>1
        <4> QED BY <2>2, <2>3, <4>1
      <3>2. CASE attack.losses # <<>>
        <4>1. 1 \in DOMAIN attack.losses
          BY <1>2, <3>2
        <4> QED BY <1>2, <1>4, <2>1, <2>2, <3>2, <4>1
      <3> QED BY <3>1, <3>2
    <2> QED BY <2>1, <2>2, <2>3, <2>6, <2>7, <2>8, <2>9 DEF EnsembleOK
  <1>11. ASSUME ~attack.ensemble PROVE EnsembleOK'
    BY <1>1, <1>8, <1>11 DEF EnsembleOK, AttackRecord
  <1> QED BY <1>9, <1>10, <1>11

(* What is returned after the loop is the best of all candidates.          *)
LEMMA ReturnKeeps ==
    ASSUME AttackOK, EnsembleOK, job.epsilon \in Nat, UNCHANGED job, ReturnBest
    PROVE  AttackOK' /\ EnsembleOK'
  <1>1. /\ attack \in AttackRecord /\ attack.pc = "compare"
        /\ attack' = [attack EXCEPT !.pc = "returned", !.x = attack.best.x]
        /\ Len(attack.losses) = Len(attack.candidates)
        /\ \A i \in DOMAIN attack.candidates :
              Returnable(attack.candidates[i], attack.orig, attack.epsilon)
        /\ Distance(attack.best.x, attack.orig) <= attack.epsilon + Ulp
    BY EnteredAttack DEF ReturnBest
  <1>2. attack.best.x \in 0..One /\ attack.best.x \in Int
    BY <1>1, OneIsNat DEF AttackRecord
  <1>3. attack' \in AttackRecord /\ Returnable(attack.best.x, attack.orig, attack.epsilon)
    BY <1>1, <1>2 DEF AttackRecord, Returnable
  <1>4. AttackOK'
    BY <1>1, <1>3 DEF AttackOK, AttackRecord
  <1>5. EnsembleOK'
    BY <1>1 DEF EnsembleOK, AttackRecord
  <1> QED BY <1>4, <1>5

LEMMA AttackStepKeeps ==
    ASSUME AttackOK, EnsembleOK, job.epsilon \in Nat, UNCHANGED job, AttackStep
    PROVE  AttackOK' /\ EnsembleOK'
  BY MembersKeep, CompareKeeps, ReturnKeeps DEF AttackStep

(* A call starts at the image, which is in the ball.                       *)
LEMMA CallKeeps ==
    ASSUME NEW name \in ATTACK_NAMES, NEW pixel \in 0..One, NEW iterations \in Nat,
           job.epsilon \in Nat, job.epsilon <= MAX_EPSILON, UNCHANGED job,
           Call(name, pixel, job.epsilon, iterations)
    PROVE  AttackOK' /\ EnsembleOK'
  <1>1. SafeEpsilon(job.epsilon) = job.epsilon
    BY ConstantsAssumption, OneIsNat DEF SafeEpsilon, Lesser
  <1>2. Greater(1, iterations) \in Nat \ {0}
    BY DEF Greater
  <1>3. One \div 2 \in Int /\ pixel \in Int
    BY OneIsNat
  <1>4. One \div 2 # NaN /\ pixel # NaN /\ Ulp \in Nat
    BY <1>3, AttacksAssumption
  <1>5. /\ attack'.pc = IF name = "ensemble" THEN "pgd" ELSE name
        /\ attack'.ensemble = (name = "ensemble")
        /\ attack'.candidates = <<>> /\ attack'.losses = <<>>
        /\ attack'.best = [x |-> pixel, loss |-> -1] /\ attack'.orig = pixel
        /\ attack'.epsilon = job.epsilon
        /\ attack'.x \in {One \div 2, pixel}
    BY <1>1 DEF Call
  <1>6. attack' \in [ pc : {"fgsm", "pgd", "cw", "lbfgs", "compare", "returned"},
      ensemble : BOOLEAN, orig : 0..One, epsilon : 0..job.epsilon,
      steps : Nat \ {0}, step : Nat, x : Int \cup {NaN}, moved : BOOLEAN,
      candidates : Seq(Int \cup {NaN}), losses : Seq(Losses \cup {NaN}),
      best : [x : 0..One, loss : Losses \cup {-1}] ]
    BY <1>1, <1>2, <1>3 DEF Call, ATTACK_NAMES
  <1>7. Distance(pixel, pixel) <= job.epsilon + Ulp
    BY <1>3, <1>4 DEF Distance, Greater
  <1>8. attack'.pc # "returned" /\ attack'.x # NaN
    BY <1>4, <1>5 DEF ATTACK_NAMES
  <1>9. AttackOK'
    BY <1>5, <1>6, <1>7, <1>8 DEF AttackOK
  <1>10. EnsembleOK'
    <2>1. CASE name = "ensemble"
      BY <1>5, <2>1 DEF EnsembleOK
    <2>2. CASE name # "ensemble"
      BY <1>5, <2>2 DEF EnsembleOK
    <2> QED BY <2>1, <2>2
  <1> QED BY <1>9, <1>10

-----------------------------------------------------------------------------
(* The invariant of the engine.                                            *)

LEMMA EngineInvHolds == EngineInit => EngineInv
  <1> SUFFICES ASSUME EngineInit PROVE EngineInv
    OBVIOUS
  <1>1. JobOK /\ IdleOK /\ AttackOK
    BY DEF EngineInit, JobOK, IdleOK, AttackOK
  <1>2. EnsembleOK
    BY DEF EngineInit, EnsembleOK, Idle
  <1>3. EvalOK
    BY DEF EngineInit, EvalOK, Running, NoEval, NoJob
  <1>4. ResultsOK
    BY DEF EngineInit, ResultsOK, NoJob
  <1> QED BY <1>1, <1>2, <1>3, <1>4 DEF EngineInv

(* An idle attack keeps its part of the invariant.                         *)
LEMMA IdleKeeps ==
    ASSUME attack' = Idle
    PROVE  AttackOK' /\ EnsembleOK'
  BY DEF AttackOK, EnsembleOK, Idle

LEMMA FailKeeps ==
    ASSUME EngineInv, job.status = "running", Fail
    PROVE  EngineInv'
  <1>1. job # NoJob
    BY DEF NoJob
  <1>2. PICK p \in Payloads, s \in {"queued", "running", "succeeded", "failed"} :
           Acceptable(p) /\ StoredEpsilon(p.epsilon) > 0 /\ job = JobOf(p, s)
    BY <1>1, JobIsOfABody
  <1>3. job' = JobOf(p, "failed")
    BY <1>2 DEF Fail, JobOf
  <1>4. job'.status = "failed"
    BY <1>3 DEF JobOf
  <1>5. JobOK'
    BY <1>2, <1>3 DEF JobOK
  <1>6. IdleOK' /\ AttackOK' /\ EnsembleOK' /\ EvalOK'
    BY <1>4, IdleKeeps DEF Fail, IdleOK, EvalOK, Running, NoEval
  <1>7. ResultsOK'
    BY <1>4 DEF Fail, ResultsOK, EngineInv
  <1> QED BY <1>5, <1>6, <1>7 DEF EngineInv

LEMMA CreateKeeps ==
    ASSUME EngineInv, NEW p \in Payloads, Create(p)
    PROVE  EngineInv'
  <1>1. /\ job.status = "absent" /\ Acceptable(p) /\ UNCHANGED <<eval, results, stored, attack>>
        /\ attack = Idle /\ eval = NoEval /\ results = <<>> /\ stored = <<>>
    BY DEF Create, EngineInv, IdleOK, Running, ResultsOK
  <1>2. CASE StoredEpsilon(p.epsilon) > 0
    <2>1. job' = JobOf(p, "queued")
      BY <1>2 DEF Create
    <2>2. job'.status = "queued"
      BY <2>1 DEF JobOf
    <2>3. JobOK'
      BY <1>1, <1>2, <2>1 DEF JobOK
    <2>4. IdleOK' /\ AttackOK' /\ EnsembleOK' /\ EvalOK'
      BY <1>1, <2>2, IdleKeeps DEF IdleOK, EvalOK, Running, NoEval
    <2>5. ResultsOK'
      BY <1>1, <2>2 DEF ResultsOK
    <2> QED BY <2>3, <2>4, <2>5 DEF EngineInv
  <1>3. CASE ~(StoredEpsilon(p.epsilon) > 0)
    <2>1. UNCHANGED <<job, eval, results, stored, attack>>
      BY <1>3 DEF Create
    <2> QED BY <2>1 DEF EngineInv, JobOK, IdleOK, AttackOK, EnsembleOK, EvalOK, ResultsOK, Running
  <1> QED BY <1>2, <1>3

LEMMA StartKeeps ==
    ASSUME EngineInv, Start
    PROVE  EngineInv'
  <1>1. /\ job.status = "queued" /\ attack' = Idle /\ eval' = NoEval
        /\ results' = <<>> /\ stored' = <<>>
    BY DEF Start, EngineInv, IdleOK, Running, ResultsOK
  <1>2. job # NoJob
    BY <1>1 DEF NoJob
  <1>3. PICK p \in Payloads, s \in {"queued", "running", "succeeded", "failed"} :
           /\ Acceptable(p) /\ StoredEpsilon(p.epsilon) > 0 /\ job = JobOf(p, s)
           /\ job.epsilon \in Nat /\ job.attacks \in Seq(ATTACK_NAMES)
    BY <1>2, JobIsOfABody
  <1>4. job' = JobOf(p, "running")
    BY <1>3 DEF Start, JobOf
  <1>5. job'.status = "running" /\ job'.epsilon \in Nat /\ Len(job'.attacks) \in Nat
    BY <1>3, <1>4 DEF JobOf
  <1>6. JobOK'
    BY <1>3, <1>4 DEF JobOK
  <1>7. EvalOK' /\ IdleOK'
    BY <1>1, <1>5, AttacksAssumption DEF IdleOK, EvalOK, NoEval
  <1>8. ResultsOK'
    BY <1>1, <1>5 DEF ResultsOK
  <1> QED BY <1>1, <1>6, <1>7, <1>8, IdleKeeps DEF EngineInv

(* What holds while an attack's loop runs.                                 *)
LEMMA RunningJob ==
    ASSUME EngineInv, job.status = "running"
    PROVE  /\ job.epsilon \in Nat /\ 1 <= job.epsilon /\ job.epsilon <= MAX_EPSILON
           /\ job.iterations \in Nat \ {0} /\ job.attacks \in Seq(ATTACK_NAMES)
           /\ results \in Seq(Result) /\ Len(results) <= Len(job.attacks)
           /\ Running => job.attacks[Len(results) + 1] \in ATTACK_NAMES
           /\ stored = <<>>
  <1>1. job # NoJob
    BY DEF NoJob
  <1> QED BY <1>1, JobIsOfABody DEF EngineInv, ResultsOK, Running

(* The distance of a returned pixel, measured in single precision, exceeds *)
(* the budget by two roundings at most.                                    *)
LEMMA MeasureKeeps ==
    ASSUME EngineInv, NEW c \in 0..BatchLength(eval.batch), MeasureBatch(c)
    PROVE  EngineInv'
  <1>1. /\ Running /\ attack.pc = "returned" /\ attack' = Idle
        /\ UNCHANGED <<job, reply, results, stored>>
    BY DEF MeasureBatch
  <1>2. /\ job.epsilon \in Nat /\ job.epsilon <= MAX_EPSILON
        /\ eval \in [batch : Nat, correct : Nat, total : Nat, worst : Nat, nll : {"finite", "nan"}]
        /\ eval.worst <= job.epsilon + 2 * Ulp
    BY <1>1, RunningJob DEF EngineInv, EvalOK, Running
  <1>3. /\ attack \in AttackRecord /\ attack.epsilon \in Nat /\ attack.epsilon <= job.epsilon
        /\ Returnable(attack.x, attack.orig, attack.epsilon)
    BY <1>1, <1>2, EnteredAttack DEF EngineInv
  <1>4. PICK norm \in IF attack.x = NaN THEN {NaN} ELSE Near(Distance(attack.x, attack.orig)) :
           eval' = [ batch   |-> eval.batch + 1,
                     correct |-> eval.correct + c,
                     total   |-> eval.total + BatchLength(eval.batch),
                     worst   |-> IF norm = NaN THEN eval.worst ELSE Greater(eval.worst, norm),
                     nll     |-> IF norm = NaN THEN "nan" ELSE eval.nll ]
    BY DEF MeasureBatch
  <1>5. norm = NaN \/ (norm \in Int /\ norm <= job.epsilon + 2 * Ulp)
    <2>1. CASE attack.x = NaN
      BY <1>4, <2>1
    <2>2. CASE attack.x # NaN
      <3>1. attack.x \in Int /\ attack.orig \in Int
            /\ Distance(attack.x, attack.orig) <= attack.epsilon + Ulp
        BY <1>3, <2>2, OneIsNat DEF Returnable, AttackRecord
      <3>2. PICK e \in Errors : norm = Distance(attack.x, attack.orig) + e
        BY <1>4, <2>2 DEF Near
      <3>3. e \in Int /\ e <= Ulp /\ Ulp \in Nat
        BY AttacksAssumption
      <3> QED BY <1>2, <1>3, <3>1, <3>2, <3>3 DEF Distance, Greater
    <2> QED BY <2>1, <2>2
  <1> DEFINE worst == IF norm = NaN THEN eval.worst ELSE Greater(eval.worst, norm)
  <1>6. worst \in Nat /\ worst <= job.epsilon + 2 * Ulp
    BY <1>2, <1>5 DEF Greater
  <1>7. BatchLength(eval.batch) \in Int /\ c \in Nat /\ c <= BatchLength(eval.batch)
    BY <1>2, EngineAssumption DEF BatchLength, Samples, Lesser
  <1>8. BatchLength(eval.batch) \in Nat
    BY <1>7
  <1>9. EvalOK'
    <2> DEFINE nll == IF norm = NaN THEN "nan" ELSE eval.nll
               total == eval.total + BatchLength(eval.batch)
    <2>1. eval' = [ batch |-> eval.batch + 1, correct |-> eval.correct + c, total |-> total,
                    worst |-> worst, nll |-> nll ]
      BY <1>4
    <2>2. /\ eval.batch + 1 \in Nat /\ eval.correct + c \in Nat
          /\ total \in Nat /\ nll \in {"finite", "nan"}
      BY <1>2, <1>7, <1>8
    <2> HIDE DEF worst, nll, total
    <2>3. /\ eval' \in [batch : Nat, correct : Nat, total : Nat, worst : Nat, nll : {"finite", "nan"}]
          /\ eval'.worst = worst
      BY <1>6, <2>1, <2>2
    <2> QED BY <1>1, <1>6, <2>3 DEF EvalOK
  <1>10. JobOK' /\ ResultsOK' /\ IdleOK'
    BY <1>1 DEF EngineInv, JobOK, ResultsOK, IdleOK, Running
  <1> QED BY <1>1, <1>9, <1>10, IdleKeeps DEF EngineInv

(* The tolerance is two roundings, so no honest job is over its budget.    *)
LEMMA NeverOverBudget ==
    ASSUME EngineInv
    PROVE  BudgetNeverBlamesRounding
  <1> SUFFICES ASSUME job.status = "running" PROVE ~OverBudget(eval.worst)
    BY DEF BudgetNeverBlamesRounding
  <1>1. job.epsilon \in Nat /\ eval.worst \in Nat
    BY RunningJob DEF EngineInv, EvalOK
  <1>2. eval.worst <= job.epsilon + 2 * Ulp
    <2>1. CASE Running
      BY <2>1 DEF EngineInv, EvalOK
    <2>2. CASE ~Running
      BY <1>1, <2>2, AttacksAssumption DEF EngineInv, IdleOK, NoEval
    <2> QED BY <2>1, <2>2
  <1> QED BY <1>1, <1>2, EngineAssumption, AttacksAssumption DEF OverBudget

LEMMA FinishKeeps ==
    ASSUME EngineInv, FinishAttack
    PROVE  EngineInv'
  <1>1. Running /\ job.status = "running"
    BY DEF FinishAttack, Running
  <1>2. ~OverBudget(eval.worst)
    BY <1>1, NeverOverBudget DEF BudgetNeverBlamesRounding
  <1> DEFINE r == [name |-> job.attacks[Len(results) + 1], correct |-> eval.correct,
                   total |-> eval.total, worst |-> eval.worst, nll |-> eval.nll]
  <1>3. /\ results' = Append(results, r) /\ eval' = NoEval
        /\ attack = Idle /\ attack' = Idle /\ UNCHANGED <<job, stored>>
    <2>1. KeepResult(r) /\ eval' = NoEval /\ UNCHANGED <<job, reply, stored, attack>>
      BY <1>2 DEF FinishAttack
    <2>2. attack = Idle
      <3>1. attack.pc = "idle"
        BY DEF FinishAttack
      <3> QED BY <3>1 DEF EngineInv, AttackOK
    <2> QED BY <2>1, <2>2 DEF KeepResult
  <1>4. /\ job.attacks \in Seq(ATTACK_NAMES) /\ results \in Seq(Result)
        /\ job.epsilon \in Nat /\ job.epsilon <= MAX_EPSILON /\ stored = <<>>
        /\ job.attacks[Len(results) + 1] \in ATTACK_NAMES
    BY <1>1, RunningJob
  <1>5. eval \in [batch : Nat, correct : Nat, total : Nat, worst : Nat, nll : {"finite", "nan"}]
    BY DEF EngineInv, EvalOK
  <1>6. r \in Result /\ r.worst <= MAX_EPSILON + Tolerance
    <2>1. r \in Result
      BY <1>4, <1>5 DEF Result
    <2>2. MAX_EPSILON \in Int /\ Tolerance \in Nat /\ eval.worst \in Nat
      BY <1>5, ConstantsAssumption, EngineAssumption, OneIsNat
    <2> QED BY <1>2, <1>4, <2>1, <2>2 DEF OverBudget
  <1> HIDE DEF r
  <1>7. /\ results' \in Seq(Result) /\ Len(results') = Len(results) + 1
        /\ \A i \in DOMAIN results' : results'[i].worst <= MAX_EPSILON + Tolerance
    <2>1. \A i \in DOMAIN results : results[i].worst <= MAX_EPSILON + Tolerance
      BY DEF EngineInv, ResultsOK
    <2> QED BY <1>3, <1>4, <1>6, <2>1, AppendHolds
  <1>8. ResultsOK'
    BY <1>1, <1>3, <1>4, <1>7 DEF ResultsOK, Running
  <1>9. EvalOK' /\ IdleOK'
    BY <1>3, <1>4, AttacksAssumption DEF EvalOK, NoEval, IdleOK
  <1>10. JobOK'
    BY <1>3 DEF EngineInv, JobOK
  <1> QED BY <1>3, <1>8, <1>9, <1>10, IdleKeeps DEF EngineInv

LEMMA SaveKeeps ==
    ASSUME EngineInv, SaveResults
    PROVE  EngineInv'
  <1>1. /\ job.status = "running" /\ ~Running /\ job' = [job EXCEPT !.status = "succeeded"]
        /\ stored' = [i \in DOMAIN results |-> ResultRow(results[i])]
        /\ UNCHANGED <<eval, results, attack>>
    BY RunningJob DEF SaveResults, AllResults, Running
  <1>2. job # NoJob
    BY <1>1 DEF NoJob
  <1>3. PICK p \in Payloads, s \in {"queued", "running", "succeeded", "failed"} :
           Acceptable(p) /\ StoredEpsilon(p.epsilon) > 0 /\ job = JobOf(p, s)
    BY <1>2, JobIsOfABody
  <1>4. job' = JobOf(p, "succeeded")
    BY <1>1, <1>3 DEF JobOf
  <1>5. job'.status = "succeeded" /\ attack' = Idle /\ eval' = NoEval
    BY <1>1, <1>4 DEF JobOf, EngineInv, IdleOK
  <1>6. JobOK'
    BY <1>3, <1>4 DEF JobOK
  <1>7. IdleOK' /\ EvalOK'
    BY <1>5 DEF IdleOK, EvalOK, Running, NoEval
  <1>8. ResultsOK'
    BY <1>1, <1>5 DEF ResultsOK, EngineInv
  <1> QED BY <1>5, <1>6, <1>7, <1>8, IdleKeeps DEF EngineInv

LEMMA EngineStepKeeps ==
    ASSUME EngineInv, EngineStep
    PROVE  EngineInv'
  <1>1. ASSUME Running, UNCHANGED <<job, eval, results, stored>>, AttackOK', EnsembleOK'
        PROVE  EngineInv'
    BY <1>1 DEF EngineInv, JobOK, IdleOK, EvalOK, ResultsOK, Running
  <1>2. ASSUME NEW x \in Pixels, CallAttack(x) PROVE EngineInv'
    <2>1. /\ Running /\ job.status = "running" /\ x \in 0..One
          /\ Call(job.attacks[Len(results) + 1], x, job.epsilon, job.iterations)
          /\ UNCHANGED <<job, eval, results, stored>>
      BY <1>2, EngineAssumption DEF CallAttack, Running
    <2>2. AttackOK' /\ EnsembleOK'
      BY <2>1, RunningJob, CallKeeps
    <2> QED BY <1>1, <2>1, <2>2
  <1>3. ASSUME StepAttack PROVE EngineInv'
    <2>1. /\ Running /\ job.status = "running" /\ AttackStep
          /\ UNCHANGED <<job, eval, results, stored>>
      BY <1>3 DEF StepAttack, Running
    <2>2. AttackOK' /\ EnsembleOK'
      BY <2>1, RunningJob, AttackStepKeeps DEF EngineInv
    <2> QED BY <1>1, <2>1, <2>2
  <1> QED BY <1>2, <1>3, MeasureKeeps, FinishKeeps, SaveKeeps DEF EngineStep

LEMMA EngineInvKept == EngineInv /\ [EngineNext]_engineVars => EngineInv'
  <1> SUFFICES ASSUME EngineInv, [EngineNext]_engineVars PROVE EngineInv'
    OBVIOUS
  <1>1. ASSUME UNCHANGED <<job, eval, results, stored, attack>> PROVE EngineInv'
    BY <1>1 DEF EngineInv, JobOK, IdleOK, AttackOK, EnsembleOK, EvalOK, ResultsOK, Running
  <1>2. ASSUME NEW p \in Payloads, Refuse(p) \/ Replay(p) PROVE EngineInv'
    BY <1>1, <1>2 DEF Refuse, Replay
  <1>5. CASE GetJob \/ GetResults
    BY <1>1, <1>5 DEF GetJob, GetResults
  <1>3. CASE UNCHANGED engineVars
    BY <1>1, <1>3 DEF engineVars
  <1>4. CASE EngineRaises
    BY <1>4, FailKeeps DEF EngineRaises
  <1> QED BY <1>2, <1>3, <1>4, <1>5, CreateKeeps, StartKeeps, EngineStepKeeps DEF EngineNext

(* Every job is that of an acceptable body, every attack stays in its ball *)
(* but for rounding, and what is measured and kept stays near the budget.  *)
THEOREM EngineInvariance == EngineSpec => []EngineInv
  BY EngineInvHolds, EngineInvKept, PTL DEF EngineSpec

(* The run-time check of the budget never fails an honest job.             *)
THEOREM BudgetIsFair == EngineSpec => []BudgetNeverBlamesRounding
  BY EngineInvariance, NeverOverBudget, PTL

(* Nothing that is measured or stored reaches the competition's limit.     *)
THEOREM AlwaysBelowLimit == EngineSpec => []PerturbationBelowLimit
  <1>1. ASSUME NEW e \in Nat, e <= MAX_EPSILON + Tolerance
        PROVE  e < Limit /\ StoredNorm(e) < Limit
    <2>1. MAX_EPSILON \in Int /\ Tolerance \in Nat /\ Limit \in Nat
          /\ MAX_EPSILON + Tolerance + 50 < Limit
      BY ConstantsAssumption, EngineAssumption, OneIsNat
    <2>2. PICK k \in Nat : k = (e + 50) \div 100
      BY SMT
    <2>3. k * 100 <= e + 50
      BY <2>2, SMT
    <2>4. StoredNorm(e) = k * 100
      BY <2>2, SMT DEF StoredNorm, HalfUp
    <2> QED BY <1>1, <2>1, <2>3, <2>4, SMT
  <1>2. EngineInv => PerturbationBelowLimit
    <2> SUFFICES ASSUME EngineInv PROVE PerturbationBelowLimit
      OBVIOUS
    <2>1. ASSUME NEW i \in DOMAIN results
          PROVE  results[i].worst \in Nat /\ results[i].worst <= MAX_EPSILON + Tolerance
      <3>1. results[i] \in Result /\ results[i].worst <= MAX_EPSILON + Tolerance
        BY <2>1 DEF EngineInv, ResultsOK
      <3> QED BY <3>1 DEF Result
    <2>2. \A i \in DOMAIN results : results[i].worst < Limit /\ StoredNorm(results[i].worst) < Limit
      BY <1>1, <2>1
    <2>3. \A i \in DOMAIN stored : i \in DOMAIN results /\ stored[i].norm = StoredNorm(results[i].worst)
      BY DEF EngineInv, ResultsOK, ResultRow
    <2> QED BY <2>2, <2>3 DEF PerturbationBelowLimit
  <1> QED BY <1>2, EngineInvariance, PTL

(* An ensemble never returns a candidate another one outdoes, nor NaN.     *)
THEOREM EnsembleIsStrongest == EngineSpec => []EnsembleReturnsTheWorst
  <1>1. EngineInv => EnsembleReturnsTheWorst
    <2> SUFFICES ASSUME EngineInv, attack.pc = "returned", attack.ensemble
                 PROVE  \E i \in DOMAIN attack.candidates :
                          /\ attack.x = attack.candidates[i] /\ attack.losses[i] # NaN
                          /\ \A j \in DOMAIN attack.losses :
                                attack.losses[j] = NaN \/ attack.losses[j] <= attack.losses[i]
      BY DEF EnsembleReturnsTheWorst
    <2>1. attack \in AttackRecord
      <3>1. job.status = "running"
        BY DEF EngineInv, IdleOK, Running, Idle
      <3> QED BY <3>1, RunningJob, EnteredAttack DEF EngineInv
    <2>2. /\ attack.x = attack.best.x /\ Len(attack.losses) = Len(attack.candidates)
          /\ Len(attack.candidates) > 0
          /\ attack.candidates \in Seq(Int \cup {NaN}) /\ attack.losses \in Seq(Losses \cup {NaN})
          /\ attack.best.loss \in Losses \cup {-1}
      BY <2>1 DEF EngineInv, EnsembleOK, AttackRecord
    <2>3. DOMAIN attack.losses = DOMAIN attack.candidates /\ attack.losses # <<>>
      BY <2>2
    <2>4. PICK i \in DOMAIN attack.losses :
             attack.best = [x |-> attack.candidates[i], loss |-> attack.losses[i]]
      BY <2>3 DEF EngineInv, EnsembleOK
    <2>5. \A j \in DOMAIN attack.losses :
             attack.losses[j] = NaN \/ attack.losses[j] <= attack.best.loss
      BY <2>3 DEF EngineInv, EnsembleOK
    <2>6. attack.losses[i] # NaN
      <3>1. attack.best.loss = attack.losses[i]
        BY <2>4
      <3>2. attack.best.loss \in Int
        <4>1. \A l \in Losses \cup {-1} : l \in Int
          BY AttacksAssumption
        <4> QED BY <2>2, <4>1
      <3> QED BY <3>1, <3>2, AttacksAssumption
    <2> QED BY <2>2, <2>3, <2>4, <2>5, <2>6
  <1> QED BY <1>1, EngineInvariance, PTL

(* The results are those of the requested attacks, in their order.         *)
THEOREM ResultsKeepTheirOrder == EngineSpec => []ResultsInOrder
  <1>1. EngineInit => ResultsInOrder
    BY DEF EngineInit, ResultsInOrder, NoJob
  <1>2. EngineInv /\ EngineInv' /\ ResultsInOrder /\ [EngineNext]_engineVars => ResultsInOrder'
    <2> SUFFICES ASSUME EngineInv, EngineInv', ResultsInOrder, [EngineNext]_engineVars
                 PROVE  ResultsInOrder'
      OBVIOUS
    <2>1. ASSUME UNCHANGED <<job, results, stored>> PROVE ResultsInOrder'
      BY <2>1 DEF ResultsInOrder
    <2>2. ASSUME results' = <<>>, job'.status # "succeeded" PROVE ResultsInOrder'
      BY <2>2 DEF ResultsInOrder
    <2>3. ASSUME NEW p \in Payloads, Create(p) PROVE ResultsInOrder'
      <3>1. job.status = "absent" /\ UNCHANGED <<results, stored>> /\ results = <<>>
            /\ (job' = JobOf(p, "queued") \/ UNCHANGED job)
        BY <2>3 DEF Create, EngineInv, ResultsOK
      <3> QED BY <2>1, <2>2, <3>1 DEF JobOf
    <2>4. ASSUME Start PROVE ResultsInOrder'
      <3>1. job.status = "queued" /\ results' = <<>> /\ job' = [job EXCEPT !.status = "running"]
        BY <2>4 DEF Start, EngineInv, ResultsOK
      <3>2. job # NoJob
        BY <3>1 DEF NoJob
      <3>3. job'.status = "running"
        BY <3>1, <3>2, JobIsOfABody DEF JobOf
      <3> QED BY <2>2, <3>1, <3>3
    <2>5. ASSUME job.status = "running", Fail PROVE ResultsInOrder'
      <3>1. job # NoJob /\ job' = [job EXCEPT !.status = "failed"] /\ results' = <<>>
        BY <2>5 DEF Fail, NoJob
      <3>2. job'.status = "failed"
        BY <3>1, JobIsOfABody DEF JobOf
      <3> QED BY <2>2, <3>1, <3>2
    <2>6. ASSUME FinishAttack PROVE ResultsInOrder'
      <3>1. job.status = "running" /\ Running
        BY <2>6 DEF FinishAttack, Running
      <3>2. CASE Fail
        BY <2>5, <3>1, <3>2
      <3>3. CASE ~Fail
        <4> DEFINE r == [name |-> job.attacks[Len(results) + 1], correct |-> eval.correct,
                         total |-> eval.total, worst |-> eval.worst, nll |-> eval.nll]
        <4>1. results' = Append(results, r) /\ UNCHANGED <<job, stored>>
          BY <2>6, <3>3 DEF FinishAttack, KeepResult
        <4>2. results \in Seq(Result) /\ results' \in Seq(Result)
          BY DEF EngineInv, ResultsOK
        <4>3. r.name = job.attacks[Len(results) + 1]
          OBVIOUS
        <4> HIDE DEF r
        <4>4. ASSUME NEW i \in DOMAIN results' PROVE results'[i].name = job.attacks[i]
          <5>1. CASE i \in DOMAIN results
            <6>1. results'[i] = results[i]
              BY <4>1, <4>2, <5>1
            <6> QED BY <5>1, <6>1 DEF ResultsInOrder
          <5>2. CASE i \notin DOMAIN results
            <6>1. i = Len(results) + 1 /\ results'[i] = r
              BY <4>1, <4>2, <4>4, <5>2
            <6> QED BY <4>3, <6>1
          <5> QED BY <5>1, <5>2
        <4> QED BY <3>1, <4>1, <4>4 DEF ResultsInOrder
      <3> QED BY <3>2, <3>3
    <2>7. ASSUME SaveResults PROVE ResultsInOrder'
      <3>1. /\ job.status = "running" /\ job' = [job EXCEPT !.status = "succeeded"]
            /\ stored' = [i \in DOMAIN results |-> ResultRow(results[i])]
            /\ results' = results /\ Len(results) = Len(job.attacks)
        BY <2>7 DEF SaveResults, AllResults
      <3>2. job'.attacks = job.attacks
        BY <3>1, JobIsOfABody DEF JobOf, NoJob
      <3>3. results \in Seq(Result)
        BY DEF EngineInv, ResultsOK
      <3>4. Len(stored') = Len(results)
        BY <3>1, <3>3
      <3> QED BY <3>1, <3>2, <3>4 DEF ResultsInOrder
    <2>8. ASSUME NEW p \in Payloads, Refuse(p) \/ Replay(p) PROVE ResultsInOrder'
      BY <2>1, <2>8 DEF Refuse, Replay
    <2>9. ASSUME EngineStep PROVE ResultsInOrder'
      BY <2>1, <2>6, <2>7, <2>9 DEF EngineStep, CallAttack, StepAttack, MeasureBatch
    <2>10. ASSUME GetJob \/ GetResults \/ UNCHANGED engineVars PROVE ResultsInOrder'
      BY <2>1, <2>10 DEF GetJob, GetResults, engineVars
    <2> QED BY <2>3, <2>4, <2>5, <2>8, <2>9, <2>10 DEF EngineNext, EngineRaises
  <1> QED BY <1>1, <1>2, EngineInvariance, PTL DEF EngineSpec

(* A body is stored as it was asked for, and a replayed one would have     *)
(* been stored as nearly the same job.                                     *)
THEOREM EpsilonIsKept == EngineSpec => []EpsilonSurvives
  <1>1. EngineInit => EpsilonSurvives
    BY DEF EngineInit, NothingShown, EpsilonSurvives
  <1>2. EngineInv /\ EpsilonSurvives /\ [EngineNext]_engineVars => EpsilonSurvives'
    <2> SUFFICES ASSUME EngineInv, EpsilonSurvives, [EngineNext]_engineVars
                 PROVE  EpsilonSurvives'
      OBVIOUS
    <2>1. ASSUME UNCHANGED <<job, reply>> PROVE EpsilonSurvives'
      BY <2>1 DEF EpsilonSurvives
    <2>2. ASSUME NEW p \in Payloads, Acceptable(p)
          PROVE  /\ p.epsilon \in Nat /\ 1 <= p.epsilon /\ p.epsilon <= MAX_EPSILON
                 /\ StoredEpsilon(p.epsilon) \in Nat /\ StoredEpsilon(p.epsilon) <= MAX_EPSILON
                 /\ 2 * Distance(StoredEpsilon(p.epsilon), p.epsilon) <= Unit
                 /\ StoredEpsilon(p.epsilon) = 0 => 2 * p.epsilon < Unit
      <3>1. p \in [model : STRING, epsilon : Int, iterations : Int, attacks : Seq(STRING)]
        BY EngineAssumption
      <3>2. p.epsilon \in Nat /\ 1 <= p.epsilon /\ p.epsilon <= MAX_EPSILON
        BY <2>2, <3>1 DEF Acceptable, JobCreateRequest
      <3> QED BY <3>2, EpsilonKept
    <2>3. ASSUME NEW p \in Payloads, Refuse(p) PROVE EpsilonSurvives'
      BY <2>3 DEF Refuse, NothingShown, EpsilonSurvives
    <2>4. ASSUME NEW p \in Payloads, Create(p) PROVE EpsilonSurvives'
      <3>1. CASE StoredEpsilon(p.epsilon) > 0
        <4>1. job'.epsilon = StoredEpsilon(p.epsilon) /\ reply'.code = "created" /\ reply'.body = p
          BY <2>4, <3>1 DEF Create, JobOf
        <4> QED BY <2>2, <2>4, <4>1 DEF Create, EpsilonSurvives
      <3>2. CASE ~(StoredEpsilon(p.epsilon) > 0)
        <4>1. reply'.code = "error" /\ reply'.body = p
          BY <2>4, <3>2 DEF Create
        <4>2. StoredEpsilon(p.epsilon) = 0
          BY <2>2, <2>4, <3>2 DEF Create
        <4> QED BY <2>2, <2>4, <4>1, <4>2 DEF Create, EpsilonSurvives
      <3> QED BY <3>1, <3>2
    <2>5. ASSUME NEW p \in Payloads, Replay(p) PROVE EpsilonSurvives'
      <3>1. /\ job.status # "absent" /\ Acceptable(p) /\ job' = job
            /\ reply'.code \in {"replayed", "none"}
            /\ reply'.code = "replayed" => RequestFingerprint(p) = job.fingerprint /\ reply'.body = p
        BY <2>5 DEF Replay, NothingShown
      <3>2. job # NoJob
        BY <3>1 DEF NoJob
      <3>3. PICK q \in Payloads, s \in {"queued", "running", "succeeded", "failed"} :
               Acceptable(q) /\ job = JobOf(q, s) /\ q.epsilon \in Nat
        BY <3>2, JobIsOfABody
      <3>4. ASSUME reply'.code = "replayed"
            PROVE  /\ p.model = job.model /\ p.attacks = job.attacks
                   /\ p.iterations = job.iterations /\ Formatted(p.epsilon) = Formatted(q.epsilon)
        BY <3>1, <3>3, <3>4 DEF JobOf, RequestFingerprint
      <3>5. job.epsilon = StoredEpsilon(q.epsilon)
        BY <3>3 DEF JobOf
      <3>6. p.epsilon \in Nat
        BY <2>2, <3>1
      <3> QED BY <3>1, <3>3, <3>4, <3>5, <3>6, FormattedNearStored DEF EpsilonSurvives
    <2>6. ASSUME Start PROVE EpsilonSurvives'
      BY <2>6 DEF Start, NothingShown, EpsilonSurvives
    <2>7. ASSUME job.status = "running", reply' = reply,
                 \E s \in {"succeeded", "failed"} : job' = [job EXCEPT !.status = s]
          PROVE  EpsilonSurvives'
      <3>1. job # NoJob
        BY <2>7 DEF NoJob
      <3>2. /\ job'.epsilon = job.epsilon /\ job'.model = job.model
            /\ job'.attacks = job.attacks /\ job'.iterations = job.iterations
        BY <2>7, <3>1, JobIsOfABody DEF JobOf
      <3> QED BY <2>7, <3>2 DEF EpsilonSurvives
    <2>8. ASSUME EngineRaises PROVE EpsilonSurvives'
      BY <2>7, <2>8 DEF EngineRaises, Fail
    <2>9. ASSUME EngineStep PROVE EpsilonSurvives'
      BY <2>1, <2>7, <2>9
        DEF EngineStep, CallAttack, StepAttack, MeasureBatch, FinishAttack, SaveResults, Fail, Running
    <2>10. ASSUME UNCHANGED engineVars PROVE EpsilonSurvives'
      BY <2>1, <2>10 DEF engineVars
    <2>11. ASSUME GetJob \/ GetResults PROVE EpsilonSurvives'
      BY <2>11 DEF GetJob, GetResults, EpsilonSurvives
    <2> QED BY <2>3, <2>4, <2>5, <2>6, <2>8, <2>9, <2>10, <2>11 DEF EngineNext
  <1> QED BY <1>1, <1>2, EngineInvariance, PTL DEF EngineSpec

-----------------------------------------------------------------------------
(* Counting the samples.                                                   *)

(* A quotient rounded up is the number of batches that hold s samples.     *)
LEMMA Quotient ==
    ASSUME NEW s \in Nat \ {0}, NEW n \in Nat \ {0}
    PROVE  \E q \in Nat \ {0} : q = (s + n - 1) \div n /\ s <= q * n /\ (q - 1) * n < s
  <1>1. PICK q \in Int : q = (s + n - 1) \div n /\ n * q <= s + n - 1 /\ s + n - 1 < n * q + n
    BY SMTT(30)
  <1>2. q > 0
    <2> SUFFICES ASSUME q <= 0 PROVE FALSE
      OBVIOUS
    <2>1. n * q <= 0
      BY SMT
    <2> QED BY <1>1, <2>1
  <1>3. n * q = q * n /\ (q - 1) * n = q * n - n
    BY SMT
  <1> QED BY <1>1, <1>2, <1>3

(* A batch before the last one starts before the last one ends.           *)
LEMMA Earlier ==
    ASSUME NEW n \in Nat \ {0}, NEW q \in Nat, NEW b \in Nat, b < q
    PROVE  b * n <= (q - 1) * n /\ (b + 1) * n = b * n + n /\ b * n \in Nat /\ (q - 1) * n \in Int
  <1>1. PICK d \in Nat : q - 1 = b + d
    <2>1. q - 1 - b \in Nat
      OBVIOUS
    <2> QED BY <2>1
  <1>2. (b + d) * n = b * n + d * n /\ d * n >= 0
    BY SMT
  <1>3. (b + 1) * n = b * n + n
    BY SMT
  <1>4. (q - 1) * n = b * n + d * n
    BY <1>1, <1>2
  <1>5. b * n \in Nat
    BY SMT
  <1> QED BY <1>1, <1>2, <1>3, <1>4, <1>5

(* The batches up to b hold the samples up to b batches' worth or all.     *)
LEMMA NextBatch ==
    ASSUME NEW b \in Nat, b < Batches
    PROVE  /\ BatchLength(b) \in Nat
           /\ Lesser(b * benchmark_batch_size, Samples) + BatchLength(b)
                = Lesser((b + 1) * benchmark_batch_size, Samples)
  <1> DEFINE n == benchmark_batch_size
  <1>1. Samples \in Nat \ {0} /\ n \in Nat \ {0}
    BY EngineAssumption DEF Samples, Lesser
  <1>2. PICK q \in Nat \ {0} : q = Batches /\ (q - 1) * n < Samples
    BY <1>1, Quotient DEF Batches
  <1>3. b * n <= (q - 1) * n /\ (b + 1) * n = b * n + n /\ b * n \in Nat /\ (q - 1) * n \in Int
    BY <1>1, <1>2, Earlier
  <1> QED BY <1>1, <1>2, <1>3 DEF BatchLength, Lesser

(* All the batches hold all the samples.                                   *)
LEMMA AllBatches ==
    /\ Batches \in Nat /\ Samples \in Nat
    /\ Lesser(Batches * benchmark_batch_size, Samples) = Samples
    /\ Lesser(0 * benchmark_batch_size, Samples) = 0
  <1> DEFINE n == benchmark_batch_size
  <1>1. Samples \in Nat \ {0} /\ n \in Nat \ {0}
    BY EngineAssumption DEF Samples, Lesser
  <1>2. PICK q \in Nat \ {0} : q = Batches /\ Samples <= q * n
    BY <1>1, Quotient DEF Batches
  <1>3. q * n \in Int /\ 0 * n = 0
    BY <1>1, <1>2
  <1> QED BY <1>1, <1>2, <1>3 DEF Lesser

(* Every attack counts every sample of the prefix once, whatever the batch *)
(* size and however short the last batch is.                               *)
THEOREM EverySampleOnce == EngineSpec => []SamplesCountedOnce
  <1> DEFINE Counted == CountOK /\ SamplesCountedOnce
  <1>0. NoEval.batch = 0 /\ NoEval.total = 0 /\ NoEval.correct = 0
    BY DEF NoEval
  <1>a. ASSUME eval = NoEval, attack = Idle PROVE CountOK
    BY <1>0, <1>a, AllBatches DEF CountOK, Idle
  <1>b. ASSUME eval' = NoEval, attack' = Idle PROVE CountOK'
    BY <1>0, <1>b, AllBatches DEF CountOK, Idle
  <1>1. EngineInit => Counted
    BY <1>a DEF EngineInit, SamplesCountedOnce
  <1>2. EngineInv /\ EngineInv' /\ Counted /\ [EngineNext]_engineVars => Counted'
    <2> SUFFICES ASSUME EngineInv, EngineInv', Counted, [EngineNext]_engineVars
                 PROVE  Counted'
      OBVIOUS
    <2>1. ASSUME UNCHANGED <<eval, results, attack>> PROVE Counted'
      BY <2>1 DEF CountOK, SamplesCountedOnce
    <2>2. ASSUME Fail PROVE Counted'
      <3>1. results' = <<>> /\ CountOK'
        BY <1>b, <2>2 DEF Fail
      <3> QED BY <3>1 DEF SamplesCountedOnce
    <2>3. ASSUME NEW x \in Pixels, CallAttack(x) PROVE Counted'
      BY <2>3 DEF CallAttack, CountOK, SamplesCountedOnce
    <2>4. ASSUME StepAttack PROVE Counted'
      <3>1. attack.pc # "idle"
        BY <2>4 DEF StepAttack, AttackStep, Fgsm, PgdStart, PgdStep, CarliniWagnerStep,
                    CarliniWagner, Lbfgs, Compare, ReturnBest
      <3> QED BY <2>4, <3>1 DEF StepAttack, CountOK, SamplesCountedOnce
    <2>5. ASSUME NEW c \in 0..BatchLength(eval.batch), MeasureBatch(c) PROVE Counted'
      <3>1. /\ eval.batch \in Nat /\ eval.batch < Batches /\ eval.correct \in 0..eval.total
            /\ eval.total = Lesser(eval.batch * benchmark_batch_size, Samples)
            /\ eval.total \in Nat
        BY <2>5, AllBatches DEF MeasureBatch, CountOK, EngineInv, EvalOK
      <3>2. /\ eval'.batch = eval.batch + 1 /\ eval'.correct = eval.correct + c
            /\ eval'.total = eval.total + BatchLength(eval.batch)
            /\ attack'.pc = "idle" /\ results' = results
        BY <2>5 DEF MeasureBatch, Idle
      <3>3. /\ BatchLength(eval.batch) \in Nat
            /\ eval'.total = Lesser(eval'.batch * benchmark_batch_size, Samples)
        BY <3>1, <3>2, NextBatch
      <3>4. eval'.batch \in 0..Batches /\ eval'.correct \in 0..eval'.total
        BY <3>1, <3>2, <3>3, AllBatches
      <3> QED BY <3>2, <3>3, <3>4 DEF CountOK, SamplesCountedOnce
    <2>6. ASSUME FinishAttack PROVE Counted'
      <3>1. CASE Fail
        BY <2>2, <3>1
      <3>2. CASE ~Fail
        <4> DEFINE r == [name |-> job.attacks[Len(results) + 1], correct |-> eval.correct,
                         total |-> eval.total, worst |-> eval.worst, nll |-> eval.nll]
        <4>1. /\ results' = Append(results, r) /\ eval' = NoEval /\ UNCHANGED attack
              /\ eval.batch = Batches /\ attack = Idle
          <5>1. attack.pc = "idle"
            BY <2>6 DEF FinishAttack
          <5> QED BY <2>6, <3>2, <5>1 DEF FinishAttack, KeepResult, EngineInv, AttackOK
        <4>2. r.total = Samples /\ r.correct \in 0..Samples
          BY <4>1, AllBatches DEF CountOK
        <4>3. results \in Seq(Result) /\ results' \in Seq(Result)
          BY DEF EngineInv, ResultsOK
        <4> HIDE DEF r
        <4>4. ASSUME NEW i \in DOMAIN results'
              PROVE  results'[i].total = Samples /\ results'[i].correct \in 0..Samples
          <5>1. CASE i \in DOMAIN results
            <6>1. results'[i] = results[i]
              BY <4>1, <4>3, <5>1
            <6> QED BY <5>1, <6>1 DEF SamplesCountedOnce
          <5>2. CASE i \notin DOMAIN results
            <6>1. results'[i] = r
              BY <4>1, <4>3, <4>4, <5>2
            <6> QED BY <4>2, <6>1
          <5> QED BY <5>1, <5>2
        <4>5. CountOK'
          BY <1>b, <4>1
        <4> QED BY <4>4, <4>5 DEF SamplesCountedOnce
      <3> QED BY <3>1, <3>2
    <2>7. ASSUME EngineStep PROVE Counted'
      BY <2>1, <2>3, <2>4, <2>5, <2>6, <2>7 DEF EngineStep, SaveResults
    <2>8. ASSUME NEW p \in Payloads, Refuse(p) \/ Create(p) \/ Replay(p) PROVE Counted'
      BY <2>1, <2>8 DEF Refuse, Create, Replay
    <2>9. ASSUME Start \/ GetJob \/ GetResults \/ UNCHANGED engineVars PROVE Counted'
      BY <2>1, <2>9 DEF Start, GetJob, GetResults, engineVars
    <2> QED BY <2>2, <2>7, <2>8, <2>9 DEF EngineNext, EngineRaises
  <1>3. Counted => SamplesCountedOnce
    OBVIOUS
  <1> QED BY <1>1, <1>2, <1>3, EngineInvariance, PTL DEF EngineSpec

-----------------------------------------------------------------------------
(* The score.                                                              *)

(* A finished job asked for an attack at least and has a row for each.     *)
LEMMA FinishedJobHasResults ==
    ASSUME EngineInv, ResultsInOrder, job.status = "succeeded"
    PROVE  Len(results) \in Nat \ {0} /\ Len(stored) = Len(results) /\ DOMAIN stored = DOMAIN results
  <1>1. results \in Seq(Result) /\ stored = [i \in DOMAIN results |-> ResultRow(results[i])]
    BY DEF EngineInv, ResultsOK
  <1>2. Len(results) \in Nat /\ DOMAIN results = 1..Len(results)
    BY <1>1
  <1>3. DOMAIN stored = 1..Len(results) /\ Len(stored) = Len(results)
    <2>1. stored = [i \in 1..Len(results) |-> ResultRow(results[i])]
      BY <1>1, <1>2
    <2> QED BY <1>2, <2>1
  <1>4. job # NoJob
    BY DEF NoJob
  <1>5. PICK p \in Payloads : Acceptable(p) /\ job.attacks = p.attacks
    BY <1>4, JobIsOfABody DEF JobOf
  <1>6. Len(job.attacks) \in 1..MaxAttacks
    BY <1>5 DEF Acceptable, JobCreateRequest
  <1>7. Len(results) \in 1..MaxAttacks
    BY <1>3, <1>6 DEF ResultsInOrder
  <1> QED BY <1>2, <1>3, <1>7, RequestsAssumption

(* A report that was sent is still what the endpoint reports: nothing      *)
(* touches a job or its results once it has succeeded.                     *)
LEMMA ReportsStand == EngineSpec => [](reply.code = "results" =>
                                          job.status = "succeeded" /\ reply.report = JobResultsResponse)
  <1> DEFINE Stands == reply.code = "results" =>
                          job.status = "succeeded" /\ reply.report = JobResultsResponse
  <1>1. EngineInit => Stands
    BY DEF EngineInit, NothingShown
  <1>2. Stands /\ [EngineNext]_engineVars => Stands'
    <2> SUFFICES ASSUME Stands, [EngineNext]_engineVars PROVE Stands'
      OBVIOUS
    <2>1. ASSUME UNCHANGED <<job, reply, stored>> PROVE Stands'
      BY <2>1 DEF JobResultsResponse, ResultLines
    <2>2. ASSUME job.status = "running", reply' = reply PROVE Stands'
      BY <2>2
    <2>3. ASSUME reply'.code # "results" PROVE Stands'
      BY <2>3
    <2>4. ASSUME NEW p \in Payloads, Refuse(p) \/ Create(p) \/ Replay(p) PROVE Stands'
      <3>1. reply'.code \in {"none", "created", "error", "replayed"}
        BY <2>4 DEF Refuse, Create, Replay, NothingShown
      <3> QED BY <2>3, <3>1
    <2>5. ASSUME Start \/ GetJob PROVE Stands'
      BY <2>3, <2>5 DEF Start, GetJob, NothingShown
    <2>6. ASSUME GetResults PROVE Stands'
      BY <2>6 DEF GetResults, JobResultsResponse, ResultLines
    <2>7. ASSUME EngineRaises \/ EngineStep PROVE Stands'
      BY <2>2, <2>7 DEF EngineRaises, Fail, EngineStep, CallAttack, StepAttack, MeasureBatch,
                        FinishAttack, SaveResults, Running
    <2>8. ASSUME UNCHANGED engineVars PROVE Stands'
      BY <2>1, <2>8 DEF engineVars
    <2> QED BY <2>4, <2>5, <2>6, <2>7, <2>8 DEF EngineNext
  <1> QED BY <1>1, <1>2, PTL DEF EngineSpec

(* The published score is the mean of the accuracies the engine measured,  *)
(* to one unit of its last decimal, whatever the number of attacks and of  *)
(* samples.                                                                *)
THEOREM ScoreIsTheMean == EngineSpec => []ScoreIsMean
  <1> DEFINE Stands == reply.code = "results" =>
                          job.status = "succeeded" /\ reply.report = JobResultsResponse
  <1>1. EngineInv /\ SamplesCountedOnce /\ ResultsInOrder /\ Stands => ScoreIsMean
    <2> SUFFICES ASSUME EngineInv, SamplesCountedOnce, ResultsInOrder,
                        job.status = "succeeded", reply.report = JobResultsResponse
                 PROVE  ScoreIsMean
      BY DEF ScoreIsMean
    <2> DEFINE n == Len(results)
               correct == [i \in DOMAIN results |-> results[i].correct]
               kept == [i \in DOMAIN stored |-> stored[i].accuracy]
    <2>1. n \in Nat \ {0} /\ Len(stored) = n /\ DOMAIN stored = DOMAIN results
      BY FinishedJobHasResults
    <2>2. DOMAIN results = 1..n
      BY DEF EngineInv, ResultsOK
    <2>3. Samples \in Nat \ {0}
      BY EngineAssumption DEF Samples, Lesser
    <2>4. \A i \in 1..n : results[i].correct \in Nat /\ results[i].total = Samples
      BY <2>2, <2>3 DEF SamplesCountedOnce
    <2>5. correct = [i \in 1..n |-> results[i].correct] /\ correct \in [1..n -> Nat] /\ Len(correct) = n
      BY <2>1, <2>2, <2>4
    <2>6. \A i \in 1..n : stored[i].accuracy = StoredAccuracy(correct[i], Samples)
      <3>1. stored = [i \in DOMAIN results |-> ResultRow(results[i])]
        BY DEF EngineInv, ResultsOK
      <3> QED BY <2>2, <2>4, <2>5, <3>1 DEF ResultRow
    <2>7. kept = [i \in 1..n |-> StoredAccuracy(correct[i], Samples)] /\ Len(kept) = n
      BY <2>1, <2>2, <2>6
    <2>9. reply.report.defence_score = DefenceScore(kept)
      BY DEF JobResultsResponse
    <2> HIDE DEF correct, kept, n
    <2>8. Distance(DefenceScore(kept) * n * Samples, Unit * Total(correct)) <= n * Samples
      BY <2>1, <2>3, <2>5, <2>7, RoundingTwiceCostsOneUnit
    <2> QED BY <2>8, <2>9 DEF ScoreIsMean, correct, n
  <1> QED BY <1>1, EngineInvariance, EverySampleOnce, ResultsKeepTheirOrder, ReportsStand, PTL

-----------------------------------------------------------------------------
(* What a client is shown.                                                 *)

(* What ShownJobCanBeResubmitted says of one shown job.                    *)
Faithful(s, fresh) ==
    /\ s.model = job.model /\ s.attacks = job.attacks /\ s.iterations = job.iterations
    /\ 2 * Distance(s.epsilon, job.epsilon) <= Unit
    /\ max_epsilon % Unit = 0 => Acceptable(s)
    /\ \/ RequestFingerprint(s) = job.fingerprint
       \/ ~fresh /\ s.epsilon = job.fingerprint[3] + Unit

(* The row of a job, read back, is what ran and can be asked for again.    *)
LEMMA RowIsFaithful ==
    ASSUME EngineInv, job # NoJob
    PROVE  Faithful(JobResource(job), FALSE)
  <1>1. PICK p \in Payloads, s \in {"queued", "running", "succeeded", "failed"} :
           /\ Acceptable(p) /\ StoredEpsilon(p.epsilon) > 0 /\ job = JobOf(p, s)
           /\ p.epsilon \in Nat /\ 1 <= p.epsilon /\ p.epsilon <= MAX_EPSILON
    BY JobIsOfABody
  <1> DEFINE e == StoredEpsilon(p.epsilon)
             t == JobResource(job)
  <1>2. /\ e \in Nat /\ e > 0 /\ e <= MAX_EPSILON /\ Formatted(e) = e
        /\ Formatted(p.epsilon) = e \/ e = Formatted(p.epsilon) + Unit
        /\ max_epsilon % Unit = 0 /\ p.epsilon <= max_epsilon => e <= max_epsilon
    BY <1>1, EpsilonKept, StoredIsWhole, RequestsAssumption
  <1>3. /\ job.model = p.model /\ job.attacks = p.attacks /\ job.iterations = p.iterations
        /\ job.epsilon = e /\ job.fingerprint = RequestFingerprint(p)
    BY <1>1 DEF JobOf
  <1> HIDE DEF e
  <1>4. t.model = p.model /\ t.attacks = p.attacks /\ t.iterations = p.iterations /\ t.epsilon = e
    BY <1>3 DEF JobResource
  <1> HIDE DEF t
  <1>5. 2 * Distance(t.epsilon, job.epsilon) <= Unit
    BY <1>2, <1>3, <1>4 DEF Distance, Greater, Unit
  <1>6. ASSUME max_epsilon % Unit = 0 PROVE Acceptable(t)
    BY <1>1, <1>2, <1>4, <1>6 DEF Acceptable, JobCreateRequest, ValidateSubmission
  <1>7. RequestFingerprint(t) = <<p.model, p.attacks, e, p.iterations>>
    BY <1>2, <1>4 DEF RequestFingerprint
  <1>8. job.fingerprint = <<p.model, p.attacks, Formatted(p.epsilon), p.iterations>>
    BY <1>3 DEF RequestFingerprint
  <1>9. RequestFingerprint(t) = job.fingerprint \/ t.epsilon = job.fingerprint[3] + Unit
    BY <1>2, <1>4, <1>7, <1>8
  <1> QED BY <1>3, <1>4, <1>5, <1>6, <1>9 DEF Faithful, t

(* What an answer shows of a job is what runs, to half a unit, and asks    *)
(* for the same job again, but for the tie that format and column round    *)
(* differently.                                                            *)
THEOREM ShownIsWhatRuns == EngineSpec => []ShownJobCanBeResubmitted
  <1>1. EngineInit => ShownJobCanBeResubmitted
    BY DEF EngineInit, NothingShown, ShownJobCanBeResubmitted
  <1>2. EngineInv /\ ShownJobCanBeResubmitted /\ [EngineNext]_engineVars
           => ShownJobCanBeResubmitted'
    <2> SUFFICES ASSUME EngineInv, ShownJobCanBeResubmitted, [EngineNext]_engineVars
                 PROVE  ShownJobCanBeResubmitted'
      OBVIOUS
    <2>1. ASSUME UNCHANGED <<job, reply>> PROVE ShownJobCanBeResubmitted'
      BY <2>1 DEF ShownJobCanBeResubmitted
    <2>2. ASSUME reply'.code \notin {"created", "replayed", "job"} PROVE ShownJobCanBeResubmitted'
      BY <2>2 DEF ShownJobCanBeResubmitted
    <2>3. ASSUME job.status = "running", reply' = reply,
                 \E s \in {"succeeded", "failed"} : job' = [job EXCEPT !.status = s]
          PROVE  ShownJobCanBeResubmitted'
      <3>1. job # NoJob
        BY <2>3 DEF NoJob
      <3>2. /\ job'.epsilon = job.epsilon /\ job'.model = job.model
            /\ job'.attacks = job.attacks /\ job'.iterations = job.iterations
            /\ job'.fingerprint = job.fingerprint
        BY <2>3, <3>1, JobIsOfABody DEF JobOf
      <3> QED BY <2>3, <3>2 DEF ShownJobCanBeResubmitted
    <2>4. ASSUME job # NoJob, job' = job, reply'.shown = JobResource(job), reply'.code # "created"
          PROVE  ShownJobCanBeResubmitted'
      BY <2>4, RowIsFaithful DEF ShownJobCanBeResubmitted, Faithful
    <2>5. ASSUME NEW p \in Payloads, Create(p) PROVE ShownJobCanBeResubmitted'
      <3>1. CASE StoredEpsilon(p.epsilon) > 0
        <4> DEFINE t == reply'.shown
        <4>1. /\ Acceptable(p) /\ job' = JobOf(p, "queued") /\ reply'.code = "created"
              /\ t = [JobResource(JobOf(p, "queued")) EXCEPT !.epsilon = p.epsilon]
          BY <2>5, <3>1 DEF Create
        <4>2. /\ job'.model = p.model /\ job'.attacks = p.attacks /\ job'.iterations = p.iterations
              /\ job'.epsilon = StoredEpsilon(p.epsilon) /\ job'.fingerprint = RequestFingerprint(p)
          BY <4>1 DEF JobOf
        <4>3. /\ t.model = p.model /\ t.attacks = p.attacks /\ t.iterations = p.iterations
              /\ t.epsilon = p.epsilon
          BY <4>1 DEF JobResource, JobOf
        <4> HIDE DEF t
        <4>4. p \in [model : STRING, epsilon : Int, iterations : Int, attacks : Seq(STRING)]
          BY EngineAssumption
        <4>5. p.epsilon \in Nat /\ 1 <= p.epsilon /\ p.epsilon <= MAX_EPSILON
          BY <4>1, <4>4 DEF Acceptable, JobCreateRequest
        <4>6. 2 * Distance(p.epsilon, StoredEpsilon(p.epsilon)) <= Unit
          BY <4>5, EpsilonKept DEF Distance, Greater
        <4>7. Acceptable(t) /\ RequestFingerprint(t) = RequestFingerprint(p)
          BY <4>1, <4>3
            DEF Acceptable, JobCreateRequest, ValidateSubmission, RequestFingerprint
        <4> QED BY <4>1, <4>2, <4>3, <4>6, <4>7 DEF ShownJobCanBeResubmitted, t
      <3>2. CASE ~(StoredEpsilon(p.epsilon) > 0)
        BY <2>2, <2>5, <3>2 DEF Create
      <3> QED BY <3>1, <3>2
    <2>6. ASSUME NEW p \in Payloads, Replay(p) PROVE ShownJobCanBeResubmitted'
      <3>1. CASE RequestFingerprint(p) = job.fingerprint
        <4>1. /\ job.status # "absent" /\ job' = job
              /\ reply'.shown = JobResource(job) /\ reply'.code = "replayed"
          BY <2>6, <3>1 DEF Replay
        <4> QED BY <2>4, <4>1 DEF NoJob
      <3>2. CASE RequestFingerprint(p) # job.fingerprint
        BY <2>2, <2>6, <3>2 DEF Replay, NothingShown
      <3> QED BY <3>1, <3>2
    <2>7. ASSUME NEW p \in Payloads, Refuse(p) PROVE ShownJobCanBeResubmitted'
      BY <2>2, <2>7 DEF Refuse, NothingShown
    <2>8. ASSUME GetJob PROVE ShownJobCanBeResubmitted'
      <3>1. /\ job.status # "absent" /\ job' = job
            /\ reply'.shown = JobResource(job) /\ reply'.code = "job"
        BY <2>8 DEF GetJob
      <3> QED BY <2>4, <3>1 DEF NoJob
    <2>9. ASSUME Start \/ GetResults PROVE ShownJobCanBeResubmitted'
      BY <2>2, <2>9 DEF Start, GetResults, NothingShown
    <2>10. ASSUME EngineRaises PROVE ShownJobCanBeResubmitted'
      BY <2>3, <2>10 DEF EngineRaises, Fail
    <2>11. ASSUME EngineStep PROVE ShownJobCanBeResubmitted'
      BY <2>1, <2>3, <2>11
        DEF EngineStep, CallAttack, StepAttack, MeasureBatch, FinishAttack, SaveResults, Fail, Running
    <2>12. ASSUME UNCHANGED engineVars PROVE ShownJobCanBeResubmitted'
      BY <2>1, <2>12 DEF engineVars
    <2> QED BY <2>5, <2>6, <2>7, <2>8, <2>9, <2>10, <2>11, <2>12 DEF EngineNext
  <1> QED BY <1>1, <1>2, EngineInvariance, PTL DEF EngineSpec

-----------------------------------------------------------------------------
(* The engine implements the contract.                                     *)

(* The accuracy of a part of a set is one at most.                         *)
LEMMA AccuracyBounded ==
    ASSUME NEW t \in Nat \ {0}, NEW c \in 0..t
    PROVE  StoredAccuracy(c, t) \in 0..Unit
  <1>1. PICK a \in Nat : a = StoredAccuracy(c, t) /\ (2 * t) * a <= (2 * Unit) * c + t
    <2>1. c \in Nat
      OBVIOUS
    <2> QED BY <2>1, AccuracyKept
  <1>2. (2 * Unit) * c <= (2 * t) * Unit
    <2>1. PICK d \in Nat : t = c + d
      <3>1. t - c \in Nat
        OBVIOUS
      <3> QED BY <3>1
    <2> QED BY <2>1, SMT DEF Unit
  <1>3. a <= Unit
    <2> SUFFICES ASSUME a > Unit PROVE FALSE
      BY <1>1, UnitIsNat
    <2>1. PICK d \in Nat : a = Unit + 1 + d
      <3>1. a - (Unit + 1) \in Nat
        BY UnitIsNat
      <3> QED BY <3>1, UnitIsNat
    <2>2. (2 * t) * a = (2 * t) * Unit + 2 * t + (2 * t) * d /\ (2 * t) * d \in Nat
      BY <2>1, SMT DEF Unit
    <2> QED BY <1>1, <1>2, <2>2, SMT DEF Unit
  <1> QED BY <1>1, <1>3, UnitIsNat

(* Whatever the batches, the optimisers and the roundings do, a client     *)
(* sees a job whose attacks are fixed when it is created and whose report  *)
(* appears whole, in order and within the limit, when it succeeds.         *)
THEOREM EngineKeepsItsContract == EngineSpec => ImplementsContract
  <1> DEFINE asked == IF job.status = "absent" THEN <<>> ELSE job.attacks
  <1>1. EngineInit => Contract!ContractInit
    <2> SUFFICES ASSUME EngineInit PROVE Contract!ContractInit
      OBVIOUS
    <2>1. job.status = "absent" /\ stored = <<>>
      BY DEF EngineInit, NoJob
    <2>2. ResultLines = <<>>
      BY <2>1 DEF ResultLines
    <2> QED BY <2>1, <2>2 DEF Contract!ContractInit
  <1>2. EngineInv /\ EngineInv' /\ SamplesCountedOnce /\ ResultsInOrder
          /\ PerturbationBelowLimit' /\ [EngineNext]_engineVars
          => [Contract!ContractNext]_Contract!contractVars
    <2> SUFFICES ASSUME EngineInv, EngineInv', SamplesCountedOnce, ResultsInOrder,
                        PerturbationBelowLimit', [EngineNext]_engineVars
                 PROVE  Contract!ContractNext \/ UNCHANGED Contract!contractVars
      OBVIOUS
    <2>1. ASSUME UNCHANGED <<job, stored>> PROVE UNCHANGED Contract!contractVars
      BY <2>1 DEF Contract!contractVars, ResultLines
    <2>2. ASSUME NEW p \in Payloads, Create(p), StoredEpsilon(p.epsilon) > 0
          PROVE  Contract!Ask
      <3>1. /\ job.status = "absent" /\ Acceptable(p) /\ job' = JobOf(p, "queued")
            /\ stored' = stored
        BY <2>2 DEF Create
      <3>2. job'.status = "queued" /\ job'.attacks = p.attacks
        BY <3>1 DEF JobOf
      <3>3. p.attacks \in Seq(ATTACK_NAMES) /\ p.attacks # <<>>
        <4>1. p \in [model : STRING, epsilon : Int, iterations : Int, attacks : Seq(STRING)]
          BY EngineAssumption
        <4>2. Len(p.attacks) \in 1..MaxAttacks
          BY <3>1 DEF Acceptable, JobCreateRequest
        <4> QED BY <3>1, <4>1, <4>2, RequestsAssumption DEF Acceptable, ValidateSubmission
      <3>4. ResultLines' = ResultLines
        BY <3>1 DEF ResultLines
      <3> QED BY <3>1, <3>2, <3>3, <3>4 DEF Contract!Ask
    <2>3. ASSUME job.status \in {"queued", "running"}, stored' = stored,
                 NEW s \in {"running", "failed"}, job' = [job EXCEPT !.status = s]
          PROVE  /\ job'.status = s
                 /\ UNCHANGED <<asked, ResultLines>>
      <3>1. job # NoJob
        BY <2>3 DEF NoJob
      <3>2. job'.status = s /\ job'.attacks = job.attacks
        BY <2>3, <3>1, JobIsOfABody DEF JobOf
      <3> QED BY <2>3, <3>2 DEF ResultLines
    <2>4. ASSUME Start PROVE Contract!Begin
      BY <2>3, <2>4 DEF Start, Contract!Begin
    <2>5. ASSUME job.status = "running", Fail PROVE Contract!GiveUp
      BY <2>3, <2>5 DEF Fail, Contract!GiveUp
    <2>6. ASSUME SaveResults PROVE Contract!Report
      <3>1. /\ job.status = "running" /\ job' = [job EXCEPT !.status = "succeeded"]
            /\ stored' = [i \in DOMAIN results |-> ResultRow(results[i])]
            /\ Len(results) = Len(job.attacks)
        BY <2>6 DEF SaveResults, AllResults
      <3>2. job'.status = "succeeded" /\ job'.attacks = job.attacks
        BY <3>1, JobIsOfABody DEF JobOf, NoJob
      <3>3. results \in Seq(Result) /\ job.attacks \in Seq(ATTACK_NAMES)
        BY <3>1, RunningJob
      <3>4. DOMAIN results = DOMAIN job.attacks
        BY <3>1, <3>3
      <3>5. ResultLines' = [i \in DOMAIN results |-> AttackResultResource(ResultRow(results[i]))]
        BY <3>1 DEF ResultLines
      <3>6. ASSUME NEW i \in DOMAIN job.attacks
            PROVE  ResultLines'[i] \in Contract!Line(job.attacks[i])
        <4> DEFINE row == ResultRow(results[i])
        <4>1. /\ results[i] \in Result /\ results[i].name = job.attacks[i]
              /\ results[i].total = Samples /\ results[i].correct \in 0..Samples
          BY <3>3, <3>4 DEF ResultsInOrder, SamplesCountedOnce
        <4>2. row.name = job.attacks[i] /\ row.norm = StoredNorm(results[i].worst)
              /\ row.accuracy = StoredAccuracy(results[i].correct, Samples)
          BY <4>1 DEF ResultRow
        <4>3. row.accuracy \in 0..Unit
          <5>1. Samples \in Nat \ {0}
            BY EngineAssumption DEF Samples, Lesser
          <5> QED BY <4>1, <4>2, <5>1, AccuracyBounded
        <4>4. row.norm \in 0..Limit - 1
          <5>1. stored'[i] = row /\ i \in DOMAIN stored'
            BY <3>1, <3>4
          <5>2. row.norm < Limit
            BY <5>1 DEF PerturbationBelowLimit
          <5>3. PICK w \in Nat : w = results[i].worst
            BY <4>1 DEF Result
          <5>4. StoredNorm(w) \in Nat
            BY SMT DEF StoredNorm, HalfUp
          <5> QED BY <4>2, <5>2, <5>3, <5>4, EngineAssumption
        <4> HIDE DEF row
        <4>5. ResultLines'[i] = AttackResultResource(row)
          BY <3>4, <3>5 DEF row
        <4> QED BY <4>2, <4>3, <4>4, <4>5 DEF AttackResultResource, Contract!Line
      <3> QED BY <3>1, <3>2, <3>4, <3>5, <3>6 DEF Contract!Report
    <2>7. ASSUME EngineStep PROVE Contract!ContractNext \/ UNCHANGED Contract!contractVars
      <3>1. CASE SaveResults
        BY <2>6, <3>1 DEF Contract!ContractNext
      <3>2. CASE FinishAttack
        BY <2>1, <2>5, <3>2 DEF FinishAttack, Running, Contract!ContractNext
      <3> QED BY <2>1, <2>7, <3>1, <3>2
            DEF EngineStep, CallAttack, StepAttack, MeasureBatch
    <2>8. ASSUME NEW p \in Payloads, Refuse(p) \/ Create(p) \/ Replay(p)
          PROVE  Contract!ContractNext \/ UNCHANGED Contract!contractVars
      BY <2>1, <2>2, <2>8 DEF Refuse, Create, Replay, Contract!ContractNext
    <2>9. ASSUME GetJob \/ GetResults \/ UNCHANGED engineVars
          PROVE  UNCHANGED Contract!contractVars
      BY <2>1, <2>9 DEF GetJob, GetResults, engineVars
    <2> QED BY <2>4, <2>5, <2>7, <2>8, <2>9
          DEF EngineNext, EngineRaises, Contract!ContractNext
  <1> QED BY <1>1, <1>2, EngineInvariance, EverySampleOnce, ResultsKeepTheirOrder,
             AlwaysBelowLimit, PTL DEF EngineSpec, ImplementsContract, Contract!ContractSpec
=============================================================================
