---------------------------- MODULE RequestProofs ----------------------------
(***************************************************************************)
(* What the service's arithmetic does to a list of accuracies of any       *)
(* length: rounding each one, adding them up and rounding the mean.  The   *)
(* sums are a recursive function; its equations come from the least number *)
(* principle, applied to the set of the lengths where they would fail.     *)
(***************************************************************************)
EXTENDS Requests, WellFoundedInduction, TLAPS

-----------------------------------------------------------------------------
(* A set of numbers that is not empty has a first member.                  *)
LEMMA LeastMember ==
    ASSUME NEW T, T \subseteq Nat, T # {}
    PROVE  \E n \in T : n = 0 \/ (n - 1 \in Nat /\ n - 1 \notin T)
  <1>1. IsWellFoundedOn(OpToRel(<, Nat), Nat)
    BY NatLessThanWellFounded
  <1>2. PICK n \in T : \A m \in T : <<m, n>> \notin OpToRel(<, Nat)
    BY <1>1, WFMin
  <1>3. \A m \in T : ~(m < n)
    BY <1>2 DEF OpToRel
  <1>4. CASE n = 0
    BY <1>4
  <1>5. CASE n # 0
    <2>1. n - 1 \in Nat /\ n - 1 < n
      BY <1>5, SMT
    <2> QED BY <2>1, <1>3
  <1> QED BY <1>4, <1>5

(* The recursion of Sums over the first n elements.                        *)
IsSums(f, s, n) == f = [k \in 0..n |-> IF k = 0 THEN 0 ELSE f[k - 1] + s[k]]

(* There is a function of sums, whatever the length.                       *)
LEMMA SumsExist ==
    ASSUME NEW s, NEW n \in Nat
    PROVE  \E f : IsSums(f, s, n)
  <1> DEFINE T == {k \in Nat : ~ \E f : IsSums(f, s, k)}
  <1>1. SUFFICES ASSUME T # {} PROVE FALSE
    OBVIOUS
  <1>2. PICK m \in T : m = 0 \/ (m - 1 \in Nat /\ m - 1 \notin T)
    BY <1>1, LeastMember
  <1>3. CASE m = 0
    <2> DEFINE f == [k \in 0..0 |-> 0]
    <2>1. IsSums(f, s, 0)
      BY DEF IsSums
    <2> QED BY <1>3, <2>1
  <1>4. CASE m - 1 \in Nat /\ m - 1 \notin T
    <2>1. PICK f : IsSums(f, s, m - 1)
      BY <1>4
    <2> DEFINE g == [k \in 0..m |-> IF k = m THEN f[m - 1] + s[m] ELSE f[k]]
    <2>2. m \in Nat /\ m # 0
      BY <1>4
    <2>3. ASSUME NEW k \in 0..m PROVE g[k] = IF k = 0 THEN 0 ELSE g[k - 1] + s[k]
      <3>1. CASE k = 0
        BY <2>1, <2>2, <3>1 DEF IsSums
      <3>2. CASE k # 0 /\ k # m
        <4>1. k \in 0..(m - 1) /\ k - 1 \in 0..m /\ k - 1 # m
          BY <2>2, <3>2
        <4>2. g[k] = f[k] /\ g[k - 1] = f[k - 1]
          BY <4>1, <3>2
        <4>3. f[k] = f[k - 1] + s[k]
          BY <2>1, <4>1, <3>2 DEF IsSums
        <4> QED BY <4>2, <4>3, <3>2
      <3>3. CASE k = m
        <4>1. m - 1 \in 0..m /\ m - 1 # m
          BY <2>2
        <4>2. g[m - 1] = f[m - 1] /\ g[m] = f[m - 1] + s[m]
          BY <4>1
        <4> QED BY <4>2, <3>3, <2>2
      <3> QED BY <3>1, <3>2, <3>3
    <2>4. g = [k \in 0..m |-> IF k = 0 THEN 0 ELSE g[k - 1] + s[k]]
      BY <2>3
    <2>5. IsSums(g, s, m)
      BY <2>4 DEF IsSums
    <2> QED BY <2>5
  <1> QED BY <1>2, <1>3, <1>4

(* So Sums has the equations its definition asks for.                      *)
LEMMA SumsDefined ==
    ASSUME NEW s, Len(s) \in Nat
    PROVE  /\ Sums(s)[0] = 0
           /\ \A k \in 1..Len(s) : Sums(s)[k] = Sums(s)[k - 1] + s[k]
  <1>1. \E f : f = [k \in 0..Len(s) |-> IF k = 0 THEN 0 ELSE f[k - 1] + s[k]]
    BY SumsExist DEF IsSums
  <1>2. Sums(s) = [k \in 0..Len(s) |-> IF k = 0 THEN 0 ELSE Sums(s)[k - 1] + s[k]]
    BY <1>1 DEF Sums
  <1> QED BY <1>2

LEMMA Distributes ==
    ASSUME NEW p \in Nat, NEW x \in Nat, NEW a \in Nat
    PROVE  p * (x + a) = (p * x) + (p * a) /\ p * x \in Nat
  BY SMT

(* One more member, and its sum drifts by d more.                          *)
LEMMA OneMoreMember ==
    ASSUME NEW p \in Nat, NEW x \in Nat, NEW a \in Nat,
           NEW q \in Nat, NEW y \in Nat, NEW b \in Nat,
           NEW k \in Nat, NEW d \in Nat,
           p * x <= q * y + k * d, p * a <= q * b + d
    PROVE  p * (x + a) <= q * (y + b) + (k + 1) * d
  <1>1. PICK px \in Nat, pa \in Nat, qy \in Nat, qb \in Nat, kd \in Nat :
           px = p * x /\ pa = p * a /\ qy = q * y /\ qb = q * b /\ kd = k * d
    BY Distributes
  <1>2. px <= qy + kd /\ pa <= qb + d
    BY <1>1
  <1>3. px + pa <= (qy + qb) + (kd + d)
    BY <1>2
  <1>4. p * (x + a) = px + pa /\ q * (y + b) = qy + qb
    BY <1>1, Distributes
  <1>5. (k + 1) * d = kd + d
    BY <1>1, SMT
  <1> QED BY <1>3, <1>4, <1>5

(* The sums of a list of natural numbers are natural numbers.              *)
LEMMA SumsAreNumbers ==
    ASSUME NEW n \in Nat, NEW s \in [1..n -> Nat], Len(s) = n
    PROVE  /\ \A k \in 0..n : Sums(s)[k] \in Nat
           /\ Total(s) \in Nat
  <1> DEFINE T == {k \in 0..n : Sums(s)[k] \notin Nat}
  <1>1. ASSUME T # {} PROVE FALSE
    <2>1. T \subseteq Nat
      OBVIOUS
    <2>2. PICK m \in T : m = 0 \/ (m - 1 \in Nat /\ m - 1 \notin T)
      BY <1>1, <2>1, LeastMember
    <2>3. CASE m = 0
      BY <2>3, SumsDefined
    <2>4. CASE m - 1 \in Nat /\ m - 1 \notin T
      <3>1. m \in 1..n /\ m - 1 \in 0..n
        BY <2>4
      <3>2. Sums(s)[m - 1] \in Nat /\ s[m] \in Nat
        BY <3>1, <2>4
      <3>3. Sums(s)[m] = Sums(s)[m - 1] + s[m]
        BY <3>1, SumsDefined
      <3> QED BY <3>2, <3>3
    <2> QED BY <2>2, <2>3, <2>4
  <1> QED BY <1>1 DEF Total

(* When p of each member of a list are at most q of its companion in       *)
(* another one and d more, then so are their sums, with d for each member. *)
LEMMA SumsStayClose ==
    ASSUME NEW n \in Nat, NEW s \in [1..n -> Nat], NEW t \in [1..n -> Nat],
           Len(s) = n, Len(t) = n,
           NEW p \in Nat, NEW q \in Nat, NEW d \in Nat,
           \A i \in 1..n : p * s[i] <= q * t[i] + d
    PROVE  p * Total(s) <= q * Total(t) + n * d
  <1> DEFINE Close(k) == p * Sums(s)[k] <= q * Sums(t)[k] + k * d
             T == {k \in 0..n : ~Close(k)}
  <1>1. ASSUME T # {} PROVE FALSE
    <2>1. T \subseteq Nat
      OBVIOUS
    <2>2. PICK m \in T : m = 0 \/ (m - 1 \in Nat /\ m - 1 \notin T)
      BY <1>1, <2>1, LeastMember
    <2>3. CASE m = 0
      <3>1. Sums(s)[0] = 0 /\ Sums(t)[0] = 0
        BY SumsDefined
      <3>2. p * 0 = 0 /\ q * 0 = 0 /\ 0 * d = 0
        BY SMT
      <3>3. Close(0)
        BY <3>1, <3>2
      <3> QED BY <2>3, <3>3
    <2>4. CASE m - 1 \in Nat /\ m - 1 \notin T
      <3>1. m \in 1..n /\ m - 1 \in 0..n
        BY <2>4
      <3>2. PICK x \in Nat, y \in Nat, k \in Nat :
               /\ x = Sums(s)[m - 1] /\ y = Sums(t)[m - 1] /\ k = m - 1
               /\ p * x <= q * y + k * d
        <4>1. Close(m - 1)
          BY <3>1, <2>4
        <4>2. Sums(s)[m - 1] \in Nat /\ Sums(t)[m - 1] \in Nat
          BY <3>1, SumsAreNumbers
        <4> QED BY <4>1, <4>2, <2>4
      <3>3. PICK c \in Nat, e \in Nat : c = s[m] /\ e = t[m] /\ p * c <= q * e + d
        BY <3>1
      <3>4. Sums(s)[m] = x + c /\ Sums(t)[m] = y + e
        BY <3>1, <3>2, <3>3, SumsDefined
      <3>5. p * (x + c) <= q * (y + e) + (k + 1) * d
        <4>1. p * x <= q * y + k * d
          BY <3>2
        <4>2. p * c <= q * e + d
          BY <3>3
        <4> QED BY <4>1, <4>2, OneMoreMember, Zenon
      <3>6. k + 1 = m
        <4>1. k = m - 1 /\ m \in Nat
          BY <3>1, <3>2
        <4> QED BY ONLY <4>1, k \in Nat
      <3>7. Close(m)
        BY <3>4, <3>5, <3>6, Zenon
      <3> QED BY <3>7
    <2> QED BY <2>2, <2>3, <2>4
  <1>2. Close(n)
    <2>1. n \in 0..n
      OBVIOUS
    <2> HIDE DEF Close
    <2> QED BY <1>1, <2>1
  <1> QED BY <1>2 DEF Total

-----------------------------------------------------------------------------
(* Rounding a quotient to the nearest whole number, halves up, moves it by *)
(* half a divisor at most.                                                 *)
LEMMA RoundedQuotient ==
    ASSUME NEW a \in Nat, NEW b \in Nat \ {0}
    PROVE  \E q \in Nat : /\ q = (2 * a + b) \div (2 * b)
                          /\ (2 * b) * q <= 2 * a + b
                          /\ 2 * a <= (2 * b) * q + b
  <1>1. PICK x \in Nat, y \in Nat \ {0} : x = 2 * a + b /\ y = 2 * b
    BY SMT
  <1>2. PICK q \in Int : q = x \div y /\ y * q <= x /\ x < y * q + y
    BY SMT
  <1>3. q >= 0
    BY <1>2, SMT
  <1> QED BY <1>1, <1>2, <1>3, SMT

LEMMA Doubled ==
    ASSUME NEW u \in Nat, NEW x \in Nat
    PROVE  (2 * u) * x = 2 * (u * x) /\ u * x \in Nat
  BY SMT

LEMMA UnitIsNat == Unit \in Nat
  BY SMT DEF Unit

(* A column keeps an accuracy to half a unit.                              *)
LEMMA AccuracyKept ==
    ASSUME NEW c \in Nat, NEW t \in Nat \ {0}
    PROVE  /\ StoredAccuracy(c, t) \in Nat
           /\ (2 * t) * StoredAccuracy(c, t) <= (2 * Unit) * c + t
           /\ (2 * Unit) * c <= (2 * t) * StoredAccuracy(c, t) + t
  <1>1. PICK a \in Nat : a = Unit * c
    BY UnitIsNat, SMT
  <1>2. (2 * Unit) * c = 2 * a
    BY <1>1, UnitIsNat, SMT
  <1>3. PICK q \in Nat : q = (2 * a + t) \div (2 * t) /\ (2 * t) * q <= 2 * a + t
                        /\ 2 * a <= (2 * t) * q + t
    BY RoundedQuotient
  <1>4. StoredAccuracy(c, t) = q
    BY <1>2, <1>3 DEF StoredAccuracy
  <1> QED BY <1>2, <1>3, <1>4

(* Doubled inequalities over products, put together.                       *)
LEMMA MeanOfSums ==
    ASSUME NEW score \in Nat, NEW n \in Nat, NEW t \in Nat, NEW kept \in Nat, NEW true \in Nat,
           (2 * n) * score <= 2 * kept + n, 2 * kept <= (2 * n) * score + n,
           (2 * t) * kept <= 2 * true + n * t, 2 * true <= (2 * t) * kept + n * t
    PROVE  Distance(score * n * t, true) <= n * t
  <1>1. PICK nt \in Nat, nd \in Nat, ndt \in Nat, kt \in Nat :
           nt = n * t /\ nd = score * n /\ ndt = nd * t /\ kt = kept * t
    BY SMT
  <1>2. (2 * n) * score = 2 * nd /\ (2 * t) * kept = 2 * kt
    BY <1>1, SMT
  <1>3. 2 * nd <= 2 * kept + n /\ 2 * kept <= 2 * nd + n
    BY <1>2
  <1>4. 2 * ndt <= 2 * kt + nt
    <2>1. (2 * nd) * t <= (2 * kept + n) * t
      BY <1>1, <1>3, SMT
    <2>2. (2 * nd) * t = 2 * ndt /\ (2 * kept + n) * t = 2 * kt + nt
      BY <1>1, SMT
    <2> QED BY <2>1, <2>2
  <1>5. 2 * kt <= 2 * ndt + nt
    <2>1. (2 * kept) * t <= (2 * nd + n) * t
      BY <1>1, <1>3, SMT
    <2>2. (2 * nd + n) * t = 2 * ndt + nt /\ (2 * kept) * t = 2 * kt
      BY <1>1, SMT
    <2> QED BY <2>1, <2>2
  <1>6. 2 * kt <= 2 * true + nt /\ 2 * true <= 2 * kt + nt
    BY <1>1, <1>2
  <1>7. ndt - true <= nt /\ true - ndt <= nt
    BY <1>4, <1>5, <1>6, SMT
  <1> QED BY <1>1, <1>7 DEF Distance, Greater

(* compute_defence_score over any number of attacks: the score of accuracies *)
(* that were each rounded to a column is, to one unit of its last decimal, *)
(* the mean of the accuracies that were measured.                          *)
THEOREM RoundingTwiceCostsOneUnit ==
    ASSUME NEW n \in Nat \ {0}, NEW samples \in Nat \ {0},
           NEW correct \in [1..n -> Nat], Len(correct) = n,
           NEW kept, kept = [i \in 1..n |-> StoredAccuracy(correct[i], samples)], Len(kept) = n
    PROVE  Distance(DefenceScore(kept) * n * samples, Unit * Total(correct)) <= n * samples
  <1>1. kept \in [1..n -> Nat]
    BY AccuracyKept
  <1>2. \A i \in 1..n : /\ (2 * samples) * kept[i] <= (2 * Unit) * correct[i] + samples
                        /\ (2 * Unit) * correct[i] <= (2 * samples) * kept[i] + samples
    BY AccuracyKept
  <1>3. PICK p \in Nat, q \in Nat : p = 2 * samples /\ q = 2 * Unit
    BY UnitIsNat
  <1>4. /\ Total(kept) \in Nat /\ Total(correct) \in Nat
        /\ p * Total(kept) <= q * Total(correct) + n * samples
        /\ q * Total(correct) <= p * Total(kept) + n * samples
    <2>1. \A i \in 1..n : p * kept[i] <= q * correct[i] + samples /\ q * correct[i] <= p * kept[i] + samples
      BY <1>2, <1>3, Zenon
    <2>2. samples \in Nat /\ n \in Nat
      OBVIOUS
    <2>3. Total(kept) \in Nat /\ Total(correct) \in Nat
      BY <1>1, <2>2, SumsAreNumbers
    <2>4. p * Total(kept) <= q * Total(correct) + n * samples
      BY <1>1, <2>1, <2>2, SumsStayClose, Zenon
    <2>5. q * Total(correct) <= p * Total(kept) + n * samples
      BY <1>1, <2>1, <2>2, SumsStayClose, Zenon
    <2> QED BY <2>3, <2>4, <2>5
  <1>5. PICK true \in Nat : true = Unit * Total(correct) /\ q * Total(correct) = 2 * true
    BY <1>3, <1>4, UnitIsNat, Doubled
  <1>6. PICK score \in Nat : /\ score = (2 * Total(kept) + n) \div (2 * n)
                             /\ (2 * n) * score <= 2 * Total(kept) + n
                             /\ 2 * Total(kept) <= (2 * n) * score + n
    BY <1>4, RoundedQuotient
  <1>7. DefenceScore(kept) = score
    BY <1>6 DEF DefenceScore
  <1>8. Distance(score * n * samples, true) <= n * samples
    <2>1. p * Total(kept) <= 2 * true + n * samples /\ 2 * true <= p * Total(kept) + n * samples
      BY <1>4, <1>5, Zenon
    <2>2. samples \in Nat /\ n \in Nat
      OBVIOUS
    <2> QED BY <1>3, <1>4, <1>6, <2>1, <2>2, MeanOfSums, Zenon
  <1> QED BY <1>5, <1>7, <1>8
=============================================================================
