--------------------------- MODULE PromiseProofs ---------------------------
(***************************************************************************)
(* Theorems about the functions that the processor and Analytics compute   *)
(* without state: each in general first, for every input, and then the     *)
(* promise of FleetAggregatorMC that the run checks on its inputs.         *)
(* FleetAggregatorMC is extended because the promises are stated there.    *)
(***************************************************************************)
EXTENDS FleetAggregatorMC, SequenceTheorems, FiniteSetTheorems, WellFoundedInduction, TLAPS

LEMMA DivThousand ==
  ASSUME NEW m \in Nat, NEW n \in Nat, m <= n
  PROVE  m \div 1000 \in Nat /\ m \div 1000 <= n \div 1000
BY SMT

LEMMA DivMillion ==
  ASSUME NEW m \in Nat, m <= 1000000
  PROVE  m \div 1000 \in Nat /\ m \div 1000 <= 1000
BY SMT

LEMMA TimesMonotone ==
  ASSUME NEW a \in Nat, NEW b \in Nat, NEW c \in Nat, NEW d \in Nat, a <= b, c <= d
  PROVE  a * c \in Nat /\ a * c <= b * d
<1>1. a * c <= b * c
  OBVIOUS
<1>2. b * c <= b * d
  OBVIOUS
<1> QED
  BY <1>1, <1>2

LEMMA DivFloor ==
  ASSUME NEW n \in Nat, NEW d \in Nat \ {0}
  PROVE  n \div d \in Nat /\ d * (n \div d) <= n /\ n < d * (n \div d) + d
BY SMT

LEMMA DivAtLeast ==
  ASSUME NEW n \in Nat, NEW d \in Nat \ {0}, NEW k \in Nat, k * d <= n
  PROVE  k <= n \div d
<1>1. n \div d \in Nat /\ n < d * (n \div d) + d
  BY DivFloor
<1>2. ASSUME n \div d + 1 <= k PROVE FALSE
  <2>1. (n \div d + 1) * d <= k * d
    BY <1>1, <1>2, TimesMonotone
  <2>2. (n \div d + 1) * d = d * (n \div d) + d
    BY <1>1
  <2>3. k * d \in Nat
    OBVIOUS
  <2> QED
    BY <1>1, <2>1, <2>2, <2>3
<1> QED
  BY <1>1, <1>2

-----------------------------------------------------------------------------
(* The processor's judgement of a reading.                                 *)

\* A set of numbers has a smallest.
LEMMA Smallest ==
  ASSUME NEW T \in SUBSET Nat, T # {}
  PROVE  \E x \in T : \A y \in T : x <= y
<1> DEFINE R == OpToRel(<, Nat)
<1>1. IsWellFoundedOn(R, Nat)
  BY NatLessThanWellFounded, Zenon
<1>2. \A x, y \in Nat : <<y, x>> \in R <=> y < x
  BY DEF OpToRel
<1> HIDE DEF R
<1>3. \E x \in T : \A y \in T : ~ (<<y, x>> \in R)
  BY <1>1, WFMin, Zenon
<1>4. PICK x \in T : \A y \in T : ~ (<<y, x>> \in R)
  BY <1>3
<1>5. ASSUME NEW y \in T PROVE x <= y
  <2>1. x \in Nat /\ y \in Nat /\ ~ (<<y, x>> \in R)
    BY <1>4
  <2>2. ~ (y < x)
    BY <1>2, <2>1
  <2> QED BY <2>1, <2>2
<1> QED BY <1>5

\* A set that holds 0, and with a number its successor, holds every number.
LEMMA Induction ==
  ASSUME NEW S \in SUBSET Nat, 0 \in S, \A n \in S : n + 1 \in S
  PROVE  S = Nat
<1>1. SUFFICES ASSUME Nat \ S # {} PROVE FALSE
  BY Zenon
<1>2. PICK x \in Nat \ S : \A y \in Nat \ S : x <= y
  BY <1>1, Smallest, Zenon
<1>3. x # 0 /\ x - 1 \in S
  BY <1>2
<1> QED BY <1>2, <1>3

LEMMA UpTo ==
  ASSUME NEW n \in Nat, NEW T, 0 \in T, \A i \in 1..n : i - 1 \in T => i \in T
  PROVE  \A i \in 0..n : i \in T
<1> DEFINE U == {k \in Nat : k \in 0..n => k \in T}
<1>1. ASSUME NEW k \in U PROVE k + 1 \in U
  <2> SUFFICES ASSUME k + 1 \in 0..n PROVE k + 1 \in T
    OBVIOUS
  <2>1. (k + 1) \in 1..n /\ (k + 1) - 1 = k /\ k \in T
    OBVIOUS
  <2> QED
    BY <2>1
<1>2. 0 \in U /\ U \in SUBSET Nat
  OBVIOUS
<1> HIDE DEF U
<1>3. U = Nat
  BY <1>1, <1>2, Induction
<1> QED
  BY <1>3 DEF U

\* A number has a whole root below any larger than its root.
LEMMA RootExists ==
  ASSUME NEW m \in Nat, NEW n \in Nat, n < (m + 1) * (m + 1)
  PROVE  \E r \in 0..m : r * r <= n /\ n < (r + 1) * (r + 1)
<1> SUFFICES ASSUME \A r \in 0..m : r * r <= n => (r + 1) * (r + 1) <= n
             PROVE  FALSE
  OBVIOUS
<1> DEFINE T == {r \in 0..m : r * r <= n}
<1>1. 0 \in T
  OBVIOUS
<1>2. ASSUME NEW i \in 1..m, i - 1 \in T PROVE i \in T
  <2>1. i - 1 \in 0..m /\ (i - 1) + 1 = i /\ i \in 0..m
    OBVIOUS
  <2>2. i * i <= n
    BY <1>2, <2>1
  <2> QED
    BY <2>1, <2>2
<1> HIDE DEF T
<1>3. m \in T
  <2>1. m \in 0..m
    OBVIOUS
  <2> QED
    BY <1>1, <1>2, <2>1, UpTo, Zenon
<1>4. m * m <= n /\ m \in 0..m
  BY <1>3 DEF T
<1> QED
  BY <1>4

\* Whole roots of numbers up to the square of m.
Root(n, m) == CHOOSE r \in 0..m : r * r <= n /\ n < (r + 1) * (r + 1)

LEMMA RootIsRoot ==
  ASSUME NEW m \in Nat, NEW n \in Nat, n < (m + 1) * (m + 1)
  PROVE  /\ Root(n, m) \in 0..m
         /\ Root(n, m) * Root(n, m) <= n
         /\ n < (Root(n, m) + 1) * (Root(n, m) + 1)
<1>1. \E r \in 0..m : r * r <= n /\ n < (r + 1) * (r + 1)
  BY RootExists
<1> QED
  BY <1>1 DEF Root

LEMMA SqrtIsRoot ==
  ASSUME NEW n \in Nat, n <= 1000 * 1000
  PROVE  /\ Sqrt(n) \in Nat /\ Sqrt(n) <= 1000
         /\ Sqrt(n) * Sqrt(n) <= n
         /\ n < (Sqrt(n) + 1) * (Sqrt(n) + 1)
<1>1. Sqrt(n) = Root(n, 1000)
  BY DEF Sqrt, Root
<1>2. 1000 \in Nat /\ n < (1000 + 1) * (1000 + 1)
  BY SMT
<1> QED
  BY <1>1, <1>2, RootIsRoot, SMT

LEMMA SqrtMonotone ==
  ASSUME NEW m \in Nat, NEW n \in Nat, n <= 1000 * 1000, m <= n
  PROVE  Sqrt(m) <= Sqrt(n)
<1> DEFINE r == Sqrt(m)
           q == Sqrt(n)
<1>1. /\ r \in Nat /\ r * r <= m
      /\ q \in Nat /\ n < (q + 1) * (q + 1)
  BY SqrtIsRoot, SMT
<1> HIDE DEF r, q
<1>2. ASSUME q + 1 <= r PROVE FALSE
  <2>1. (q + 1) * (q + 1) <= r * r
    BY <1>1, <1>2, TimesMonotone, SMT
  <2>2. (q + 1) * (q + 1) \in Nat /\ r * r \in Nat
    BY <1>1, SMT
  <2> QED
    BY <1>1, <2>1, <2>2, SMT
<1>3. r <= q
  BY <1>1, <1>2, SMT
<1> QED
  BY <1>3, SMT DEF r, q

Exponents == {2, 3, 4, 6}

\* What a sensor's specification is.
SensorSpecs ==
    [weight : Nat \ {0}, nominal : Nat, safe : Nat, critical : Nat,
     bound : {"both", "upper", "lower"}, exponent : Exponents]

\* A share is a number of thousandths.
IsShare(s) == s \in Nat /\ s <= 1000

LEMMA SquareIsShare ==
  ASSUME NEW s, IsShare(s)
  PROVE  /\ IsShare((s * s) \div 1000)
         /\ ((s * s) \div 1000) * s \in Nat
         /\ ((s * s) \div 1000) * s <= 1000 * 1000
<1> DEFINE u == (s * s) \div 1000
<1>1. s * s \in Nat /\ s * s <= 1000 * 1000
  BY TimesMonotone, SMT DEF IsShare
<1>2. u \in Nat /\ u <= 1000
  BY <1>1, DivMillion, SMT
<1> HIDE DEF u
<1>3. u * s \in Nat /\ u * s <= 1000 * 1000
  BY <1>2, TimesMonotone, SMT DEF IsShare
<1>4. IsShare(u)
  BY <1>2, SMT DEF IsShare
<1> QED
  BY <1>3, <1>4, SMT DEF u

\* The more of its range a sensor leaves, the more it costs.
LEMMA PowerMonotone ==
  ASSUME NEW e \in Exponents, NEW s, NEW t, IsShare(s), IsShare(t), s <= t
  PROVE  IsShare(Power(s, e)) /\ Power(s, e) <= Power(t, e)
<1> DEFINE u == (s * s) \div 1000
           v == (t * t) \div 1000
<1>1. /\ IsShare(u) /\ u * s \in Nat /\ u * s <= 1000 * 1000
      /\ IsShare(v) /\ v * t \in Nat /\ v * t <= 1000 * 1000
  BY SquareIsShare
<1>2. u <= v
  <2>1. s * s \in Nat /\ t * t \in Nat /\ s * s <= t * t
    BY TimesMonotone, SMT DEF IsShare
  <2> QED
    BY <2>1, DivThousand, SMT
<1>3. Power(s, e) = IF e = 2 THEN s ELSE IF e = 3 THEN Sqrt(u * s)
                      ELSE IF e = 4 THEN u ELSE (u * s) \div 1000
  BY SMT DEF Power
<1>4. Power(t, e) = IF e = 2 THEN t ELSE IF e = 3 THEN Sqrt(v * t)
                      ELSE IF e = 4 THEN v ELSE (v * t) \div 1000
  BY SMT DEF Power
<1> HIDE DEF u, v
<1>5. u * s <= v * t
  BY <1>1, <1>2, TimesMonotone, SMT DEF IsShare
<1>6. CASE e = 2
  BY <1>3, <1>4, <1>6, SMT
<1>7. CASE e = 3
  <2>1. IsShare(Sqrt(u * s)) /\ Sqrt(u * s) <= Sqrt(v * t)
    BY <1>1, <1>5, SqrtIsRoot, SqrtMonotone, SMT DEF IsShare
  <2> QED
    BY <1>3, <1>4, <1>7, <2>1, SMT
<1>8. CASE e = 4
  BY <1>1, <1>2, <1>3, <1>4, <1>8, SMT
<1>9. CASE e = 6
  <2>1. (u * s) \div 1000 \in Nat /\ (u * s) \div 1000 <= 1000
    BY <1>1, DivMillion, SMT
  <2>2. (u * s) \div 1000 <= (v * t) \div 1000
    BY <1>1, <1>5, DivThousand, SMT
  <2> QED
    BY <1>3, <1>4, <1>9, <2>1, <2>2, SMT DEF IsShare
<1> QED
  BY <1>6, <1>7, <1>8, <1>9, SMT DEF Exponents

\* A tenth of the range costs something, whatever the exponent; for most a thirtieth does.
LEMMA PowerPositive ==
  ASSUME NEW e \in Exponents, NEW s, IsShare(s), s >= 32, e = 6 => s >= 100
  PROVE  Power(s, e) > 0
<1> DEFINE u == (s * s) \div 1000
<1>1. IsShare(u) /\ u * s \in Nat /\ u * s <= 1000 * 1000
  BY SquareIsShare
<1>2. u >= 1 /\ (e = 6 => u >= 10)
  <2>1. s * s \in Nat /\ 32 * 32 <= s * s
    BY TimesMonotone, SMT DEF IsShare
  <2>2. e = 6 => 100 * 100 <= s * s
    BY TimesMonotone, SMT DEF IsShare
  <2> QED
    BY <2>1, <2>2, SMT
<1>3. Power(s, e) = IF e = 2 THEN s ELSE IF e = 3 THEN Sqrt(u * s)
                      ELSE IF e = 4 THEN u ELSE (u * s) \div 1000
  BY SMT DEF Power
<1> HIDE DEF u
<1>4. CASE e = 2 \/ e = 4
  BY <1>1, <1>2, <1>3, <1>4, SMT DEF IsShare
<1>5. CASE e = 3
  <2>1. 1 * 1 <= u * s
    BY <1>1, <1>2, TimesMonotone, SMT DEF IsShare
  <2>2. Sqrt(u * s) \in Nat /\ u * s < (Sqrt(u * s) + 1) * (Sqrt(u * s) + 1)
    BY <1>1, SqrtIsRoot, SMT
  <2>3. Sqrt(u * s) # 0
    BY <1>1, <2>1, <2>2, SMT
  <2> QED
    BY <1>3, <1>5, <2>2, <2>3, SMT
<1>6. CASE e = 6
  <2>1. 10 * 100 <= u * s
    BY <1>1, <1>2, <1>6, TimesMonotone, SMT DEF IsShare
  <2>2. (u * s) \div 1000 \in Nat /\ (u * s) \div 1000 >= 1
    BY <1>1, <2>1, SMT
  <2> QED
    BY <1>3, <1>6, <2>2, SMT
<1> QED
  BY <1>4, <1>5, <1>6, SMT DEF Exponents

\* health_service.py and alert_evaluator.py compute the deviation alike, and a threshold is
\* violated when it leaves the safe zone.
LEMMA ViolatedIsUnsafe ==
  ASSUME NEW spec \in SensorSpecs, NEW v \in Int
  PROVE  /\ RawDeviation(v, spec) \in Nat
         /\ SeverityDeviation(v, spec) = RawDeviation(v, spec)
         /\ ThresholdViolated(v, spec) = (RawDeviation(v, spec) > spec.safe)
<1> DEFINE d == v - spec.nominal
<1>1. spec.nominal \in Nat /\ spec.safe \in Nat /\ spec.bound \in {"both", "upper", "lower"}
  BY DEF SensorSpecs
<1>2. SeverityDeviation(v, spec) = RawDeviation(v, spec)
  BY Zenon DEF SeverityDeviation, RawDeviation
<1>3. CASE spec.bound = "both"
  <2>1. /\ RawDeviation(v, spec) = Abs(v - spec.nominal)
        /\ ThresholdViolated(v, spec) = (Abs(v - spec.nominal) > spec.safe)
    BY <1>3, Zenon DEF RawDeviation, ThresholdViolated
  <2> QED
    BY <1>1, <1>2, <2>1, SMT DEF Abs
<1>4. CASE spec.bound = "upper"
  <2>1. /\ RawDeviation(v, spec) = AtLeastZero(v - spec.nominal)
        /\ ThresholdViolated(v, spec) = (v > spec.nominal + spec.safe)
    BY <1>4, Zenon DEF RawDeviation, ThresholdViolated
  <2> QED
    BY <1>1, <1>2, <2>1, SMT DEF AtLeastZero
<1>5. CASE spec.bound = "lower"
  <2>1. /\ RawDeviation(v, spec) = AtLeastZero(spec.nominal - v)
        /\ ThresholdViolated(v, spec) = (v < spec.nominal - spec.safe)
    BY <1>5, Zenon DEF RawDeviation, ThresholdViolated
  <2> QED
    BY <1>1, <1>2, <2>1, SMT DEF AtLeastZero
<1> QED
  BY <1>1, <1>3, <1>4, <1>5

LEMMA CritRangeIsNat ==
  ASSUME NEW spec \in SensorSpecs
  PROVE  CritRange(spec) \in Nat
<1>1. spec.nominal \in Nat /\ spec.safe \in Nat /\ spec.critical \in Nat
  BY DEF SensorSpecs
<1> QED
  BY <1>1, SMT DEF CritRange, AtLeastZero, Abs

LEMMA ShareOfDeviation ==
  ASSUME NEW spec \in SensorSpecs, NEW d \in Nat
  PROVE  /\ IsShare(Share(d, spec))
         /\ d <= spec.safe => Share(d, spec) = 0
         /\ d > spec.safe /\ 31 * (d - spec.safe) >= CritRange(spec) => Share(d, spec) >= 32
         /\ d > spec.safe /\ 10 * (d - spec.safe) >= CritRange(spec) => Share(d, spec) >= 100
<1> DEFINE e == AtLeastZero(d - spec.safe)
           range == CritRange(spec)
<1>1. spec.safe \in Nat /\ range \in Nat
  BY CritRangeIsNat DEF SensorSpecs
<1>2. e \in Nat /\ (d <= spec.safe => e = 0) /\ (d > spec.safe => e = d - spec.safe /\ e > 0)
  BY <1>1, SMT DEF AtLeastZero
<1>3. Share(d, spec) = IF e >= range THEN IF e = 0 THEN 0 ELSE 1000 ELSE (1000 * e) \div range
  BY SMT DEF Share
<1> HIDE DEF e, range
<1>4. CASE e >= range
  BY <1>1, <1>2, <1>3, <1>4, SMT DEF IsShare
<1>5. CASE ~ (e >= range)
  <2> DEFINE q == (1000 * e) \div range
  <2>1. range \in Nat \ {0} /\ 1000 * e \in Nat
    BY <1>1, <1>2, <1>5, SMT
  <2>2. q \in Nat /\ range * q <= 1000 * e
    BY <2>1, DivFloor, SMT
  <2>3. 32 * range <= 1000 * e => 32 <= q
    BY <2>1, DivAtLeast, SMT
  <2>4. 100 * range <= 1000 * e => 100 <= q
    BY <2>1, DivAtLeast, SMT
  <2>5. Share(d, spec) = q
    BY <1>3, <1>5, SMT
  <2> HIDE DEF q
  <2>6. q <= 1000
    <3>1. ASSUME q >= 1001 PROVE FALSE
      <4>1. range * 1001 <= range * q
        BY <2>1, <2>2, <3>1, TimesMonotone, SMT
      <4> QED
        BY <1>1, <1>2, <1>5, <2>1, <2>2, <4>1, SMT
    <3> QED
      BY <2>2, <3>1, SMT
  <2>7. e = 0 => q = 0
    <3>1. ASSUME e = 0, q >= 1 PROVE FALSE
      <4>1. range * 1 <= range * q
        BY <2>1, <2>2, <3>1, TimesMonotone, SMT
      <4> QED
        BY <2>1, <2>2, <3>1, <4>1, SMT
    <3> QED
      BY <2>2, <3>1, SMT
  <2> QED
    BY <1>1, <1>2, <2>2, <2>3, <2>4, <2>5, <2>6, <2>7, SMT DEF IsShare, range
<1> QED
  BY <1>4, <1>5

LEMMA PenaltyOfShare ==
  ASSUME NEW spec \in SensorSpecs, NEW v \in Int, NEW w \in Int
  PROVE  /\ IsShare(Normalized(v, spec)) /\ SensorPenalty(v, spec) \in Nat
         /\ SensorPenalty(v, spec) < SensorPenalty(w, spec) => Normalized(v, spec) < Normalized(w, spec)
<1> DEFINE s == Normalized(v, spec)
           t == Normalized(w, spec)
           e == spec.exponent
<1>1. IsShare(s) /\ IsShare(t)
  BY ViolatedIsUnsafe, ShareOfDeviation, SMT DEF Normalized
<1>2. spec.weight \in Nat \ {0} /\ e \in Exponents
  BY DEF SensorSpecs
<1>3. SensorPenalty(v, spec) = spec.weight * Power(s, e) /\ SensorPenalty(w, spec) = spec.weight * Power(t, e)
  BY DEF SensorPenalty
<1> HIDE DEF s, t, e
<1>4. /\ IsShare(Power(s, e)) /\ IsShare(Power(t, e))
      /\ t <= s => Power(t, e) <= Power(s, e)
  BY <1>1, <1>2, PowerMonotone, SMT DEF IsShare
<1>5. ASSUME t <= s PROVE spec.weight * Power(t, e) <= spec.weight * Power(s, e)
  BY <1>2, <1>4, <1>5, TimesMonotone, SMT DEF IsShare
<1>6. spec.weight * Power(s, e) \in Nat /\ spec.weight * Power(t, e) \in Nat
  BY <1>2, <1>4, TimesMonotone, SMT DEF IsShare
<1>7. SensorPenalty(v, spec) < SensorPenalty(w, spec) => s < t
  BY <1>1, <1>3, <1>5, <1>6, SMT DEF IsShare
<1> QED
  BY <1>1, <1>3, <1>6, <1>7, SMT DEF s, t

LEMMA ThreeAreFinite ==
  ASSUME NEW a, NEW b, NEW c
  PROVE  IsFiniteSet({a, b, c})
<1>1. IsFiniteSet({a})
  BY FS_Singleton, Zenon
<1>2. IsFiniteSet({a} \cup {b})
  BY <1>1, FS_AddElement, Zenon
<1>3. IsFiniteSet(({a} \cup {b}) \cup {c})
  BY <1>2, FS_AddElement, Zenon
<1>4. {a, b, c} = ({a} \cup {b}) \cup {c}
  OBVIOUS
<1> QED
  BY <1>3, <1>4

LEMMA SeverityMonotone ==
  ASSUME NEW spec \in SensorSpecs, NEW v \in Int, NEW w \in Int,
         Normalized(v, spec) <= Normalized(w, spec)
  PROVE  /\ SeverityFromSpec(v, spec) \in Nat
         /\ SeverityFromSpec(v, spec) <= SeverityFromSpec(w, spec)
<1> DEFINE over(s) == {limit \in {300, 600, 900} : s >= limit}
           s == Normalized(v, spec)
           t == Normalized(w, spec)
<1>1. IsShare(s) /\ IsShare(t)
  BY PenaltyOfShare
<1>0. SeverityDeviation(v, spec) = RawDeviation(v, spec) /\ SeverityDeviation(w, spec) = RawDeviation(w, spec)
  BY ViolatedIsUnsafe
<1>2. /\ SeverityFromSpec(v, spec) = IF spec.weight >= 35 THEN 4 ELSE 1 + Cardinality(over(s))
      /\ SeverityFromSpec(w, spec) = IF spec.weight >= 35 THEN 4 ELSE 1 + Cardinality(over(t))
  BY <1>0 DEF SeverityFromSpec, Normalized
<1> HIDE DEF s, t
<1>3. over(s) \subseteq over(t)
  BY <1>1, SMT DEF IsShare, s, t
<1>4. IsFiniteSet({300, 600, 900}) /\ over(t) \subseteq {300, 600, 900}
  <2>1. PICK a, b, c : a = 300 /\ b = 600 /\ c = 900
    BY SMT
  <2>2. IsFiniteSet({a, b, c})
    BY ThreeAreFinite, Zenon
  <2>3. IsFiniteSet({300, 600, 900})
    BY <2>1, <2>2, SMT
  <2> QED
    BY <2>3, SMT
<1> HIDE DEF over
<1>5. IsFiniteSet(over(t))
  BY <1>4, FS_Subset, SMT
<1>6. /\ Cardinality(over(s)) \in Nat /\ Cardinality(over(t)) \in Nat
      /\ Cardinality(over(s)) <= Cardinality(over(t))
  BY <1>3, <1>5, FS_Subset, FS_CardinalityType, SMT
<1> QED
  BY <1>2, <1>6, SMT

\* alert_evaluator.py:139, "mirrors HI formula", for any specification and any value: what costs
\* health violates its threshold; what violates it by enough to count in thousandths costs
\* health; and what costs more of its weight is never the less severe.
THEOREM AlertsAndHealthAgree ==
  ASSUME NEW spec \in SensorSpecs, NEW v \in Int, NEW w \in Int
  PROVE  /\ SensorPenalty(v, spec) > 0 => ThresholdViolated(v, spec)
         /\ /\ ThresholdViolated(v, spec)
            /\ LET beyond == RawDeviation(v, spec) - spec.safe IN
               (IF spec.exponent = 6 THEN 10 ELSE 31) * beyond >= CritRange(spec)
            => SensorPenalty(v, spec) > 0
         /\ SensorPenalty(v, spec) < SensorPenalty(w, spec) =>
              SeverityFromSpec(v, spec) <= SeverityFromSpec(w, spec)
<1> DEFINE d == RawDeviation(v, spec)
           s == Normalized(v, spec)
<1>1. d \in Nat /\ (ThresholdViolated(v, spec) <=> d > spec.safe) /\ s = Share(d, spec)
  BY ViolatedIsUnsafe DEF Normalized
<1>2. IsShare(s) /\ SensorPenalty(v, spec) = spec.weight * Power(s, spec.exponent)
  BY PenaltyOfShare DEF SensorPenalty
<1>3. spec.weight \in Nat \ {0} /\ spec.exponent \in Exponents /\ spec.safe \in Nat
  BY DEF SensorSpecs
<1>4. CritRange(spec) \in Nat
  BY CritRangeIsNat
<1> HIDE DEF d, s
<1>5. IsShare(Power(s, spec.exponent))
  BY <1>2, <1>3, PowerMonotone, SMT DEF IsShare
<1>6. ASSUME ~ ThresholdViolated(v, spec) PROVE ~ (SensorPenalty(v, spec) > 0)
  <2>1. s = 0
    BY <1>1, <1>3, <1>6, ShareOfDeviation, SMT
  <2>2. Power(s, spec.exponent) = 0
    <3>1. (s * s) \div 1000 = 0 /\ ((s * s) \div 1000) * s = 0
      BY <2>1, SMT
    <3>2. Sqrt(0) = 0
      <4>1. Sqrt(0) \in Nat /\ Sqrt(0) * Sqrt(0) <= 0
        BY SqrtIsRoot, SMT
      <4> QED
        BY <4>1, SMT
    <3> QED
      BY <1>3, <2>1, <3>1, <3>2, SMT DEF Power, Exponents
  <2> QED
    BY <1>2, <1>3, <2>2, SMT
<1>7. ASSUME ThresholdViolated(v, spec),
             (IF spec.exponent = 6 THEN 10 ELSE 31) * (d - spec.safe) >= CritRange(spec)
      PROVE  SensorPenalty(v, spec) > 0
  <2>1. d > spec.safe /\ 31 * (d - spec.safe) >= CritRange(spec)
    BY <1>1, <1>3, <1>4, <1>7, SMT
  <2>2. s >= 32 /\ (spec.exponent = 6 => s >= 100)
    BY <1>1, <1>3, <1>7, <2>1, ShareOfDeviation, SMT
  <2>3. Power(s, spec.exponent) > 0
    BY <1>2, <1>3, <2>2, PowerPositive, SMT
  <2>4. 1 * 1 <= spec.weight * Power(s, spec.exponent)
    BY <1>3, <1>5, <2>3, TimesMonotone, SMT DEF IsShare
  <2> QED
    BY <1>2, <2>4, PenaltyOfShare, SMT
<1>8. SensorPenalty(v, spec) < SensorPenalty(w, spec) =>
        SeverityFromSpec(v, spec) <= SeverityFromSpec(w, spec)
  BY PenaltyOfShare, SeverityMonotone, SMT DEF IsShare
<1> QED
  BY <1>6, <1>7, <1>8, Zenon DEF d

\* The specifications of constants.py: the critical range is no more than twenty times the
\* safe one, and of a cubed sensor's its tenths are whole.
LocoSensorSpecs ==
    {spec \in SensorSpecs : /\ spec.safe > 0 /\ CritRange(spec) <= 20 * spec.safe
                            /\ spec.exponent = 6 => CritRange(spec) % 10 = 0}

LEMMA SpecsOfCommon ==
  \A s \in DOMAIN CommonSpecs : CommonSpecs[s] \in LocoSensorSpecs
<1>1. DOMAIN CommonSpecs = {"brake_pipe_pressure", "wheel_slip_ratio", "speed_actual"}
  BY SMT DEF CommonSpecs
<1>2. /\ CommonSpecs["brake_pipe_pressure"] \in LocoSensorSpecs
      /\ CommonSpecs["wheel_slip_ratio"] \in LocoSensorSpecs
      /\ CommonSpecs["speed_actual"] \in LocoSensorSpecs
  BY SMT DEF CommonSpecs, SensorSpec, LocoSensorSpecs, SensorSpecs, Exponents, CritRange, AtLeastZero, Abs
<1> QED
  BY <1>1, <1>2, SMT

LEMMA SpecsOfDiesel ==
  \A s \in DOMAIN DieselSpecs : DieselSpecs[s] \in LocoSensorSpecs
<1>1. DOMAIN DieselSpecs = {"diesel_rpm", "oil_pressure", "coolant_temp", "fuel_level", "fuel_rate",
                            "traction_motor_temp", "crankcase_pressure"}
  BY SMT DEF DieselSpecs
<1>2. /\ DieselSpecs["diesel_rpm"] \in LocoSensorSpecs
      /\ DieselSpecs["oil_pressure"] \in LocoSensorSpecs
      /\ DieselSpecs["coolant_temp"] \in LocoSensorSpecs
      /\ DieselSpecs["fuel_level"] \in LocoSensorSpecs
  BY SMT DEF DieselSpecs, SensorSpec, LocoSensorSpecs, SensorSpecs, Exponents, CritRange, AtLeastZero, Abs
<1>3. /\ DieselSpecs["fuel_rate"] \in LocoSensorSpecs
      /\ DieselSpecs["traction_motor_temp"] \in LocoSensorSpecs
      /\ DieselSpecs["crankcase_pressure"] \in LocoSensorSpecs
  BY SMT DEF DieselSpecs, SensorSpec, LocoSensorSpecs, SensorSpecs, Exponents, CritRange, AtLeastZero, Abs
<1> QED
  BY <1>1, <1>2, <1>3, SMT

LEMMA SpecsOfElectric ==
  \A s \in DOMAIN ElectricSpecs : ElectricSpecs[s] \in LocoSensorSpecs
<1>1. DOMAIN ElectricSpecs = {"catenary_voltage", "pantograph_current", "transformer_temp", "igbt_temp",
                              "recuperation_current", "dc_link_voltage"}
  BY SMT DEF ElectricSpecs
<1>2. /\ ElectricSpecs["catenary_voltage"] \in LocoSensorSpecs
      /\ ElectricSpecs["pantograph_current"] \in LocoSensorSpecs
      /\ ElectricSpecs["transformer_temp"] \in LocoSensorSpecs
  BY SMT DEF ElectricSpecs, SensorSpec, LocoSensorSpecs, SensorSpecs, Exponents, CritRange, AtLeastZero, Abs
<1>3. /\ ElectricSpecs["igbt_temp"] \in LocoSensorSpecs
      /\ ElectricSpecs["recuperation_current"] \in LocoSensorSpecs
      /\ ElectricSpecs["dc_link_voltage"] \in LocoSensorSpecs
  BY SMT DEF ElectricSpecs, SensorSpec, LocoSensorSpecs, SensorSpecs, Exponents, CritRange, AtLeastZero, Abs
<1> QED
  BY <1>1, <1>2, <1>3, SMT

LEMMA SpecsTogether ==
  ASSUME NEW specs, \A s \in DOMAIN specs : specs[s] \in LocoSensorSpecs
  PROVE  \A s \in DOMAIN WithCommon(specs) : WithCommon(specs)[s] \in LocoSensorSpecs
BY SpecsOfCommon, Zenon DEF WithCommon, Joined

LEMMA SpecsOfLocos ==
  ASSUME NEW type \in DOMAIN LocoSpecs, NEW s \in DOMAIN LocoSpecs[type]
  PROVE  LocoSpecs[type][s] \in LocoSensorSpecs
<1> DEFINE diesel == WithCommon(DieselSpecs)
           electric == WithCommon(ElectricSpecs)
<1>1. \A x \in DOMAIN diesel : diesel[x] \in LocoSensorSpecs
  BY SpecsOfDiesel, SpecsTogether, Zenon
<1>2. \A x \in DOMAIN electric : electric[x] \in LocoSensorSpecs
  BY SpecsOfElectric, SpecsTogether, Zenon
<1>3. LocoSpecs = [TE33A |-> diesel, KZ8A |-> electric]
  BY Zenon DEF LocoSpecs
<1> HIDE DEF diesel, electric
<1>4. LocoSpecs[type] \in {diesel, electric}
  BY <1>3, SMT
<1> QED
  BY <1>1, <1>2, <1>4, Zenon

\* The specifications a reading meets.
LEMMA DieselLimits ==
  /\ DOMAIN LocoSpecs["TE33A"] = {"brake_pipe_pressure", "wheel_slip_ratio", "speed_actual", "diesel_rpm",
       "oil_pressure", "coolant_temp", "fuel_level", "fuel_rate", "traction_motor_temp", "crankcase_pressure"}
  /\ LocoSpecs["TE33A"]["brake_pipe_pressure"] = SensorSpec(40, 510, 20, 200, "lower", 6)
  /\ LocoSpecs["TE33A"]["wheel_slip_ratio"] = SensorSpec(20, 0, 5, 50, "upper", 4)
  /\ LocoSpecs["TE33A"]["speed_actual"] = SensorSpec(15, 6000, 6000, 12000, "upper", 4)
  /\ LocoSpecs["TE33A"]["diesel_rpm"] = SensorSpec(15, 70000, 20000, 105000, "upper", 4)
  /\ LocoSpecs["TE33A"]["oil_pressure"] = SensorSpec(35, 350, 100, 150, "lower", 4)
  /\ LocoSpecs["TE33A"]["coolant_temp"] = SensorSpec(20, 8200, 1300, 9500, "upper", 4)
  /\ LocoSpecs["TE33A"]["fuel_rate"] = SensorSpec(10, 8000, 6000, 20000, "upper", 3)
  /\ LocoSpecs["TE33A"]["traction_motor_temp"] = SensorSpec(15, 8500, 4500, 13000, "upper", 4)
  /\ LocoSpecs["TE33A"]["crankcase_pressure"] = SensorSpec(40, 0, 1000, 5000, "upper", 6)
<1>1. LocoSpecs["TE33A"] = Joined(DieselSpecs, CommonSpecs)
  BY DEF LocoSpecs, WithCommon
<1>2. DOMAIN CommonSpecs = {"brake_pipe_pressure", "wheel_slip_ratio", "speed_actual"}
  BY SMT DEF CommonSpecs
<1>3. DOMAIN DieselSpecs = {"diesel_rpm", "oil_pressure", "coolant_temp", "fuel_level", "fuel_rate",
                            "traction_motor_temp", "crankcase_pressure"}
  BY SMT DEF DieselSpecs
<1>4. DOMAIN LocoSpecs["TE33A"] = DOMAIN DieselSpecs \cup DOMAIN CommonSpecs
  BY <1>1 DEF Joined
<1>5. \A s \in DOMAIN DieselSpecs : LocoSpecs["TE33A"][s] = DieselSpecs[s]
  BY <1>1, ZenonT(30) DEF Joined
<1>6. \A s \in DOMAIN CommonSpecs : s \notin DOMAIN DieselSpecs => LocoSpecs["TE33A"][s] = CommonSpecs[s]
  BY <1>1, ZenonT(30) DEF Joined
<1>7. /\ LocoSpecs["TE33A"]["brake_pipe_pressure"] = CommonSpecs["brake_pipe_pressure"]
      /\ LocoSpecs["TE33A"]["wheel_slip_ratio"] = CommonSpecs["wheel_slip_ratio"]
      /\ LocoSpecs["TE33A"]["speed_actual"] = CommonSpecs["speed_actual"]
  BY <1>2, <1>3, <1>6
<1>8. /\ CommonSpecs["brake_pipe_pressure"] = SensorSpec(40, 510, 20, 200, "lower", 6)
      /\ CommonSpecs["wheel_slip_ratio"] = SensorSpec(20, 0, 5, 50, "upper", 4)
      /\ CommonSpecs["speed_actual"] = SensorSpec(15, 6000, 6000, 12000, "upper", 4)
  BY SMT DEF CommonSpecs
<1>9. /\ DieselSpecs["diesel_rpm"] = SensorSpec(15, 70000, 20000, 105000, "upper", 4)
      /\ DieselSpecs["oil_pressure"] = SensorSpec(35, 350, 100, 150, "lower", 4)
      /\ DieselSpecs["coolant_temp"] = SensorSpec(20, 8200, 1300, 9500, "upper", 4)
      /\ DieselSpecs["fuel_rate"] = SensorSpec(10, 8000, 6000, 20000, "upper", 3)
      /\ DieselSpecs["traction_motor_temp"] = SensorSpec(15, 8500, 4500, 13000, "upper", 4)
      /\ DieselSpecs["crankcase_pressure"] = SensorSpec(40, 0, 1000, 5000, "upper", 6)
  BY SMT DEF DieselSpecs
<1>10. DOMAIN LocoSpecs["TE33A"] = {"brake_pipe_pressure", "wheel_slip_ratio", "speed_actual", "diesel_rpm",
         "oil_pressure", "coolant_temp", "fuel_level", "fuel_rate", "traction_motor_temp", "crankcase_pressure"}
  BY <1>2, <1>3, <1>4
<1> QED
  BY <1>3, <1>5, <1>7, <1>8, <1>9, <1>10, SMT

LEMMA ElectricLimits ==
  /\ DOMAIN LocoSpecs["KZ8A"] = {"brake_pipe_pressure", "wheel_slip_ratio", "speed_actual", "catenary_voltage",
       "pantograph_current", "transformer_temp", "igbt_temp", "recuperation_current", "dc_link_voltage"}
  /\ LocoSpecs["KZ8A"]["brake_pipe_pressure"] = SensorSpec(40, 510, 20, 200, "lower", 6)
  /\ LocoSpecs["KZ8A"]["wheel_slip_ratio"] = SensorSpec(20, 0, 5, 50, "upper", 4)
  /\ LocoSpecs["KZ8A"]["speed_actual"] = SensorSpec(15, 6000, 6000, 12000, "upper", 4)
  /\ LocoSpecs["KZ8A"]["catenary_voltage"] = SensorSpec(25, 2500000, 400000, 1900000, "both", 4)
  /\ LocoSpecs["KZ8A"]["pantograph_current"] = SensorSpec(15, 20000, 15000, 40000, "upper", 4)
  /\ LocoSpecs["KZ8A"]["transformer_temp"] = SensorSpec(20, 6500, 1500, 9000, "upper", 4)
  /\ LocoSpecs["KZ8A"]["igbt_temp"] = SensorSpec(30, 5700, 1800, 8500, "upper", 4)
  /\ LocoSpecs["KZ8A"]["recuperation_current"] = SensorSpec(5, 10000, 10000, 0, "lower", 2)
  /\ LocoSpecs["KZ8A"]["dc_link_voltage"] = SensorSpec(20, 280000, 30000, 200000, "both", 4)
<1>1. LocoSpecs["KZ8A"] = Joined(ElectricSpecs, CommonSpecs)
  BY DEF LocoSpecs, WithCommon
<1>2. DOMAIN CommonSpecs = {"brake_pipe_pressure", "wheel_slip_ratio", "speed_actual"}
  BY SMT DEF CommonSpecs
<1>3. DOMAIN ElectricSpecs = {"catenary_voltage", "pantograph_current", "transformer_temp", "igbt_temp",
                              "recuperation_current", "dc_link_voltage"}
  BY SMT DEF ElectricSpecs
<1>4. DOMAIN LocoSpecs["KZ8A"] = DOMAIN ElectricSpecs \cup DOMAIN CommonSpecs
  BY <1>1 DEF Joined
<1>5. \A s \in DOMAIN ElectricSpecs : LocoSpecs["KZ8A"][s] = ElectricSpecs[s]
  BY <1>1, ZenonT(30) DEF Joined
<1>6. \A s \in DOMAIN CommonSpecs : s \notin DOMAIN ElectricSpecs => LocoSpecs["KZ8A"][s] = CommonSpecs[s]
  BY <1>1, ZenonT(30) DEF Joined
<1>7. /\ LocoSpecs["KZ8A"]["brake_pipe_pressure"] = CommonSpecs["brake_pipe_pressure"]
      /\ LocoSpecs["KZ8A"]["wheel_slip_ratio"] = CommonSpecs["wheel_slip_ratio"]
      /\ LocoSpecs["KZ8A"]["speed_actual"] = CommonSpecs["speed_actual"]
  BY <1>2, <1>3, <1>6
<1>8. /\ CommonSpecs["brake_pipe_pressure"] = SensorSpec(40, 510, 20, 200, "lower", 6)
      /\ CommonSpecs["wheel_slip_ratio"] = SensorSpec(20, 0, 5, 50, "upper", 4)
      /\ CommonSpecs["speed_actual"] = SensorSpec(15, 6000, 6000, 12000, "upper", 4)
  BY SMT DEF CommonSpecs
<1>9. /\ ElectricSpecs["catenary_voltage"] = SensorSpec(25, 2500000, 400000, 1900000, "both", 4)
      /\ ElectricSpecs["pantograph_current"] = SensorSpec(15, 20000, 15000, 40000, "upper", 4)
      /\ ElectricSpecs["transformer_temp"] = SensorSpec(20, 6500, 1500, 9000, "upper", 4)
      /\ ElectricSpecs["igbt_temp"] = SensorSpec(30, 5700, 1800, 8500, "upper", 4)
      /\ ElectricSpecs["recuperation_current"] = SensorSpec(5, 10000, 10000, 0, "lower", 2)
      /\ ElectricSpecs["dc_link_voltage"] = SensorSpec(20, 280000, 30000, 200000, "both", 4)
  BY SMT DEF ElectricSpecs
<1>10. DOMAIN LocoSpecs["KZ8A"] = {"brake_pipe_pressure", "wheel_slip_ratio", "speed_actual", "catenary_voltage",
         "pantograph_current", "transformer_temp", "igbt_temp", "recuperation_current", "dc_link_voltage"}
  BY <1>2, <1>3, <1>4
<1> QED
  BY <1>3, <1>5, <1>7, <1>8, <1>9, <1>10, SMT

\* A sample lies a whole number of tenths of the range outside the safe zone, or inside it.
LEMMA SampleIsJudged ==
  ASSUME NEW spec \in LocoSensorSpecs, NEW v \in Samples(spec)
  PROVE  v \in Int /\ ThresholdViolated(v, spec) = (SensorPenalty(v, spec) > 0)
<1> DEFINE range == CritRange(spec)
           step == range \div 10
           unit == IF step = 0 THEN 1 ELSE step
           d == RawDeviation(v, spec)
<1>1. /\ spec \in SensorSpecs /\ range \in Nat /\ (spec.exponent = 6 => range % 10 = 0)
      /\ spec.nominal \in Nat /\ spec.safe \in Nat /\ spec.bound \in {"both", "upper", "lower"}
      /\ spec.safe > 0 /\ range <= 20 * spec.safe
  BY CritRangeIsNat DEF LocoSensorSpecs, SensorSpecs
<1>2. PICK side \in {-1, 1}, i \in (-1)..12 : v = spec.nominal + side * (spec.safe + i * unit)
  BY SMT DEF Samples
<1>3. unit \in Nat /\ unit >= 1 /\ unit <= 2 * spec.safe /\ 31 * unit >= range /\ (spec.exponent = 6 => 10 * unit >= range)
  BY <1>1, SMT
<1> HIDE DEF range, unit, step
<1>4. i * unit \in Int /\ i * unit >= -unit /\ (i >= 1 => i * unit >= unit) /\ (i <= 0 => i * unit <= 0)
  BY <1>3, SMT
<1>5. v \in Int
  BY <1>1, <1>2, <1>4, SMT
<1> DEFINE k == i * unit
<1>6. k \in Int /\ k >= -unit /\ (k <= 0 \/ k >= unit) /\ v = spec.nominal + side * (spec.safe + k)
  BY <1>2, <1>4, SMT
<1> HIDE DEF k
<1>7. ThresholdViolated(v, spec) => d - spec.safe >= unit
  <2>1. v - spec.nominal = spec.safe + k \/ v - spec.nominal = -(spec.safe + k)
    BY <1>1, <1>6, SMT
  <2>2. ThresholdViolated(v, spec) <=> d > spec.safe
    BY <1>1, <1>5, ViolatedIsUnsafe
  <2>3. CASE spec.bound = "both"
    <3>1. d = Abs(v - spec.nominal)
      BY <2>3, Zenon DEF RawDeviation
    <3> HIDE DEF d
    <3> QED
      BY <1>1, <1>3, <1>5, <1>6, <2>1, <2>2, <3>1, SMT DEF Abs
  <2>4. CASE spec.bound = "upper"
    <3>1. d = AtLeastZero(v - spec.nominal)
      BY <2>4, Zenon DEF RawDeviation
    <3> HIDE DEF d
    <3> QED
      BY <1>1, <1>3, <1>5, <1>6, <2>1, <2>2, <3>1, SMT DEF AtLeastZero
  <2>5. CASE spec.bound = "lower"
    <3>1. d = AtLeastZero(spec.nominal - v)
      BY <2>5, Zenon DEF RawDeviation
    <3> HIDE DEF d
    <3> QED
      BY <1>1, <1>3, <1>5, <1>6, <2>1, <2>2, <3>1, SMT DEF AtLeastZero
  <2> QED
    BY <1>1, <2>3, <2>4, <2>5
<1>8. d \in Nat
  BY <1>1, <1>5, ViolatedIsUnsafe
<1> HIDE DEF d
<1>9. ThresholdViolated(v, spec) => (IF spec.exponent = 6 THEN 10 ELSE 31) * (d - spec.safe) >= range
  BY <1>1, <1>3, <1>7, <1>8, SMT
<1>10. ThresholdViolated(v, spec) <=> SensorPenalty(v, spec) > 0
  BY <1>1, <1>5, <1>9, AlertsAndHealthAgree, SMT DEF d, range
<1>11. ThresholdViolated(v, spec) = (d > spec.safe)
  BY <1>1, <1>5, ViolatedIsUnsafe DEF d
<1>12. (d > spec.safe) <=> (SensorPenalty(v, spec) > 0)
  <2>1. CASE d > spec.safe
    <3>1. ThresholdViolated(v, spec)
      BY <1>11, <2>1, Zenon
    <3> QED
      BY <1>10, <2>1, <3>1, Zenon
  <2>2. CASE ~ (d > spec.safe)
    <3>1. ~ ThresholdViolated(v, spec)
      BY <1>11, <2>2, Zenon
    <3> QED
      BY <1>10, <2>2, <3>1, Zenon
  <2> QED
    BY <2>1, <2>2, Zenon
<1>13. (d > spec.safe) = (SensorPenalty(v, spec) > 0)
  BY <1>12, SMT
<1> QED
  BY <1>5, <1>11, <1>13, Zenon

\* alert_evaluator.py:165-190 beside health_service.py, for any reading of either type: only the
\* oil pressure may cost health without an alert, while the engine sleeps or, awake, where it is
\* not below the critical pressure.
THEOREM SilentSensors ==
  ASSUME NEW type \in DOMAIN LocoSpecs, NEW reading, \A s \in Known(type, reading) : reading[s] \in Int
  PROVE  /\ Silent(type, reading) \subseteq {"oil_pressure"}
         /\ Silent(type, reading) # {} =>
              AessActive(type, reading) \/ reading["oil_pressure"] >= DieselSpecs.oil_pressure.critical
<1> SUFFICES ASSUME NEW s \in Silent(type, reading)
             PROVE  s = "oil_pressure"
                      /\ (AessActive(type, reading) \/ reading["oil_pressure"] >= DieselSpecs.oil_pressure.critical)
  OBVIOUS
<1> DEFINE spec == LocoSpecs[type][s]
<1>1. s \in Known(type, reading) /\ SensorPenalty(reading[s], spec) > 0 /\ s \notin Alerting(type, reading)
  BY ZenonT(30) DEF Silent, Costing
<1>2. s \in DOMAIN LocoSpecs[type] /\ s \in DOMAIN reading /\ reading[s] \in Int /\ spec \in SensorSpecs
  BY <1>1, SpecsOfLocos DEF Known, LocoSensorSpecs
<1> HIDE DEF spec
<1>3. ThresholdViolated(reading[s], spec)
  BY <1>1, <1>2, AlertsAndHealthAgree, ZenonT(30)
<1>4. \/ AessActive(type, reading) /\ s \in {"diesel_rpm", "oil_pressure"}
      \/ s = "oil_pressure" /\ OilIsExpected(reading)
  BY <1>1, <1>3, ZenonT(30) DEF Alerting, AessMaskedSensors, spec
<1>5. ~(s = "diesel_rpm" /\ AessActive(type, reading))
  <2> SUFFICES ASSUME s = "diesel_rpm", AessActive(type, reading) PROVE FALSE
    OBVIOUS
  <2>1. type = "TE33A" /\ reading["diesel_rpm"] <= 5000
    BY DEF AessActive, AessRpmThreshold
  <2>2. spec = SensorSpec(15, 70000, 20000, 105000, "upper", 4)
    BY <2>1, DieselLimits DEF spec
  <2>3. spec.bound = "upper" /\ spec.nominal = 70000 /\ spec.safe = 20000
    BY <2>2, SMT DEF SensorSpec
  <2>4. reading[s] > 70000 + 20000
    BY <1>3, <2>3, SMT DEF ThresholdViolated
  <2> QED
    BY <1>2, <2>1, <2>4, SMT
<1>6. s = "oil_pressure"
  BY <1>4, <1>5
<1>7. ASSUME ~AessActive(type, reading) PROVE reading["oil_pressure"] >= 150
  <2>1. type = "TE33A"
    <3>1. DOMAIN LocoSpecs = {"TE33A", "KZ8A"}
      BY SMT DEF LocoSpecs
    <3>2. type # "KZ8A"
      <4>1. "oil_pressure" \notin DOMAIN LocoSpecs["KZ8A"]
        <5>1. DOMAIN LocoSpecs["KZ8A"] = {"brake_pipe_pressure", "wheel_slip_ratio", "speed_actual",
                "catenary_voltage", "pantograph_current", "transformer_temp", "igbt_temp",
                "recuperation_current", "dc_link_voltage"}
          BY ElectricLimits
        <5> QED
          BY <5>1
      <4> QED
        BY <1>2, <1>6, <4>1
    <3> QED
      BY <3>1, <3>2
  <2> DEFINE rpm == IF "diesel_rpm" \in DOMAIN reading THEN reading["diesel_rpm"] ELSE 0
  <2>2. reading["oil_pressure"] >= 150 + (rpm * 150) \div 105000
    BY <1>4, <1>7 DEF OilIsExpected
  <2>3. rpm \in Nat
    <3>1. CASE "diesel_rpm" \in DOMAIN reading
      <4>1. "diesel_rpm" \in DOMAIN LocoSpecs["TE33A"]
        <5>1. DOMAIN LocoSpecs["TE33A"] = {"brake_pipe_pressure", "wheel_slip_ratio", "speed_actual",
                "diesel_rpm", "oil_pressure", "coolant_temp", "fuel_level", "fuel_rate",
                "traction_motor_temp", "crankcase_pressure"}
          BY DieselLimits
        <5> QED
          BY <5>1
      <4>2. reading["diesel_rpm"] \in Int
        BY <2>1, <3>1, <4>1 DEF Known
      <4>3. ~(reading["diesel_rpm"] <= 5000)
        BY <1>7, <2>1, <3>1 DEF AessActive, AessRpmThreshold
      <4> QED
        BY <3>1, <4>2, <4>3, SMT
    <3>2. CASE "diesel_rpm" \notin DOMAIN reading
      BY <3>2
    <3> QED
      BY <3>1, <3>2
  <2> HIDE DEF rpm
  <2>4. (rpm * 150) \div 105000 \in Nat
    BY <2>3, SMT
  <2>5. reading["oil_pressure"] \in Int
    BY <1>2, <1>6
  <2> QED
    BY <2>2, <2>4, <2>5, SMT
<1>8. DieselSpecs.oil_pressure.critical = 150
  BY SMT DEF DieselSpecs, SensorSpec
<1> QED
  BY <1>6, <1>7, <1>8

\* An engine speed of the readings is judged alike by both.
LEMMA SpeedIsJudged ==
  ASSUME NEW rpm \in EngineSpeeds
  PROVE  /\ rpm \in Int
         /\ ThresholdViolated(rpm, LocoSpecs["TE33A"]["diesel_rpm"]) =>
              SensorPenalty(rpm, LocoSpecs["TE33A"]["diesel_rpm"]) > 0
<1> DEFINE spec == SensorSpec(15, 70000, 20000, 105000, "upper", 4)
<1>1. rpm \in Int /\ (rpm > 90000 => rpm = 105000)
  BY SMT DEF EngineSpeeds, AessRpmThreshold
<1>2. spec \in SensorSpecs
  BY SMT DEF SensorSpec, SensorSpecs, Exponents
<1>3. /\ spec.nominal = 70000 /\ spec.safe = 20000 /\ spec.critical = 105000 /\ spec.bound = "upper"
      /\ spec.exponent = 4
  BY SMT DEF SensorSpec
<1>4. LocoSpecs["TE33A"]["diesel_rpm"] = spec
  BY DieselLimits
<1> HIDE DEF spec
<1>5. ASSUME ThresholdViolated(rpm, spec) PROVE SensorPenalty(rpm, spec) > 0
  <2>1. rpm = 105000
    BY <1>1, <1>3, <1>5, SMT DEF ThresholdViolated
  <2>2. CritRange(spec) = 15000
    BY <1>3, SMT DEF CritRange, AtLeastZero, Abs
  <2>3. RawDeviation(rpm, spec) = 35000
    <3>1. RawDeviation(rpm, spec) = AtLeastZero(rpm - 70000)
      BY <1>3 DEF RawDeviation
    <3> QED
      BY <2>1, <3>1, SMT DEF AtLeastZero
  <2>4. (IF spec.exponent = 6 THEN 10 ELSE 31) * (RawDeviation(rpm, spec) - spec.safe) >= CritRange(spec)
    BY <1>3, <2>2, <2>3, SMT
  <2> QED
    BY <1>1, <1>2, <1>5, <2>4, AlertsAndHealthAgree
<1> QED
  BY <1>1, <1>4, <1>5

\* A reading of one sensor is a sample, beside which there may be the engine's speed.
LEMMA ReadingIsSample ==
  ASSUME NEW type \in DOMAIN LocoSpecs, NEW s \in DOMAIN LocoSpecs[type], NEW reading \in Readings(type, s)
  PROVE  /\ reading[s] \in Samples(LocoSpecs[type][s]) /\ s \in DOMAIN reading
         /\ \A x \in DOMAIN reading : x # s => x = "diesel_rpm" /\ reading[x] \in EngineSpeeds
<1>1. PICK v \in Samples(LocoSpecs[type][s]) :
        \/ reading = [x \in {s} |-> v]
        \/ \E rpm \in EngineSpeeds : reading = [x \in {s, "diesel_rpm"} |-> IF x = s THEN v ELSE rpm]
  BY SMT DEF Readings
<1>2. CASE reading = [x \in {s} |-> v]
  BY <1>2
<1>3. ASSUME NEW rpm \in EngineSpeeds, reading = [x \in {s, "diesel_rpm"} |-> IF x = s THEN v ELSE rpm]
      PROVE  /\ reading[s] = v /\ s \in DOMAIN reading
             /\ \A x \in DOMAIN reading : x # s => x = "diesel_rpm" /\ reading[x] = rpm
  BY <1>3
<1> QED
  BY <1>1, <1>2, <1>3

LEMMA ReadingIsAnnounced ==
  ASSUME NEW type \in DOMAIN LocoSpecs, NEW s \in DOMAIN LocoSpecs[type], NEW reading \in Readings(type, s)
  PROVE  WellAnnounced(type, reading)
<1> DEFINE spec(x) == LocoSpecs[type][x]
<1>1. /\ reading[s] \in Samples(spec(s)) /\ s \in DOMAIN reading
      /\ \A x \in DOMAIN reading : x # s => x = "diesel_rpm" /\ reading[x] \in EngineSpeeds
  BY ReadingIsSample
<1>2. ASSUME NEW x \in Known(type, reading)
      PROVE  reading[x] \in Int /\ (ThresholdViolated(reading[x], spec(x)) => SensorPenalty(reading[x], spec(x)) > 0)
  <2>1. x \in DOMAIN reading /\ x \in DOMAIN LocoSpecs[type]
    BY DEF Known
  <2>2. CASE x = s
    <3>1. spec(s) \in LocoSensorSpecs
      BY SpecsOfLocos
    <3> HIDE DEF spec
    <3>2. reading[s] \in Int /\ ThresholdViolated(reading[s], spec(s)) = (SensorPenalty(reading[s], spec(s)) > 0)
      BY <1>1, <3>1, SampleIsJudged
    <3> QED
      BY <2>2, <3>2
  <2>3. CASE x # s
    <3>1. x = "diesel_rpm" /\ reading[x] \in EngineSpeeds
      BY <1>1, <2>1, <2>3
    <3>2. type = "TE33A"
      <4>1. DOMAIN LocoSpecs = {"TE33A", "KZ8A"}
        BY SMT DEF LocoSpecs
      <4>2. DOMAIN LocoSpecs["KZ8A"] = {"brake_pipe_pressure", "wheel_slip_ratio", "speed_actual",
                "catenary_voltage", "pantograph_current", "transformer_temp", "igbt_temp",
                "recuperation_current", "dc_link_voltage"}
        BY ElectricLimits
      <4>3. "diesel_rpm" \notin DOMAIN LocoSpecs["KZ8A"]
        BY <4>2
      <4> QED
        BY <2>1, <3>1, <4>1, <4>3
    <3> QED
      BY <3>1, <3>2, SpeedIsJudged
  <2> QED
    BY <2>2, <2>3
<1>3. Alerting(type, reading) \subseteq Costing(type, reading)
  <2> SUFFICES ASSUME NEW x \in Alerting(type, reading) PROVE x \in Costing(type, reading)
    OBVIOUS
  <2>1. x \in Known(type, reading) /\ ThresholdViolated(reading[x], spec(x))
    BY ZenonT(30) DEF Alerting
  <2>2. SensorPenalty(reading[x], spec(x)) > 0
    BY <1>2, <2>1, ZenonT(30)
  <2> QED
    BY <2>1, <2>2, ZenonT(30) DEF Costing
<1>4. \A x \in Known(type, reading) : reading[x] \in Int
  BY <1>2
<1> QED
  BY <1>3, <1>4, SilentSensors, ZenonT(30) DEF WellAnnounced

\* AlertsMirrorHealth: in a reading of any sensor of both types, with a value in each of its zones
\* and at every speed of the engine, an alert is raised for exactly what costs health, but for the
\* masked oil pressures SilentSensors describes; and it is the more severe the more it costs.
THEOREM AlertsMirror == Spec => []AlertsMirrorHealth
<1>1. Misjudged = {}
  <2> SUFFICES ASSUME NEW type \in DOMAIN LocoSpecs, NEW s \in DOMAIN LocoSpecs[type]
               PROVE  /\ \A reading \in Readings(type, s) : WellAnnounced(type, reading)
                      /\ \A v, w \in Samples(LocoSpecs[type][s]) :
                           ~ /\ SensorPenalty(v, LocoSpecs[type][s]) < SensorPenalty(w, LocoSpecs[type][s])
                             /\ SeverityFromSpec(v, LocoSpecs[type][s]) > SeverityFromSpec(w, LocoSpecs[type][s])
    BY Zenon DEF Misjudged
  <2> DEFINE spec == LocoSpecs[type][s]
  <2>1. spec \in LocoSensorSpecs /\ spec \in SensorSpecs
    BY SpecsOfLocos DEF LocoSensorSpecs
  <2>2. \A reading \in Readings(type, s) : WellAnnounced(type, reading)
    BY ReadingIsAnnounced
  <2> HIDE DEF spec
  <2>3. ASSUME NEW v \in Samples(spec), NEW w \in Samples(spec), SensorPenalty(v, spec) < SensorPenalty(w, spec)
        PROVE  ~ (SeverityFromSpec(v, spec) > SeverityFromSpec(w, spec))
    <3>1. v \in Int /\ w \in Int
      BY <2>1, SampleIsJudged, Zenon DEF spec
    <3>2. Normalized(v, spec) <= Normalized(w, spec) /\ Normalized(w, spec) \in Nat
      BY <2>1, <2>3, <3>1, PenaltyOfShare, SMT DEF IsShare
    <3> QED
      BY <2>1, <3>1, <3>2, PenaltyOfShare, SeverityMonotone, SMT DEF IsShare
  <2> QED
    BY <2>2, <2>3, Zenon DEF spec
<1>2. AlertsMirrorHealth
  BY <1>1 DEF AlertsMirrorHealth
<1>3. Init => AlertsMirrorHealth
  BY <1>2
<1>4. AlertsMirrorHealth /\ [Next]_vars => AlertsMirrorHealth'
  BY <1>1 DEF AlertsMirrorHealth
<1> QED
  BY <1>3, <1>4, PTL DEF Spec

-----------------------------------------------------------------------------
(* Acknowledging an alert.                                                 *)

AlertRow(Text) == [time : Nat, id : Nat, locomotive : Text, sensor : Text, severity : Text,
                   acknowledged : BOOLEAN]

OneRowPerId(alerts) == \A a, b \in alerts : a.id = b.id => a = b

\* The alert of this id is there, and acknowledged.
IsAcknowledged(alerts, id) ==
    FindById(alerts, id) # {} /\ \A a \in FindById(alerts, id) : a.acknowledged

\* What is done to the table: db-writer stores a row, for the first time or again, and a
\* client acknowledges an alert, there or not.
Deeds(Text, before, after) ==
    \/ \E row \in AlertRow(Text) : ~row.acknowledged /\ after = StoreAlert(before, row)
    \/ \E id \in Nat : after = Acknowledge(before, id)

LEMMA AcknowledgeIsOk ==
  ASSUME NEW Text, NEW alerts \in SUBSET AlertRow(Text), NEW id \in Nat
  PROVE  /\ Acknowledge(alerts, id) \in SUBSET AlertRow(Text)
         /\ OneRowPerId(alerts) => OneRowPerId(Acknowledge(alerts, id))
         /\ \A i \in Nat : FindById(Acknowledge(alerts, id), i) = {} <=> FindById(alerts, i) = {}
         /\ \A i \in Nat : IsAcknowledged(alerts, i) => IsAcknowledged(Acknowledge(alerts, id), i)
         /\ FindById(alerts, id) # {} => IsAcknowledged(Acknowledge(alerts, id), id)
<1> DEFINE Set(a) == IF a.id = id THEN [a EXCEPT !.acknowledged = TRUE] ELSE a
<1>1. ASSUME NEW a \in alerts
      PROVE  /\ Set(a) \in AlertRow(Text) /\ Set(a).id = a.id
             /\ a.acknowledged \/ a.id = id => Set(a).acknowledged
  BY DEF AlertRow
<1>2. Acknowledge(alerts, id) = {Set(a) : a \in alerts}
  BY DEF Acknowledge
<1> HIDE DEF Set
<1>3. ASSUME OneRowPerId(alerts) PROVE OneRowPerId(Acknowledge(alerts, id))
  BY <1>1, <1>2, <1>3 DEF OneRowPerId
<1>4. ASSUME NEW i \in Nat PROVE FindById(Acknowledge(alerts, id), i) = {Set(a) : a \in FindById(alerts, i)}
  BY <1>1, <1>2 DEF FindById
<1>5. \A i \in Nat : \A a \in FindById(alerts, i) : a \in alerts /\ a.id = i
  BY DEF FindById
<1>6. Acknowledge(alerts, id) \in SUBSET AlertRow(Text)
  BY <1>1, <1>2
<1>7. \A i \in Nat : FindById(Acknowledge(alerts, id), i) = {} <=> FindById(alerts, i) = {}
  BY <1>4
<1>8. ASSUME NEW i \in Nat, IsAcknowledged(alerts, i) PROVE IsAcknowledged(Acknowledge(alerts, id), i)
  BY <1>1, <1>4, <1>5, <1>7, <1>8 DEF IsAcknowledged
<1>9. ASSUME FindById(alerts, id) # {} PROVE IsAcknowledged(Acknowledge(alerts, id), id)
  BY <1>1, <1>4, <1>5, <1>7, <1>9 DEF IsAcknowledged
<1> QED
  BY <1>3, <1>6, <1>7, <1>8, <1>9

LEMMA StoreIsOk ==
  ASSUME NEW Text, NEW alerts \in SUBSET AlertRow(Text), NEW row \in AlertRow(Text)
  PROVE  /\ StoreAlert(alerts, row) \in SUBSET AlertRow(Text)
         /\ OneRowPerId(alerts) => OneRowPerId(StoreAlert(alerts, row))
         /\ \A i \in Nat : FindById(alerts, i) # {} => FindById(StoreAlert(alerts, row), i) = FindById(alerts, i)
<1>1. row.id \in Nat
  BY DEF AlertRow
<1> QED
  BY <1>1 DEF StoreAlert, FindById, OneRowPerId

\* alert_repository.py:65, and db-writer's ON CONFLICT DO NOTHING: whatever is stored and
\* acknowledged, in any order and as often as redeliveries and clients like, an alert
\* acknowledged stays there and acknowledged, and no id ever has two rows.
THEOREM AcknowledgementsLast ==
  ASSUME NEW Text, NEW n \in Nat, NEW table \in [0..n -> SUBSET AlertRow(Text)], OneRowPerId(table[0]),
         \A i \in 1..n : Deeds(Text, table[i - 1], table[i]),
         NEW k \in 1..n, NEW id \in Nat, table[k] = Acknowledge(table[k - 1], id),
         FindById(table[k - 1], id) # {}
  PROVE  /\ \A i \in k..n : IsAcknowledged(table[i], id)
         /\ \A i \in 0..n : OneRowPerId(table[i])
<1> DEFINE T == {i \in 0..n : OneRowPerId(table[i]) /\ (i >= k => IsAcknowledged(table[i], id))}
<1>1. 0 \in T
  OBVIOUS
<1>2. ASSUME NEW i \in 1..n, i - 1 \in T PROVE i \in T
  <2>1. i \in 0..n /\ i - 1 \in 0..n /\ table[i - 1] \in SUBSET AlertRow(Text) /\ OneRowPerId(table[i - 1])
    BY <1>2
  <2>2. OneRowPerId(table[i])
    <3>1. CASE \E row \in AlertRow(Text) : table[i] = StoreAlert(table[i - 1], row)
      BY <2>1, <3>1, StoreIsOk, SMTT(30)
    <3>2. CASE \E j \in Nat : table[i] = Acknowledge(table[i - 1], j)
      <4>1. PICK j \in Nat : table[i] = Acknowledge(table[i - 1], j)
        BY <3>2
      <4>2. OneRowPerId(table[i - 1]) => OneRowPerId(Acknowledge(table[i - 1], j))
        BY <2>1, AcknowledgeIsOk, ZenonT(30)
      <4> QED
        BY <2>1, <4>1, <4>2, ZenonT(30)
    <3> QED
      BY <3>1, <3>2 DEF Deeds
  <2>3. ASSUME i >= k PROVE IsAcknowledged(table[i], id)
    <3>1. CASE i = k
      BY <2>1, <3>1, AcknowledgeIsOk
    <3>2. CASE i # k
      <4>1. IsAcknowledged(table[i - 1], id)
        BY <1>2, <2>1, <2>3, <3>2
      <4>2. CASE \E row \in AlertRow(Text) : table[i] = StoreAlert(table[i - 1], row)
        BY <2>1, <4>1, <4>2, StoreIsOk, SMTT(30) DEF IsAcknowledged
      <4>3. CASE \E j \in Nat : table[i] = Acknowledge(table[i - 1], j)
        <5>1. PICK j \in Nat : table[i] = Acknowledge(table[i - 1], j)
          BY <4>3
        <5>2. IsAcknowledged(table[i - 1], id) => IsAcknowledged(Acknowledge(table[i - 1], j), id)
          BY <2>1, AcknowledgeIsOk, ZenonT(30)
        <5> QED
          BY <4>1, <5>1, <5>2, ZenonT(30)
      <4> QED
        BY <4>2, <4>3 DEF Deeds
    <3> QED
      BY <3>1, <3>2
  <2> QED
    BY <2>1, <2>2, <2>3
<1> HIDE DEF T
<1>3. \A i \in 0..n : i \in T
  BY <1>1, <1>2, UpTo, ZenonT(30)
<1> QED
  BY <1>3 DEF T

-----------------------------------------------------------------------------
AlertWith(t, i, l, s, v, k) ==
    [time |-> t, id |-> i, locomotive |-> l, sensor |-> s, severity |-> v, acknowledged |-> k]
Words == {"a", "oil_pressure", "warning"}
Stored(k) == AlertWith(0, 1, "a", "oil_pressure", "warning", k)
Holding(alerts) == [readings |-> {}, alerts |-> alerts, snapshots |-> {}, cache |-> <<>>]

LEMMA StoredIsRow ==
  ASSUME NEW k \in BOOLEAN
  PROVE  /\ Stored(k) \in AlertRow(Words) /\ Stored(k).time = 0 /\ Stored(k).id = 1
         /\ Stored(k).locomotive = "a" /\ Stored(k).sensor = "oil_pressure"
         /\ Stored(k).severity = "warning" /\ Stored(k).acknowledged = k
<1>0. 0 \in Nat /\ 1 \in Nat
  BY SMTT(30)
<1>1. Stored(k) \in AlertRow(Words)
  BY <1>0, ZenonT(30) DEF Stored, AlertWith, AlertRow, Words
<1>2. Stored(k).time = 0
  BY ZenonT(30) DEF Stored, AlertWith
<1>3. Stored(k).id = 1
  BY ZenonT(30) DEF Stored, AlertWith
<1>4. Stored(k).locomotive = "a"
  BY ZenonT(30) DEF Stored, AlertWith
<1>5. Stored(k).sensor = "oil_pressure"
  BY ZenonT(30) DEF Stored, AlertWith
<1>6. Stored(k).severity = "warning"
  BY ZenonT(30) DEF Stored, AlertWith
<1>7. Stored(k).acknowledged = k
  BY ZenonT(30) DEF Stored, AlertWith
<1> QED
  BY <1>1, <1>2, <1>3, <1>4, <1>5, <1>6, <1>7

LEMMA SameAlert ==
  ASSUME NEW a \in AlertRow(Words), NEW b \in AlertRow(Words), a.time = b.time, a.id = b.id,
         a.locomotive = b.locomotive, a.sensor = b.sensor, a.severity = b.severity,
         a.acknowledged = b.acknowledged
  PROVE  a = b
BY DEF AlertRow

LEMMA SetAcknowledged ==
  ASSUME NEW a \in AlertRow(Words)
  PROVE  LET b == [a EXCEPT !.acknowledged = TRUE] IN
         /\ b \in AlertRow(Words) /\ b.time = a.time /\ b.id = a.id /\ b.locomotive = a.locomotive
         /\ b.sensor = a.sensor /\ b.severity = a.severity /\ b.acknowledged = TRUE
BY DEF AlertRow

LEMMA HoldingOneAlert ==
  /\ NoRows = Holding({})
  /\ \A A, B : [Holding(A) EXCEPT !.alerts = B] = Holding(B) /\ Holding(A).alerts = A
  /\ StoreAlert({}, Stored(FALSE)) = {Stored(FALSE)}
  /\ \A k \in BOOLEAN : StoreAlert({Stored(k)}, Stored(FALSE)) = {Stored(k)}
  /\ Acknowledge({}, 1) = {}
  /\ \A k \in BOOLEAN : Acknowledge({Stored(k)}, 1) = {Stored(TRUE)}
  /\ FindById({}, 1) = {} /\ \A k \in BOOLEAN : FindById({Stored(k)}, 1) = {Stored(k)}
<1>1. NoRows = Holding({})
  BY ZenonT(30) DEF NoRows, Holding
<1>2. ASSUME NEW A, NEW B PROVE [Holding(A) EXCEPT !.alerts = B] = Holding(B) /\ Holding(A).alerts = A
  <2>1. Holding(A).alerts = A
    BY SMT DEF Holding
  <2>2. [Holding(A) EXCEPT !.alerts = B] = Holding(B)
    BY SMTT(30) DEF Holding
  <2> QED
    BY <2>1, <2>2
<1>3. ASSUME NEW k \in BOOLEAN
      PROVE  Stored(k).id = 1 /\ [Stored(k) EXCEPT !.acknowledged = TRUE] = Stored(TRUE)
  <2> DEFINE b == [Stored(k) EXCEPT !.acknowledged = TRUE]
  <2>1. Stored(k) \in AlertRow(Words) /\ Stored(TRUE) \in AlertRow(Words)
    BY StoredIsRow
  <2>2. /\ b \in AlertRow(Words) /\ b.time = Stored(k).time /\ b.id = Stored(k).id
        /\ b.locomotive = Stored(k).locomotive /\ b.sensor = Stored(k).sensor
        /\ b.severity = Stored(k).severity /\ b.acknowledged = TRUE
    BY <2>1, SetAcknowledged, ZenonT(30)
  <2> HIDE DEF b
  <2>3. /\ b.time = Stored(TRUE).time /\ b.id = Stored(TRUE).id
        /\ b.locomotive = Stored(TRUE).locomotive /\ b.sensor = Stored(TRUE).sensor
        /\ b.severity = Stored(TRUE).severity /\ b.acknowledged = Stored(TRUE).acknowledged
    BY <2>2, StoredIsRow
  <2>4. b = Stored(TRUE)
    BY <2>1, <2>2, <2>3, SameAlert, ZenonT(30)
  <2> QED
    BY <2>4, StoredIsRow DEF b
<1> QED
  BY <1>1, <1>2, <1>3 DEF StoreAlert, Acknowledge, FindById

LEMMA OkIs200 == ASSUME NEW reply, reply.code = "OK" PROVE HttpStatus(reply) = 200
BY ZenonT(30) DEF HttpStatus

LEMMA NotFoundIs404 == ASSUME NEW reply, reply.code = "NOT_FOUND" PROVE HttpStatus(reply) = 404
BY ZenonT(30) DEF HttpStatus

LEMMA StatusOfAcknowledge ==
  ASSUME NEW A
  PROVE  /\ AcknowledgeAlert(Holding(A), 1).db = Holding(Acknowledge(A, 1))
         /\ acknowledge_alert(Holding(A), 1) = IF FindById(Acknowledge(A, 1), 1) = {} THEN 404 ELSE 200
<1>1. AcknowledgeAlert(Holding(A), 1) =
        [db |-> Holding(Acknowledge(A, 1)), reply |-> Found(FindById(Acknowledge(A, 1), 1))]
  BY HoldingOneAlert DEF AcknowledgeAlert
<1>2. Abort("NOT_FOUND").code = "NOT_FOUND" /\ \A body : Answer(body).code = "OK"
  BY DEF Abort, Answer
<1>3. Found(FindById(Acknowledge(A, 1), 1)).code =
        IF FindById(Acknowledge(A, 1), 1) = {} THEN "NOT_FOUND" ELSE "OK"
  BY <1>2 DEF Found
<1> DEFINE found == Found(FindById(Acknowledge(A, 1), 1))
<1>5. /\ AcknowledgeAlert(Holding(A), 1).db = Holding(Acknowledge(A, 1))
      /\ AcknowledgeAlert(Holding(A), 1).reply = found
  BY <1>1
<1>6. acknowledge_alert(Holding(A), 1) = HttpStatus(found)
  BY <1>5 DEF acknowledge_alert
<1>7. HttpStatus(found) = IF FindById(Acknowledge(A, 1), 1) = {} THEN 404 ELSE 200
  <2>1. CASE FindById(Acknowledge(A, 1), 1) = {}
    <3>1. found.code = "NOT_FOUND"
      BY <1>3, <2>1, ZenonT(30)
    <3> HIDE DEF found
    <3> QED
      BY <2>1, <3>1, NotFoundIs404, ZenonT(30)
  <2>2. CASE FindById(Acknowledge(A, 1), 1) # {}
    <3>1. found.code = "OK"
      BY <1>3, <2>2, ZenonT(30)
    <3> HIDE DEF found
    <3> QED
      BY <2>2, <3>1, OkIs200, ZenonT(30)
  <2> QED
    BY <2>1, <2>2, ZenonT(30)
<1> QED
  BY <1>5, <1>6, <1>7, ZenonT(30)

\* The table after the first i deeds of a history: the alert is there once it was stored, and
\* acknowledged once it was acknowledged after that.
StoredBy(deeds, i) == \E j \in 1..i : deeds[j] = "store"
AcknowledgedBy(deeds, i) == \E j \in 1..i : deeds[j] = "acknowledge" /\ StoredBy(deeds, j)
TableAfter(deeds, i) == IF StoredBy(deeds, i) THEN {Stored(AcknowledgedBy(deeds, i))} ELSE {}

DeedDone(before, deed) ==
    IF deed = "store" THEN [before EXCEPT !.alerts = StoreAlert(@, Stored(FALSE))]
    ELSE AcknowledgeAlert(before, 1).db

LEMMA TableOfHistory ==
  ASSUME NEW deeds \in [1..4 -> Deed], NEW i \in 1..4
  PROVE  /\ TableAfter(deeds, 0) = {}
         /\ Holding(TableAfter(deeds, i)) = DeedDone(Holding(TableAfter(deeds, i - 1)), deeds[i])
<1>1. TableAfter(deeds, 0) = {}
  BY DEF TableAfter, StoredBy
<1>2. 1..i = 1..(i - 1) \cup {i} /\ deeds[i] \in {"store", "acknowledge"}
  BY DEF Deed
<1>3. /\ StoredBy(deeds, i) <=> StoredBy(deeds, i - 1) \/ deeds[i] = "store"
      /\ AcknowledgedBy(deeds, i) <=>
           AcknowledgedBy(deeds, i - 1) \/ (deeds[i] = "acknowledge" /\ StoredBy(deeds, i))
      /\ AcknowledgedBy(deeds, i - 1) => StoredBy(deeds, i - 1)
  <2>1. StoredBy(deeds, i) <=> StoredBy(deeds, i - 1) \/ deeds[i] = "store"
    BY <1>2, ZenonT(30) DEF StoredBy
  <2>2. AcknowledgedBy(deeds, i) <=>
           AcknowledgedBy(deeds, i - 1) \/ (deeds[i] = "acknowledge" /\ StoredBy(deeds, i))
    BY <1>2, ZenonT(30) DEF AcknowledgedBy
  <2>3. ASSUME AcknowledgedBy(deeds, i - 1) PROVE StoredBy(deeds, i - 1)
    <3>1. PICK j \in 1..(i - 1) : StoredBy(deeds, j)
      BY <2>3 DEF AcknowledgedBy
    <3>2. 1..j \subseteq 1..(i - 1)
      BY SMTT(30)
    <3> QED
      BY <3>1, <3>2, ZenonT(30) DEF StoredBy
  <2> QED
    BY <2>1, <2>2, <2>3
<1>4. AcknowledgedBy(deeds, i - 1) \in BOOLEAN /\ AcknowledgedBy(deeds, i) \in BOOLEAN
  BY DEF AcknowledgedBy
<1>5. CASE deeds[i] = "store"
  <2>1. TableAfter(deeds, i) = StoreAlert(TableAfter(deeds, i - 1), Stored(FALSE))
    <3>1. CASE StoredBy(deeds, i - 1)
      <4>1. AcknowledgedBy(deeds, i) = AcknowledgedBy(deeds, i - 1)
        BY <1>3, <1>4, <1>5
      <4> QED
        BY <1>3, <1>4, <3>1, <4>1, HoldingOneAlert, ZenonT(30) DEF TableAfter
    <3>2. CASE ~ StoredBy(deeds, i - 1)
      <4>1. AcknowledgedBy(deeds, i) = FALSE
        BY <1>3, <1>4, <1>5, <3>2
      <4> QED
        BY <1>3, <1>5, <3>2, <4>1, HoldingOneAlert, ZenonT(30) DEF TableAfter
    <3> QED
      BY <3>1, <3>2
  <2>2. Holding(TableAfter(deeds, i)) =
          [Holding(TableAfter(deeds, i - 1)) EXCEPT !.alerts = StoreAlert(@, Stored(FALSE))]
    <3> DEFINE A == TableAfter(deeds, i - 1)
               B == StoreAlert(A, Stored(FALSE))
    <3>1. [Holding(A) EXCEPT !.alerts = B] = Holding(B) /\ Holding(A).alerts = A
      BY HoldingOneAlert, ZenonT(30)
    <3> QED
      BY <2>1, <3>1, ZenonT(30)
  <2> QED
    BY <1>1, <1>5, <2>2 DEF DeedDone
<1>6. CASE deeds[i] # "store"
  <2>1. TableAfter(deeds, i) = Acknowledge(TableAfter(deeds, i - 1), 1)
    <3>1. CASE StoredBy(deeds, i - 1)
      <4>1. AcknowledgedBy(deeds, i) = TRUE
        BY <1>2, <1>3, <1>4, <1>6, <3>1
      <4> QED
        BY <1>3, <1>4, <3>1, <4>1, HoldingOneAlert, ZenonT(30) DEF TableAfter
    <3>2. CASE ~ StoredBy(deeds, i - 1)
      BY <1>3, <1>6, <3>2, HoldingOneAlert, ZenonT(30) DEF TableAfter
    <3> QED
      BY <3>1, <3>2
  <2>2. DeedDone(Holding(TableAfter(deeds, i - 1)), deeds[i]) =
          AcknowledgeAlert(Holding(TableAfter(deeds, i - 1)), 1).db
    BY <1>6, ZenonT(30) DEF DeedDone
  <2>3. AcknowledgeAlert(Holding(TableAfter(deeds, i - 1)), 1).db =
          Holding(Acknowledge(TableAfter(deeds, i - 1), 1))
    BY StatusOfAcknowledge, ZenonT(30)
  <2>4. Holding(TableAfter(deeds, i)) = DeedDone(Holding(TableAfter(deeds, i - 1)), deeds[i])
    BY <2>1, <2>2, <2>3, ZenonT(30)
  <2> QED
    BY <1>1, <2>4, ZenonT(30)
<1> QED
  BY <1>5, <1>6

LEMMA AcknowledgedOnceThere ==
  ASSUME NEW deeds, NEW i
  PROVE  FindById(Acknowledge(TableAfter(deeds, i), 1), 1) = {} <=> ~ StoredBy(deeds, i)
<1>1. AcknowledgedBy(deeds, i) \in BOOLEAN
  BY DEF AcknowledgedBy
<1>2. CASE StoredBy(deeds, i)
  <2>1. TableAfter(deeds, i) = {Stored(AcknowledgedBy(deeds, i))}
    BY <1>2 DEF TableAfter
  <2>2. Acknowledge(TableAfter(deeds, i), 1) = {Stored(TRUE)}
    BY <1>1, <2>1, HoldingOneAlert, ZenonT(30)
  <2>3. FindById({Stored(TRUE)}, 1) = {Stored(TRUE)}
    BY HoldingOneAlert, ZenonT(30)
  <2> QED
    BY <1>2, <2>2, <2>3, ZenonT(30)
<1>3. CASE ~ StoredBy(deeds, i)
  BY <1>3, HoldingOneAlert, ZenonT(30) DEF TableAfter
<1> QED
  BY <1>2, <1>3

\* AcknowledgedStays: in every history of four deeds the endpoint answers 200 exactly when the
\* alert was stored, and an alert acknowledged stays so.
THEOREM AcknowledgementsStay == Spec => []AcknowledgedStays
<1>1. ForgottenAcknowledgements = {}
  <2> DEFINE Bad(deeds) ==
                LET row == [time |-> 0, id |-> 1, locomotive |-> "a", sensor |-> "oil_pressure",
                            severity |-> "warning", acknowledged |-> FALSE]
                    after[i \in 0..4] ==
                        IF i = 0 THEN NoRows
                        ELSE IF deeds[i] = "store" THEN [after[i - 1] EXCEPT !.alerts = StoreAlert(@, row)]
                        ELSE AcknowledgeAlert(after[i - 1], 1).db
                    seen(i) == deeds[i] = "acknowledge" /\ acknowledge_alert(after[i - 1], 1) = 200
                IN \/ \E i \in 1..4 : seen(i) # (deeds[i] = "acknowledge" /\ \E j \in 1..i : deeds[j] = "store")
                   \/ \E i \in 1..4 : seen(i) /\ \E a \in after[4].alerts : ~a.acknowledged
  <2>1. ForgottenAcknowledgements = {deeds \in [1..4 -> Deed] : Bad(deeds)}
    BY DEF ForgottenAcknowledgements
  <2> SUFFICES ASSUME NEW deeds \in [1..4 -> Deed] PROVE ~ Bad(deeds)
    <3> HIDE DEF Bad
    <3> QED
      BY <2>1, ZenonT(30)
  <2> DEFINE row == [time |-> 0, id |-> 1, locomotive |-> "a", sensor |-> "oil_pressure",
                     severity |-> "warning", acknowledged |-> FALSE]
             Goes(f) == f = [i \in 0..4 |->
                          IF i = 0 THEN NoRows
                          ELSE IF deeds[i] = "store" THEN [f[i - 1] EXCEPT !.alerts = StoreAlert(@, row)]
                          ELSE AcknowledgeAlert(f[i - 1], 1).db]
             after == CHOOSE f : Goes(f)
             g == [i \in 0..4 |-> Holding(TableAfter(deeds, i))]
             seen(i) == deeds[i] = "acknowledge" /\ acknowledge_alert(after[i - 1], 1) = 200
  <2>2. row = Stored(FALSE)
    BY DEF Stored, AlertWith
  <2>3. ASSUME NEW f
        PROVE  Goes(f) <=> f = [i \in 0..4 |-> IF i = 0 THEN NoRows ELSE DeedDone(f[i - 1], deeds[i])]
    <3> HIDE DEF row
    <3> QED
      BY <2>2, ZenonT(30) DEF DeedDone
  <2> HIDE DEF Goes
  <2>4. \A i \in 1..4 : Holding(TableAfter(deeds, i)) = DeedDone(Holding(TableAfter(deeds, i - 1)), deeds[i])
    BY TableOfHistory
  <2>5. Holding(TableAfter(deeds, 0)) = NoRows
    BY TableOfHistory, HoldingOneAlert
  <2>6. Goes(g)
    <3>1. ASSUME NEW i \in 0..4
          PROVE  Holding(TableAfter(deeds, i)) = IF i = 0 THEN NoRows ELSE DeedDone(g[i - 1], deeds[i])
      <4>1. CASE i = 0
        BY <2>5, <4>1, ZenonT(30)
      <4>2. CASE i # 0
        <5>1. i \in 1..4 /\ i - 1 \in 0..4
          BY <4>2
        <5> QED
          BY <2>4, <4>2, <5>1, ZenonT(30)
      <4> QED
        BY <4>1, <4>2
    <3> QED
      BY <2>3, <3>1, ZenonT(30)
  <2>7. Goes(after)
    BY <2>6, ZenonT(30)
  <2> HIDE DEF after
  <2>8. after = [i \in 0..4 |-> IF i = 0 THEN NoRows ELSE DeedDone(after[i - 1], deeds[i])]
    BY <2>3, <2>7, ZenonT(30)
  <2>9. \A i \in 0..4 : after[i] = Holding(TableAfter(deeds, i))
    <3> DEFINE T == {i \in 0..4 : after[i] = Holding(TableAfter(deeds, i))}
    <3>1. 0 \in T
      <4>1. 0 \in 0..4
        BY SMTT(30)
      <4> QED
        BY <2>5, <2>8, <4>1, ZenonT(30)
    <3>2. ASSUME NEW i \in 1..4, i - 1 \in T PROVE i \in T
      <4>1. i \in 0..4 /\ i # 0
        BY SMTT(30)
      <4>2. after[i] = DeedDone(after[i - 1], deeds[i])
        BY <2>8, <4>1, ZenonT(30)
      <4> QED
        BY <2>4, <3>2, <4>1, <4>2, ZenonT(30)
    <3> HIDE DEF T
    <3>3. 4 \in Nat
      BY SMTT(30)
    <3>4. \A i \in 0..4 : i \in T
      BY <3>1, <3>2, <3>3, UpTo, ZenonT(30)
    <3> QED
      BY <3>4 DEF T
  <2>10. ASSUME NEW i \in 1..4
         PROVE  seen(i) = (deeds[i] = "acknowledge" /\ StoredBy(deeds, i))
    <3>1. i - 1 \in 0..4
      BY SMTT(30)
    <3>2. acknowledge_alert(after[i - 1], 1) =
            IF FindById(Acknowledge(TableAfter(deeds, i - 1), 1), 1) = {} THEN 404 ELSE 200
      <4>1. after[i - 1] = Holding(TableAfter(deeds, i - 1))
        BY <2>9, <3>1, ZenonT(30)
      <4> HIDE DEF after
      <4>2. acknowledge_alert(Holding(TableAfter(deeds, i - 1)), 1) =
              IF FindById(Acknowledge(TableAfter(deeds, i - 1), 1), 1) = {} THEN 404 ELSE 200
        BY StatusOfAcknowledge
      <4> QED
        BY <4>1, <4>2
    <3>3. FindById(Acknowledge(TableAfter(deeds, i - 1), 1), 1) = {} <=> ~ StoredBy(deeds, i - 1)
      BY AcknowledgedOnceThere
    <3>4. acknowledge_alert(after[i - 1], 1) = 200 <=> StoredBy(deeds, i - 1)
      <4> HIDE DEF after
      <4> QED
        BY <3>2, <3>3, SMTT(30)
    <3>5. deeds[i] = "acknowledge" => (StoredBy(deeds, i) <=> StoredBy(deeds, i - 1))
      <4>1. 1..i = 1..(i - 1) \cup {i}
        BY SMTT(30)
      <4>2. "acknowledge" # "store"
        BY SMTT(30)
      <4> QED
        BY <4>1, <4>2, ZenonT(30) DEF StoredBy
    <3> QED
      BY <3>4, <3>5
  <2>11. ASSUME NEW i \in 1..4, seen(i), NEW a \in after[4].alerts
         PROVE  a.acknowledged
    <3>1. deeds[i] = "acknowledge" /\ StoredBy(deeds, i)
      BY <2>10, <2>11, ZenonT(30)
    <3>2. i \in 1..4 /\ 4 \in 0..4 /\ 1..i \subseteq 1..4
      BY SMTT(30)
    <3>3. AcknowledgedBy(deeds, 4) = TRUE /\ StoredBy(deeds, 4)
      BY <3>1, <3>2, ZenonT(30) DEF AcknowledgedBy, StoredBy
    <3>4. after[4].alerts = {Stored(TRUE)}
      BY <2>9, <3>2, <3>3, HoldingOneAlert, ZenonT(30) DEF TableAfter
    <3> QED
      BY <2>11, <3>4, StoredIsRow
  <2> HIDE DEF seen
  <2>12. Bad(deeds) <=> \/ \E i \in 1..4 : seen(i) # (deeds[i] = "acknowledge" /\ StoredBy(deeds, i))
                       \/ \E i \in 1..4 : seen(i) /\ \E a \in after[4].alerts : ~a.acknowledged
    BY DEF Bad, seen, after, Goes, StoredBy
  <2> HIDE DEF Bad, g, row
  <2> QED
    BY <2>10, <2>11, <2>12, ZenonT(30)
<1>2. AcknowledgedStays
  BY <1>1 DEF AcknowledgedStays
<1>3. Init => AcknowledgedStays
  BY <1>2
<1>4. AcknowledgedStays /\ [Next]_vars => AcknowledgedStays'
  BY <1>1 DEF AcknowledgedStays
<1> QED
  BY <1>3, <1>4, PTL DEF Spec

-----------------------------------------------------------------------------
(* The chart's window.                                                     *)

LEMMA DivBelow ==
  ASSUME NEW n \in Nat, NEW d \in Nat \ {0}, NEW k \in Nat, n < k * d
  PROVE  n \div d < k
<1>1. n \div d \in Nat /\ d * (n \div d) <= n
  BY DivFloor
<1>2. ASSUME k <= n \div d PROVE FALSE
  <2>1. k * d <= (n \div d) * d
    BY <1>1, <1>2, TimesMonotone
  <2>2. (n \div d) * d = d * (n \div d)
    BY <1>1
  <2>3. k * d \in Nat
    OBVIOUS
  <2> QED
    BY <1>1, <2>1, <2>2, <2>3
<1> QED
  BY <1>1, <1>2

\* The bucket the server reads is the chart's, or that of the aggregate kept for the span.
LEMMA BucketIsWideEnough ==
  ASSUME NEW span \in Nat, NEW age \in Nat, span <= RawRetention
  PROVE  LET b == BucketFor(span, age, AutoBucket(span)) IN b \in Nat \ {0} /\ span < 5000 * b
<1>1. AutoBucket(span) \in Nat \ {0} /\ span < 5000 * AutoBucket(span)
  BY DEF AutoBucket, RawRetention, Minute, Hour
<1>2. RawBucketSize(span) \in Nat \ {0} /\ (span <= 15 * Minute => span < 5000 * RawBucketSize(span))
  BY DEF RawBucketSize, Minute
<1>3. /\ PickLevel(span) = NoBucket <=> span <= 15 * Minute
      /\ PickLevel(span) # NoBucket => PickLevel(span) \in Nat \ {0} /\ span < 5000 * PickLevel(span)
  BY DEF PickLevel, RawRetention, NoBucket, Minute, Hour
<1> DEFINE b == BucketFor(span, age, AutoBucket(span))
<1>4. \/ b = AutoBucket(span)
      \/ PickLevel(span) = NoBucket /\ b = RawBucketSize(span)
      \/ PickLevel(span) # NoBucket /\ b = PickLevel(span)
  BY ZenonT(30) DEF BucketFor
<1> HIDE DEF b
<1>5. b \in Nat \ {0} /\ span < 5000 * b
  BY <1>1, <1>2, <1>3, <1>4, SMTT(30)
<1> QED
  BY <1>5, ZenonT(30) DEF b

\* telemetry_repository.py:193 and TrendsPanel.tsx:170: whatever window of up to three days the
\* chart shows, and however long ago it ends, its rows are within the limit the chart asks for.
THEOREM WindowsFit ==
  ASSUME NEW span \in Nat, NEW age \in Nat, span <= RawRetention
  PROVE  span \div BucketFor(span, age, AutoBucket(span)) + 1 <= ChartLimit
<1> DEFINE b == BucketFor(span, age, AutoBucket(span))
<1>1. b \in Nat \ {0} /\ span < 5000 * b
  BY BucketIsWideEnough
<1> HIDE DEF b
<1>2. span \div b \in Nat /\ span \div b < 5000
  BY <1>1, DivBelow, DivFloor
<1>3. span \div b + 1 <= 5000
  BY <1>2
<1> QED
  BY <1>3 DEF b, ChartLimit

-----------------------------------------------------------------------------
(* Gap markers.                                                            *)

\* FlattenSeq() concatenates one sequence after another: f[i] is the first i of them.
Steps(f, seqs, n) == f = [i \in 1..n |-> IF i = 1 THEN seqs[i] ELSE f[i - 1] \o seqs[i]]

\* The concatenations of the first n sequences exist.
LEMMA StepsExist ==
  ASSUME NEW S, NEW seqs \in Seq(Seq(S)), NEW n \in Nat
  PROVE  \E f : Steps(f, seqs, n)
<1> DEFINE T == {k \in Nat : \E f : Steps(f, seqs, k)}
<1>1. 0 \in T
  <2>1. Steps([i \in 1..0 |-> <<>>], seqs, 0)
    BY DEF Steps
  <2> QED
    BY <2>1
<1>2. ASSUME NEW k \in T PROVE k + 1 \in T
  <2>1. PICK f : Steps(f, seqs, k)
    OBVIOUS
  <2> DEFINE g == [i \in 1..k + 1 |-> IF i <= k THEN f[i]
                                      ELSE IF i = 1 THEN seqs[i] ELSE f[i - 1] \o seqs[i]]
  <2>2. \A i \in 1..k : f[i] = IF i = 1 THEN seqs[i] ELSE f[i - 1] \o seqs[i]
    BY <2>1, Zenon DEF Steps
  <2>3. \A i \in 1..k + 1 : g[i] = IF i = 1 THEN seqs[i] ELSE g[i - 1] \o seqs[i]
    BY <2>2
  <2>4. g = [i \in 1..k + 1 |-> g[i]]
    OBVIOUS
  <2> HIDE DEF g
  <2>5. Steps(g, seqs, k + 1)
    BY <2>3, <2>4, Zenon DEF Steps
  <2> QED
    BY <2>5
<1> HIDE DEF T
<1>3. T = Nat
  <2>1. T \in SUBSET Nat
    BY DEF T
  <2> QED
  BY <1>1, <1>2, <2>1, Induction, Zenon
<1> QED
  BY <1>3, Zenon DEF T

\* One more sequence concatenated.
Unrolls(f, seqs, i) == f[i] = f[i - 1] \o seqs[i]

\* FlattenSeq() is the last of the concatenations.
LEMMA FlattenSteps ==
  ASSUME NEW S, NEW seqs \in Seq(Seq(S))
  PROVE  \E f \in [0..Len(seqs) -> Seq(S)] :
            /\ f[0] = <<>>
            /\ \A i \in 1..Len(seqs) : Unrolls(f, seqs, i)
            /\ FlattenSeq(seqs) = f[Len(seqs)]
<1> DEFINE n == Len(seqs)
           flatten == CHOOSE f : Steps(f, seqs, n)
           g == [i \in 0..n |-> IF i = 0 THEN <<>> ELSE flatten[i]]
<1>1. n \in Nat /\ \A i \in 1..n : seqs[i] \in Seq(S)
  BY ElementOfSeq
<1>2. Steps(flatten, seqs, n)
  BY <1>1, StepsExist
<1>3. n # 0 => FlattenSeq(seqs) = flatten[n]
  BY DEF FlattenSeq, Steps
<1>4. n = 0 => FlattenSeq(seqs) = <<>>
  BY EmptySeq DEF FlattenSeq
<1> HIDE DEF flatten
<1>5. \A i \in 1..n : flatten[i] = IF i = 1 THEN seqs[i] ELSE flatten[i - 1] \o seqs[i]
  BY <1>2, Zenon DEF Steps
<1>6. \A i \in 1..n : flatten[i] \in Seq(S)
  <2> DEFINE T == {k \in Nat : k + 1 \in 1..n => flatten[k + 1] \in Seq(S)}
  <2>1. 0 \in T
    <3>1. 1 \in 1..n => flatten[1] = seqs[1] /\ seqs[1] \in Seq(S)
      BY <1>1, <1>5
    <3> QED
      BY <3>1
  <2>2. ASSUME NEW k \in T PROVE k + 1 \in T
    <3> SUFFICES ASSUME k + 2 \in 1..n PROVE flatten[k + 2] \in Seq(S)
      BY DEF T
    <3>1. flatten[k + 1] \in Seq(S)
      BY <1>1 DEF T
    <3>2. seqs[k + 2] \in Seq(S)
      BY <1>1
    <3>3. flatten[k + 2] = flatten[(k + 2) - 1] \o seqs[k + 2]
      <4>1. k + 2 # 1
        OBVIOUS
      <4> QED
        BY <1>5, <4>1, Zenon
    <3>4. (k + 2) - 1 = k + 1
      OBVIOUS
    <3> QED
      BY <3>1, <3>2, <3>3, <3>4, ConcatProperties
  <2>3. T \in SUBSET Nat
    OBVIOUS
  <2> HIDE DEF T
  <2>4. T = Nat
    BY <2>1, <2>2, <2>3, Induction, Zenon
  <2>5. ASSUME NEW i \in 1..n PROVE flatten[i] \in Seq(S)
    <3>1. i - 1 \in Nat /\ (i - 1) + 1 = i
      BY <1>1
    <3> QED
      BY <2>4, <3>1, Zenon DEF T
  <2> QED
    BY <2>5
<1>7. g \in [0..n -> Seq(S)] /\ g[0] = <<>>
  BY <1>1, <1>6, EmptySeq
<1>8. FlattenSeq(seqs) = g[n]
  BY <1>1, <1>3, <1>4
<1>9. ASSUME NEW i \in 1..n PROVE g[i] = g[i - 1] \o seqs[i]
  <2>1. CASE i = 1
    <3>1. g[1] = flatten[1] /\ g[0] = <<>>
      BY <1>1, <2>1
    <3>2. flatten[1] = seqs[1] /\ seqs[1] \in Seq(S)
      BY <1>1, <1>5, <2>1
    <3>3. <<>> \o seqs[1] = seqs[1]
      BY <3>2, ConcatEmptySeq
    <3>4. g[i - 1] = g[0]
      BY <2>1
    <3> HIDE DEF g
    <3> QED
      BY <2>1, <3>1, <3>2, <3>3, <3>4
  <2>2. CASE i # 1
    <3>1. g[i] = flatten[i] /\ g[i - 1] = flatten[i - 1]
      BY <1>1, <2>2
    <3>2. flatten[i] = flatten[i - 1] \o seqs[i]
      BY <1>5, <2>2, Zenon
    <3> QED
      BY <3>1, <3>2, Zenon
  <2> QED
    BY <2>1, <2>2, Zenon
<1> HIDE DEF g
<1>10. \A i \in 1..n : Unrolls(g, seqs, i)
  BY <1>9, Zenon DEF Unrolls
<1> QED
  BY <1>7, <1>8, <1>10

ChartRow == [bucket : Int, value : Int]
IsSeries(rows) == rows \in Seq(ChartRow) /\ rows # <<>> /\ Ascending(rows)
NoGaps(rows) == \A i \in DOMAIN rows : ~IsGap(rows[i])

\* What the markers of a series say: exactly where its rows are too far apart.
WellMarked(marked, width) ==
    /\ Ascending(marked)
    /\ \A i \in 2..Len(marked) :
         ~IsGap(marked[i - 1]) /\ ~IsGap(marked[i]) =>
             marked[i].bucket - marked[i - 1].bucket <= 3 * width
    /\ \A i \in DOMAIN marked : IsGap(marked[i]) =>
         /\ i \in 2..Len(marked) - 1 /\ ~IsGap(marked[i - 1]) /\ ~IsGap(marked[i + 1])
         /\ marked[i + 1].bucket - marked[i - 1].bucket > 3 * width

\* The markers lie inside, between the rows the query found first and last.
SameEnds(marked, rows) ==
    /\ marked \in Seq(ChartRow) /\ marked # <<>>
    /\ marked[1] = rows[1] /\ marked[Len(marked)] = rows[Len(rows)]

RowsOf(marked) == {r \in Range(marked) : ~IsGap(r)}

LEMMA RowFields ==
  ASSUME NEW m \in Seq(ChartRow), NEW i \in 1..Len(m)
  PROVE  m[i] \in ChartRow /\ m[i].bucket \in Int /\ m[i].value \in Int
<1>1. m[i] \in ChartRow
  BY ElementOfSeq
<1> QED
  BY <1>1 DEF ChartRow

\* One row more, near enough.
LEMMA AddRow ==
  ASSUME NEW width \in Nat, NEW m \in Seq(ChartRow), m # <<>>, WellMarked(m, width),
         NEW r \in ChartRow, ~IsGap(r), ~IsGap(m[Len(m)]),
         m[Len(m)].bucket < r.bucket, r.bucket - m[Len(m)].bucket <= 3 * width
  PROVE  /\ m \o <<r>> \in Seq(ChartRow) /\ m \o <<r>> # <<>>
         /\ (m \o <<r>>)[1] = m[1] /\ (m \o <<r>>)[Len(m \o <<r>>)] = r
         /\ WellMarked(m \o <<r>>, width)
         /\ RowsOf(m \o <<r>>) = RowsOf(m) \cup {r}
<1> DEFINE c == m \o <<r>>
           n == Len(m)
<1>1. n \in Nat \ {0} /\ DOMAIN m = 1..n
  BY EmptySeq
<1>2. /\ c \in Seq(ChartRow) /\ Len(c) = n + 1 /\ DOMAIN c = 1..n + 1
      /\ \A i \in 1..n : c[i] = m[i]
      /\ c[n + 1] = r
  BY <1>1
<1> HIDE DEF c, n
<1>3. \A i \in 1..n : m[i].bucket \in Int
  BY RowFields DEF n
<1>4. r.bucket \in Int
  BY DEF ChartRow
<1>5. /\ m[n].bucket < r.bucket /\ r.bucket - m[n].bucket <= 3 * width
      /\ ~IsGap(r) /\ ~IsGap(m[n])
  BY DEF n
<1>6. Ascending(c)
  <2>1. \A i \in 2..n : m[i - 1].bucket < m[i].bucket
    BY DEF WellMarked, Ascending, n
  <2>2. ASSUME NEW i \in 2..n + 1 PROVE c[i - 1].bucket < c[i].bucket
    <3>1. CASE i = n + 1
      BY <1>1, <1>2, <1>5, <3>1
    <3>2. CASE i # n + 1
      <4>1. i \in 2..n /\ i - 1 \in 1..n /\ i \in 1..n
        BY <1>1, <3>2
      <4> QED
        BY <1>2, <2>1, <4>1
    <3> QED
      BY <3>1, <3>2
  <2> QED
    BY <1>2, <2>2 DEF Ascending
<1>7. ASSUME NEW i \in 2..n + 1, ~IsGap(c[i - 1]), ~IsGap(c[i])
      PROVE  c[i].bucket - c[i - 1].bucket <= 3 * width
  <2>1. CASE i = n + 1
    BY <1>1, <1>2, <1>5, <2>1
  <2>2. CASE i # n + 1
    <3>1. i \in 2..n /\ i - 1 \in 1..n /\ i \in 1..n
      BY <1>1, <2>2
    <3>2. c[i] = m[i] /\ c[i - 1] = m[i - 1]
      BY <1>2, <3>1
    <3> QED
      BY <1>7, <3>1, <3>2 DEF WellMarked, n
  <2> QED
    BY <2>1, <2>2
<1>8. ASSUME NEW i \in 1..n + 1, IsGap(c[i])
      PROVE  /\ i \in 2..n /\ ~IsGap(c[i - 1]) /\ ~IsGap(c[i + 1])
             /\ c[i + 1].bucket - c[i - 1].bucket > 3 * width
  <2>1. i \in 1..n /\ c[i] = m[i]
    BY <1>1, <1>2, <1>5, <1>8
  <2>2. /\ i \in 2..n - 1 /\ ~IsGap(m[i - 1]) /\ ~IsGap(m[i + 1])
        /\ m[i + 1].bucket - m[i - 1].bucket > 3 * width
    BY <1>1, <1>8, <2>1 DEF WellMarked, n
  <2>3. i + 1 \in 1..n /\ i - 1 \in 1..n /\ i \in 2..n
    BY <1>1, <2>2
  <2> QED
    BY <1>2, <2>2, <2>3
<1>9. RowsOf(c) = RowsOf(m) \cup {r}
  <2>1. Range(c) = Range(m) \cup {r}
    BY <1>1, <1>2 DEF Range
  <2> QED
    BY <1>5, <2>1 DEF RowsOf
<1>10. WellMarked(c, width)
  <2>1. n + 1 - 1 = n
    BY <1>1
  <2> QED
    BY <1>2, <1>6, <1>7, <1>8, <2>1 DEF WellMarked
<1>11. c # <<>> /\ c[1] = m[1]
  BY <1>1, <1>2
<1> QED
  BY <1>2, <1>9, <1>10, <1>11 DEF c

\* One row more, after a marker.
LEMMA AddMarkedRow ==
  ASSUME NEW width \in Nat \ {0}, NEW m \in Seq(ChartRow), m # <<>>, WellMarked(m, width),
         NEW r \in ChartRow, ~IsGap(r), ~IsGap(m[Len(m)]),
         r.bucket - m[Len(m)].bucket > 3 * width
  PROVE  LET g == Marker(m[Len(m)], r) IN
         /\ m \o <<g, r>> \in Seq(ChartRow) /\ m \o <<g, r>> # <<>>
         /\ (m \o <<g, r>>)[1] = m[1] /\ (m \o <<g, r>>)[Len(m \o <<g, r>>)] = r
         /\ WellMarked(m \o <<g, r>>, width)
         /\ RowsOf(m \o <<g, r>>) = RowsOf(m) \cup {r}
<1> DEFINE g == Marker(m[Len(m)], r)
           c == m \o <<g, r>>
           n == Len(m)
<1>1. n \in Nat \ {0} /\ DOMAIN m = 1..n
  BY EmptySeq
<1>3. \A i \in 1..n : m[i].bucket \in Int
  BY RowFields DEF n
<1>4. r.bucket \in Int
  BY DEF ChartRow
<1>5. /\ m[n].bucket < r.bucket /\ r.bucket - m[n].bucket > 3 * width
      /\ ~IsGap(r) /\ ~IsGap(m[n])
  BY <1>1, <1>3, <1>4
<1>6. g.bucket = (m[n].bucket + r.bucket) \div 2 /\ g.value = Gap
  BY DEF Marker
<1>7. g \in ChartRow /\ IsGap(g) /\ m[n].bucket < g.bucket /\ g.bucket < r.bucket
  <2>1. m[n].bucket \in Int
    BY <1>1, <1>3
  <2>2. (m[n].bucket + r.bucket) \div 2 \in Int
    BY <1>4, <2>1
  <2>3. g \in ChartRow
    BY <2>2 DEF Marker, ChartRow, Gap
  <2> HIDE DEF g, n
  <2> QED
    BY <1>4, <1>5, <1>6, <2>1, <2>3 DEF IsGap
<1> HIDE DEF g
<1>2. /\ c \in Seq(ChartRow) /\ Len(c) = n + 2 /\ DOMAIN c = 1..n + 2
      /\ \A i \in 1..n : c[i] = m[i]
      /\ c[n + 1] = g /\ c[n + 2] = r
  BY <1>1, <1>7
<1> HIDE DEF c, n
<1>8. Ascending(c)
  <2>1. \A i \in 2..n : m[i - 1].bucket < m[i].bucket
    BY DEF WellMarked, Ascending, n
  <2>2. ASSUME NEW i \in 2..n + 2 PROVE c[i - 1].bucket < c[i].bucket
    <3>1. CASE i = n + 1
      BY <1>1, <1>2, <1>7, <3>1
    <3>2. CASE i = n + 2
      BY <1>1, <1>2, <1>7, <3>2
    <3>3. CASE i # n + 1 /\ i # n + 2
      <4>1. i \in 2..n /\ i - 1 \in 1..n /\ i \in 1..n
        BY <1>1, <3>3
      <4> QED
        BY <1>2, <2>1, <4>1
    <3> QED
      BY <3>1, <3>2, <3>3
  <2> QED
    BY <1>2, <2>2 DEF Ascending
<1>9. ASSUME NEW i \in 2..n + 2, ~IsGap(c[i - 1]), ~IsGap(c[i])
      PROVE  c[i].bucket - c[i - 1].bucket <= 3 * width
  <2>1. i # n + 1 /\ i # n + 2
    BY <1>1, <1>2, <1>7, <1>9
  <2>2. i \in 2..n /\ i - 1 \in 1..n /\ i \in 1..n
    BY <1>1, <2>1
  <2>3. c[i] = m[i] /\ c[i - 1] = m[i - 1]
    BY <1>2, <2>2
  <2> QED
    BY <1>9, <2>2, <2>3 DEF WellMarked, n
<1>10. ASSUME NEW i \in 1..n + 2, IsGap(c[i])
       PROVE  /\ i \in 2..n + 1 /\ ~IsGap(c[i - 1]) /\ ~IsGap(c[i + 1])
              /\ c[i + 1].bucket - c[i - 1].bucket > 3 * width
  <2>1. CASE i = n + 1
    <3>1. c[i + 1] = r /\ c[i - 1] = m[n] /\ i \in 2..n + 1
      BY <1>1, <1>2, <2>1
    <3> QED
      BY <1>5, <3>1
  <2>2. CASE i # n + 1
    <3>1. i \in 1..n /\ c[i] = m[i]
      BY <1>1, <1>2, <1>5, <1>10, <2>2
    <3>2. /\ i \in 2..n - 1 /\ ~IsGap(m[i - 1]) /\ ~IsGap(m[i + 1])
          /\ m[i + 1].bucket - m[i - 1].bucket > 3 * width
      BY <1>1, <1>10, <3>1 DEF WellMarked, n
    <3>3. i + 1 \in 1..n /\ i - 1 \in 1..n /\ i \in 2..n + 1
      BY <1>1, <3>2
    <3> QED
      BY <1>2, <3>2, <3>3
  <2> QED
    BY <2>1, <2>2
<1>11. RowsOf(c) = RowsOf(m) \cup {r}
  <2>1. Range(c) = Range(m) \cup {g, r}
    BY <1>1, <1>2 DEF Range
  <2> QED
    BY <1>5, <1>7, <2>1 DEF RowsOf
<1>12. WellMarked(c, width)
  <2>1. n + 2 - 1 = n + 1
    BY <1>1
  <2> QED
    BY <1>2, <1>8, <1>9, <1>10, <2>1 DEF WellMarked
<1>13. c # <<>> /\ c[1] = m[1] /\ c[Len(c)] = r
  BY <1>1, <1>2
<1> QED
  BY <1>2, <1>11, <1>12, <1>13 DEF c, g

\* telemetry_repository.py:193, "so uPlot breaks the line while x stays monotonic": whatever
\* series a query found, its markers leave the rows as they are and keep time monotonic, and
\* there is a marker exactly between the rows further apart than three buckets.
THEOREM GapsAreMarked ==
  ASSUME NEW width \in Nat \ {0}, NEW rows, IsSeries(rows), NoGaps(rows)
  PROVE  /\ RowsOf(InsertGapMarkers(rows, width)) = Range(rows)
         /\ WellMarked(InsertGapMarkers(rows, width), width)
         /\ SameEnds(InsertGapMarkers(rows, width), rows)
<1> DEFINE n == Len(rows)
           far(i) == i > 1 /\ rows[i].bucket - rows[i - 1].bucket > 3 * width
           seqs == [i \in DOMAIN rows |->
                      IF far(i) THEN <<Marker(rows[i - 1], rows[i]), rows[i]>> ELSE <<rows[i]>>]
<1>1. n \in Nat \ {0} /\ DOMAIN rows = 1..n /\ rows \in Seq(ChartRow)
  BY EmptySeq DEF IsSeries
<1>2. \A i \in 1..n : rows[i] \in ChartRow /\ rows[i].bucket \in Int /\ ~IsGap(rows[i])
  BY <1>1, RowFields DEF NoGaps
<1>3. \A i \in 2..n : rows[i - 1].bucket < rows[i].bucket
  BY DEF IsSeries, Ascending
<1>4. InsertGapMarkers(rows, width) = FlattenSeq(seqs)
  BY DEF InsertGapMarkers
<1> HIDE DEF n
<1>5. seqs \in Seq(Seq(ChartRow)) /\ Len(seqs) = n
  <2>1. ASSUME NEW i \in 1..n PROVE seqs[i] \in Seq(ChartRow)
    <3>1. CASE far(i)
      <4>1. i - 1 \in 1..n
        BY <1>1, <3>1
      <4>2. Marker(rows[i - 1], rows[i]) \in ChartRow
        BY <1>2, <4>1 DEF Marker, ChartRow, Gap
      <4> QED
        BY <1>1, <1>2, <3>1, <4>2
    <3>2. CASE ~ far(i)
      BY <1>1, <1>2, <3>2
    <3> QED
      BY <3>1, <3>2
  <2>2. seqs = [i \in 1..n |-> seqs[i]]
    BY <1>1
  <2> HIDE DEF seqs
  <2> QED
    BY <1>1, <2>1, <2>2
<1>6. PICK f \in [0..n -> Seq(ChartRow)] :
            /\ f[0] = <<>>
            /\ \A i \in 1..n : Unrolls(f, seqs, i)
            /\ FlattenSeq(seqs) = f[n]
  <2> HIDE DEF seqs
  <2> QED
    BY <1>5, FlattenSteps, Zenon
<1> DEFINE Marked(k) ==
             /\ f[k] # <<>> /\ f[k][1] = rows[1] /\ f[k][Len(f[k])] = rows[k]
             /\ WellMarked(f[k], width)
             /\ RowsOf(f[k]) = {rows[j] : j \in 1..k}
           T == {k \in 0..n : k # 0 => Marked(k)}
<1>7. ASSUME NEW i \in 1..n, i - 1 \in T PROVE i \in T
  <2>1. i - 1 \in 0..n /\ i \in 0..n /\ f[i - 1] \in Seq(ChartRow)
    BY <1>1, <1>6
  <2>2. f[i] = f[i - 1] \o seqs[i]
    BY <1>6 DEF Unrolls
  <2>3. seqs[i] = IF far(i) THEN <<Marker(rows[i - 1], rows[i]), rows[i]>> ELSE <<rows[i]>>
    BY <1>1
  <2> SUFFICES Marked(i)
    BY <2>1
  <2>4. 1..i = 1..(i - 1) \cup {i}
    BY <1>1
  <2> HIDE DEF seqs, T
  <2>5. CASE i = 1
    <3>1. f[i] = <<rows[1]>>
      <4>1. f[i - 1] = <<>> /\ seqs[i] = <<rows[1]>>
        BY <1>6, <2>3, <2>5
      <4> QED
        BY <2>2, <4>1
    <3>2. Len(f[i]) = 1 /\ f[i][1] = rows[1] /\ DOMAIN f[i] = 1..1 /\ f[i] # <<>>
      BY <3>1
    <3>3. RowsOf(f[i]) = {rows[1]}
      BY <1>1, <1>2, <3>2 DEF RowsOf, Range
    <3>4. WellMarked(f[i], width)
      BY <1>1, <1>2, <3>2 DEF WellMarked, Ascending
    <3>5. {rows[j] : j \in 1..i} = {rows[1]}
      BY <2>5
    <3> QED
      BY <2>5, <3>2, <3>3, <3>4, <3>5
  <2>6. CASE i # 1
    <3>1. i - 1 \in 1..n /\ i \in 2..n
      BY <1>1, <2>6
    <3>2. Marked(i - 1)
      BY <1>7, <3>1 DEF T
    <3> DEFINE m == f[i - 1]
               r == rows[i]
    <3>3. /\ m \in Seq(ChartRow) /\ m # <<>> /\ WellMarked(m, width)
          /\ m[1] = rows[1] /\ m[Len(m)] = rows[i - 1] /\ ~IsGap(m[Len(m)])
          /\ r \in ChartRow /\ ~IsGap(r)
          /\ RowsOf(m) = {rows[j] : j \in 1..(i - 1)}
      BY <1>2, <2>1, <3>1, <3>2
    <3>4. /\ f[i] # <<>> /\ f[i][1] = m[1] /\ f[i][Len(f[i])] = r
          /\ WellMarked(f[i], width)
          /\ RowsOf(f[i]) = RowsOf(m) \cup {r}
      <4>1. CASE far(i)
        <5>1. f[i] = m \o <<Marker(m[Len(m)], r), r>>
          BY <2>2, <2>3, <3>3, <4>1
        <5>2. r.bucket - m[Len(m)].bucket > 3 * width
          BY <3>3, <4>1
        <5> HIDE DEF m, r
        <5> QED
          BY <3>3, <5>1, <5>2, AddMarkedRow
      <4>2. CASE ~ far(i)
        <5>1. f[i] = m \o <<r>>
          BY <2>2, <2>3, <4>2
        <5>2. m[Len(m)].bucket < r.bucket /\ r.bucket - m[Len(m)].bucket <= 3 * width
          BY <1>2, <1>3, <3>1, <3>3, <4>2
        <5>3. width \in Nat
          OBVIOUS
        <5> HIDE DEF m, r
        <5> QED
          BY <3>3, <5>1, <5>2, <5>3, AddRow
      <4> QED
        BY <4>1, <4>2
    <3>5. {rows[j] : j \in 1..i} = RowsOf(m) \cup {r}
      BY <2>4, <3>3
    <3> QED
      BY <3>3, <3>4, <3>5
  <2> QED
    BY <2>5, <2>6
<1>8. 0 \in T
  BY <1>1
<1> HIDE DEF T
<1>9. n \in T
  <2>1. n \in Nat /\ n \in 0..n
    BY <1>1
  <2> QED
    BY <1>7, <1>8, <2>1, UpTo, ZenonT(30)
<1>10. Marked(n)
  BY <1>1, <1>9 DEF T
<1>11. Range(rows) = {rows[j] : j \in 1..n}
  BY <1>1 DEF Range
<1>12. SameEnds(f[n], rows)
  <2>1. n \in 0..n
    BY <1>1
  <2>2. f[n] \in Seq(ChartRow)
    BY <1>6, <2>1
  <2> QED
    BY <1>10, <2>2 DEF SameEnds, n
<1> QED
  BY <1>4, <1>6, <1>10, <1>11, <1>12

\* FoldFunction() as the sum it is: the sums of all subsets, one element picked after another.
Picked(s) == CHOOSE x \in s : TRUE
SumOf(it, f, s) == IF s = {} THEN 0 ELSE f[Picked(s)] + it[s \ {Picked(s)}]
SumsUp(it, f, S) == it = [s \in SUBSET S |-> SumOf(it, f, s)]

LEMMA FoldIsSum ==
  ASSUME NEW f
  PROVE  FoldFunction(+, 0, f) = (CHOOSE it : SumsUp(it, f, DOMAIN f))[DOMAIN f]
BY ZenonT(30) DEF FoldFunction, FoldFunctionOnSet, MapThenFoldSet, SumsUp, SumOf, Picked

LEMMA PickedIsOne ==
  ASSUME NEW s, IsFiniteSet(s), s # {}
  PROVE  /\ Picked(s) \in s /\ IsFiniteSet(s \ {Picked(s)})
         /\ Cardinality(s \ {Picked(s)}) = Cardinality(s) - 1
         /\ Cardinality(s) \in Nat \ {0}
<1>1. Picked(s) \in s
  BY DEF Picked
<1>2. Cardinality(s) \in Nat /\ Cardinality(s) # 0
  BY FS_CardinalityType, FS_EmptySet
<1> QED
  BY <1>1, <1>2, FS_RemoveElement

Within(S, k) == {s \in SUBSET S : Cardinality(s) <= k}

LEMMA SumExists ==
  ASSUME NEW S, IsFiniteSet(S), NEW f
  PROVE  \E it : SumsUp(it, f, S)
<1>0. \A s \in SUBSET S : IsFiniteSet(s) /\ Cardinality(s) \in Nat /\ (s = {} <=> Cardinality(s) = 0)
  BY FS_Subset, FS_CardinalityType, FS_EmptySet
<1> DEFINE Exists(k) == \E it : it = [s \in Within(S, k) |-> SumOf(it, f, s)]
           T == {k \in Nat : Exists(k)}
<1>1. 0 \in T
  <2> DEFINE it == [s \in Within(S, 0) |-> 0]
  <2>1. ASSUME NEW s \in Within(S, 0) PROVE SumOf(it, f, s) = 0
    <3>1. s = {}
      BY <1>0 DEF Within
    <3> QED
      BY <3>1 DEF SumOf
  <2>2. it = [s \in Within(S, 0) |-> SumOf(it, f, s)]
    BY <2>1
  <2> QED
    BY <2>2
<1>2. ASSUME NEW k \in T PROVE k + 1 \in T
  <2>1. PICK it : it = [s \in Within(S, k) |-> SumOf(it, f, s)]
    OBVIOUS
  <2> DEFINE up == [s \in Within(S, k + 1) |-> SumOf(it, f, s)]
  <2>2. ASSUME NEW s \in Within(S, k + 1), s # {}
        PROVE  s \ {Picked(s)} \in Within(S, k) /\ s \ {Picked(s)} \in Within(S, k + 1)
    <3>1. s \in SUBSET S /\ Cardinality(s) <= k + 1 /\ k \in Nat
      BY DEF Within
    <3>2. Cardinality(s \ {Picked(s)}) = Cardinality(s) - 1 /\ Cardinality(s) \in Nat
      BY <1>0, <2>2, <3>1, PickedIsOne
    <3>3. s \ {Picked(s)} \in SUBSET S
      BY <3>1
    <3>4. Cardinality(s \ {Picked(s)}) <= k /\ Cardinality(s \ {Picked(s)}) <= k + 1
      BY <3>1, <3>2
    <3> QED
      BY <3>3, <3>4 DEF Within
  <2>3. ASSUME NEW s \in Within(S, k) PROVE s \in Within(S, k + 1) /\ up[s] = it[s]
    <3>1. s \in Within(S, k + 1)
      BY <1>0 DEF Within
    <3> QED
      BY <2>1, <3>1, ZenonT(30)
  <2>4. ASSUME NEW s \in Within(S, k + 1) PROVE SumOf(it, f, s) = SumOf(up, f, s)
    BY <2>2, <2>3, <2>4 DEF SumOf
  <2>5. up = [s \in Within(S, k + 1) |-> SumOf(up, f, s)]
    BY <2>4, ZenonT(30)
  <2> HIDE DEF up
  <2> QED
    BY <2>5
<1> HIDE DEF T
<1>3. Cardinality(S) \in T
  <2>1. T \in SUBSET Nat
    BY DEF T
  <2>2. T = Nat
    BY <1>1, <1>2, <2>1, Induction, ZenonT(30)
  <2> QED
    BY <1>0, <2>2
<1>4. Within(S, Cardinality(S)) = SUBSET S
  BY FS_Subset DEF Within
<1> QED
  BY <1>3, <1>4, ZenonT(30) DEF T, SumsUp

\* A sum of numbers is a number; none of them below a bound, it is not below as many bounds.
LEMMA SumsAreInt ==
  ASSUME NEW S, IsFiniteSet(S), NEW f \in [S -> Int], NEW it, SumsUp(it, f, S)
  PROVE  /\ it[S] \in Int
         /\ \A c \in Int : (\A x \in S : c <= f[x]) => c * Cardinality(S) <= it[S]
         /\ (\A x \in S : f[x] = 0) => it[S] = 0
<1>0. \A s \in SUBSET S : IsFiniteSet(s) /\ Cardinality(s) \in Nat /\ (s = {} <=> Cardinality(s) = 0)
  BY FS_Subset, FS_CardinalityType, FS_EmptySet
<1>3. \A s \in SUBSET S : it[s] = SumOf(it, f, s)
  BY ZenonT(30) DEF SumsUp
<1> DEFINE Good(s) ==
             /\ it[s] \in Int
             /\ \A c \in Int : (\A x \in S : c <= f[x]) => c * Cardinality(s) <= it[s]
             /\ (\A x \in S : f[x] = 0) => it[s] = 0
           T == {k \in Nat : \A s \in SUBSET S : Cardinality(s) = k => Good(s)}
<1>4. 0 \in T
  <2>1. ASSUME NEW s \in SUBSET S, Cardinality(s) = 0 PROVE Good(s)
    <3>1. it[s] = 0
      BY <1>0, <1>3, <2>1 DEF SumOf
    <3> QED
      BY <2>1, <3>1
  <2> QED
    BY <2>1
<1>5. ASSUME NEW k \in T PROVE k + 1 \in T
  <2>1. ASSUME NEW s \in SUBSET S, Cardinality(s) = k + 1 PROVE Good(s)
    <3> DEFINE x == Picked(s)
               r == s \ {x}
    <3>1. s # {} /\ k \in Nat
      BY <1>0, <2>1
    <3>2. x \in S /\ r \in SUBSET S /\ Cardinality(r) = k
      BY <1>0, <2>1, <3>1, PickedIsOne
    <3>3. Good(r)
      BY <1>5, <3>2
    <3>4. it[s] = f[x] + it[r]
      BY <1>3, <3>1 DEF SumOf
    <3> HIDE DEF x, r
    <3>5. it[r] \in Int /\ f[x] \in Int
      BY <3>2, <3>3
    <3>6. ASSUME NEW c \in Int, \A y \in S : c <= f[y] PROVE c * Cardinality(s) <= it[s]
      <4>1. c * k <= it[r] /\ c <= f[x]
        BY <3>2, <3>3, <3>6
      <4>2. c * (k + 1) = c * k + c /\ c * k \in Int
        BY <3>1
      <4> QED
        BY <2>1, <3>4, <3>5, <4>1, <4>2
    <3>7. ASSUME \A y \in S : f[y] = 0 PROVE it[s] = 0
      BY <3>2, <3>3, <3>4, <3>7
    <3> QED
      BY <3>4, <3>5, <3>6, <3>7
  <2> QED
    BY <2>1
<1> HIDE DEF T
<1>6. Cardinality(S) \in T
  <2>1. T \in SUBSET Nat
    BY DEF T
  <2>2. T = Nat
    BY <1>4, <1>5, <2>1, Induction, ZenonT(30)
  <2> QED
    BY <1>0, <2>2
<1>7. Good(S)
  BY <1>6 DEF T
<1> QED
  BY <1>7

LEMMA SumIsInt ==
  ASSUME NEW S, IsFiniteSet(S), NEW f \in [S -> Int]
  PROVE  /\ FoldFunction(+, 0, f) \in Int
         /\ \A c \in Int : (\A x \in S : c <= f[x]) => c * Cardinality(S) <= FoldFunction(+, 0, f)
         /\ (\A x \in S : f[x] = 0) => FoldFunction(+, 0, f) = 0
<1> DEFINE it == CHOOSE it : SumsUp(it, f, S)
<1>1. SumsUp(it, f, S)
  BY SumExists, ZenonT(30)
<1>2. FoldFunction(+, 0, f) = it[S]
  <2>1. DOMAIN f = S
    OBVIOUS
  <2> QED
    BY <2>1, FoldIsSum, ZenonT(30)
<1> HIDE DEF it
<1> QED
  BY <1>1, <1>2, SumsAreInt, ZenonT(30)

-----------------------------------------------------------------------------
(* Thinning a series.                                                      *)

\* The indices, from 0, of the rows of bucket b, and of the rows after them.
Start(rows, threshold, b) == (b * (Len(rows) - 2)) \div (threshold - 2) + 1
Bucket(rows, threshold, b) == Start(rows, threshold, b)..Start(rows, threshold, b + 1) - 1
NextBucket(rows, threshold, b) ==
    Start(rows, threshold, b + 1)..
      (IF Start(rows, threshold, b + 2) < Len(rows) THEN Start(rows, threshold, b + 2) ELSE Len(rows)) - 1

LEMMA DivStep ==
  ASSUME NEW n \in Nat, NEW d \in Nat \ {0}, d <= n, NEW b \in Nat
  PROVE  /\ (b * n) \div d \in Nat
         /\ (b * n) \div d + 1 <= ((b + 1) * n) \div d
<1> DEFINE q == (b * n) \div d
<1>1. b * n \in Nat /\ (b + 1) * n \in Nat /\ (b + 1) * n = b * n + n
  OBVIOUS
<1>2. q \in Nat /\ d * q <= b * n
  BY <1>1, DivFloor
<1> HIDE DEF q
<1>3. (q + 1) * d = d * q + d /\ d * q \in Nat
  BY <1>2
<1>4. (q + 1) * d <= (b + 1) * n
  BY <1>1, <1>2, <1>3
<1>5. q + 1 \in Nat
  BY <1>2
<1>6. q + 1 <= ((b + 1) * n) \div d
  BY <1>1, <1>4, <1>5, DivAtLeast
<1> QED
  BY <1>2, <1>6 DEF q

LEMMA DivOfMultiple ==
  ASSUME NEW n \in Nat, NEW d \in Nat \ {0}
  PROVE  (d * n) \div d = n
<1>1. d * n \in Nat /\ n * d = d * n /\ (n + 1) * d = d * n + d
  OBVIOUS
<1>2. n <= (d * n) \div d
  BY <1>1, DivAtLeast
<1>3. d * n < (n + 1) * d /\ n + 1 \in Nat
  BY <1>1
<1>4. (d * n) \div d < n + 1
  BY <1>1, <1>3, DivBelow
<1>5. (d * n) \div d \in Nat
  BY <1>1, DivFloor
<1> QED
  BY <1>2, <1>4, <1>5

LEMMA StartsAscend ==
  ASSUME NEW rows, Len(rows) \in Nat, NEW threshold \in Nat, threshold >= 3, threshold < Len(rows)
  PROVE  /\ \A b \in Nat : /\ Start(rows, threshold, b) \in Nat
                             /\ Start(rows, threshold, b) < Start(rows, threshold, b + 1)
         /\ Start(rows, threshold, 0) = 1
         /\ Start(rows, threshold, threshold - 2) = Len(rows) - 1
<1> DEFINE n == Len(rows) - 2
           d == threshold - 2
<1>1. n \in Nat /\ d \in Nat \ {0} /\ d <= n
  OBVIOUS
<1>2. \A b : Start(rows, threshold, b) = (b * n) \div d + 1
  BY DEF Start
<1>3. Len(rows) - 1 = n + 1 /\ threshold - 2 = d
  OBVIOUS
<1> HIDE DEF n, d
<1>4. \A b \in Nat : (b * n) \div d \in Nat /\ (b * n) \div d + 1 <= ((b + 1) * n) \div d
  BY <1>1, DivStep
<1>5. ASSUME NEW b \in Nat
      PROVE  /\ Start(rows, threshold, b) \in Nat
             /\ Start(rows, threshold, b) < Start(rows, threshold, b + 1)
  <2> DEFINE p == (b * n) \div d
             q == ((b + 1) * n) \div d
  <2>0. b + 1 \in Nat
    OBVIOUS
  <2>1. p \in Nat /\ p + 1 <= q /\ q \in Nat
    BY <1>4, <2>0, ZenonT(30)
  <2>2. Start(rows, threshold, b) = p + 1 /\ Start(rows, threshold, b + 1) = q + 1
    BY <1>2
  <2> HIDE DEF p, q
  <2> QED
    BY <2>1, <2>2
<1>6. Start(rows, threshold, 0) = 1
  <2>1. 0 * n = 0 /\ 0 \div d = 0
    BY <1>1
  <2> QED
    BY <1>2, <2>1
<1>7. Start(rows, threshold, d) = n + 1
  BY <1>1, <1>2, DivOfMultiple
<1> QED
  BY <1>3, <1>5, <1>6, <1>7

\* The later bucket starts later, and every row but the first and the last has its bucket.
LEMMA BucketOfRow ==
  ASSUME NEW rows, Len(rows) \in Nat, NEW threshold \in Nat, threshold >= 3, threshold < Len(rows),
         NEW s \in 1..Len(rows) - 2
  PROVE  \E b \in 0..threshold - 3 : s \in Bucket(rows, threshold, b)
<1> DEFINE st(b) == Start(rows, threshold, b)
           d == threshold - 2
           T == {b \in 0..d : st(b) <= s}
<1>1. /\ \A b \in Nat : st(b) \in Nat /\ st(b) < st(b + 1)
      /\ st(0) = 1 /\ st(d) = Len(rows) - 1
  BY StartsAscend
<1>2. d \in Nat /\ threshold - 3 = d - 1
  OBVIOUS
<1> SUFFICES ASSUME \A b \in 0..d - 1 : s \notin Bucket(rows, threshold, b)
             PROVE  FALSE
  BY <1>2
<1> HIDE DEF st, d
<1>3. \A b \in 0..d - 1 : st(b) <= s => st(b + 1) <= s
  <2> SUFFICES ASSUME NEW b \in 0..d - 1, st(b) <= s
               PROVE  st(b + 1) <= s
    OBVIOUS
  <2>1. s \notin st(b)..st(b + 1) - 1
    BY DEF Bucket, st
  <2>2. b \in Nat /\ b + 1 \in Nat
    BY <1>2
  <2>3. st(b) \in Nat /\ st(b + 1) \in Nat
    BY <1>1, <2>2, ZenonT(30)
  <2>4. st(b) <= s /\ s \in Nat
    OBVIOUS
  <2> HIDE DEF T
  <2> QED
    BY <2>1, <2>3, <2>4
<1>4. \A i \in 1..d : i - 1 \in T => i \in T
  <2> SUFFICES ASSUME NEW i \in 1..d, i - 1 \in T PROVE i \in T
    OBVIOUS
  <2>1. i - 1 \in 0..d - 1 /\ (i - 1) + 1 = i /\ i \in 0..d
    BY <1>2
  <2>2. st(i) <= s
    BY <1>3, <2>1
  <2> QED
    BY <2>1, <2>2
<1>5. 0 \in T
  BY <1>1, <1>2
<1> HIDE DEF T
<1>6. d \in T
  <2>1. d \in 0..d
    BY <1>2
  <2> QED
    BY <1>2, <1>4, <1>5, <2>1, UpTo, ZenonT(30)
<1>7. st(d) <= s
  BY <1>6 DEF T
<1> QED
  BY <1>1, <1>7

\* Buckets end before the last row.
LEMMA StartsBefore ==
  ASSUME NEW rows, Len(rows) \in Nat, NEW threshold \in Nat, threshold >= 3, threshold < Len(rows),
         NEW b \in 0..threshold - 2
  PROVE  Start(rows, threshold, b) \in 1..Len(rows) - 1
<1> DEFINE st(c) == Start(rows, threshold, c)
           d == threshold - 2
           T == {c \in 0..d : 1 <= st(c)}
           U == {c \in 0..d : st(d - c) <= Len(rows) - 1}
<1>1. /\ \A c \in Nat : st(c) \in Nat /\ st(c) < st(c + 1)
      /\ st(0) = 1 /\ st(d) = Len(rows) - 1
  BY StartsAscend
<1>2. d \in Nat /\ b \in 0..d
  OBVIOUS
<1> HIDE DEF st, d
<1>3. 0 \in T /\ 0 \in U
  BY <1>1, <1>2
<1>4. ASSUME NEW c \in 1..d, c - 1 \in T PROVE c \in T
  <2>1. c - 1 \in Nat /\ (c - 1) + 1 = c /\ c \in 0..d
    BY <1>2
  <2>2. st(c - 1) \in Nat /\ st(c - 1) < st((c - 1) + 1) /\ st(c) \in Nat
    <3>1. c \in Nat
      BY <2>1
    <3> QED
      BY <1>1, <2>1, <3>1, ZenonT(30)
  <2>3. 1 <= st(c - 1)
    BY <1>4
  <2>4. 1 <= st(c)
    BY <2>1, <2>2, <2>3
  <2> QED
    BY <2>1, <2>4
<1>5. ASSUME NEW c \in 1..d, c - 1 \in U PROVE c \in U
  <2>1. d - c \in Nat /\ (d - c) + 1 = d - (c - 1) /\ c \in 0..d
    BY <1>2
  <2>2. st(d - c) < st((d - c) + 1) /\ st(d - c) \in Nat /\ st((d - c) + 1) \in Nat
    <3>1. (d - c) + 1 \in Nat
      BY <2>1
    <3> QED
      BY <1>1, <2>1, <3>1
  <2> QED
    BY <1>5, <2>1, <2>2
<1> HIDE DEF T, U
<1>6. b \in T
  BY <1>2, <1>3, <1>4, UpTo, ZenonT(30)
<1>7. d - b \in U
  <2>1. d - b \in 0..d
    BY <1>2
  <2> QED
    BY <1>2, <1>3, <1>5, <2>1, UpTo, ZenonT(30)
<1>8. st(b) <= Len(rows) - 1 /\ 1 <= st(b)
  <2>1. d - (d - b) = b
    BY <1>2
  <2> QED
    BY <1>6, <1>7, <2>1 DEF T, U
<1>9. st(b) \in Nat
  <2>1. b \in Nat
    BY <1>2
  <2> QED
    BY <1>1, <2>1
<1> QED
  BY <1>8, <1>9 DEF st

\* The area of the triangle that row j makes with row a and with the rows after, as PickRow()
\* scales it.
CornerArea(rows, next, a, j) ==
    LET at(k) == rows[k + 1]
        count == Cardinality(next)
        cx == FoldFunction(+, 0, [k \in next |-> at(k).bucket])
        cy == FoldFunction(+, 0, [k \in next |-> at(k).value])
        ay == IF IsGap(at(a)) THEN cy ELSE count * at(a).value
    IN Area2(count * at(a).bucket, ay, cx, cy, count * at(j).bucket, count * at(j).value)

IsLargest(rows, bucket, next, a, j) ==
    \A k \in bucket : \/ CornerArea(rows, next, a, k) < CornerArea(rows, next, a, j)
                      \/ CornerArea(rows, next, a, k) = CornerArea(rows, next, a, j) /\ j <= k

Largest(rows, bucket, next, a) == CHOOSE j \in bucket : IsLargest(rows, bucket, next, a, j)

\* A row among so many, the largest there is.
LEMMA LargestExists ==
  ASSUME NEW lo \in Int, NEW n \in Nat, NEW f, \A k \in lo..lo + n : f[k] \in Nat
  PROVE  \E j \in lo..lo + n : \A k \in lo..lo + n : f[k] < f[j] \/ (f[k] = f[j] /\ j <= k)
<1> DEFINE Best(d, j) == \A k \in lo..lo + d : f[k] < f[j] \/ (f[k] = f[j] /\ j <= k)
           T == {d \in 0..n : \E j \in lo..lo + d : Best(d, j)}
<1>1. 0 \in T
  <2>1. lo \in lo..lo + 0 /\ \A k \in lo..lo + 0 : k = lo
    OBVIOUS
  <2> QED
    BY <2>1
<1>2. ASSUME NEW d \in 1..n, d - 1 \in T PROVE d \in T
  <2>1. PICK j \in lo..lo + (d - 1) : Best(d - 1, j)
    BY <1>2
  <2> DEFINE z == lo + d
  <2>2. /\ z \in Int /\ j \in Int /\ j < z /\ j \in lo..lo + n /\ z \in lo..lo + n
        /\ \A k : k \in lo..lo + d <=> k \in lo..lo + (d - 1) \/ k = z
        /\ \A k \in lo..lo + (d - 1) : k \in lo..lo + n /\ k \in Int /\ k < z
    OBVIOUS
  <2>3. f[j] \in Nat /\ f[z] \in Nat /\ \A k \in lo..lo + (d - 1) : f[k] \in Nat
    BY <2>2
  <2> HIDE DEF z, T
  <2>4. CASE f[j] < f[z]
    <3>1. \A k \in lo..lo + (d - 1) : f[k] < f[z]
      BY <2>1, <2>3, <2>4
    <3>2. Best(d, z) /\ z \in lo..lo + d
      BY <2>2, <3>1
    <3> QED
      BY <3>2 DEF T
  <2>5. CASE ~ (f[j] < f[z])
    <3>1. f[z] < f[j] \/ (f[z] = f[j] /\ j <= z)
      BY <2>2, <2>3, <2>5
    <3>2. Best(d, j) /\ j \in lo..lo + d
      BY <2>1, <2>2, <3>1
    <3> QED
      BY <3>2 DEF T
  <2> QED
    BY <2>4, <2>5
<1> HIDE DEF T
<1>3. n \in T
  <2>1. n \in 0..n
    OBVIOUS
  <2> QED
    BY <1>1, <1>2, <2>1, UpTo, ZenonT(30)
<1> QED
  BY <1>3 DEF T

\* What the corner of the rows after is made of.
LEMMA Corner ==
  ASSUME NEW rows \in Seq(ChartRow), NEW next \in SUBSET (0..Len(rows) - 1), next # {},
         NEW a \in 0..Len(rows) - 1
  PROVE  LET count == Cardinality(next)
             cx == FoldFunction(+, 0, [k \in next |-> rows[k + 1].bucket])
             cy == FoldFunction(+, 0, [k \in next |-> rows[k + 1].value])
         IN /\ IsFiniteSet(next) /\ count \in Nat \ {0} /\ cx \in Int /\ cy \in Int
            /\ (\A k \in next : rows[a + 1].bucket < rows[k + 1].bucket) => count * rows[a + 1].bucket < cx
            /\ (\A k \in next : rows[k + 1].value = 0) => cy = 0
<1> DEFINE xs == [k \in next |-> rows[k + 1].bucket]
           ys == [k \in next |-> rows[k + 1].value]
           count == Cardinality(next)
           c == rows[a + 1].bucket
<1>0. Len(rows) \in Nat
  OBVIOUS
<1>1. IsFiniteSet(next)
  <2>1. IsFiniteSet(0..Len(rows) - 1)
    BY <1>0, FS_Interval
  <2> QED
    BY <2>1, FS_Subset
<1>2. count \in Nat \ {0}
  BY <1>1, FS_CardinalityType, FS_EmptySet
<1>3. \A k \in 0..Len(rows) - 1 : rows[k + 1].bucket \in Int /\ rows[k + 1].value \in Int
  <2> SUFFICES ASSUME NEW k \in 0..Len(rows) - 1
               PROVE  rows[k + 1].bucket \in Int /\ rows[k + 1].value \in Int
    OBVIOUS
  <2>1. k + 1 \in 1..Len(rows)
    BY <1>0
  <2> QED
    BY <2>1, RowFields
<1>4. xs \in [next -> Int] /\ ys \in [next -> Int] /\ c \in Int
  BY <1>3
<1>5. FoldFunction(+, 0, ys) \in Int /\ ((\A k \in next : ys[k] = 0) => FoldFunction(+, 0, ys) = 0)
  BY <1>1, <1>4, SumIsInt
<1>6. FoldFunction(+, 0, xs) \in Int
      /\ ((\A k \in next : c + 1 <= xs[k]) => (c + 1) * count <= FoldFunction(+, 0, xs))
  <2>1. c + 1 \in Int
    BY <1>4
  <2> HIDE DEF xs, c
  <2> QED
    BY <1>1, <1>4, <2>1, SumIsInt
<1>7. (\A k \in next : rows[a + 1].bucket < rows[k + 1].bucket) => count * c < FoldFunction(+, 0, xs)
  <2> SUFFICES ASSUME \A k \in next : c < rows[k + 1].bucket
               PROVE  count * c < FoldFunction(+, 0, xs)
    OBVIOUS
  <2>1. \A k \in next : c + 1 <= xs[k]
    BY <1>3, <1>4
  <2> DEFINE total == FoldFunction(+, 0, xs)
  <2> HIDE DEF xs, c, count
  <2>2. (c + 1) * count = count * c + count /\ count * c \in Int
    BY <1>2, <1>4
  <2>3. total \in Int /\ (c + 1) * count <= total
    BY <1>6, <2>1
  <2> HIDE DEF total
  <2>4. count * c < total
    BY <1>2, <2>2, <2>3
  <2> QED
    BY <2>4 DEF total
<1>8. (\A k \in next : rows[k + 1].value = 0) => FoldFunction(+, 0, ys) = 0
  BY <1>5
<1> QED
  BY <1>1, <1>2, <1>5, <1>6, <1>7, <1>8

LEMMA Area2IsNat ==
  ASSUME NEW p \in Int, NEW q \in Int, NEW r \in Int, NEW t \in Int, NEW u \in Int, NEW v \in Int
  PROVE  Area2(p, q, r, t, u, v) \in Nat
<1>1. (p - r) * (v - q) - (p - u) * (t - q) \in Int
  OBVIOUS
<1> QED
  BY <1>1 DEF Area2

LEMMA AreaIsNat ==
  ASSUME NEW rows \in Seq(ChartRow), NEW next \in SUBSET (0..Len(rows) - 1), next # {},
         NEW a \in 0..Len(rows) - 1, NEW j \in 0..Len(rows) - 1
  PROVE  CornerArea(rows, next, a, j) \in Nat
<1> DEFINE count == Cardinality(next)
           cx == FoldFunction(+, 0, [k \in next |-> rows[k + 1].bucket])
           cy == FoldFunction(+, 0, [k \in next |-> rows[k + 1].value])
           ab == rows[a + 1].bucket
           av == rows[a + 1].value
           jb == rows[j + 1].bucket
           jv == rows[j + 1].value
<1>1. count \in Nat /\ cx \in Int /\ cy \in Int
  BY Corner
<1>2. ab \in Int /\ av \in Int /\ jb \in Int /\ jv \in Int
  <2>1. a + 1 \in 1..Len(rows) /\ j + 1 \in 1..Len(rows)
    OBVIOUS
  <2> QED
    BY <2>1, RowFields
<1> DEFINE ay == IF IsGap(rows[a + 1]) THEN cy ELSE count * av
<1>3. CornerArea(rows, next, a, j) = Area2(count * ab, ay, cx, cy, count * jb, count * jv)
  BY ZenonT(30) DEF CornerArea
<1> HIDE DEF count, cx, cy, ab, av, jb, jv
<1>4. count * ab \in Int /\ ay \in Int /\ count * jb \in Int /\ count * jv \in Int
  BY <1>1, <1>2
<1> HIDE DEF ay
<1>5. Area2(count * ab, ay, cx, cy, count * jb, count * jv) \in Nat
  BY <1>1, <1>4, Area2IsNat
<1> QED
  BY <1>3, <1>5

\* A series to be thinned, with gaps or without.
Oversized(rows, threshold) ==
    rows \in Seq(ChartRow) /\ threshold \in Nat /\ threshold >= 3 /\ threshold < Len(rows)
Thinned(rows, threshold) ==
    IsSeries(rows) /\ NoGaps(rows) /\ threshold \in Nat /\ threshold >= 3 /\ threshold < Len(rows)

LEMMA BucketsAreInside ==
  ASSUME NEW rows, NEW threshold, Oversized(rows, threshold), NEW b \in 0..threshold - 3
  PROVE  /\ Start(rows, threshold, b) \in 1..Len(rows) - 2
         /\ Start(rows, threshold, b + 1) \in 2..Len(rows) - 1
         /\ Start(rows, threshold, b) < Start(rows, threshold, b + 1)
         /\ Bucket(rows, threshold, b) \subseteq 1..Len(rows) - 2
         /\ NextBucket(rows, threshold, b) \subseteq 2..Len(rows) - 1
         /\ NextBucket(rows, threshold, b) # {}
<1> DEFINE n == Len(rows)
           s == Start(rows, threshold, b)
           t == Start(rows, threshold, b + 1)
           u == Start(rows, threshold, b + 2)
<1>1. n \in Nat /\ threshold \in Nat /\ threshold >= 3 /\ threshold < n
  BY DEF Oversized
<1>2. b \in 0..threshold - 2 /\ b + 1 \in 0..threshold - 2 /\ b \in Nat /\ b + 1 \in Nat
      /\ (b + 1) + 1 = b + 2
  BY <1>1
<1>3. s \in 1..n - 1 /\ t \in 1..n - 1
  BY <1>1, <1>2, StartsBefore
<1>4. s < t /\ t < u /\ u \in Nat
  <2>1. t < Start(rows, threshold, (b + 1) + 1) /\ s < t
    BY <1>1, <1>2, StartsAscend
  <2>2. b + 2 \in Nat
    BY <1>2
  <2>3. u \in Nat
    BY <1>1, <2>2, StartsAscend
  <2> QED
    BY <1>2, <2>1, <2>3
<1> HIDE DEF n, s, t, u
<1>5. s \in 1..n - 2 /\ t \in 2..n - 1 /\ s..t - 1 \subseteq 1..n - 2
  BY <1>1, <1>3, <1>4
<1>6. /\ t..(IF u < n THEN u ELSE n) - 1 \subseteq 2..n - 1
      /\ t \in t..(IF u < n THEN u ELSE n) - 1
  BY <1>1, <1>3, <1>4
<1> QED
  BY <1>4, <1>5, <1>6 DEF Bucket, NextBucket, n, s, t, u

LEMMA BucketsFit ==
  ASSUME NEW rows, NEW threshold, Thinned(rows, threshold), NEW b \in 0..threshold - 3
  PROVE  /\ Start(rows, threshold, b) \in 1..Len(rows) - 2
         /\ Start(rows, threshold, b + 1) \in 2..Len(rows) - 1
         /\ Start(rows, threshold, b) < Start(rows, threshold, b + 1)
         /\ Bucket(rows, threshold, b) \subseteq 1..Len(rows) - 2
         /\ NextBucket(rows, threshold, b) \subseteq 2..Len(rows) - 1
         /\ NextBucket(rows, threshold, b) # {}
<1>1. Oversized(rows, threshold)
  BY DEF Thinned, Oversized, IsSeries
<1> QED
  BY <1>1, BucketsAreInside

\* PickRow() without gaps.
LEMMA PickForm ==
  ASSUME NEW rows, NEW threshold, Thinned(rows, threshold), NEW b \in 0..threshold - 3,
         NEW a \in 0..Len(rows) - 1
  PROVE  PickRow(rows, threshold, b, a) =
           Largest(rows, Bucket(rows, threshold, b), NextBucket(rows, threshold, b), a)
<1> DEFINE bucket == Bucket(rows, threshold, b)
           next == NextBucket(rows, threshold, b)
           live == {j \in next : ~IsGap(rows[j + 1])}
           gaps == {j \in bucket : IsGap(rows[j + 1])}
           start(i) == (i * (Len(rows) - 2)) \div (threshold - 2) + 1
           nextEnd == IF start(b + 2) < Len(rows) THEN start(b + 2) ELSE Len(rows)
<1>1. \A k \in 0..Len(rows) - 1 : ~IsGap(rows[k + 1])
  <2>1. \A k \in 0..Len(rows) - 1 : k + 1 \in 1..Len(rows) /\ DOMAIN rows = 1..Len(rows)
    BY DEF Thinned, IsSeries
  <2> QED
    BY <2>1 DEF Thinned, NoGaps
<1>2. /\ bucket \subseteq 0..Len(rows) - 1 /\ next \subseteq 0..Len(rows) - 1 /\ next # {}
  <2>1. 1..Len(rows) - 2 \subseteq 0..Len(rows) - 1 /\ 2..Len(rows) - 1 \subseteq 0..Len(rows) - 1
    BY DEF Thinned, IsSeries
  <2> QED
    BY <2>1, BucketsFit
<1>3. PickRow(rows, threshold, b, a) =
        IF live = {} THEN (start(b + 1) + nextEnd - 1) \div 2
        ELSE IF gaps # {} THEN CHOOSE j \in gaps : \A k \in gaps : j <= k
        ELSE Largest(rows, bucket, live, a)
  BY ZenonT(30) DEF PickRow, Bucket, NextBucket, Start, Largest, IsLargest, CornerArea
<1> HIDE DEF bucket, next
<1>4. live = next /\ gaps = {}
  BY <1>1, <1>2
<1> HIDE DEF live, gaps, start, nextEnd
<1>5. PickRow(rows, threshold, b, a) = Largest(rows, bucket, next, a)
  BY <1>2, <1>3, <1>4, ZenonT(30)
<1> QED
  BY <1>5 DEF bucket, next

\* What a bucket contributes is its row with the largest area.
LEMMA PickIsLargest ==
  ASSUME NEW rows, NEW threshold, Thinned(rows, threshold), NEW b \in 0..threshold - 3,
         NEW a \in 0..Len(rows) - 1
  PROVE  LET bucket == Bucket(rows, threshold, b)
             next == NextBucket(rows, threshold, b)
             j == PickRow(rows, threshold, b, a)
         IN /\ j \in bucket
            /\ \A k \in bucket : CornerArea(rows, next, a, k) <= CornerArea(rows, next, a, j)
<1> DEFINE bucket == Bucket(rows, threshold, b)
           next == NextBucket(rows, threshold, b)
           s == Start(rows, threshold, b)
           t == Start(rows, threshold, b + 1)
           f == [k \in bucket |-> CornerArea(rows, next, a, k)]
<1>1. /\ rows \in Seq(ChartRow) /\ Len(rows) \in Nat
      /\ bucket \subseteq 0..Len(rows) - 1 /\ next \in SUBSET (0..Len(rows) - 1) /\ next # {}
      /\ s \in Int /\ t \in Int /\ s < t
  <2>1. 1..Len(rows) - 2 \subseteq 0..Len(rows) - 1 /\ 2..Len(rows) - 1 \subseteq 0..Len(rows) - 1
    BY DEF Thinned, IsSeries
  <2>2. rows \in Seq(ChartRow) /\ Len(rows) \in Nat
    BY DEF Thinned, IsSeries
  <2> QED
    BY <2>1, <2>2, BucketsFit
<1>2. \A k \in bucket : CornerArea(rows, next, a, k) \in Nat
  <2> HIDE DEF bucket, next
  <2> QED
    BY <1>1, AreaIsNat
<1>3. bucket = s..s + (t - 1 - s) /\ t - 1 - s \in Nat
  BY <1>1 DEF Bucket
<1>4. \E j \in bucket : \A k \in bucket : f[k] < f[j] \/ (f[k] = f[j] /\ j <= k)
  <2>1. \A k \in bucket : f[k] \in Nat
    BY <1>2
  <2> HIDE DEF f, bucket, s, t
  <2> QED
    BY <1>1, <1>3, <2>1, LargestExists
<1>5. \E j \in bucket : IsLargest(rows, bucket, next, a, j)
  <2> HIDE DEF bucket, next
  <2> QED
    BY <1>4, ZenonT(30) DEF IsLargest
<1> DEFINE j == PickRow(rows, threshold, b, a)
<1>6. j = Largest(rows, bucket, next, a)
  BY PickForm, ZenonT(30)
<1> HIDE DEF bucket, next, j
<1>7. j \in bucket /\ IsLargest(rows, bucket, next, a, j)
  BY <1>5, <1>6, ZenonT(30) DEF Largest
<1>8. \A k \in bucket : CornerArea(rows, next, a, k) <= CornerArea(rows, next, a, j)
  BY <1>2, <1>7 DEF IsLargest
<1> QED
  BY <1>7, <1>8, ZenonT(30) DEF bucket, next, j

\* The rows of the first buckets, one picked after another.
PickedUpTo(rows, threshold, f, d) ==
    f = [i \in 0..d |-> IF i = 0 THEN 0 ELSE PickRow(rows, threshold, i - 1, f[i - 1])]

LEMMA PickedExists ==
  ASSUME NEW rows, NEW threshold, NEW d \in Nat
  PROVE  \E f : PickedUpTo(rows, threshold, f, d)
<1> DEFINE PickNext(f, i) == IF i = 0 THEN 0 ELSE PickRow(rows, threshold, i - 1, f[i - 1])
           Goes(f, k) == PickedUpTo(rows, threshold, f, k)
           T == {k \in 0..d : \E f : Goes(f, k)}
<1>1. 0 \in T
  <2>1. ASSUME NEW i \in 0..0 PROVE PickNext([j \in 0..0 |-> 0], i) = 0
    OBVIOUS
  <2>2. Goes([i \in 0..0 |-> 0], 0)
    BY <2>1, ZenonT(30) DEF PickedUpTo
  <2>3. 0 \in 0..d
    OBVIOUS
  <2> QED
    BY <2>2, <2>3, ZenonT(30)
<1>2. ASSUME NEW k \in 1..d, k - 1 \in T PROVE k \in T
  <2>1. PICK f : Goes(f, k - 1)
    BY <1>2
  <2> DEFINE g == [i \in 0..k |-> PickNext(f, i)]
  <2>2. ASSUME NEW i \in 0..k PROVE PickNext(g, i) = PickNext(f, i)
    <3>1. CASE i = 0
      BY <3>1, ZenonT(30)
    <3>2. CASE i # 0
      <4>1. i - 1 \in 0..k - 1 /\ i - 1 \in 0..k
        BY <3>2
      <4>2. f[i - 1] = PickNext(f, i - 1)
        BY <2>1, <4>1, ZenonT(30) DEF PickedUpTo
      <4>3. g[i - 1] = f[i - 1]
        BY <4>1, <4>2, ZenonT(30)
      <4> HIDE DEF g
      <4> QED
        BY <4>3, ZenonT(30)
    <3> QED
      BY <3>1, <3>2
  <2>3. Goes(g, k)
    BY <2>2, ZenonT(30) DEF PickedUpTo
  <2>4. k \in 0..d
    OBVIOUS
  <2> QED
    BY <2>3, <2>4, ZenonT(30)
<1> HIDE DEF T
<1>3. d \in T
  <2>1. d \in 0..d
    OBVIOUS
  <2> QED
    BY <1>1, <1>2, <2>1, UpTo, ZenonT(30)
<1> QED
  BY <1>3, ZenonT(30) DEF T

\* The rows a sample is made of.
Sampled(rows, threshold, picked) ==
    /\ picked[0] = 0
    /\ \A i \in 1..threshold - 2 :
         /\ picked[i] \in Bucket(rows, threshold, i - 1)
         /\ \A k \in Bucket(rows, threshold, i - 1) :
              CornerArea(rows, NextBucket(rows, threshold, i - 1), picked[i - 1], k)
                <= CornerArea(rows, NextBucket(rows, threshold, i - 1), picked[i - 1], picked[i])

LEMMA SampleForm ==
  ASSUME NEW rows, NEW threshold, Thinned(rows, threshold)
  PROVE  \E picked : /\ Sampled(rows, threshold, picked)
                     /\ SampledIndices(rows, threshold) =
                          [i \in 1..threshold - 1 |-> picked[i - 1]] \o <<Len(rows) - 1>>
<1> DEFINE d == threshold - 2
           Goes(f) == PickedUpTo(rows, threshold, f, d)
           picked == CHOOSE f : Goes(f)
<1>1. /\ threshold \in Nat /\ threshold >= 3 /\ threshold < Len(rows) /\ Len(rows) \in Nat
      /\ d \in Nat
  BY DEF Thinned, IsSeries
<1>2. \E f : Goes(f)
  BY <1>1, PickedExists, ZenonT(30)
<1>3. SampledIndices(rows, threshold) =
        IF threshold <= 2 \/ Len(rows) <= threshold
          THEN [i \in 1..Len(rows) |-> i - 1]
          ELSE [i \in 1..threshold - 1 |-> picked[i - 1]] \o <<Len(rows) - 1>>
  BY ZenonT(30) DEF SampledIndices, PickedUpTo
<1>4. Goes(picked)
  BY <1>2, ZenonT(30)
<1> HIDE DEF picked
<1>5. ~ (threshold <= 2 \/ Len(rows) <= threshold)
  BY <1>1
<1>6. SampledIndices(rows, threshold) = [i \in 1..threshold - 1 |-> picked[i - 1]] \o <<Len(rows) - 1>>
  BY <1>3, <1>5, ZenonT(30)
<1>7. picked[0] = 0
  <2>1. 0 \in 0..d
    BY <1>1
  <2> QED
    BY <1>4, <2>1, ZenonT(30) DEF PickedUpTo
<1>8. ASSUME NEW i \in 1..d PROVE picked[i] = PickRow(rows, threshold, i - 1, picked[i - 1])
  <2>1. i \in 0..d /\ i # 0
    BY <1>1
  <2> QED
    BY <1>4, <2>1, ZenonT(30) DEF PickedUpTo
<1> DEFINE T == {k \in 0..d : picked[k] \in 0..Len(rows) - 2}
<1>9. 0 \in T
  BY <1>1, <1>7
<1>10. ASSUME NEW i \in 1..d, i - 1 \in T PROVE i \in T
  <2>1. i - 1 \in 0..threshold - 3 /\ i \in 0..d /\ picked[i - 1] \in 0..Len(rows) - 1
    BY <1>1, <1>10
  <2>2. PickRow(rows, threshold, i - 1, picked[i - 1]) \in Bucket(rows, threshold, i - 1)
    BY <2>1, PickIsLargest, ZenonT(30)
  <2>3. Bucket(rows, threshold, i - 1) \subseteq 1..Len(rows) - 2
    BY <2>1, BucketsFit
  <2>4. picked[i] \in 1..Len(rows) - 2
    BY <1>8, <2>2, <2>3
  <2> QED
    BY <2>1, <2>4
<1> HIDE DEF T
<1>11. \A i \in 0..d : i \in T
  BY <1>1, <1>9, <1>10, UpTo, ZenonT(30)
<1>12. ASSUME NEW i \in 1..d
       PROVE  /\ picked[i] \in Bucket(rows, threshold, i - 1)
              /\ \A k \in Bucket(rows, threshold, i - 1) :
                   CornerArea(rows, NextBucket(rows, threshold, i - 1), picked[i - 1], k)
                     <= CornerArea(rows, NextBucket(rows, threshold, i - 1), picked[i - 1], picked[i])
  <2>1. i - 1 \in 0..d /\ i - 1 \in 0..threshold - 3
    BY <1>1
  <2>2. picked[i - 1] \in 0..Len(rows) - 1
    BY <1>1, <1>11, <2>1 DEF T
  <2> QED
    BY <1>8, <2>1, <2>2, PickIsLargest, ZenonT(30)
<1>13. Sampled(rows, threshold, picked)
  BY <1>7, <1>12, ZenonT(30) DEF Sampled
<1> QED
  BY <1>6, <1>13

\* Time goes on from any row to any later one.
LEMMA LaterRows ==
  ASSUME NEW rows, IsSeries(rows), NEW j \in 1..Len(rows), NEW k \in 1..Len(rows), j < k
  PROVE  rows[j].bucket < rows[k].bucket
<1>1. rows \in Seq(ChartRow) /\ Len(rows) \in Nat
  BY DEF IsSeries
<1>2. \A i \in 1..Len(rows) : rows[i].bucket \in Int
  BY <1>1, RowFields
<1>3. \A i \in 2..Len(rows) : rows[i - 1].bucket < rows[i].bucket
  BY DEF IsSeries, Ascending
<1> DEFINE n == k - (j + 1)
           T == {i \in 0..n : rows[j].bucket < rows[j + 1 + i].bucket}
<1>4. n \in Nat
  BY <1>1
<1>5. 0 \in T
  <2>1. j + 1 \in 2..Len(rows) /\ (j + 1) - 1 = j /\ j + 1 + 0 = j + 1
    BY <1>1
  <2>2. rows[j].bucket < rows[j + 1].bucket
    BY <1>3, <2>1
  <2> QED
    BY <1>4, <2>1, <2>2
<1>6. ASSUME NEW i \in 1..n, i - 1 \in T PROVE i \in T
  <2>1. j + 1 + i \in 2..Len(rows) /\ j + 1 + (i - 1) = (j + 1 + i) - 1
        /\ (j + 1 + i) - 1 \in 1..Len(rows) /\ j + 1 + i \in 1..Len(rows) /\ i \in 0..n
    BY <1>1
  <2>2. rows[(j + 1 + i) - 1].bucket < rows[j + 1 + i].bucket
    BY <1>3, <2>1
  <2>3. rows[j].bucket < rows[(j + 1 + i) - 1].bucket
    BY <1>6, <2>1
  <2>4. rows[j].bucket \in Int /\ rows[(j + 1 + i) - 1].bucket \in Int /\ rows[j + 1 + i].bucket \in Int
    BY <1>2, <2>1
  <2> QED
    BY <2>1, <2>2, <2>3, <2>4
<1> HIDE DEF T
<1>7. n \in T
  <2>1. n \in 0..n
    BY <1>4
  <2> HIDE DEF n
  <2> QED
    BY <1>4, <1>5, <1>6, <2>1, UpTo, ZenonT(30)
<1>8. j + 1 + n = k
  BY <1>1
<1> QED
  BY <1>7, <1>8 DEF T

\* A row that stands out of a flat line, not at an end.
IsSpike(rows, i) ==
    i \in 2..Len(rows) - 1 /\ rows[i].value > 0 /\ \A j \in DOMAIN rows \ {i} : rows[j].value = 0

\* The indices of the rows kept: each in its bucket, the ends beside them.
LEMMA KeptAscend ==
  ASSUME NEW rows, NEW threshold, Thinned(rows, threshold), NEW picked, Sampled(rows, threshold, picked)
  PROVE  /\ \A i \in 0..threshold - 2 : picked[i] \in 0..Len(rows) - 2
         /\ \A i \in 1..threshold - 2 : picked[i - 1] < Start(rows, threshold, i - 1)
         /\ \A i \in 1..threshold - 2 : picked[i - 1] < picked[i]
<1> DEFINE st(b) == Start(rows, threshold, b)
           d == threshold - 2
<1>1. threshold \in Nat /\ threshold >= 3 /\ threshold < Len(rows) /\ Len(rows) \in Nat /\ d \in Nat
  BY DEF Thinned, IsSeries
<1>2. st(0) = 1
  BY <1>1, StartsAscend
<1>3. ASSUME NEW i \in 1..d
      PROVE  /\ picked[i] \in st(i - 1)..st(i) - 1 /\ picked[i] \in 1..Len(rows) - 2
             /\ st(i - 1) \in Int /\ st(i) \in Int
  <2>1. i - 1 \in 0..threshold - 3 /\ (i - 1) + 1 = i
    BY <1>1
  <2>2. picked[i] \in Bucket(rows, threshold, i - 1)
    BY DEF Sampled
  <2>3. picked[i] \in 1..Len(rows) - 2 /\ st(i - 1) \in Int /\ st(i) \in Int
    BY <2>1, <2>2, BucketsFit
  <2> QED
    BY <2>1, <2>2, <2>3 DEF Bucket
<1>4. picked[0] = 0
  BY DEF Sampled
<1> HIDE DEF st, d
<1>5. ASSUME NEW i \in 1..d PROVE picked[i - 1] < st(i - 1)
  <2>1. CASE i = 1
    <3>1. i - 1 = 0
      BY <2>1
    <3> QED
      BY <1>2, <1>4, <3>1
  <2>2. CASE i # 1
    <3>1. i - 1 \in 1..d
      BY <1>1, <2>2
    <3> QED
      BY <1>3, <3>1
  <2> QED
    BY <2>1, <2>2
<1>6. ASSUME NEW i \in 0..d PROVE picked[i] \in 0..Len(rows) - 2
  <2>1. CASE i = 0
    BY <1>1, <1>4, <2>1
  <2>2. CASE i # 0
    <3>1. i \in 1..d
      BY <1>1, <2>2
    <3>2. picked[i] \in 1..Len(rows) - 2
      BY <1>3, <3>1
    <3> QED
      BY <1>1, <3>2
  <2> QED
    BY <2>1, <2>2
<1>7. ASSUME NEW i \in 1..d PROVE picked[i - 1] < picked[i]
  <2>1. i - 1 \in 0..d
    BY <1>1
  <2>2. picked[i - 1] \in Int /\ picked[i] \in Int
    BY <1>3, <1>6, <2>1
  <2> QED
    BY <1>3, <1>5, <2>2
<1> QED
  BY <1>5, <1>6, <1>7 DEF st, d

LEMMA TimesPositive ==
  ASSUME NEW p \in Nat, NEW q \in Nat, p > 0, q > 0
  PROVE  p * q \in Nat /\ p * q > 0
BY SMTT(30)

\* A spike has the largest area of its bucket, for the corners beside it lie on the line.
LEMMA SpikeStandsOut ==
  ASSUME NEW rows, NEW threshold, Thinned(rows, threshold), NEW i, IsSpike(rows, i),
         NEW b \in 0..threshold - 3, i - 1 \in Bucket(rows, threshold, b),
         NEW a \in 0..Len(rows) - 1, a < Start(rows, threshold, b),
         NEW j \in Bucket(rows, threshold, b), j # i - 1
  PROVE  CornerArea(rows, NextBucket(rows, threshold, b), a, j)
           < CornerArea(rows, NextBucket(rows, threshold, b), a, i - 1)
<1> DEFINE next == NextBucket(rows, threshold, b)
           s == Start(rows, threshold, b)
           t == Start(rows, threshold, b + 1)
           n == Len(rows)
           count == Cardinality(next)
           cx == FoldFunction(+, 0, [k \in next |-> rows[k + 1].bucket])
           cy == FoldFunction(+, 0, [k \in next |-> rows[k + 1].value])
           at == rows[a + 1]
<1>1. /\ IsSeries(rows) /\ rows \in Seq(ChartRow) /\ n \in Nat /\ DOMAIN rows = 1..n
      /\ i \in 2..n - 1 /\ rows[i].value > 0
  BY DEF Thinned, IsSeries, IsSpike
<1>2. \A k \in 1..n : k # i => rows[k].value = 0
  BY <1>1 DEF IsSpike
<1>3. /\ s \in 1..n - 2 /\ t \in 2..n - 1 /\ s < t
      /\ next \subseteq 2..n - 1 /\ next # {}
      /\ \A k \in next : t <= k
  <2>1. \A k \in next : t <= k
    BY DEF NextBucket
  <2> QED
    BY <2>1, BucketsFit
<1>4. i - 1 \in s..t - 1 /\ j \in s..t - 1
  BY DEF Bucket
<1>5. next \in SUBSET (0..n - 1) /\ j \in 0..n - 1 /\ i - 1 \in 0..n - 1 /\ a \in 0..n - 1 /\ a < s
  <2> HIDE DEF next, s, t, n
  <2>1. 2..n - 1 \subseteq 0..n - 1 /\ j \in 0..n - 1 /\ i - 1 \in 0..n - 1
    <3>1. 2..n - 1 \subseteq 0..n - 1
      BY <1>1, SMTT(30)
    <3>2. s..t - 1 \subseteq 0..n - 1
      BY <1>1, <1>3, SMTT(30)
    <3> QED
      BY <1>4, <3>1, <3>2
  <2> QED
    BY <1>3, <2>1 DEF n, s
<1> HIDE DEF next, s, t
<1>6. /\ count \in Nat \ {0} /\ cx \in Int /\ cy \in Int
      /\ (\A k \in next : at.bucket < rows[k + 1].bucket) => count * at.bucket < cx
      /\ (\A k \in next : rows[k + 1].value = 0) => cy = 0
  BY <1>1, <1>3, <1>5, Corner
<1>7. ASSUME NEW k \in next
      PROVE  at.bucket < rows[k + 1].bucket /\ rows[k + 1].value = 0
  <2>1. k \in 2..n - 1 /\ t <= k
    BY <1>3
  <2>2. k + 1 \in 1..n /\ a + 1 \in 1..n /\ a + 1 < k + 1 /\ k + 1 # i
    BY <1>1, <1>3, <1>4, <1>5, <2>1
  <2>3. at.bucket < rows[k + 1].bucket
    BY <1>1, <2>2, LaterRows
  <2>4. rows[k + 1].value = 0
    BY <1>2, <2>2
  <2> QED
    BY <2>3, <2>4
<1>8. at.value = 0 /\ rows[j + 1].value = 0 /\ ~IsGap(at)
  <2>1. a + 1 \in 1..n /\ a + 1 # i /\ j + 1 \in 1..n /\ j + 1 # i
    BY <1>1, <1>3, <1>4, <1>5
  <2>2. at.value = 0 /\ rows[j + 1].value = 0
    BY <1>2, <2>1
  <2> QED
    BY <2>2 DEF IsGap, Gap
<1>9. /\ at.bucket \in Int /\ rows[j + 1].bucket \in Int
      /\ rows[i].bucket \in Int /\ rows[i].value \in Int /\ rows[i].value > 0
      /\ (i - 1) + 1 = i
  <2>1. a + 1 \in 1..n /\ j + 1 \in 1..n /\ i \in 1..n
    BY <1>1, <1>5
  <2> QED
    BY <1>1, <2>1, RowFields
<1> DEFINE ar(k) == CornerArea(rows, next, a, k)
           area(x, y) == Area2(count * at.bucket, count * at.value, cx, cy, count * x, count * y)
<1>10. \A k : ar(k) = area(rows[k + 1].bucket, rows[k + 1].value)
  BY <1>8, ZenonT(30) DEF CornerArea
<1>11. ar(j) = area(rows[j + 1].bucket, 0) /\ ar(i - 1) = area(rows[i].bucket, rows[i].value)
  BY <1>8, <1>9, <1>10, ZenonT(30)
<1>12. count * at.bucket < cx /\ cy = 0
  BY <1>6, <1>7
<1> HIDE DEF cx, cy, count, at
<1>13. count * at.bucket \in Int /\ count * at.value = 0 /\ count \in Nat \ {0} /\ cx \in Int
  BY <1>6, <1>8, <1>9
<1>14. ASSUME NEW x \in Int, NEW y \in Int
       PROVE  area(x, y) = IF y >= 0 THEN (cx - count * at.bucket) * (count * y)
                           ELSE -((cx - count * at.bucket) * (count * y))
  <2> DEFINE w == cx - count * at.bucket
             v == count * y
             u == count * at.bucket
             z == count * x
  <2>1. w \in Nat \ {0} /\ v \in Int /\ u \in Int /\ z \in Int /\ u - cx = -w
    BY <1>12, <1>13
  <2>2. area(x, y) = Area2(u, 0, cx, 0, z, v)
    BY <1>12, <1>13, ZenonT(30)
  <2>3. v >= 0 <=> y >= 0
    BY <1>13
  <2> HIDE DEF w, v, u, z
  <2>4. (u - cx) * (v - 0) - (u - z) * (0 - 0) = -(w * v)
    <3>1. (u - z) * (0 - 0) = 0 /\ (u - cx) * (v - 0) = (-w) * v
      BY <1>13, <2>1
    <3>2. (-w) * v = -(w * v) /\ w * v \in Int
      BY <2>1
    <3> QED
      BY <3>1, <3>2
  <2>5. w * v \in Int /\ (w * v > 0 <=> v > 0) /\ (w * v = 0 <=> v = 0)
    BY <2>1
  <2>6. area(x, y) = IF -(w * v) < 0 THEN w * v ELSE -(w * v)
    <3>1. Area2(u, 0, cx, 0, z, v) = IF -(w * v) < 0 THEN -(-(w * v)) ELSE -(w * v)
      BY <2>4, ZenonT(30) DEF Area2
    <3> HIDE DEF area
    <3> QED
      BY <2>2, <2>5, <3>1
  <2> HIDE DEF area
  <2>7. area(x, y) = IF y >= 0 THEN w * v ELSE -(w * v)
    BY <2>1, <2>3, <2>5, <2>6
  <2> QED
    BY <2>7 DEF w, v
<1> HIDE DEF ar, area
<1>15. ar(j) = (cx - count * at.bucket) * (count * 0)
  BY <1>9, <1>11, <1>14
<1>16. ar(i - 1) = (cx - count * at.bucket) * (count * rows[i].value)
  BY <1>9, <1>11, <1>14
<1>17. cx - count * at.bucket \in Nat \ {0}
  BY <1>12, <1>13
<1>18. ar(j) < ar(i - 1)
  <2> DEFINE w == cx - count * at.bucket
             v == rows[i].value
  <2>1. w \in Nat \ {0} /\ v \in Nat \ {0}
    BY <1>9, <1>17
  <2>2. ar(j) = w * (count * 0) /\ ar(i - 1) = w * (count * v)
    BY <1>15, <1>16
  <2> HIDE DEF w, v
  <2>3. count * 0 = 0 /\ w * 0 = 0 /\ count * v > 0 /\ count * v \in Nat
    BY <1>13, <2>1, TimesPositive
  <2>4. w * (count * v) > 0
    BY <2>1, <2>3, TimesPositive
  <2> QED
    BY <2>2, <2>3, <2>4
<1> QED
  BY <1>18 DEF ar, next

\* telemetry_repository.py:115, "downsampling that preserves peaks/valleys": thinned to whatever
\* number of rows, three or more, a series without gaps keeps its ends and its order, has that
\* number of rows, and still shows a single spike.
THEOREM ThinningKeepsTheShape ==
  ASSUME NEW rows, IsSeries(rows), NoGaps(rows), NEW threshold \in Nat, threshold >= 3
  PROVE  LET sample == Lttb(rows, threshold) IN
         /\ Len(sample) = IF Len(rows) <= threshold THEN Len(rows) ELSE threshold
         /\ sample[1] = rows[1] /\ Last(sample) = Last(rows)
         /\ Ascending(sample)
         /\ \A i : IsSpike(rows, i) => rows[i] \in Range(sample)
<1> DEFINE n == Len(rows)
           sample == Lttb(rows, threshold)
           kept == SampledIndices(rows, threshold)
<1>1. n \in Nat \ {0} /\ rows \in Seq(ChartRow) /\ rows = [i \in 1..n |-> rows[i]]
  BY EmptySeq DEF IsSeries
<1>2. sample = [i \in DOMAIN kept |-> rows[kept[i] + 1]]
  BY ZenonT(30) DEF Lttb
<1>3. CASE n <= threshold
  <2>1. kept = [i \in 1..n |-> i - 1]
    BY <1>3, ZenonT(30) DEF SampledIndices
  <2>2. DOMAIN kept = 1..n /\ \A i \in 1..n : kept[i] + 1 = i
    BY <1>1, <2>1
  <2> HIDE DEF kept
  <2>3. sample = [i \in 1..n |-> rows[i]]
    BY <1>2, <2>2, ZenonT(30)
  <2>4. sample = rows
    BY <1>1, <2>3, ZenonT(30)
  <2> HIDE DEF sample
  <2>5. \A i : IsSpike(rows, i) => rows[i] \in Range(rows)
    BY <1>1 DEF IsSpike, Range
  <2>6. Ascending(rows)
    BY DEF IsSeries
  <2> QED
    BY <1>3, <2>4, <2>5, <2>6 DEF sample
<1>4. CASE ~ (n <= threshold)
  <2>0. threshold < n
    BY <1>1, <1>4
  <2>1. Thinned(rows, threshold)
    BY <2>0 DEF Thinned
  <2>2. PICK picked : /\ Sampled(rows, threshold, picked)
                      /\ kept = [i \in 1..threshold - 1 |-> picked[i - 1]] \o <<n - 1>>
    BY <2>1, SampleForm
  <2>3. /\ \A i \in 0..threshold - 2 : picked[i] \in 0..n - 2
        /\ \A i \in 1..threshold - 2 : picked[i - 1] < Start(rows, threshold, i - 1)
        /\ \A i \in 1..threshold - 2 : picked[i - 1] < picked[i]
        /\ picked[0] = 0
    BY <2>1, <2>2, KeptAscend DEF Sampled
  <2>4. /\ DOMAIN kept = 1..threshold
        /\ \A i \in 1..threshold - 1 : kept[i] = picked[i - 1]
        /\ kept[threshold] = n - 1
    <3> DEFINE head == [i \in 1..threshold - 1 |-> picked[i - 1]]
    <3>1. \A i \in 1..threshold - 1 : picked[i - 1] \in Int
      <4> SUFFICES ASSUME NEW i \in 1..threshold - 1 PROVE picked[i - 1] \in Int
        OBVIOUS
      <4>1. i - 1 \in 0..threshold - 2
        OBVIOUS
      <4> QED
        BY <1>1, <2>3, <4>1
    <3>2. head \in Seq(Int) /\ Len(head) = threshold - 1 /\ \A i \in 1..threshold - 1 : head[i] = picked[i - 1]
      BY <3>1
    <3> HIDE DEF head, kept
    <3>3. kept = head \o <<n - 1>>
      BY <2>2 DEF head
    <3> QED
      BY <1>1, <3>2, <3>3
  <2> HIDE DEF kept
  <2>5. /\ \A i \in 1..threshold : kept[i] \in 0..n - 1
        /\ \A i \in 2..threshold : kept[i - 1] < kept[i]
        /\ kept[1] = 0
    <3>1. ASSUME NEW i \in 1..threshold PROVE kept[i] \in 0..n - 1
      <4>1. CASE i = threshold
        BY <1>1, <2>4, <4>1
      <4>2. CASE i # threshold
        <5>1. i \in 1..threshold - 1 /\ i - 1 \in 0..threshold - 2
          BY <4>2
        <5>2. kept[i] \in 0..n - 2
          BY <2>3, <2>4, <5>1
        <5> QED
          BY <1>1, <5>2
      <4> QED
        BY <4>1, <4>2
    <3>2. ASSUME NEW i \in 2..threshold PROVE kept[i - 1] < kept[i]
      <4>1. i - 1 \in 1..threshold - 1 /\ (i - 1) - 1 \in 0..threshold - 2
        OBVIOUS
      <4>2. kept[i - 1] = picked[(i - 1) - 1] /\ picked[(i - 1) - 1] \in 0..n - 2
        BY <2>3, <2>4, <4>1
      <4>3. CASE i = threshold
        BY <1>1, <2>4, <4>2, <4>3
      <4>4. CASE i # threshold
        <5>1. i \in 1..threshold - 1 /\ i - 1 \in 1..threshold - 2
          BY <4>4
        <5> QED
          BY <2>3, <2>4, <4>2, <5>1
      <4> QED
        BY <4>3, <4>4
    <3>3. kept[1] = 0
      <4>1. 1 \in 1..threshold - 1 /\ 1 - 1 = 0
        OBVIOUS
      <4> QED
        BY <2>3, <2>4, <4>1
    <3> QED
      BY <3>1, <3>2, <3>3
  <2>6. /\ DOMAIN sample = 1..threshold /\ sample \in Seq(ChartRow) /\ Len(sample) = threshold
        /\ \A i \in 1..threshold : sample[i] = rows[kept[i] + 1] /\ kept[i] + 1 \in 1..n
    <3>1. sample = [i \in 1..threshold |-> rows[kept[i] + 1]]
      BY <1>2, <2>4, ZenonT(30)
    <3>2. \A i \in 1..threshold : kept[i] + 1 \in 1..n /\ rows[kept[i] + 1] \in ChartRow
      BY <1>1, <2>5, RowFields
    <3> HIDE DEF sample
    <3> QED
      BY <3>1, <3>2
  <2> HIDE DEF sample
  <2>7. sample[1] = rows[1] /\ Last(sample) = Last(rows)
    <3>1. 1 \in 1..threshold /\ threshold \in 1..threshold /\ 0 + 1 = 1 /\ n - 1 + 1 = n
      BY <1>1
    <3>2. sample[1] = rows[1] /\ sample[threshold] = rows[n]
      <4>1. sample[1] = rows[kept[1] + 1] /\ sample[threshold] = rows[kept[threshold] + 1]
        BY <2>6, <3>1
      <4>2. kept[1] + 1 = 1 /\ kept[threshold] + 1 = n
        BY <1>1, <2>4, <2>5
      <4> QED
        BY <4>1, <4>2
    <3> QED
      BY <2>6, <3>2, ZenonT(30) DEF Last
  <2>8. Ascending(sample)
    <3>1. ASSUME NEW i \in 2..threshold PROVE sample[i - 1].bucket < sample[i].bucket
      <4>1. i - 1 \in 1..threshold /\ i \in 1..threshold
        OBVIOUS
      <4>2. kept[i - 1] + 1 \in 1..n /\ kept[i] + 1 \in 1..n /\ kept[i - 1] + 1 < kept[i] + 1
        BY <2>5, <2>6, <4>1
      <4>3. rows[kept[i - 1] + 1].bucket < rows[kept[i] + 1].bucket
        BY <4>2, LaterRows
      <4> QED
        BY <2>6, <4>1, <4>3
    <3> QED
      BY <2>6, <3>1 DEF Ascending
  <2>9. ASSUME NEW i, IsSpike(rows, i) PROVE rows[i] \in Range(sample)
    <3>1. i \in 2..n - 1 /\ i - 1 \in 1..n - 2 /\ (i - 1) + 1 = i
      BY <1>1, <2>9 DEF IsSpike
    <3>2. PICK b \in 0..threshold - 3 : i - 1 \in Bucket(rows, threshold, b)
      BY <1>1, <2>0, <3>1, BucketOfRow
    <3>3. b + 1 \in 1..threshold - 2 /\ (b + 1) - 1 = b /\ b \in 0..threshold - 2
          /\ b + 2 \in 1..threshold - 1 /\ (b + 2) - 1 = b + 1 /\ b + 2 \in 1..threshold
      BY <3>2
    <3> DEFINE a == picked[b]
               j == picked[b + 1]
    <3>4. a \in 0..n - 1 /\ a < Start(rows, threshold, b)
      <4>1. a \in 0..n - 2 /\ a < Start(rows, threshold, b)
        BY <2>3, <3>3
      <4> QED
        BY <1>1, <4>1
    <3>5. /\ j \in Bucket(rows, threshold, b)
          /\ \A k \in Bucket(rows, threshold, b) :
               CornerArea(rows, NextBucket(rows, threshold, b), a, k)
                 <= CornerArea(rows, NextBucket(rows, threshold, b), a, j)
      BY <2>2, <3>3, ZenonT(30) DEF Sampled
    <3> HIDE DEF a, j
    <3>6. j = i - 1
      <4> SUFFICES ASSUME j # i - 1 PROVE FALSE
        OBVIOUS
      <4> DEFINE p == CornerArea(rows, NextBucket(rows, threshold, b), a, j)
                 q == CornerArea(rows, NextBucket(rows, threshold, b), a, i - 1)
      <4>1. p < q
        BY <2>1, <2>9, <3>2, <3>4, <3>5, SpikeStandsOut
      <4>2. q <= p
        BY <3>2, <3>5
      <4>3. p \in Nat /\ q \in Nat
        <5>1. NextBucket(rows, threshold, b) \in SUBSET (0..n - 1) /\ NextBucket(rows, threshold, b) # {}
              /\ j \in 0..n - 1 /\ i - 1 \in 0..n - 1
          <6>1. 1..n - 2 \subseteq 0..n - 1 /\ 2..n - 1 \subseteq 0..n - 1
            BY <1>1
          <6>2. /\ Bucket(rows, threshold, b) \subseteq 1..n - 2
                /\ NextBucket(rows, threshold, b) \subseteq 2..n - 1
                /\ NextBucket(rows, threshold, b) # {}
            BY <2>1, BucketsFit, ZenonT(30)
          <6> QED
            BY <3>2, <3>5, <6>1, <6>2, ZenonT(30)
        <5> QED
          BY <1>1, <3>4, <5>1, AreaIsNat
      <4> HIDE DEF p, q
      <4> QED
        BY <4>1, <4>2, <4>3
    <3>7. kept[b + 2] = i - 1
      BY <2>4, <3>3, <3>6, ZenonT(30) DEF j
    <3>8. sample[b + 2] = rows[i]
      BY <2>6, <3>1, <3>3, <3>7, ZenonT(30)
    <3> QED
      BY <2>6, <3>3, <3>8, ZenonT(30) DEF Range
  <2> QED
    BY <1>4, <2>6, <2>7, <2>8, <2>9 DEF sample
<1> QED
  BY <1>3, <1>4

\* A series with its markers: each stands alone between rows of data.
LoneGaps(rows) ==
    /\ IsSeries(rows)
    /\ \A i \in DOMAIN rows : IsGap(rows[i]) =>
         i \in 2..Len(rows) - 1 /\ ~IsGap(rows[i - 1]) /\ ~IsGap(rows[i + 1])

\* What bucket b contributes: a marker of its own, data if it has no marker, or the marker that
\* is all of the bucket after it.
Contributes(rows, threshold, b, j) ==
    \/ j \in Bucket(rows, threshold, b) /\ IsGap(rows[j + 1])
    \/ j \in Bucket(rows, threshold, b) /\ \A k \in Bucket(rows, threshold, b) : ~IsGap(rows[k + 1])
    \/ b + 1 <= threshold - 3 /\ Bucket(rows, threshold, b + 1) = {j} /\ IsGap(rows[j + 1])

\* A bucket of markers alone is a single marker, and not the last row.
LEMMA LoneBucket ==
  ASSUME NEW rows, NEW threshold, Oversized(rows, threshold), LoneGaps(rows), NEW b \in 0..threshold - 3,
         \A j \in NextBucket(rows, threshold, b) : IsGap(rows[j + 1])
  PROVE  LET t == Start(rows, threshold, b + 1) IN
         /\ t \in Nat /\ b + 1 <= threshold - 3
         /\ NextBucket(rows, threshold, b) = {t} /\ Bucket(rows, threshold, b + 1) = {t}
         /\ (IF Start(rows, threshold, b + 2) < Len(rows) THEN Start(rows, threshold, b + 2) ELSE Len(rows)) = t + 1
<1> DEFINE n == Len(rows)
           t == Start(rows, threshold, b + 1)
           u == Start(rows, threshold, b + 2)
           e == IF u < n THEN u ELSE n
<1>1. n \in Nat /\ threshold \in Nat /\ threshold >= 3 /\ threshold < n /\ DOMAIN rows = 1..n
  BY DEF Oversized
<1>2. b + 1 \in Nat /\ b + 2 \in Nat /\ (b + 1) + 1 = b + 2
  BY <1>1
<1>3. t < u /\ u \in Nat /\ Start(rows, threshold, threshold - 2) = n - 1
  BY <1>1, <1>2, StartsAscend
<1>4. t \in 2..n - 1 /\ t \in Nat
  <2>1. t \in 2..n - 1
    BY BucketsAreInside
  <2> QED
    BY <1>1, <2>1
<1>5. NextBucket(rows, threshold, b) = t..e - 1 /\ e \in Nat /\ t < e /\ e <= n
  BY <1>1, <1>3, <1>4 DEF NextBucket
<1>6. \A i \in 1..n : IsGap(rows[i]) => i \in 2..n - 1 /\ ~IsGap(rows[i + 1])
  BY <1>1 DEF LoneGaps
<1>7. Bucket(rows, threshold, b + 1) = t..u - 1
  BY <1>2 DEF Bucket
<1> HIDE DEF n, t, u, e
<1>8. IsGap(rows[t + 1]) /\ t + 1 \in 2..n - 1
  <2>1. t \in NextBucket(rows, threshold, b) /\ t + 1 \in 1..n
    BY <1>1, <1>4, <1>5
  <2> QED
    BY <1>6, <2>1
<1>9. e = t + 1
  <2> SUFFICES ASSUME e # t + 1 PROVE FALSE
    OBVIOUS
  <2>1. t + 1 \in NextBucket(rows, threshold, b) /\ t + 1 \in 1..n
    BY <1>1, <1>4, <1>5, <1>8
  <2> QED
    BY <1>6, <1>8, <2>1
<1>10. b + 1 <= threshold - 3
  <2> SUFFICES ASSUME ~ (b + 1 <= threshold - 3) PROVE FALSE
    OBVIOUS
  <2>1. b + 1 = threshold - 2
    BY <1>1
  <2>2. t = n - 1
    BY <1>3, <2>1 DEF t
  <2> QED
    BY <1>1, <1>8, <2>2
<1>11. u = t + 1
  BY <1>1, <1>3, <1>8, <1>9 DEF e
<1>12. t..e - 1 = {t} /\ t..u - 1 = {t}
  BY <1>4, <1>9, <1>11
<1> QED
  BY <1>4, <1>5, <1>7, <1>9, <1>10, <1>12 DEF t, u, e, n

LEMMA PickWithGaps ==
  ASSUME NEW rows, NEW threshold, Oversized(rows, threshold), LoneGaps(rows), NEW b \in 0..threshold - 3,
         NEW a \in 0..Len(rows) - 1
  PROVE  Contributes(rows, threshold, b, PickRow(rows, threshold, b, a))
<1> DEFINE bucket == Bucket(rows, threshold, b)
           next == NextBucket(rows, threshold, b)
           live == {j \in next : ~IsGap(rows[j + 1])}
           gaps == {j \in bucket : IsGap(rows[j + 1])}
           t == Start(rows, threshold, b + 1)
           s == Start(rows, threshold, b)
           nextEnd == IF Start(rows, threshold, b + 2) < Len(rows) THEN Start(rows, threshold, b + 2) ELSE Len(rows)
           j == PickRow(rows, threshold, b, a)
<1>1. j = IF live = {} THEN (t + nextEnd - 1) \div 2
          ELSE IF gaps # {} THEN CHOOSE k \in gaps : \A l \in gaps : k <= l
          ELSE Largest(rows, bucket, live, a)
  BY ZenonT(30) DEF PickRow, Bucket, NextBucket, Start, Largest, IsLargest, CornerArea
<1>2. /\ rows \in Seq(ChartRow) /\ Len(rows) \in Nat
      /\ bucket \subseteq 0..Len(rows) - 1 /\ next \subseteq 0..Len(rows) - 1
      /\ s \in Int /\ t \in Int /\ s < t
  <2>1. 1..Len(rows) - 2 \subseteq 0..Len(rows) - 1 /\ 2..Len(rows) - 1 \subseteq 0..Len(rows) - 1
    BY DEF Oversized
  <2>2. rows \in Seq(ChartRow) /\ Len(rows) \in Nat
    BY DEF Oversized
  <2> QED
    BY <2>1, <2>2, BucketsAreInside
<1>3. bucket = s..s + (t - 1 - s) /\ t - 1 - s \in Nat
  BY <1>2 DEF Bucket
<1>4. CASE live = {}
  <2>1. \A k \in next : IsGap(rows[k + 1])
    BY <1>4
  <2>2. /\ t \in Nat /\ b + 1 <= threshold - 3 /\ next = {t} /\ Bucket(rows, threshold, b + 1) = {t}
        /\ nextEnd = t + 1
    <3> HIDE DEF t, nextEnd
    <3> QED
      BY <2>1, LoneBucket, ZenonT(30) DEF t, nextEnd
  <2> HIDE DEF t, nextEnd, next
  <2>3. j = (t + nextEnd - 1) \div 2
    BY <1>1, <1>4
  <2> HIDE DEF j
  <2>4. j = t
    BY <2>2, <2>3
  <2> QED
    BY <2>1, <2>2, <2>4 DEF Contributes, j
<1>5. CASE live # {} /\ gaps # {}
  <2> DEFINE f == [k \in bucket |-> IF IsGap(rows[k + 1]) THEN 1 ELSE 0]
  <2>1. \A k \in bucket : f[k] \in Nat
    OBVIOUS
  <2>2. \E k \in bucket : \A l \in bucket : f[l] < f[k] \/ (f[l] = f[k] /\ k <= l)
    <3> HIDE DEF f, bucket, s, t
    <3> QED
      BY <1>2, <1>3, <2>1, LargestExists
  <2>3. \E k \in gaps : \A l \in gaps : k <= l
    <3>1. PICK k \in bucket : \A l \in bucket : f[l] < f[k] \/ (f[l] = f[k] /\ k <= l)
      BY <2>2
    <3>2. PICK g \in bucket : IsGap(rows[g + 1])
      BY <1>5
    <3> HIDE DEF bucket, s, t
    <3>3. IsGap(rows[k + 1])
      BY <3>1, <3>2
    <3> QED
      BY <3>1, <3>3
  <2>4. j = CHOOSE k \in gaps : \A l \in gaps : k <= l
    BY <1>1, <1>5
  <2> HIDE DEF j, gaps
  <2>5. j \in gaps
    BY <2>3, <2>4
  <2> QED
    BY <2>5, ZenonT(30) DEF Contributes, j, gaps
<1>6. CASE live # {} /\ gaps = {}
  <2> DEFINE f == [k \in bucket |-> CornerArea(rows, live, a, k)]
  <2>1. \A k \in bucket : CornerArea(rows, live, a, k) \in Nat
    <3>1. live \in SUBSET (0..Len(rows) - 1)
      BY <1>2
    <3> HIDE DEF bucket, live
    <3> QED
      BY <1>2, <1>6, <3>1, AreaIsNat
  <2>2. \E k \in bucket : \A l \in bucket : f[l] < f[k] \/ (f[l] = f[k] /\ k <= l)
    <3>1. \A k \in bucket : f[k] \in Nat
      BY <2>1
    <3> HIDE DEF f, bucket, s, t
    <3> QED
      BY <1>2, <1>3, <3>1, LargestExists
  <2>3. \E k \in bucket : IsLargest(rows, bucket, live, a, k)
    <3> HIDE DEF bucket, live
    <3> QED
      BY <2>2, ZenonT(30) DEF IsLargest
  <2>4. j = Largest(rows, bucket, live, a)
    BY <1>1, <1>6
  <2>5. \A k \in bucket : ~IsGap(rows[k + 1])
    BY <1>6
  <2> HIDE DEF bucket, live, j
  <2>6. j \in bucket
    BY <2>3, <2>4, ZenonT(30) DEF Largest
  <2> QED
    BY <2>5, <2>6, ZenonT(30) DEF Contributes, bucket, j
<1> QED
  BY <1>4, <1>5, <1>6

\* Row k may follow row j in a sample: time goes on or a marker is repeated, and between two
\* rows of data there are but rows of data.
Follows(rows, j, k) ==
    /\ j \in 0..Len(rows) - 1 /\ k \in 0..Len(rows) - 1
    /\ j < k \/ (j = k /\ IsGap(rows[k + 1]))
    /\ ~IsGap(rows[j + 1]) /\ ~IsGap(rows[k + 1]) => \A s \in j..k : ~IsGap(rows[s + 1])

LEMMA ContributionIsInside ==
  ASSUME NEW rows, NEW threshold, Oversized(rows, threshold), NEW b \in 0..threshold - 3, NEW j,
         Contributes(rows, threshold, b, j)
  PROVE  j \in 1..Len(rows) - 2
<1>1. threshold \in Nat
  BY DEF Oversized
<1>2. CASE j \in Bucket(rows, threshold, b)
  BY <1>2, BucketsAreInside
<1>3. CASE b + 1 <= threshold - 3 /\ j \in Bucket(rows, threshold, b + 1)
  <2>1. b + 1 \in 0..threshold - 3
    BY <1>1, <1>3
  <2> QED
    BY <1>3, <2>1, BucketsAreInside
<1> QED
  BY <1>2, <1>3 DEF Contributes

LEMMA FirstFollows ==
  ASSUME NEW rows, NEW threshold, Oversized(rows, threshold), LoneGaps(rows), NEW k,
         Contributes(rows, threshold, 0, k)
  PROVE  Follows(rows, 0, k)
<1>1. /\ Len(rows) \in Nat /\ threshold \in Nat /\ threshold >= 3 /\ threshold < Len(rows)
      /\ DOMAIN rows = 1..Len(rows)
  BY DEF Oversized
<1>2. 0 \in 0..threshold - 3
  BY <1>1
<1>3. k \in 1..Len(rows) - 2
  BY <1>2, ContributionIsInside
<1>4. ~IsGap(rows[0 + 1])
  BY <1>1 DEF LoneGaps
<1>5. ASSUME ~IsGap(rows[k + 1]), NEW s \in 0..k PROVE ~IsGap(rows[s + 1])
  <2>1. k \in Bucket(rows, threshold, 0) /\ \A l \in Bucket(rows, threshold, 0) : ~IsGap(rows[l + 1])
    BY <1>5 DEF Contributes
  <2>2. Bucket(rows, threshold, 0) = 1..Start(rows, threshold, 1) - 1 /\ Start(rows, threshold, 1) \in Int
    <3>1. Start(rows, threshold, 0) = 1 /\ 0 + 1 = 1
      BY <1>1, StartsAscend
    <3>2. Start(rows, threshold, 1) \in Nat
      BY <1>1, StartsAscend
    <3> QED
      BY <3>1, <3>2 DEF Bucket
  <2>3. CASE s = 0
    BY <1>4, <2>3
  <2>4. CASE s # 0
    <3>1. s \in Bucket(rows, threshold, 0)
      BY <1>3, <2>1, <2>2, <2>4
    <3> QED
      BY <2>1, <3>1
  <2> QED
    BY <2>3, <2>4
<1>6. 0 \in 0..Len(rows) - 1 /\ k \in 0..Len(rows) - 1 /\ 0 < k
  BY <1>1, <1>3
<1> QED
  BY <1>5, <1>6 DEF Follows

LEMMA NextFollows ==
  ASSUME NEW rows, NEW threshold, Oversized(rows, threshold), NEW b \in 0..threshold - 4,
         NEW j, Contributes(rows, threshold, b, j), NEW k, Contributes(rows, threshold, b + 1, k)
  PROVE  Follows(rows, j, k)
<1> DEFINE s == Start(rows, threshold, b)
           t == Start(rows, threshold, b + 1)
           u == Start(rows, threshold, b + 2)
           v == Start(rows, threshold, b + 3)
           n == Len(rows)
<1>1. n \in Nat /\ threshold \in Nat /\ threshold >= 3 /\ threshold < n
  BY DEF Oversized
<1>2. /\ b \in Nat /\ b + 1 \in Nat /\ b + 2 \in Nat /\ b + 3 \in Nat
      /\ (b + 1) + 1 = b + 2 /\ (b + 2) + 1 = b + 3
      /\ b \in 0..threshold - 3 /\ b + 1 \in 0..threshold - 3
  BY <1>1
<1>3. s \in Nat /\ t \in Nat /\ u \in Nat /\ v \in Nat /\ s < t /\ t < u /\ u < v
  BY <1>1, <1>2, StartsAscend
<1>4. j \in 1..n - 2 /\ k \in 1..n - 2
  BY <1>2, ContributionIsInside
<1>5. /\ Bucket(rows, threshold, b) = s..t - 1
      /\ Bucket(rows, threshold, b + 1) = t..u - 1
      /\ Bucket(rows, threshold, b + 2) = u..v - 1
  BY <1>2 DEF Bucket
<1> HIDE DEF s, t, u, v, n
<1>6. \/ j \in s..t - 1 /\ IsGap(rows[j + 1])
      \/ j \in s..t - 1 /\ \A l \in s..t - 1 : ~IsGap(rows[l + 1])
      \/ t..u - 1 = {j} /\ IsGap(rows[j + 1])
  BY <1>5 DEF Contributes
<1>7. \/ k \in t..u - 1 /\ IsGap(rows[k + 1])
      \/ k \in t..u - 1 /\ \A l \in t..u - 1 : ~IsGap(rows[l + 1])
      \/ u..v - 1 = {k} /\ IsGap(rows[k + 1])
  <2>1. (b + 1) + 1 = b + 2
    BY <1>2
  <2> QED
    BY <1>5, <2>1 DEF Contributes
<1>8. j < k \/ (j = k /\ IsGap(rows[k + 1]))
  <2>1. CASE j \in s..t - 1
    <3>1. k \in t..u - 1 \/ k \in u..v - 1
      BY <1>7
    <3> HIDE DEF IsGap
    <3> QED
      BY <1>3, <2>1, <3>1
  <2>2. CASE t..u - 1 = {j} /\ IsGap(rows[j + 1])
    <3>1. CASE k \in t..u - 1
      <4>1. k = j
        BY <2>2, <3>1
      <4> QED
        BY <2>2, <4>1
    <3>2. CASE k \in u..v - 1
      <4>1. j \in t..u - 1
        BY <2>2
      <4> QED
        BY <1>3, <3>2, <4>1
    <3> QED
      BY <1>7, <3>1, <3>2
  <2> QED
    BY <1>6, <2>1, <2>2
<1>9. ASSUME ~IsGap(rows[j + 1]), ~IsGap(rows[k + 1]), NEW l \in j..k PROVE ~IsGap(rows[l + 1])
  <2>1. /\ j \in s..t - 1 /\ \A i \in s..t - 1 : ~IsGap(rows[i + 1])
        /\ k \in t..u - 1 /\ \A i \in t..u - 1 : ~IsGap(rows[i + 1])
    BY <1>6, <1>7, <1>9
  <2>2. l \in s..t - 1 \/ l \in t..u - 1
    BY <1>3, <2>1
  <2> QED
    BY <2>1, <2>2
<1>10. j \in 0..n - 1 /\ k \in 0..n - 1
  BY <1>1, <1>4
<1> QED
  BY <1>8, <1>9, <1>10 DEF Follows, n

LEMMA LastFollows ==
  ASSUME NEW rows, NEW threshold, Oversized(rows, threshold), LoneGaps(rows),
         NEW j, Contributes(rows, threshold, threshold - 3, j)
  PROVE  Follows(rows, j, Len(rows) - 1)
<1> DEFINE n == Len(rows)
           s == Start(rows, threshold, threshold - 3)
<1>1. n \in Nat /\ threshold \in Nat /\ threshold >= 3 /\ threshold < n /\ DOMAIN rows = 1..n
  BY DEF Oversized
<1>2. threshold - 3 \in 0..threshold - 3 /\ (threshold - 3) + 1 = threshold - 2
      /\ ~ ((threshold - 3) + 1 <= threshold - 3) /\ threshold - 3 \in Nat
  BY <1>1
<1>3. j \in 1..n - 2
  BY <1>2, ContributionIsInside
<1>4. s \in Nat /\ Start(rows, threshold, threshold - 2) = n - 1
  BY <1>1, <1>2, StartsAscend
<1>5. Bucket(rows, threshold, threshold - 3) = s..(n - 1) - 1
  BY <1>2, <1>4 DEF Bucket
<1>6. ~IsGap(rows[n]) /\ (n - 1) + 1 = n
  BY <1>1 DEF LoneGaps
<1> HIDE DEF n, s
<1>7. ASSUME ~IsGap(rows[j + 1]), NEW l \in j..n - 1 PROVE ~IsGap(rows[l + 1])
  <2>1. j \in s..(n - 1) - 1 /\ \A i \in s..(n - 1) - 1 : ~IsGap(rows[i + 1])
    BY <1>2, <1>5, <1>7 DEF Contributes
  <2>2. CASE l = n - 1
    BY <1>6, <2>2
  <2>3. CASE l # n - 1
    <3>1. l \in s..(n - 1) - 1
      BY <1>1, <1>4, <2>1, <2>3
    <3> QED
      BY <2>1, <3>1
  <2> QED
    BY <2>2, <2>3
<1>8. j \in 0..n - 1 /\ n - 1 \in 0..n - 1 /\ j < n - 1
  BY <1>1, <1>3
<1> QED
  BY <1>7, <1>8 DEF Follows, n

\* What a reader sees between two neighbours of the sample.
Drawn(rows, sample, i) ==
    /\ GoesOn(sample, i)
    /\ IsLine(sample, i) =>
         ~ \E r \in Range(rows) :
             /\ IsGap(r)
             /\ sample[i - 1].bucket < r.bucket /\ r.bucket < sample[i].bucket

LEMMA FollowersAreDrawn ==
  ASSUME NEW rows, IsSeries(rows), NEW j, NEW k, Follows(rows, j, k), NEW sample, NEW i,
         sample[i - 1] = rows[j + 1], sample[i] = rows[k + 1]
  PROVE  Drawn(rows, sample, i)
<1> DEFINE n == Len(rows)
<1>1. n \in Nat /\ rows \in Seq(ChartRow) /\ DOMAIN rows = 1..n
  BY DEF IsSeries
<1>2. j \in 0..n - 1 /\ k \in 0..n - 1 /\ j + 1 \in 1..n /\ k + 1 \in 1..n
  BY <1>1 DEF Follows
<1>3. \A l \in 1..n : rows[l].bucket \in Int
  BY <1>1, RowFields
<1>4. GoesOn(sample, i)
  <2>1. CASE j < k
    <3>1. j + 1 < k + 1
      BY <1>2, <2>1
    <3>2. rows[j + 1].bucket < rows[k + 1].bucket
      BY <1>2, <3>1, LaterRows
    <3> QED
      BY <3>2 DEF GoesOn
  <2>2. CASE j = k /\ IsGap(rows[k + 1])
    BY <2>2 DEF GoesOn
  <2> QED
    BY <2>1, <2>2 DEF Follows
<1>5. ASSUME IsLine(sample, i), NEW r \in Range(rows), IsGap(r),
             sample[i - 1].bucket < r.bucket, r.bucket < sample[i].bucket
      PROVE  FALSE
  <2>1. ~IsGap(rows[j + 1]) /\ ~IsGap(rows[k + 1])
    BY <1>5 DEF IsLine
  <2>2. PICK l \in 1..n : r = rows[l]
    BY <1>1 DEF Range
  <2>3. l - 1 \in j..k
    <3>1. ~ (l < j + 1)
      <4> SUFFICES ASSUME l < j + 1 PROVE FALSE
        OBVIOUS
      <4>1. rows[l].bucket < rows[j + 1].bucket
        BY <1>2, LaterRows
      <4>2. rows[j + 1].bucket < rows[l].bucket
        BY <1>5, <2>2
      <4> QED
        BY <1>2, <1>3, <4>1, <4>2
    <3>2. ~ (k + 1 < l)
      <4> SUFFICES ASSUME k + 1 < l PROVE FALSE
        OBVIOUS
      <4>1. rows[k + 1].bucket < rows[l].bucket
        BY <1>2, LaterRows
      <4>2. rows[l].bucket < rows[k + 1].bucket
        BY <1>5, <2>2
      <4> QED
        BY <1>2, <1>3, <4>1, <4>2
    <3> HIDE DEF n
    <3> QED
      BY <1>1, <1>2, <3>1, <3>2
  <2>4. ~IsGap(rows[(l - 1) + 1])
    BY <2>1, <2>3 DEF Follows
  <2>5. (l - 1) + 1 = l
    OBVIOUS
  <2> QED
    BY <1>5, <2>2, <2>4, <2>5
<1> QED
  BY <1>4, <1>5 DEF Drawn

\* The rows a sample is made of, when there are markers.
LEMMA MarkedSampleForm ==
  ASSUME NEW rows, NEW threshold, Oversized(rows, threshold), LoneGaps(rows)
  PROVE  \E picked : /\ picked[0] = 0
                     /\ \A i \in 1..threshold - 2 : Contributes(rows, threshold, i - 1, picked[i])
                     /\ SampledIndices(rows, threshold) =
                          [i \in 1..threshold - 1 |-> picked[i - 1]] \o <<Len(rows) - 1>>
<1> DEFINE d == threshold - 2
           Goes(f) == PickedUpTo(rows, threshold, f, d)
           picked == CHOOSE f : Goes(f)
<1>1. /\ threshold \in Nat /\ threshold >= 3 /\ threshold < Len(rows) /\ Len(rows) \in Nat
      /\ d \in Nat
  BY DEF Oversized
<1>2. \E f : Goes(f)
  BY <1>1, PickedExists, ZenonT(30)
<1>3. SampledIndices(rows, threshold) =
        IF threshold <= 2 \/ Len(rows) <= threshold
          THEN [i \in 1..Len(rows) |-> i - 1]
          ELSE [i \in 1..threshold - 1 |-> picked[i - 1]] \o <<Len(rows) - 1>>
  BY ZenonT(30) DEF SampledIndices, PickedUpTo
<1>4. Goes(picked)
  BY <1>2, ZenonT(30)
<1> HIDE DEF picked
<1>5. ~ (threshold <= 2 \/ Len(rows) <= threshold)
  BY <1>1
<1>6. SampledIndices(rows, threshold) = [i \in 1..threshold - 1 |-> picked[i - 1]] \o <<Len(rows) - 1>>
  BY <1>3, <1>5, ZenonT(30)
<1>7. picked[0] = 0
  <2>1. 0 \in 0..d
    BY <1>1
  <2> QED
    BY <1>4, <2>1, ZenonT(30) DEF PickedUpTo
<1>8. ASSUME NEW i \in 1..d PROVE picked[i] = PickRow(rows, threshold, i - 1, picked[i - 1])
  <2>1. i \in 0..d /\ i # 0
    BY <1>1
  <2> QED
    BY <1>4, <2>1, ZenonT(30) DEF PickedUpTo
<1> DEFINE T == {k \in 0..d : picked[k] \in 0..Len(rows) - 1}
<1>9. 0 \in T
  BY <1>1, <1>7
<1>10. ASSUME NEW i \in 1..d, i - 1 \in T PROVE i \in T
  <2>1. i - 1 \in 0..threshold - 3 /\ i \in 0..d /\ picked[i - 1] \in 0..Len(rows) - 1
    BY <1>1, <1>10
  <2>2. Contributes(rows, threshold, i - 1, picked[i])
    BY <1>8, <2>1, PickWithGaps, ZenonT(30)
  <2>3. picked[i] \in 1..Len(rows) - 2
    BY <2>1, <2>2, ContributionIsInside
  <2>4. picked[i] \in 0..Len(rows) - 1
    BY <1>1, <2>3
  <2> QED
    BY <2>1, <2>4
<1> HIDE DEF T
<1>11. \A i \in 0..d : i \in T
  BY <1>1, <1>9, <1>10, UpTo, ZenonT(30)
<1>12. ASSUME NEW i \in 1..d PROVE Contributes(rows, threshold, i - 1, picked[i])
  <2>1. i - 1 \in 0..d /\ i - 1 \in 0..threshold - 3
    BY <1>1
  <2>2. picked[i - 1] \in 0..Len(rows) - 1
    BY <1>11, <2>1 DEF T
  <2> QED
    BY <1>8, <2>1, <2>2, PickWithGaps, ZenonT(30)
<1> QED
  BY <1>6, <1>7, <1>12

\* telemetry_repository.py:162, "Always preserve gaps": thinned to whatever number of rows, three
\* or more, a series with its markers keeps its ends and has that number of rows, its time never
\* goes back, and no line is drawn across a gap, though not every marker is kept.
THEOREM ThinningKeepsTheBreaks ==
  ASSUME NEW rows, LoneGaps(rows), NEW threshold \in Nat, threshold >= 3
  PROVE  LET sample == Lttb(rows, threshold) IN
         /\ Len(sample) = IF Len(rows) <= threshold THEN Len(rows) ELSE threshold
         /\ sample[1] = rows[1] /\ Last(sample) = Last(rows)
         /\ \A i \in 2..Len(sample) : Drawn(rows, sample, i)
<1> DEFINE n == Len(rows)
           sample == Lttb(rows, threshold)
           kept == SampledIndices(rows, threshold)
<1>1. n \in Nat \ {0} /\ rows \in Seq(ChartRow) /\ rows = [i \in 1..n |-> rows[i]] /\ IsSeries(rows)
  BY EmptySeq DEF LoneGaps, IsSeries
<1>2. sample = [i \in DOMAIN kept |-> rows[kept[i] + 1]]
  BY ZenonT(30) DEF Lttb
<1>3. CASE n <= threshold
  <2>1. kept = [i \in 1..n |-> i - 1]
    BY <1>3, ZenonT(30) DEF SampledIndices
  <2>2. DOMAIN kept = 1..n /\ \A i \in 1..n : kept[i] + 1 = i
    BY <1>1, <2>1
  <2> HIDE DEF kept
  <2>3. sample = [i \in 1..n |-> rows[i]]
    BY <1>2, <2>2, ZenonT(30)
  <2>4. sample = rows
    BY <1>1, <2>3, ZenonT(30)
  <2> HIDE DEF sample
  <2>5. ASSUME NEW i \in 2..n PROVE Drawn(rows, rows, i)
    <3>1. i - 2 \in 0..n - 1 /\ i - 1 \in 0..n - 1 /\ i - 2 < i - 1
          /\ (i - 2) + 1 = i - 1 /\ (i - 1) + 1 = i /\ (i - 2)..(i - 1) = {i - 2, i - 1}
      BY <1>1
    <3>2. Follows(rows, i - 2, i - 1)
      BY <3>1 DEF Follows
    <3> QED
      BY <1>1, <3>1, <3>2, FollowersAreDrawn
  <2> QED
    BY <1>3, <2>4, <2>5 DEF sample
<1>4. CASE ~ (n <= threshold)
  <2>0. threshold < n
    BY <1>1, <1>4
  <2>1. Oversized(rows, threshold)
    BY <1>1, <2>0 DEF Oversized
  <2>2. PICK picked : /\ picked[0] = 0
                      /\ \A i \in 1..threshold - 2 : Contributes(rows, threshold, i - 1, picked[i])
                      /\ kept = [i \in 1..threshold - 1 |-> picked[i - 1]] \o <<n - 1>>
    BY <2>1, MarkedSampleForm
  <2>3. ASSUME NEW i \in 1..threshold - 2 PROVE picked[i] \in 1..n - 2
    <3>1. i - 1 \in 0..threshold - 3
      OBVIOUS
    <3> QED
      BY <2>1, <2>2, <3>1, ContributionIsInside
  <2>4. /\ DOMAIN kept = 1..threshold
        /\ \A i \in 1..threshold - 1 : kept[i] = picked[i - 1]
        /\ kept[threshold] = n - 1
    <3> DEFINE head == [i \in 1..threshold - 1 |-> picked[i - 1]]
    <3>1. \A i \in 1..threshold - 1 : picked[i - 1] \in Int
      <4> SUFFICES ASSUME NEW i \in 1..threshold - 1 PROVE picked[i - 1] \in Int
        OBVIOUS
      <4>1. CASE i = 1
        BY <2>2, <4>1
      <4>2. CASE i # 1
        <5>1. i - 1 \in 1..threshold - 2
          BY <4>2
        <5> QED
          BY <1>1, <2>3, <5>1
      <4> QED
        BY <4>1, <4>2
    <3>2. head \in Seq(Int) /\ Len(head) = threshold - 1 /\ \A i \in 1..threshold - 1 : head[i] = picked[i - 1]
      BY <3>1
    <3> HIDE DEF head, kept
    <3>3. kept = head \o <<n - 1>>
      BY <2>2 DEF head
    <3> QED
      BY <1>1, <3>2, <3>3
  <2> HIDE DEF kept
  <2>5. ASSUME NEW i \in 2..threshold PROVE Follows(rows, kept[i - 1], kept[i])
    <3>1. CASE i = threshold
      <4>1. i - 1 \in 1..threshold - 1 /\ (i - 1) - 1 = threshold - 2 /\ threshold - 2 \in 1..threshold - 2
            /\ (threshold - 2) - 1 = threshold - 3
        BY <3>1
      <4>2. kept[i - 1] = picked[threshold - 2] /\ kept[i] = n - 1
        BY <2>4, <3>1, <4>1
      <4>3. Contributes(rows, threshold, threshold - 3, picked[threshold - 2])
        BY <2>2, <4>1
      <4> QED
        BY <2>1, <4>2, <4>3, LastFollows
    <3>2. CASE i = 2 /\ i # threshold
      <4>1. i \in 1..threshold - 1 /\ i - 1 \in 1..threshold - 1 /\ (i - 1) - 1 = 0 /\ i - 1 = 1
            /\ 1 \in 1..threshold - 2 /\ 1 - 1 = 0
        BY <3>2
      <4>2. kept[i - 1] = 0 /\ kept[i] = picked[1]
        BY <2>2, <2>4, <4>1
      <4>3. Contributes(rows, threshold, 0, picked[1])
        BY <2>2, <4>1
      <4> QED
        BY <2>1, <4>2, <4>3, FirstFollows
    <3>3. CASE i # 2 /\ i # threshold
      <4>1. /\ i \in 1..threshold - 1 /\ i - 1 \in 1..threshold - 1 /\ (i - 1) - 1 = i - 2
            /\ i - 1 \in 1..threshold - 2 /\ i - 2 \in 1..threshold - 2 /\ (i - 1) - 1 = (i - 3) + 1
            /\ (i - 2) - 1 = i - 3 /\ i - 3 \in 0..threshold - 4
        BY <3>3
      <4>2. kept[i - 1] = picked[i - 2] /\ kept[i] = picked[i - 1]
        BY <2>4, <4>1
      <4>3. Contributes(rows, threshold, i - 3, picked[i - 2])
        BY <2>2, <4>1
      <4>4. Contributes(rows, threshold, (i - 3) + 1, picked[i - 1])
        BY <2>2, <4>1
      <4> QED
        BY <2>1, <4>1, <4>2, <4>3, <4>4, NextFollows
    <3> QED
      BY <3>1, <3>2, <3>3
  <2>6. \A i \in 1..threshold : kept[i] \in 0..n - 1
    <3> SUFFICES ASSUME NEW i \in 1..threshold PROVE kept[i] \in 0..n - 1
      OBVIOUS
    <3>1. CASE i = 1
      <4>1. 2 \in 2..threshold /\ 2 - 1 = 1
        OBVIOUS
      <4> QED
        BY <2>5, <3>1, <4>1 DEF Follows
    <3>2. CASE i # 1
      <4>1. i \in 2..threshold
        BY <3>2
      <4> QED
        BY <2>5, <4>1 DEF Follows
    <3> QED
      BY <3>1, <3>2
  <2>7. /\ DOMAIN sample = 1..threshold /\ sample \in Seq(ChartRow) /\ Len(sample) = threshold
        /\ \A i \in 1..threshold : sample[i] = rows[kept[i] + 1]
    <3>1. sample = [i \in 1..threshold |-> rows[kept[i] + 1]]
      BY <1>2, <2>4, ZenonT(30)
    <3>2. \A i \in 1..threshold : kept[i] + 1 \in 1..n /\ rows[kept[i] + 1] \in ChartRow
      BY <1>1, <2>6, RowFields
    <3> HIDE DEF sample
    <3> QED
      BY <3>1, <3>2
  <2> HIDE DEF sample
  <2>8. sample[1] = rows[1] /\ Last(sample) = Last(rows)
    <3>1. 1 \in 1..threshold /\ threshold \in 1..threshold /\ 1 \in 1..threshold - 1 /\ 1 - 1 = 0
          /\ 0 + 1 = 1 /\ n - 1 + 1 = n
      BY <1>1
    <3>2. kept[1] = 0
      BY <2>2, <2>4, <3>1
    <3>3. sample[1] = rows[kept[1] + 1] /\ sample[threshold] = rows[kept[threshold] + 1]
      BY <2>7, <3>1
    <3>4. sample[1] = rows[1] /\ sample[threshold] = rows[n]
      BY <2>4, <3>1, <3>2, <3>3
    <3> QED
      BY <2>7, <3>4, ZenonT(30) DEF Last
  <2>9. ASSUME NEW i \in 2..threshold PROVE Drawn(rows, sample, i)
    <3>1. i - 1 \in 1..threshold /\ i \in 1..threshold
      OBVIOUS
    <3>2. sample[i - 1] = rows[kept[i - 1] + 1] /\ sample[i] = rows[kept[i] + 1]
      BY <2>7, <3>1
    <3> QED
      BY <1>1, <2>5, <3>2, FollowersAreDrawn
  <2> QED
    BY <1>4, <2>7, <2>8, <2>9 DEF sample
<1> QED
  BY <1>3, <1>4

\* The series the run checks are series.
LEMMA TimesAscend ==
  ASSUME NEW n \in Nat, NEW t \in Times(n)
  PROVE  /\ t = [i \in 1..n |-> t[i]] /\ \A i \in 1..n : t[i] \in Int
         /\ \A i \in 2..n : t[i - 1] < t[i]
<1>1. PICK late \in SUBSET (2..n) :
        t = [i \in 1..n |-> Width * (i - 1) + 3 * Width * Cardinality({j \in late : j <= i})]
  BY ZenonT(30) DEF Times
<1> DEFINE upTo(i) == {j \in late : j <= i}
<1>2. IsFiniteSet(late)
  <2>1. IsFiniteSet(2..n)
    BY FS_Interval
  <2> QED
    BY <2>1, FS_Subset
<1>3. \A i : IsFiniteSet(upTo(i)) /\ Cardinality(upTo(i)) \in Nat
  <2>1. \A i : upTo(i) \in SUBSET late
    OBVIOUS
  <2> HIDE DEF upTo
  <2>2. \A i : IsFiniteSet(upTo(i))
    BY <1>2, <2>1, FS_Subset, ZenonT(30)
  <2> QED
    BY <2>2, FS_CardinalityType, ZenonT(30)
<1>4. ASSUME NEW i \in 2..n PROVE Cardinality(upTo(i - 1)) <= Cardinality(upTo(i))
  <2>0. \A j \in late : j <= i - 1 => j <= i
    BY SMTT(30)
  <2>1. upTo(i - 1) \in SUBSET upTo(i)
    BY <2>0, ZenonT(30)
  <2> HIDE DEF upTo
  <2> QED
    BY <1>3, <2>1, FS_Subset
<1>5. \A i \in 1..n : t[i] = Width * (i - 1) + 3 * Width * Cardinality(upTo(i))
  BY <1>1, ZenonT(30)
<1> HIDE DEF upTo
<1>6. \A i \in 1..n : t[i] \in Int
  BY <1>3, <1>5 DEF Width
<1>7. ASSUME NEW i \in 2..n PROVE t[i - 1] < t[i]
  <2> DEFINE p == Cardinality(upTo(i - 1))
             q == Cardinality(upTo(i))
  <2>1. p \in Nat /\ q \in Nat /\ p <= q
    BY <1>3, <1>4
  <2>2. i - 1 \in 1..n /\ i \in 1..n
    OBVIOUS
  <2>3. t[i - 1] = Width * ((i - 1) - 1) + 3 * Width * p /\ t[i] = Width * (i - 1) + 3 * Width * q
    BY <1>5, <2>2
  <2> HIDE DEF p, q
  <2> QED
    BY <2>1, <2>2, <2>3 DEF Width
<1>8. t = [i \in 1..n |-> t[i]]
  BY <1>1, ZenonT(30)
<1> QED
  BY <1>6, <1>7, <1>8

LEMMA SeriesAreSeries ==
  ASSUME NEW rows \in Series
  PROVE  IsSeries(rows) /\ NoGaps(rows)
<1>0. PICK n \in 2..MaxRows : rows \in SeriesOf(n)
  BY ZenonT(30) DEF Series
<1>1. PICK t \in Times(n), v \in [1..n -> {0, 3}] :
        rows = [i \in 1..n |-> [bucket |-> t[i], value |-> v[i]]]
  BY <1>0, SMTT(60) DEF SeriesOf
<1>2. n \in Nat /\ n >= 2
  BY DEF MaxRows
<1>3. (\A i \in 1..n : t[i] \in Int) /\ (\A i \in 2..n : t[i - 1] < t[i])
  BY <1>2, TimesAscend, ZenonT(30)
<1>4. \A i \in 1..n : rows[i].bucket = t[i] /\ rows[i].value = v[i] /\ v[i] \in {0, 3} /\ rows[i] \in ChartRow
  BY <1>1, <1>3 DEF ChartRow
<1>5. rows \in Seq(ChartRow) /\ Len(rows) = n /\ DOMAIN rows = 1..n /\ rows # <<>>
  <2>1. rows = [i \in 1..n |-> rows[i]]
    BY <1>1
  <2> QED
    BY <1>2, <1>4, <2>1
<1>6. Ascending(rows)
  <2>1. ASSUME NEW i \in 2..n PROVE rows[i - 1].bucket < rows[i].bucket
    <3>1. i - 1 \in 1..n /\ i \in 1..n
      BY <1>2
    <3> QED
      BY <1>3, <1>4, <3>1
  <2> QED
    BY <1>5, <2>1 DEF Ascending
<1>7. NoGaps(rows)
  BY <1>4, <1>5 DEF NoGaps, IsGap, Gap
<1> QED
  BY <1>5, <1>6, <1>7 DEF IsSeries

\* ChartShowsTheData: every series the run checks is marked where data is missing and nowhere else,
\* and thinned keeps its ends, its order, its breaks and its only spike; no window is cut.
THEOREM ChartIsTrue == Spec => []ChartShowsTheData
<1>1. MismarkedSeries = {}
  <2> SUFFICES ASSUME NEW rows \in Series
               PROVE  LET marked == InsertGapMarkers(rows, Width) IN
                      /\ {r \in Range(marked) : ~IsGap(r)} = Range(rows)
                      /\ Ascending(marked)
                      /\ \A i \in 2..Len(marked) :
                           ~IsGap(marked[i - 1]) /\ ~IsGap(marked[i]) =>
                               marked[i].bucket - marked[i - 1].bucket <= 3 * Width
                      /\ \A i \in DOMAIN marked : IsGap(marked[i]) =>
                               marked[i + 1].bucket - marked[i - 1].bucket > 3 * Width
    BY ZenonT(30) DEF MismarkedSeries
  <2>1. IsSeries(rows) /\ NoGaps(rows) /\ Width \in Nat \ {0}
    BY SeriesAreSeries DEF Width
  <2>2. /\ RowsOf(InsertGapMarkers(rows, Width)) = Range(rows)
        /\ WellMarked(InsertGapMarkers(rows, Width), Width)
    BY <2>1, GapsAreMarked, ZenonT(30)
  <2> QED
    BY <2>2, ZenonT(30) DEF RowsOf, WellMarked
<1>2. MisdrawnSeries = {}
  <2> SUFFICES ASSUME NEW rows \in GapFree, NEW threshold \in 3..MaxRows
               PROVE  LET sample == Lttb(rows, threshold) IN
                      /\ Len(sample) = IF Len(rows) <= threshold THEN Len(rows) ELSE threshold
                      /\ sample[1] = rows[1] /\ Last(sample) = Last(rows)
                      /\ Ascending(sample)
                      /\ \A i \in Spikes(rows) : rows[i] \in Range(sample)
    BY ZenonT(30) DEF MisdrawnSeries
  <2>1. IsSeries(rows) /\ NoGaps(rows)
    BY SeriesAreSeries DEF GapFree
  <2>2. threshold \in Nat /\ threshold >= 3
    BY DEF MaxRows
  <2>3. ASSUME NEW i \in Spikes(rows) PROVE IsSpike(rows, i)
    BY DEF Spikes, IsSpike
  <2> QED
    BY <2>1, <2>2, <2>3, ThinningKeepsTheShape, ZenonT(30)
<1>3. BridgedSeries = {}
  <2> SUFFICES ASSUME NEW rows \in Series, NEW threshold \in 3..MaxRows
               PROVE  LET marked == InsertGapMarkers(rows, Width)
                          sample == Lttb(marked, threshold)
                      IN /\ Len(sample) = IF Len(marked) <= threshold THEN Len(marked) ELSE threshold
                         /\ sample[1] = rows[1] /\ Last(sample) = Last(rows)
                         /\ \A i \in 2..Len(sample) : Drawn(marked, sample, i)
    BY ZenonT(30) DEF BridgedSeries, Drawn
  <2> DEFINE marked == InsertGapMarkers(rows, Width)
  <2>1. IsSeries(rows) /\ NoGaps(rows) /\ Width \in Nat \ {0}
    BY SeriesAreSeries DEF Width
  <2>2. WellMarked(marked, Width) /\ SameEnds(marked, rows)
    BY <2>1, GapsAreMarked, ZenonT(30)
  <2>3. threshold \in Nat /\ threshold >= 3
    BY DEF MaxRows
  <2> HIDE DEF marked
  <2>4. LoneGaps(marked)
    BY <2>2 DEF WellMarked, SameEnds, LoneGaps, IsSeries
  <2>5. marked[1] = rows[1] /\ Last(marked) = Last(rows)
    BY <2>2, ZenonT(30) DEF SameEnds, Last
  <2> QED
    BY <2>3, <2>4, <2>5, ThinningKeepsTheBreaks, ZenonT(30) DEF marked
<1>4. TruncatedWindows = {}
  <2> SUFFICES ASSUME NEW w \in {m * Minute : m \in 1..72 * 60} \X {0, 24 * Hour, 71 * Hour}
               PROVE  ~ (w[1] \div BucketFor(w[1], w[1] + w[2], AutoBucket(w[1])) + 1 > ChartLimit)
    BY ZenonT(30) DEF TruncatedWindows
  <2>1. w[1] \in {m * Minute : m \in 1..72 * 60} /\ w[2] \in {0, 24 * Hour, 71 * Hour}
    OBVIOUS
  <2>2. w[1] \in Nat /\ w[1] <= RawRetention /\ w[2] \in Nat
    <3>1. PICK m \in 1..72 * 60 : w[1] = m * Minute
      BY <2>1
    <3>2. m \in Nat /\ m <= 4320
      BY SMTT(30)
    <3>3. w[1] \in Nat /\ w[1] <= RawRetention
      BY <3>1, <3>2 DEF Minute, Hour, RawRetention
    <3>4. w[2] \in Nat
      BY <2>1 DEF Hour
    <3> QED
      BY <3>3, <3>4, SMTT(30)
  <2> DEFINE b == BucketFor(w[1], w[1] + w[2], AutoBucket(w[1]))
  <2>3. w[1] \div b + 1 <= ChartLimit /\ b \in Nat \ {0}
    <3>1. w[1] + w[2] \in Nat
      BY <2>2
    <3>2. w[1] \div b + 1 <= ChartLimit
      BY <2>2, <3>1, WindowsFit
    <3>3. b \in Nat \ {0}
      BY <2>2, <3>1, BucketIsWideEnough
    <3> QED
      BY <3>2, <3>3
  <2> HIDE DEF b
  <2>4. w[1] \div b \in Nat
    BY <2>2, <2>3, DivFloor
  <2>5. ~ (w[1] \div b + 1 > ChartLimit)
    BY <2>3, <2>4 DEF ChartLimit
  <2> QED
    BY <2>5 DEF b
<1>5. ChartShowsTheData
  BY <1>1, <1>2, <1>3, <1>4 DEF ChartShowsTheData
<1>6. Init => ChartShowsTheData
  BY <1>5
<1>7. ChartShowsTheData /\ [Next]_vars => ChartShowsTheData'
  BY <1>1, <1>2, <1>3, <1>4 DEF ChartShowsTheData
<1> QED
  BY <1>6, <1>7, PTL DEF Spec

\* A finite set of numbers has a smallest and a largest.
LEMMA HasExtremes ==
  ASSUME NEW n \in Nat
  PROVE  \A T \in SUBSET Int : IsFiniteSet(T) /\ Cardinality(T) = n + 1 =>
            (\E m \in T : \A t \in T : m <= t) /\ (\E m \in T : \A t \in T : t <= m)
<1> DEFINE Good(T) == (\E m \in T : \A t \in T : m <= t) /\ (\E m \in T : \A t \in T : t <= m)
           K == {k \in Nat : \A T \in SUBSET Int : IsFiniteSet(T) /\ Cardinality(T) = k + 1 => Good(T)}
<1>1. 0 \in K
  <2>1. ASSUME NEW T \in SUBSET Int, IsFiniteSet(T), Cardinality(T) = 0 + 1 PROVE Good(T)
    <3>1. PICK x : T = {x}
      <4>1. Cardinality(T) = 1
        BY <2>1
      <4> QED
        BY <2>1, <4>1, FS_Singleton, ZenonT(30)
    <3> QED
      BY <3>1
  <2> QED
    BY <2>1
<1>2. ASSUME NEW k \in K PROVE k + 1 \in K
  <2>1. ASSUME NEW T \in SUBSET Int, IsFiniteSet(T), Cardinality(T) = (k + 1) + 1 PROVE Good(T)
    <3>1. PICK x \in T : TRUE
      <4>1. T # {}
        BY <2>1, FS_EmptySet
      <4> QED
        BY <4>1
    <3> DEFINE R == T \ {x}
    <3>2. R \in SUBSET Int /\ IsFiniteSet(R) /\ Cardinality(R) = k + 1
      BY <2>1, <3>1, FS_RemoveElement
    <3> HIDE DEF R
    <3>3. Good(R)
      BY <1>2, <3>2
    <3>4. PICK lo \in R : \A t \in R : lo <= t
      BY <3>3
    <3>5. PICK hi \in R : \A t \in R : t <= hi
      BY <3>3
    <3>6. (\A t \in T : t \in R \/ t = x) /\ lo \in T /\ hi \in T /\ x \in Int /\ lo \in Int /\ hi \in Int
          /\ R \subseteq Int
      BY <3>2 DEF R
    <3>7. \E m \in T : \A t \in T : m <= t
      <4>1. CASE x <= lo
        BY <3>1, <3>4, <3>6, <4>1
      <4>2. CASE ~ (x <= lo)
        BY <3>4, <3>6, <4>2
      <4> QED
        BY <4>1, <4>2
    <3>8. \E m \in T : \A t \in T : t <= m
      <4>1. CASE hi <= x
        BY <3>1, <3>5, <3>6, <4>1
      <4>2. CASE ~ (hi <= x)
        BY <3>5, <3>6, <4>2
      <4> QED
        BY <4>1, <4>2
    <3> QED
      BY <3>7, <3>8
  <2> QED
    BY <2>1
<1> HIDE DEF K
<1>3. K = Nat
  <2>1. K \in SUBSET Nat
    BY DEF K
  <2> QED
    BY <1>1, <1>2, <2>1, Induction, ZenonT(30)
<1> QED
  BY <1>3 DEF K

LEMMA Extremes ==
  ASSUME NEW T \in SUBSET Int, IsFiniteSet(T), T # {}
  PROVE  /\ \E m \in T : \A t \in T : m <= t
         /\ \E m \in T : \A t \in T : t <= m
         /\ Min(T) \in T /\ (\A t \in T : Min(T) <= t)
         /\ Max(T) \in T /\ (\A t \in T : t <= Max(T))
<1>1. Cardinality(T) \in Nat /\ Cardinality(T) # 0
  BY FS_CardinalityType, FS_EmptySet
<1>2. (\E m \in T : \A t \in T : m <= t) /\ (\E m \in T : \A t \in T : t <= m)
  <2>1. Cardinality(T) - 1 \in Nat /\ Cardinality(T) = (Cardinality(T) - 1) + 1
    BY <1>1
  <2> QED
    BY <2>1, HasExtremes, ZenonT(30)
<1>3. Min(T) \in T /\ (\A t \in T : Min(T) <= t)
  BY <1>2, ZenonT(30) DEF Min
<1>4. Max(T) \in T /\ (\A t \in T : Max(T) >= t)
  BY <1>2 DEF Max
<1>5. \A t \in T : t <= Max(T)
  BY <1>4
<1> QED
  BY <1>2, <1>3, <1>4, <1>5

\* Taking the i-th of a set of times.
LEMMA NthExists ==
  ASSUME NEW n \in Nat
  PROVE  \A T \in SUBSET Int : IsFiniteSet(T) /\ Cardinality(T) = n =>
            \A i \in 1..n : \E t \in T : Cardinality({u \in T : u < t}) = i - 1
<1> DEFINE Good(T, k) == \A i \in 1..k : \E t \in T : Cardinality({u \in T : u < t}) = i - 1
           K == {k \in Nat : \A T \in SUBSET Int : IsFiniteSet(T) /\ Cardinality(T) = k => Good(T, k)}
<1>1. 0 \in K
  OBVIOUS
<1>2. ASSUME NEW k \in K PROVE k + 1 \in K
  <2>1. ASSUME NEW T \in SUBSET Int, IsFiniteSet(T), Cardinality(T) = k + 1 PROVE Good(T, k + 1)
    <3>1. PICK m \in T : \A t \in T : t <= m
      <4>1. T # {}
        BY <2>1, FS_EmptySet
      <4> QED
        BY <2>1, <4>1, Extremes
    <3> DEFINE R == T \ {m}
    <3>2. R \in SUBSET Int /\ IsFiniteSet(R) /\ Cardinality(R) = k
      BY <2>1, <3>1, FS_RemoveElement
    <3>3. Good(R, k)
      BY <1>2, <3>2
    <3>4. ASSUME NEW i \in 1..k PROVE \E t \in T : Cardinality({u \in T : u < t}) = i - 1
      <4>1. PICK t \in R : Cardinality({u \in R : u < t}) = i - 1
        BY <3>3
      <4>2. {u \in T : u < t} = {u \in R : u < t}
        BY <3>1
      <4> QED
        BY <4>1, <4>2
    <3>5. {u \in T : u < m} = R
      <4>1. \A u \in T : u < m <=> u # m
        BY <3>1
      <4> QED
        BY <4>1, ZenonT(30)
    <3>6. Cardinality({u \in T : u < m}) = (k + 1) - 1
      BY <3>2, <3>5
    <3>7. \A i \in 1..k + 1 : i \in 1..k \/ i = k + 1
      OBVIOUS
    <3> QED
      BY <3>1, <3>4, <3>6, <3>7
  <2> QED
    BY <2>1
<1> HIDE DEF K
<1>3. K = Nat
  <2>1. K \in SUBSET Nat
    BY DEF K
  <2> QED
    BY <1>1, <1>2, <2>1, Induction, ZenonT(30)
<1> QED
  BY <1>3 DEF K
LEMMA NthIsOne ==
  ASSUME NEW T \in SUBSET Int, IsFiniteSet(T), NEW i \in 1..Cardinality(T)
  PROVE  Nth(T, i) \in T
<1>1. Cardinality(T) \in Nat
  BY FS_CardinalityType
<1>2. \E t \in T : Cardinality({u \in T : u < t}) = i - 1
  BY <1>1, NthExists, ZenonT(30)
<1> QED
  BY <1>2, ZenonT(30) DEF Nth

\* A sum over rows is a number.
LEMMA TotalOfValues ==
  ASSUME NEW S, IsFiniteSet(S), \A r \in S : r.value \in Int
  PROVE  Total(S, LAMBDA r : r.value) \in Int
<1> DEFINE f == [r \in S |-> r.value]
           Adds(it) == it = [s \in SUBSET S |-> IF s = {} THEN 0 ELSE Picked(s).value + it[s \ {Picked(s)}]]
           sum == CHOOSE it : Adds(it)
<1>1. Total(S, LAMBDA r : r.value) = sum[S]
  BY ZenonT(30) DEF Total, MapThenSumSet, MapThenFoldSet, Picked
<1>2. ASSUME NEW s \in SUBSET S, s # {} PROVE f[Picked(s)] = Picked(s).value
  <2>1. Picked(s) \in S
    BY <1>2 DEF Picked
  <2> QED
    BY <2>1
<1>4. f \in [S -> Int]
  OBVIOUS
<1> HIDE DEF f
<1>3. ASSUME NEW it, NEW s \in SUBSET S
      PROVE  SumOf(it, f, s) = IF s = {} THEN 0 ELSE Picked(s).value + it[s \ {Picked(s)}]
  <2>1. CASE s = {}
    BY <2>1, ZenonT(30) DEF SumOf
  <2>2. CASE s # {}
    <3>1. SumOf(it, f, s) = f[Picked(s)] + it[s \ {Picked(s)}]
      BY <2>2, ZenonT(30) DEF SumOf
    <3> QED
      BY <1>2, <2>2, <3>1, ZenonT(30)
  <2> QED
    BY <2>1, <2>2, ZenonT(30)
<1>5. ASSUME NEW it PROVE Adds(it) <=> SumsUp(it, f, S)
  <2>1. [s \in SUBSET S |-> SumOf(it, f, s)]
          = [s \in SUBSET S |-> IF s = {} THEN 0 ELSE Picked(s).value + it[s \ {Picked(s)}]]
    BY <1>3, ZenonT(30)
  <2> QED
    BY <2>1, ZenonT(30) DEF SumsUp
<1>6. \E it : SumsUp(it, f, S)
  BY SumExists, ZenonT(30)
<1>7. SumsUp(sum, f, S)
  <2>1. \E it : Adds(it)
    BY <1>5, <1>6, ZenonT(30)
  <2> HIDE DEF Adds
  <2>2. Adds(sum)
    BY <2>1, ZenonT(30)
  <2> QED
    BY <1>5, <2>2, ZenonT(30)
<1> HIDE DEF sum
<1> QED
  BY <1>1, <1>4, <1>7, SumsAreInt, ZenonT(30)

\* The buckets of readings are rows of a chart.
LEMMA BucketsAreRows ==
  ASSUME NEW rows, IsFiniteSet(rows), \A r \in rows : r.time \in Int /\ r.value \in Int,
         NEW width \in Nat \ {0}, NEW start, NEW end, NEW raw
  PROVE  Buckets(rows, start, end, width, raw) \in Seq(ChartRow)
<1> DEFINE read == IF raw THEN Where(rows, {}, {}, start, end)
                   ELSE {r \in rows : LET b == BucketOf(r.time, width) IN
                           (\A t \in start : t <= b) /\ (\A t \in end : b <= t)}
           times == {BucketOf(r.time, width) : r \in read}
           n == Cardinality(times)
           inside(b) == {r \in rows : BucketOf(r.time, width) = b /\ (raw => r \in read)}
<1>1. Buckets(rows, start, end, width, raw) =
        [i \in 1..n |-> [bucket |-> Nth(times, i), value |-> Average(inside(Nth(times, i)), LAMBDA r : r.value)]]
  BY ZenonT(30) DEF Buckets
<1>2. read \subseteq rows
  BY DEF Where
<1> HIDE DEF read
<1>3. \A r \in rows : BucketOf(r.time, width) \in Int
  BY DEF BucketOf
<1>4. times \in SUBSET Int
  BY <1>2, <1>3
<1>5. IsFiniteSet(times)
  <2>1. IsFiniteSet(read)
    BY <1>2, FS_Subset
  <2> DEFINE f == [r \in read |-> BucketOf(r.time, width)]
  <2>2. f \in Surjection(read, times)
    BY DEF Surjection
  <2> QED
    BY <2>1, <2>2, FS_Surjection
<1>6. n \in Nat
  BY <1>5, FS_CardinalityType
<1>7. ASSUME NEW b \in times PROVE Average(inside(b), LAMBDA r : r.value) \in Int
  <2>1. inside(b) \subseteq rows
    OBVIOUS
  <2>2. inside(b) # {}
    <3>1. PICK r \in read : b = BucketOf(r.time, width)
      BY <1>7, ZenonT(30)
    <3>2. r \in inside(b)
      BY <1>2, <3>1
    <3> QED
      BY <3>2
  <2> DEFINE some == inside(b)
  <2>3. some \subseteq rows /\ some # {}
    BY <2>1, <2>2
  <2> HIDE DEF inside, some
  <2>4. IsFiniteSet(some) /\ \A r \in some : r.value \in Int
    BY <2>3, FS_Subset
  <2>5. Total(some, LAMBDA r : r.value) \in Int
    BY <2>4, TotalOfValues, ZenonT(30)
  <2>6. Cardinality(some) \in Nat /\ Cardinality(some) # 0
    BY <2>3, <2>4, FS_CardinalityType, FS_EmptySet
  <2> DEFINE sum == Total(some, LAMBDA r : r.value)
             count == Cardinality(some)
  <2>7. Average(some, LAMBDA r : r.value) = sum \div count
    BY ZenonT(30) DEF Average
  <2>8. sum \in Int /\ count \in Nat \ {0}
    BY <2>5, <2>6
  <2> HIDE DEF sum, count
  <2>9. sum \div count \in Int
    BY <2>8
  <2>10. Average(some, LAMBDA r : r.value) \in Int
    BY <2>7, <2>9
  <2> QED
    BY <2>10 DEF some
<1>8. \A i \in 1..n : Nth(times, i) \in times
  <2> HIDE DEF times
  <2> QED
    BY <1>4, <1>5, NthIsOne
<1> DEFINE row(i) == [bucket |-> Nth(times, i), value |-> Average(inside(Nth(times, i)), LAMBDA r : r.value)]
<1>9. ASSUME NEW i \in 1..n PROVE row(i) \in ChartRow
  <2> HIDE DEF times, n, inside
  <2>1. Nth(times, i) \in Int /\ Average(inside(Nth(times, i)), LAMBDA r : r.value) \in Int
    BY <1>4, <1>7, <1>8
  <2> DEFINE b == Nth(times, i)
             v == Average(inside(Nth(times, i)), LAMBDA r : r.value)
  <2>2. b \in Int /\ v \in Int
    BY <2>1
  <2> HIDE DEF b, v
  <2>3. [bucket |-> b, value |-> v] \in ChartRow
    BY <2>2 DEF ChartRow
  <2> QED
    BY <2>3 DEF b, v
<1>10. Buckets(rows, start, end, width, raw) = [i \in 1..n |-> row(i)]
  BY <1>1, ZenonT(30)
<1> HIDE DEF row, n
<1> QED
  BY <1>6, <1>9, <1>10

\* A page of a sequence is made of its elements.
LEMMA PageOfSeq ==
  ASSUME NEW S, NEW s \in Seq(S), NEW offset \in Nat, NEW limit \in Nat
  PROVE  /\ Page(s, offset, limit) \in Seq(S)
         /\ \A i \in DOMAIN Page(s, offset, limit) : Page(s, offset, limit)[i] \in S
<1> DEFINE m == Min({offset + limit, Len(s)})
<1>1. {offset + limit, Len(s)} \in SUBSET Int /\ {offset + limit, Len(s)} # {}
  OBVIOUS
<1>2. IsFiniteSet({offset + limit, Len(s)})
  <2>1. IsFiniteSet({offset + limit, Len(s), Len(s)})
    BY ThreeAreFinite, ZenonT(30)
  <2>2. {offset + limit, Len(s), Len(s)} = {offset + limit, Len(s)}
    OBVIOUS
  <2> QED
    BY <2>1, <2>2
<1>3. m \in {offset + limit, Len(s)} /\ m <= Len(s)
  BY <1>1, <1>2, Extremes
<1>4. m \in Nat /\ m <= Len(s)
  BY <1>3
<1>5. Page(s, offset, limit) = SubSeq(s, offset + 1, m)
  BY DEF Page
<1> HIDE DEF m
<1>6. SubSeq(s, offset + 1, m) \in Seq(S)
  BY <1>4
<1> QED
  BY <1>5, <1>6

\* Markers are rows of a chart.
LEMMA MarkerIsRow ==
  ASSUME NEW p, NEW q, p.bucket \in Int, q.bucket \in Int
  PROVE  Marker(p, q) \in ChartRow
<1> DEFINE middle == (p.bucket + q.bucket) \div 2
<1>1. middle \in Int
  OBVIOUS
<1> HIDE DEF middle
<1>2. Marker(p, q) = [bucket |-> middle, value |-> Gap]
  BY DEF Marker, middle
<1> QED
  BY <1>1, <1>2 DEF ChartRow, Gap

LEMMA MarkedIsChart ==
  ASSUME NEW rows \in Seq(ChartRow), NEW width \in Nat
  PROVE  InsertGapMarkers(rows, width) \in Seq(ChartRow)
<1> DEFINE piece(i) == IF i > 1 /\ rows[i].bucket - rows[i - 1].bucket > 3 * width
                         THEN <<Marker(rows[i - 1], rows[i]), rows[i]>>
                         ELSE <<rows[i]>>
           n == Len(rows)
<1>1. n \in Nat /\ DOMAIN rows = 1..n
  OBVIOUS
<1>2. InsertGapMarkers(rows, width) = FlattenSeq([i \in 1..n |-> piece(i)])
  BY <1>1, ZenonT(30) DEF InsertGapMarkers
<1>3. ASSUME NEW i \in 1..n PROVE piece(i) \in Seq(ChartRow)
  <2>1. rows[i] \in ChartRow /\ rows[i].bucket \in Int
    BY RowFields
  <2>2. CASE i > 1 /\ rows[i].bucket - rows[i - 1].bucket > 3 * width
    <3>1. i - 1 \in 1..n
      BY <2>2
    <3>2. rows[i - 1].bucket \in Int
      BY <3>1, RowFields
    <3>3. Marker(rows[i - 1], rows[i]) \in ChartRow
      BY <2>1, <3>2, MarkerIsRow
    <3> DEFINE m == Marker(rows[i - 1], rows[i])
               r == rows[i]
    <3>4. piece(i) = <<m, r>>
      BY <2>2
    <3>5. m \in ChartRow /\ r \in ChartRow
      BY <2>1, <3>3
    <3> HIDE DEF m, r, piece
    <3>6. <<m, r>> \in Seq(ChartRow)
      BY <3>5
    <3> QED
      BY <3>4, <3>6
  <2>3. CASE ~ (i > 1 /\ rows[i].bucket - rows[i - 1].bucket > 3 * width)
    <3>1. piece(i) = <<rows[i]>>
      BY <2>3
    <3> HIDE DEF piece
    <3> QED
      BY <2>1, <3>1
  <2> QED
    BY <2>2, <2>3
<1> DEFINE pieces == [i \in 1..n |-> piece(i)]
<1> HIDE DEF piece
<1>4. pieces \in Seq(Seq(ChartRow))
  BY <1>1, <1>3
<1> HIDE DEF pieces
<1>5. PICK f \in [0..Len(pieces) -> Seq(ChartRow)] : FlattenSeq(pieces) = f[Len(pieces)]
  BY <1>4, FlattenSteps
<1>6. Len(pieces) \in 0..Len(pieces)
  BY <1>4
<1>7. FlattenSeq(pieces) \in Seq(ChartRow)
  BY <1>5, <1>6
<1> QED
  BY <1>2, <1>7 DEF pieces

\* The row a bucket contributes is one of the series, whatever gaps are there.
LEMMA PickIsInside ==
  ASSUME NEW rows, NEW threshold, Oversized(rows, threshold), NEW b \in 0..threshold - 3,
         NEW a \in 0..Len(rows) - 1
  PROVE  PickRow(rows, threshold, b, a) \in 0..Len(rows) - 1
<1> DEFINE bucket == Bucket(rows, threshold, b)
           next == NextBucket(rows, threshold, b)
           live == {j \in next : ~IsGap(rows[j + 1])}
           gaps == {j \in bucket : IsGap(rows[j + 1])}
           s == Start(rows, threshold, b)
           t == Start(rows, threshold, b + 1)
           u == Start(rows, threshold, b + 2)
           nextEnd == IF u < Len(rows) THEN u ELSE Len(rows)
           j == PickRow(rows, threshold, b, a)
<1>1. /\ rows \in Seq(ChartRow) /\ Len(rows) \in Nat
      /\ bucket \subseteq 0..Len(rows) - 1 /\ next \subseteq 0..Len(rows) - 1
      /\ s \in Int /\ t \in Int /\ t \in 2..Len(rows) - 1 /\ s < t
  <2>1. 1..Len(rows) - 2 \subseteq 0..Len(rows) - 1 /\ 2..Len(rows) - 1 \subseteq 0..Len(rows) - 1
    BY DEF Oversized
  <2>2. rows \in Seq(ChartRow) /\ Len(rows) \in Nat
    BY DEF Oversized
  <2>3. s \in 1..Len(rows) - 2 /\ t \in 2..Len(rows) - 1 /\ s < t
    BY BucketsAreInside
  <2>4. s \in Int /\ t \in Int
    BY <2>3
  <2> QED
    BY <2>1, <2>2, <2>3, <2>4, BucketsAreInside
<1>2. u \in Nat
  <2>1. b + 2 \in Nat /\ threshold \in Nat /\ threshold >= 3 /\ threshold < Len(rows)
    BY DEF Oversized
  <2> QED
    BY <1>1, <2>1, StartsAscend
<1>3. j = IF live = {} THEN (t + nextEnd - 1) \div 2
          ELSE IF gaps # {} THEN CHOOSE i \in gaps : \A k \in gaps : i <= k
          ELSE Largest(rows, bucket, live, a)
  BY ZenonT(30) DEF PickRow, Bucket, NextBucket, Start, Largest, IsLargest, CornerArea
<1> HIDE DEF j
<1>4. ASSUME live = {} PROVE j \in 0..Len(rows) - 1
  <2>1. j = (t + nextEnd - 1) \div 2
    BY <1>3, <1>4, ZenonT(30)
  <2>2. nextEnd \in Nat /\ nextEnd <= Len(rows)
    BY <1>1, <1>2
  <2> HIDE DEF t, nextEnd
  <2>3. t + nextEnd - 1 \in Nat /\ t + nextEnd - 1 <= 2 * (Len(rows) - 1)
    BY <1>1, <2>2
  <2> DEFINE z == t + nextEnd - 1
  <2>4. z \in Nat /\ z <= 2 * (Len(rows) - 1) /\ j = z \div 2 /\ Len(rows) \in Nat
    BY <1>1, <2>1, <2>3
  <2> HIDE DEF z
  <2> QED
    BY <2>4
<1>5. ASSUME live # {}, gaps # {} PROVE j \in 0..Len(rows) - 1
  <2>1. j = CHOOSE i \in gaps : \A k \in gaps : i <= k
    BY <1>3, <1>5, ZenonT(30)
  <2>2. gaps \in SUBSET Nat /\ gaps \subseteq 0..Len(rows) - 1
    BY <1>1
  <2> HIDE DEF gaps
  <2>3. \E i \in gaps : \A k \in gaps : i <= k
    BY <1>5, <2>2, Smallest
  <2>4. j \in gaps
    BY <2>1, <2>3, ZenonT(30)
  <2> QED
    BY <2>2, <2>4
<1>6. ASSUME live # {}, gaps = {} PROVE j \in 0..Len(rows) - 1
  <2>1. j = Largest(rows, bucket, live, a)
    BY <1>3, <1>6, ZenonT(30)
  <2> DEFINE f == [k \in bucket |-> CornerArea(rows, live, a, k)]
  <2>2. live \in SUBSET (0..Len(rows) - 1)
    BY <1>1
  <2>3. \A k \in bucket : CornerArea(rows, live, a, k) \in Nat
    <3> HIDE DEF bucket, live
    <3> QED
      BY <1>1, <1>6, <2>2, AreaIsNat
  <2>4. bucket = s..s + (t - 1 - s) /\ t - 1 - s \in Nat
    BY <1>1 DEF Bucket
  <2>5. \A k \in bucket : f[k] \in Nat
    BY <2>3
  <2>6. \E i \in bucket : \A k \in bucket : f[k] < f[i] \/ (f[k] = f[i] /\ i <= k)
    <3> HIDE DEF f, bucket, s, t
    <3> QED
      BY <1>1, <2>4, <2>5, LargestExists
  <2>7. \E i \in bucket : IsLargest(rows, bucket, live, a, i)
    <3> HIDE DEF bucket, live
    <3> QED
      BY <2>6, ZenonT(30) DEF IsLargest
  <2> HIDE DEF bucket, live
  <2>8. j \in bucket
    BY <2>1, <2>7, ZenonT(30) DEF Largest
  <2> QED
    BY <1>1, <2>8
<1> QED
  BY <1>4, <1>5, <1>6 DEF j

\* A series that was thinned is a series, whatever gaps are there.
LEMMA ThinnedIsChart ==
  ASSUME NEW rows \in Seq(ChartRow), NEW threshold \in Nat
  PROVE  Lttb(rows, threshold) \in Seq(ChartRow)
<1> DEFINE n == Len(rows)
           d == threshold - 2
           Goes(f) == PickedUpTo(rows, threshold, f, d)
           picked == CHOOSE f : Goes(f)
           kept == SampledIndices(rows, threshold)
<1>1. n \in Nat
  OBVIOUS
<1>2. kept = IF threshold <= 2 \/ n <= threshold
               THEN [i \in 1..n |-> i - 1]
               ELSE [i \in 1..threshold - 1 |-> picked[i - 1]] \o <<n - 1>>
  BY ZenonT(30) DEF SampledIndices, PickedUpTo
<1> HIDE DEF picked, kept
<1>3. \E m \in Nat : /\ DOMAIN kept = 1..m
                     /\ \A i \in 1..m : kept[i] + 1 \in 1..n
  <2>1. CASE threshold <= 2 \/ n <= threshold
    <3>1. kept = [i \in 1..n |-> i - 1]
      BY <1>2, <2>1, ZenonT(30)
    <3> HIDE DEF n
    <3>2. DOMAIN kept = 1..n /\ \A i \in 1..n : kept[i] + 1 \in 1..n
      BY <1>1, <3>1
    <3> QED
      BY <1>1, <3>2, SMTT(30)
  <2>2. CASE ~ (threshold <= 2 \/ n <= threshold)
    <3>1. kept = [i \in 1..threshold - 1 |-> picked[i - 1]] \o <<n - 1>>
      BY <1>2, <2>2, ZenonT(30)
    <3>2. Oversized(rows, threshold) /\ d \in Nat /\ threshold - 1 \in Nat /\ n >= 4
      BY <1>1, <2>2 DEF Oversized
    <3>3. Goes(picked)
      <4>1. \E f : Goes(f)
        BY <3>2, PickedExists, ZenonT(30)
      <4> QED
        BY <4>1, ZenonT(30) DEF picked
    <3>4. picked[0] = 0
      <4>1. 0 \in 0..d
        BY <3>2
      <4> QED
        BY <3>3, <4>1, ZenonT(30) DEF PickedUpTo
    <3>5. ASSUME NEW i \in 1..d PROVE picked[i] = PickRow(rows, threshold, i - 1, picked[i - 1])
      <4>1. i \in 0..d /\ i # 0
        BY <3>2
      <4> QED
        BY <3>3, <4>1, ZenonT(30) DEF PickedUpTo
    <3> DEFINE T == {k \in 0..d : picked[k] \in 0..n - 1}
    <3>6. 0 \in T
      BY <3>2, <3>4
    <3>7. ASSUME NEW i \in 1..d, i - 1 \in T PROVE i \in T
      <4>1. i - 1 \in 0..threshold - 3 /\ i \in 0..d /\ picked[i - 1] \in 0..n - 1
        BY <3>2, <3>7
      <4>2. PickRow(rows, threshold, i - 1, picked[i - 1]) \in 0..n - 1
        BY <3>2, <4>1, PickIsInside, ZenonT(30)
      <4>3. picked[i] \in 0..n - 1
        BY <3>5, <4>2
      <4> QED
        BY <4>1, <4>3
    <3> HIDE DEF T
    <3>8. \A i \in 0..d : i \in T
      BY <3>2, <3>6, <3>7, UpTo, ZenonT(30)
    <3>9. \A i \in 1..threshold - 1 : picked[i - 1] \in 0..n - 1
      <4>1. \A i \in 1..threshold - 1 : i - 1 \in 0..d
        BY <3>2
      <4> QED
        BY <3>8, <4>1 DEF T
    <3> DEFINE I == 0..n - 1
               h == [i \in 1..threshold - 1 |-> picked[i - 1]]
    <3>10. h \in Seq(I)
      <4>1. h \in [1..threshold - 1 -> I]
        BY <3>9
      <4> HIDE DEF h, I
      <4> QED
        BY <3>2, <4>1
    <3> HIDE DEF h, n
    <3>11. n - 1 \in I
      BY <1>1, <3>2
    <3> HIDE DEF I
    <3>12. h \o <<n - 1>> \in Seq(I)
      BY <3>10, <3>11
    <3>13. kept \in Seq(I)
      BY <3>1, <3>12 DEF h
    <3>14. Len(kept) \in Nat /\ DOMAIN kept = 1..Len(kept) /\ \A i \in 1..Len(kept) : kept[i] \in I
      BY <3>13
    <3>15. \A i \in 1..Len(kept) : kept[i] + 1 \in 1..n
      BY <1>1, <3>14 DEF I
    <3> QED
      BY <3>14, <3>15
  <2> QED
    BY <2>1, <2>2
<1>4. PICK m \in Nat : DOMAIN kept = 1..m /\ \A i \in 1..m : kept[i] + 1 \in 1..n
  BY <1>3
<1>5. Lttb(rows, threshold) = [i \in 1..m |-> rows[kept[i] + 1]]
  BY <1>4, ZenonT(30) DEF Lttb, kept
<1>6. \A i \in 1..m : rows[kept[i] + 1] \in ChartRow
  BY <1>4, RowFields
<1> QED
  BY <1>5, <1>6

-----------------------------------------------------------------------------
(* What the client is told.                                                *)

\* An argument that is absent, or one that is not the zero for which absent stands.
Optional(argument, zero) == argument = {} \/ \E x : argument = {x} /\ x # zero

LEMMA WireKeeps ==
  ASSUME NEW argument, NEW zero, Optional(argument, zero)
  PROVE  FromWire(OnWire(argument, zero), zero) = argument
<1>1. CASE argument = {}
  BY <1>1, ZenonT(30) DEF FromWire, OnWire
<1>2. CASE argument # {}
  <2>1. PICK x : argument = {x} /\ x # zero
    BY <1>2 DEF Optional
  <2>2. (CHOOSE y \in argument : TRUE) = x
    BY <2>1
  <2>3. OnWire(argument, zero) = x
    BY <1>2, <2>2, ZenonT(30) DEF OnWire
  <2> QED
    BY <2>1, <2>3, ZenonT(30) DEF FromWire
<1> QED
  BY <1>1, <1>2

\* A row of a chart travels as it is.
LEMMA PointKeepsRow ==
  ASSUME NEW row \in ChartRow
  PROVE  [bucket |-> TelemetryPoint(row).bucket,
          value |-> IF TelemetryPoint(row).isGap THEN Gap ELSE TelemetryPoint(row).average] = row
<1>1. row = [bucket |-> row.bucket, value |-> row.value]
  BY DEF ChartRow
<1>2. CASE IsGap(row)
  <2>1. row.value = Gap
    BY <1>2 DEF IsGap
  <2> QED
    BY <1>1, <1>2, <2>1 DEF TelemetryPoint
<1>3. CASE ~IsGap(row)
  BY <1>1, <1>3 DEF TelemetryPoint
<1> QED
  BY <1>2, <1>3

LEMMA WidthIsPositive ==
  ASSUME NEW span, NEW age, NEW requested
  PROVE  BucketFor(span, age, requested) \in Nat \ {0}
<1>1. PickLevel(span) \in {NoBucket, Minute, 15 * Minute, Hour}
  BY ZenonT(30) DEF PickLevel
<1>2. RawBucketSize(span) \in {2, 5, 10, 15}
  BY ZenonT(30) DEF RawBucketSize
<1>3. BucketFor(span, age, requested) \in AllowedBuckets \cup {2, 5, 10, 15} \cup {Minute, 15 * Minute, Hour}
  BY <1>1, <1>2, ZenonT(30) DEF BucketFor
<1> QED
  BY <1>3, SMTT(30) DEF AllowedBuckets, Minute, Hour

\* A question about a chart.
Question(locomotive, sensor, start, end, offset, limit, bucket, points) ==
    [locomotive |-> locomotive, sensor |-> sensor, start |-> start, end |-> end,
     offset |-> offset, limit |-> limit, bucket |-> bucket, points |-> points]

LEMMA QuestionFields ==
  ASSUME NEW l, NEW s, NEW t, NEW e, NEW o, NEW n, NEW b, NEW p, NEW x
  PROVE  LET q == Question(l, s, t, e, o, n, b, p) IN
         /\ q.locomotive = l /\ q.sensor = s /\ q.start = t /\ q.end = e
         /\ q.offset = o /\ q.limit = n /\ q.bucket = b /\ q.points = p
         /\ [q EXCEPT !.locomotive = x] = Question(x, s, t, e, o, n, b, p)
         /\ [q EXCEPT !.sensor = x] = Question(l, x, t, e, o, n, b, p)
         /\ [q EXCEPT !.start = x] = Question(l, s, x, e, o, n, b, p)
         /\ [q EXCEPT !.end = x] = Question(l, s, t, x, o, n, b, p)
         /\ [q EXCEPT !.limit = x] = Question(l, s, t, e, o, x, b, p)
<1> DEFINE q == Question(l, s, t, e, o, n, b, p)
<1>1. /\ q.locomotive = l /\ q.sensor = s /\ q.start = t /\ q.end = e
      /\ q.offset = o /\ q.limit = n /\ q.bucket = b /\ q.points = p
  BY DEF Question
<1>2. [q EXCEPT !.locomotive = x] = Question(x, s, t, e, o, n, b, p)
  BY SMTT(30) DEF Question
<1>3. [q EXCEPT !.sensor = x] = Question(l, x, t, e, o, n, b, p)
  BY SMTT(30) DEF Question
<1>4. [q EXCEPT !.start = x] = Question(l, s, x, e, o, n, b, p)
  BY SMTT(30) DEF Question
<1>5. [q EXCEPT !.end = x] = Question(l, s, t, x, o, n, b, p)
  BY SMTT(30) DEF Question
<1>6. [q EXCEPT !.limit = x] = Question(l, s, t, e, o, x, b, p)
  BY SMTT(30) DEF Question
<1> QED
  BY <1>1, <1>2, <1>3, <1>4, <1>5, <1>6, ZenonT(30)

\* The question as it is sent, and as it is read.
SetFour(q, l, s, t, e) == [q EXCEPT !.locomotive = l, !.sensor = s, !.start = t, !.end = e]
Sent(q) == [q EXCEPT !.locomotive = OnWire(@, NoText), !.sensor = OnWire(@, NoText),
                     !.start = OnWire(@, NoTime), !.end = OnWire(@, NoTime)]
Read(q) == [q EXCEPT !.locomotive = FromWire(@, NoText), !.sensor = FromWire(@, NoText),
                     !.start = FromWire(@, NoTime), !.end = FromWire(@, NoTime), !.limit = OrDefault(@, 500)]

LEMMA FourFields ==
  ASSUME NEW l, NEW s, NEW t, NEW e, NEW o, NEW n, NEW b, NEW p, NEW l3, NEW s2, NEW t2, NEW e2
  PROVE  SetFour(Question(l, s, t, e, o, n, b, p), l3, s2, t2, e2) = Question(l3, s2, t2, e2, o, n, b, p)
<1>1. [Question(l, s, t, e, o, n, b, p) EXCEPT !.locomotive = l3] = Question(l3, s, t, e, o, n, b, p)
  BY QuestionFields
<1>2. [Question(l3, s, t, e, o, n, b, p) EXCEPT !.sensor = s2] = Question(l3, s2, t, e, o, n, b, p)
  BY QuestionFields
<1>3. [Question(l3, s2, t, e, o, n, b, p) EXCEPT !.start = t2] = Question(l3, s2, t2, e, o, n, b, p)
  BY QuestionFields
<1>4. [Question(l3, s2, t2, e, o, n, b, p) EXCEPT !.end = e2] = Question(l3, s2, t2, e2, o, n, b, p)
  BY QuestionFields
<1> QED
  BY <1>1, <1>2, <1>3, <1>4, ZenonT(30) DEF SetFour

LEMMA SentQuestion ==
  ASSUME NEW l, NEW s, NEW t, NEW e, NEW o, NEW n, NEW b, NEW p
  PROVE  Sent(Question(l, s, t, e, o, n, b, p))
           = Question(OnWire(l, NoText), OnWire(s, NoText), OnWire(t, NoTime), OnWire(e, NoTime), o, n, b, p)
<1> DEFINE q == Question(l, s, t, e, o, n, b, p)
<1>1. /\ q.locomotive = l /\ q.sensor = s /\ q.start = t /\ q.end = e
  BY QuestionFields
<1>2. Sent(q) = SetFour(q, OnWire(q.locomotive, NoText), OnWire(q.sensor, NoText),
                        OnWire(q.start, NoTime), OnWire(q.end, NoTime))
  <2> HIDE DEF q
  <2> QED
    BY ZenonT(30) DEF Sent, SetFour
<1>3. Sent(q) = SetFour(q, OnWire(l, NoText), OnWire(s, NoText), OnWire(t, NoTime), OnWire(e, NoTime))
  <2> HIDE DEF q
  <2> QED
    BY <1>1, <1>2, ZenonT(30)
<1> QED
  BY <1>3, FourFields, SMTT(30)

LEMMA ReadQuestion ==
  ASSUME NEW l, NEW s, NEW t, NEW e, NEW o, NEW n, NEW b, NEW p
  PROVE  Read(Question(l, s, t, e, o, n, b, p))
           = Question(FromWire(l, NoText), FromWire(s, NoText), FromWire(t, NoTime), FromWire(e, NoTime),
                      o, OrDefault(n, 500), b, p)
<1> DEFINE q == Question(l, s, t, e, o, n, b, p)
           four == SetFour(q, FromWire(l, NoText), FromWire(s, NoText), FromWire(t, NoTime), FromWire(e, NoTime))
<1>1. /\ q.locomotive = l /\ q.sensor = s /\ q.start = t /\ q.end = e /\ q.limit = n
  BY QuestionFields
<1>2. Read(q) = [SetFour(q, FromWire(q.locomotive, NoText), FromWire(q.sensor, NoText),
                         FromWire(q.start, NoTime), FromWire(q.end, NoTime)) EXCEPT !.limit = OrDefault(q.limit, 500)]
  <2> HIDE DEF q
  <2> QED
    BY ZenonT(30) DEF Read, SetFour
<1>3. Read(q) = [four EXCEPT !.limit = OrDefault(n, 500)]
  <2> HIDE DEF q
  <2> QED
    BY <1>1, <1>2, ZenonT(30)
<1>4. four = Question(FromWire(l, NoText), FromWire(s, NoText), FromWire(t, NoTime), FromWire(e, NoTime), o, n, b, p)
  BY FourFields, SMTT(30)
<1> HIDE DEF four
<1>5. [Question(FromWire(l, NoText), FromWire(s, NoText), FromWire(t, NoTime), FromWire(e, NoTime), o, n, b, p)
         EXCEPT !.limit = OrDefault(n, 500)]
        = Question(FromWire(l, NoText), FromWire(s, NoText), FromWire(t, NoTime), FromWire(e, NoTime),
                   o, OrDefault(n, 500), b, p)
  BY QuestionFields
<1> QED
  BY <1>3, <1>4, <1>5, ZenonT(30)

\* grpc_client.py:85: the chart the client is told of is the one query_bucketed() found, for
\* all readings and every question: a gap is a gap, a zero is a zero, and an argument that
\* is absent is absent.
THEOREM ChartsAreTold ==
  ASSUME NEW db, IsFiniteSet(db.readings), \A r \in db.readings : r.time \in Int /\ r.value \in Int,
         NEW now, NEW locomotive, Optional(locomotive, NoText), NEW sensor, Optional(sensor, NoText),
         NEW start, Optional(start, NoTime), NEW end, Optional(end, NoTime),
         NEW offset \in Nat, NEW limit \in Nat, NEW bucket, NEW points \in Nat
  PROVE  LET q(rows) == Question(locomotive, sensor, start, end, offset, rows, bucket, points)
         IN get_telemetry_bucketed(db, now, q(limit)) = QueryBucketed(db.readings, now, q(OrDefault(limit, 500)))
<1> DEFINE q(rows) == Question(locomotive, sensor, start, end, offset, rows, bucket, points)
           r == Sent(q(limit))
           asked == q(OrDefault(limit, 500))
           found == QueryBucketed(db.readings, now, asked)
<1>1. Read(r) = asked
  <2>1. /\ FromWire(OnWire(locomotive, NoText), NoText) = locomotive
        /\ FromWire(OnWire(sensor, NoText), NoText) = sensor
        /\ FromWire(OnWire(start, NoTime), NoTime) = start
        /\ FromWire(OnWire(end, NoTime), NoTime) = end
    BY WireKeeps, ZenonT(30)
  <2>2. r = Question(OnWire(locomotive, NoText), OnWire(sensor, NoText), OnWire(start, NoTime),
                     OnWire(end, NoTime), offset, limit, bucket, points)
    BY SentQuestion, SMTT(30)
  <2> HIDE DEF r
  <2> QED
    BY <2>1, <2>2, ReadQuestion, SMTT(30)
<1>2. GetTelemetryBucketed(db, now, r) = [i \in DOMAIN found |-> TelemetryPoint(found[i])]
  <2> HIDE DEF r, asked
  <2>1. GetTelemetryBucketed(db, now, r) =
          LET rows == QueryBucketed(db.readings, now, Read(r)) IN [i \in DOMAIN rows |-> TelemetryPoint(rows[i])]
    BY ZenonT(30) DEF GetTelemetryBucketed, Read
  <2> QED
    BY <1>1, <2>1, ZenonT(30)
<1>3. OrDefault(limit, 500) \in Nat
  BY DEF OrDefault
<1>4. found \in Seq(ChartRow)
  <2>0. asked.offset \in Nat /\ asked.limit \in Nat /\ asked.points \in Nat
    BY <1>3, QuestionFields
  <2> HIDE DEF asked
  <2> DEFINE rows == Where(db.readings, asked.locomotive, asked.sensor, {}, {})
             span == Span(asked.start, asked.end)
             age == IF asked.start = {} THEN 0 ELSE now - Max(asked.start)
             width == BucketFor(span, age, asked.bucket)
             buckets == Buckets(rows, asked.start, asked.end, width, ReadsRaw(span, age, asked.bucket))
             page == Page(buckets, asked.offset, asked.limit)
             marked == InsertGapMarkers(page, width)
  <2>1. found = IF asked.points # 0 /\ Len(marked) > asked.points THEN Lttb(marked, asked.points) ELSE marked
    BY ZenonT(30) DEF QueryBucketed
  <2>2. rows \subseteq db.readings
    BY DEF Where
  <2> HIDE DEF rows, found, age, span
  <2>3. IsFiniteSet(rows) /\ \A x \in rows : x.time \in Int /\ x.value \in Int
    BY <2>2, FS_Subset
  <2>4. width \in Nat \ {0}
    BY WidthIsPositive, ZenonT(30)
  <2> HIDE DEF width
  <2>5. buckets \in Seq(ChartRow)
    BY <2>3, <2>4, BucketsAreRows, ZenonT(30)
  <2> HIDE DEF buckets
  <2>6. page \in Seq(ChartRow)
    BY <2>0, <2>5, PageOfSeq, ZenonT(30)
  <2> HIDE DEF page
  <2>7. marked \in Seq(ChartRow)
    BY <2>4, <2>6, MarkedIsChart
  <2> HIDE DEF marked
  <2>8. Lttb(marked, asked.points) \in Seq(ChartRow)
    BY <2>0, <2>7, ThinnedIsChart
  <2> QED
    BY <2>1, <2>7, <2>8
<1> DEFINE sent == GetTelemetryBucketed(db, now, r)
           shows(i) == [bucket |-> sent[i].bucket, value |-> IF sent[i].isGap THEN Gap ELSE sent[i].average]
<1>5. get_telemetry_bucketed(db, now, q(limit)) = [i \in DOMAIN sent |-> shows(i)]
  BY ZenonT(30) DEF get_telemetry_bucketed, Sent
<1> HIDE DEF found, r
<1>6. DOMAIN sent = DOMAIN found /\ \A i \in DOMAIN found : sent[i] = TelemetryPoint(found[i])
  BY <1>2
<1>7. \A i \in DOMAIN found : shows(i) = found[i]
  <2>1. \A i \in DOMAIN found : found[i] \in ChartRow
    BY <1>4
  <2> HIDE DEF sent
  <2> QED
    BY <1>6, <2>1, PointKeepsRow, ZenonT(30)
<1>8. found = [i \in DOMAIN found |-> found[i]]
  BY <1>4
<1> HIDE DEF sent, shows
<1>9. get_telemetry_bucketed(db, now, q(limit)) = found
  BY <1>5, <1>6, <1>7, <1>8, ZenonT(30)
<1> QED
  BY <1>9, ZenonT(30) DEF found

\* The pages of a list are made of its rows.
LEMMA PagesOfRows ==
  ASSUME NEW rows, IsFiniteSet(rows), NEW s \in NewestFirst(rows), NEW offset \in Nat, NEW limit \in Nat
  PROVE  /\ s \in Seq(rows) /\ Page(s, offset, limit) \in Seq(rows)
         /\ \A i \in DOMAIN Page(s, offset, limit) : Page(s, offset, limit)[i] \in rows
<1>1. Cardinality(rows) \in Nat
  BY FS_CardinalityType
<1>2. s \in [1..Cardinality(rows) -> rows]
  BY ZenonT(30) DEF NewestFirst, SetToSeqs
<1> DEFINE n == Cardinality(rows)
<1>3. n \in Nat /\ s \in [1..n -> rows]
  BY <1>1, <1>2
<1> HIDE DEF n
<1>4. s \in Seq(rows)
  BY <1>3
<1> QED
  BY <1>4, PageOfSeq

\* A question about a list of alerts.
ListQuestion(locomotive, severity, acknowledged, start, end, offset, limit) ==
    [locomotive |-> locomotive, severity |-> severity, acknowledged |-> acknowledged,
     start |-> start, end |-> end, offset |-> offset, limit |-> limit]

YesOrNo(acknowledged) == acknowledged = {} \/ \E k : acknowledged = {k}

PlainAlert(a) ==
    a = [id |-> a.id, locomotive |-> a.locomotive, sensor |-> a.sensor, severity |-> a.severity,
         time |-> a.time, acknowledged |-> a.acknowledged]

LEMMA AlertsKeep ==
  ASSUME NEW s, NEW S, s \in Seq(S), \A a \in S : PlainAlert(a)
  PROVE  Alerts(s) = s
<1>1. \A i \in DOMAIN s : PlainAlert(s[i])
  BY ElementOfSeq
<1>2. ASSUME NEW a, PlainAlert(a) PROVE AlertToDict(AlertProto(a)) = a
  BY <1>2 DEF PlainAlert, AlertToDict, AlertProto
<1>3. \A i \in DOMAIN s : AlertToDict(AlertProto(s[i])) = s[i]
  BY <1>1, <1>2, ZenonT(30)
<1>4. s = [i \in DOMAIN s |-> s[i]]
  OBVIOUS
<1> QED
  BY <1>3, <1>4, ZenonT(30) DEF Alerts

\* grpc_client.py:147: the alerts the client is told of are those find_many() finds with the
\* filters it asked for, for every table: no answer to "acknowledged?" is neither yes nor no.
THEOREM ListsAreTold ==
  ASSUME NEW db, IsFiniteSet(db.alerts), \A a \in db.alerts : PlainAlert(a),
         NEW locomotive, Optional(locomotive, NoText), NEW severity, Optional(severity, NoText),
         NEW acknowledged, YesOrNo(acknowledged),
         NEW start, Optional(start, NoTime), NEW end, Optional(end, NoTime),
         NEW offset \in Nat, NEW limit \in Nat
  PROVE  list_alerts(db, ListQuestion(locomotive, severity, acknowledged, start, end, offset, limit))
           = FindMany(db.alerts, ListQuestion(locomotive, severity, acknowledged, start, end, offset,
                                              OrDefault(limit, 50)))
<1> DEFINE q == ListQuestion(locomotive, severity, acknowledged, start, end, offset, limit)
           asked == ListQuestion(locomotive, severity, acknowledged, start, end, offset, OrDefault(limit, 50))
           r == [locomotive |-> OnWire(locomotive, NoText), severity |-> OnWire(severity, NoText),
                 filterAcknowledged |-> acknowledged # {}, acknowledged |-> OnWire(acknowledged, FALSE),
                 start |-> OnWire(start, NoTime), end |-> OnWire(end, NoTime),
                 offset |-> offset, limit |-> limit]
           found == FindMany(db.alerts, asked)
<1>1. list_alerts(db, q) = {Alerts(rows) : rows \in ListAlerts(db, r)}
  <2>1. /\ q.locomotive = locomotive /\ q.severity = severity /\ q.acknowledged = acknowledged
        /\ q.start = start /\ q.end = end /\ q.offset = offset /\ q.limit = limit
    BY DEF ListQuestion
  <2> HIDE DEF q
  <2> QED
    BY <2>1, ZenonT(30) DEF list_alerts
<1>2. ListAlerts(db, r) = found
  <2>1. /\ FromWire(OnWire(locomotive, NoText), NoText) = locomotive
        /\ FromWire(OnWire(severity, NoText), NoText) = severity
        /\ FromWire(OnWire(start, NoTime), NoTime) = start
        /\ FromWire(OnWire(end, NoTime), NoTime) = end
    BY WireKeeps, ZenonT(30)
  <2>2. /\ r.locomotive = OnWire(locomotive, NoText) /\ r.severity = OnWire(severity, NoText)
        /\ r.start = OnWire(start, NoTime) /\ r.end = OnWire(end, NoTime)
        /\ r.offset = offset /\ r.limit = limit
        /\ r.filterAcknowledged = (acknowledged # {}) /\ r.acknowledged = OnWire(acknowledged, FALSE)
    BY ZenonT(30)
  <2> HIDE DEF r
  <2>3. AcknowledgedFilter(r) = acknowledged
    <3>1. CASE acknowledged = {}
      BY <2>2, <3>1, ZenonT(30) DEF AcknowledgedFilter
    <3>2. CASE acknowledged # {}
      <4>1. PICK k : acknowledged = {k}
        BY <3>2 DEF YesOrNo
      <4>2. (CHOOSE x \in acknowledged : TRUE) = k
        BY <4>1
      <4>3. OnWire(acknowledged, FALSE) = k
        BY <3>2, <4>2, ZenonT(30) DEF OnWire
      <4> QED
        BY <2>2, <3>2, <4>1, <4>3, ZenonT(30) DEF AcknowledgedFilter
    <3> QED
      BY <3>1, <3>2
  <2>4. [locomotive |-> FromWire(r.locomotive, NoText), severity |-> FromWire(r.severity, NoText),
         acknowledged |-> AcknowledgedFilter(r),
         start |-> FromWire(r.start, NoTime), end |-> FromWire(r.end, NoTime),
         offset |-> r.offset, limit |-> OrDefault(r.limit, 50)] = asked
    BY <2>1, <2>2, <2>3, ZenonT(30) DEF ListQuestion
  <2> HIDE DEF asked
  <2> QED
    BY <2>4, ZenonT(30) DEF ListAlerts
<1>3. ASSUME NEW rows \in found PROVE Alerts(rows) = rows
  <2>1. asked.offset \in Nat /\ asked.limit \in Nat
    BY DEF ListQuestion, OrDefault
  <2> HIDE DEF asked
  <2> DEFINE these == {a \in Where(db.alerts, asked.locomotive, {}, asked.start, asked.end) :
                         /\ asked.severity = {} \/ a.severity \in asked.severity
                         /\ asked.acknowledged = {} \/ a.acknowledged \in asked.acknowledged}
  <2>2. found = {Page(s, asked.offset, asked.limit) : s \in NewestFirst(these)}
    BY ZenonT(30) DEF FindMany
  <2>3. these \subseteq db.alerts
    BY DEF Where
  <2> HIDE DEF these, found
  <2>4. PICK s \in NewestFirst(these) : rows = Page(s, asked.offset, asked.limit)
    BY <2>2
  <2>5. IsFiniteSet(these)
    BY <2>3, FS_Subset
  <2>6. rows \in Seq(these)
    BY <2>1, <2>4, <2>5, PagesOfRows
  <2> QED
    BY <2>3, <2>6, AlertsKeep
<1> HIDE DEF r, found, q
<1>4. list_alerts(db, q) = found
  BY <1>1, <1>2, <1>3
<1> QED
  BY <1>4, ZenonT(30) DEF found, q

PlainReading(r) ==
    r = [time |-> r.time, locomotive |-> r.locomotive, type |-> r.type, sensor |-> r.sensor,
         value |-> r.value, filtered |-> r.filtered, latitude |-> r.latitude]

\* A reading, and its place, travel as they are.
LEMMA ReadingKeeps ==
  ASSUME NEW r, PlainReading(r), Optional(r.latitude, 0)
  PROVE  RawPointToDict(RawPoint(r)) = r
<1> DEFINE p == RawPoint(r)
<1>1. FromWire(OnWire(r.latitude, 0), 0) = r.latitude
  BY WireKeeps
<1>2. /\ p.time = r.time /\ p.locomotive = r.locomotive /\ p.type = r.type /\ p.sensor = r.sensor
      /\ p.value = r.value /\ p.filtered = r.filtered /\ p.latitude = OnWire(r.latitude, 0)
  BY DEF RawPoint
<1>3. [p EXCEPT !.latitude = r.latitude] =
        [time |-> r.time, locomotive |-> r.locomotive, type |-> r.type, sensor |-> r.sensor,
         value |-> r.value, filtered |-> r.filtered, latitude |-> r.latitude]
  BY SMTT(30) DEF RawPoint
<1> HIDE DEF p
<1>4. RawPointToDict(p) = [p EXCEPT !.latitude = r.latitude]
  BY <1>1, <1>2, ZenonT(30) DEF RawPointToDict
<1> QED
  BY <1>3, <1>4, ZenonT(30) DEF PlainReading, p

\* grpc_client.py:123: the readings the client is shown of a moment, and their places, are the
\* ones query_snapshot() found, for every table in which no place is on the equator.
THEOREM PlacesAreTold ==
  ASSUME NEW db, \A r \in db.readings : PlainReading(r) /\ Optional(r.latitude, 0),
         NEW locomotive, locomotive # NoText, NEW at, at # NoTime
  PROVE  LET reply == get_telemetry_snapshot(db, locomotive, at)
         IN reply.code = "OK" /\ reply.body = Snapshot(db.readings, locomotive, at)
<1> DEFINE request == [locomotive |-> locomotive, at |-> at]
           reply == GetTelemetrySnapshot(db, request)
           rows == Snapshot(db.readings, locomotive, at)
           answer == [reply EXCEPT !.body = {RawPointToDict(p) : p \in @}]
<1>1. reply = Answer({RawPoint(r) : r \in rows})
  <2>1. request.locomotive = locomotive /\ request.at = at
    OBVIOUS
  <2> HIDE DEF request
  <2> QED
    BY <2>1, ZenonT(30) DEF GetTelemetrySnapshot
<1>2. get_telemetry_snapshot(db, locomotive, at) = answer
  BY ZenonT(30) DEF get_telemetry_snapshot
<1>3. rows \subseteq db.readings
  BY DEF Snapshot, Where
<1> HIDE DEF rows
<1>4. reply.code = "OK" /\ reply.body = {RawPoint(r) : r \in rows} /\ DOMAIN reply = {"code", "body"}
  BY <1>1 DEF Answer
<1> HIDE DEF reply
<1>5. answer.code = "OK" /\ answer.body = {RawPointToDict(p) : p \in reply.body}
  BY <1>4
<1>6. {RawPointToDict(p) : p \in reply.body} = {RawPointToDict(RawPoint(r)) : r \in rows}
  BY <1>4
<1>7. \A r \in rows : RawPointToDict(RawPoint(r)) = r
  BY <1>3, ReadingKeeps
<1> HIDE DEF answer
<1> QED
  BY <1>2, <1>5, <1>6, <1>7 DEF rows

\* The entry of the cache that answers for a locomotive, if any.
Cached(db, locomotive) == locomotive \in DOMAIN db.cache /\ db.cache[locomotive].readable

PlainHealth(h) ==
    h = [locomotive |-> h.locomotive, type |-> h.type, score |-> h.score, category |-> h.category,
         factors |-> h.factors, damage |-> h.damage]

LEMMA NewestReadingExists ==
  ASSUME NEW readings, IsFiniteSet(readings), \A r \in readings : r.time \in Int, NEW locomotive
  PROVE  (LatestReadings(readings, locomotive) = {}) <=> ~ \E r \in readings : r.locomotive = locomotive
<1> DEFINE rows == Where(readings, {locomotive}, {}, {}, {})
           times == {r.time : r \in rows}
<1>1. rows = {r \in readings : r.locomotive = locomotive}
  BY DEF Where
<1>2. LatestReadings(readings, locomotive) = {r \in rows : \A s \in rows : s.sensor = r.sensor => s.time <= r.time}
  BY DEF LatestReadings
<1>3. ASSUME rows # {} PROVE LatestReadings(readings, locomotive) # {}
  <2>1. IsFiniteSet(rows) /\ \A r \in rows : r.time \in Int
    BY <1>1, FS_Subset
  <2> HIDE DEF rows
  <2>2. IsFiniteSet(times) /\ times \subseteq Int /\ times # {}
    <3> DEFINE f == [r \in rows |-> r.time]
    <3>1. f \in Surjection(rows, times)
      BY DEF Surjection
    <3> QED
      BY <1>3, <2>1, <3>1, FS_Surjection
  <2>3. PICK t \in times : \A u \in times : u <= t
    <3> HIDE DEF times
    <3>1. Cardinality(times) \in Nat /\ Cardinality(times) # 0
      BY <2>2, FS_CardinalityType, FS_EmptySet
    <3>2. Cardinality(times) - 1 \in Nat /\ Cardinality(times) = (Cardinality(times) - 1) + 1
      BY <3>1
    <3> QED
      BY <2>2, <3>2, HasExtremes
  <2>4. PICK r \in rows : r.time = t
    OBVIOUS
  <2> QED
    BY <1>2, <2>3, <2>4
<1> QED
  BY <1>1, <1>2, <1>3

LEMMA HealthTravels ==
  ASSUME NEW h, PlainHealth(h)
  PROVE  HealthToDict(h) = h /\ HealthToDict(HealthOfDict(h)) = h
<1>1. HealthToDict(h) = h
  BY ZenonT(30) DEF PlainHealth, HealthToDict
<1>2. HealthOfDict(h) = h
  BY ZenonT(30) DEF PlainHealth, HealthOfDict
<1> QED
  BY <1>1, <1>2, ZenonT(30)

LEMMA ComputedIsOf ==
  ASSUME NEW locomotive, NEW rows, NEW h \in ComputeHealth(locomotive, rows)
  PROVE  h.locomotive = locomotive /\ HealthToDict(h).locomotive = locomotive
<1> DEFINE cost == [s \in {r.sensor : r \in rows} |->
                      Total({r \in rows : r.sensor = s}, LAMBDA r : FallbackPenalty(s, r.value))]
           score == AtLeastZero(100000 - Total(DOMAIN cost, LAMBDA s : cost[s]))
           size == Min({5, Cardinality(DOMAIN cost)})
           costliest == {f \in kSubset(size, DOMAIN cost) :
                           \A s \in f, t \in DOMAIN cost \ f : cost[s] >= cost[t]}
           type == (CHOOSE r \in rows : TRUE).type
           Of(f) == [locomotive |-> locomotive, type |-> type, score |-> RoundTo(score, 100),
                     category |-> CategoryOf(score), factors |-> f, damage |-> 0]
<1>1. ComputeHealth(locomotive, rows) = {Of(f) : f \in costliest}
  BY SMTT(30) DEF ComputeHealth
<1>2. \A f : Of(f).locomotive = locomotive
  OBVIOUS
<1> HIDE DEF costliest, Of
<1>3. h.locomotive = locomotive
  <2>1. PICK f \in costliest : h = Of(f)
    BY <1>1
  <2> QED
    BY <1>2, <2>1, ZenonT(30)
<1>4. HealthToDict(h).locomotive = h.locomotive
  BY DEF HealthToDict
<1> QED
  BY <1>3, <1>4

\* servicer.py:122 and router_locomotives.py:50: a health is answered exactly for the
\* locomotives something is known of, for every table and cache: the cached one, of an entry
\* that decodes, and otherwise one computed of the locomotive's own readings; for any other
\* locomotive the answer is 404.
THEOREM HealthIsTold ==
  ASSUME NEW db, IsFiniteSet(db.readings), \A r \in db.readings : r.time \in Int,
         NEW locomotive, locomotive # NoText,
         Cached(db, locomotive) => /\ PlainHealth(db.cache[locomotive].health)
                                   /\ db.cache[locomotive].health.locomotive = locomotive
  PROVE  /\ get_locomotive_health(db, locomotive) =
              IF Cached(db, locomotive) \/ \E r \in db.readings : r.locomotive = locomotive THEN 200 ELSE 404
         /\ \A h \in get_current_health(db, locomotive).body : h.locomotive = locomotive
         /\ Cached(db, locomotive) =>
              get_current_health(db, locomotive).body = {db.cache[locomotive].health}
<1> DEFINE known == \E r \in db.readings : r.locomotive = locomotive
           rows == LatestReadings(db.readings, locomotive)
           health == db.cache[locomotive].health
           sent == GetCurrentHealth(db, locomotive)
           reply == get_current_health(db, locomotive)
           Told(body) == {HealthToDict(h) : h \in body}
<1>1. (rows = {}) <=> ~known
  BY NewestReadingExists
<1>2. sent = IF Cached(db, locomotive) THEN Answer({HealthOfDict(health)})
             ELSE IF rows = {} THEN Abort("NOT_FOUND") ELSE Answer(ComputeHealth(locomotive, rows))
  BY ZenonT(30) DEF GetCurrentHealth, Cached
<1>3. reply = [sent EXCEPT !.body = Told(@)]
  BY ZenonT(30) DEF get_current_health
<1> HIDE DEF rows, known, sent, reply, health
<1>4. /\ \A body : /\ Answer(body).code = "OK" /\ Answer(body).body = body
                   /\ DOMAIN Answer(body) = {"code", "body"}
      /\ \A code : /\ Abort(code).code = code /\ Abort(code).body = {}
                   /\ DOMAIN Abort(code) = {"code", "body"}
  BY DEF Answer, Abort
<1>5. reply.code = sent.code /\ reply.body = Told(sent.body)
  <2>1. DOMAIN sent = {"code", "body"}
    BY <1>2, <1>4, ZenonT(30)
  <2> QED
    BY <1>3, <2>1
<1>7. get_locomotive_health(db, locomotive) =
        IF \E h \in reply.body : h.locomotive = NoText THEN 500 ELSE HttpStatus(reply)
  BY ZenonT(30) DEF get_locomotive_health, HealthIndexStatus, reply
<1>8. CASE Cached(db, locomotive)
  <2>1. sent.code = "OK" /\ sent.body = {HealthOfDict(health)}
    BY <1>2, <1>4, <1>8, ZenonT(30)
  <2>2. Told(sent.body) = {HealthToDict(HealthOfDict(health))}
    BY <2>1
  <2>3. reply.code = "OK" /\ reply.body = {health}
    BY <1>5, <1>8, <2>1, <2>2, HealthTravels DEF health
  <2>4. HttpStatus(reply) = 200
    BY <2>3, OkIs200
  <2>5. health.locomotive = locomotive
    BY <1>8 DEF health
  <2>6. ~ \E h \in reply.body : h.locomotive = NoText
    BY <2>3, <2>5
  <2>7. get_locomotive_health(db, locomotive) = 200
    BY <1>7, <2>4, <2>6, ZenonT(30)
  <2>8. \A h \in reply.body : h.locomotive = locomotive
    BY <2>3, <2>5
  <2> QED
    BY <1>8, <2>3, <2>7, <2>8 DEF reply, health
<1>9. CASE ~Cached(db, locomotive) /\ ~known
  <2>1. sent.code = "NOT_FOUND" /\ sent.body = {}
    BY <1>1, <1>2, <1>4, <1>9, ZenonT(30)
  <2>2. reply.code = "NOT_FOUND" /\ reply.body = {}
    BY <1>5, <2>1, ZenonT(30)
  <2>3. HttpStatus(reply) = 404
    BY <2>2, NotFoundIs404
  <2> QED
    BY <1>7, <1>9, <2>2, <2>3, ZenonT(30) DEF reply, known
<1>10. CASE ~Cached(db, locomotive) /\ known
  <2>1. sent.code = "OK" /\ sent.body = ComputeHealth(locomotive, rows)
    BY <1>1, <1>2, <1>4, <1>10, ZenonT(30)
  <2>2. reply.code = "OK" /\ \A h \in reply.body : h.locomotive = locomotive
    <3>1. reply.code = "OK" /\ reply.body = {HealthToDict(h) : h \in ComputeHealth(locomotive, rows)}
      BY <1>5, <2>1, ZenonT(30)
    <3>2. \A h \in ComputeHealth(locomotive, rows) : HealthToDict(h).locomotive = locomotive
      BY ComputedIsOf, ZenonT(30)
    <3> QED
      BY <3>1, <3>2
  <2>3. HttpStatus(reply) = 200
    BY <2>2, OkIs200
  <2>4. ~ \E h \in reply.body : h.locomotive = NoText
    BY <2>2
  <2>5. get_locomotive_health(db, locomotive) = 200
    BY <1>7, <2>3, <2>4, ZenonT(30)
  <2> QED
    BY <1>10, <2>2, <2>5 DEF reply, known
<1> QED
  BY <1>8, <1>9, <1>10

\* The tables TablesOf() chooses from.
RangesOf(rows, n) == {{}} \cup {Range(s) : s \in [1..n -> rows]}

LEMMA RangesAreFinite ==
  ASSUME NEW rows, NEW n \in Nat, NEW t \in RangesOf(rows, n)
  PROVE  t \subseteq rows /\ IsFiniteSet(t)
<1>1. CASE t = {}
  BY <1>1, FS_EmptySet
<1>2. CASE t # {}
  <2>1. PICK s \in [1..n -> rows] : t = Range(s)
    BY <1>2 DEF RangesOf
  <2>2. t = {s[i] : i \in 1..n}
    BY <2>1 DEF Range
  <2>3. s \in Surjection(1..n, t)
    BY <2>1, <2>2 DEF Surjection
  <2>4. IsFiniteSet(1..n)
    BY FS_Interval
  <2> QED
    BY <2>1, <2>2, <2>3, <2>4, FS_Surjection
<1> QED
  BY <1>1, <1>2

LEMMA SparseRows ==
  ASSUME NEW t \in SparseReadings
  PROVE  IsFiniteSet(t) /\ \A r \in t : r.time \in Int /\ r.value \in Int
<1> DEFINE rows == {[time |-> x, locomotive |-> "a", type |-> "TE33A", sensor |-> "speed_actual", value |-> v,
                     filtered |-> v, latitude |-> {}] : x \in {0, 2, 4, 20, 60}, v \in {0, 400}}
<1>1. \A r \in rows : r.time \in Int /\ r.value \in Int
  OBVIOUS
<1>2. t \in RangesOf(rows, 4)
  BY DEF SparseReadings, TablesOf, RangesOf
<1> HIDE DEF rows
<1>3. t \subseteq rows /\ IsFiniteSet(t)
  BY <1>2, RangesAreFinite
<1> QED
  BY <1>1, <1>3

LEMMA ReadingRows ==
  ASSUME NEW t \in ReadingTables
  PROVE  IsFiniteSet(t) /\ \A r \in t : r.time \in Int
<1> DEFINE rows == {[time |-> x, locomotive |-> l, type |-> TypeOf[l], sensor |-> s, value |-> v,
                     filtered |-> v \div 2, latitude |-> IF x = 0 THEN {} ELSE {5110}] :
                       x \in Instants, l \in Locos, s \in {"speed_actual", "oil_pressure"}, v \in {0, 400}}
<1>1. \A r \in rows : r.time \in Int
  BY DEF Instants
<1>2. t \in RangesOf(rows, 3)
  BY DEF ReadingTables, TablesOf, RangesOf
<1> HIDE DEF rows
<1>3. t \subseteq rows /\ IsFiniteSet(t)
  BY <1>2, RangesAreFinite
<1> QED
  BY <1>1, <1>3

LEMMA AlertRows ==
  ASSUME NEW t \in AlertTables
  PROVE  IsFiniteSet(t) /\ \A a \in t : PlainAlert(a)
<1> DEFINE rows == {[time |-> x, id |-> i, locomotive |-> l, sensor |-> "oil_pressure", severity |-> s,
                     acknowledged |-> k] :
                       x \in Instants, i \in 1..3, l \in Locos, s \in {"warning", "critical"}, k \in BOOLEAN}
<1>1. \A a \in rows : PlainAlert(a)
  BY DEF PlainAlert
<1>2. t \in RangesOf(rows, 2)
  BY DEF AlertTables, TablesOf, RangesOf
<1> HIDE DEF rows
<1>3. t \subseteq rows /\ IsFiniteSet(t)
  BY <1>2, RangesAreFinite
<1> QED
  BY <1>1, <1>3

\* The tables of the promises: one of them filled.
HoldingReadings(rows) == [NoRows EXCEPT !.readings = rows]
HoldingAlerts(rows) == [NoRows EXCEPT !.alerts = rows]
HoldingCache(rows, entries) == [NoRows EXCEPT !.readings = rows, !.cache = entries]

LEMMA OneTable ==
  ASSUME NEW rows, NEW entries
  PROVE  /\ HoldingReadings(rows).readings = rows
         /\ HoldingAlerts(rows).alerts = rows
         /\ HoldingCache(rows, entries).readings = rows
         /\ HoldingCache(rows, entries).cache = entries
BY SMTT(30) DEF NoRows, HoldingReadings, HoldingAlerts, HoldingCache

LEMMA OneIsOptional ==
  ASSUME NEW zero
  PROVE  Optional({}, zero) /\ \A x : x # zero => Optional({x}, zero)
BY ZenonT(30) DEF Optional

\* What each of the promises says of one question.
ChartTold(rows, start, end, limit, points) ==
    LET q == [locomotive |-> {"a"}, sensor |-> {"speed_actual"}, start |-> start, end |-> end,
              offset |-> 0, limit |-> limit, bucket |-> 2, points |-> points]
    IN get_telemetry_bucketed(HoldingReadings(rows), 60, q)
         = QueryBucketed(rows, 60, [q EXCEPT !.limit = OrDefault(limit, 500)])

ListTold(alerts, filter, severity, acknowledged, start) ==
    LET q == [locomotive |-> filter, severity |-> severity, acknowledged |-> acknowledged,
              start |-> start, end |-> {}, offset |-> 0, limit |-> 50]
    IN list_alerts(HoldingAlerts(alerts), q) = FindMany(alerts, q)

PlaceRow(latitude) ==
    [time |-> 0, locomotive |-> "a", type |-> "TE33A", sensor |-> "speed_actual",
     value |-> 0, filtered |-> 0, latitude |-> latitude]

HealthEntry(readable) == [readable |-> readable, health |-> CachedHealth]

HealthDb(rows, readable, cached) == HoldingCache(rows, [c \in cached |-> HealthEntry(readable)])

LEMMA NoDistortedCharts == DistortedCharts = {}
<1> SUFFICES ASSUME NEW rows \in SparseReadings,
                    NEW start \in {{}, {0}, {2}}, NEW end \in {{}, {60}},
                    NEW limit \in {0, 2, 500}, NEW points \in {0, 3}
             PROVE  ChartTold(rows, start, end, limit, points)
  <2>1. DistortedCharts =
          {rows \in SparseReadings :
             \E start \in {{}, {0}, {2}}, end \in {{}, {60}}, limit \in {0, 2, 500}, points \in {0, 3} :
               ~ChartTold(rows, start, end, limit, points)}
    BY ZenonT(30) DEF DistortedCharts, ChartTold, HoldingReadings
  <2> QED
    BY <2>1
<1> DEFINE db == HoldingReadings(rows)
           Q(n) == Question({"a"}, {"speed_actual"}, start, end, 0, n, 2, points)
<1>1. db.readings = rows
  BY OneTable, ZenonT(30)
<1>2. IsFiniteSet(rows) /\ \A r \in rows : r.time \in Int /\ r.value \in Int
  BY SparseRows
<1>3. /\ Optional({"a"}, NoText) /\ Optional({"speed_actual"}, NoText)
      /\ Optional(start, NoTime) /\ Optional(end, NoTime)
  <2>1. "a" # NoText /\ "speed_actual" # NoText /\ 0 # NoTime /\ 2 # NoTime /\ 60 # NoTime
    BY DEF NoText, NoTime
  <2>2. Optional({"a"}, NoText) /\ Optional({"speed_actual"}, NoText)
    BY <2>1, OneIsOptional, SMTT(30)
  <2>3. Optional(start, NoTime)
    BY <2>1, OneIsOptional, SMTT(30)
  <2>4. Optional(end, NoTime)
    BY <2>1, OneIsOptional, SMTT(30)
  <2> QED
    BY <2>2, <2>3, <2>4, ZenonT(30)
<1>4. get_telemetry_bucketed(db, 60, Q(limit)) = QueryBucketed(rows, 60, Q(OrDefault(limit, 500)))
  <2>1. limit \in Nat /\ points \in Nat /\ 0 \in Nat
    OBVIOUS
  <2> HIDE DEF db
  <2> QED
    BY <1>1, <1>2, <1>3, <2>1, ChartsAreTold, SMTT(30)
<1>5. [Q(limit) EXCEPT !.limit = OrDefault(limit, 500)] = Q(OrDefault(limit, 500))
  BY QuestionFields, SMTT(30)
<1> QED
  BY <1>4, <1>5, ZenonT(30) DEF ChartTold, Question

LEMMA NoDistortedLists == DistortedLists = {}
<1> SUFFICES ASSUME NEW alerts \in AlertTables, NEW filter \in Filters, NEW severity \in {{}, {"warning"}},
                    NEW acknowledged \in {{}, {TRUE}, {FALSE}}, NEW start \in {{}, {0}, {30}}
             PROVE  ListTold(alerts, filter, severity, acknowledged, start)
  <2>1. DistortedLists =
          {alerts \in AlertTables :
             \E filter \in Filters, severity \in {{}, {"warning"}}, acknowledged \in {{}, {TRUE}, {FALSE}},
                start \in {{}, {0}, {30}} :
               ~ListTold(alerts, filter, severity, acknowledged, start)}
    BY ZenonT(30) DEF DistortedLists, ListTold, HoldingAlerts
  <2> QED
    BY <2>1
<1> DEFINE db == HoldingAlerts(alerts)
           Q(n) == ListQuestion(filter, severity, acknowledged, start, {}, 0, n)
<1>1. db.alerts = alerts
  BY OneTable, ZenonT(30)
<1>2. IsFiniteSet(alerts) /\ \A a \in alerts : PlainAlert(a)
  BY AlertRows
<1>3. /\ Optional(filter, NoText) /\ Optional(severity, NoText)
      /\ Optional(start, NoTime) /\ Optional({}, NoTime)
  <2>1. "warning" # NoText /\ 0 # NoTime /\ 30 # NoTime /\ "a" # NoText /\ "b" # NoText
    BY DEF NoText, NoTime
  <2>2. filter \in {{}, {"a"}, {"b"}}
    BY DEF Filters, Locos
  <2> QED
    BY <2>1, <2>2, OneIsOptional, ZenonT(30)
<1>4. YesOrNo(acknowledged)
  BY ZenonT(30) DEF YesOrNo
<1>5. list_alerts(db, Q(50)) = FindMany(alerts, Q(OrDefault(50, 50)))
  <2>1. 50 \in Nat /\ 0 \in Nat
    OBVIOUS
  <2> HIDE DEF db
  <2> QED
    BY <1>1, <1>2, <1>3, <1>4, <2>1, ListsAreTold, SMTT(30)
<1>6. OrDefault(50, 50) = 50
  BY DEF OrDefault
<1> QED
  BY <1>5, <1>6, ZenonT(30) DEF ListTold, ListQuestion

LEMMA PlaceIsTold ==
  ASSUME NEW latitude, Optional(latitude, 0)
  PROVE  get_telemetry_snapshot(HoldingReadings({PlaceRow(latitude)}), "a", 0).body = {PlaceRow(latitude)}
<1> DEFINE row == PlaceRow(latitude)
           db == HoldingReadings({row})
<1>1. db.readings = {row}
  BY OneTable, ZenonT(30)
<1>2. PlainReading(row) /\ row.latitude = latitude /\ row.time = 0 /\ row.locomotive = "a"
  BY DEF PlainReading, PlaceRow
<1> HIDE DEF row
<1>3. Snapshot({row}, "a", 0) = {row}
  BY <1>2 DEF Snapshot, Where
<1>4. "a" # NoText /\ 0 # NoTime
  BY DEF NoText, NoTime
<1> HIDE DEF db
<1>5. \A r \in db.readings : PlainReading(r) /\ Optional(r.latitude, 0)
  BY <1>1, <1>2
<1>6. get_telemetry_snapshot(db, "a", 0).body = Snapshot(db.readings, "a", 0)
  BY <1>4, <1>5, PlacesAreTold, ZenonT(30)
<1>7. get_telemetry_snapshot(db, "a", 0).body = {row}
  BY <1>1, <1>3, <1>6, ZenonT(30)
<1> QED
  BY <1>7 DEF db, row

LEMMA NoDistortedPlaces == DistortedPlaces = {}
<1> DEFINE Told(latitude) ==
             get_telemetry_snapshot(HoldingReadings({PlaceRow(latitude)}), "a", 0).body = {PlaceRow(latitude)}
           places == {{}, {5110}, {4350}}
<1>1. DistortedPlaces = {latitude \in places : ~Told(latitude)}
  BY SMTT(30) DEF DistortedPlaces, HoldingReadings, PlaceRow
<1>2. Optional({}, 0) /\ Optional({5110}, 0) /\ Optional({4350}, 0)
  <2>1. 5110 # 0 /\ 4350 # 0
    OBVIOUS
  <2> QED
    BY <2>1, OneIsOptional
<1>3. ASSUME NEW latitude \in places PROVE Told(latitude)
  <2>1. Optional(latitude, 0)
    BY <1>2
  <2> QED
    BY <2>1, PlaceIsTold
<1> HIDE DEF Told, places
<1> QED
  BY <1>1, <1>3, ZenonT(30)

LEMMA NobodyMisinformed == Misinformed = {}
<1> DEFINE Heard(rows, readable, cached, l) == (l \in cached /\ readable) \/ \E r \in rows : r.locomotive = l
           Informed(rows, readable, cached, l) ==
             /\ get_locomotive_health(HealthDb(rows, readable, cached), l) =
                  IF Heard(rows, readable, cached, l) THEN 200 ELSE 404
             /\ \A h \in get_current_health(HealthDb(rows, readable, cached), l).body :
                  h.locomotive = l /\ (l \in cached /\ readable => h = HealthEntry(readable).health)
<1>0. ASSUME NEW rows \in ReadingTables, NEW readable \in BOOLEAN, NEW cached \in SUBSET {"a"}, NEW l \in Locos
      PROVE  Informed(rows, readable, cached, l)
  <2> DEFINE entry == HealthEntry(readable)
             health == entry.health
             entries == [c \in cached |-> entry]
             db == HealthDb(rows, readable, cached)
             known == Heard(rows, readable, cached, l)
  <2>1. entry.readable = readable /\ PlainHealth(health) /\ health.locomotive = "a"
    BY DEF HealthEntry, CachedHealth, PlainHealth
  <2>2. db.readings = rows /\ db.cache = entries
    BY OneTable, ZenonT(30) DEF HealthDb
  <2>3. l # NoText /\ (l \in cached => l = "a")
    BY DEF Locos, NoText
  <2>4. IsFiniteSet(rows) /\ \A r \in rows : r.time \in Int
    BY ReadingRows
  <2> HIDE DEF entry, db
  <2>5. (Cached(db, l) <=> l \in cached /\ readable) /\ (Cached(db, l) => db.cache[l].health = health)
    <3>1. DOMAIN db.cache = cached /\ \A c \in cached : db.cache[c] = entry
      BY <2>2
    <3> HIDE DEF entries
    <3> QED
      BY <2>1, <3>1, ZenonT(30) DEF Cached
  <2> HIDE DEF entries
  <2>6. Cached(db, l) => PlainHealth(db.cache[l].health) /\ db.cache[l].health.locomotive = l
    BY <2>1, <2>3, <2>5, ZenonT(30)
  <2>7. /\ get_locomotive_health(db, l) =
             IF Cached(db, l) \/ \E r \in db.readings : r.locomotive = l THEN 200 ELSE 404
        /\ \A h \in get_current_health(db, l).body : h.locomotive = l
        /\ Cached(db, l) => get_current_health(db, l).body = {db.cache[l].health}
    BY <2>2, <2>3, <2>4, <2>6, HealthIsTold, ZenonT(30)
  <2>8. get_locomotive_health(db, l) = IF known THEN 200 ELSE 404
    BY <2>2, <2>5, <2>7, ZenonT(30)
  <2>9. \A h \in get_current_health(db, l).body : h.locomotive = l /\ (l \in cached /\ readable => h = health)
    BY <2>5, <2>7
  <2> HIDE DEF known
  <2> QED
    BY <2>8, <2>9, ZenonT(30) DEF db, entry, known
<1>1. Misinformed =
        {rows \in ReadingTables : \E readable \in BOOLEAN, cached \in SUBSET {"a"}, l \in Locos :
            LET db == HealthDb(rows, readable, cached)
                known == Heard(rows, readable, cached, l)
            IN \/ get_locomotive_health(db, l) # IF known THEN 200 ELSE 404
               \/ \E h \in get_current_health(db, l).body :
                     \/ h.locomotive # l
                     \/ l \in cached /\ readable /\ h # HealthEntry(readable).health}
  BY ZenonT(30) DEF Misinformed, HealthDb, HealthEntry, HoldingCache
<1> HIDE DEF Heard
<1> QED
  BY <1>0, <1>1

\* What is absent and what is zero or false reach the client as the query found them, in the
\* charts, the filters and the places of the promise, and a health is answered exactly for
\* the locomotives something is known of (grpc_client.py:85, servicer.py:122).
THEOREM AnswersAreTold == Spec => []AnswersAreTrue
<1>1. AnswersAreTrue
  BY NoDistortedCharts, NoDistortedLists, NoDistortedPlaces, NobodyMisinformed DEF AnswersAreTrue
<1> QED
  BY <1>1, PTL

-----------------------------------------------------------------------------
(* Lists and counts.                                                       *)

\* A list names every row once, the newest first.
LEMMA ListNamesAll ==
  ASSUME NEW rows, IsFiniteSet(rows), \A r \in rows : r.time \in Int, NEW s \in NewestFirst(rows)
  PROVE  LET n == Cardinality(rows) IN
         /\ n \in Nat /\ s \in [1..n -> rows] /\ Len(s) = n
         /\ \A r \in rows : \E i \in 1..n : s[i] = r
         /\ \A i \in 1..n : \A j \in i..n : s[i].time >= s[j].time
<1> DEFINE n == Cardinality(rows)
<1>1. n \in Nat
  BY FS_CardinalityType
<1>2. s \in SetToSeqs(rows) /\ \A i \in 2..Len(s) : s[i - 1].time >= s[i].time
  BY ZenonT(30) DEF NewestFirst
<1>3. s \in [1..n -> rows] /\ \A i, j \in 1..n : i # j => s[i] # s[j]
  BY <1>2, ZenonT(30) DEF SetToSeqs
<1>4. \A r \in rows : \E i \in 1..n : s[i] = r
  <2>1. s \in Injection(1..n, rows)
    BY <1>3 DEF Injection, IsInjective
  <2>2. IsFiniteSet(1..n) /\ Cardinality(1..n) = n
    BY <1>1, FS_Interval
  <2>3. s \in Surjection(1..n, rows)
    <3> HIDE DEF n
    <3> QED
      BY <2>1, <2>2, FS_Injection DEF n
  <2> QED
    BY <2>3 DEF Surjection
<1> HIDE DEF n
<1>5. Len(s) = n
  BY <1>1, <1>3
<1>6. ASSUME NEW i \in 1..n, NEW j \in i..n PROVE s[i].time >= s[j].time
  <2> DEFINE T == {k \in Nat : k \in 0..(n - i) => s[i].time >= s[i + k].time}
  <2>1. \A k \in 1..n : s[k].time \in Int
    BY <1>3
  <2>2. 0 \in T
    BY <1>1, <2>1
  <2>3. ASSUME NEW k \in 1..(n - i), k - 1 \in T PROVE k \in T
    <3>1. i + k \in 2..n /\ i + (k - 1) \in 1..n /\ i \in 1..n /\ i + (k - 1) = (i + k) - 1
      BY <1>1
    <3>2. s[i + (k - 1)].time >= s[i + k].time
      BY <1>2, <1>5, <3>1
    <3>3. s[i].time >= s[i + (k - 1)].time
      BY <1>1, <2>3
    <3>4. s[i].time >= s[i + k].time
      BY <2>1, <3>1, <3>2, <3>3
    <3> QED
      BY <3>4
  <2>4. j - i \in 0..(n - i) /\ n - i \in Nat /\ i + (j - i) = j
    BY <1>1
  <2>5. j - i \in T
    <3> HIDE DEF T
    <3> QED
      BY <2>2, <2>3, <2>4, UpTo
  <2> QED
    BY <2>4, <2>5
<1> QED
  BY <1>1, <1>3, <1>4, <1>5, <1>6 DEF n

\* The first page of a sequence.
LEMMA FirstPage ==
  ASSUME NEW S, NEW s \in Seq(S), NEW limit \in Nat
  PROVE  /\ Page(s, 0, limit) \in Seq(S)
         /\ Len(Page(s, 0, limit)) = IF limit <= Len(s) THEN limit ELSE Len(s)
         /\ \A i \in 1..Len(Page(s, 0, limit)) : Page(s, 0, limit)[i] = s[i]
<1> DEFINE m == Min({0 + limit, Len(s)})
<1>1. {0 + limit, Len(s)} \in SUBSET Int /\ {0 + limit, Len(s)} # {}
  OBVIOUS
<1>2. IsFiniteSet({0 + limit, Len(s)})
  <2>1. IsFiniteSet({0 + limit, Len(s), Len(s)})
    BY ThreeAreFinite, ZenonT(30)
  <2>2. {0 + limit, Len(s), Len(s)} = {0 + limit, Len(s)}
    OBVIOUS
  <2> QED
    BY <2>1, <2>2
<1>3. m \in {0 + limit, Len(s)} /\ m <= 0 + limit /\ m <= Len(s)
  BY <1>1, <1>2, Extremes
<1>4. m \in Nat /\ m = IF limit <= Len(s) THEN limit ELSE Len(s)
  BY <1>3
<1>5. Page(s, 0, limit) = SubSeq(s, 0 + 1, m)
  BY DEF Page
<1> HIDE DEF m
<1>6. SubSeq(s, 1, m) \in Seq(S) /\ Len(SubSeq(s, 1, m)) = m /\ \A i \in 1..m : SubSeq(s, 1, m)[i] = s[i]
  BY <1>3, <1>4
<1>7. Page(s, 0, limit) = SubSeq(s, 1, m)
  BY <1>5
<1> HIDE DEF Page
<1> QED
  BY <1>4, <1>6, <1>7

\* The alerts a question asks for.
AskedFor(alerts, q) ==
    {a \in Where(alerts, q.locomotive, {}, q.start, q.end) :
       /\ q.severity = {} \/ a.severity \in q.severity
       /\ q.acknowledged = {} \/ a.acknowledged \in q.acknowledged}

\* alert_repository.py:46, "ORDER BY timestamp DESC OFFSET :off LIMIT :lim": for every table and
\* every filter, the first page of the list is as long as it may be, no alert that is left off
\* it is newer than one on it, and a page with room for all that was asked for shows it all.
THEOREM NewestComeFirst ==
  ASSUME NEW alerts, IsFiniteSet(alerts), \A a \in alerts : a.time \in Int,
         NEW q, q.offset = 0, q.limit \in Nat, NEW page \in FindMany(alerts, q)
  PROVE  LET asked == AskedFor(alerts, q) IN
         /\ Len(page) = IF q.limit <= Cardinality(asked) THEN q.limit ELSE Cardinality(asked)
         /\ Range(page) \subseteq asked
         /\ \A a \in Range(page), b \in asked \ Range(page) : b.time <= a.time
         /\ Cardinality(asked) <= q.limit => Range(page) = asked
<1> DEFINE asked == AskedFor(alerts, q)
           n == Cardinality(asked)
           m == IF q.limit <= n THEN q.limit ELSE n
<1>1. FindMany(alerts, q) = {Page(s, 0, q.limit) : s \in NewestFirst(asked)}
  BY ZenonT(30) DEF FindMany, AskedFor
<1>2. IsFiniteSet(asked) /\ \A a \in asked : a.time \in Int
  <2>1. asked \subseteq alerts
    BY DEF AskedFor, Where
  <2> HIDE DEF asked
  <2> QED
    BY <2>1, FS_Subset
<1> HIDE DEF asked
<1>3. PICK s \in NewestFirst(asked) : page = Page(s, 0, q.limit)
  BY <1>1
<1>4. /\ n \in Nat /\ s \in [1..n -> asked] /\ Len(s) = n
      /\ \A r \in asked : \E i \in 1..n : s[i] = r
      /\ \A i \in 1..n : \A j \in i..n : s[i].time >= s[j].time
  BY <1>2, ListNamesAll
<1> HIDE DEF n
<1>5. s \in Seq(asked)
  BY <1>4
<1>6. page \in Seq(asked) /\ Len(page) = m /\ \A i \in 1..m : page[i] = s[i]
  BY <1>3, <1>4, <1>5, FirstPage
<1>7. m \in Nat /\ m <= n /\ (n <= q.limit => m = n)
  BY <1>4
<1> HIDE DEF m
<1>8. Range(page) = {s[i] : i \in 1..m}
  BY <1>6 DEF Range
<1>9. Range(page) \subseteq asked
  BY <1>4, <1>7, <1>8
<1>10. ASSUME NEW a \in Range(page), NEW b \in asked \ Range(page) PROVE b.time <= a.time
  <2>1. PICK i \in 1..m : a = s[i]
    BY <1>8
  <2>2. PICK j \in 1..n : b = s[j]
    BY <1>4
  <2>3. j \notin 1..m
    BY <1>8, <2>2
  <2>4. i \in 1..n /\ j \in i..n
    BY <1>4, <1>7, <2>3
  <2>5. s[i].time >= s[j].time
    BY <1>4, <2>4
  <2>6. a.time \in Int /\ b.time \in Int
    BY <1>2, <1>9
  <2> QED
    BY <2>1, <2>2, <2>5, <2>6
<1>11. ASSUME n <= q.limit PROVE Range(page) = asked
  BY <1>4, <1>7, <1>8, <1>9, <1>11
<1> QED
  BY <1>6, <1>9, <1>10, <1>11 DEF asked, n, m

\* alert_repository.py:100 and :11: a window's summary counts what the list of the
\* same window shows, for every table, as long as the list has room for it.
THEOREM CountsMatchLists ==
  ASSUME NEW alerts, IsFiniteSet(alerts), \A a \in alerts : a.time \in Int,
         NEW start \in Int, NEW end \in Int, NEW limit \in Nat,
         FleetAlertSummary(alerts, start, end).total <= limit,
         NEW list \in FindMany(alerts, ListQuestion({}, {}, {}, {start}, {end}, 0, limit))
  PROVE  /\ Len(list) = FleetAlertSummary(alerts, start, end).total
         /\ Range(list) = Between(alerts, {}, start, end)
<1> DEFINE q == ListQuestion({}, {}, {}, {start}, {end}, 0, limit)
           found == Between(alerts, {}, start, end)
<1>1. /\ q.locomotive = {} /\ q.severity = {} /\ q.acknowledged = {} /\ q.start = {start} /\ q.end = {end}
      /\ q.offset = 0 /\ q.limit = limit
  BY DEF ListQuestion
<1> HIDE DEF q
<1>2. AskedFor(alerts, q) = found
  BY <1>1 DEF AskedFor, Where, Between
<1>3. FleetAlertSummary(alerts, start, end).total = Cardinality(found)
  BY DEF FleetAlertSummary
<1> HIDE DEF found
<1>4. Cardinality(found) \in Nat
  <2>1. found \subseteq alerts
    BY DEF found, Between
  <2> QED
    BY <2>1, FS_Subset, FS_CardinalityType
<1>5. /\ Len(list) = IF q.limit <= Cardinality(AskedFor(alerts, q)) THEN q.limit ELSE Cardinality(AskedFor(alerts, q))
      /\ Cardinality(AskedFor(alerts, q)) <= q.limit => Range(list) = AskedFor(alerts, q)
  <2>1. q.offset = 0 /\ q.limit \in Nat /\ list \in FindMany(alerts, q)
    BY <1>1 DEF q
  <2> QED
    BY <2>1, NewestComeFirst
<1> QED
  BY <1>1, <1>2, <1>3, <1>4, <1>5 DEF found

-----------------------------------------------------------------------------
(* Spikes.                                                                 *)

\* Numbers that are all c but for one, which is d; and what they add up to.
AllButOne(f, S, at, c, d) ==
  /\ f \in [S -> Int] /\ at \in S /\ c \in Int /\ d \in Int
  /\ f[at] = d
  /\ \A x \in S : x # at => f[x] = c

AddsUpTo(sum, n, c, d) == sum = c * n + (d - c)

\* The sum of as many equal numbers and one other.
LEMMA SumOfOneOther ==
  ASSUME NEW S, IsFiniteSet(S), NEW f, NEW it, SumsUp(it, f, S),
         NEW at, NEW c, NEW d, AllButOne(f, S, at, c, d)
  PROVE  AddsUpTo(it[S], Cardinality(S), c, d)
<1>a. f \in [S -> Int] /\ at \in S /\ c \in Int /\ d \in Int /\ f[at] = d
  BY DEF AllButOne
<1>b. \A x \in S : x # at => f[x] = c
  BY DEF AllButOne
<1>0. \A s \in SUBSET S : IsFiniteSet(s) /\ Cardinality(s) \in Nat /\ (s = {} <=> Cardinality(s) = 0)
  BY FS_Subset, FS_CardinalityType, FS_EmptySet
<1>1. \A s \in SUBSET S : it[s] = SumOf(it, f, s)
  BY ZenonT(30) DEF SumsUp
<1> DEFINE Good(s) == it[s] = c * Cardinality(s) + (IF at \in s THEN d - c ELSE 0)
           T == {k \in Nat : \A s \in SUBSET S : Cardinality(s) = k => Good(s)}
<1>2. 0 \in T
  <2>1. ASSUME NEW s \in SUBSET S, Cardinality(s) = 0 PROVE Good(s)
    <3>1. it[s] = 0 /\ s = {}
      BY <1>0, <1>1, <2>1 DEF SumOf
    <3>2. c * 0 = 0 /\ at \notin s
      BY <1>a, <3>1
    <3> QED
      BY <2>1, <3>1, <3>2
  <2> QED
    BY <2>1
<1>3. ASSUME NEW k \in T PROVE k + 1 \in T
  <2>1. ASSUME NEW s \in SUBSET S, Cardinality(s) = k + 1 PROVE Good(s)
    <3> DEFINE x == Picked(s)
               r == s \ {x}
    <3>1. s # {} /\ k \in Nat
      BY <1>0, <2>1
    <3>2. x \in S /\ r \in SUBSET S /\ Cardinality(r) = k /\ x \in s
      BY <1>0, <2>1, <3>1, PickedIsOne
    <3>3. Good(r)
      BY <1>3, <3>2
    <3>4. it[s] = f[x] + it[r]
      BY <1>1, <3>1 DEF SumOf
    <3>t. f[x] \in Int
      BY <1>a, <3>2
    <3>5. at \in r <=> (at \in s /\ at # x)
      OBVIOUS
    <3> HIDE DEF x, r
    <3>6. it[r] = c * k + (IF at \in r THEN d - c ELSE 0)
      BY <3>2, <3>3
    <3>7. c * (k + 1) = c * k + c /\ c * k \in Int
      BY <1>a, <3>1
    <3>8. CASE x = at
      <4>1. f[x] = d /\ at \in s /\ at \notin r
        BY <1>a, <3>2, <3>5, <3>8
      <4>2. it[s] = d + c * k
        BY <1>a, <3>4, <3>6, <3>7, <4>1
      <4> QED
        BY <1>a, <2>1, <3>7, <4>1, <4>2
    <3>9. CASE x # at
      <4>1. f[x] = c /\ (at \in r <=> at \in s)
        BY <1>b, <3>2, <3>5, <3>9
      <4> QED
        BY <1>a, <2>1, <3>4, <3>6, <3>7, <4>1
    <3> QED
      BY <3>8, <3>9
  <2> QED
    BY <2>1
<1> HIDE DEF T
<1>4. Cardinality(S) \in T
  <2>1. T \in SUBSET Nat
    BY DEF T
  <2>2. T = Nat
    BY <1>2, <1>3, <2>1, Induction, ZenonT(30)
  <2> QED
    BY <1>0, <2>2
<1> QED
  BY <1>a, <1>4 DEF T, AddsUpTo

\* The two sums of a z-score.
LEMMA TotalIsSum ==
  ASSUME NEW S, IsFiniteSet(S), NEW f \in [S -> Int]
  PROVE  \E it : SumsUp(it, f, S) /\ Total(S, LAMBDA x : f[x]) = it[S]
<1> DEFINE it == CHOOSE it : SumsUp(it, f, S)
<1>1. SumsUp(it, f, S)
  BY SumExists, ZenonT(30)
<1>2. Total(S, LAMBDA x : f[x]) = it[S]
  BY ZenonT(30) DEF Total, MapThenSumSet, MapThenFoldSet, SumsUp, SumOf, Picked
<1> HIDE DEF it
<1> QED
  BY <1>1, <1>2, ZenonT(30)

LEMMA TotalOfSquares ==
  ASSUME NEW S, IsFiniteSet(S), NEW v \in [S -> Int]
  PROVE  \E it : SumsUp(it, [x \in S |-> v[x] * v[x]], S) /\ Total(S, LAMBDA x : v[x] * v[x]) = it[S]
<1> DEFINE f == [x \in S |-> v[x] * v[x]]
           Adds(it) == it = [s \in SUBSET S |-> IF s = {} THEN 0
                                                ELSE v[Picked(s)] * v[Picked(s)] + it[s \ {Picked(s)}]]
           sum == CHOOSE it : Adds(it)
<1>1. Total(S, LAMBDA x : v[x] * v[x]) = sum[S]
  BY ZenonT(30) DEF Total, MapThenSumSet, MapThenFoldSet, Picked
<1>2. ASSUME NEW s \in SUBSET S, s # {} PROVE f[Picked(s)] = v[Picked(s)] * v[Picked(s)]
  <2>1. Picked(s) \in S
    BY <1>2 DEF Picked
  <2> QED
    BY <2>1
<1> HIDE DEF f
<1>3. ASSUME NEW it, NEW s \in SUBSET S
      PROVE  SumOf(it, f, s) = IF s = {} THEN 0 ELSE v[Picked(s)] * v[Picked(s)] + it[s \ {Picked(s)}]
  <2>1. CASE s = {}
    BY <2>1, ZenonT(30) DEF SumOf
  <2>2. CASE s # {}
    <3>1. SumOf(it, f, s) = f[Picked(s)] + it[s \ {Picked(s)}]
      BY <2>2, ZenonT(30) DEF SumOf
    <3> QED
      BY <1>2, <2>2, <3>1, ZenonT(30)
  <2> QED
    BY <2>1, <2>2, ZenonT(30)
<1>4. ASSUME NEW it PROVE Adds(it) <=> SumsUp(it, f, S)
  <2>1. [s \in SUBSET S |-> SumOf(it, f, s)]
          = [s \in SUBSET S |-> IF s = {} THEN 0 ELSE v[Picked(s)] * v[Picked(s)] + it[s \ {Picked(s)}]]
    BY <1>3, ZenonT(30)
  <2> QED
    BY <2>1, ZenonT(30) DEF SumsUp
<1>5. \E it : SumsUp(it, f, S)
  BY SumExists, ZenonT(30)
<1>6. SumsUp(sum, f, S)
  <2>1. \E it : Adds(it)
    BY <1>4, <1>5, ZenonT(30)
  <2> HIDE DEF Adds
  <2>2. Adds(sum)
    BY <2>1, ZenonT(30)
  <2> QED
    BY <1>4, <2>2, ZenonT(30)
<1> HIDE DEF sum
<1> QED
  BY <1>1, <1>6, ZenonT(30) DEF f

\* The deviations of n equal numbers and one h above them.
LEMMA Deviations ==
  ASSUME NEW n \in Nat, NEW c \in Int, NEW h \in Int
  PROVE  LET sum == c * n + h
             squares == (c * c) * n + ((c + h) * (c + h) - c * c)
         IN /\ n * squares - sum * sum = (n - 1) * (h * h)
            /\ n * (c + h) - sum = (n - 1) * h
            /\ n * c - sum = -h
<1>1. n * (c + h) - (c * n + h) = (n - 1) * h
  BY SMTT(30)
<1>2. n * c - (c * n + h) = -h
  BY SMTT(30)
<1>3. n * ((c * c) * n + ((c + h) * (c + h) - c * c)) - (c * n + h) * (c * n + h) = (n - 1) * (h * h)
  BY SMTT(30)
<1> QED
  BY <1>1, <1>2, <1>3

\* detect_zscore_anomalies(), and test_anomaly_detector.py:13, test_detect_single_outlier: in a
\* window of any length and at any level, a single value off all the others, however far, is
\* found as the anomaly exactly when there are more than ten values; and no other is.
THEOREM SpikesAreFound ==
  ASSUME NEW n \in Nat \ {0}, NEW at \in 1..n, NEW level \in Int, NEW height \in Int, height # 0
  PROVE  DetectZscoreAnomalies([i \in 1..n |-> IF i = at THEN level + height ELSE level])
           = IF n > 10 THEN {at} ELSE {}
<1> DEFINE v == [i \in 1..n |-> IF i = at THEN level + height ELSE level]
           S == 1..n
           sum == Total(S, LAMBDA i : v[i])
           squares == Total(S, LAMBDA i : v[i] * v[i])
           spread == n * squares - sum * sum
           off(i) == n * v[i] - sum
<1>1. v \in [S -> Int] /\ Len(v) = n /\ v[at] = level + height /\ \A i \in S : i # at => v[i] = level
  OBVIOUS
<1>2. IsFiniteSet(S) /\ Cardinality(S) = n /\ at \in S
  BY FS_Interval
<1>3. DetectZscoreAnomalies(v) =
        IF n < 2 \/ spread = 0 THEN {} ELSE {i \in S : off(i) * off(i) > 9 * spread}
  <2> HIDE DEF v
  <2> QED
    BY <1>1, ZenonT(30) DEF DetectZscoreAnomalies
<1> HIDE DEF v
<1>4. sum = level * n + height
  <2>1. PICK it : SumsUp(it, v, S) /\ sum = it[S]
    <3> HIDE DEF S
    <3> QED
      BY <1>1, <1>2, TotalIsSum, ZenonT(30)
  <2> HIDE DEF S, sum
  <2>2. AllButOne(v, S, at, level, level + height)
    BY <1>1, <1>2 DEF AllButOne
  <2>3. AddsUpTo(it[S], n, level, level + height)
    BY <1>2, <2>1, <2>2, SumOfOneOther, ZenonT(30)
  <2> QED
    BY <2>1, <2>3 DEF AddsUpTo
<1>5. squares = (level * level) * n + ((level + height) * (level + height) - level * level)
  <2> DEFINE sq == [i \in S |-> v[i] * v[i]]
             c == level * level
             d == (level + height) * (level + height)
  <2>1. PICK it : SumsUp(it, sq, S) /\ squares = it[S]
    <3> HIDE DEF S
    <3> QED
      BY <1>1, <1>2, TotalOfSquares, ZenonT(30)
  <2>2. sq \in [S -> Int] /\ sq[at] = d /\ (\A i \in S : i # at => sq[i] = c)
    BY <1>1, <1>2
  <2>3. c \in Int /\ d \in Int
    OBVIOUS
  <2> HIDE DEF S, sq, c, d, squares
  <2>4. AllButOne(sq, S, at, c, d)
    BY <1>2, <2>2, <2>3 DEF AllButOne
  <2>5. AddsUpTo(it[S], n, c, d)
    BY <1>2, <2>1, <2>4, SumOfOneOther, ZenonT(30)
  <2>6. squares = c * n + (d - c)
    BY <2>1, <2>5 DEF AddsUpTo
  <2> QED
    BY <2>6 DEF c, d
<1> HIDE DEF sum, squares
<1>6. /\ spread = (n - 1) * (height * height)
      /\ off(at) = (n - 1) * height
      /\ \A i \in S : i # at => off(i) = -height
  BY <1>1, <1>4, <1>5, Deviations
<1> DEFINE q == height * height
<1>7. q \in Nat \ {0}
  BY SMTT(30)
<1>8. off(at) * off(at) = (n - 1) * ((n - 1) * q) /\ \A i \in S : i # at => off(i) * off(i) = q
  <2>1. ((n - 1) * height) * ((n - 1) * height) = (n - 1) * ((n - 1) * q)
    BY SMTT(30)
  <2>2. (-height) * (-height) = q
    OBVIOUS
  <2> HIDE DEF off, q
  <2> QED
    BY <1>6, <2>1, <2>2
<1> HIDE DEF spread, off, q, S
<1>9. CASE n = 1
  <2>1. n < 2 /\ ~(n > 10)
    BY <1>9
  <2> QED
    BY <1>3, <2>1 DEF v, S
<1>10. CASE n # 1
  <2> DEFINE m == n - 1
             p == m * q
  <2>1. m \in Nat \ {0} /\ n = m + 1
    BY <1>10
  <2> HIDE DEF m
  <2>2. p \in Nat \ {0} /\ q <= p
    BY <1>7, <2>1
  <2>3. spread = p /\ off(at) * off(at) = m * p /\ \A i \in S : i # at => off(i) * off(i) = q
    BY <1>6, <1>8 DEF m, q
  <2> HIDE DEF p
  <2>4. m * p > 9 * p <=> m > 9
    BY <2>1, <2>2, SMTT(30)
  <2>5. ~(q > 9 * p)
    BY <1>7, <2>2
  <2>6. DetectZscoreAnomalies(v) = {i \in S : off(i) * off(i) > 9 * p}
    BY <1>3, <2>1, <2>2, <2>3
  <2>7. DetectZscoreAnomalies(v) = IF m > 9 THEN {at} ELSE {}
    BY <1>2, <2>3, <2>4, <2>5, <2>6
  <2> QED
    BY <2>1, <2>7 DEF v, S
<1> QED
  BY <1>9, <1>10

-----------------------------------------------------------------------------
(* The filter, and the engine it hears of.                                 *)

RawSpeed(setting) == IF setting = Asleep THEN 0 ELSE Rpm(setting)
RawPressure(setting) == IF setting = Asleep THEN 0 ELSE OilPressure(setting)

\* One reading: the first passes unchanged, a later one is smoothed with the one before it.
FilterStep(history, f, i) ==
    IF i = 1 THEN EngineReading(history[i])
    ELSE [s \in DOMAIN EngineReading(history[i]) |->
            EmaFilter(s, f[i - 1][s], EngineReading(history[i])[s])]

FilterUpTo(history, f, d) == f = [i \in 1..d |-> FilterStep(history, f, i)]

LEMMA FilterExists ==
  ASSUME NEW history, NEW d \in Nat
  PROVE  \E f : FilterUpTo(history, f, d)
<1> DEFINE Goes(f, k) == FilterUpTo(history, f, k)
           T == {k \in 0..d : \E f : Goes(f, k)}
<1>1. 0 \in T
  <2>1. 1..0 = {} /\ 0 \in 0..d
    OBVIOUS
  <2>2. Goes([i \in 1..0 |-> 0], 0)
    BY <2>1 DEF FilterUpTo
  <2> QED
    BY <2>1, <2>2, ZenonT(30)
<1>2. ASSUME NEW k \in 1..d, k - 1 \in T PROVE k \in T
  <2>1. PICK f : Goes(f, k - 1)
    BY <1>2
  <2> DEFINE g == [i \in 1..k |-> FilterStep(history, f, i)]
  <2>2. ASSUME NEW i \in 1..k PROVE FilterStep(history, g, i) = FilterStep(history, f, i)
    <3>1. CASE i = 1
      BY <3>1, ZenonT(30) DEF FilterStep
    <3>2. CASE i # 1
      <4>1. i - 1 \in 1..k - 1 /\ i - 1 \in 1..k
        BY <3>2
      <4>2. f[i - 1] = FilterStep(history, f, i - 1)
        BY <2>1, <4>1, ZenonT(30) DEF FilterUpTo
      <4>3. g[i - 1] = f[i - 1]
        BY <4>1, <4>2, ZenonT(30)
      <4> HIDE DEF g
      <4> QED
        BY <4>3, ZenonT(30) DEF FilterStep
    <3> QED
      BY <3>1, <3>2
  <2>3. Goes(g, k)
    BY <2>2, ZenonT(30) DEF FilterUpTo
  <2>4. k \in 0..d
    OBVIOUS
  <2> QED
    BY <2>3, <2>4, ZenonT(30)
<1> HIDE DEF T
<1>3. d \in T
  <2>1. d \in 0..d
    OBVIOUS
  <2> QED
    BY <1>1, <1>2, <2>1, UpTo, ZenonT(30)
<1> QED
  BY <1>3, ZenonT(30) DEF T

\* What an engine did in n readings.
IsHistory(history, n) == n \in Nat /\ history \in [1..n -> Setting]

LEMMA FilteredForm ==
  ASSUME NEW history, NEW n, IsHistory(history, n)
  PROVE  \A i \in 1..n : Filtered(history)[i] = FilterStep(history, Filtered(history), i)
<1> DEFINE Goes(f) == f = [i \in DOMAIN history |-> FilterStep(history, f, i)]
           filter == CHOOSE f : Goes(f)
<1>1. Filtered(history) = filter
  BY ZenonT(30) DEF Filtered, FilterStep
<1>a. DOMAIN history = 1..n /\ n \in Nat
  BY DEF IsHistory
<1>2. \E f : Goes(f)
  <2>1. \E f : FilterUpTo(history, f, n)
    BY <1>a, FilterExists
  <2> QED
    BY <1>a, <2>1, ZenonT(30) DEF FilterUpTo
<1>3. Goes(filter)
  BY <1>2, ZenonT(30)
<1> HIDE DEF filter
<1>4. \A i \in DOMAIN history : filter[i] = FilterStep(history, filter, i)
  BY <1>3, ZenonT(30)
<1> QED
  BY <1>a, <1>1, <1>4, ZenonT(30)

Speed(history, i) == Filtered(history)[i].diesel_rpm
Pressure(history, i) == Filtered(history)[i].oil_pressure

LEMMA RawReading ==
  ASSUME NEW setting
  PROVE  /\ DOMAIN EngineReading(setting) = {"diesel_rpm", "oil_pressure"}
         /\ EngineReading(setting)["diesel_rpm"] = RawSpeed(setting)
         /\ EngineReading(setting)["oil_pressure"] = RawPressure(setting)
BY DEF EngineReading, RawSpeed, RawPressure

Mixed(gain, raw, previous) == (gain * raw + (100 - gain) * previous) \div 100

LEMMA FilterRuns ==
  ASSUME NEW history, NEW n, IsHistory(history, n)
  PROVE  /\ \A i \in 1..n : DOMAIN Filtered(history)[i] = {"diesel_rpm", "oil_pressure"}
         /\ 1 \in 1..n => /\ Speed(history, 1) = RawSpeed(history[1])
                          /\ Pressure(history, 1) = RawPressure(history[1])
         /\ \A i \in 1..n : i # 1 =>
              /\ Speed(history, i) = Mixed(25, RawSpeed(history[i]), Speed(history, i - 1))
              /\ Pressure(history, i) = Mixed(20, RawPressure(history[i]), Pressure(history, i - 1))
<1> DEFINE f == Filtered(history)
           raw(i) == EngineReading(history[i])
           names == {"diesel_rpm", "oil_pressure"}
<1>1. \A i : DOMAIN raw(i) = names /\ raw(i)["diesel_rpm"] = RawSpeed(history[i])
                                   /\ raw(i)["oil_pressure"] = RawPressure(history[i])
  BY RawReading, ZenonT(30)
<1>2. \A i \in 1..n : f[i] = IF i = 1 THEN raw(i) ELSE [s \in DOMAIN raw(i) |-> EmaFilter(s, f[i - 1][s], raw(i)[s])]
  <2>1. \A i \in 1..n : Filtered(history)[i] = FilterStep(history, Filtered(history), i)
    BY FilteredForm
  <2> QED
    BY <2>1, ZenonT(30) DEF FilterStep
<1> HIDE DEF f, raw
<1>3. ASSUME NEW i \in 1..n, i # 1
      PROVE  /\ DOMAIN f[i] = names
             /\ f[i]["diesel_rpm"] = EmaFilter("diesel_rpm", f[i - 1]["diesel_rpm"], RawSpeed(history[i]))
             /\ f[i]["oil_pressure"] = EmaFilter("oil_pressure", f[i - 1]["oil_pressure"], RawPressure(history[i]))
  <2>1. f[i] = [s \in names |-> EmaFilter(s, f[i - 1][s], raw(i)[s])]
    BY <1>1, <1>2, <1>3, ZenonT(30)
  <2> QED
    BY <1>1, <2>1
<1>4. \A p, r : /\ EmaFilter("diesel_rpm", p, r) = Mixed(25, r, p)
                /\ EmaFilter("oil_pressure", p, r) = Mixed(20, r, p)
  BY DEF EmaFilter, Gain, Mixed
<1>5. 1 \in 1..n => f[1] = raw(1)
  BY <1>2, ZenonT(30)
<1>6. ASSUME NEW i \in 1..n PROVE DOMAIN f[i] = names
  <2> HIDE DEF names
  <2>1. CASE i = 1
    <3>1. f[i] = raw(1)
      BY <1>5, <2>1
    <3> QED
      BY <1>1, <3>1
  <2>2. CASE i # 1
    BY <1>3, <2>2
  <2> QED
    BY <2>1, <2>2
<1> QED
  BY <1>1, <1>3, <1>4, <1>5, <1>6, ZenonT(30) DEF Speed, Pressure, f

TopSpeed == 105000
TopPressure == 450

LEMMA TopsAreNat == TopSpeed \in Nat /\ TopPressure \in Nat
BY SMT DEF TopSpeed, TopPressure

\* What an engine is heard to do at once: it stands still, or its pressure is well above what
\* its speed asks for.
RawIsSound(c) ==
  /\ RawSpeed(c) \in 0..TopSpeed /\ RawPressure(c) \in 0..TopPressure
  /\ c = Asleep => RawSpeed(c) = 0
  /\ c # Asleep => /\ 700 * RawPressure(c) - RawSpeed(c) >= 134000
                   /\ 14000 * RawPressure(c) - 25 * RawSpeed(c) >= 2536000

LEMMA RawBounds ==
  ASSUME NEW c \in Setting
  PROVE  RawIsSound(c)
<1>1. CASE c = Asleep
  <2>1. RawSpeed(c) = 0 /\ RawPressure(c) = 0
    BY <1>1 DEF RawSpeed, RawPressure
  <2> QED
    BY <1>1, <2>1 DEF RawIsSound, TopSpeed, TopPressure
<1>2. CASE c # Asleep
  <2> DEFINE r == 30000 + c * 9375
             q == (r * 300) \div 105000
  <2>1. c \in 0..8
    BY <1>2 DEF Setting, Notch
  <2>2. RawSpeed(c) = r /\ RawPressure(c) = 150 + q
    BY <1>2 DEF RawSpeed, RawPressure, Rpm, OilPressure
  <2>3. r \in Nat /\ r >= 30000 /\ r <= 105000
    BY <2>1
  <2> HIDE DEF r
  <2>4. q \in Int /\ 105000 * q <= 300 * r /\ 300 * r < 105000 * q + 105000
    BY <2>3, SMTT(30)
  <2> HIDE DEF q
  <2>5. 350 * q <= r /\ r < 350 * q + 350
    BY <2>3, <2>4
  <2>6. 150 + q \in 0..450
    BY <2>3, <2>4, <2>5
  <2>7. /\ 700 * (150 + q) - r >= 134000
        /\ 14000 * (150 + q) - 25 * r >= 2536000
    <3>1. q >= 85 /\ r <= 350 * q + 349
      BY <2>3, <2>4, <2>5
    <3>2. 700 * (150 + q) - r >= 134000
      BY <2>3, <2>4, <3>1
    <3>3. 14000 * (150 + q) - 25 * r >= 2536000
      BY <2>3, <2>4, <3>1
    <3> QED
      BY <3>2, <3>3
  <2>8. RawSpeed(c) \in 0..TopSpeed
    <3>1. r \in Nat /\ r <= TopSpeed
      BY <2>3, SMT DEF TopSpeed
    <3>2. r \in 0..TopSpeed
      BY <3>1, TopsAreNat, SMT
    <3> QED
      BY <2>2, <3>2
  <2>9. RawPressure(c) \in 0..TopPressure
    <3>1. 150 + q \in 0..TopPressure
      BY <2>6, SMT DEF TopPressure
    <3> QED
      BY <2>2, <3>1
  <2>10. /\ 700 * RawPressure(c) - RawSpeed(c) >= 134000
         /\ 14000 * RawPressure(c) - 25 * RawSpeed(c) >= 2536000
    BY <2>2, <2>7, SMT
  <2> QED
    BY <1>2, <2>8, <2>9, <2>10, SMT DEF RawIsSound
<1> QED
  BY <1>1, <1>2

\* The pressure above what the speed asks for, in hundredths and 700 times.
Excess(history, i) == 700 * Pressure(history, i) - Speed(history, i)

LEMMA MixedInside ==
  ASSUME NEW gain \in 0..100, NEW top \in Nat, NEW r \in 0..top, NEW p \in 0..top
  PROVE  Mixed(gain, r, p) \in 0..top
<1> DEFINE m == gain * r + (100 - gain) * p
<1>1. gain * r >= 0 /\ gain * r <= gain * top /\ gain * r \in Int
  BY SMTT(30)
<1>2. (100 - gain) * p >= 0 /\ (100 - gain) * p <= (100 - gain) * top /\ (100 - gain) * p \in Int
  BY SMTT(30)
<1>3. gain * top + (100 - gain) * top = 100 * top
  BY SMTT(30)
<1>4. m \in Int /\ 0 <= m /\ m <= 100 * top
  BY <1>1, <1>2, <1>3, SMTT(30)
<1> HIDE DEF m
<1>5. m \div 100 \in 0..top
  BY <1>4
<1> QED
  BY <1>5 DEF Mixed, m

LEMMA BothInside ==
  ASSUME NEW top \in Nat, NEW r \in 0..top, NEW p \in 0..top
  PROVE  Mixed(25, r, p) \in 0..top /\ Mixed(20, r, p) \in 0..top
<1>1. 25 \in 0..100 /\ 20 \in 0..100
  OBVIOUS
<1>2. \A gain \in 0..100 : Mixed(gain, r, p) \in 0..top
  BY MixedInside
<1> QED
  BY <1>1, <1>2

LEMMA FilterBounds ==
  ASSUME NEW history, NEW n, IsHistory(history, n)
  PROVE  \A i \in 1..n : Speed(history, i) \in 0..TopSpeed /\ Pressure(history, i) \in 0..TopPressure
<1> DEFINE T == {i \in 0..n : i # 0 => Speed(history, i) \in 0..TopSpeed /\ Pressure(history, i) \in 0..TopPressure}
<1>1. n \in Nat /\ \A i \in 1..n : history[i] \in Setting
  BY DEF IsHistory
<1>2. ASSUME NEW i \in 1..n, i - 1 \in T PROVE i \in T
  <2>1. RawSpeed(history[i]) \in 0..TopSpeed /\ RawPressure(history[i]) \in 0..TopPressure
    BY <1>1, RawBounds DEF RawIsSound
  <2>2. CASE i = 1
    <3>1. Speed(history, i) = RawSpeed(history[i]) /\ Pressure(history, i) = RawPressure(history[i])
      BY <2>2, FilterRuns
    <3> QED
      BY <2>1, <3>1
  <2>3. CASE i # 1
    <3>1. /\ Speed(history, i) = Mixed(25, RawSpeed(history[i]), Speed(history, i - 1))
          /\ Pressure(history, i) = Mixed(20, RawPressure(history[i]), Pressure(history, i - 1))
      BY <2>3, FilterRuns
    <3>2. Speed(history, i - 1) \in 0..TopSpeed /\ Pressure(history, i - 1) \in 0..TopPressure
      BY <1>2, <2>3
    <3>3. Speed(history, i) \in 0..TopSpeed
      BY <2>1, <3>1, <3>2, BothInside, TopsAreNat
    <3>4. Pressure(history, i) \in 0..TopPressure
      BY <2>1, <3>1, <3>2, BothInside, TopsAreNat
    <3> QED
      BY <3>3, <3>4
  <2> QED
    BY <2>2, <2>3
<1>3. 0 \in T
  BY <1>1
<1> HIDE DEF T
<1>4. \A i \in 0..n : i \in T
  BY <1>1, <1>2, <1>3, UpTo
<1> QED
  BY <1>4 DEF T

\* How far a sleeping engine has slowed down after i readings, and how far the excess of a
\* running one has risen, from whatever there was before.
SlowBelow(i) ==
    CASE i = 0 -> 105000 [] i = 1 -> 78750 [] i = 2 -> 59062 [] i = 3 -> 44296 [] i = 4 -> 33222
      [] i = 5 -> 24916 [] i = 6 -> 18687 [] i = 7 -> 14015 [] i = 8 -> 10511 [] i = 9 -> 7883
      [] i = 10 -> 5912 [] i = 11 -> 4434 [] i = 12 -> 3325

RisenTo(i) ==
    CASE i = 0 -> -105000 [] i = 1 -> -59333 [] i = 2 -> -22800 [] i = 3 -> 6427 [] i = 4 -> 29808
      [] i = 5 -> 48513 [] i = 6 -> 63477 [] i = 7 -> 75448 [] i = 8 -> 85025 [] i = 9 -> 92687
      [] i = 10 -> 98816 [] i = 11 -> 103719 [] i = 12 -> 107642

LEMMA SlowSteps ==
  ASSUME NEW i \in 1..12
  PROVE  SlowBelow(i - 1) \in Nat /\ SlowBelow(i) \in Nat /\ (75 * SlowBelow(i - 1)) \div 100 <= SlowBelow(i)
<1>1. i \in {1, 2, 3, 4, 5, 6, 7, 8, 9, 10, 11, 12}
  OBVIOUS
<1> QED
  BY <1>1, SMTT(30) DEF SlowBelow

LEMMA RiseSteps ==
  ASSUME NEW i \in 1..12
  PROVE  /\ RisenTo(i - 1) \in Int /\ RisenTo(i) \in Int /\ RisenTo(i) <= 134000
         /\ 100 * RisenTo(i) <= 80 * RisenTo(i - 1) + 2466700
<1>1. i \in {1, 2, 3, 4, 5, 6, 7, 8, 9, 10, 11, 12}
  OBVIOUS
<1> QED
  BY <1>1, SMTT(30) DEF RisenTo

LEMMA SlowStep ==
  ASSUME NEW p \in Nat, NEW b \in Nat, p <= b, NEW c \in Nat, (75 * b) \div 100 <= c
  PROVE  Mixed(25, 0, p) <= c
<1>1. (75 * p) \div 100 <= (75 * b) \div 100 /\ (75 * p) \div 100 \in Nat /\ (75 * b) \div 100 \in Nat
  BY SMTT(30)
<1>2. Mixed(25, 0, p) = (75 * p) \div 100
  BY SMTT(30) DEF Mixed
<1> QED
  BY <1>1, <1>2, SMT

RawLifts(rp, rs) == rp \in Nat /\ rs \in Nat /\ 14000 * rp - 25 * rs >= 2536000
IsAbove(p, s, level) == p \in Nat /\ s \in Nat /\ level \in Int /\ 700 * p - s >= level
LeadsTo(l, m) == l \in Int /\ m \in Int /\ 100 * m <= 80 * l + 2466700

LEMMA RiseStep ==
  ASSUME NEW rp, NEW rs, RawLifts(rp, rs), NEW p, NEW s, NEW l, IsAbove(p, s, l), NEW m, LeadsTo(l, m)
  PROVE  700 * Mixed(20, rp, p) - Mixed(25, rs, s) >= m
<1>0. /\ rp \in Nat /\ rs \in Nat /\ 14000 * rp - 25 * rs >= 2536000
      /\ p \in Nat /\ s \in Nat /\ l \in Int /\ 700 * p - s >= l
      /\ m \in Int /\ 100 * m <= 80 * l + 2466700
  BY SMT DEF RawLifts, IsAbove, LeadsTo
<1> DEFINE a == (20 * rp + 80 * p) \div 100
           b == (25 * rs + 75 * s) \div 100
<1>1. Mixed(20, rp, p) = a /\ Mixed(25, rs, s) = b
  BY <1>0, SMTT(30) DEF Mixed
<1>2. a \in Int /\ 100 * a >= 20 * rp + 80 * p - 99
  BY <1>0, SMTT(30)
<1>3. b \in Int /\ 100 * b <= 25 * rs + 75 * s
  BY <1>0, SMTT(30)
<1> HIDE DEF a, b
<1>4. 700 * a - b >= m
  BY <1>0, <1>2, <1>3, SMTT(30)
<1> QED
  BY <1>1, <1>4, SMT

\* No switch of the engine between the last readings before one.
Steady(history, k) ==
    \A j \in 2..k : k - j < SettleReadings => ((history[j] = Asleep) <=> (history[j - 1] = Asleep))

LEMMA SteadyReadings ==
  ASSUME NEW history, NEW k \in Nat, Steady(history, k)
  PROVE  \A d \in 0..11 : k - d >= 1 => (history[k - d] = Asleep <=> history[k] = Asleep)
<1> DEFINE T == {d \in 0..11 : k - d >= 1 => (history[k - d] = Asleep <=> history[k] = Asleep)}
<1>1. 0 \in T
  <2>1. k - 0 = k /\ 0 \in 0..11
    OBVIOUS
  <2> QED
    BY <2>1
<1>2. ASSUME NEW d \in 1..11, d - 1 \in T PROVE d \in T
  <2> SUFFICES ASSUME k - d >= 1 PROVE history[k - d] = Asleep <=> history[k] = Asleep
    OBVIOUS
  <2> DEFINE j == k - (d - 1)
  <2>1. j \in 2..k /\ k - j < 11 /\ j - 1 = k - d /\ j >= 1
    OBVIOUS
  <2>2. history[j] = Asleep <=> history[k] = Asleep
    BY <1>2, <2>1
  <2>3. history[j] = Asleep <=> history[j - 1] = Asleep
    BY <2>1 DEF Steady, SettleReadings
  <2> HIDE DEF j
  <2> QED
    BY <2>1, <2>2, <2>3
<1> HIDE DEF T
<1>3. \A d \in 0..11 : d \in T
  BY <1>1, <1>2, UpTo
<1> QED
  BY <1>3 DEF T

LEMMA EngineSlows ==
  ASSUME NEW history, NEW n, IsHistory(history, n), NEW k \in 1..n, Steady(history, k), history[k] = Asleep
  PROVE  Speed(history, k) <= SlowBelow(12)
<1> DEFINE e(i) == (k - 12) + i
           T == {i \in 0..12 : e(i) >= 1 => Speed(history, e(i)) <= SlowBelow(i)}
<1>1. n \in Nat /\ \A i \in 1..n : history[i] \in Setting /\ RawIsSound(history[i])
  BY RawBounds DEF IsHistory
<1>2. \A i \in 1..n : Speed(history, i) \in 0..TopSpeed
  BY FilterBounds
<1>3. 0 \in T
  <2>1. SlowBelow(0) = TopSpeed
    BY SMT DEF SlowBelow, TopSpeed
  <2>2. e(0) >= 1 => e(0) \in 1..n
    BY <1>1
  <2> HIDE DEF e
  <2> QED
    BY <1>2, <2>1, <2>2, TopsAreNat
<1>4. ASSUME NEW i \in 1..12, i - 1 \in T PROVE i \in T
  <2> SUFFICES ASSUME e(i) >= 1 PROVE Speed(history, e(i)) <= SlowBelow(i)
    OBVIOUS
  <2>1. e(i) \in 1..n /\ e(i) - 1 = e(i - 1) /\ e(i) = k - (12 - i) /\ 12 - i \in 0..11
    BY <1>1
  <2>2. history[e(i)] = Asleep
    <3>1. \A d \in 0..11 : k - d >= 1 => (history[k - d] = Asleep <=> history[k] = Asleep)
      BY <1>1, SteadyReadings
    <3> QED
      BY <2>1, <3>1
  <2>3. RawSpeed(history[e(i)]) = 0
    BY <1>1, <2>1, <2>2 DEF RawIsSound
  <2>4. SlowBelow(i - 1) \in Nat /\ SlowBelow(i) \in Nat /\ (75 * SlowBelow(i - 1)) \div 100 <= SlowBelow(i)
    BY SlowSteps
  <2>5. CASE e(i) = 1
    <3>1. Speed(history, 1) = RawSpeed(history[1])
      BY <2>1, <2>5, FilterRuns
    <3> QED
      BY <2>3, <2>4, <2>5, <3>1
  <2>6. CASE e(i) # 1
    <3>1. Speed(history, e(i)) = Mixed(25, 0, Speed(history, e(i) - 1))
      BY <2>1, <2>3, <2>6, FilterRuns
    <3>2. e(i) - 1 \in 1..n
      BY <1>1, <2>1, <2>6
    <3>3. Speed(history, e(i) - 1) \in Nat
      BY <1>2, <3>2, TopsAreNat
    <3>4. Speed(history, e(i) - 1) <= SlowBelow(i - 1)
      BY <1>4, <2>1, <3>2
    <3> HIDE DEF e
    <3> QED
      BY <2>4, <3>1, <3>3, <3>4, SlowStep
  <2> QED
    BY <2>5, <2>6
<1>5. 12 \in 0..12 /\ e(12) = k
  BY <1>1
<1> HIDE DEF T
<1>6. \A i \in 0..12 : i \in T
  BY <1>3, <1>4, UpTo
<1> QED
  BY <1>1, <1>5, <1>6 DEF T

LEMMA PressureRises ==
  ASSUME NEW history, NEW n, IsHistory(history, n), NEW k \in 1..n, Steady(history, k), history[k] # Asleep
  PROVE  Excess(history, k) >= RisenTo(12)
<1> DEFINE e(i) == (k - 12) + i
           T == {i \in 0..12 : e(i) >= 1 => Excess(history, e(i)) >= RisenTo(i)}
<1>1. n \in Nat /\ \A i \in 1..n : history[i] \in Setting /\ RawIsSound(history[i])
  BY RawBounds DEF IsHistory
<1>2. \A i \in 1..n : Speed(history, i) \in 0..TopSpeed /\ Pressure(history, i) \in Nat
  BY FilterBounds, TopsAreNat
<1>3. 0 \in T
  <2>1. RisenTo(0) = -TopSpeed
    BY SMT DEF RisenTo, TopSpeed
  <2>2. e(0) >= 1 => e(0) \in 1..n
    BY <1>1
  <2>3. \A i \in 1..n : Excess(history, i) >= -TopSpeed
    BY <1>2, TopsAreNat, SMT DEF Excess
  <2> HIDE DEF e
  <2> QED
    BY <2>1, <2>2, <2>3
<1>4. ASSUME NEW i \in 1..12, i - 1 \in T PROVE i \in T
  <2> SUFFICES ASSUME e(i) >= 1 PROVE Excess(history, e(i)) >= RisenTo(i)
    OBVIOUS
  <2>1. e(i) \in 1..n /\ e(i) - 1 = e(i - 1) /\ e(i) = k - (12 - i) /\ 12 - i \in 0..11
    BY <1>1
  <2>2. history[e(i)] # Asleep
    <3>1. \A d \in 0..11 : k - d >= 1 => (history[k - d] = Asleep <=> history[k] = Asleep)
      BY <1>1, SteadyReadings
    <3> QED
      BY <2>1, <3>1
  <2> DEFINE rs == RawSpeed(history[e(i)])
             rp == RawPressure(history[e(i)])
  <2>3. rs \in Nat /\ rp \in Nat /\ 700 * rp - rs >= 134000 /\ 14000 * rp - 25 * rs >= 2536000
    BY <1>1, <2>1, <2>2, TopsAreNat, SMT DEF RawIsSound
  <2>4. /\ RisenTo(i - 1) \in Int /\ RisenTo(i) \in Int /\ RisenTo(i) <= 134000
        /\ 100 * RisenTo(i) <= 80 * RisenTo(i - 1) + 2466700
    BY RiseSteps
  <2>5. CASE e(i) = 1
    <3>1. Speed(history, 1) = rs /\ Pressure(history, 1) = rp
      BY <2>1, <2>5, FilterRuns, SMT
    <3> QED
      BY <2>3, <2>4, <2>5, <3>1, SMT DEF Excess
  <2>6. CASE e(i) # 1
    <3>1. /\ Speed(history, e(i)) = Mixed(25, rs, Speed(history, e(i) - 1))
          /\ Pressure(history, e(i)) = Mixed(20, rp, Pressure(history, e(i) - 1))
      BY <2>1, <2>6, FilterRuns, SMT
    <3>2. e(i) - 1 \in 1..n
      BY <1>1, <2>1, <2>6, SMT
    <3>3. Speed(history, e(i) - 1) \in Nat /\ Pressure(history, e(i) - 1) \in Nat
      BY <1>2, <3>2, TopsAreNat, SMT
    <3>4. 700 * Pressure(history, e(i) - 1) - Speed(history, e(i) - 1) >= RisenTo(i - 1)
      BY <1>4, <2>1, <3>2, SMT DEF Excess
    <3> HIDE DEF e, rs, rp
    <3>5. RawLifts(rp, rs)
      BY <2>3, SMT DEF RawLifts
    <3>6. IsAbove(Pressure(history, e(i) - 1), Speed(history, e(i) - 1), RisenTo(i - 1))
      BY <2>4, <3>3, <3>4, SMT DEF IsAbove
    <3>7. LeadsTo(RisenTo(i - 1), RisenTo(i))
      BY <2>4, SMT DEF LeadsTo
    <3>8. 700 * Mixed(20, rp, Pressure(history, e(i) - 1)) - Mixed(25, rs, Speed(history, e(i) - 1)) >= RisenTo(i)
      BY <3>5, <3>6, <3>7, RiseStep
    <3> QED
      BY <3>1, <3>8, SMT DEF Excess
  <2> QED
    BY <2>5, <2>6, SMT
<1>5. 12 \in 0..12 /\ e(12) = k
  BY <1>1
<1> HIDE DEF T
<1>6. \A i \in 0..12 : i \in T
  BY <1>3, <1>4, UpTo
<1> QED
  BY <1>1, <1>5, <1>6 DEF T

\* test_alert_evaluator.py and filter_service.py: whatever an engine did, in any number of
\* readings and with any changes of its notch, its smoothed speed and pressure raise no false
\* alarm once there was no switch between sleeping and running for eleven readings.
THEOREM EngineSettles ==
  ASSUME NEW n \in Nat, NEW history \in [1..n -> Setting], NEW k \in 1..n, Steady(history, k)
  PROVE  "oil_pressure" \notin Alerting("TE33A", Filtered(history)[k])
<1> DEFINE reading == Filtered(history)[k]
<1>1. IsHistory(history, n)
  BY DEF IsHistory
<1>2. DOMAIN reading = {"diesel_rpm", "oil_pressure"}
  BY <1>1, FilterRuns
<1>3. Speed(history, k) \in Nat /\ Pressure(history, k) \in Nat
  BY <1>1, FilterBounds, TopsAreNat
<1>4. CASE history[k] = Asleep
  <2>1. Speed(history, k) <= 5000
    <3>1. Speed(history, k) <= SlowBelow(12)
      BY <1>1, <1>4, EngineSlows
    <3>2. SlowBelow(12) = 3325
      BY SMT DEF SlowBelow
    <3> QED
      BY <1>3, <3>1, <3>2, SMT
  <2>2. AessActive("TE33A", reading)
    BY <1>2, <2>1, SMT DEF AessActive, AessRpmThreshold, Speed
  <2> HIDE DEF reading
  <2>3. "oil_pressure" \notin Alerting("TE33A", reading)
    BY <2>2, ZenonT(30) DEF Alerting, AessMaskedSensors
  <2> QED
    BY <2>3 DEF reading
<1>5. CASE history[k] # Asleep
  <2> DEFINE q == (Speed(history, k) * 150) \div 105000
  <2>1. Excess(history, k) >= 107642
    <3>1. Excess(history, k) >= RisenTo(12)
      BY <1>1, <1>5, PressureRises
    <3>2. RisenTo(12) = 107642
      BY SMT DEF RisenTo
    <3> QED
      BY <3>1, <3>2, SMT
  <2>2. q \in Int /\ 105000 * q <= 150 * Speed(history, k)
    BY <1>3, SMTT(30)
  <2>3. Pressure(history, k) >= 150 + q
    <3> HIDE DEF q
    <3> QED
      BY <1>3, <2>1, <2>2, SMT DEF Excess
  <2>4. OilIsExpected(reading)
    BY <1>2, <2>3, SMT DEF OilIsExpected, Speed, Pressure
  <2> HIDE DEF reading
  <2>5. "oil_pressure" \notin Alerting("TE33A", reading)
    BY <2>4, ZenonT(30) DEF Alerting
  <2> QED
    BY <2>5 DEF reading
<1> QED
  BY <1>4, <1>5

\* FalseAlarmsSettle: in every history of three phases the run checks, a false alarm has a
\* switch of the engine in the eleven readings before it.
THEOREM AlarmsSettle == Spec => []FalseAlarmsSettle
<1>1. ASSUME NEW history \in Histories PROVE \E n \in Nat : history \in [1..n -> Setting] /\ DOMAIN history = 1..n
  <2>1. PICK a \in {Asleep, 0, 8}, b \in {Asleep, 0, 5, 8}, c \in {Asleep, 0, 8}, m \in {1, 6, 12}, n \in 1..12 :
          history = Phases(a, b, c, m, n)
    BY SMT DEF Histories
  <2>2. a \in Setting /\ b \in Setting /\ c \in Setting
    BY DEF Setting, Notch
  <2>3. m + n + 12 \in Nat
    OBVIOUS
  <2> QED
    BY <2>1, <2>2, <2>3 DEF Phases
<1>2. UnsettledAlarms = {}
  <2> SUFFICES ASSUME NEW history \in Histories, NEW k \in DOMAIN history,
                      "oil_pressure" \in Alerting("TE33A", Filtered(history)[k]), Steady(history, k)
               PROVE  FALSE
    BY ZenonT(30) DEF UnsettledAlarms, Steady
  <2> QED
    BY <1>1, EngineSettles
<1> QED
  BY <1>2, PTL DEF FalseAlarmsSettle

-----------------------------------------------------------------------------
(* A healthy locomotive.                                                   *)

\* Numbers that are zero but for three.
OnlyThree(f, S, a, b, c) ==
  /\ f \in [S -> Nat] /\ a \in S /\ b \in S /\ c \in S /\ a # b /\ a # c /\ b # c
  /\ \A x \in S : x \notin {a, b, c} => f[x] = 0

\* What x is worth in a sum over s.
Part(f, s, x) == IF x \in s THEN f[x] ELSE 0

\* One element taken out of s takes its own part.
TakesItsPart(f, s, p, x) ==
  /\ Part(f, s, x) \in Nat /\ Part(f, s \ {p}, x) \in Nat
  /\ Part(f, s, x) = Part(f, s \ {p}, x) + (IF x = p THEN f[x] ELSE 0)

LEMMA PartOfRest ==
  ASSUME NEW s, NEW p, p \in s, NEW f, NEW x, f[x] \in Nat
  PROVE  TakesItsPart(f, s, p, x)
<1>1. CASE x = p
  <2>1. x \in s /\ x \notin s \ {p}
    BY <1>1
  <2> QED
    BY <1>1, <2>1 DEF Part, TakesItsPart
<1>2. CASE x # p
  <2>1. x \in s \ {p} <=> x \in s
    BY <1>2
  <2> QED
    BY <1>2, <2>1 DEF Part, TakesItsPart
<1> QED
  BY <1>1, <1>2

\* The sum of such numbers.
SumIsThree(it, f, S, a, b, c) == it[S] = f[a] + f[b] + f[c]

LEMMA SumOfThree ==
  ASSUME NEW S, IsFiniteSet(S), NEW f, NEW it, SumsUp(it, f, S),
         NEW a, NEW b, NEW c, OnlyThree(f, S, a, b, c)
  PROVE  SumIsThree(it, f, S, a, b, c)
<1>a. /\ f \in [S -> Nat] /\ a \in S /\ b \in S /\ c \in S /\ a # b /\ a # c /\ b # c
      /\ f[a] \in Nat /\ f[b] \in Nat /\ f[c] \in Nat
  BY DEF OnlyThree
<1>b. \A x \in S : x \notin {a, b, c} => f[x] = 0
  BY DEF OnlyThree
<1>0. \A s \in SUBSET S : IsFiniteSet(s) /\ Cardinality(s) \in Nat /\ (s = {} <=> Cardinality(s) = 0)
  BY FS_Subset, FS_CardinalityType, FS_EmptySet
<1>1. \A s \in SUBSET S : it[s] = SumOf(it, f, s)
  BY ZenonT(30) DEF SumsUp
<1> DEFINE Three(s) == Part(f, s, a) + Part(f, s, b) + Part(f, s, c)
           Good(s) == it[s] = Three(s)
           T == {k \in Nat : \A s \in SUBSET S : Cardinality(s) = k => Good(s)}
<1>2. 0 \in T
  <2>1. ASSUME NEW s \in SUBSET S, Cardinality(s) = 0 PROVE Good(s)
    <3>1. it[s] = 0 /\ s = {}
      BY <1>0, <1>1, <2>1 DEF SumOf
    <3>2. Part(f, s, a) = 0 /\ Part(f, s, b) = 0 /\ Part(f, s, c) = 0
      BY <3>1 DEF Part
    <3> QED
      BY <3>1, <3>2
  <2> QED
    BY <2>1
<1>3. ASSUME NEW k \in T PROVE k + 1 \in T
  <2>1. ASSUME NEW s \in SUBSET S, Cardinality(s) = k + 1 PROVE Good(s)
    <3> DEFINE p == Picked(s)
               r == s \ {p}
    <3>1. s # {} /\ k \in Nat
      BY <1>0, <2>1
    <3>2. p \in S /\ r \in SUBSET S /\ Cardinality(r) = k /\ p \in s
      BY <1>0, <2>1, <3>1, PickedIsOne
    <3>3. Good(r)
      BY <1>3, <3>2
    <3>4. it[s] = f[p] + it[r]
      BY <1>1, <3>1 DEF SumOf
    <3> HIDE DEF p
    <3>5. /\ Part(f, s, a) = Part(f, r, a) + (IF a = p THEN f[a] ELSE 0)
          /\ Part(f, s, b) = Part(f, r, b) + (IF b = p THEN f[b] ELSE 0)
          /\ Part(f, s, c) = Part(f, r, c) + (IF c = p THEN f[c] ELSE 0)
          /\ Part(f, r, a) \in Nat /\ Part(f, r, b) \in Nat /\ Part(f, r, c) \in Nat
      <4>1. TakesItsPart(f, s, p, a) /\ TakesItsPart(f, s, p, b) /\ TakesItsPart(f, s, p, c)
        BY <1>a, <3>2, PartOfRest, ZenonT(30)
      <4> QED
        BY <4>1 DEF TakesItsPart
    <3> HIDE DEF r
    <3>6. f[p] = (IF a = p THEN f[a] ELSE 0) + (IF b = p THEN f[b] ELSE 0) + (IF c = p THEN f[c] ELSE 0)
      BY <1>a, <1>b, <3>2
    <3> QED
      BY <1>a, <3>3, <3>4, <3>5, <3>6
  <2> QED
    BY <2>1
<1> HIDE DEF T
<1>4. Cardinality(S) \in T
  <2>1. T \in SUBSET Nat
    BY DEF T
  <2>2. T = Nat
    BY <1>2, <1>3, <2>1, Induction, ZenonT(30)
  <2> QED
    BY <1>0, <2>2
<1>5. Part(f, S, a) = f[a] /\ Part(f, S, b) = f[b] /\ Part(f, S, c) = f[c]
  BY <1>a DEF Part
<1> QED
  BY <1>4, <1>5 DEF T, SumIsThree

\* The penalties of a reading, as a function.
Penalties(type, reading) ==
    [s \in Known(type, reading) |-> SensorPenalty(reading[s], LocoSpecs[type][s])]

LEMMA PenaltiesAddUp ==
  ASSUME NEW type, NEW reading, IsFiniteSet(Known(type, reading))
  PROVE  \E it : /\ SumsUp(it, Penalties(type, reading), Known(type, reading))
                 /\ TotalPenalty(type, reading) = it[Known(type, reading)]
<1> DEFINE S == Known(type, reading)
           f == Penalties(type, reading)
           cost(s) == SensorPenalty(reading[s], LocoSpecs[type][s])
           Adds(it) == it = [s \in SUBSET S |-> IF s = {} THEN 0 ELSE cost(Picked(s)) + it[s \ {Picked(s)}]]
           sum == CHOOSE it : Adds(it)
<1>1. TotalPenalty(type, reading) = sum[S]
  BY ZenonT(30) DEF TotalPenalty, MapThenSumSet, MapThenFoldSet, Picked
<1>2. ASSUME NEW s \in SUBSET S, s # {} PROVE f[Picked(s)] = cost(Picked(s))
  <2>1. Picked(s) \in S
    BY <1>2 DEF Picked
  <2> HIDE DEF S
  <2> QED
    BY <2>1 DEF S, Penalties
<1> HIDE DEF f, cost, S
<1>3. ASSUME NEW it, NEW s \in SUBSET S
      PROVE  SumOf(it, f, s) = IF s = {} THEN 0 ELSE cost(Picked(s)) + it[s \ {Picked(s)}]
  <2>1. CASE s = {}
    BY <2>1, ZenonT(30) DEF SumOf
  <2>2. CASE s # {}
    <3>1. SumOf(it, f, s) = f[Picked(s)] + it[s \ {Picked(s)}]
      BY <2>2, ZenonT(30) DEF SumOf
    <3> QED
      BY <1>2, <2>2, <3>1, ZenonT(30)
  <2> QED
    BY <2>1, <2>2, ZenonT(30)
<1>4. ASSUME NEW it PROVE Adds(it) <=> SumsUp(it, f, S)
  <2>1. [s \in SUBSET S |-> SumOf(it, f, s)]
          = [s \in SUBSET S |-> IF s = {} THEN 0 ELSE cost(Picked(s)) + it[s \ {Picked(s)}]]
    BY <1>3, ZenonT(30)
  <2> QED
    BY <2>1, ZenonT(30) DEF SumsUp
<1>5. \E it : SumsUp(it, f, S)
  BY SumExists, ZenonT(30) DEF S
<1>6. SumsUp(sum, f, S)
  <2>1. \E it : Adds(it)
    BY <1>4, <1>5, ZenonT(30)
  <2> HIDE DEF Adds
  <2>2. Adds(sum)
    BY <2>1, ZenonT(30)
  <2> QED
    BY <1>4, <2>2, ZenonT(30)
<1> HIDE DEF sum
<1> QED
  BY <1>1, <1>6, ZenonT(30) DEF f, S

\* A sensor costs at most what the share of its range allows; in its zone it costs nothing.
LEMMA PenaltyAtMost ==
  ASSUME NEW spec \in SensorSpecs, NEW v \in Int, NEW t, IsShare(t), Normalized(v, spec) <= t
  PROVE  SensorPenalty(v, spec) <= spec.weight * Power(t, spec.exponent)
<1>1. IsShare(Normalized(v, spec))
  BY PenaltyOfShare
<1>2. spec.weight \in Nat /\ spec.exponent \in Exponents
  BY DEF SensorSpecs
<1>3. /\ IsShare(Power(Normalized(v, spec), spec.exponent))
      /\ Power(Normalized(v, spec), spec.exponent) <= Power(t, spec.exponent)
      /\ IsShare(Power(t, spec.exponent))
  BY <1>1, <1>2, PowerMonotone, SMT DEF IsShare
<1>4. spec.weight * Power(Normalized(v, spec), spec.exponent) <= spec.weight * Power(t, spec.exponent)
  BY <1>2, <1>3, TimesMonotone, SMT DEF IsShare
<1> QED
  BY <1>4 DEF SensorPenalty

LEMMA PenaltyOfWeight ==
  ASSUME NEW spec \in SensorSpecs, NEW v \in Int
  PROVE  SensorPenalty(v, spec) \in Nat /\ SensorPenalty(v, spec) <= spec.weight * 1000
<1>1. IsShare(Normalized(v, spec)) /\ SensorPenalty(v, spec) \in Nat
  BY PenaltyOfShare
<1>2. spec.weight \in Nat /\ spec.exponent \in Exponents
  BY DEF SensorSpecs
<1>3. IsShare(Power(Normalized(v, spec), spec.exponent))
  BY <1>1, <1>2, PowerMonotone, SMT DEF IsShare
<1>4. spec.weight * Power(Normalized(v, spec), spec.exponent) <= spec.weight * 1000
  BY <1>2, <1>3, TimesMonotone, SMT DEF IsShare
<1> QED
  BY <1>1, <1>4, SMT DEF SensorPenalty

LEMMA QuietCostsNothing ==
  ASSUME NEW spec \in SensorSpecs, NEW v \in Int, ~ThresholdViolated(v, spec)
  PROVE  SensorPenalty(v, spec) = 0
<1>1. SensorPenalty(v, spec) \in Nat /\ ~(SensorPenalty(v, spec) > 0)
  BY PenaltyOfShare, AlertsAndHealthAgree, ZenonT(30)
<1> QED
  BY <1>1

Speeds == 0..110

IsNoise(noise, sensors) == \A s \in sensors : noise[s] \in Offsets

\* A value and what noise may make of it.
Near(v, value, most) == v \in Int /\ value - most - 1 <= v /\ v <= value + most

LEMMA Noisy ==
  ASSUME NEW value \in Int, NEW nominal \in Nat \ {0}, NEW offset \in Offsets
  PROVE  Near(WithNoise(value, nominal, offset), value, (nominal * 15) \div 1000)
<1> DEFINE most == (nominal * 15) \div 1000
           n == (nominal * offset) \div 1000
<1>1. offset \in Int /\ -15 <= offset /\ offset <= 15
  BY SMT DEF Offsets
<1>2. WithNoise(value, nominal, offset) = value + n
  BY DEF WithNoise
<1>3. nominal * offset \in Int /\ nominal * offset <= nominal * 15 /\ -(nominal * 15) <= nominal * offset
  BY <1>1, SMT
<1>4. n \in Int /\ most \in Int /\ n <= most /\ -most - 1 <= n
  BY <1>3, SMT
<1> HIDE DEF most, n
<1>5. Near(WithNoise(value, nominal, offset), value, most)
  BY <1>2, <1>4, SMT DEF Near
<1> QED
  BY <1>5 DEF most

\* Where nothing is nominal.
LEMMA NoisyNothing ==
  ASSUME NEW value \in Int, NEW offset \in Offsets
  PROVE  Near(WithNoise(value, 0, offset), value, 3)
<1>1. WithNoise(value, 0, offset) = value + offset \div 5
  BY DEF WithNoise
<1>2. offset \div 5 \in Int /\ -3 <= offset \div 5 /\ offset \div 5 <= 3
  BY SMT DEF Offsets
<1> QED
  BY <1>1, <1>2, SMT DEF Near

Harmless(v, spec) == v \in Int /\ ~ThresholdViolated(v, spec)

LEMMA InsideIsHarmless ==
  ASSUME NEW v \in Int, NEW w, NEW nominal \in Int, NEW safe \in Int, NEW critical, NEW e
  PROVE  /\ v <= nominal + safe => Harmless(v, SensorSpec(w, nominal, safe, critical, "upper", e))
         /\ nominal - safe <= v => Harmless(v, SensorSpec(w, nominal, safe, critical, "lower", e))
         /\ nominal - safe <= v /\ v <= nominal + safe =>
              Harmless(v, SensorSpec(w, nominal, safe, critical, "both", e))
BY SMT DEF Harmless, ThresholdViolated, SensorSpec, Abs

CommonNames == {"speed_actual", "brake_pipe_pressure", "wheel_slip_ratio"}

LEMMA CommonIsQuiet ==
  ASSUME NEW speed \in Speeds, NEW noise, IsNoise(noise, CommonNames)
  PROVE  LET r == CommonSensors(speed, noise) IN
         /\ DOMAIN r = {"speed_actual", "brake_pipe_pressure", "wheel_slip_ratio"}
         /\ Harmless(r["speed_actual"], SensorSpec(15, 6000, 6000, 12000, "upper", 4))
         /\ Harmless(r["brake_pipe_pressure"], SensorSpec(40, 510, 20, 200, "lower", 6))
         /\ Harmless(r["wheel_slip_ratio"], SensorSpec(20, 0, 5, 50, "upper", 4))
<1> DEFINE a == WithNoise(100 * speed, 6000, noise["speed_actual"])
           b == WithNoise(510, 510, noise["brake_pipe_pressure"])
           c == WithNoise(0, 0, noise["wheel_slip_ratio"])
<1>0. /\ noise["speed_actual"] \in Offsets /\ noise["brake_pipe_pressure"] \in Offsets
      /\ noise["wheel_slip_ratio"] \in Offsets
  BY DEF IsNoise, CommonNames
<1>1. a \in Int /\ a <= 6000 + 6000
  <2>1. 100 * speed \in Int /\ 100 * speed <= 11000 /\ 6000 \in Nat \ {0}
    BY SMT DEF Speeds
  <2>2. Near(a, 100 * speed, (6000 * 15) \div 1000)
    BY <1>0, <2>1, Noisy
  <2> HIDE DEF a
  <2> QED
    BY <2>1, <2>2, SMT DEF Near
<1>2. b \in Int /\ 510 - 20 <= b
  <2>1. Near(b, 510, (510 * 15) \div 1000)
    BY <1>0, Noisy, SMT
  <2> HIDE DEF b
  <2> QED
    BY <2>1, SMT DEF Near
<1>3. c \in Int /\ c <= 0 + 5
  <2>1. Near(c, 0, 3)
    BY <1>0, NoisyNothing, SMT
  <2> HIDE DEF c
  <2> QED
    BY <2>1, SMT DEF Near
<1>5. CommonSensors(speed, noise) = [speed_actual |-> a, brake_pipe_pressure |-> b, wheel_slip_ratio |-> c]
  BY DEF CommonSensors, a, b, c
<1> HIDE DEF a, b, c
<1>4. /\ Harmless(a, SensorSpec(15, 6000, 6000, 12000, "upper", 4))
      /\ Harmless(b, SensorSpec(40, 510, 20, 200, "lower", 6))
      /\ Harmless(c, SensorSpec(20, 0, 5, 50, "upper", 4))
  BY <1>1, <1>2, <1>3, InsideIsHarmless, SMT
<1> QED
  BY <1>4, <1>5, SMT

EngineNames == {"diesel_rpm", "oil_pressure", "fuel_rate", "coolant_temp", "traction_motor_temp",
                "crankcase_pressure"}

LEMMA SleeperIsQuiet ==
  ASSUME NEW noise, IsNoise(noise, EngineNames)
  PROVE  LET r == EngineSensors(Asleep, noise) IN
         /\ DOMAIN r = EngineNames
         /\ Harmless(r["diesel_rpm"], SensorSpec(15, 70000, 20000, 105000, "upper", 4))
         /\ Harmless(r["fuel_rate"], SensorSpec(10, 8000, 6000, 20000, "upper", 3))
         /\ Harmless(r["coolant_temp"], SensorSpec(20, 8200, 1300, 9500, "upper", 4))
         /\ Harmless(r["traction_motor_temp"], SensorSpec(15, 8500, 4500, 13000, "upper", 4))
         /\ Harmless(r["crankcase_pressure"], SensorSpec(40, 0, 1000, 5000, "upper", 6))
         /\ r["diesel_rpm"] \in Int /\ r["diesel_rpm"] <= 5000
         /\ r["oil_pressure"] \in Int
<1> DEFINE rpm == WithNoise(0, 30000, noise["diesel_rpm"])
           oil == WithNoise(0, 350, noise["oil_pressure"])
           coolant == WithNoise(3500, 8200, noise["coolant_temp"])
           motor == WithNoise(3000, 8500, noise["traction_motor_temp"])
           crank == WithNoise(200, 0, noise["crankcase_pressure"])
<1>0. /\ noise["diesel_rpm"] \in Offsets /\ noise["oil_pressure"] \in Offsets
      /\ noise["fuel_rate"] \in Offsets /\ noise["coolant_temp"] \in Offsets
      /\ noise["traction_motor_temp"] \in Offsets /\ noise["crankcase_pressure"] \in Offsets
  BY DEF IsNoise, EngineNames
<1>1. rpm \in Int /\ rpm <= 450
  <2>1. Near(rpm, 0, (30000 * 15) \div 1000)
    BY <1>0, Noisy, SMT
  <2> HIDE DEF rpm
  <2> QED
    BY <2>1, SMT DEF Near
<1>2. oil \in Int
  <2>1. Near(oil, 0, (350 * 15) \div 1000)
    BY <1>0, Noisy, SMT
  <2> HIDE DEF oil
  <2> QED
    BY <2>1, SMT DEF Near
<1>3. coolant \in Int /\ coolant <= 8200 + 1300
  <2>1. Near(coolant, 3500, (8200 * 15) \div 1000)
    BY <1>0, Noisy, SMT
  <2> HIDE DEF coolant
  <2> QED
    BY <2>1, SMT DEF Near
<1>4. motor \in Int /\ motor <= 8500 + 4500
  <2>1. Near(motor, 3000, (8500 * 15) \div 1000)
    BY <1>0, Noisy, SMT
  <2> HIDE DEF motor
  <2> QED
    BY <2>1, SMT DEF Near
<1>5. crank \in Int /\ crank <= 0 + 1000
  <2>1. Near(crank, 200, 3)
    BY <1>0, NoisyNothing, SMT
  <2> HIDE DEF crank
  <2> QED
    BY <2>1, SMT DEF Near
<1>6. EngineSensors(Asleep, noise) = [diesel_rpm |-> rpm, oil_pressure |-> oil, fuel_rate |-> 0,
        coolant_temp |-> coolant, traction_motor_temp |-> motor, crankcase_pressure |-> crank]
  BY DEF EngineSensors
<1> HIDE DEF rpm, oil, coolant, motor, crank
<1>7. /\ Harmless(rpm, SensorSpec(15, 70000, 20000, 105000, "upper", 4))
      /\ Harmless(0, SensorSpec(10, 8000, 6000, 20000, "upper", 3))
      /\ Harmless(coolant, SensorSpec(20, 8200, 1300, 9500, "upper", 4))
  BY <1>1, <1>3, InsideIsHarmless, SMT
<1>8. /\ Harmless(motor, SensorSpec(15, 8500, 4500, 13000, "upper", 4))
      /\ Harmless(crank, SensorSpec(40, 0, 1000, 5000, "upper", 6))
  BY <1>4, <1>5, InsideIsHarmless, SMT
<1> QED
  BY <1>1, <1>2, <1>6, <1>7, <1>8, SMT DEF EngineNames

\* The fuel rate follows the notch to the power of 1.5.
LEMMA FuelOfNotch ==
  ASSUME NEW notch \in 0..8
  PROVE  /\ Power(125 * notch, 3) \in Nat /\ Power(125 * notch, 3) <= 1000
         /\ notch <= 6 => Power(125 * notch, 3) <= 649
<1>1. IsShare(125 * notch) /\ IsShare(750) /\ 3 \in Exponents
  BY SMT DEF IsShare, Exponents
<1>2. IsShare(Power(125 * notch, 3))
  BY <1>1, PowerMonotone, SMT DEF IsShare
<1>3. ASSUME notch <= 6 PROVE Power(125 * notch, 3) <= 649
  <2>1. 125 * notch <= 750
    BY <1>3, SMT
  <2>2. Power(125 * notch, 3) <= Power(750, 3)
    BY <1>1, <2>1, PowerMonotone
  <2>3. Power(750, 3) = Sqrt(421500)
    BY SMT DEF Power
  <2>4. Sqrt(421500) \in Nat /\ Sqrt(421500) * Sqrt(421500) <= 421500
    BY SqrtIsRoot, SMT
  <2>5. Sqrt(421500) <= 649
    <3> DEFINE root == Sqrt(421500)
    <3>1. root \in Nat /\ root * root <= 421500
      BY <2>4
    <3> HIDE DEF root
    <3>2. root >= 650 => 650 * 650 <= root * root
      BY <3>1, TimesMonotone, SMT
    <3>3. root <= 649
      BY <3>1, <3>2, SMT
    <3> QED
      BY <3>3 DEF root
  <2> QED
    BY <1>2, <2>2, <2>3, <2>4, <2>5, SMT DEF IsShare
<1> QED
  BY <1>2, <1>3, SMT DEF IsShare

\* A running engine stays within its zones but for its speed and its fuel in the top notches,
\* and for its pressure, which it needs no more of at its speed.
LEMMA RunnerIsQuiet ==
  ASSUME NEW notch \in 0..8, NEW noise, IsNoise(noise, EngineNames)
  PROVE  LET r == EngineSensors(notch, noise) IN
         /\ DOMAIN r = EngineNames
         /\ notch <= 6 => Harmless(r["diesel_rpm"], SensorSpec(15, 70000, 20000, 105000, "upper", 4))
         /\ notch <= 6 => Harmless(r["fuel_rate"], SensorSpec(10, 8000, 6000, 20000, "upper", 3))
         /\ Harmless(r["coolant_temp"], SensorSpec(20, 8200, 1300, 9500, "upper", 4))
         /\ Harmless(r["traction_motor_temp"], SensorSpec(15, 8500, 4500, 13000, "upper", 4))
         /\ Harmless(r["crankcase_pressure"], SensorSpec(40, 0, 1000, 5000, "upper", 6))
         /\ r["diesel_rpm"] \in Int /\ r["oil_pressure"] \in Int /\ r["fuel_rate"] \in Int
         /\ notch <= 7 => r["diesel_rpm"] <= 96675
         /\ r["oil_pressure"] >= 229
         /\ r["oil_pressure"] >= 150 + (r["diesel_rpm"] * 150) \div 105000
<1> DEFINE rpm == WithNoise(Rpm(notch), 70000, noise["diesel_rpm"])
           oil == WithNoise(OilPressure(notch), 350, noise["oil_pressure"])
           burnt == 1500 + (Power(125 * notch, 3) * 165) \div 10
           fuel == WithNoise(burnt, 8000, noise["fuel_rate"])
           coolant == WithNoise(7200 + 250 * notch, 8200, noise["coolant_temp"])
           motor == WithNoise(4000 + 875 * notch, 8500, noise["traction_motor_temp"])
           crank == WithNoise(200, 0, noise["crankcase_pressure"])
<1>0. /\ noise["diesel_rpm"] \in Offsets /\ noise["oil_pressure"] \in Offsets
      /\ noise["fuel_rate"] \in Offsets /\ noise["coolant_temp"] \in Offsets
      /\ noise["traction_motor_temp"] \in Offsets /\ noise["crankcase_pressure"] \in Offsets
  BY DEF IsNoise, EngineNames
<1>1. /\ rpm \in Int /\ 28949 <= rpm /\ rpm <= Rpm(notch) + 1050
      /\ notch <= 6 => rpm <= 70000 + 20000
      /\ notch <= 7 => rpm <= 96675
  <2>1. Rpm(notch) = 30000 + notch * 9375 /\ Rpm(notch) \in Int
    BY SMT DEF Rpm
  <2>2. Near(rpm, Rpm(notch), (70000 * 15) \div 1000)
    BY <2>1, <1>0, Noisy, SMT
  <2> HIDE DEF rpm
  <2> QED
    BY <2>1, <2>2, SMT DEF Near
<1>2. oil \in Int /\ oil >= 229 /\ oil >= 150 + (rpm * 150) \div 105000
  <2>1. Rpm(notch) \in Int /\ Rpm(notch) >= 30000
    BY SMT DEF Rpm
  <2>2. OilPressure(notch) = 150 + (Rpm(notch) * 300) \div 105000 /\ OilPressure(notch) \in Int
    BY <2>1, SMT DEF OilPressure
  <2>3. Near(oil, OilPressure(notch), (350 * 15) \div 1000)
    BY <2>2, <1>0, Noisy, SMT
  <2> HIDE DEF oil, rpm
  <2>4. (Rpm(notch) * 300) \div 105000 >= 85 /\ (rpm * 150) \div 105000 <= (Rpm(notch) * 300) \div 105000 - 6
    BY <1>1, <2>1, SMT
  <2> QED
    BY <1>1, <2>1, <2>2, <2>3, <2>4, SMT DEF Near
<1>3. fuel \in Int /\ (notch <= 6 => fuel <= 8000 + 6000)
  <2>1. burnt \in Int /\ (notch <= 6 => burnt <= 12210)
    BY FuelOfNotch, SMT
  <2> HIDE DEF burnt
  <2>2. Near(fuel, burnt, (8000 * 15) \div 1000)
    BY <2>1, <1>0, Noisy, SMT
  <2> HIDE DEF fuel
  <2> QED
    BY <2>1, <2>2, SMT DEF Near
<1>4. coolant \in Int /\ coolant <= 8200 + 1300
  <2>1. 7200 + 250 * notch \in Int /\ 7200 + 250 * notch <= 9200
    BY SMT
  <2>2. Near(coolant, 7200 + 250 * notch, (8200 * 15) \div 1000)
    BY <2>1, <1>0, Noisy, SMT
  <2> HIDE DEF coolant
  <2> QED
    BY <2>1, <2>2, SMT DEF Near
<1>5. motor \in Int /\ motor <= 8500 + 4500
  <2>1. 4000 + 875 * notch \in Int /\ 4000 + 875 * notch <= 11000
    BY SMT
  <2>2. Near(motor, 4000 + 875 * notch, (8500 * 15) \div 1000)
    BY <2>1, <1>0, Noisy, SMT
  <2> HIDE DEF motor
  <2> QED
    BY <2>1, <2>2, SMT DEF Near
<1>6. crank \in Int /\ crank <= 0 + 1000
  <2>1. Near(crank, 200, 3)
    BY <1>0, NoisyNothing, SMT
  <2> HIDE DEF crank
  <2> QED
    BY <2>1, SMT DEF Near
<1>7. EngineSensors(notch, noise) = [diesel_rpm |-> rpm, oil_pressure |-> oil, fuel_rate |-> fuel,
        coolant_temp |-> coolant, traction_motor_temp |-> motor, crankcase_pressure |-> crank]
  <2>1. notch # Asleep
    BY DEF Asleep
  <2> QED
    BY <2>1 DEF EngineSensors
<1> HIDE DEF rpm, oil, fuel, coolant, motor, crank
<1>8. /\ notch <= 6 => Harmless(rpm, SensorSpec(15, 70000, 20000, 105000, "upper", 4))
      /\ notch <= 6 => Harmless(fuel, SensorSpec(10, 8000, 6000, 20000, "upper", 3))
      /\ Harmless(coolant, SensorSpec(20, 8200, 1300, 9500, "upper", 4))
  BY <1>1, <1>3, <1>4, InsideIsHarmless, SMT
<1>9. /\ Harmless(motor, SensorSpec(15, 8500, 4500, 13000, "upper", 4))
      /\ Harmless(crank, SensorSpec(40, 0, 1000, 5000, "upper", 6))
  BY <1>5, <1>6, InsideIsHarmless, SMT
<1> QED
  BY <1>1, <1>2, <1>3, <1>7, <1>8, <1>9, SMT DEF EngineNames

\* What three sensors cost, when the others are in their zones.
LEMMA OthersCostNothing ==
  ASSUME NEW type \in DOMAIN LocoSpecs, NEW reading, IsFiniteSet(Known(type, reading)),
         NEW a \in Known(type, reading), NEW b \in Known(type, reading), NEW c \in Known(type, reading),
         a # b, a # c, b # c, reading[a] \in Int, reading[b] \in Int, reading[c] \in Int,
         \A s \in Known(type, reading) : s \notin {a, b, c} => Harmless(reading[s], LocoSpecs[type][s])
  PROVE  TotalPenalty(type, reading)
           = SensorPenalty(reading[a], LocoSpecs[type][a]) + SensorPenalty(reading[b], LocoSpecs[type][b])
               + SensorPenalty(reading[c], LocoSpecs[type][c])
<1> DEFINE S == Known(type, reading)
           f == Penalties(type, reading)
<1>1. \A s \in S : LocoSpecs[type][s] \in SensorSpecs
  BY SpecsOfLocos DEF Known, LocoSensorSpecs
<1>2. \A s \in S : f[s] = SensorPenalty(reading[s], LocoSpecs[type][s])
  BY DEF Penalties
<1>3. \A s \in S : reading[s] \in Int
  BY DEF Harmless
<1>4. \A s \in S : f[s] \in Nat
  <2>1. ASSUME NEW s \in S PROVE SensorPenalty(reading[s], LocoSpecs[type][s]) \in Nat
    BY <1>1, <1>3, PenaltyOfShare, ZenonT(30)
  <2> QED
    BY <1>2, <2>1, ZenonT(30)
<1>5. \A s \in S : s \notin {a, b, c} => f[s] = 0
  BY <1>1, <1>2, <1>3, QuietCostsNothing, ZenonT(30) DEF Harmless
<1>6. f = [s \in S |-> f[s]]
  BY DEF Penalties
<1> HIDE DEF f, S
<1>7. OnlyThree(f, S, a, b, c)
  <2>1. f \in [S -> Nat]
    BY <1>4, <1>6
  <2>2. a \in S /\ b \in S /\ c \in S
    BY DEF S
  <2> QED
    BY <1>5, <2>1, <2>2, ZenonT(30) DEF OnlyThree
<1>8. PICK it : SumsUp(it, f, S) /\ TotalPenalty(type, reading) = it[S]
  BY PenaltiesAddUp, ZenonT(30) DEF f, S
<1>9. IsFiniteSet(S) /\ a \in S /\ b \in S /\ c \in S
  BY DEF S
<1>10. it[S] = f[a] + f[b] + f[c]
  <2>1. SumIsThree(it, f, S, a, b, c)
    BY <1>7, <1>8, <1>9, SumOfThree, ZenonT(30)
  <2> QED
    BY <2>1, ZenonT(30) DEF SumIsThree
<1> QED
  BY <1>2, <1>8, <1>9, <1>10, ZenonT(30)

\* Two readings of different sensors, as one.
JoinsTables(r, f, g) ==
  /\ DOMAIN r = DOMAIN f \cup DOMAIN g
  /\ \A s \in DOMAIN f : r[s] = f[s]
  /\ \A s \in DOMAIN g : r[s] = g[s]

LEMMA JoinedTables ==
  ASSUME NEW f, NEW g, \A s \in DOMAIN g : s \notin DOMAIN f
  PROVE  JoinsTables(Joined(f, g), f, g)
BY ZenonT(30) DEF Joined, JoinsTables

DieselNames == EngineNames \cup CommonNames
Lively == {"diesel_rpm", "oil_pressure", "fuel_rate"}

\* The reading of a diesel locomotive: nothing but its speed, its pressure and its fuel is of
\* interest.
DieselReads(r, e) ==
  /\ Known("TE33A", r) = EngineNames \cup CommonNames
  /\ DOMAIN r = EngineNames \cup CommonNames
  /\ \A s \in EngineNames : r[s] = e[s]
  /\ \A s \in CommonNames : Harmless(r[s], LocoSpecs["TE33A"][s])

LEMMA DieselReading ==
  ASSUME NEW setting \in Setting, NEW speed \in Speeds, NEW noise, IsNoise(noise, DieselNames)
  PROVE  DieselReads(GenerateTe33a(setting, speed, noise), EngineSensors(setting, noise))
<1> DEFINE e == EngineSensors(setting, noise)
           c == CommonSensors(speed, noise)
           r == GenerateTe33a(setting, speed, noise)
<1>0. IsNoise(noise, EngineNames) /\ IsNoise(noise, CommonNames)
  BY DEF IsNoise, DieselNames
<1>1. DOMAIN e = EngineNames
  <2>1. setting = Asleep \/ setting \in 0..8
    BY DEF Setting, Notch
  <2> QED
    BY <1>0, <2>1, SleeperIsQuiet, RunnerIsQuiet
<1>2. /\ DOMAIN c = CommonNames
      /\ Harmless(c["speed_actual"], LocoSpecs["TE33A"]["speed_actual"])
      /\ Harmless(c["brake_pipe_pressure"], LocoSpecs["TE33A"]["brake_pipe_pressure"])
      /\ Harmless(c["wheel_slip_ratio"], LocoSpecs["TE33A"]["wheel_slip_ratio"])
  <2> HIDE DEF c
  <2>1. /\ DOMAIN c = CommonNames
        /\ Harmless(c["speed_actual"], SensorSpec(15, 6000, 6000, 12000, "upper", 4))
        /\ Harmless(c["brake_pipe_pressure"], SensorSpec(40, 510, 20, 200, "lower", 6))
        /\ Harmless(c["wheel_slip_ratio"], SensorSpec(20, 0, 5, 50, "upper", 4))
    BY <1>0, CommonIsQuiet DEF CommonNames, c
  <2> QED
    BY <2>1, DieselLimits, SMT
<1>3. r = Joined(e, c)
  BY DEF GenerateTe33a
<1> HIDE DEF e, c, r
<1>4. \A s \in CommonNames : s \notin EngineNames
  BY DEF CommonNames, EngineNames
<1>5. DOMAIN r = EngineNames \cup CommonNames /\ (\A s \in EngineNames : r[s] = e[s])
        /\ \A s \in CommonNames : r[s] = c[s]
  <2>1. \A s \in DOMAIN c : s \notin DOMAIN e
    BY <1>1, <1>2, <1>4, ZenonT(30)
  <2>2. JoinsTables(r, e, c)
    BY <1>3, <2>1, JoinedTables, ZenonT(30)
  <2> QED
    BY <1>1, <1>2, <2>2, ZenonT(30) DEF JoinsTables
<1>6. \A s \in CommonNames : Harmless(r[s], LocoSpecs["TE33A"][s])
  <2>1. \A s \in CommonNames : Harmless(c[s], LocoSpecs["TE33A"][s])
    BY <1>2, ZenonT(30) DEF CommonNames
  <2> QED
    BY <1>5, <2>1, ZenonT(30)
<1>7. Known("TE33A", r) = EngineNames \cup CommonNames
  <2>1. DOMAIN LocoSpecs["TE33A"] = {"brake_pipe_pressure", "wheel_slip_ratio", "speed_actual", "diesel_rpm",
         "oil_pressure", "coolant_temp", "fuel_level", "fuel_rate", "traction_motor_temp", "crankcase_pressure"}
    BY DieselLimits
  <2>2. EngineNames \cup CommonNames \subseteq DOMAIN LocoSpecs["TE33A"]
    BY <2>1 DEF EngineNames, CommonNames
  <2> QED
    BY <1>5, <2>2 DEF Known
<1> QED
  BY <1>5, <1>6, <1>7, ZenonT(30) DEF DieselReads, r, e

\* What such a reading costs, and what may raise an alert.
LEMMA DieselCosts ==
  ASSUME NEW r, NEW e, DieselReads(r, e),
         e["diesel_rpm"] \in Int, e["oil_pressure"] \in Int, e["fuel_rate"] \in Int,
         Harmless(e["coolant_temp"], LocoSpecs["TE33A"]["coolant_temp"]),
         Harmless(e["traction_motor_temp"], LocoSpecs["TE33A"]["traction_motor_temp"]),
         Harmless(e["crankcase_pressure"], LocoSpecs["TE33A"]["crankcase_pressure"])
  PROVE  /\ Alerting("TE33A", r) \subseteq Lively
         /\ TotalPenalty("TE33A", r)
              = SensorPenalty(e["diesel_rpm"], LocoSpecs["TE33A"]["diesel_rpm"])
                  + SensorPenalty(e["oil_pressure"], LocoSpecs["TE33A"]["oil_pressure"])
                  + SensorPenalty(e["fuel_rate"], LocoSpecs["TE33A"]["fuel_rate"])
<1> DEFINE K == Known("TE33A", r)
<1>1. /\ K = EngineNames \cup CommonNames /\ DOMAIN r = EngineNames \cup CommonNames
      /\ \A s \in EngineNames : r[s] = e[s]
      /\ \A s \in CommonNames : Harmless(r[s], LocoSpecs["TE33A"][s])
  BY DEF DieselReads
<1>2. \A s \in K : s \notin Lively => Harmless(r[s], LocoSpecs["TE33A"][s])
  <2>1. EngineNames = Lively \cup {"coolant_temp", "traction_motor_temp", "crankcase_pressure"}
    BY DEF EngineNames, Lively
  <2>2. \A s \in {"coolant_temp", "traction_motor_temp", "crankcase_pressure"} :
          Harmless(e[s], LocoSpecs["TE33A"][s])
    BY ZenonT(30)
  <2> QED
    BY <1>1, <2>1, <2>2, ZenonT(30)
<1>3. Alerting("TE33A", r) \subseteq Lively
  BY <1>2, ZenonT(30) DEF Alerting, Harmless
<1>4. IsFiniteSet(K)
  <2>1. K = (Lively \cup {"coolant_temp", "traction_motor_temp", "crankcase_pressure"}) \cup CommonNames
    BY <1>1 DEF EngineNames, Lively
  <2>2. IsFiniteSet(Lively) /\ IsFiniteSet({"coolant_temp", "traction_motor_temp", "crankcase_pressure"})
          /\ IsFiniteSet(CommonNames)
    BY ThreeAreFinite DEF Lively, CommonNames
  <2> QED
    BY <2>1, <2>2, FS_Union
<1>5. "diesel_rpm" \in EngineNames /\ "oil_pressure" \in EngineNames /\ "fuel_rate" \in EngineNames
  BY DEF EngineNames
<1>6. /\ r["diesel_rpm"] = e["diesel_rpm"] /\ r["oil_pressure"] = e["oil_pressure"]
      /\ r["fuel_rate"] = e["fuel_rate"]
  BY <1>1, <1>5, ZenonT(30)
<1>7. "diesel_rpm" \in K /\ "oil_pressure" \in K /\ "fuel_rate" \in K
  BY <1>1, <1>5
<1>8. "TE33A" \in DOMAIN LocoSpecs
  BY SMT DEF LocoSpecs
<1>9. TotalPenalty("TE33A", r)
        = SensorPenalty(r["diesel_rpm"], LocoSpecs["TE33A"]["diesel_rpm"])
            + SensorPenalty(r["oil_pressure"], LocoSpecs["TE33A"]["oil_pressure"])
            + SensorPenalty(r["fuel_rate"], LocoSpecs["TE33A"]["fuel_rate"])
  <2>1. r["diesel_rpm"] \in Int /\ r["oil_pressure"] \in Int /\ r["fuel_rate"] \in Int
    BY <1>6, ZenonT(30)
  <2>2. "diesel_rpm" # "oil_pressure" /\ "diesel_rpm" # "fuel_rate" /\ "oil_pressure" # "fuel_rate"
    OBVIOUS
  <2>3. \A s \in K : s \notin {"diesel_rpm", "oil_pressure", "fuel_rate"} => Harmless(r[s], LocoSpecs["TE33A"][s])
    BY <1>2 DEF Lively
  <2> QED
    BY <1>4, <1>7, <1>8, <2>1, <2>2, <2>3, OthersCostNothing
<1> QED
  BY <1>3, <1>6, <1>9, ZenonT(30)

\* What an engine costs at most: its speed in the seventh notch, its pressure at its lowest.
LEMMA RpmCosts ==
  ASSUME NEW v \in Int, v <= 96675
  PROVE  SensorPenalty(v, LocoSpecs["TE33A"]["diesel_rpm"]) <= 2970
<1> DEFINE spec == SensorSpec(15, 70000, 20000, 105000, "upper", 4)
<1>1. spec \in SensorSpecs
  BY SMT DEF SensorSpec, SensorSpecs, Exponents
<1>2. Normalized(v, spec) <= 445
  <2>1. spec.nominal = 70000 /\ spec.safe = 20000 /\ spec.critical = 105000 /\ spec.bound = "upper"
    BY SMT DEF SensorSpec
  <2> HIDE DEF spec
  <2>2. CritRange(spec) = 15000 /\ RawDeviation(v, spec) = AtLeastZero(v - 70000)
    <3>1. CritRange(spec) = 15000
      BY <2>1, SMT DEF CritRange, AtLeastZero, Abs
    <3>2. RawDeviation(v, spec) = AtLeastZero(v - 70000)
      BY <2>1 DEF RawDeviation
    <3> QED
      BY <3>1, <3>2
  <2> DEFINE x == AtLeastZero(AtLeastZero(v - 70000) - 20000)
  <2>3. x \in Nat /\ x <= 6675
    BY SMT DEF AtLeastZero
  <2>4. Normalized(v, spec)
          = IF x >= CritRange(spec) THEN IF x = 0 THEN 0 ELSE 1000 ELSE (1000 * x) \div CritRange(spec)
    BY <2>1, <2>2 DEF Normalized, Share
  <2> HIDE DEF x
  <2> QED
    BY <2>2, <2>3, <2>4, SMT
<1>3. IsShare(445) /\ Power(445, 4) = 198
  BY SMT DEF IsShare, Power
<1>4. spec.weight = 15 /\ spec.exponent = 4
  BY SMT DEF SensorSpec
<1>5. LocoSpecs["TE33A"]["diesel_rpm"] = spec
  BY DieselLimits
<1> HIDE DEF spec
<1>6. SensorPenalty(v, spec) <= spec.weight * Power(445, spec.exponent)
  BY <1>1, <1>2, <1>3, PenaltyAtMost, SMT
<1> QED
  BY <1>3, <1>4, <1>5, <1>6, SMT

LEMMA OilCosts ==
  ASSUME NEW v \in Int
  PROVE  v >= 229 => SensorPenalty(v, LocoSpecs["TE33A"]["oil_pressure"]) <= 1540
<1> DEFINE spec == SensorSpec(35, 350, 100, 150, "lower", 4)
<1>1. spec \in SensorSpecs
  BY SMT DEF SensorSpec, SensorSpecs, Exponents
<1>2. v >= 229 => Normalized(v, spec) <= 210
  <2>1. spec.nominal = 350 /\ spec.safe = 100 /\ spec.critical = 150 /\ spec.bound = "lower"
    BY SMT DEF SensorSpec
  <2> HIDE DEF spec
  <2>2. CritRange(spec) = 100 /\ RawDeviation(v, spec) = AtLeastZero(350 - v)
    <3>1. CritRange(spec) = 100
      <4> DEFINE d == spec.critical - spec.nominal
      <4>1. CritRange(spec) = AtLeastZero(Abs(d) - 100)
        BY <2>1 DEF CritRange
      <4>2. d \in Int /\ d < 0 /\ d + 200 = 0
        BY <2>1, SMT
      <4> HIDE DEF d
      <4>3. Abs(d) = 200
        BY <4>2, SMT DEF Abs
      <4>4. AtLeastZero(200 - 100) = 100
        BY SMT DEF AtLeastZero
      <4> QED
        BY <4>1, <4>3, <4>4
    <3>2. RawDeviation(v, spec) = AtLeastZero(350 - v)
      BY <2>1 DEF RawDeviation
    <3> QED
      BY <3>1, <3>2
  <2> DEFINE x == AtLeastZero(AtLeastZero(350 - v) - 100)
  <2>3. x \in Nat /\ (v >= 229 => x <= 21)
    BY SMT DEF AtLeastZero
  <2>4. Normalized(v, spec)
          = IF x >= CritRange(spec) THEN IF x = 0 THEN 0 ELSE 1000 ELSE (1000 * x) \div CritRange(spec)
    BY <2>1, <2>2 DEF Normalized, Share
  <2> HIDE DEF x
  <2> QED
    BY <2>2, <2>3, <2>4, SMT
<1>3. IsShare(210) /\ Power(210, 4) = 44
  BY SMT DEF IsShare, Power
<1>4. spec.weight = 35 /\ spec.exponent = 4
  BY SMT DEF SensorSpec
<1>5. LocoSpecs["TE33A"]["oil_pressure"] = spec
  BY DieselLimits
<1> HIDE DEF spec
<1>6. v >= 229 => SensorPenalty(v, spec) <= spec.weight * Power(210, spec.exponent)
  BY <1>1, <1>2, <1>3, PenaltyAtMost, SMT
<1> QED
  BY <1>3, <1>4, <1>5, <1>6, SMT

\* What a healthy diesel locomotive shows.
DieselQuiet(setting, reading) ==
  /\ Alerting("TE33A", reading) \subseteq (IF setting \in {7, 8} THEN {"diesel_rpm", "fuel_rate"} ELSE {})
  /\ CategoryOf(Score("TE33A", reading, 0)) # "kritichno"
  /\ setting \in 0..7 => CategoryOf(Score("TE33A", reading, 0)) = "norma"

\* What a diesel engine's sensors cost: nothing in their zones, and the fuel never much.
EngineBill(rpm, oil, fuel) ==
  /\ SensorPenalty(rpm, LocoSpecs["TE33A"]["diesel_rpm"]) \in Nat
  /\ SensorPenalty(oil, LocoSpecs["TE33A"]["oil_pressure"]) \in Nat
  /\ SensorPenalty(fuel, LocoSpecs["TE33A"]["fuel_rate"]) \in Nat
  /\ SensorPenalty(rpm, LocoSpecs["TE33A"]["diesel_rpm"]) <= 15000
  /\ SensorPenalty(oil, LocoSpecs["TE33A"]["oil_pressure"]) <= 35000
  /\ SensorPenalty(fuel, LocoSpecs["TE33A"]["fuel_rate"]) <= 10000
  /\ Harmless(rpm, LocoSpecs["TE33A"]["diesel_rpm"]) =>
       SensorPenalty(rpm, LocoSpecs["TE33A"]["diesel_rpm"]) = 0
  /\ Harmless(fuel, LocoSpecs["TE33A"]["fuel_rate"]) =>
       SensorPenalty(fuel, LocoSpecs["TE33A"]["fuel_rate"]) = 0

LEMMA EngineCosts ==
  ASSUME NEW rpm \in Int, NEW oil \in Int, NEW fuel \in Int
  PROVE  EngineBill(rpm, oil, fuel)
<1> DEFINE spec(s) == LocoSpecs["TE33A"][s]
<1>1. spec("diesel_rpm") \in SensorSpecs /\ spec("oil_pressure") \in SensorSpecs
        /\ spec("fuel_rate") \in SensorSpecs
  <2>1. "TE33A" \in DOMAIN LocoSpecs
    BY SMT DEF LocoSpecs
  <2>2. "diesel_rpm" \in DOMAIN LocoSpecs["TE33A"] /\ "oil_pressure" \in DOMAIN LocoSpecs["TE33A"]
          /\ "fuel_rate" \in DOMAIN LocoSpecs["TE33A"]
    <3>1. DOMAIN LocoSpecs["TE33A"] = {"brake_pipe_pressure", "wheel_slip_ratio", "speed_actual", "diesel_rpm",
         "oil_pressure", "coolant_temp", "fuel_level", "fuel_rate", "traction_motor_temp", "crankcase_pressure"}
      BY DieselLimits
    <3> QED
      BY <3>1
  <2> QED
    BY <2>1, <2>2, SpecsOfLocos DEF LocoSensorSpecs
<1>2. spec("fuel_rate").weight = 10 /\ spec("diesel_rpm").weight = 15 /\ spec("oil_pressure").weight = 35
  <2>1. /\ LocoSpecs["TE33A"]["fuel_rate"] = SensorSpec(10, 8000, 6000, 20000, "upper", 3)
        /\ LocoSpecs["TE33A"]["diesel_rpm"] = SensorSpec(15, 70000, 20000, 105000, "upper", 4)
        /\ LocoSpecs["TE33A"]["oil_pressure"] = SensorSpec(35, 350, 100, 150, "lower", 4)
    BY DieselLimits
  <2> QED
    BY <2>1 DEF SensorSpec
<1> HIDE DEF spec
<1>3. /\ SensorPenalty(rpm, spec("diesel_rpm")) \in Nat /\ SensorPenalty(oil, spec("oil_pressure")) \in Nat
      /\ SensorPenalty(fuel, spec("fuel_rate")) \in Nat
      /\ SensorPenalty(fuel, spec("fuel_rate")) <= spec("fuel_rate").weight * 1000
      /\ SensorPenalty(rpm, spec("diesel_rpm")) <= spec("diesel_rpm").weight * 1000
      /\ SensorPenalty(oil, spec("oil_pressure")) <= spec("oil_pressure").weight * 1000
  BY <1>1, PenaltyOfWeight, SMT
<1>4. /\ Harmless(rpm, spec("diesel_rpm")) => SensorPenalty(rpm, spec("diesel_rpm")) = 0
      /\ Harmless(fuel, spec("fuel_rate")) => SensorPenalty(fuel, spec("fuel_rate")) = 0
  BY <1>1, QuietCostsNothing, ZenonT(30) DEF Harmless
<1>5. /\ SensorPenalty(fuel, spec("fuel_rate")) <= 10 * 1000
      /\ SensorPenalty(rpm, spec("diesel_rpm")) <= 15 * 1000
      /\ SensorPenalty(oil, spec("oil_pressure")) <= 35 * 1000
  BY <1>2, <1>3
<1>6. /\ SensorPenalty(fuel, spec("fuel_rate")) <= 10000
      /\ SensorPenalty(rpm, spec("diesel_rpm")) <= 15000
      /\ SensorPenalty(oil, spec("oil_pressure")) <= 35000
  BY <1>5, SMT
<1> QED
  BY <1>3, <1>4, <1>6, SMT DEF spec, EngineBill

\* The category of a score.
LEMMA CategoryOfTotal ==
  ASSUME NEW type, NEW reading, TotalPenalty(type, reading) \in Nat
  PROVE  /\ TotalPenalty(type, reading) <= 20000 => CategoryOf(Score(type, reading, 0)) = "norma"
         /\ TotalPenalty(type, reading) <= 50000 => CategoryOf(Score(type, reading, 0)) # "kritichno"
<1> DEFINE total == TotalPenalty(type, reading)
<1>1. Score(type, reading, 0) = AtLeastZero(100000 - 0 - total)
  BY DEF Score
<1> HIDE DEF total
<1>2. /\ total <= 20000 => AtLeastZero(100000 - 0 - total) >= 80000
      /\ total <= 50000 => AtLeastZero(100000 - 0 - total) >= 50000
      /\ AtLeastZero(100000 - 0 - total) \in Int
  BY SMT DEF AtLeastZero, total
<1> DEFINE score == AtLeastZero(100000 - 0 - total)
<1> HIDE DEF score
<1>3. /\ total <= 20000 => CategoryOf(score) = "norma"
      /\ total <= 50000 => CategoryOf(score) # "kritichno"
  BY <1>2, SMT DEF CategoryOf, score
<1> QED
  BY <1>1, <1>3 DEF score, total

LEMMA SleeperCosts ==
  ASSUME NEW speed \in Speeds, NEW noise, IsNoise(noise, DieselNames)
  PROVE  DieselQuiet(Asleep, GenerateTe33a(Asleep, speed, noise))
<1> DEFINE r == GenerateTe33a(Asleep, speed, noise)
           e == EngineSensors(Asleep, noise)
<1>0. IsNoise(noise, EngineNames)
  BY DEF IsNoise, DieselNames
<1>1. Asleep \in Setting
  BY DEF Setting
<1>2. DieselReads(r, e)
  BY <1>1, DieselReading
<1> HIDE DEF r, e
<1>3. /\ Harmless(e["diesel_rpm"], LocoSpecs["TE33A"]["diesel_rpm"])
      /\ Harmless(e["fuel_rate"], LocoSpecs["TE33A"]["fuel_rate"])
      /\ Harmless(e["coolant_temp"], LocoSpecs["TE33A"]["coolant_temp"])
      /\ Harmless(e["traction_motor_temp"], LocoSpecs["TE33A"]["traction_motor_temp"])
      /\ Harmless(e["crankcase_pressure"], LocoSpecs["TE33A"]["crankcase_pressure"])
      /\ e["diesel_rpm"] \in Int /\ e["diesel_rpm"] <= 5000
      /\ e["oil_pressure"] \in Int
  BY <1>0, SleeperIsQuiet, DieselLimits, SMT DEF e
<1>4. e["fuel_rate"] \in Int
  BY <1>3 DEF Harmless
<1>5. /\ Alerting("TE33A", r) \subseteq Lively
      /\ TotalPenalty("TE33A", r)
           = SensorPenalty(e["diesel_rpm"], LocoSpecs["TE33A"]["diesel_rpm"])
               + SensorPenalty(e["oil_pressure"], LocoSpecs["TE33A"]["oil_pressure"])
               + SensorPenalty(e["fuel_rate"], LocoSpecs["TE33A"]["fuel_rate"])
  BY <1>2, <1>3, <1>4, DieselCosts
<1>6. /\ DOMAIN r = EngineNames \cup CommonNames
      /\ r["diesel_rpm"] = e["diesel_rpm"] /\ r["fuel_rate"] = e["fuel_rate"]
  <2>1. DOMAIN r = EngineNames \cup CommonNames /\ \A s \in EngineNames : r[s] = e[s]
    BY <1>2 DEF DieselReads
  <2>2. "diesel_rpm" \in EngineNames /\ "fuel_rate" \in EngineNames
    BY DEF EngineNames
  <2> QED
    BY <2>1, <2>2, ZenonT(30)
<1>7. AessActive("TE33A", r)
  <2>1. "diesel_rpm" \in DOMAIN r
    BY <1>6 DEF EngineNames
  <2> QED
    BY <1>3, <1>6, <2>1, SMT DEF AessActive, AessRpmThreshold
<1>8. Alerting("TE33A", r) = {}
  <2>1. "diesel_rpm" \notin Alerting("TE33A", r) /\ "oil_pressure" \notin Alerting("TE33A", r)
    BY <1>7, ZenonT(30) DEF Alerting, AessMaskedSensors
  <2>2. "fuel_rate" \notin Alerting("TE33A", r)
    <3>1. ~ThresholdViolated(r["fuel_rate"], LocoSpecs["TE33A"]["fuel_rate"])
      BY <1>3, <1>6 DEF Harmless
    <3> QED
      BY <3>1, ZenonT(30) DEF Alerting
  <2> QED
    BY <1>5, <2>1, <2>2 DEF Lively
<1>9. TotalPenalty("TE33A", r) \in Nat /\ TotalPenalty("TE33A", r) <= 50000
  <2>1. EngineBill(e["diesel_rpm"], e["oil_pressure"], e["fuel_rate"])
    BY <1>3, <1>4, EngineCosts
  <2>2. /\ SensorPenalty(e["diesel_rpm"], LocoSpecs["TE33A"]["diesel_rpm"]) = 0
        /\ SensorPenalty(e["fuel_rate"], LocoSpecs["TE33A"]["fuel_rate"]) = 0
        /\ SensorPenalty(e["oil_pressure"], LocoSpecs["TE33A"]["oil_pressure"]) \in Nat
        /\ SensorPenalty(e["oil_pressure"], LocoSpecs["TE33A"]["oil_pressure"]) <= 35000
    BY <1>3, <2>1 DEF EngineBill
  <2> QED
    BY <1>5, <2>2, SMT
<1>10. CategoryOf(Score("TE33A", r, 0)) # "kritichno"
  BY <1>9, CategoryOfTotal
<1>11. Asleep \notin {7, 8} /\ Asleep \notin 0..7
  BY DEF Asleep
<1> QED
  BY <1>8, <1>10, <1>11 DEF DieselQuiet, r

LEMMA RunnerCosts ==
  ASSUME NEW notch \in 0..8, NEW speed \in Speeds, NEW noise, IsNoise(noise, DieselNames)
  PROVE  DieselQuiet(notch, GenerateTe33a(notch, speed, noise))
<1> DEFINE r == GenerateTe33a(notch, speed, noise)
           e == EngineSensors(notch, noise)
<1>0. IsNoise(noise, EngineNames)
  BY DEF IsNoise, DieselNames
<1>1. notch \in Setting /\ notch # Asleep
  BY DEF Setting, Notch, Asleep
<1>2. DieselReads(r, e)
  BY <1>1, DieselReading
<1> HIDE DEF r, e
<1>3. /\ notch <= 6 => Harmless(e["diesel_rpm"], LocoSpecs["TE33A"]["diesel_rpm"])
      /\ notch <= 6 => Harmless(e["fuel_rate"], LocoSpecs["TE33A"]["fuel_rate"])
      /\ Harmless(e["coolant_temp"], LocoSpecs["TE33A"]["coolant_temp"])
      /\ Harmless(e["traction_motor_temp"], LocoSpecs["TE33A"]["traction_motor_temp"])
      /\ Harmless(e["crankcase_pressure"], LocoSpecs["TE33A"]["crankcase_pressure"])
      /\ e["diesel_rpm"] \in Int /\ e["oil_pressure"] \in Int /\ e["fuel_rate"] \in Int
      /\ notch <= 7 => e["diesel_rpm"] <= 96675
      /\ e["oil_pressure"] >= 229
      /\ e["oil_pressure"] >= 150 + (e["diesel_rpm"] * 150) \div 105000
  BY <1>0, RunnerIsQuiet, DieselLimits, SMT DEF e
<1>4. /\ Alerting("TE33A", r) \subseteq Lively
      /\ TotalPenalty("TE33A", r)
           = SensorPenalty(e["diesel_rpm"], LocoSpecs["TE33A"]["diesel_rpm"])
               + SensorPenalty(e["oil_pressure"], LocoSpecs["TE33A"]["oil_pressure"])
               + SensorPenalty(e["fuel_rate"], LocoSpecs["TE33A"]["fuel_rate"])
  BY <1>2, <1>3, DieselCosts
<1>5. /\ DOMAIN r = EngineNames \cup CommonNames
      /\ r["diesel_rpm"] = e["diesel_rpm"] /\ r["fuel_rate"] = e["fuel_rate"]
      /\ r["oil_pressure"] = e["oil_pressure"]
  <2>1. DOMAIN r = EngineNames \cup CommonNames /\ \A s \in EngineNames : r[s] = e[s]
    BY <1>2 DEF DieselReads
  <2>2. "diesel_rpm" \in EngineNames /\ "fuel_rate" \in EngineNames /\ "oil_pressure" \in EngineNames
    BY DEF EngineNames
  <2> QED
    BY <2>1, <2>2, ZenonT(30)
<1>6. "oil_pressure" \notin Alerting("TE33A", r)
  <2>1. "diesel_rpm" \in DOMAIN r
    BY <1>5 DEF EngineNames
  <2>2. OilIsExpected(r)
    BY <1>3, <1>5, <2>1, SMT DEF OilIsExpected
  <2> QED
    BY <2>2, ZenonT(30) DEF Alerting
<1>7. Alerting("TE33A", r) \subseteq (IF notch \in {7, 8} THEN {"diesel_rpm", "fuel_rate"} ELSE {})
  <2>1. CASE notch \in {7, 8}
    BY <1>4, <1>6, <2>1 DEF Lively
  <2>2. CASE notch \notin {7, 8}
    <3>1. notch <= 6
      BY <2>2
    <3>2. /\ ~ThresholdViolated(r["fuel_rate"], LocoSpecs["TE33A"]["fuel_rate"])
          /\ ~ThresholdViolated(r["diesel_rpm"], LocoSpecs["TE33A"]["diesel_rpm"])
      BY <1>3, <1>5, <3>1 DEF Harmless
    <3>3. "fuel_rate" \notin Alerting("TE33A", r) /\ "diesel_rpm" \notin Alerting("TE33A", r)
      BY <3>2, ZenonT(30) DEF Alerting
    <3> QED
      BY <1>4, <1>6, <2>2, <3>3 DEF Lively
  <2> QED
    BY <2>1, <2>2
<1>8. EngineBill(e["diesel_rpm"], e["oil_pressure"], e["fuel_rate"])
  BY <1>3, EngineCosts
<1>9. SensorPenalty(e["oil_pressure"], LocoSpecs["TE33A"]["oil_pressure"]) <= 1540
  BY <1>3, OilCosts
<1>10. ASSUME notch \in 0..7 PROVE CategoryOf(Score("TE33A", r, 0)) = "norma"
  <2>1. notch <= 7
    BY <1>10
  <2>2. SensorPenalty(e["diesel_rpm"], LocoSpecs["TE33A"]["diesel_rpm"]) <= 2970
    BY <1>3, <2>1, RpmCosts
  <2>3. TotalPenalty("TE33A", r) \in Nat /\ TotalPenalty("TE33A", r) <= 20000
    BY <1>4, <1>8, <1>9, <2>2, SMT DEF EngineBill
  <2> QED
    BY <2>3, CategoryOfTotal
<1>11. CategoryOf(Score("TE33A", r, 0)) # "kritichno"
  <2>1. TotalPenalty("TE33A", r) \in Nat /\ TotalPenalty("TE33A", r) <= 50000
    BY <1>4, <1>8, <1>9, SMT DEF EngineBill
  <2> QED
    BY <2>1, CategoryOfTotal
<1> QED
  BY <1>1, <1>7, <1>10, <1>11 DEF DieselQuiet, r

ElectricNames == {"catenary_voltage", "pantograph_current", "igbt_temp", "transformer_temp", "dc_link_voltage",
                  "recuperation_current"}

\* An electric locomotive stays within its zones, but for a recuperation that does not flow.
LEMMA ElectricSensorsAreQuiet ==
  ASSUME NEW speed \in Speeds, NEW braking \in BOOLEAN, NEW noise, IsNoise(noise, ElectricNames)
  PROVE  LET r == ElectricSensors(speed, braking, noise) IN
         /\ DOMAIN r = ElectricNames
         /\ Harmless(r["catenary_voltage"], SensorSpec(25, 2500000, 400000, 1900000, "both", 4))
         /\ Harmless(r["pantograph_current"], SensorSpec(15, 20000, 15000, 40000, "upper", 4))
         /\ Harmless(r["igbt_temp"], SensorSpec(30, 5700, 1800, 8500, "upper", 4))
         /\ Harmless(r["transformer_temp"], SensorSpec(20, 6500, 1500, 9000, "upper", 4))
         /\ Harmless(r["dc_link_voltage"], SensorSpec(20, 280000, 30000, 200000, "both", 4))
         /\ r["recuperation_current"] \in Int
         /\ Recuperation(speed, braking) # 0 =>
              Harmless(r["recuperation_current"], SensorSpec(5, 10000, 10000, 0, "lower", 2))
<1> DEFINE current == PantographCurrent(speed)
           catenary == WithNoise(2500000 - 8 * current, 2500000, noise["catenary_voltage"])
           drawn == WithNoise(current, 20000, noise["pantograph_current"])
           igbt == WithNoise(3500 + current \div 10, 5700, noise["igbt_temp"])
           transformer == WithNoise(4500 + (current * 35) \div 400, 6500, noise["transformer_temp"])
           dc == WithNoise(280000, 280000, noise["dc_link_voltage"])
           returned == WithNoise(Recuperation(speed, braking), 10000, noise["recuperation_current"])
<1>0. /\ noise["catenary_voltage"] \in Offsets /\ noise["pantograph_current"] \in Offsets
      /\ noise["igbt_temp"] \in Offsets /\ noise["transformer_temp"] \in Offsets
      /\ noise["dc_link_voltage"] \in Offsets /\ noise["recuperation_current"] \in Offsets
  BY DEF IsNoise, ElectricNames
<1>1. current \in Nat /\ current <= 32500
  BY SMT DEF PantographCurrent, Speeds
<1>2. ElectricSensors(speed, braking, noise) = [catenary_voltage |-> catenary, pantograph_current |-> drawn,
        igbt_temp |-> igbt, transformer_temp |-> transformer, dc_link_voltage |-> dc,
        recuperation_current |-> returned]
  BY DEF ElectricSensors
<1> HIDE DEF current
<1>3. catenary \in Int /\ 2500000 - 400000 <= catenary /\ catenary <= 2500000 + 400000
  <2>1. 2500000 - 8 * current \in Int /\ 2500000 \in Nat \ {0}
    BY <1>1, SMT
  <2>2. Near(catenary, 2500000 - 8 * current, (2500000 * 15) \div 1000)
    BY <1>0, <2>1, Noisy
  <2> HIDE DEF catenary
  <2> QED
    BY <1>1, <2>2, SMT DEF Near
<1>4. drawn \in Int /\ drawn <= 20000 + 15000
  <2>1. Near(drawn, current, (20000 * 15) \div 1000)
    BY <1>0, <1>1, Noisy, SMT
  <2> HIDE DEF drawn
  <2> QED
    BY <1>1, <2>1, SMT DEF Near
<1>5. igbt \in Int /\ igbt <= 5700 + 1800
  <2> DEFINE warm == 3500 + current \div 10
  <2>1. warm \in Int /\ warm <= 6750
    BY <1>1, SMT
  <2> HIDE DEF warm
  <2>2. Near(WithNoise(warm, 5700, noise["igbt_temp"]), warm, (5700 * 15) \div 1000)
    BY <1>0, <2>1, Noisy, SMT
  <2>3. WithNoise(warm, 5700, noise["igbt_temp"]) \in Int /\ WithNoise(warm, 5700, noise["igbt_temp"]) <= 5700 + 1800
    BY <2>1, <2>2, SMT DEF Near
  <2> QED
    BY <2>3 DEF warm
<1>6. transformer \in Int /\ transformer <= 6500 + 1500
  <2> DEFINE warm == 4500 + (current * 35) \div 400
  <2>1. warm \in Int /\ warm <= 7343
    BY <1>1, SMT
  <2> HIDE DEF warm
  <2>2. Near(WithNoise(warm, 6500, noise["transformer_temp"]), warm, (6500 * 15) \div 1000)
    BY <1>0, <2>1, Noisy, SMT
  <2>3. WithNoise(warm, 6500, noise["transformer_temp"]) \in Int /\ WithNoise(warm, 6500, noise["transformer_temp"]) <= 6500 + 1500
    BY <2>1, <2>2, SMT DEF Near
  <2> QED
    BY <2>3 DEF warm
<1>7. dc \in Int /\ 280000 - 30000 <= dc /\ dc <= 280000 + 30000
  <2>1. Near(dc, 280000, (280000 * 15) \div 1000)
    BY <1>0, Noisy, SMT
  <2> HIDE DEF dc
  <2> QED
    BY <2>1, SMT DEF Near
<1>8. returned \in Int /\ (Recuperation(speed, braking) # 0 => 10000 - 10000 <= returned)
  <2> DEFINE flow == Recuperation(speed, braking)
  <2>1. flow \in Int /\ (flow # 0 => flow >= 1666)
    <3>1. CASE braking /\ speed > 20
      <4>1. flow = ((120 - speed) * 20000) \div 120
        BY <3>1 DEF Recuperation
      <4> HIDE DEF flow
      <4> QED
        BY <4>1, SMT DEF Speeds
    <3>2. CASE ~(braking /\ speed > 20)
      BY <3>2 DEF Recuperation
    <3> QED
      BY <3>1, <3>2
  <2> HIDE DEF flow
  <2>2. Near(WithNoise(flow, 10000, noise["recuperation_current"]), flow, (10000 * 15) \div 1000)
    BY <1>0, <2>1, Noisy, SMT
  <2>3. WithNoise(flow, 10000, noise["recuperation_current"]) \in Int /\ (flow # 0 => 10000 - 10000 <= WithNoise(flow, 10000, noise["recuperation_current"]))
    BY <2>1, <2>2, SMT DEF Near
  <2> QED
    BY <2>3 DEF flow
<1> HIDE DEF catenary, drawn, igbt, transformer, dc, returned
<1>9. /\ Harmless(catenary, SensorSpec(25, 2500000, 400000, 1900000, "both", 4))
      /\ Harmless(drawn, SensorSpec(15, 20000, 15000, 40000, "upper", 4))
      /\ Harmless(igbt, SensorSpec(30, 5700, 1800, 8500, "upper", 4))
  BY <1>3, <1>4, <1>5, InsideIsHarmless, SMT
<1>10. /\ Harmless(transformer, SensorSpec(20, 6500, 1500, 9000, "upper", 4))
       /\ Harmless(dc, SensorSpec(20, 280000, 30000, 200000, "both", 4))
       /\ Recuperation(speed, braking) # 0 => Harmless(returned, SensorSpec(5, 10000, 10000, 0, "lower", 2))
  BY <1>6, <1>7, <1>8, InsideIsHarmless, SMT
<1> QED
  BY <1>2, <1>8, <1>9, <1>10, SMT DEF ElectricNames

\* What a healthy electric locomotive shows.
ElectricQuiet(flow, reading) ==
  /\ Alerting("KZ8A", reading) \subseteq (IF flow = 0 THEN {"recuperation_current"} ELSE {})
  /\ CategoryOf(Score("KZ8A", reading, 0)) = "norma"

LEMMA ElectricCosts ==
  ASSUME NEW speed \in Speeds, NEW braking \in BOOLEAN, NEW noise,
         IsNoise(noise, ElectricNames \cup CommonNames)
  PROVE  ElectricQuiet(Recuperation(speed, braking), GenerateKz8a(speed, braking, noise))
<1> DEFINE e == ElectricSensors(speed, braking, noise)
           c == CommonSensors(speed, noise)
           r == GenerateKz8a(speed, braking, noise)
           spec(s) == LocoSpecs["KZ8A"][s]
           K == Known("KZ8A", r)
           flow == Recuperation(speed, braking)
<1>0. r = Joined(e, c) /\ IsNoise(noise, ElectricNames) /\ IsNoise(noise, CommonNames)
  BY DEF GenerateKz8a, IsNoise
<1>1. /\ DOMAIN c = CommonNames
      /\ \A s \in CommonNames : Harmless(c[s], spec(s))
  <2> HIDE DEF c
  <2>1. /\ DOMAIN c = CommonNames
        /\ Harmless(c["speed_actual"], SensorSpec(15, 6000, 6000, 12000, "upper", 4))
        /\ Harmless(c["brake_pipe_pressure"], SensorSpec(40, 510, 20, 200, "lower", 6))
        /\ Harmless(c["wheel_slip_ratio"], SensorSpec(20, 0, 5, 50, "upper", 4))
    BY <1>0, CommonIsQuiet DEF CommonNames, c
  <2>2. /\ Harmless(c["speed_actual"], spec("speed_actual"))
        /\ Harmless(c["brake_pipe_pressure"], spec("brake_pipe_pressure"))
        /\ Harmless(c["wheel_slip_ratio"], spec("wheel_slip_ratio"))
    BY <2>1, ElectricLimits, SMT
  <2> HIDE DEF spec
  <2>3. \A s \in CommonNames : Harmless(c[s], spec(s))
    BY <2>2, ZenonT(30) DEF CommonNames
  <2> QED
    BY <2>1, <2>3
<1>2. /\ DOMAIN e = ElectricNames
      /\ \A s \in ElectricNames : s # "recuperation_current" => Harmless(e[s], spec(s))
      /\ e["recuperation_current"] \in Int
      /\ flow # 0 => Harmless(e["recuperation_current"], spec("recuperation_current"))
  <2> HIDE DEF e
  <2>1. /\ DOMAIN e = ElectricNames
        /\ Harmless(e["catenary_voltage"], spec("catenary_voltage"))
        /\ Harmless(e["pantograph_current"], spec("pantograph_current"))
        /\ Harmless(e["igbt_temp"], spec("igbt_temp"))
        /\ Harmless(e["transformer_temp"], spec("transformer_temp"))
        /\ Harmless(e["dc_link_voltage"], spec("dc_link_voltage"))
        /\ e["recuperation_current"] \in Int
        /\ flow # 0 => Harmless(e["recuperation_current"], spec("recuperation_current"))
    BY <1>0, ElectricSensorsAreQuiet, ElectricLimits, SMT DEF e
  <2> HIDE DEF spec, flow
  <2> QED
    BY <2>1, ZenonT(30) DEF ElectricNames
<1>3. DOMAIN LocoSpecs["KZ8A"] = ElectricNames \cup CommonNames
  <2>1. DOMAIN LocoSpecs["KZ8A"] = {"brake_pipe_pressure", "wheel_slip_ratio", "speed_actual", "catenary_voltage",
         "pantograph_current", "transformer_temp", "igbt_temp", "recuperation_current", "dc_link_voltage"}
    BY ElectricLimits
  <2> QED
    BY <2>1 DEF ElectricNames, CommonNames
<1>4. "KZ8A" \in DOMAIN LocoSpecs
  BY SMT DEF LocoSpecs
<1> HIDE DEF e, c, r, flow
<1>5. /\ K = ElectricNames \cup CommonNames
      /\ \A s \in ElectricNames : r[s] = e[s]
      /\ \A s \in CommonNames : r[s] = c[s]
  <2>1. \A s \in DOMAIN c : s \notin DOMAIN e
    BY <1>1, <1>2 DEF CommonNames, ElectricNames
  <2>2. JoinsTables(r, e, c)
    BY <1>0, <2>1, JoinedTables, ZenonT(30)
  <2>3. DOMAIN r = ElectricNames \cup CommonNames
    BY <1>1, <1>2, <2>2, ZenonT(30) DEF JoinsTables
  <2> QED
    BY <1>1, <1>2, <1>3, <2>2, <2>3, ZenonT(30) DEF JoinsTables, Known
<1>6. /\ \A s \in K : s # "recuperation_current" => Harmless(r[s], spec(s))
      /\ "recuperation_current" \in K /\ "igbt_temp" \in K /\ "dc_link_voltage" \in K
      /\ r["recuperation_current"] \in Int
      /\ flow # 0 => Harmless(r["recuperation_current"], spec("recuperation_current"))
  <2>1. "recuperation_current" \in ElectricNames /\ "igbt_temp" \in ElectricNames
          /\ "dc_link_voltage" \in ElectricNames
    BY DEF ElectricNames
  <2> HIDE DEF spec, K
  <2> QED
    BY <1>1, <1>2, <1>5, <2>1, ZenonT(30)
<1>7. IsFiniteSet(K)
  <2>1. K = ({"catenary_voltage", "pantograph_current", "igbt_temp"}
               \cup {"transformer_temp", "dc_link_voltage", "recuperation_current"}) \cup CommonNames
    BY <1>5 DEF ElectricNames
  <2>2. /\ IsFiniteSet({"catenary_voltage", "pantograph_current", "igbt_temp"})
        /\ IsFiniteSet({"transformer_temp", "dc_link_voltage", "recuperation_current"})
        /\ IsFiniteSet(CommonNames)
    BY ThreeAreFinite DEF CommonNames
  <2> QED
    BY <2>1, <2>2, FS_Union
<1>8. Alerting("KZ8A", r) \subseteq (IF flow = 0 THEN {"recuperation_current"} ELSE {})
  <2>1. \A s \in Alerting("KZ8A", r) : s \in K /\ ThresholdViolated(r[s], spec(s))
    BY ZenonT(30) DEF Alerting
  <2> HIDE DEF spec, K
  <2>2. \A s \in Alerting("KZ8A", r) : s = "recuperation_current" /\ flow = 0
    BY <1>6, <2>1, ZenonT(30) DEF Harmless
  <2> QED
    BY <2>2
<1>9. TotalPenalty("KZ8A", r) \in Nat /\ TotalPenalty("KZ8A", r) <= 20000
  <2>1. "recuperation_current" # "igbt_temp" /\ "recuperation_current" # "dc_link_voltage"
          /\ "igbt_temp" # "dc_link_voltage"
    OBVIOUS
  <2>2. Harmless(r["igbt_temp"], spec("igbt_temp")) /\ Harmless(r["dc_link_voltage"], spec("dc_link_voltage"))
    BY <1>6, <2>1, ZenonT(30)
  <2>3. r["igbt_temp"] \in Int /\ r["dc_link_voltage"] \in Int
    BY <2>2 DEF Harmless
  <2>4. TotalPenalty("KZ8A", r)
          = SensorPenalty(r["recuperation_current"], spec("recuperation_current"))
              + SensorPenalty(r["igbt_temp"], spec("igbt_temp"))
              + SensorPenalty(r["dc_link_voltage"], spec("dc_link_voltage"))
    BY <1>4, <1>6, <1>7, <2>1, <2>3, OthersCostNothing
  <2>5. \A s \in K : spec(s) \in SensorSpecs
    BY <1>4, SpecsOfLocos DEF Known, LocoSensorSpecs
  <2>6. spec("recuperation_current").weight = 5
    <3>1. spec("recuperation_current") = SensorSpec(5, 10000, 10000, 0, "lower", 2)
      BY ElectricLimits
    <3> QED
      BY <3>1 DEF SensorSpec
  <2> HIDE DEF spec, K
  <2>7. /\ SensorPenalty(r["igbt_temp"], spec("igbt_temp")) = 0
        /\ SensorPenalty(r["dc_link_voltage"], spec("dc_link_voltage")) = 0
    BY <1>6, <2>2, <2>5, QuietCostsNothing, ZenonT(30) DEF Harmless
  <2>8. /\ SensorPenalty(r["recuperation_current"], spec("recuperation_current")) \in Nat
        /\ SensorPenalty(r["recuperation_current"], spec("recuperation_current"))
             <= spec("recuperation_current").weight * 1000
    BY <1>6, <2>5, PenaltyOfWeight, SMT
  <2>9. SensorPenalty(r["recuperation_current"], spec("recuperation_current")) <= 5 * 1000
    BY <2>6, <2>8
  <2> QED
    BY <2>4, <2>7, <2>8, <2>9, SMT
<1>10. CategoryOf(Score("KZ8A", r, 0)) = "norma"
  BY <1>9, CategoryOfTotal
<1> QED
  BY <1>8, <1>10 DEF ElectricQuiet, r, flow

\* The generators te33a.py and kz8a.py, at every setting and speed and whatever noise each
\* sensor has within three deviations: a healthy locomotive raises no alert but for the sensors
\* the promise names, is never critical, and loses no category but in the top notch and asleep.
THEOREM WhateverTheNoise ==
  ASSUME NEW speed \in 0..110
  PROVE  /\ \A setting \in Setting, noise \in [DOMAIN LocoSpecs["TE33A"] -> Offsets] :
              DieselQuiet(setting, GenerateTe33a(setting, speed, noise))
         /\ \A braking \in BOOLEAN, noise \in [DOMAIN LocoSpecs["KZ8A"] -> Offsets] :
              ElectricQuiet(Recuperation(speed, braking), GenerateKz8a(speed, braking, noise))
<1>1. speed \in Speeds
  BY DEF Speeds
<1>2. ASSUME NEW setting \in Setting, NEW noise \in [DOMAIN LocoSpecs["TE33A"] -> Offsets]
      PROVE  DieselQuiet(setting, GenerateTe33a(setting, speed, noise))
  <2>1. IsNoise(noise, DieselNames)
    <3>1. DOMAIN LocoSpecs["TE33A"] = {"brake_pipe_pressure", "wheel_slip_ratio", "speed_actual",
            "diesel_rpm", "oil_pressure", "coolant_temp", "fuel_level", "fuel_rate",
            "traction_motor_temp", "crankcase_pressure"}
      BY DieselLimits
    <3>2. DieselNames \subseteq DOMAIN LocoSpecs["TE33A"]
      BY <3>1 DEF DieselNames, EngineNames, CommonNames
    <3> QED
      BY <3>2 DEF IsNoise
  <2>2. setting = Asleep \/ setting \in 0..8
    BY DEF Setting, Notch
  <2>3. CASE setting = Asleep
    BY <1>1, <2>1, <2>3, SleeperCosts
  <2>4. CASE setting \in 0..8
    BY <1>1, <2>1, <2>4, RunnerCosts
  <2> QED
    BY <2>2, <2>3, <2>4
<1>3. ASSUME NEW braking \in BOOLEAN, NEW noise \in [DOMAIN LocoSpecs["KZ8A"] -> Offsets]
      PROVE  ElectricQuiet(Recuperation(speed, braking), GenerateKz8a(speed, braking, noise))
  <2>1. IsNoise(noise, ElectricNames \cup CommonNames)
    <3>1. DOMAIN LocoSpecs["KZ8A"] = {"brake_pipe_pressure", "wheel_slip_ratio", "speed_actual",
            "catenary_voltage", "pantograph_current", "transformer_temp", "igbt_temp",
            "recuperation_current", "dc_link_voltage"}
      BY ElectricLimits
    <3>2. ElectricNames \cup CommonNames \subseteq DOMAIN LocoSpecs["KZ8A"]
      BY <3>1 DEF ElectricNames, CommonNames
    <3> QED
      BY <3>2 DEF IsNoise
  <2> QED
    BY <1>1, <2>1, ElectricCosts
<1> QED
  BY <1>2, <1>3

\* HealthyIsQuiet: the promise, at the ends of every sensor's noise.
THEOREM HealthyAreQuiet == Spec => []HealthyIsQuiet
<1>0. {-15, 15} \subseteq Offsets /\ {0, 110} \subseteq 0..110 /\ {0, 20, 21, 110} \subseteq 0..110
  BY SMT DEF Offsets
<1>1. MisjudgedDiesels = {}
  <2> SUFFICES ASSUME NEW c \in [setting : Setting, speed : {0, 110}, noise : LoudNoise("TE33A")],
                      ~DieselQuiet(c.setting, GenerateTe33a(c.setting, c.speed, c.noise))
               PROVE  FALSE
    BY ZenonT(30) DEF MisjudgedDiesels, DieselQuiet
  <2>1. c.setting \in Setting /\ c.speed \in 0..110 /\ c.noise \in [DOMAIN LocoSpecs["TE33A"] -> Offsets]
    BY <1>0 DEF LoudNoise
  <2> QED
    BY <2>1, WhateverTheNoise
<1>2. MisjudgedElectrics = {}
  <2> SUFFICES ASSUME NEW c \in [braking : BOOLEAN, speed : {0, 20, 21, 110}, noise : LoudNoise("KZ8A")],
                      ~ElectricQuiet(Recuperation(c.speed, c.braking), GenerateKz8a(c.speed, c.braking, c.noise))
               PROVE  FALSE
    BY ZenonT(30) DEF MisjudgedElectrics, ElectricQuiet
  <2>1. c.braking \in BOOLEAN /\ c.speed \in 0..110 /\ c.noise \in [DOMAIN LocoSpecs["KZ8A"] -> Offsets]
    BY <1>0 DEF LoudNoise
  <2> QED
    BY <2>1, WhateverTheNoise
<1> QED
  BY <1>1, <1>2, PTL DEF HealthyIsQuiet
=============================================================================
