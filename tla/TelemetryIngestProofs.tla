------------------------ MODULE TelemetryIngestProofs ------------------------
(***************************************************************************)
(* Theorems about the path of the readings, for any fleet, batch size,     *)
(* buffer, number of retries and of faults, and (but for the last one) any *)
(* number of worker processes.                                             *)
(***************************************************************************)
EXTENDS TelemetryIngest, SequenceTheorems, FiniteSetTheorems, FunctionTheorems,
        WellFoundedInduction, TLAPS

-----------------------------------------------------------------------------
(* Induction over numbers and sequences: the flattening of the posts, the  *)
(* cut into batches, the sequence of a set.                                *)

\* A set of numbers has a smallest.
LEMMA Smallest ==
  ASSUME NEW T \in SUBSET Nat, T # {}
  PROVE  \E x \in T : \A y \in T : x <= y
<1> DEFINE R == OpToRel(<, Nat)
<1>1. IsWellFoundedOn(R, Nat)
  BY NatLessThanWellFounded, Zenon
<1>2. \A x, y \in Nat : <<y, x>> \in R <=> y < x
  BY DEF OpToRel
<1> HIDE DEF R
<1>3. \E x \in T : \A y \in T : ~ (<<y, x>> \in R)
  BY <1>1, WFMin, Zenon
<1>4. PICK x \in T : \A y \in T : ~ (<<y, x>> \in R)
  BY <1>3
<1>5. ASSUME NEW y \in T PROVE x <= y
  <2>1. x \in Nat /\ y \in Nat /\ ~ (<<y, x>> \in R)
    BY <1>4
  <2>2. ~ (y < x)
    BY <1>2, <2>1
  <2> QED BY <2>1, <2>2
<1> QED BY <1>5

\* A set that holds 0, and with a number its successor, holds every number.
LEMMA Induction ==
  ASSUME NEW S \in SUBSET Nat, 0 \in S, \A n \in S : n + 1 \in S
  PROVE  S = Nat
<1>1. SUFFICES ASSUME Nat \ S # {} PROVE FALSE
  BY Zenon
<1>2. PICK x \in Nat \ S : \A y \in Nat \ S : x <= y
  BY <1>1, Smallest, Zenon
<1>3. x # 0 /\ x - 1 \in S
  BY <1>2
<1> QED BY <1>2, <1>3

\* FlattenSeq() concatenates one sequence after another: f[i] is the first i of them.
Steps(f, seqs, n) == f = [i \in 1..n |-> IF i = 1 THEN seqs[i] ELSE f[i - 1] \o seqs[i]]

\* The concatenations of the first n sequences exist.
LEMMA StepsExist ==
  ASSUME NEW S, NEW seqs \in Seq(Seq(S)), NEW n \in Nat
  PROVE  \E f : Steps(f, seqs, n)
<1> DEFINE T == {k \in Nat : \E f : Steps(f, seqs, k)}
<1>1. 0 \in T
  <2>1. Steps([i \in 1..0 |-> <<>>], seqs, 0)
    BY DEF Steps
  <2> QED
    BY <2>1
<1>2. ASSUME NEW k \in T PROVE k + 1 \in T
  <2>1. PICK f : Steps(f, seqs, k)
    OBVIOUS
  <2> DEFINE g == [i \in 1..k + 1 |-> IF i <= k THEN f[i]
                                      ELSE IF i = 1 THEN seqs[i] ELSE f[i - 1] \o seqs[i]]
  <2>2. \A i \in 1..k : f[i] = IF i = 1 THEN seqs[i] ELSE f[i - 1] \o seqs[i]
    BY <2>1, Zenon DEF Steps
  <2>3. \A i \in 1..k + 1 : g[i] = IF i = 1 THEN seqs[i] ELSE g[i - 1] \o seqs[i]
    BY <2>2
  <2>4. g = [i \in 1..k + 1 |-> g[i]]
    OBVIOUS
  <2> HIDE DEF g
  <2>5. Steps(g, seqs, k + 1)
    BY <2>3, <2>4, Zenon DEF Steps
  <2> QED
    BY <2>5
<1> HIDE DEF T
<1>3. T = Nat
  <2>1. T \in SUBSET Nat
    BY DEF T
  <2> QED
  BY <1>1, <1>2, <2>1, Induction, Zenon
<1> QED
  BY <1>3, Zenon DEF T

\* One more sequence concatenated.
Unrolls(f, seqs, i) == f[i] = f[i - 1] \o seqs[i]

\* What one more sequence adds.
Counts(f, seqs, i) ==
  /\ Len(f[i]) = Len(f[i - 1]) + Len(seqs[i])
  /\ Range(f[i]) = Range(f[i - 1]) \cup Range(seqs[i])
  /\ IsInjective(f[i]) <=> /\ IsInjective(f[i - 1]) /\ IsInjective(seqs[i])
                           /\ Range(f[i - 1]) \cap Range(seqs[i]) = {}

\* FlattenSeq() is the last of the concatenations.
LEMMA FlattenSteps ==
  ASSUME NEW S, NEW seqs \in Seq(Seq(S))
  PROVE  \E f \in [0..Len(seqs) -> Seq(S)] :
            /\ f[0] = <<>>
            /\ \A i \in 1..Len(seqs) : Unrolls(f, seqs, i)
            /\ FlattenSeq(seqs) = f[Len(seqs)]
<1> DEFINE n == Len(seqs)
           flatten == CHOOSE f : Steps(f, seqs, n)
           g == [i \in 0..n |-> IF i = 0 THEN <<>> ELSE flatten[i]]
<1>1. n \in Nat /\ \A i \in 1..n : seqs[i] \in Seq(S)
  BY ElementOfSeq
<1>2. Steps(flatten, seqs, n)
  BY <1>1, StepsExist
<1>3. n # 0 => FlattenSeq(seqs) = flatten[n]
  BY DEF FlattenSeq, Steps
<1>4. n = 0 => FlattenSeq(seqs) = <<>>
  BY EmptySeq DEF FlattenSeq
<1> HIDE DEF flatten
<1>5. \A i \in 1..n : flatten[i] = IF i = 1 THEN seqs[i] ELSE flatten[i - 1] \o seqs[i]
  BY <1>2, Zenon DEF Steps
<1>6. \A i \in 1..n : flatten[i] \in Seq(S)
  <2> DEFINE T == {k \in Nat : k + 1 \in 1..n => flatten[k + 1] \in Seq(S)}
  <2>1. 0 \in T
    <3>1. 1 \in 1..n => flatten[1] = seqs[1] /\ seqs[1] \in Seq(S)
      BY <1>1, <1>5
    <3> QED
      BY <3>1
  <2>2. ASSUME NEW k \in T PROVE k + 1 \in T
    <3> SUFFICES ASSUME k + 2 \in 1..n PROVE flatten[k + 2] \in Seq(S)
      BY DEF T
    <3>1. flatten[k + 1] \in Seq(S)
      BY <1>1 DEF T
    <3>2. seqs[k + 2] \in Seq(S)
      BY <1>1
    <3>3. flatten[k + 2] = flatten[(k + 2) - 1] \o seqs[k + 2]
      <4>1. k + 2 # 1
        OBVIOUS
      <4> QED
        BY <1>5, <4>1, Zenon
    <3>4. (k + 2) - 1 = k + 1
      OBVIOUS
    <3> QED
      BY <3>1, <3>2, <3>3, <3>4, ConcatProperties
  <2>3. T \in SUBSET Nat
    OBVIOUS
  <2> HIDE DEF T
  <2>4. T = Nat
    BY <2>1, <2>2, <2>3, Induction, Zenon
  <2>5. ASSUME NEW i \in 1..n PROVE flatten[i] \in Seq(S)
    <3>1. i - 1 \in Nat /\ (i - 1) + 1 = i
      BY <1>1
    <3> QED
      BY <2>4, <3>1, Zenon DEF T
  <2> QED
    BY <2>5
<1>7. g \in [0..n -> Seq(S)] /\ g[0] = <<>>
  BY <1>1, <1>6, EmptySeq
<1>8. FlattenSeq(seqs) = g[n]
  BY <1>1, <1>3, <1>4
<1>9. ASSUME NEW i \in 1..n PROVE g[i] = g[i - 1] \o seqs[i]
  <2>1. CASE i = 1
    <3>1. g[1] = flatten[1] /\ g[0] = <<>>
      BY <1>1, <2>1
    <3>2. flatten[1] = seqs[1] /\ seqs[1] \in Seq(S)
      BY <1>1, <1>5, <2>1
    <3>3. <<>> \o seqs[1] = seqs[1]
      BY <3>2, ConcatEmptySeq
    <3>4. g[i - 1] = g[0]
      BY <2>1
    <3> HIDE DEF g
    <3> QED
      BY <2>1, <3>1, <3>2, <3>3, <3>4
  <2>2. CASE i # 1
    <3>1. g[i] = flatten[i] /\ g[i - 1] = flatten[i - 1]
      BY <1>1, <2>2
    <3>2. flatten[i] = flatten[i - 1] \o seqs[i]
      BY <1>5, <2>2, Zenon
    <3> QED
      BY <3>1, <3>2, Zenon
  <2> QED
    BY <2>1, <2>2, Zenon
<1> HIDE DEF g
<1>10. \A i \in 1..n : Unrolls(g, seqs, i)
  BY <1>9, Zenon DEF Unrolls
<1> QED
  BY <1>7, <1>8, <1>10
\* Induction up to a number.
LEMMA UpTo ==
  ASSUME NEW n \in Nat, NEW T, 0 \in T, \A i \in 1..n : i - 1 \in T => i \in T
  PROVE  \A i \in 0..n : i \in T
<1> DEFINE U == {k \in Nat : k \in 0..n => k \in T}
<1>1. ASSUME NEW k \in U PROVE k + 1 \in U
  <2> SUFFICES ASSUME k + 1 \in 0..n PROVE k + 1 \in T
    OBVIOUS
  <2>1. (k + 1) \in 1..n /\ (k + 1) - 1 = k /\ k \in T
    OBVIOUS
  <2> QED
    BY <2>1
<1>2. 0 \in U /\ U \in SUBSET Nat
  OBVIOUS
<1> HIDE DEF U
<1>3. U = Nat
  BY <1>1, <1>2, Induction
<1> QED
  BY <1>3 DEF U

\* A function on 1..n is a sequence of length n.
LEMMA FunctionIsSeq ==
  ASSUME NEW S, NEW n \in Nat, NEW f \in [1..n -> S]
  PROVE  f \in Seq(S) /\ Len(f) = n
BY SeqDef, LenProperties

\* What FlattenSeq() returns; of no sequence; of one.
LEMMA FlattenType ==
  ASSUME NEW S, NEW seqs \in Seq(Seq(S))
  PROVE  FlattenSeq(seqs) \in Seq(S)
<1>1. PICK f \in [0..Len(seqs) -> Seq(S)] : FlattenSeq(seqs) = f[Len(seqs)]
  BY FlattenSteps
<1>2. Len(seqs) \in 0..Len(seqs)
  BY LenProperties
<1> QED
  BY <1>1, <1>2, Zenon

LEMMA FlattenEmpty ==
  FlattenSeq(<<>>) = <<>>
BY EmptySeq DEF FlattenSeq

LEMMA FlattenOne ==
  ASSUME NEW S, NEW s \in Seq(S)
  PROVE  FlattenSeq(<<s>>) = s
<1>1. <<s>> \in Seq(Seq(S)) /\ Len(<<s>>) = 1 /\ <<s>>[1] = s
  OBVIOUS
<1> DEFINE seqs == <<s>>
<1> HIDE DEF seqs
<1>2. PICK f \in [0..1 -> Seq(S)] : /\ f[0] = <<>>
                                    /\ \A i \in 1..1 : Unrolls(f, seqs, i)
                                    /\ FlattenSeq(seqs) = f[1]
  BY <1>1, FlattenSteps, Zenon DEF seqs
<1>3. f[1] = f[1 - 1] \o seqs[1]
  <2>1. 1 \in 1..1
    OBVIOUS
  <2> QED
    BY <1>2, <2>1, Zenon DEF Unrolls
<1>4. f[1] = <<>> \o s
  <2>1. 1 - 1 = 0
    OBVIOUS
  <2> QED
    BY <1>1, <1>2, <1>3, <2>1, Zenon DEF seqs
<1>5. <<>> \o s = s
  BY ConcatEmptySeq
<1>6. FlattenSeq(seqs) = f[1]
  BY <1>2
<1>7. FlattenSeq(seqs) = s
  BY <1>4, <1>5, <1>6, Zenon
<1> QED
  BY <1>7 DEF seqs

\* FlattenSeq() has the elements of its sequences.
LEMMA FlattenRange ==
  ASSUME NEW S, NEW seqs \in Seq(Seq(S)), NEW x
  PROVE  x \in Range(FlattenSeq(seqs)) <=> \E b \in 1..Len(seqs) : x \in Range(seqs[b])
<1> DEFINE n == Len(seqs)
<1>1. PICK f \in [0..n -> Seq(S)] : /\ f[0] = <<>>
                                    /\ \A i \in 1..n : Unrolls(f, seqs, i)
                                    /\ FlattenSeq(seqs) = f[n]
  BY FlattenSteps
<1>2. n \in Nat /\ \A i \in 1..n : seqs[i] \in Seq(S)
  BY ElementOfSeq
<1> HIDE DEF n
<1> DEFINE T == {k \in 0..n : x \in Range(f[k]) <=> \E b \in 1..k : x \in Range(seqs[b])}
<1>3. 0 \in T
  <2>1. Range(f[0]) = {}
    BY <1>1, EmptySeq DEF Range
  <2>2. 1..0 = {} /\ 0 \in 0..n
    BY <1>2
  <2> QED
    BY <2>1, <2>2
<1>4. ASSUME NEW i \in 1..n, i - 1 \in T PROVE i \in T
  <2>1. i - 1 \in 0..n /\ i \in 0..n /\ 1..i = (1..(i - 1)) \cup {i}
    BY <1>2
  <2>2. f[i - 1] \in Seq(S) /\ seqs[i] \in Seq(S) /\ Unrolls(f, seqs, i)
    BY <1>1, <1>2, <2>1, Zenon
  <2>3. Range(f[i]) = Range(f[i - 1]) \cup Range(seqs[i])
    BY <2>2, RangeConcatenation, SMT DEF Unrolls
  <2> QED
    BY <1>4, <2>1, <2>3, Zenon
<1> HIDE DEF T
<1>5. n \in T
  <2>1. n \in 0..n
    BY <1>2
  <2> QED
    BY <1>2, <1>3, <1>4, <2>1, UpTo, Zenon
<1>6. x \in Range(f[n]) <=> \E b \in 1..n : x \in Range(seqs[b])
  BY <1>5, Zenon DEF T
<1>7. FlattenSeq(seqs) = f[n]
  BY <1>1 DEF n
<1> QED
  BY <1>6, <1>7, Zenon DEF n

\* A concatenation repeats nothing when neither part does and they share nothing.
LEMMA InjectiveConcat ==
  ASSUME NEW S, NEW s \in Seq(S), NEW t \in Seq(S)
  PROVE  IsInjective(s \o t) <=>
            IsInjective(s) /\ IsInjective(t) /\ Range(s) \cap Range(t) = {}
<1>1. /\ DOMAIN s = 1..Len(s) /\ DOMAIN t = 1..Len(t) /\ Len(s) \in Nat /\ Len(t) \in Nat
      /\ DOMAIN (s \o t) = 1..(Len(s) + Len(t))
  BY LenProperties, ConcatProperties
<1> DEFINE u == s \o t
<1>2. \A i \in 1..Len(s) : u[i] = s[i]
  BY <1>1, ConcatProperties
<1>3. \A i \in 1..Len(t) : u[Len(s) + i] = t[i]
  <2> TAKE i \in 1..Len(t)
  <2>1. Len(s) + i \in 1..(Len(s) + Len(t)) /\ ~ (Len(s) + i <= Len(s))
        /\ (Len(s) + i) - Len(s) = i
    BY <1>1
  <2> QED
    BY <2>1, ConcatProperties
<1>4. DOMAIN u = 1..(Len(s) + Len(t))
  BY <1>1
<1> HIDE DEF u
<1>5. ASSUME IsInjective(u) PROVE IsInjective(s)
  BY <1>1, <1>2, <1>4, <1>5 DEF IsInjective
<1>6. ASSUME IsInjective(u) PROVE IsInjective(t)
  <2> SUFFICES ASSUME NEW i \in 1..Len(t), NEW j \in 1..Len(t), t[i] = t[j] PROVE i = j
    BY <1>1 DEF IsInjective
  <2>1. Len(s) + i \in DOMAIN u /\ Len(s) + j \in DOMAIN u /\ u[Len(s) + i] = u[Len(s) + j]
    BY <1>1, <1>3, <1>4
  <2>2. Len(s) + i = Len(s) + j
    BY <1>6, <2>1 DEF IsInjective
  <2> QED
    BY <1>1, <2>2
<1>7. ASSUME IsInjective(u), NEW i \in 1..Len(s), NEW j \in 1..Len(t) PROVE s[i] # t[j]
  <2>1. i \in DOMAIN u /\ Len(s) + j \in DOMAIN u /\ i # Len(s) + j
    BY <1>1, <1>4
  <2> QED
    BY <1>2, <1>3, <1>7, <2>1 DEF IsInjective
<1>8. ASSUME IsInjective(s), IsInjective(t),
             \A i \in 1..Len(s), j \in 1..Len(t) : s[i] # t[j]
      PROVE  IsInjective(u)
  <2>0. \A i \in DOMAIN u : i \in 1..Len(s) \/ \E k \in 1..Len(t) : i = Len(s) + k
    <3> TAKE i \in DOMAIN u
    <3>1. \/ i \in 1..Len(s)
          \/ i - Len(s) \in 1..Len(t) /\ i = Len(s) + (i - Len(s))
      BY <1>1, <1>4
    <3> QED
      BY <3>1
  <2> SUFFICES ASSUME NEW i \in DOMAIN u, NEW j \in DOMAIN u, u[i] = u[j] PROVE i = j
    BY DEF IsInjective
  <2>1. CASE i \in 1..Len(s) /\ j \in 1..Len(s)
    BY <1>1, <1>2, <1>8, <2>1 DEF IsInjective
  <2>2. CASE i \in 1..Len(s) /\ \E k \in 1..Len(t) : j = Len(s) + k
    BY <1>2, <1>3, <1>8, <2>2
  <2>3. CASE j \in 1..Len(s) /\ \E k \in 1..Len(t) : i = Len(s) + k
    BY <1>2, <1>3, <1>8, <2>3
  <2>4. CASE (\E k \in 1..Len(t) : j = Len(s) + k) /\ (\E k \in 1..Len(t) : i = Len(s) + k)
    <3>1. PICK k \in 1..Len(t) : j = Len(s) + k
      BY <2>4
    <3>2. PICK m \in 1..Len(t) : i = Len(s) + m
      BY <2>4
    <3>3. t[k] = t[m]
      BY <1>3, <3>1, <3>2
    <3> QED
      BY <1>1, <1>8, <3>1, <3>2, <3>3, Zenon DEF IsInjective
  <2> QED
    BY <2>0, <2>1, <2>2, <2>3, <2>4
<1>9. (Range(s) \cap Range(t) = {}) <=> \A i \in 1..Len(s), j \in 1..Len(t) : s[i] # t[j]
  BY <1>1, Zenon DEF Range
<1> QED
  BY <1>5, <1>6, <1>7, <1>8, <1>9, Zenon DEF u

\* The concatenations again, with what each sequence adds.
LEMMA FlattenPrefix ==
  ASSUME NEW S, NEW seqs \in Seq(Seq(S))
  PROVE  \E f \in [0..Len(seqs) -> Seq(S)] :
            /\ f[0] = <<>>
            /\ FlattenSeq(seqs) = f[Len(seqs)]
            /\ \A i \in 1..Len(seqs) : Counts(f, seqs, i)
<1> DEFINE n == Len(seqs)
<1>1. PICK f \in [0..n -> Seq(S)] : /\ f[0] = <<>>
                                    /\ \A i \in 1..n : Unrolls(f, seqs, i)
                                    /\ FlattenSeq(seqs) = f[n]
  BY FlattenSteps
<1>2. n \in Nat /\ \A i \in 1..n : seqs[i] \in Seq(S)
  BY ElementOfSeq
<1> HIDE DEF n
<1>3. ASSUME NEW i \in 1..n PROVE Counts(f, seqs, i)
  <2>1. i - 1 \in 0..n /\ i \in 0..n
    BY <1>2
  <2> DEFINE head == f[i - 1]
             last == seqs[i]
  <2>2. head \in Seq(S) /\ last \in Seq(S)
    BY <1>1, <1>2, <2>1, Zenon
  <2>3. f[i] = head \o last
    BY <1>1, Zenon DEF Unrolls
  <2> HIDE DEF head, last
  <2>4. Len(head \o last) = Len(head) + Len(last)
    BY <2>2, ConcatProperties, Zenon
  <2>5. Range(head \o last) = Range(head) \cup Range(last)
    BY <2>2, RangeConcatenation, SMT
  <2>6. IsInjective(head \o last) <=>
            IsInjective(head) /\ IsInjective(last) /\ Range(head) \cap Range(last) = {}
    BY <2>2, InjectiveConcat, Zenon
  <2>7. /\ Len(f[i]) = Len(head) + Len(last)
        /\ Range(f[i]) = Range(head) \cup Range(last)
        /\ IsInjective(f[i]) <=>
            IsInjective(head) /\ IsInjective(last) /\ Range(head) \cap Range(last) = {}
    BY <2>3, <2>4, <2>5, <2>6, Zenon
  <2> QED
    BY <2>7, Zenon DEF Counts, head, last
<1> QED
  BY <1>1, <1>3 DEF n

\* Two partial sums make up the third.
LEMMA Sums ==
  ASSUME NEW x \in Nat, NEW y \in Nat, NEW z \in Nat, NEW a, NEW b,
         (a = x + z /\ b = y + 0) \/ (a = x + 0 /\ b = y + z)
  PROVE  a + b = (x + y) + z
OBVIOUS

\* Of each sequence, either it is kept in `part` or in `rest`: their lengths add up.
LEMMA FlattenSplit ==
  ASSUME NEW S, NEW seqs \in Seq(Seq(S)), NEW part \in Seq(Seq(S)), NEW rest \in Seq(Seq(S)),
         Len(part) = Len(seqs), Len(rest) = Len(seqs),
         \A i \in 1..Len(seqs) : \/ part[i] = seqs[i] /\ rest[i] = <<>>
                                 \/ part[i] = <<>> /\ rest[i] = seqs[i]
  PROVE  /\ Len(FlattenSeq(part)) + Len(FlattenSeq(rest)) = Len(FlattenSeq(seqs))
         /\ Range(FlattenSeq(part)) \subseteq Range(FlattenSeq(seqs))
         /\ IsInjective(FlattenSeq(seqs)) => IsInjective(FlattenSeq(part))
<1>0. Len(seqs) \in Nat
      /\ \A i \in 1..Len(seqs) : part[i] \in Seq(S) /\ rest[i] \in Seq(S) /\ seqs[i] \in Seq(S)
  BY ElementOfSeq
<1>c. \A i \in 1..Len(seqs) :
         \/ part[i] = seqs[i] /\ rest[i] = <<>>
         \/ part[i] = <<>> /\ rest[i] = seqs[i]
  OBVIOUS
<1>1. PICK f \in [0..Len(seqs) -> Seq(S)] :
            /\ f[0] = <<>>
            /\ FlattenSeq(seqs) = f[Len(seqs)]
            /\ \A i \in 1..Len(seqs) : Counts(f, seqs, i)
  BY FlattenPrefix
<1>2. PICK g \in [0..Len(seqs) -> Seq(S)] :
            /\ g[0] = <<>>
            /\ FlattenSeq(part) = g[Len(seqs)]
            /\ \A i \in 1..Len(seqs) : Counts(g, part, i)
  BY FlattenPrefix, Zenon
<1>3. PICK h \in [0..Len(seqs) -> Seq(S)] :
            /\ h[0] = <<>>
            /\ FlattenSeq(rest) = h[Len(seqs)]
            /\ \A i \in 1..Len(seqs) : Counts(h, rest, i)
  BY FlattenPrefix, Zenon
<1>4. Range(<<>>) = {} /\ Len(<<>>) = 0 /\ IsInjective(<<>>)
  BY DEF Range, IsInjective
<1>e. /\ FlattenSeq(seqs) = f[Len(seqs)]
      /\ FlattenSeq(part) = g[Len(seqs)]
      /\ FlattenSeq(rest) = h[Len(seqs)]
  BY <1>1, <1>2, <1>3
<1> DEFINE n == Len(seqs)
<1>n. n \in Nat
  BY <1>0
<1> DEFINE T == {k \in 0..n : /\ Len(g[k]) + Len(h[k]) = Len(f[k])
                              /\ Range(g[k]) \subseteq Range(f[k])
                              /\ IsInjective(f[k]) => IsInjective(g[k])}
<1>5. 0 \in T
  BY <1>0, <1>1, <1>2, <1>3, <1>4
<1>6. ASSUME NEW i \in 1..n, i - 1 \in T PROVE i \in T
  <2>1. i - 1 \in 0..n /\ i \in 0..n
    BY <1>0
  <2>2. /\ Len(g[i - 1]) + Len(h[i - 1]) = Len(f[i - 1])
        /\ Range(g[i - 1]) \subseteq Range(f[i - 1])
        /\ IsInjective(f[i - 1]) => IsInjective(g[i - 1])
    BY <1>6, Zenon
  <2>3. /\ Len(g[i - 1]) \in Nat /\ Len(h[i - 1]) \in Nat /\ Len(f[i - 1]) \in Nat
        /\ Len(seqs[i]) \in Nat
    BY <1>0, <2>1, LenProperties, Zenon
  <2> DEFINE gl == Len(g[i - 1])
             hl == Len(h[i - 1])
             fl == Len(f[i - 1])
             sl == Len(seqs[i])
  <2> HIDE DEF gl, hl, fl, sl
  <2>4. Len(f[i]) = fl + sl
    BY <1>1, Zenon DEF Counts, fl, sl
  <2>5. /\ part[i] = seqs[i] => Len(g[i]) = gl + sl
        /\ part[i] = <<>> => Len(g[i]) = gl + 0
    BY <1>2, <1>4, Zenon DEF Counts, gl, sl
  <2>6. /\ rest[i] = seqs[i] => Len(h[i]) = hl + sl
        /\ rest[i] = <<>> => Len(h[i]) = hl + 0
    BY <1>3, <1>4, Zenon DEF Counts, hl, sl
  <2>7. gl + hl = fl /\ gl \in Nat /\ hl \in Nat /\ fl \in Nat /\ sl \in Nat
    BY <2>2, <2>3, Zenon DEF gl, hl, fl, sl
  <2>8. \/ Len(g[i]) = gl + sl /\ Len(h[i]) = hl + 0
        \/ Len(g[i]) = gl + 0 /\ Len(h[i]) = hl + sl
    BY <1>c, <2>5, <2>6, Zenon
  <2>9. Len(g[i]) + Len(h[i]) = Len(f[i])
    <3> DEFINE a == Len(g[i])
               b == Len(h[i])
               c == Len(f[i])
    <3>1. c = fl + sl /\ ((a = gl + sl /\ b = hl + 0) \/ (a = gl + 0 /\ b = hl + sl))
      BY <2>4, <2>8, Zenon
    <3> HIDE DEF a, b, c
    <3>2. a + b = (gl + hl) + sl
      <4> HIDE DEF T
      <4>1. gl \in Nat /\ hl \in Nat /\ sl \in Nat
        BY <2>7, Zenon
      <4>2. (a = gl + sl /\ b = hl + 0) \/ (a = gl + 0 /\ b = hl + sl)
        BY <3>1, Zenon
      <4> QED
        BY <4>1, <4>2, Sums
    <3>3. a + b = c
      BY <2>7, <3>1, <3>2, Zenon
    <3> QED
      BY <3>3 DEF a, b, c
  <2>10. Range(g[i]) = Range(g[i - 1]) \cup Range(part[i])
         /\ Range(f[i]) = Range(f[i - 1]) \cup Range(seqs[i])
    BY <1>1, <1>2, Zenon DEF Counts
  <2>11. Range(part[i]) \subseteq Range(seqs[i])
    BY <1>4, <1>c, Zenon
  <2>12. ASSUME IsInjective(f[i]) PROVE IsInjective(g[i])
    <3>1. IsInjective(f[i - 1]) /\ IsInjective(seqs[i]) /\ Range(f[i - 1]) \cap Range(seqs[i]) = {}
      BY <1>1, <2>12, Zenon DEF Counts
    <3>2. IsInjective(part[i])
      BY <1>4, <1>c, <3>1, Zenon
    <3>3. Range(g[i - 1]) \cap Range(part[i]) = {}
      BY <2>2, <2>11, <3>1, Zenon
    <3> QED
      BY <1>2, <2>2, <3>1, <3>2, <3>3, Zenon DEF Counts
  <2>13. Range(g[i]) \subseteq Range(f[i])
    BY <2>2, <2>10, <2>11, Zenon
  <2> QED
    BY <2>1, <2>9, <2>12, <2>13, Zenon
<1> HIDE DEF T
<1>7. n \in T
  <2>1. n \in 0..n
    BY <1>0
  <2> QED
    BY <1>0, <1>5, <1>6, <2>1, UpTo, Zenon
<1>8. /\ Len(g[n]) + Len(h[n]) = Len(f[n])
      /\ Range(g[n]) \subseteq Range(f[n])
      /\ IsInjective(f[n]) => IsInjective(g[n])
  BY <1>7, Zenon DEF T
<1> QED
  BY <1>8, <1>e, Zenon

\* Facts of division that the cut into batches needs.
LEMMA Division ==
  ASSUME NEW m \in Nat, NEW k \in Nat \ {0}
  PROVE  /\ m \div k \in Nat
         /\ (m \div k) * k <= m
         /\ m < (m \div k) * k + k
OBVIOUS

LEMMA Product ==
  ASSUME NEW b \in Nat, NEW c \in Nat, NEW k \in Nat \ {0}, b <= c
  PROVE  /\ b * k \in Nat /\ c * k \in Nat
         /\ b * k <= c * k
         /\ (b + 1) * k = b * k + k
OBVIOUS

\* Batches() cuts a sequence into pieces that are not empty, no longer than a batch, and
\* together the sequence.
LEMMA BatchesOf ==
  ASSUME NEW S, NEW s \in Seq(S)
  PROVE  /\ Batches(s) \in Seq(Seq(S))
         /\ \A b \in 1..Len(Batches(s)) :
               /\ Batches(s)[b] # <<>>
               /\ Len(Batches(s)[b]) <= BatchSize
               /\ Range(Batches(s)[b]) \subseteq Range(s)
         /\ FlattenSeq(Batches(s)) = s
<1> DEFINE L == Len(s)
           B == BatchSize
           c == (L + B - 1) \div B
           cut(b) == Smaller(b * B, L)
           t == Batches(s)
<1>1. L \in Nat /\ B \in Nat \ {0}
  BY LenProperties, IngestAssumption
<1>2. c \in Nat /\ c * B <= L + B - 1 /\ L + B - 1 < c * B + B
  <2>1. L + B - 1 \in Nat
    BY <1>1
  <2> QED
    BY <1>1, <2>1, Division
<1>3. t = [b \in 1..c |-> SubSeq(s, (b - 1) * B + 1, cut(b))]
  BY DEF Batches
<1> HIDE DEF L, B, c, t
<1>4. ASSUME NEW b \in 1..c
      PROVE  /\ (b - 1) * B \in Nat /\ cut(b) \in Nat
             /\ (b - 1) * B < cut(b) /\ cut(b) <= (b - 1) * B + B /\ cut(b) <= L
             /\ cut(b - 1) = (b - 1) * B
  <2>1. b \in Nat /\ b - 1 \in Nat /\ b <= c /\ b - 1 <= c /\ (b - 1) + 1 = b
    BY <1>2
  <2>2. b * B \in Nat /\ b * B <= c * B /\ c * B \in Nat
    BY <1>1, <1>2, <2>1, Product
  <2>3. (b - 1) * B \in Nat /\ b * B = (b - 1) * B + B
    BY <1>1, <1>2, <2>1, Product
  <2> DEFINE low == (b - 1) * B
             high == b * B
             all == c * B
  <2>4. /\ low \in Nat /\ high = low + B /\ high <= all /\ all <= L + B - 1 /\ all \in Nat
        /\ high \in Nat
    BY <1>2, <2>2, <2>3
  <2>5. cut(b) = Smaller(high, L) /\ cut(b - 1) = Smaller(low, L)
    OBVIOUS
  <2> HIDE DEF low, high, all, cut
  <2>6. /\ low < L
        /\ Smaller(high, L) \in Nat /\ low < Smaller(high, L)
        /\ Smaller(high, L) <= low + B /\ Smaller(high, L) <= L
        /\ Smaller(low, L) = low
    BY <1>1, <2>4 DEF Smaller
  <2> QED
    BY <2>4, <2>5, <2>6, Zenon DEF low
<1>5. cut(0) = 0 /\ cut(c) = L
  <2>1. 0 * B = 0 /\ c * B >= L /\ c * B \in Nat
    BY <1>1, <1>2, Product
  <2> QED
    BY <1>1, <2>1 DEF Smaller
<1>6. \A i \in 1..L : s[i] \in S
  BY ElementOfSeq DEF L
<1> HIDE DEF cut
<1>7. ASSUME NEW b \in 1..c
      PROVE  /\ t[b] = SubSeq(s, cut(b - 1) + 1, cut(b))
             /\ t[b] \in Seq(S) /\ t[b] # <<>> /\ Len(t[b]) <= B
             /\ Range(t[b]) \subseteq Range(s)
  <2> DEFINE low == cut(b - 1)
             high == cut(b)
             u == SubSeq(s, low + 1, high)
  <2>1. low \in Nat /\ high \in Nat /\ low < high /\ high <= low + B /\ high <= L
    BY <1>4, Zenon
  <2>2. t[b] = u
    BY <1>3, <1>4, Zenon
  <2> HIDE DEF low, high, u
  <2>3. low + 1 \in Int /\ high \in Int /\ \A i \in low + 1..high : s[i] \in S
    BY <1>1, <1>6, <2>1
  <2>4. /\ u \in Seq(S)
        /\ Len(u) = IF low + 1 <= high THEN high - (low + 1) + 1 ELSE 0
        /\ \A i \in 1..high - (low + 1) + 1 : u[i] = s[low + 1 + i - 1]
    BY <2>3, SubSeqProperties DEF u
  <2>5. Len(u) = high - low
    BY <2>1, <2>4
  <2>6. Len(u) <= B /\ u # <<>>
    <3>1. Len(u) # 0 /\ Len(u) <= B
      BY <1>1, <2>1, <2>5
    <3> QED
      BY <3>1, EmptySeq
  <2>7. Range(u) \subseteq Range(s)
    <3>1. \A i \in 1..Len(u) : u[i] = s[low + i] /\ low + i \in 1..L
      <4> TAKE i \in 1..Len(u)
      <4>1. i \in 1..high - (low + 1) + 1 /\ low + 1 + i - 1 = low + i
        BY <2>1, <2>5
      <4> QED
        BY <1>1, <2>1, <2>4, <4>1
    <3>2. Range(u) = {u[i] : i \in 1..Len(u)} /\ Range(s) = {s[i] : i \in 1..L}
      BY <2>4, RangeEquality, Zenon DEF L
    <3> QED
      BY <3>1, <3>2
  <2> QED
    BY <2>2, <2>4, <2>6, <2>7, Zenon DEF low, high, u
<1>8. t \in Seq(Seq(S)) /\ Len(t) = c
  <2>1. t \in [1..c -> Seq(S)]
    BY <1>3, <1>7, Zenon
  <2> QED
    BY <1>2, <2>1, SeqDef, LenProperties
<1>9. FlattenSeq(t) = s
  <2>1. PICK f \in [0..c -> Seq(S)] : /\ f[0] = <<>>
                                      /\ \A i \in 1..c : Unrolls(f, t, i)
                                      /\ FlattenSeq(t) = f[c]
    BY <1>8, FlattenSteps
  <2>7. FlattenSeq(t) = f[c]
    BY <2>1
  <2> DEFINE T == {k \in 0..c : f[k] = SubSeq(s, 1, cut(k))}
  <2>2. 0 \in T
    BY <1>2, <1>5, <2>1, SubSeqEmpty
  <2>3. ASSUME NEW i \in 1..c, i - 1 \in T PROVE i \in T
    <3>1. f[i] = f[i - 1] \o t[i]
      BY <2>1, Zenon DEF Unrolls
    <3>2. f[i - 1] = SubSeq(s, 1, cut(i - 1)) /\ t[i] = SubSeq(s, cut(i - 1) + 1, cut(i))
      BY <1>7, <2>3, Zenon
    <3>3. 1 \in 1..L + 1 /\ cut(i - 1) \in 0..L /\ cut(i) \in cut(i - 1)..L
      BY <1>1, <1>4
    <3>4. SubSeq(s, 1, cut(i - 1)) \o SubSeq(s, cut(i - 1) + 1, cut(i)) = SubSeq(s, 1, cut(i))
      <4>1. cut(i - 1) \in (1 - 1)..Len(s) /\ 1 \in 1..Len(s) + 1 /\ cut(i) \in cut(i - 1)..Len(s)
        BY <3>3 DEF L
      <4> QED
        BY <4>1, ConcatAdjacentSubSeq, Zenon
    <3>5. f[i] = SubSeq(s, 1, cut(i))
      BY <3>1, <3>2, <3>4, Zenon
    <3> QED
      BY <1>2, <3>5
  <2> HIDE DEF T
  <2>4. c \in T
    <3>1. c \in 0..c
      BY <1>2
    <3> QED
      BY <1>2, <2>2, <2>3, <3>1, UpTo, Zenon
  <2>5. f[c] = SubSeq(s, 1, L)
    BY <1>5, <2>4 DEF T
  <2>6. SubSeq(s, 1, L) = s
    BY SubSeqFull DEF L
  <2> QED
    BY <2>5, <2>6, <2>7, Zenon
<1> QED
  BY <1>7, <1>8, <1>9, Zenon DEF t, B

\* The maximum of a bounded set is in it.
LEMMA MaxOf ==
  ASSUME NEW k \in Nat, NEW T \in SUBSET (0..k), T # {}
  PROVE  Max(T) \in T
<1> DEFINE D == {k - x : x \in T}
<1>1. D \in SUBSET Nat /\ D # {}
  <2>1. D \in SUBSET Nat
    OBVIOUS
  <2>2. \E x : x \in T
    BY Zenon
  <2>3. D # {}
    BY <2>2, Zenon
  <2> QED
    BY <2>1, <2>3
<1>2. PICK d \in D : \A y \in D : d <= y
  BY <1>1, Smallest, Zenon
<1>3. \E x \in T : \A y \in T : x >= y
  <2>1. PICK x \in T : d = k - x
    OBVIOUS
  <2>2. \A y \in T : k - x <= k - y
    BY <1>2, <2>1, Zenon
  <2> QED
    BY <2>2
<1> QED
  BY <1>3, Zenon DEF Max

\* SetToSeq() lists a finite set once.
LEMMA SetToSeqOf ==
  ASSUME NEW T, IsFiniteSet(T)
  PROVE  /\ SetToSeq(T) \in Seq(T)
         /\ Len(SetToSeq(T)) = Cardinality(T)
         /\ Range(SetToSeq(T)) = T
         /\ IsInjective(SetToSeq(T))
<1> DEFINE n == Cardinality(T)
           s == SetToSeq(T)
<1>1. n \in Nat /\ ExistsBijection(1..n, T)
  BY FS_CardinalityType
<1>2. PICK g \in Bijection(1..n, T) : TRUE
  BY <1>1 DEF ExistsBijection
<1>3. g \in [1..n -> T] /\ IsInjective(g)
  BY <1>2 DEF Bijection, Injection, IsInjective
<1>4. s \in [1..n -> T] /\ IsInjective(s)
  BY <1>3 DEF SetToSeq
<1> HIDE DEF s
<1>5. s \in Injection(1..n, T)
  BY <1>4 DEF Injection, IsInjective
<1>6. IsFiniteSet(1..n) /\ Cardinality(1..n) = n
  BY <1>1, FS_Interval
<1>7. s \in Surjection(1..n, T)
  BY <1>5, <1>6, FS_Injection
<1>8. s \in Seq(T) /\ Len(s) = n
  BY <1>1, <1>4, SeqDef, LenProperties
<1>9. Range(s) = T
  BY <1>4, <1>7 DEF Surjection, Range
<1> QED
  BY <1>4, <1>8, <1>9 DEF s

\* A sequence that repeats nothing has as many elements as places.
LEMMA RangeCardinality ==
  ASSUME NEW S, NEW s \in Seq(S), IsInjective(s)
  PROVE  IsFiniteSet(Range(s)) /\ Cardinality(Range(s)) = Len(s)
<1>1. Len(s) \in Nat /\ DOMAIN s = 1..Len(s)
  BY LenProperties
<1>2. s \in Bijection(1..Len(s), Range(s))
  <2>1. s \in [1..Len(s) -> Range(s)]
    BY <1>1, LenProperties DEF Range
  <2> QED
    BY <1>1, <2>1 DEF Bijection, Injection, Surjection, IsInjective, Range
<1>3. ExistsBijection(1..Len(s), Range(s))
  BY <1>2 DEF ExistsBijection
<1>4. IsFiniteSet(1..Len(s)) /\ Cardinality(1..Len(s)) = Len(s)
  BY <1>1, FS_Interval
<1> QED
  BY <1>3, <1>4, FS_Bijection

\* A sequence has at most as many elements as places.
LEMMA RangeAtMost ==
  ASSUME NEW S, NEW s \in Seq(S)
  PROVE  IsFiniteSet(Range(s)) /\ Cardinality(Range(s)) <= Len(s)
<1>1. Len(s) \in Nat /\ DOMAIN s = 1..Len(s)
  BY LenProperties
<1>2. s \in Surjection(1..Len(s), Range(s))
  BY <1>1, LenProperties DEF Surjection, Range
<1>3. IsFiniteSet(1..Len(s)) /\ Cardinality(1..Len(s)) = Len(s)
  BY <1>1, FS_Interval
<1>4. IsFiniteSet(Range(s)) /\ Cardinality(Range(s)) <= Cardinality(1..Len(s))
  BY <1>2, <1>3, FS_Surjection
<1> QED
  BY <1>3, <1>4

\* Sequences whose flattening repeats nothing share nothing.
LEMMA FlattenApart ==
  ASSUME NEW S, NEW seqs \in Seq(Seq(S)), IsInjective(FlattenSeq(seqs)),
         NEW b \in 1..Len(seqs), NEW c \in 1..Len(seqs), b # c
  PROVE  Range(seqs[b]) \cap Range(seqs[c]) = {}
<1>0. Len(seqs) \in Nat
  BY LenProperties
<1>1. PICK f \in [0..Len(seqs) -> Seq(S)] :
            /\ f[0] = <<>>
            /\ FlattenSeq(seqs) = f[Len(seqs)]
            /\ \A i \in 1..Len(seqs) : Counts(f, seqs, i)
  BY FlattenPrefix, Zenon
<1> DEFINE n == Len(seqs)
           Apart(k) == \A x, y \in 1..k : x < y => Range(seqs[x]) \cap Range(seqs[y]) = {}
           Within(k) == \A x \in 1..k : Range(seqs[x]) \subseteq Range(f[k])
           T == {k \in 0..n : IsInjective(f[k]) => Apart(k) /\ Within(k)}
<1>n. n \in Nat
  BY <1>0
<1>2. 0 \in T
  <2>1. Apart(0) /\ Within(0)
    BY <1>0
  <2> HIDE DEF Apart, Within
  <2> QED
    BY <1>n, <2>1
<1> HIDE DEF n
<1>3. ASSUME NEW i \in 1..n, i - 1 \in T PROVE i \in T
  <2>1. i \in 0..n /\ 1..i = (1..(i - 1)) \cup {i} /\ i \notin 1..(i - 1)
    BY <1>n
  <2> SUFFICES ASSUME IsInjective(f[i]) PROVE Apart(i) /\ Within(i)
    BY <2>1, Zenon
  <2>2. Counts(f, seqs, i)
    BY <1>1, Zenon DEF n
  <2>3. /\ IsInjective(f[i - 1])
        /\ Range(f[i - 1]) \cap Range(seqs[i]) = {}
        /\ Range(f[i]) = Range(f[i - 1]) \cup Range(seqs[i])
    BY <2>2, Zenon DEF Counts
  <2>4. Apart(i - 1) /\ Within(i - 1)
    BY <1>3, <2>3, Zenon
  <2>5. Within(i)
    BY <2>1, <2>3, <2>4, Zenon
  <2>6. ASSUME NEW x \in 1..i, NEW y \in 1..i, x < y
        PROVE  Range(seqs[x]) \cap Range(seqs[y]) = {}
    <3>1. x \in 1..(i - 1) /\ (y = i \/ y \in 1..(i - 1))
      BY <1>n, <2>6
    <3>2. CASE y = i
      BY <2>3, <2>4, <3>1, <3>2, Zenon
    <3>3. CASE y \in 1..(i - 1)
      BY <2>4, <2>6, <3>1, <3>3, Zenon
    <3> QED
      BY <3>1, <3>2, <3>3, Zenon
  <2> QED
    BY <2>5, <2>6, Zenon
<1> HIDE DEF T
<1>4. n \in T
  <2>1. n \in 0..n
    BY <1>n
  <2> QED
    BY <1>n, <1>2, <1>3, <2>1, UpTo, Zenon
<1>5. IsInjective(f[n])
  BY <1>1, Zenon DEF n
<1>6. Apart(n)
  BY <1>4, <1>5, Zenon DEF T
<1>7. b < c \/ c < b
  BY <1>0
<1> QED
  BY <1>6, <1>7, Zenon DEF n

-----------------------------------------------------------------------------
(* The invariant.                                                          *)

\* The readings to be delivered: those of the posts, then those of the buffer.
Unsent == FlattenSeq([b \in DOMAIN posts |-> posts[b].batch])
Pending == Unsent \o buffer

\* A request works on a reading of its batch, and its healths are of its batch.
RequestOK(r) ==
  /\ Range(r.batch) \subseteq produced
  /\ r.at \notin {"arriving", "gone"} => r.process \in Process
  /\ r.at \in {"arriving", "filter", "read", "write", "return"} => r.n \in 1..Len(r.batch)
  /\ \A i \in 1..Len(r.health) : r.health[i][1] \in 1..Len(r.batch)

RequestsOK == \A q \in 1..Len(requests) : RequestOK(requests[q])

\* A post's request has its batch until it is closed.
Bound(t) ==
  /\ t.request \in 1..Len(requests)
  /\ requests[t.request].at # "gone" => requests[t.request].batch = t.batch

\* A post is a batch of at least one reading and of batch_size at most.
PostsOK ==
  \A b \in 1..Len(posts) :
    /\ posts[b].batch # <<>> /\ Len(posts[b].batch) <= BatchSize
    /\ Bound(posts[b])

\* Where the tick stands; no reading is from the future.
PlaceOK ==
  /\ place = "sleep" => posts = <<>>
  /\ place = "flush" => Len(posts) <= 1
  /\ \A r \in produced : r.tick <= clock
  /\ IsFiniteSet(produced)

\* What is to be delivered repeats nothing, was not dropped, and with what was sent and
\* what was dropped makes up what was produced.
Ledger ==
  /\ IsInjective(Pending)
  /\ Range(Pending) \subseteq produced
  /\ Range(Pending) \cap dropped = {}
  /\ eventsSent + Len(Pending) + Cardinality(dropped) = Cardinality(produced)
  /\ place = "flush" => Len(Pending) <= BufferMax

\* What holds whatever fails: the ledger, and the shapes it rests on.
Base == TypeOK /\ RequestsOK /\ PostsOK /\ PlaceOK /\ Ledger

\* Without a fault a handler past its XADD has stored its batch.
Rows ==
  \A q \in 1..Len(requests) :
    /\ requests[q].at # "error"
    /\ requests[q].at \in {"publish", "accepted"} => Range(requests[q].batch) \subseteq telemetry

\* What the simulator neither holds nor has dropped is in the stream.
Delivered == produced \ (Held \cup dropped) \subseteq telemetry

\* SentIsStored, made inductive.
Stored == faults = 0 => Rows /\ Delivered

\* The places of a handler that has not ended.
Working == {"arriving", "filter", "read", "write", "return", "xadd", "publish", "accepted",
            "error"}

\* The one failing call has hit post b: its handler answers 500, or has.
Lost(b) ==
  \/ posts[b].outcome = "failed"
  \/ posts[b].outcome = "out" /\ requests[posts[b].request].at = "error"

\* The premise of the properties about order: every answer arrives, one call fails at most.
Calm == timeouts = 0 /\ restarts = 0 /\ faults <= 1

\* A handler runs for the one post that waits for it.
Awaited ==
  /\ \A q \in 1..Len(requests) : requests[q].at # "gone" =>
        \E b \in 1..Len(posts) : posts[b].request = q /\ posts[b].outcome = "out"
  /\ \A b \in 1..Len(posts) : posts[b].outcome = "out" =>
        requests[posts[b].request].at # "gone"
  /\ \A b, c \in 1..Len(posts) : posts[b].request = posts[c].request => b = c

\* At most one batch is to be sent again, for the one failing call.
OneLost ==
  /\ \A b \in 1..Len(posts) : Lost(b) => faults = 1
  /\ \A b, c \in 1..Len(posts) : Lost(b) /\ Lost(c) => b = c

\* What is sent again is one batch, and its first round succeeds.
FlushedOnce ==
  /\ place # "flush" => buffer = <<>>
  /\ place = "flush" =>
        /\ faults = 1
        /\ \A b \in 1..Len(posts) : ~ Lost(b)
        /\ posts # <<>> => buffer = <<>>
        /\ retries > 0 \/ buffer = <<>>
        /\ Len(buffer) <= BatchSize

\* All readings to be delivered are of the last tick, and no filter is ahead of it.
Newest ==
  /\ \A r \in Range(Pending) : r.tick = clock
  /\ \A p \in Process, l \in Locomotive : ema[p][l] <= clock

\* FilterInOrder, made inductive.
Orderly == Calm => Awaited /\ OneLost /\ FlushedOnce /\ Newest

\* One worker process.
Alone == \A p, o \in Process : p = o

\* The places of a handler whose healths are still to be shown.
Running == Working \ {"accepted", "error"}

\* A health computed: its damage is no less than the one shown, and no more than the state's.
EntrySound(batch, e, s, d) ==
  LET l == batch[e[1]].loco IN
  /\ s[l] <= e[2]
  /\ \A p \in Process : e[2] <= d[p][l]

\* Between the read and the write of the damage nobody else writes it; the healths are sound.
RequestSound(r, s, d) ==
  /\ r.at = "write" => r.old = d[r.process][r.batch[r.n].loco]
  /\ r.at \in Running => \A i \in 1..Len(r.health) : EntrySound(r.batch, r.health[i], s, d)

\* DamageNeverShrinks for one process, made inductive: what is shown is no more than any
\* health on its way, and that no more than the damage of the state.
Sound ==
  Calm => /\ \A p \in Process, l \in Locomotive : shown[l] <= damage[p][l]
          /\ \A q \in 1..Len(requests) : RequestSound(requests[q], shown, damage)

-----------------------------------------------------------------------------
(* Requests and their updates.                                             *)

\* A request by its fields.
Rec(b, p, a, n, o, h) ==
  [batch |-> b, process |-> p, at |-> a, n |-> n, old |-> o, health |-> h]

LEMMA RecFields ==
  ASSUME NEW b, NEW p, NEW a, NEW n, NEW o, NEW h
  PROVE  /\ Rec(b, p, a, n, o, h).batch = b
         /\ Rec(b, p, a, n, o, h).process = p
         /\ Rec(b, p, a, n, o, h).at = a
         /\ Rec(b, p, a, n, o, h).n = n
         /\ Rec(b, p, a, n, o, h).old = o
         /\ Rec(b, p, a, n, o, h).health = h
BY DEF Rec

\* All places of a handler.
Places == Working \cup {"gone"}

LEMMA RecType ==
  ASSUME NEW b \in Seq(Reading), NEW p \in Process \cup {Nobody}, NEW a \in Places,
         NEW n \in Nat, NEW o \in Nat, NEW h \in Seq(Nat \X Nat)
  PROVE  Rec(b, p, a, n, o, h) \in Request
BY DEF Rec, Request, Places, Working

LEMMA RequestFields ==
  ASSUME NEW r \in Request
  PROVE  /\ r.batch \in Seq(Reading)
         /\ r.process \in Process \cup {Nobody}
         /\ r.at \in Places
         /\ r.n \in Nat
         /\ r.old \in Nat
         /\ r.health \in Seq(Nat \X Nat)
BY DEF Request, Places, Working

LEMMA RecOf ==
  ASSUME NEW r \in Request
  PROVE  r = Rec(r.batch, r.process, r.at, r.n, r.old, r.health)
BY DEF Rec, Request

LEMMA SetProcess ==
  ASSUME NEW b, NEW p, NEW a, NEW n, NEW o, NEW h, NEW x
  PROVE  [Rec(b, p, a, n, o, h) EXCEPT !.process = x] = Rec(b, x, a, n, o, h)
BY DEF Rec

LEMMA SetAt ==
  ASSUME NEW b, NEW p, NEW a, NEW n, NEW o, NEW h, NEW x
  PROVE  [Rec(b, p, a, n, o, h) EXCEPT !.at = x] = Rec(b, p, x, n, o, h)
BY DEF Rec

LEMMA SetN ==
  ASSUME NEW b, NEW p, NEW a, NEW n, NEW o, NEW h, NEW x
  PROVE  [Rec(b, p, a, n, o, h) EXCEPT !.n = x] = Rec(b, p, a, x, o, h)
BY DEF Rec

LEMMA SetOld ==
  ASSUME NEW b, NEW p, NEW a, NEW n, NEW o, NEW h, NEW x
  PROVE  [Rec(b, p, a, n, o, h) EXCEPT !.old = x] = Rec(b, p, a, n, x, h)
BY DEF Rec

LEMMA SetHealth ==
  ASSUME NEW b, NEW p, NEW a, NEW n, NEW o, NEW h, NEW x
  PROVE  [Rec(b, p, a, n, o, h) EXCEPT !.health = x] = Rec(b, p, a, n, o, x)
BY DEF Rec

LEMMA NewRequestIs ==
  ASSUME NEW b
  PROVE  NewRequest(b) = Rec(b, Nobody, "arriving", 1, 0, <<>>)
BY DEF NewRequest, Rec

LEMMA ClosedIs ==
  Closed = Rec(<<>>, Nobody, "gone", 1, 0, <<>>)
BY DEF Closed, NewRequest, Rec

LEMMA ClosedType ==
  Closed \in Request /\ Closed.at = "gone" /\ RequestOK(Closed)
<1>1. <<>> \in Seq(Reading) /\ <<>> \in Seq(Nat \X Nat) /\ "gone" \in Places
  BY DEF Places
<1>2. Closed \in Request
  BY <1>1, ClosedIs, RecType, Zenon
<1>3. Closed.batch = <<>> /\ Closed.at = "gone" /\ Closed.health = <<>>
  BY ClosedIs, RecFields
<1>4. Range(<<>>) = {} /\ Len(<<>>) = 0
  BY DEF Range
<1> QED
  BY <1>2, <1>3, <1>4 DEF RequestOK

\* Request q becomes r, and no other changes.
Becomes(q, r) ==
  /\ requests' \in Seq(Request)
  /\ Len(requests') = Len(requests)
  /\ requests'[q] = r
  /\ \A x \in 1..Len(requests) : x # q => requests'[x] = requests[x]

LEMMA Requests ==
  ASSUME TypeOK
  PROVE  /\ requests \in Seq(Request)
         /\ Len(requests) \in Nat
         /\ DOMAIN requests = 1..Len(requests)
         /\ \A q \in 1..Len(requests) : requests[q] \in Request
<1>1. requests \in Seq(Request)
  BY DEF TypeOK
<1> QED
  BY <1>1, LenProperties, ElementOfSeq

LEMMA Posts ==
  ASSUME TypeOK
  PROVE  /\ posts \in Seq(Post)
         /\ Len(posts) \in Nat
         /\ DOMAIN posts = 1..Len(posts)
         /\ \A b \in 1..Len(posts) : posts[b] \in Post
<1>1. posts \in Seq(Post)
  BY DEF TypeOK
<1> QED
  BY <1>1, LenProperties, ElementOfSeq

LEMMA BecomesBy ==
  ASSUME TypeOK, NEW q \in DOMAIN requests, NEW r \in Request,
         requests' = [requests EXCEPT ![q] = r]
  PROVE  Becomes(q, r)
<1>1. q \in 1..Len(requests)
  BY Requests
<1> QED
  BY <1>1, Requests, ExceptSeq, Zenon DEF Becomes

\* What a step of handler q turns the request into.
LEMMA ArriveEffect ==
  ASSUME TypeOK, RequestsOK, NEW q \in DOMAIN requests, Arrive(q)
  PROVE  \E p \in Process :
            Becomes(q, Rec(requests[q].batch, p, "filter", requests[q].n, requests[q].old,
                           requests[q].health))
<1>1. PICK p \in Process :
        requests' = [requests EXCEPT ![q].process = p, ![q].at = "filter"]
  BY Zenon DEF Arrive
<1> DEFINE r == Rec(requests[q].batch, p, "filter", requests[q].n, requests[q].old,
                    requests[q].health)
<1>2. requests[q] \in Request
  BY Requests
<1> DEFINE u == [[requests[q] EXCEPT !.process = p] EXCEPT !.at = "filter"]
<1>3. requests' = [requests EXCEPT ![q] = u]
  BY <1>1, Requests, Zenon
<1>4. u = r
  <2>1. requests[q] =
            Rec(requests[q].batch, requests[q].process, requests[q].at, requests[q].n,
                requests[q].old, requests[q].health)
    BY <1>2, RecOf, Zenon
  <2>2. [Rec(requests[q].batch, requests[q].process, requests[q].at, requests[q].n,
             requests[q].old, requests[q].health) EXCEPT !.process = p] =
             Rec(requests[q].batch, p, requests[q].at, requests[q].n, requests[q].old,
                 requests[q].health)
    BY SetProcess
  <2>3. [Rec(requests[q].batch, p, requests[q].at, requests[q].n, requests[q].old,
             requests[q].health) EXCEPT !.at = "filter"] =
             Rec(requests[q].batch, p, "filter", requests[q].n, requests[q].old,
                 requests[q].health)
    BY SetAt
  <2> QED
    BY <2>1, <2>2, <2>3, Zenon
<1>5. r \in Request
  <2>1. "filter" \in Places /\ p \in Process \cup {Nobody}
    BY DEF Places, Working
  <2> QED
    BY <1>2, <2>1, RequestFields, RecType, Zenon
<1>6. requests' = [requests EXCEPT ![q] = r]
  BY <1>3, <1>4, Zenon
<1> HIDE DEF r
<1>7. Becomes(q, r)
  BY <1>5, <1>6, BecomesBy, Zenon
<1> QED
  BY <1>7 DEF r

LEMMA PlaceEffect ==
  ASSUME TypeOK, RequestsOK, NEW q \in DOMAIN requests, NEW a \in Places,
         requests' = [requests EXCEPT ![q].at = a]
  PROVE  Becomes(q, Rec(requests[q].batch, requests[q].process, a, requests[q].n,
                        requests[q].old, requests[q].health))
<1> DEFINE r == Rec(requests[q].batch, requests[q].process, a, requests[q].n, requests[q].old,
                    requests[q].health)
<1>2. requests[q] \in Request
  BY Requests
<1> DEFINE u == [requests[q] EXCEPT !.at = a]
<1>3. requests' = [requests EXCEPT ![q] = u]
  BY Requests
<1>4. u = r
  <2>1. requests[q] =
            Rec(requests[q].batch, requests[q].process, requests[q].at, requests[q].n,
                requests[q].old, requests[q].health)
    BY <1>2, RecOf, Zenon
  <2>2. [Rec(requests[q].batch, requests[q].process, requests[q].at, requests[q].n,
             requests[q].old, requests[q].health) EXCEPT !.at = a] =
             Rec(requests[q].batch, requests[q].process, a, requests[q].n, requests[q].old,
                 requests[q].health)
    BY SetAt
  <2> QED
    BY <2>1, <2>2, Zenon
<1>5. r \in Request
  BY <1>2, RequestFields, RecType, Zenon
<1>6. requests' = [requests EXCEPT ![q] = r]
  BY <1>3, <1>4, Zenon
<1> HIDE DEF r
<1>7. Becomes(q, r)
  BY <1>5, <1>6, BecomesBy, Zenon
<1> QED
  BY <1>7 DEF r

LEMMA OldEffect ==
  ASSUME TypeOK, RequestsOK, NEW q \in DOMAIN requests, NEW a \in Places, NEW o \in Nat,
         requests' = [requests EXCEPT ![q].at = a, ![q].old = o]
  PROVE  Becomes(q, Rec(requests[q].batch, requests[q].process, a, requests[q].n, o,
                        requests[q].health))
<1> DEFINE r == Rec(requests[q].batch, requests[q].process, a, requests[q].n, o,
                    requests[q].health)
<1>2. requests[q] \in Request
  BY Requests
<1> DEFINE u == [[requests[q] EXCEPT !.at = a] EXCEPT !.old = o]
<1>3. requests' = [requests EXCEPT ![q] = u]
  BY Requests, Zenon
<1>4. u = r
  <2>1. requests[q] =
            Rec(requests[q].batch, requests[q].process, requests[q].at, requests[q].n,
                requests[q].old, requests[q].health)
    BY <1>2, RecOf, Zenon
  <2>2. [Rec(requests[q].batch, requests[q].process, requests[q].at, requests[q].n,
             requests[q].old, requests[q].health) EXCEPT !.at = a] =
             Rec(requests[q].batch, requests[q].process, a, requests[q].n, requests[q].old,
                 requests[q].health)
    BY SetAt
  <2>3. [Rec(requests[q].batch, requests[q].process, a, requests[q].n, requests[q].old,
             requests[q].health) EXCEPT !.old = o] =
             Rec(requests[q].batch, requests[q].process, a, requests[q].n, o, requests[q].health)
    BY SetOld
  <2> QED
    BY <2>1, <2>2, <2>3, Zenon
<1>5. r \in Request
  BY <1>2, RequestFields, RecType, Zenon
<1>6. requests' = [requests EXCEPT ![q] = r]
  BY <1>3, <1>4, Zenon
<1> HIDE DEF r
<1>7. Becomes(q, r)
  BY <1>5, <1>6, BecomesBy, Zenon
<1> QED
  BY <1>7 DEF r

LEMMA ReadingFailsEffect ==
  ASSUME TypeOK, RequestsOK, NEW q \in DOMAIN requests, NEW a \in Places,
         requests' = [requests EXCEPT ![q].at = a, ![q].n = @ + 1]
  PROVE  Becomes(q, Rec(requests[q].batch, requests[q].process, a, requests[q].n + 1,
                        requests[q].old, requests[q].health))
<1> DEFINE r == Rec(requests[q].batch, requests[q].process, a, requests[q].n + 1, requests[q].old,
                    requests[q].health)
<1>2. requests[q] \in Request
  BY Requests
<1> DEFINE u == [[requests[q] EXCEPT !.at = a] EXCEPT !.n = requests[q].n + 1]
<1>3. requests' = [requests EXCEPT ![q] = u]
  BY <1>2, Requests, Zenon DEF Request
<1>4. u = r
  <2>1. requests[q] =
            Rec(requests[q].batch, requests[q].process, requests[q].at, requests[q].n,
                requests[q].old, requests[q].health)
    BY <1>2, RecOf, Zenon
  <2>2. [Rec(requests[q].batch, requests[q].process, requests[q].at, requests[q].n,
             requests[q].old, requests[q].health) EXCEPT !.at = a] =
             Rec(requests[q].batch, requests[q].process, a, requests[q].n, requests[q].old,
                 requests[q].health)
    BY SetAt
  <2>3. [Rec(requests[q].batch, requests[q].process, a, requests[q].n, requests[q].old,
             requests[q].health) EXCEPT !.n = requests[q].n + 1] =
             Rec(requests[q].batch, requests[q].process, a, requests[q].n + 1, requests[q].old,
                 requests[q].health)
    BY SetN
  <2> QED
    BY <2>1, <2>2, <2>3, Zenon
<1>5. r \in Request
  <2>1. requests[q].n + 1 \in Nat
    BY <1>2, RequestFields
  <2> QED
    BY <1>2, <2>1, RequestFields, RecType, Zenon
<1>6. requests' = [requests EXCEPT ![q] = r]
  BY <1>3, <1>4, Zenon
<1> HIDE DEF r
<1>7. Becomes(q, r)
  BY <1>5, <1>6, BecomesBy, Zenon
<1> QED
  BY <1>7 DEF r

LEMMA ComputedEffect ==
  ASSUME TypeOK, RequestsOK, NEW q \in DOMAIN requests, NEW a \in Places, NEW total \in Nat,
         a = AfterReading(q), Computed(q, total)
  PROVE  Becomes(q, Rec(requests[q].batch, requests[q].process, a, requests[q].n + 1,
                        requests[q].old, Append(requests[q].health, <<requests[q].n, total>>)))
<1> DEFINE h == Append(requests[q].health, <<requests[q].n, total>>)
           r == Rec(requests[q].batch, requests[q].process, a, requests[q].n + 1,
                    requests[q].old, h)
<1>2. requests[q] \in Request
  BY Requests
<1> DEFINE u == [[[requests[q] EXCEPT !.health = h] EXCEPT !.at = a] EXCEPT !.n = requests[q].n + 1]
<1>3. requests' = [requests EXCEPT ![q] = u]
  BY <1>2, Requests, Zenon DEF Request, Computed
<1> HIDE DEF h
<1>4. u = r
  <2>1. requests[q] =
            Rec(requests[q].batch, requests[q].process, requests[q].at, requests[q].n,
                requests[q].old, requests[q].health)
    BY <1>2, RecOf, Zenon
  <2>2. [Rec(requests[q].batch, requests[q].process, requests[q].at, requests[q].n,
             requests[q].old, requests[q].health) EXCEPT !.health = h] =
             Rec(requests[q].batch, requests[q].process, requests[q].at, requests[q].n,
                 requests[q].old, h)
    BY SetHealth
  <2>3. [Rec(requests[q].batch, requests[q].process, requests[q].at, requests[q].n,
             requests[q].old, h) EXCEPT !.at = a] =
             Rec(requests[q].batch, requests[q].process, a, requests[q].n, requests[q].old, h)
    BY SetAt
  <2>4. [Rec(requests[q].batch, requests[q].process, a, requests[q].n, requests[q].old,
             h) EXCEPT !.n = requests[q].n + 1] =
             Rec(requests[q].batch, requests[q].process, a, requests[q].n + 1, requests[q].old, h)
    BY SetN
  <2> QED
    BY <2>1, <2>2, <2>3, <2>4, ZenonT(30)
<1>5. r \in Request
  <2>1. requests[q].n + 1 \in Nat /\ <<requests[q].n, total>> \in Nat \X Nat
    BY <1>2, RequestFields
  <2>2. h \in Seq(Nat \X Nat)
    BY <1>2, <2>1, RequestFields, AppendProperties, Zenon DEF h
  <2> QED
    BY <1>2, <2>1, <2>2, RequestFields, RecType, Zenon
<1>6. requests' = [requests EXCEPT ![q] = r]
  BY <1>3, <1>4, Zenon
<1> HIDE DEF r
<1>7. Becomes(q, r)
  BY <1>5, <1>6, BecomesBy, Zenon
<1> QED
  BY <1>7 DEF r, h

-----------------------------------------------------------------------------
(* The steps of a handler.                                                 *)

LEMMA HandlerFacts ==
  ASSUME TypeOK, RequestsOK, NEW q \in DOMAIN requests
  PROVE  /\ q \in 1..Len(requests)
         /\ requests[q] \in Request
         /\ requests[q].batch \in Seq(Reading)
         /\ Len(requests[q].batch) \in Nat
         /\ requests[q].n \in Nat
         /\ requests[q].old \in Nat
         /\ requests[q].health \in Seq(Nat \X Nat)
         /\ Len(requests[q].health) \in Nat
         /\ RequestOK(requests[q])
<1>1. q \in 1..Len(requests) /\ requests[q] \in Request
  BY Requests
<1>2. RequestOK(requests[q])
  BY <1>1 DEF RequestsOK
<1> QED
  BY <1>1, <1>2, RequestFields, LenProperties

LEMMA CurrentFacts ==
  ASSUME TypeOK, RequestsOK, NEW q \in DOMAIN requests,
         requests[q].at \in {"filter", "read", "write", "return"}
  PROVE  /\ requests[q].process \in Process
         /\ requests[q].n \in 1..Len(requests[q].batch)
         /\ Current(q) \in Reading
         /\ Current(q) \in Range(requests[q].batch)
         /\ Current(q).loco \in Locomotive
         /\ Current(q).tick \in 1..MaxTicks
         /\ damage[requests[q].process][Current(q).loco] \in Nat
<1>1. requests[q].batch \in Seq(Reading) /\ RequestOK(requests[q])
  BY HandlerFacts
<1>2. requests[q].process \in Process /\ requests[q].n \in 1..Len(requests[q].batch)
  BY <1>1 DEF RequestOK
<1>3. Current(q) \in Reading
  BY <1>1, <1>2, ElementOfSeq DEF Current
<1>4. Current(q) \in Range(requests[q].batch)
  BY <1>1, <1>2, RangeEquality DEF Current
<1>5. Current(q).loco \in Locomotive /\ Current(q).tick \in 1..MaxTicks
  BY <1>3 DEF Reading
<1>6. damage[requests[q].process][Current(q).loco] \in Nat
  BY <1>2, <1>5 DEF TypeOK
<1> QED
  BY <1>2, <1>3, <1>4, <1>5, <1>6

LEMMA AfterReadingFacts ==
  ASSUME TypeOK, RequestsOK, NEW q \in DOMAIN requests,
         requests[q].at \in {"filter", "read", "write", "return"}
  PROVE  /\ AfterReading(q) \in {"filter", "xadd"}
         /\ AfterReading(q) = "filter" => requests[q].n + 1 \in 1..Len(requests[q].batch)
<1>1. requests[q].n \in 1..Len(requests[q].batch) /\ Len(requests[q].batch) \in Nat
  BY CurrentFacts, HandlerFacts
<1> QED
  BY <1>1 DEF AfterReading

LEMMA HandlerKeeps ==
  ASSUME Base, NEW q \in DOMAIN requests, NEW r \in Request, Becomes(q, r),
         r.batch = requests[q].batch, requests[q].at # "gone", r.at # "gone",
         RequestOK(r), UNCHANGED simulator
  PROVE  /\ requests' \in Seq(Request)
         /\ RequestsOK' /\ PostsOK' /\ PlaceOK' /\ Ledger'
<1>1. TypeOK /\ RequestsOK /\ PostsOK /\ PlaceOK /\ Ledger
  BY DEF Base
<1>2. q \in 1..Len(requests)
  BY <1>1, HandlerFacts
<1>3. /\ requests' \in Seq(Request) /\ Len(requests') = Len(requests) /\ requests'[q] = r
      /\ \A x \in 1..Len(requests) : x # q => requests'[x] = requests[x]
  BY DEF Becomes
<1>4. /\ posts' = posts /\ buffer' = buffer /\ produced' = produced /\ dropped' = dropped
      /\ eventsSent' = eventsSent /\ place' = place /\ clock' = clock
  BY DEF simulator
<1>5. RequestsOK'
  <2>1. \A x \in 1..Len(requests) : RequestOK(requests'[x])
    <3> TAKE x \in 1..Len(requests)
    <3>1. CASE x = q
      BY <1>3, <3>1
    <3>2. CASE x # q
      BY <1>1, <1>3, <3>2 DEF RequestsOK
    <3> QED
      BY <3>1, <3>2
  <2> QED
    BY <1>3, <1>4, <2>1 DEF RequestsOK, RequestOK
<1>6. PostsOK'
  <2> SUFFICES ASSUME NEW b \in 1..Len(posts)
               PROVE  /\ posts[b].batch # <<>> /\ Len(posts[b].batch) <= BatchSize
                      /\ posts[b].request \in 1..Len(requests)
                      /\ requests'[posts[b].request].at # "gone" =>
                            requests'[posts[b].request].batch = posts[b].batch
    BY <1>3, <1>4 DEF PostsOK, Bound
  <2>1. /\ posts[b].batch # <<>> /\ Len(posts[b].batch) <= BatchSize
        /\ posts[b].request \in 1..Len(requests)
        /\ requests[posts[b].request].at # "gone" =>
              requests[posts[b].request].batch = posts[b].batch
    BY <1>1 DEF PostsOK, Bound
  <2>2. CASE posts[b].request = q
    BY <1>3, <2>1, <2>2
  <2>3. CASE posts[b].request # q
    BY <1>3, <2>1, <2>3
  <2> QED
    BY <2>1, <2>2, <2>3
<1>7. PlaceOK'
  BY <1>1, <1>4 DEF PlaceOK
<1>8. Ledger'
  <2>1. Pending' = Pending
    BY <1>4 DEF Pending, Unsent
  <2> QED
    BY <1>1, <1>4, <2>1 DEF Ledger
<1> QED
  BY <1>3, <1>5, <1>6, <1>7, <1>8

LEMMA MovesOn ==
  ASSUME TypeOK, RequestsOK, NEW q \in DOMAIN requests, NEW p \in Process, NEW a \in Places,
         NEW n \in Nat, NEW o \in Nat, NEW h \in Seq(Nat \X Nat),
         a \in {"arriving", "filter", "read", "write", "return"} =>
             n \in 1..Len(requests[q].batch),
         \/ h = requests[q].health
         \/ /\ requests[q].n \in 1..Len(requests[q].batch)
            /\ \E total \in Nat : h = Append(requests[q].health, <<requests[q].n, total>>)
  PROVE  /\ Rec(requests[q].batch, p, a, n, o, h) \in Request
         /\ RequestOK(Rec(requests[q].batch, p, a, n, o, h))
<1>1. /\ requests[q].batch \in Seq(Reading) /\ RequestOK(requests[q]) /\ requests[q].n \in Nat
      /\ requests[q].health \in Seq(Nat \X Nat) /\ Len(requests[q].health) \in Nat
  BY HandlerFacts
<1> DEFINE r == Rec(requests[q].batch, p, a, n, o, h)
<1>2. r \in Request
  BY <1>1, RecType
<1>3. r.batch = requests[q].batch /\ r.process = p /\ r.at = a /\ r.n = n /\ r.health = h
  BY RecFields
<1> HIDE DEF r
<1>4. \A i \in 1..Len(h) : h[i][1] \in 1..Len(requests[q].batch)
  <2>1. CASE h = requests[q].health
    BY <1>1, <2>1 DEF RequestOK
  <2>2. ASSUME NEW total \in Nat, h = Append(requests[q].health, <<requests[q].n, total>>),
               requests[q].n \in 1..Len(requests[q].batch)
        PROVE  \A i \in 1..Len(h) : h[i][1] \in 1..Len(requests[q].batch)
    <3> DEFINE k == Len(requests[q].health)
               e == <<requests[q].n, total>>
    <3>1. e \in Nat \X Nat /\ e[1] = requests[q].n
      BY <1>1
    <3> HIDE DEF e
    <3>2. /\ Len(h) = k + 1 /\ h[k + 1] = e
          /\ \A i \in 1..k : h[i] = requests[q].health[i]
      BY <1>1, <2>2, <3>1, AppendProperties DEF e
    <3>3. \A i \in 1..k : h[i][1] \in 1..Len(requests[q].batch)
      BY <1>1, <3>2, Zenon DEF RequestOK
    <3> QED
      BY <1>1, <2>2, <3>1, <3>2, <3>3
  <2> QED
    BY <2>1, <2>2, Zenon
<1>5. RequestOK(r)
  BY <1>1, <1>3, <1>4 DEF RequestOK
<1> QED
  BY <1>2, <1>5 DEF r

\* Request q moves on with these fields, and keeps its batch.
Moves(q, p, a, n, o, h) ==
  \E r \in Request :
    /\ Becomes(q, r) /\ RequestOK(r)
    /\ r.batch = requests[q].batch /\ r.process = p /\ r.at = a
    /\ r.n = n /\ r.old = o /\ r.health = h

LEMMA MovesBy ==
  ASSUME TypeOK, RequestsOK, NEW q \in DOMAIN requests, NEW p \in Process, NEW a \in Places,
         NEW n \in Nat, NEW o \in Nat, NEW h \in Seq(Nat \X Nat),
         a \in {"arriving", "filter", "read", "write", "return"} =>
             n \in 1..Len(requests[q].batch),
         \/ h = requests[q].health
         \/ /\ requests[q].n \in 1..Len(requests[q].batch)
            /\ \E total \in Nat : h = Append(requests[q].health, <<requests[q].n, total>>),
         Becomes(q, Rec(requests[q].batch, p, a, n, o, h))
  PROVE  Moves(q, p, a, n, o, h)
<1> DEFINE r == Rec(requests[q].batch, p, a, n, o, h)
<1>1. r \in Request /\ RequestOK(r)
  BY MovesOn, Zenon
<1>2. /\ r.batch = requests[q].batch /\ r.process = p /\ r.at = a
      /\ r.n = n /\ r.old = o /\ r.health = h
  BY RecFields
<1>3. Becomes(q, r)
  OBVIOUS
<1> HIDE DEF r
<1> QED
  BY <1>1, <1>2, <1>3, Zenon DEF Moves

LEMMA ArriveMoves ==
  ASSUME Base, NEW q \in DOMAIN requests, Arrive(q)
  PROVE  \E p \in Process :
            Moves(q, p, "filter", requests[q].n, requests[q].old, requests[q].health)
<1>1. TypeOK /\ RequestsOK
  BY DEF Base
<1>2. PICK p \in Process : Becomes(q, Rec(requests[q].batch, p, "filter", requests[q].n,
                                          requests[q].old, requests[q].health))
  BY <1>1, ArriveEffect
<1>3. /\ "filter" \in Places /\ requests[q].n \in 1..Len(requests[q].batch)
      /\ requests[q].n \in Nat /\ requests[q].old \in Nat /\ requests[q].health \in Seq(Nat \X Nat)
  BY <1>1, HandlerFacts DEF Places, Working, RequestOK, Arrive
<1>4. Moves(q, p, "filter", requests[q].n, requests[q].old, requests[q].health)
  BY <1>1, <1>2, <1>3, MovesBy
<1> QED
  BY <1>4

LEMMA FilterMoves ==
  ASSUME Base, NEW q \in DOMAIN requests, Filter(q)
  PROVE  Moves(q, requests[q].process, "read", requests[q].n,
               requests[q].old, requests[q].health)
<1>1. TypeOK /\ RequestsOK /\ requests[q].at = "filter"
  BY DEF Base, Filter
<1>2. /\ "read" \in Places /\ requests[q].n \in 1..Len(requests[q].batch)
      /\ requests[q].process \in Process
      /\ damage[requests[q].process][Current(q).loco] \in Nat
  BY <1>1, CurrentFacts DEF Places, Working
<1>3. /\ requests[q].n \in Nat /\ requests[q].old \in Nat /\ requests[q].health \in Seq(Nat \X Nat)
      /\ 0 \in Nat
  BY <1>1, HandlerFacts
<1>4. requests' = [requests EXCEPT ![q].at = "read"]
  BY DEF Filter
<1>5. Becomes(q, Rec(requests[q].batch, requests[q].process, "read", requests[q].n,
                     requests[q].old,
                     requests[q].health))
  BY <1>1, <1>2, <1>3, <1>4, PlaceEffect, Zenon
<1> QED
  BY <1>1, <1>2, <1>3, <1>5, MovesBy

LEMMA HotReadMoves ==
  ASSUME Base, NEW q \in DOMAIN requests, HotRead(q)
  PROVE  Moves(q, requests[q].process, "write", requests[q].n,
               damage[requests[q].process][Current(q).loco], requests[q].health)
<1>1. TypeOK /\ RequestsOK /\ requests[q].at = "read"
  BY DEF Base, HotRead
<1>2. /\ "write" \in Places /\ requests[q].n \in 1..Len(requests[q].batch)
      /\ requests[q].process \in Process
      /\ damage[requests[q].process][Current(q).loco] \in Nat
  BY <1>1, CurrentFacts DEF Places, Working
<1>3. /\ requests[q].n \in Nat /\ requests[q].old \in Nat /\ requests[q].health \in Seq(Nat \X Nat)
      /\ 0 \in Nat
  BY <1>1, HandlerFacts
<1>4. requests' =
          [requests EXCEPT ![q].at = "write",
           ![q].old = damage[requests[q].process][Current(q).loco]]
  BY DEF HotRead
<1>5. Becomes(q, Rec(requests[q].batch, requests[q].process, "write", requests[q].n,
                     damage[requests[q].process][Current(q).loco],
                     requests[q].health))
  BY <1>1, <1>2, <1>3, <1>4, OldEffect, Zenon
<1> QED
  BY <1>1, <1>2, <1>3, <1>5, MovesBy

LEMMA HotWriteMoves ==
  ASSUME Base, NEW q \in DOMAIN requests, HotWrite(q)
  PROVE  Moves(q, requests[q].process, "return", requests[q].n,
               0, requests[q].health)
<1>1. TypeOK /\ RequestsOK /\ requests[q].at = "write"
  BY DEF Base, HotWrite
<1>2. /\ "return" \in Places /\ requests[q].n \in 1..Len(requests[q].batch)
      /\ requests[q].process \in Process
      /\ damage[requests[q].process][Current(q).loco] \in Nat
  BY <1>1, CurrentFacts DEF Places, Working
<1>3. /\ requests[q].n \in Nat /\ requests[q].old \in Nat /\ requests[q].health \in Seq(Nat \X Nat)
      /\ 0 \in Nat
  BY <1>1, HandlerFacts
<1>4. requests' = [requests EXCEPT ![q].at = "return", ![q].old = 0]
  BY DEF HotWrite
<1>5. Becomes(q, Rec(requests[q].batch, requests[q].process, "return", requests[q].n, 0,
                     requests[q].health))
  BY <1>1, <1>2, <1>3, <1>4, OldEffect, Zenon
<1> QED
  BY <1>1, <1>2, <1>3, <1>5, MovesBy

LEMMA ColdMoves ==
  ASSUME Base, NEW q \in DOMAIN requests, Cold(q)
  PROVE  Moves(q, requests[q].process, AfterReading(q), requests[q].n + 1, requests[q].old,
               Append(requests[q].health,
                      <<requests[q].n, damage[requests[q].process][Current(q).loco]>>))
<1> DEFINE total == damage[requests[q].process][Current(q).loco]
           h == Append(requests[q].health, <<requests[q].n, total>>)
<1>1. TypeOK /\ RequestsOK /\ requests[q].at = "read" /\ Computed(q, total)
  BY DEF Base, Cold
<1>2. /\ requests[q].n \in 1..Len(requests[q].batch) /\ requests[q].process \in Process
      /\ total \in Nat
  BY <1>1, CurrentFacts
<1> HIDE DEF total
<1>3. /\ AfterReading(q) \in Places
      /\ AfterReading(q) \in {"arriving", "filter", "read", "write", "return"} =>
            requests[q].n + 1 \in 1..Len(requests[q].batch)
  BY <1>1, AfterReadingFacts DEF Places, Working
<1>4. /\ requests[q].n \in Nat /\ requests[q].n + 1 \in Nat /\ requests[q].old \in Nat
      /\ h \in Seq(Nat \X Nat)
  <2>1. /\ requests[q].n \in Nat /\ requests[q].old \in Nat
        /\ requests[q].health \in Seq(Nat \X Nat)
    BY <1>1, HandlerFacts
  <2>2. requests[q].n + 1 \in Nat /\ <<requests[q].n, total>> \in Nat \X Nat
    BY <1>2, <2>1
  <2> QED
    BY <2>1, <2>2, AppendProperties
<1>5. Becomes(q, Rec(requests[q].batch, requests[q].process, AfterReading(q), requests[q].n + 1,
                     requests[q].old, h))
  BY <1>1, <1>2, <1>3, ComputedEffect
<1>6. \E t \in Nat : h = Append(requests[q].health, <<requests[q].n, t>>)
                    /\ requests[q].n \in 1..Len(requests[q].batch)
  BY <1>2
<1> HIDE DEF h
<1>7. Moves(q, requests[q].process, AfterReading(q), requests[q].n + 1, requests[q].old, h)
  BY <1>1, <1>2, <1>3, <1>4, <1>5, <1>6, MovesBy, Zenon
<1> QED
  BY <1>7 DEF h, total

LEMMA HotReturnMoves ==
  ASSUME Base, NEW q \in DOMAIN requests, HotReturn(q)
  PROVE  Moves(q, requests[q].process, AfterReading(q), requests[q].n + 1, requests[q].old,
               Append(requests[q].health,
                      <<requests[q].n, damage[requests[q].process][Current(q).loco]>>))
<1> DEFINE total == damage[requests[q].process][Current(q).loco]
           h == Append(requests[q].health, <<requests[q].n, total>>)
<1>1. TypeOK /\ RequestsOK /\ requests[q].at = "return" /\ Computed(q, total)
  BY DEF Base, HotReturn
<1>2. /\ requests[q].n \in 1..Len(requests[q].batch) /\ requests[q].process \in Process
      /\ total \in Nat
  BY <1>1, CurrentFacts
<1> HIDE DEF total
<1>3. /\ AfterReading(q) \in Places
      /\ AfterReading(q) \in {"arriving", "filter", "read", "write", "return"} =>
            requests[q].n + 1 \in 1..Len(requests[q].batch)
  BY <1>1, AfterReadingFacts DEF Places, Working
<1>4. /\ requests[q].n \in Nat /\ requests[q].n + 1 \in Nat /\ requests[q].old \in Nat
      /\ h \in Seq(Nat \X Nat)
  <2>1. /\ requests[q].n \in Nat /\ requests[q].old \in Nat
        /\ requests[q].health \in Seq(Nat \X Nat)
    BY <1>1, HandlerFacts
  <2>2. requests[q].n + 1 \in Nat /\ <<requests[q].n, total>> \in Nat \X Nat
    BY <1>2, <2>1
  <2> QED
    BY <2>1, <2>2, AppendProperties
<1>5. Becomes(q, Rec(requests[q].batch, requests[q].process, AfterReading(q), requests[q].n + 1,
                     requests[q].old, h))
  BY <1>1, <1>2, <1>3, ComputedEffect
<1>6. \E t \in Nat : h = Append(requests[q].health, <<requests[q].n, t>>)
                    /\ requests[q].n \in 1..Len(requests[q].batch)
  BY <1>2
<1> HIDE DEF h
<1>7. Moves(q, requests[q].process, AfterReading(q), requests[q].n + 1, requests[q].old, h)
  BY <1>1, <1>2, <1>3, <1>4, <1>5, <1>6, MovesBy, Zenon
<1> QED
  BY <1>7 DEF h, total

LEMMA ReadingFailsMoves ==
  ASSUME Base, NEW q \in DOMAIN requests, ReadingFails(q)
  PROVE  Moves(q, requests[q].process, AfterReading(q), requests[q].n + 1, requests[q].old,
               requests[q].health)
<1>1. TypeOK /\ RequestsOK /\ requests[q].at = "read"
  BY DEF Base, ReadingFails
<1>2. requests[q].n \in 1..Len(requests[q].batch) /\ requests[q].process \in Process
  BY <1>1, CurrentFacts
<1>3. /\ AfterReading(q) \in Places
      /\ AfterReading(q) \in {"arriving", "filter", "read", "write", "return"} =>
            requests[q].n + 1 \in 1..Len(requests[q].batch)
  BY <1>1, AfterReadingFacts DEF Places, Working
<1>4. /\ requests[q].n \in Nat /\ requests[q].n + 1 \in Nat /\ requests[q].old \in Nat
      /\ requests[q].health \in Seq(Nat \X Nat)
  BY <1>1, HandlerFacts
<1>5. requests' = [requests EXCEPT ![q].at = AfterReading(q), ![q].n = @ + 1]
  BY DEF ReadingFails
<1>6. Becomes(q, Rec(requests[q].batch, requests[q].process, AfterReading(q), requests[q].n + 1,
                     requests[q].old, requests[q].health))
  BY <1>1, <1>3, <1>5, ReadingFailsEffect, Zenon
<1> QED
  BY <1>1, <1>2, <1>3, <1>4, <1>6, MovesBy

LEMMA AddRowsMoves ==
  ASSUME Base, NEW q \in DOMAIN requests, NEW a \in {"publish"},
         requests[q].at = "xadd", requests' = [requests EXCEPT ![q].at = a]
  PROVE  Moves(q, requests[q].process, a, requests[q].n, requests[q].old, requests[q].health)
<1>1. TypeOK /\ RequestsOK
  BY DEF Base
<1>2. /\ a \in Places /\ a \notin {"arriving", "filter", "read", "write", "return"}
      /\ requests[q].process \in Process
  BY <1>1, HandlerFacts DEF Places, Working, RequestOK
<1>3. /\ requests[q].n \in Nat /\ requests[q].old \in Nat /\ requests[q].health \in Seq(Nat \X Nat)
  BY <1>1, HandlerFacts
<1>4. Becomes(q, Rec(requests[q].batch, requests[q].process, a, requests[q].n, requests[q].old,
                     requests[q].health))
  BY <1>1, <1>2, PlaceEffect, Zenon
<1> QED
  BY <1>1, <1>2, <1>3, <1>4, MovesBy, Zenon

LEMMA PublishMoves ==
  ASSUME Base, NEW q \in DOMAIN requests, NEW a \in {"accepted", "error"},
         requests[q].at = "publish", requests' = [requests EXCEPT ![q].at = a]
  PROVE  Moves(q, requests[q].process, a, requests[q].n, requests[q].old, requests[q].health)
<1>1. TypeOK /\ RequestsOK
  BY DEF Base
<1>2. /\ a \in Places /\ a \notin {"arriving", "filter", "read", "write", "return"}
      /\ requests[q].process \in Process
  BY <1>1, HandlerFacts DEF Places, Working, RequestOK
<1>3. /\ requests[q].n \in Nat /\ requests[q].old \in Nat /\ requests[q].health \in Seq(Nat \X Nat)
  BY <1>1, HandlerFacts
<1>4. Becomes(q, Rec(requests[q].batch, requests[q].process, a, requests[q].n, requests[q].old,
                     requests[q].health))
  BY <1>1, <1>2, PlaceEffect, Zenon
<1> QED
  BY <1>1, <1>2, <1>3, <1>4, MovesBy

LEMMA MovesKeep ==
  ASSUME Base, NEW q \in DOMAIN requests, NEW p, NEW a, NEW n, NEW o, NEW h,
         Moves(q, p, a, n, o, h), requests[q].at # "gone", a # "gone", UNCHANGED simulator
  PROVE  requests' \in Seq(Request) /\ RequestsOK' /\ PostsOK' /\ PlaceOK' /\ Ledger'
<1>1. PICK r \in Request : /\ Becomes(q, r) /\ RequestOK(r)
                          /\ r.batch = requests[q].batch /\ r.at = a
  BY DEF Moves
<1> QED
  BY <1>1, HandlerKeeps

LEMMA ArriveBase ==
  ASSUME Base, NEW q \in DOMAIN requests, Arrive(q)
  PROVE  Base'
<1>1. TypeOK /\ RequestsOK
  BY DEF Base
<1>2. \E p \in Process :
        Moves(q, p, "filter", requests[q].n, requests[q].old, requests[q].health)
  BY ArriveMoves
<1>3. requests[q].at # "gone" /\ UNCHANGED simulator
  BY DEF Arrive
<1>4. requests' \in Seq(Request) /\ RequestsOK' /\ PostsOK' /\ PlaceOK' /\ Ledger'
  <2>1. PICK p \in Process :
          Moves(q, p, "filter", requests[q].n, requests[q].old, requests[q].health)
    BY <1>2
  <2> QED
    BY <1>3, <2>1, MovesKeep
<1>9. TypeOK'
  BY <1>1, <1>3, <1>4 DEF TypeOK, simulator, processor, budgets, Arrive
<1> QED
  BY <1>4, <1>9 DEF Base

LEMMA FilterBase ==
  ASSUME Base, NEW q \in DOMAIN requests, Filter(q)
  PROVE  Base'
<1>1. TypeOK /\ RequestsOK
  BY DEF Base
<1>2. Moves(q, requests[q].process, "read", requests[q].n, requests[q].old, requests[q].health)
  BY FilterMoves
<1>3. requests[q].at # "gone" /\ UNCHANGED simulator
  BY DEF Filter
<1>4. requests' \in Seq(Request) /\ RequestsOK' /\ PostsOK' /\ PlaceOK' /\ Ledger'
  BY <1>2, <1>3, MovesKeep
<1>5. ema' \in [Process -> [Locomotive -> 0..MaxTicks]]
  <2>1. requests[q].process \in Process /\ Current(q).loco \in Locomotive
        /\ Current(q).tick \in 1..MaxTicks
    BY <1>1, CurrentFacts DEF Filter
  <2>2. Current(q).tick \in 0..MaxTicks
    BY <2>1, IngestAssumption
  <2> QED
    BY <1>1, <2>1, <2>2, Zenon DEF Filter, TypeOK
<1>9. TypeOK'
  BY <1>1, <1>3, <1>4, <1>5, Zenon DEF TypeOK, simulator, processor, budgets, Filter
<1> QED
  BY <1>4, <1>9 DEF Base

LEMMA ColdBase ==
  ASSUME Base, NEW q \in DOMAIN requests, Cold(q)
  PROVE  Base'
<1>1. TypeOK /\ RequestsOK
  BY DEF Base
<1>2. Moves(q, requests[q].process, AfterReading(q), requests[q].n + 1, requests[q].old,
            Append(requests[q].health,
                   <<requests[q].n, damage[requests[q].process][Current(q).loco]>>))
  BY ColdMoves
<1>0. AfterReading(q) # "gone"
  BY DEF AfterReading
<1>3. requests[q].at # "gone" /\ UNCHANGED simulator
  BY DEF Cold
<1>4. requests' \in Seq(Request) /\ RequestsOK' /\ PostsOK' /\ PlaceOK' /\ Ledger'
  BY <1>0, <1>2, <1>3, MovesKeep
<1>9. TypeOK'
  BY <1>1, <1>3, <1>4, Zenon DEF TypeOK, simulator, processor, budgets, Cold
<1> QED
  BY <1>4, <1>9 DEF Base

LEMMA HotReturnBase ==
  ASSUME Base, NEW q \in DOMAIN requests, HotReturn(q)
  PROVE  Base'
<1>1. TypeOK /\ RequestsOK
  BY DEF Base
<1>2. Moves(q, requests[q].process, AfterReading(q), requests[q].n + 1, requests[q].old,
            Append(requests[q].health,
                   <<requests[q].n, damage[requests[q].process][Current(q).loco]>>))
  BY HotReturnMoves
<1>0. AfterReading(q) # "gone"
  BY DEF AfterReading
<1>3. requests[q].at # "gone" /\ UNCHANGED simulator
  BY DEF HotReturn
<1>4. requests' \in Seq(Request) /\ RequestsOK' /\ PostsOK' /\ PlaceOK' /\ Ledger'
  BY <1>0, <1>2, <1>3, MovesKeep
<1>9. TypeOK'
  BY <1>1, <1>3, <1>4, Zenon DEF TypeOK, simulator, processor, budgets, HotReturn
<1> QED
  BY <1>4, <1>9 DEF Base

LEMMA HotReadBase ==
  ASSUME Base, NEW q \in DOMAIN requests, HotRead(q)
  PROVE  Base'
<1>1. TypeOK /\ RequestsOK
  BY DEF Base
<1>2. Moves(q, requests[q].process, "write", requests[q].n,
            damage[requests[q].process][Current(q).loco], requests[q].health)
  BY HotReadMoves
<1>3. requests[q].at # "gone" /\ UNCHANGED simulator
  BY DEF HotRead
<1>4. requests' \in Seq(Request) /\ RequestsOK' /\ PostsOK' /\ PlaceOK' /\ Ledger'
  BY <1>2, <1>3, MovesKeep
<1>9. TypeOK'
  BY <1>1, <1>3, <1>4 DEF TypeOK, simulator, processor, budgets, HotRead
<1> QED
  BY <1>4, <1>9 DEF Base

LEMMA HotWriteBase ==
  ASSUME Base, NEW q \in DOMAIN requests, HotWrite(q)
  PROVE  Base'
<1>1. TypeOK /\ RequestsOK
  BY DEF Base
<1>2. Moves(q, requests[q].process, "return", requests[q].n, 0, requests[q].health)
  BY HotWriteMoves
<1>3. requests[q].at # "gone" /\ UNCHANGED simulator
  BY DEF HotWrite
<1>4. requests' \in Seq(Request) /\ RequestsOK' /\ PostsOK' /\ PlaceOK' /\ Ledger'
  BY <1>2, <1>3, MovesKeep
<1>5. damage' \in [Process -> [Locomotive -> Nat]]
  <2>1. requests[q].process \in Process /\ Current(q).loco \in Locomotive
    BY <1>1, CurrentFacts DEF HotWrite
  <2>2. requests[q].old + 1 \in Nat
    BY <1>1, HandlerFacts
  <2> QED
    BY <1>1, <2>1, <2>2, Zenon DEF HotWrite, TypeOK
<1>9. TypeOK'
  BY <1>1, <1>3, <1>4, <1>5, Zenon DEF TypeOK, simulator, processor, budgets, HotWrite
<1> QED
  BY <1>4, <1>9 DEF Base

LEMMA ReadingFailsBase ==
  ASSUME Base, NEW q \in DOMAIN requests, ReadingFails(q)
  PROVE  Base'
<1>1. TypeOK /\ RequestsOK
  BY DEF Base
<1>2. Moves(q, requests[q].process, AfterReading(q), requests[q].n + 1, requests[q].old,
            requests[q].health)
  BY ReadingFailsMoves
<1>0. AfterReading(q) # "gone"
  BY DEF AfterReading
<1>3. requests[q].at # "gone" /\ UNCHANGED simulator
  BY DEF ReadingFails
<1>4. requests' \in Seq(Request) /\ RequestsOK' /\ PostsOK' /\ PlaceOK' /\ Ledger'
  BY <1>0, <1>2, <1>3, MovesKeep
<1>5. faults' \in 0..MaxFaults
  BY <1>1, IngestAssumption, SMTT(30) DEF ReadingFails, Fault, TypeOK
<1>9. TypeOK'
  BY <1>1, <1>3, <1>4, <1>5 DEF TypeOK, simulator, processor, budgets, ReadingFails
<1> QED
  BY <1>4, <1>9 DEF Base

LEMMA AddRowsBase ==
  ASSUME Base, NEW q \in DOMAIN requests, AddRows(q)
  PROVE  Base'
<1>1. TypeOK /\ RequestsOK
  BY DEF Base
<1>2. Moves(q, requests[q].process, "publish", requests[q].n, requests[q].old, requests[q].health)
  BY AddRowsMoves, Zenon DEF AddRows
<1>3. requests[q].at # "gone" /\ UNCHANGED simulator
  BY DEF AddRows
<1>4. requests' \in Seq(Request) /\ RequestsOK' /\ PostsOK' /\ PlaceOK' /\ Ledger'
  BY <1>2, <1>3, MovesKeep
<1>5. faults' \in 0..MaxFaults
  BY <1>1, IngestAssumption, SMTT(30) DEF AddRows, Fault, TypeOK
<1>6. telemetry' \subseteq produced
  <2>1. Range(requests[q].batch) \subseteq produced
    BY <1>1, HandlerFacts DEF RequestOK
  <2> QED
    BY <1>1, <2>1 DEF AddRows, TypeOK
<1>9. TypeOK'
  BY <1>1, <1>3, <1>4, <1>5, <1>6 DEF TypeOK, simulator, processor, budgets, AddRows
<1> QED
  BY <1>4, <1>9 DEF Base

\* Show() writes damages.
LEMMA ShowFacts ==
  ASSUME TypeOK, RequestsOK, NEW q \in DOMAIN requests, NEW k \in 0..Len(requests[q].health),
         Show(q, k), NEW l \in Locomotive
  PROVE  \/ shown'[l] = shown[l]
         \/ \E i \in 1..Len(requests[q].health) :
                /\ requests[q].batch[requests[q].health[i][1]].loco = l
                /\ shown'[l] = requests[q].health[i][2]
<1> DEFINE its == {i \in 1..k : requests[q].batch[requests[q].health[i][1]].loco = l}
<1>1. shown'[l] = IF its = {} THEN shown[l] ELSE requests[q].health[Max(its)][2]
  BY DEF Show
<1>2. Len(requests[q].health) \in Nat
  BY HandlerFacts
<1>3. its \in SUBSET (0..k) /\ k \in Nat
  BY <1>2
<1>4. ASSUME its # {} PROVE Max(its) \in its
  <2> HIDE DEF its
  <2> QED
    BY <1>3, <1>4, MaxOf, Zenon
<1>5. \A i \in its : i \in 1..Len(requests[q].health)
                    /\ requests[q].batch[requests[q].health[i][1]].loco = l
  BY <1>2
<1> HIDE DEF its
<1> QED
  BY <1>1, <1>4, <1>5

LEMMA ShowType ==
  ASSUME TypeOK, RequestsOK, NEW q \in DOMAIN requests, NEW k \in 0..Len(requests[q].health),
         Show(q, k)
  PROVE  shown' \in [Locomotive -> Nat]
<1>1. \A l \in Locomotive : shown'[l] \in Nat
  <2> TAKE l \in Locomotive
  <2>1. shown[l] \in Nat
    BY DEF TypeOK
  <2>2. \A i \in 1..Len(requests[q].health) : requests[q].health[i][2] \in Nat
    <3> TAKE i \in 1..Len(requests[q].health)
    <3>1. requests[q].health[i] \in Nat \X Nat
      BY HandlerFacts, ElementOfSeq
    <3> QED
      BY <3>1
  <2> QED
    BY <2>1, <2>2, ShowFacts
<1>2. shown' = [l \in Locomotive |-> shown'[l]]
  BY DEF Show
<1> QED
  BY <1>1, <1>2

LEMMA PublishFacts ==
  ASSUME TypeOK, RequestsOK, NEW q \in DOMAIN requests, Publish(q)
  PROVE  /\ \E k \in 0..Len(requests[q].health) : Show(q, k)
         /\ \/ requests' = [requests EXCEPT ![q].at = "accepted"] /\ faults' = faults
            \/ requests' = [requests EXCEPT ![q].at = "error"] /\ Fault
<1>1. Len(requests[q].health) \in Nat
  BY HandlerFacts
<1>2. Len(requests[q].health) \in 0..Len(requests[q].health)
  BY <1>1
<1>3. CASE /\ Show(q, Len(requests[q].health))
           /\ requests' = [requests EXCEPT ![q].at = "accepted"]
           /\ UNCHANGED faults
  BY <1>2, <1>3
<1>4. CASE /\ Fault
           /\ \E k \in 0..Len(requests[q].health) : Show(q, k)
           /\ requests' = [requests EXCEPT ![q].at = "error"]
  BY <1>4
<1> QED
  BY <1>3, <1>4 DEF Publish

LEMMA PublishBase ==
  ASSUME Base, NEW q \in DOMAIN requests, Publish(q)
  PROVE  Base'
<1>1. TypeOK /\ RequestsOK
  BY DEF Base
<1>0. \E k \in 0..Len(requests[q].health) : Show(q, k)
  BY <1>1, PublishFacts
<1>2. \E a \in {"accepted", "error"} :
        Moves(q, requests[q].process, a, requests[q].n, requests[q].old, requests[q].health)
  <2>1. requests[q].at = "publish" /\ \E a \in {"accepted", "error"} :
            requests' = [requests EXCEPT ![q].at = a]
    BY <1>1, PublishFacts DEF Publish
  <2> QED
    BY <2>1, PublishMoves, Zenon
<1>3. requests[q].at # "gone" /\ UNCHANGED simulator
  BY DEF Publish
<1>4. requests' \in Seq(Request) /\ RequestsOK' /\ PostsOK' /\ PlaceOK' /\ Ledger'
  <2>1. PICK a \in {"accepted", "error"} :
          Moves(q, requests[q].process, a, requests[q].n, requests[q].old, requests[q].health)
    BY <1>2
  <2> QED
    BY <1>3, <2>1, MovesKeep
<1>5. faults' \in 0..MaxFaults
  BY <1>1, PublishFacts, IngestAssumption, SMTT(30) DEF Fault, TypeOK
<1>6. shown' \in [Locomotive -> Nat]
  BY <1>0, <1>1, ShowType
<1>9. TypeOK'
  BY <1>1, <1>3, <1>4, <1>5, <1>6, Zenon DEF TypeOK, simulator, processor, budgets, Publish
<1> QED
  BY <1>4, <1>9 DEF Base

-----------------------------------------------------------------------------
(* Answers, failed attempts and restarts.                                  *)

LEMMA PostFields ==
  ASSUME NEW t \in Post
  PROVE  /\ t.batch \in Seq(Reading) /\ t.attempt \in 1..MaxRetries
         /\ t.request \in Nat \ {0} /\ t.outcome \in {"out", "ok", "failed"}
BY DEF Post

LEMMA SetOutcome ==
  ASSUME NEW t \in Post, NEW x \in {"out", "ok", "failed"}
  PROVE  /\ [t EXCEPT !.outcome = x] \in Post
         /\ [t EXCEPT !.outcome = x].batch = t.batch
         /\ [t EXCEPT !.outcome = x].request = t.request
         /\ [t EXCEPT !.outcome = x].outcome = x
BY DEF Post

\* A post at its next attempt.
Again(t, n, q) == [[t EXCEPT !.attempt = n] EXCEPT !.request = q]

LEMMA SetAttempt ==
  ASSUME NEW t \in Post, NEW n \in 1..MaxRetries, NEW q \in Nat \ {0}
  PROVE  /\ Again(t, n, q) \in Post
         /\ Again(t, n, q).batch = t.batch
         /\ Again(t, n, q).request = q
         /\ Again(t, n, q).outcome = t.outcome
BY Zenon DEF Post, Again

LEMMA BatchedType ==
  ASSUME TypeOK
  PROVE  /\ [b \in DOMAIN posts |-> posts[b].batch] \in Seq(Seq(Reading))
         /\ Len([b \in DOMAIN posts |-> posts[b].batch]) = Len(posts)
         /\ Unsent \in Seq(Reading) /\ Pending \in Seq(Reading)
         /\ Len(Pending) = Len(Unsent) + Len(buffer)
         /\ Range(Pending) = Range(Unsent) \cup Range(buffer)
<1> DEFINE seqs == [b \in DOMAIN posts |-> posts[b].batch]
<1>1. seqs \in [1..Len(posts) -> Seq(Reading)] /\ Len(posts) \in Nat
  BY Posts, PostFields
<1>2. seqs \in Seq(Seq(Reading)) /\ Len(seqs) = Len(posts)
  <2> HIDE DEF seqs
  <2> QED
    BY <1>1, SeqDef, LenProperties
<1> HIDE DEF seqs
<1>3. Unsent \in Seq(Reading)
  BY <1>2, FlattenType DEF Unsent, seqs
<1>4. buffer \in Seq(Reading)
  BY DEF TypeOK
<1>5. Pending \in Seq(Reading) /\ Len(Pending) = Len(Unsent) + Len(buffer)
  BY <1>3, <1>4, ConcatProperties DEF Pending
<1>6. Range(Pending) = Range(Unsent) \cup Range(buffer)
  BY <1>3, <1>4, RangeConcatenation DEF Pending
<1> QED
  BY <1>2, <1>3, <1>5, <1>6 DEF seqs

LEMMA SamePending ==
  ASSUME TypeOK, posts' \in Seq(Post), Len(posts') = Len(posts),
         \A b \in 1..Len(posts) : posts'[b].batch = posts[b].batch, buffer' = buffer
  PROVE  Pending' = Pending
<1>1. DOMAIN posts = 1..Len(posts) /\ DOMAIN posts' = 1..Len(posts)
  BY Posts, LenProperties
<1>2. [b \in DOMAIN posts' |-> posts'[b].batch] = [b \in DOMAIN posts |-> posts[b].batch]
  BY <1>1
<1>3. Unsent' = Unsent
  BY <1>2, Zenon DEF Unsent
<1> QED
  BY <1>3 DEF Pending

LEMMA RequestsMoveOn ==
  ASSUME Base, requests' \in Seq(Request), Len(requests) <= Len(requests'),
         \A x \in 1..Len(requests') : RequestOK(requests'[x]),
         \A x \in 1..Len(requests) : requests'[x] = requests[x] \/ requests'[x].at = "gone",
         posts' \in Seq(Post), Len(posts') = Len(posts),
         \A b \in 1..Len(posts) :
            /\ posts'[b].batch = posts[b].batch
            /\ \/ posts'[b].request = posts[b].request
               \/ /\ posts'[b].request \in 1..Len(requests')
                  /\ requests'[posts'[b].request].batch = posts[b].batch,
         UNCHANGED <<place, buffer, produced, clock, dropped, eventsSent>>
  PROVE  RequestsOK' /\ PostsOK' /\ PlaceOK' /\ Ledger'
<1>1. TypeOK /\ RequestsOK /\ PostsOK /\ PlaceOK /\ Ledger
  BY DEF Base
<1>2. RequestsOK'
  BY DEF RequestsOK, RequestOK
<1>3. PostsOK'
  <2> SUFFICES ASSUME NEW b \in 1..Len(posts)
               PROVE  /\ posts'[b].batch # <<>> /\ Len(posts'[b].batch) <= BatchSize
                      /\ posts'[b].request \in 1..Len(requests')
                      /\ requests'[posts'[b].request].at # "gone" =>
                            requests'[posts'[b].request].batch = posts'[b].batch
    BY Zenon DEF PostsOK, Bound
  <2>1. /\ posts[b].batch # <<>> /\ Len(posts[b].batch) <= BatchSize
        /\ posts[b].request \in 1..Len(requests)
        /\ requests[posts[b].request].at # "gone" =>
              requests[posts[b].request].batch = posts[b].batch
    BY <1>1 DEF PostsOK, Bound
  <2>2. 1..Len(requests) \subseteq 1..Len(requests')
    BY <1>1, Requests, LenProperties
  <2>3. CASE posts'[b].request = posts[b].request
    BY <2>1, <2>2, <2>3, Zenon
  <2>4. CASE /\ posts'[b].request \in 1..Len(requests')
             /\ requests'[posts'[b].request].batch = posts[b].batch
    BY <2>1, <2>4
  <2> QED
    BY <2>3, <2>4
<1>4. PlaceOK'
  <2>1. posts = <<>> => posts' = <<>>
    BY <1>1, EmptySeq
  <2> QED
    BY <1>1, <2>1 DEF PlaceOK
<1>5. Ledger'
  <2>1. Pending' = Pending
    BY <1>1, SamePending
  <2> QED
    BY <1>1, <2>1 DEF Ledger
<1> QED
  BY <1>2, <1>3, <1>4, <1>5

\* The posts and the requests after an answer.
LEMMA AnswerEffect ==
  ASSUME TypeOK, RequestsOK, NEW q \in DOMAIN requests, Answer(q)
  PROVE  /\ Becomes(q, Closed)
         /\ posts' \in Seq(Post) /\ Len(posts') = Len(posts)
         /\ \A b \in 1..Len(posts) :
              /\ posts'[b].batch = posts[b].batch /\ posts'[b].request = posts[b].request
              /\ posts'[b].outcome =
                    IF posts[b].request = q /\ posts[b].outcome = "out"
                    THEN IF requests[q].at = "accepted" THEN "ok" ELSE "failed"
                    ELSE posts[b].outcome
<1> DEFINE x == IF requests[q].at = "accepted" THEN "ok" ELSE "failed"
<1>1. posts' = [b \in DOMAIN posts |->
                  IF posts[b].request = q /\ posts[b].outcome = "out"
                  THEN [posts[b] EXCEPT !.outcome = x] ELSE posts[b]]
  BY DEF Answer
<1>2. x \in {"out", "ok", "failed"}
  OBVIOUS
<1> HIDE DEF x
<1>3. ASSUME NEW b \in 1..Len(posts)
      PROVE  /\ posts'[b] \in Post
             /\ posts'[b].batch = posts[b].batch /\ posts'[b].request = posts[b].request
             /\ posts'[b].outcome = IF posts[b].request = q /\ posts[b].outcome = "out"
                                    THEN x ELSE posts[b].outcome
  <2>1. posts[b] \in Post /\ b \in DOMAIN posts
    BY Posts
  <2>2. CASE posts[b].request = q /\ posts[b].outcome = "out"
    <3>1. posts'[b] = [posts[b] EXCEPT !.outcome = x]
      BY <1>1, <2>1, <2>2
    <3> DEFINE u == [posts[b] EXCEPT !.outcome = x]
    <3>2. /\ u \in Post /\ u.batch = posts[b].batch /\ u.request = posts[b].request
          /\ u.outcome = x
      BY <1>2, <2>1, SetOutcome, Zenon
    <3>3. posts'[b] = u
      BY <3>1
    <3> HIDE DEF u
    <3> QED
      BY <2>2, <3>2, <3>3
  <2>3. CASE ~ (posts[b].request = q /\ posts[b].outcome = "out")
    <3>1. posts'[b] = posts[b]
      BY <1>1, <2>1, <2>3
    <3> QED
      BY <2>1, <2>3, <3>1
  <2> QED
    BY <2>2, <2>3
<1>4. posts' \in Seq(Post) /\ Len(posts') = Len(posts)
  <2>1. posts' \in [1..Len(posts) -> Post] /\ Len(posts) \in Nat
    BY <1>1, <1>3, Posts
  <2> QED
    BY <2>1, SeqDef, LenProperties
<1>5. Becomes(q, Closed)
  BY ClosedType, BecomesBy, Zenon DEF Answer
<1> QED
  BY <1>3, <1>4, <1>5 DEF x

LEMMA AnswerBase ==
  ASSUME Base, NEW q \in DOMAIN requests, Answer(q)
  PROVE  Base'
<1>1. TypeOK /\ RequestsOK
  BY DEF Base
<1>2. /\ Becomes(q, Closed) /\ posts' \in Seq(Post) /\ Len(posts') = Len(posts)
      /\ \A b \in 1..Len(posts) :
            posts'[b].batch = posts[b].batch /\ posts'[b].request = posts[b].request
  BY <1>1, AnswerEffect
<1>3. /\ requests' \in Seq(Request) /\ Len(requests') = Len(requests) /\ Len(requests) \in Nat
      /\ \A x \in 1..Len(requests) : requests'[x] = Closed \/ requests'[x] = requests[x]
  BY <1>1, <1>2, Requests, HandlerFacts DEF Becomes
<1>4. /\ \A x \in 1..Len(requests') : RequestOK(requests'[x])
      /\ \A x \in 1..Len(requests) : requests'[x] = requests[x] \/ requests'[x].at = "gone"
  BY <1>1, <1>3, ClosedType DEF RequestsOK
<1>5. UNCHANGED <<place, buffer, produced, clock, dropped, eventsSent>>
  BY DEF Answer
<1>6. Len(requests) <= Len(requests')
  BY <1>3
<1>7. RequestsOK' /\ PostsOK' /\ PlaceOK' /\ Ledger'
  BY <1>2, <1>3, <1>4, <1>5, <1>6, RequestsMoveOn
<1>8. TypeOK'
  BY <1>1, <1>2, <1>3 DEF TypeOK, Answer, budgets
<1> QED
  BY <1>7, <1>8 DEF Base

LEMMA RestartEffect ==
  ASSUME TypeOK, RequestsOK, NEW p \in Process, Restart(p)
  PROVE  /\ requests' \in Seq(Request) /\ Len(requests') = Len(requests)
         /\ \A x \in 1..Len(requests) :
              requests'[x] = IF requests[x].process = p THEN Closed ELSE requests[x]
<1>1. requests' = [q \in DOMAIN requests |->
                     IF requests[q].process = p THEN Closed ELSE requests[q]]
  BY DEF Restart
<1>2. \A x \in 1..Len(requests) :
         /\ requests'[x] = IF requests[x].process = p THEN Closed ELSE requests[x]
         /\ requests'[x] \in Request
  BY <1>1, Requests, ClosedType
<1>3. requests' \in [1..Len(requests) -> Request] /\ Len(requests) \in Nat
  BY <1>1, <1>2, Requests
<1> QED
  BY <1>2, <1>3, SeqDef, LenProperties

LEMMA RestartBase ==
  ASSUME Base, NEW p \in Process, Restart(p)
  PROVE  Base'
<1>1. TypeOK /\ RequestsOK
  BY DEF Base
<1>2. /\ requests' \in Seq(Request) /\ Len(requests') = Len(requests) /\ Len(requests) \in Nat
      /\ \A x \in 1..Len(requests) :
            requests'[x] = IF requests[x].process = p THEN Closed ELSE requests[x]
  BY <1>1, RestartEffect, Requests
<1>3. /\ \A x \in 1..Len(requests') : RequestOK(requests'[x])
      /\ \A x \in 1..Len(requests) : requests'[x] = requests[x] \/ requests'[x].at = "gone"
  BY <1>1, <1>2, ClosedType DEF RequestsOK
<1>4. /\ UNCHANGED simulator
      /\ Len(requests) <= Len(requests')
  BY <1>2 DEF Restart
<1>5. /\ UNCHANGED <<place, buffer, produced, clock, dropped, eventsSent>>
      /\ posts' \in Seq(Post) /\ posts' = posts
  BY <1>1, <1>4 DEF simulator, TypeOK
<1>6. RequestsOK' /\ PostsOK' /\ PlaceOK' /\ Ledger'
  BY <1>2, <1>3, <1>4, <1>5, RequestsMoveOn
<1>7. restarts' \in 0..MaxRestarts
  BY <1>1, IngestAssumption, SMTT(30) DEF Restart, TypeOK
<1>8. ema' \in [Process -> [Locomotive -> 0..MaxTicks]]
      /\ damage' \in [Process -> [Locomotive -> Nat]]
  BY <1>1, IngestAssumption, SMTT(30) DEF Restart, TypeOK
<1>9. TypeOK'
  BY <1>1, <1>2, <1>4, <1>7, <1>8 DEF TypeOK, Restart, simulator
<1> QED
  BY <1>6, <1>9 DEF Base

LEMMA NewRequestFacts ==
  ASSUME NEW t \in Seq(Reading), t # <<>>, Range(t) \subseteq produced
  PROVE  /\ NewRequest(t) \in Request /\ RequestOK(NewRequest(t))
         /\ NewRequest(t).batch = t /\ NewRequest(t).at = "arriving"
         /\ NewRequest(t).health = <<>>
<1>1. /\ "arriving" \in Places /\ Nobody \in Process \cup {Nobody} /\ 1 \in Nat /\ 0 \in Nat
      /\ <<>> \in Seq(Nat \X Nat) /\ Len(<<>>) = 0
  BY DEF Places, Working
<1>2. NewRequest(t) \in Request
  BY <1>1, NewRequestIs, RecType, Zenon
<1>3. /\ NewRequest(t).batch = t /\ NewRequest(t).at = "arriving" /\ NewRequest(t).n = 1
      /\ NewRequest(t).health = <<>>
  BY NewRequestIs, RecFields
<1>4. 1 \in 1..Len(t)
  BY EmptySeq
<1>5. RequestOK(NewRequest(t))
  BY <1>1, <1>3, <1>4 DEF RequestOK
<1> QED
  BY <1>2, <1>3, <1>5

\* Attempt b fails: it is sent again, or given up.
Resent(b) ==
  /\ posts' \in Seq(Post) /\ Len(posts') = Len(posts)
  /\ posts'[b].batch = posts[b].batch /\ posts'[b].outcome = posts[b].outcome
  /\ posts'[b].request = Len(requests) + 1
  /\ \A c \in 1..Len(posts) : c # b => posts'[c] = posts[c]
  /\ requests' = Append(requests, NewRequest(posts[b].batch))

GivenUp(b) ==
  /\ posts' \in Seq(Post) /\ Len(posts') = Len(posts)
  /\ posts'[b].batch = posts[b].batch /\ posts'[b].outcome = "failed"
  /\ posts'[b].request = posts[b].request
  /\ \A c \in 1..Len(posts) : c # b => posts'[c] = posts[c]
  /\ requests' = requests

LEMMA AttemptFailsEffect ==
  ASSUME TypeOK, NEW b \in DOMAIN posts, AttemptFails(b)
  PROVE  Resent(b) \/ GivenUp(b)
<1>1. b \in 1..Len(posts) /\ posts[b] \in Post /\ posts \in Seq(Post) /\ Len(requests) \in Nat
  BY Posts, Requests
<1>2. ASSUME posts[b].attempt < MaxRetries,
             requests' = Append(requests, NewRequest(posts[b].batch)),
             posts' = [posts EXCEPT ![b].attempt = @ + 1, ![b].request = Len(requests) + 1]
      PROVE  Resent(b)
  <2> DEFINE n == posts[b].attempt + 1
             k == Len(requests) + 1
             u == Again(posts[b], n, k)
  <2>1. n \in 1..MaxRetries /\ k \in Nat \ {0}
    BY <1>1, <1>2, PostFields, IngestAssumption, SMTT(30)
  <2>2. posts' = [posts EXCEPT ![b] = u]
    BY <1>1, <1>2, Zenon DEF Post, Again
  <2> HIDE DEF n, k
  <2>3. /\ u \in Post /\ u.batch = posts[b].batch /\ u.request = k
        /\ u.outcome = posts[b].outcome
    BY <1>1, <2>1, SetAttempt
  <2> HIDE DEF u
  <2>4. /\ posts' \in Seq(Post) /\ Len(posts') = Len(posts) /\ posts'[b] = u
        /\ \A c \in 1..Len(posts) : c # b => posts'[c] = posts[c]
    BY <1>1, <2>2, <2>3, ExceptSeq
  <2> QED
    BY <1>2, <2>3, <2>4 DEF Resent, k
<1>3. ASSUME GiveUp(b), requests' = requests
      PROVE  GivenUp(b)
  <2> DEFINE u == [posts[b] EXCEPT !.outcome = "failed"]
  <2>1. posts' = [posts EXCEPT ![b] = u]
    BY <1>1, <1>3 DEF GiveUp
  <2>2. /\ u \in Post /\ u.batch = posts[b].batch /\ u.request = posts[b].request
        /\ u.outcome = "failed"
    BY <1>1, SetOutcome, Zenon
  <2> HIDE DEF u
  <2>3. /\ posts' \in Seq(Post) /\ Len(posts') = Len(posts) /\ posts'[b] = u
        /\ \A c \in 1..Len(posts) : c # b => posts'[c] = posts[c]
    BY <1>1, <2>1, <2>2, ExceptSeq
  <2> QED
    BY <1>3, <2>2, <2>3 DEF GivenUp
<1>4. CASE /\ posts[b].attempt < MaxRetries
           /\ requests' = Append(requests, NewRequest(posts[b].batch))
           /\ posts' = [posts EXCEPT ![b].attempt = @ + 1, ![b].request = Len(requests) + 1]
  BY <1>2, <1>4
<1>5. CASE GiveUp(b) /\ UNCHANGED requests
  BY <1>3, <1>5
<1> QED
  BY <1>4, <1>5 DEF AttemptFails

\* A batch of a post.
LEMMA BatchFacts ==
  ASSUME Base, NEW b \in DOMAIN posts
  PROVE  /\ b \in 1..Len(posts)
         /\ posts[b].batch \in Seq(Reading) /\ posts[b].batch # <<>>
         /\ Range(posts[b].batch) \subseteq Range(Pending)
         /\ Range(posts[b].batch) \subseteq produced
<1>1. TypeOK /\ PostsOK /\ Ledger
  BY DEF Base
<1>2. b \in 1..Len(posts) /\ posts[b] \in Post
  BY <1>1, Posts
<1> DEFINE seqs == [c \in DOMAIN posts |-> posts[c].batch]
<1>3. seqs[b] = posts[b].batch
  OBVIOUS
<1>4. seqs \in Seq(Seq(Reading)) /\ Len(seqs) = Len(posts)
  BY <1>1, BatchedType
<1>5. Unsent = FlattenSeq(seqs)
  BY DEF Unsent
<1> HIDE DEF seqs
<1>6. Range(posts[b].batch) \subseteq Range(Unsent)
  BY <1>2, <1>3, <1>4, <1>5, FlattenRange
<1>7. Range(Unsent) \subseteq Range(Pending)
  BY <1>1, BatchedType
<1> QED
  BY <1>1, <1>2, <1>6, <1>7, PostFields DEF PostsOK, Ledger

LEMMA AttemptFailsBase ==
  ASSUME Base, NEW b \in DOMAIN posts, AttemptFails(b)
  PROVE  Base'
<1>1. TypeOK /\ RequestsOK /\ PostsOK
  BY DEF Base
<1>2. /\ b \in 1..Len(posts) /\ Len(requests) \in Nat /\ requests \in Seq(Request)
      /\ \A x \in 1..Len(requests) : RequestOK(requests[x])
  BY <1>1, Posts, Requests DEF RequestsOK
<1>3. UNCHANGED <<place, buffer, produced, clock, dropped, eventsSent>>
  BY DEF AttemptFails
<1>4. /\ requests' \in Seq(Request) /\ posts' \in Seq(Post)
      /\ RequestsOK' /\ PostsOK' /\ PlaceOK' /\ Ledger'
  <2>1. CASE Resent(b)
    <3> DEFINE r == NewRequest(posts[b].batch)
    <3>1. r \in Request /\ RequestOK(r) /\ r.batch = posts[b].batch
      BY BatchFacts, NewRequestFacts
    <3>2. requests' = Append(requests, r)
      BY <2>1 DEF Resent
    <3> HIDE DEF r
    <3>3. /\ requests' \in Seq(Request) /\ Len(requests') = Len(requests) + 1
          /\ requests'[Len(requests) + 1] = r
          /\ \A x \in 1..Len(requests) : requests'[x] = requests[x]
      BY <1>2, <3>1, <3>2, AppendProperties
    <3>4. /\ Len(requests) <= Len(requests')
          /\ Len(requests) + 1 \in 1..Len(requests')
          /\ \A x \in 1..Len(requests') : RequestOK(requests'[x])
      BY <1>2, <3>1, <3>3
    <3>5. \A c \in 1..Len(posts) :
            /\ posts'[c].batch = posts[c].batch
            /\ \/ posts'[c].request = posts[c].request
               \/ /\ posts'[c].request \in 1..Len(requests')
                  /\ requests'[posts'[c].request].batch = posts[c].batch
      BY <2>1, <3>1, <3>3, <3>4 DEF Resent
    <3>6. posts' \in Seq(Post) /\ Len(posts') = Len(posts)
      BY <2>1 DEF Resent
    <3>7. RequestsOK' /\ PostsOK' /\ PlaceOK' /\ Ledger'
      BY <1>3, <3>3, <3>4, <3>5, <3>6, RequestsMoveOn, Zenon
    <3> QED
      BY <3>3, <3>6, <3>7
  <2>2. CASE GivenUp(b)
    <3>1. requests' = requests /\ posts' \in Seq(Post) /\ Len(posts') = Len(posts)
      BY <2>2 DEF GivenUp
    <3>2. \A c \in 1..Len(posts) : posts'[c].batch = posts[c].batch
                                   /\ posts'[c].request = posts[c].request
      BY <2>2 DEF GivenUp
    <3>3. Len(requests) <= Len(requests')
      BY <1>2, <3>1
    <3>4. RequestsOK' /\ PostsOK' /\ PlaceOK' /\ Ledger'
      BY <1>2, <1>3, <3>1, <3>2, <3>3, RequestsMoveOn
    <3> QED
      BY <1>2, <3>1, <3>4
  <2> QED
    BY <1>1, <2>1, <2>2, AttemptFailsEffect
<1>5. timeouts' \in 0..MaxTimeouts
  BY <1>1, IngestAssumption, SMTT(30) DEF AttemptFails, TypeOK
<1>6. TypeOK'
  BY <1>1, <1>4, <1>5, Zenon DEF TypeOK, AttemptFails
<1> QED
  BY <1>4, <1>6 DEF Base

-----------------------------------------------------------------------------
(* The simulator's steps.                                                  *)

LEMMA SendEffect ==
  ASSUME TypeOK, NEW batches \in Seq(Seq(Reading)), Send(batches),
         \A b \in 1..Len(batches) : batches[b] # <<>> /\ Range(batches[b]) \subseteq produced'
  PROVE  /\ posts' \in Seq(Post) /\ Len(posts') = Len(batches)
         /\ \A b \in 1..Len(batches) :
              /\ posts'[b].batch = batches[b] /\ posts'[b].outcome = "out"
              /\ posts'[b].request = Len(requests) + b
         /\ Unsent' = FlattenSeq(batches)
         /\ requests' \in Seq(Request) /\ Len(requests') = Len(requests) + Len(batches)
         /\ \A x \in 1..Len(requests) : requests'[x] = requests[x]
         /\ \A b \in 1..Len(batches) : requests'[Len(requests) + b] = NewRequest(batches[b])
<1> DEFINE n == Len(batches)
           k == Len(requests)
           new == [b \in DOMAIN batches |-> NewRequest(batches[b])]
<1>1. /\ n \in Nat /\ DOMAIN batches = 1..n /\ \A b \in 1..n : batches[b] \in Seq(Reading)
      /\ k \in Nat /\ requests \in Seq(Request)
  BY LenProperties, ElementOfSeq, Requests
<1>2. /\ posts' = [b \in DOMAIN batches |->
                     [batch |-> batches[b], attempt |-> 1, outcome |-> "out", request |-> k + b]]
      /\ requests' = requests \o new
  BY DEF Send
<1> HIDE DEF n, k
<1>3. \A b \in 1..n : /\ posts'[b] \in Post
                      /\ posts'[b].batch = batches[b] /\ posts'[b].outcome = "out"
                      /\ posts'[b].request = k + b
  <2> TAKE b \in 1..n
  <2>1. posts'[b] = [batch |-> batches[b], attempt |-> 1, outcome |-> "out", request |-> k + b]
    BY <1>1, <1>2
  <2>2. k + b \in Nat \ {0} /\ 1 \in 1..MaxRetries
    BY <1>1, IngestAssumption
  <2> QED
    BY <1>1, <2>1, <2>2 DEF Post
<1>4. posts' \in [1..n -> Post]
  BY <1>1, <1>2, <1>3
<1>5. posts' \in Seq(Post) /\ Len(posts') = n
  BY <1>1, <1>4, FunctionIsSeq, Zenon
<1>6. Unsent' = FlattenSeq(batches)
  <2>1. DOMAIN posts' = 1..n
    BY <1>4
  <2>2. [b \in DOMAIN posts' |-> posts'[b].batch] = [b \in 1..n |-> batches[b]]
    BY <1>3, <2>1
  <2>3. [b \in 1..n |-> batches[b]] = batches
    <3>1. batches \in [1..n -> Seq(Reading)]
      BY LenProperties DEF n
    <3> QED
      BY <3>1
  <2>4. Unsent' = FlattenSeq([b \in DOMAIN posts' |-> posts'[b].batch])
    BY DEF Unsent
  <2> QED
    BY <2>2, <2>3, <2>4, Zenon
<1>7. new \in Seq(Request) /\ Len(new) = n
  <2>1. \A b \in 1..n : NewRequest(batches[b]) \in Request
    <3> TAKE b \in 1..n
    <3>1. "arriving" \in Places /\ <<>> \in Seq(Nat \X Nat)
      BY DEF Places, Working
    <3> QED
      BY <1>1, <3>1, NewRequestIs, RecType, Zenon
  <2>2. new \in [1..n -> Request]
    BY <1>1, <2>1
  <2> HIDE DEF new
  <2> QED
    BY <1>1, <2>2, SeqDef, LenProperties
<1>8. \A b \in 1..n : new[b] = NewRequest(batches[b])
  BY <1>1
<1> HIDE DEF new
<1>9. /\ requests' \in Seq(Request) /\ Len(requests') = k + n
      /\ \A i \in 1..k + n : requests'[i] = IF i <= k THEN requests[i] ELSE new[i - k]
  BY <1>1, <1>2, <1>7, ConcatProperties DEF k
<1>10. \A x \in 1..k : requests'[x] = requests[x]
  BY <1>1, <1>9
<1>11. \A b \in 1..n : requests'[k + b] = NewRequest(batches[b])
  <2> TAKE b \in 1..n
  <2>1. k + b \in 1..k + n /\ ~ (k + b <= k) /\ (k + b) - k = b
    BY <1>1
  <2> QED
    BY <1>8, <1>9, <2>1
<1> QED
  BY <1>3, <1>5, <1>6, <1>9, <1>10, <1>11, Zenon DEF n, k

\* New batches sent keep the shape of requests and posts.
LEMMA SendKeeps ==
  ASSUME Base, NEW batches \in Seq(Seq(Reading)), Send(batches),
         \A b \in 1..Len(batches) : /\ batches[b] # <<>> /\ Len(batches[b]) <= BatchSize
                                    /\ Range(batches[b]) \subseteq produced',
         produced \subseteq produced'
  PROVE  RequestsOK' /\ PostsOK'
<1>1. TypeOK /\ RequestsOK /\ Len(requests) \in Nat /\ Len(batches) \in Nat
  BY Requests, LenProperties DEF Base
<1>2. /\ posts' \in Seq(Post) /\ Len(posts') = Len(batches)
      /\ \A b \in 1..Len(batches) :
           /\ posts'[b].batch = batches[b] /\ posts'[b].outcome = "out"
           /\ posts'[b].request = Len(requests) + b
      /\ requests' \in Seq(Request) /\ Len(requests') = Len(requests) + Len(batches)
      /\ \A x \in 1..Len(requests) : requests'[x] = requests[x]
      /\ \A b \in 1..Len(batches) : requests'[Len(requests) + b] = NewRequest(batches[b])
  BY <1>1, SendEffect, Zenon
<1> DEFINE n == Len(batches)
           k == Len(requests)
<1>3. \A b \in 1..n : batches[b] \in Seq(Reading)
  BY ElementOfSeq
<1>4. \A x \in 1..k : /\ Range(requests'[x].batch) \subseteq produced'
                      /\ requests'[x].at \notin {"arriving", "gone"} =>
                            requests'[x].process \in Process
                      /\ requests'[x].at \in {"arriving", "filter", "read", "write", "return"} =>
                            requests'[x].n \in 1..Len(requests'[x].batch)
                      /\ \A i \in 1..Len(requests'[x].health) :
                            requests'[x].health[i][1] \in 1..Len(requests'[x].batch)
  BY <1>1, <1>2, Zenon DEF RequestsOK, RequestOK
<1>5. \A b \in 1..n :
         LET r == NewRequest(batches[b]) IN
         /\ r.batch = batches[b] /\ r.at = "arriving" /\ r.n = 1 /\ r.health = <<>>
         /\ Len(batches[b]) >= 1 /\ Len(batches[b]) \in Nat
  <2> TAKE b \in 1..n
  <2>1. batches[b] \in Seq(Reading) /\ batches[b] # <<>>
    BY <1>3
  <2>2. Len(batches[b]) >= 1 /\ Len(batches[b]) \in Nat
    BY <2>1, EmptySeq, LenProperties
  <2> QED
    BY <2>2, NewRequestIs, RecFields
<1>6. \A b \in 1..n :
         LET r == requests'[k + b] IN
         /\ Range(r.batch) \subseteq produced'
         /\ r.at = "arriving" /\ r.n \in 1..Len(r.batch)
         /\ Len(r.health) = 0 /\ r.batch = batches[b]
  <2> TAKE b \in 1..n
  <2>1. requests'[k + b] = NewRequest(batches[b])
    BY <1>2
  <2> QED
    BY <1>5, <2>1, EmptySeq
<1>7. \A x \in 1..k + n : x \in 1..k \/ \E b \in 1..n : x = k + b
  <2> TAKE x \in 1..k + n
  <2>1. x \in 1..k \/ (x - k \in 1..n /\ x = k + (x - k))
    BY <1>1
  <2> QED
    BY <2>1
<1>8. RequestsOK'
  <2> SUFFICES ASSUME NEW x \in 1..k + n
               PROVE  /\ Range(requests'[x].batch) \subseteq produced'
                      /\ requests'[x].at \notin {"arriving", "gone"} =>
                            requests'[x].process \in Process
                      /\ requests'[x].at \in {"arriving", "filter", "read", "write", "return"} =>
                            requests'[x].n \in 1..Len(requests'[x].batch)
                      /\ \A i \in 1..Len(requests'[x].health) :
                            requests'[x].health[i][1] \in 1..Len(requests'[x].batch)
    BY <1>2 DEF RequestsOK, RequestOK
  <2>1. CASE x \in 1..k
    BY <1>4, <2>1
  <2>2. ASSUME NEW b \in 1..n, x = k + b
        PROVE  /\ Range(requests'[x].batch) \subseteq produced'
               /\ requests'[x].at = "arriving"
               /\ requests'[x].n \in 1..Len(requests'[x].batch)
               /\ Len(requests'[x].health) = 0
    BY <1>6, <2>2
  <2>3. \A i : i \notin 1..0
    OBVIOUS
  <2> QED
    BY <1>7, <2>1, <2>2, <2>3, Zenon
<1>9. PostsOK'
  <2> SUFFICES ASSUME NEW b \in 1..n
               PROVE  /\ posts'[b].batch # <<>> /\ Len(posts'[b].batch) <= BatchSize
                      /\ posts'[b].request \in 1..k + n
                      /\ requests'[posts'[b].request].at # "gone" =>
                            requests'[posts'[b].request].batch = posts'[b].batch
    BY <1>2 DEF PostsOK, Bound
  <2>1. posts'[b].batch = batches[b] /\ posts'[b].request = k + b
    BY <1>2
  <2>2. k + b \in 1..k + n
    BY <1>1
  <2> QED
    BY <1>6, <2>1, <2>2
<1> QED
  BY <1>8, <1>9

\* Appending readings to the buffer: the oldest leave it for good.
LEMMA BufferedFacts ==
  ASSUME buffer \in Seq(Reading), NEW more \in Seq(Reading), Buffered(more),
         IsInjective(buffer \o more)
  PROVE  /\ buffer' \in Seq(Reading) /\ Len(buffer') <= BufferMax
         /\ IsInjective(buffer')
         /\ \E gone : /\ dropped' = dropped \cup gone /\ IsFiniteSet(gone)
                      /\ gone \cup Range(buffer') = Range(buffer) \cup Range(more)
                      /\ gone \cap Range(buffer') = {}
                      /\ Cardinality(gone) + Len(buffer') = Len(buffer) + Len(more)
         /\ Len(buffer) + Len(more) <= BufferMax => dropped' = dropped
<1> DEFINE all == buffer \o more
           n == Len(all)
           over == IF n > BufferMax THEN n - BufferMax ELSE 0
           lost == SubSeq(all, 1, over)
           kept == SubSeq(all, over + 1, n)
<1>1. /\ all \in Seq(Reading) /\ n = Len(buffer) + Len(more) /\ n \in Nat
      /\ Range(all) = Range(buffer) \cup Range(more)
      /\ Len(buffer) \in Nat /\ Len(more) \in Nat
  BY ConcatProperties, RangeConcatenation, LenProperties
<1>2. over \in 0..n /\ n - over <= BufferMax /\ (n <= BufferMax => over = 0)
  BY <1>1, IngestAssumption
<1>3. buffer' = kept /\ dropped' = dropped \cup {all[k] : k \in 1..over}
  BY DEF Buffered
<1>4. IsInjective(all) /\ \A i \in 1..n : all[i] \in Reading
  BY <1>1, ElementOfSeq
<1> HIDE DEF all, n, over
<1>5. lost \in Seq(Reading) /\ Len(lost) = over /\ \A i \in 1..over : lost[i] = all[i]
  <2>1. 1 \in Int /\ over \in Int /\ \A i \in 1..over : all[i] \in Reading
    BY <1>1, <1>2, <1>4
  <2>2. /\ SubSeq(all, 1, over) \in Seq(Reading)
        /\ Len(SubSeq(all, 1, over)) = IF 1 <= over THEN over - 1 + 1 ELSE 0
        /\ \A i \in 1..over - 1 + 1 : SubSeq(all, 1, over)[i] = all[1 + i - 1]
    BY <2>1, SubSeqProperties
  <2>3. over - 1 + 1 = over /\ \A i \in 1..over : 1 + i - 1 = i
    BY <1>2
  <2> QED
    BY <1>2, <2>2, <2>3
<1>6. kept \in Seq(Reading) /\ Len(kept) = n - over
  <2>1. over + 1 \in Int /\ n \in Int /\ \A i \in over + 1..n : all[i] \in Reading
    BY <1>1, <1>2, <1>4
  <2>2. /\ SubSeq(all, over + 1, n) \in Seq(Reading)
        /\ Len(SubSeq(all, over + 1, n)) = IF over + 1 <= n THEN n - (over + 1) + 1 ELSE 0
    BY <2>1, SubSeqProperties
  <2> QED
    BY <1>1, <1>2, <2>2
<1>7. lost \o kept = all
  <2>1. 1 \in 1..n + 1 /\ over \in 1 - 1..n /\ n \in over..n
    BY <1>1, <1>2
  <2>2. SubSeq(all, 1, over) \o SubSeq(all, over + 1, n) = SubSeq(all, 1, n)
    BY <1>1, <2>1, ConcatAdjacentSubSeq, Zenon DEF n
  <2>3. SubSeq(all, 1, n) = all
    BY <1>1, SubSeqFull DEF n
  <2> QED
    BY <2>2, <2>3, Zenon
<1>8. Range(lost) = {all[k] : k \in 1..over}
  <2> HIDE DEF lost
  <2>1. DOMAIN lost = 1..over
    BY <1>5, LenProperties
  <2> QED
    BY <1>5, <2>1, Zenon DEF Range
<1> HIDE DEF lost, kept
<1>9. /\ IsInjective(lost) /\ IsInjective(kept) /\ Range(lost) \cap Range(kept) = {}
      /\ Range(all) = Range(lost) \cup Range(kept)
  <2>1. IsInjective(lost \o kept)
    BY <1>4, <1>7, Zenon
  <2>2. IsInjective(lost) /\ IsInjective(kept) /\ Range(lost) \cap Range(kept) = {}
    BY <1>5, <1>6, <2>1, InjectiveConcat, Zenon
  <2>3. Range(lost \o kept) = Range(lost) \cup Range(kept)
    BY <1>5, <1>6, RangeConcatenation, SMT
  <2> QED
    BY <1>7, <2>2, <2>3, Zenon
<1>10. IsFiniteSet(Range(lost)) /\ Cardinality(Range(lost)) = over
  BY <1>5, <1>9, RangeCardinality
<1>11. over + (n - over) = n
  BY <1>1, <1>2
<1>12. Len(buffer) + Len(more) <= BufferMax => dropped' = dropped
  <2>1. ASSUME Len(buffer) + Len(more) <= BufferMax PROVE {all[k] : k \in 1..over} = {}
    BY <1>1, <1>2, <2>1
  <2> QED
    BY <1>3, <2>1, Zenon
<1>13. buffer' = kept /\ dropped' = dropped \cup Range(lost)
  BY <1>3, <1>8
<1>14. Len(kept) <= BufferMax
  BY <1>2, <1>6
<1>15. Cardinality(Range(lost)) + Len(kept) = Len(buffer) + Len(more)
  BY <1>1, <1>6, <1>10, <1>11
<1>16. Range(lost) \cup Range(kept) = Range(buffer) \cup Range(more)
  BY <1>1, <1>9
<1>17. \E gone : /\ dropped' = dropped \cup gone /\ IsFiniteSet(gone)
                /\ gone \cup Range(buffer') = Range(buffer) \cup Range(more)
                /\ gone \cap Range(buffer') = {}
                /\ Cardinality(gone) + Len(buffer') = Len(buffer) + Len(more)
  BY <1>9, <1>10, <1>13, <1>15, <1>16, Zenon
<1> QED
  BY <1>6, <1>9, <1>12, <1>13, <1>14, <1>17, Zenon

\* Nothing is pending of no posts; of one, its batch.
LEMMA NoPosts ==
  ASSUME TypeOK, posts = <<>>
  PROVE  Unsent = <<>> /\ Pending = buffer
<1>1. [b \in DOMAIN posts |-> posts[b].batch] = <<>>
  OBVIOUS
<1>2. Unsent = <<>>
  BY <1>1, FlattenEmpty, Zenon DEF Unsent
<1>3. buffer \in Seq(Reading)
  BY DEF TypeOK
<1>4. <<>> \o buffer = buffer
  BY <1>3, ConcatEmptySeq
<1> QED
  BY <1>2, <1>4, Zenon DEF Pending

LEMMA NoPostsAfter ==
  ASSUME TypeOK, buffer' \in Seq(Reading), posts' = <<>>
  PROVE  Pending' = buffer'
<1>1. [b \in DOMAIN posts' |-> posts'[b].batch] = <<>>
  OBVIOUS
<1>2. Unsent' = <<>>
  BY <1>1, FlattenEmpty, Zenon DEF Unsent
<1>4. <<>> \o buffer' = buffer'
  BY ConcatEmptySeq
<1> QED
  BY <1>2, <1>4, Zenon DEF Pending

LEMMA OnePost ==
  ASSUME TypeOK, Len(posts) <= 1, posts # <<>>
  PROVE  /\ Len(posts) = 1 /\ 1 \in DOMAIN posts
         /\ Unsent = posts[1].batch /\ Pending = posts[1].batch \o buffer
<1>1. Len(posts) = 1 /\ DOMAIN posts = 1..1 /\ posts[1] \in Post
  BY Posts, EmptySeq
<1>2. posts[1].batch \in Seq(Reading)
  BY <1>1, PostFields
<1>3. [b \in DOMAIN posts |-> posts[b].batch] = <<posts[1].batch>>
  BY <1>1
<1>4. Unsent = posts[1].batch
  BY <1>2, <1>3, FlattenOne, Zenon DEF Unsent
<1> QED
  BY <1>1, <1>4 DEF Pending

\* The readings of a tick.
Made ==
  IF clock = MaxTicks THEN {} ELSE {[loco |-> l, tick |-> clock + 1] : l \in fleet}

LEMMA MadeFacts ==
  ASSUME Base
  PROVE  /\ Made \subseteq Reading /\ IsFiniteSet(Made)
         /\ \A r \in Made : r.tick = clock + 1 /\ clock # MaxTicks
         /\ Made \cap produced = {}
<1>1. TypeOK /\ PlaceOK
  BY DEF Base
<1>2. clock \in 0..MaxTicks /\ MaxTicks \in Nat /\ fleet \subseteq Locomotive
  BY <1>1, IngestAssumption, SMTT(30) DEF TypeOK
<1>3. Made \subseteq Reading
  BY <1>2 DEF Made, Reading
<1>4. \A r \in Made : r.tick = clock + 1 /\ clock # MaxTicks
  BY DEF Made
<1>5. Made \cap produced = {}
  BY <1>1, <1>2, <1>4 DEF PlaceOK
<1>6. IsFiniteSet(Made)
  <2>1. CASE clock = MaxTicks
    BY <2>1, FS_EmptySet DEF Made
  <2>2. CASE clock # MaxTicks
    <3> DEFINE f == [l \in fleet |-> [loco |-> l, tick |-> clock + 1]]
    <3>1. f \in Surjection(fleet, Made)
      BY <2>2 DEF Made, Surjection
    <3>2. IsFiniteSet(fleet)
      BY <1>2, IngestAssumption, FS_Subset
    <3> QED
      BY <3>1, <3>2, FS_Surjection
  <2> QED
    BY <2>1, <2>2
<1> QED
  BY <1>3, <1>4, <1>5, <1>6

LEMMA TickEffect ==
  ASSUME Base, Tick
  PROVE  \E made, readings :
            /\ made = Made
            /\ made \subseteq Reading /\ IsFiniteSet(made) /\ made \cap produced = {}
            /\ produced' = produced \cup made
            /\ readings \in Seq(Reading) /\ Range(readings) = made
            /\ IsInjective(readings) /\ Len(readings) = Cardinality(made)
            /\ Batches(readings) \in Seq(Seq(Reading))
            /\ \A b \in 1..Len(Batches(readings)) :
                  /\ Batches(readings)[b] # <<>> /\ Len(Batches(readings)[b]) <= BatchSize
                  /\ Range(Batches(readings)[b]) \subseteq produced'
            /\ Send(Batches(readings))
            /\ Unsent' = readings /\ posts' \in Seq(Post) /\ requests' \in Seq(Request)
<1> DEFINE readings == SetToSeq(Made)
<1>1. TypeOK /\ produced' = produced \cup Made /\ Send(Batches(readings))
  BY DEF Tick, Made, Base
<1>2. Made \subseteq Reading /\ IsFiniteSet(Made) /\ Made \cap produced = {}
  BY MadeFacts
<1>3. /\ readings \in Seq(Made) /\ Len(readings) = Cardinality(Made)
      /\ Range(readings) = Made /\ IsInjective(readings)
  BY <1>2, SetToSeqOf
<1> HIDE DEF readings
<1>4. readings \in Seq(Reading)
  BY <1>2, <1>3, SeqMonotonic
<1> DEFINE batches == Batches(readings)
<1>5. /\ batches \in Seq(Seq(Reading))
      /\ \A b \in 1..Len(batches) :
            /\ batches[b] # <<>> /\ Len(batches[b]) <= BatchSize
            /\ Range(batches[b]) \subseteq Range(readings)
      /\ FlattenSeq(batches) = readings
  BY <1>4, BatchesOf, Zenon
<1>6. Send(batches)
  BY <1>1
<1> HIDE DEF batches
<1>7. \A b \in 1..Len(batches) : batches[b] # <<>> /\ Range(batches[b]) \subseteq produced'
  BY <1>1, <1>3, <1>5
<1>8. Unsent' = readings /\ posts' \in Seq(Post) /\ requests' \in Seq(Request)
  <2>1. Unsent' = FlattenSeq(batches) /\ posts' \in Seq(Post) /\ requests' \in Seq(Request)
    BY <1>1, <1>5, <1>6, <1>7, SendEffect
  <2> QED
    BY <1>5, <2>1, Zenon
<1> QED
  BY <1>1, <1>2, <1>3, <1>4, <1>5, <1>6, <1>7, <1>8 DEF batches

LEMMA TickBase ==
  ASSUME Base, Tick
  PROVE  Base'
<1>1. TypeOK /\ PlaceOK /\ Ledger /\ posts = <<>> /\ buffer \in Seq(Reading)
  BY DEF Base, Tick, PlaceOK, TypeOK
<1>2. PICK made, readings :
            /\ made = Made
            /\ made \subseteq Reading /\ IsFiniteSet(made) /\ made \cap produced = {}
            /\ produced' = produced \cup made
            /\ readings \in Seq(Reading) /\ Range(readings) = made
            /\ IsInjective(readings) /\ Len(readings) = Cardinality(made)
            /\ Batches(readings) \in Seq(Seq(Reading))
            /\ \A b \in 1..Len(Batches(readings)) :
                  /\ Batches(readings)[b] # <<>> /\ Len(Batches(readings)[b]) <= BatchSize
                  /\ Range(Batches(readings)[b]) \subseteq produced'
            /\ Send(Batches(readings))
            /\ Unsent' = readings /\ posts' \in Seq(Post) /\ requests' \in Seq(Request)
  BY TickEffect
<1>3. /\ buffer' = buffer /\ dropped' = dropped /\ eventsSent' = eventsSent /\ place' = "gather"
      /\ clock' = (IF clock = MaxTicks THEN clock ELSE clock + 1)
      /\ fleet' \subseteq fleet
  BY DEF Tick
<1>4. RequestsOK' /\ PostsOK'
  BY <1>2, SendKeeps
<1>5. clock \in 0..MaxTicks /\ MaxTicks \in Nat /\ clock' \in 0..MaxTicks /\ clock <= clock'
  BY <1>1, <1>3, IngestAssumption, SMTT(30) DEF TypeOK
<1>6. PlaceOK'
  <2>1. \A r \in produced' : r.tick <= clock'
    <3>1. \A r \in made : r.tick = clock + 1 /\ clock # MaxTicks
      BY <1>2, MadeFacts
    <3>2. \A r \in produced : r.tick <= clock /\ r.tick \in Nat
      BY <1>1 DEF PlaceOK, TypeOK, Reading
    <3> QED
      BY <1>2, <1>3, <1>5, <3>1, <3>2
  <2>2. IsFiniteSet(produced')
    BY <1>1, <1>2, FS_Union, Zenon DEF PlaceOK
  <2> QED
    BY <1>3, <2>1, <2>2 DEF PlaceOK
<1>7. Ledger'
  <2>1. Pending = buffer
    BY <1>1, NoPosts
  <2>2. Pending' = readings \o buffer
    BY <1>2, <1>3 DEF Pending
  <2>3. /\ Len(readings \o buffer) = Len(readings) + Len(buffer)
        /\ Range(readings \o buffer) = Range(readings) \cup Range(buffer)
    BY <1>1, <1>2, ConcatProperties, RangeConcatenation
  <2>4. /\ IsInjective(buffer) /\ Range(buffer) \subseteq produced
        /\ Range(buffer) \cap dropped = {}
        /\ eventsSent + Len(buffer) + Cardinality(dropped) = Cardinality(produced)
    BY <1>1, <2>1 DEF Ledger
  <2>5. IsInjective(readings \o buffer)
    <3>1. Range(readings) \cap Range(buffer) = {}
      BY <1>2, <2>4
    <3> QED
      BY <1>1, <1>2, <2>4, <3>1, InjectiveConcat
  <2>6. /\ Cardinality(produced') = Cardinality(produced) + Len(readings)
    <3>1. IsFiniteSet(produced) /\ produced \cap made = {}
      BY <1>1, <1>2 DEF PlaceOK
    <3>2. Cardinality(produced \cup made) =
              Cardinality(produced) + Cardinality(made) - Cardinality({})
      BY <1>2, <3>1, FS_Union
    <3>3. Cardinality({}) = 0 /\ Cardinality(produced) \in Nat /\ Cardinality(made) \in Nat
      BY <1>2, <3>1, FS_EmptySet, FS_CardinalityType
    <3> QED
      BY <1>2, <3>2, <3>3
  <2>7. /\ eventsSent \in Nat /\ Len(buffer) \in Nat /\ Len(readings) \in Nat
        /\ Cardinality(dropped) \in Nat /\ Cardinality(produced) \in Nat
    BY <1>1, <1>2, LenProperties, FS_Subset, FS_CardinalityType DEF TypeOK, PlaceOK
  <2>8. eventsSent + (Len(readings) + Len(buffer)) + Cardinality(dropped) = Cardinality(produced')
    BY <2>4, <2>6, <2>7
  <2>9. Range(readings \o buffer) \subseteq produced'
        /\ Range(readings \o buffer) \cap dropped = {}
    <3>1. dropped \subseteq produced
      BY <1>1 DEF TypeOK
    <3> QED
      BY <1>2, <2>3, <2>4, <3>1
  <2> QED
    BY <1>3, <2>2, <2>3, <2>5, <2>8, <2>9 DEF Ledger
<1>8. TypeOK'
  <2>1. produced' \subseteq Reading /\ dropped' \subseteq produced'
        /\ telemetry' \subseteq produced'
    BY <1>1, <1>2, Zenon DEF TypeOK, Tick
  <2> QED
    BY <1>1, <1>2, <1>3, <1>5, <2>1, Zenon DEF TypeOK, Tick, budgets
<1> QED
  BY <1>4, <1>6, <1>7, <1>8 DEF Base

\* The readings of the answered posts fall into those of the failed ones and of the others.
LEMMA ReadingsSplit ==
  ASSUME TypeOK, Answered
  PROVE  /\ ReadingsOf("ok") \in Seq(Reading) /\ ReadingsOf("failed") \in Seq(Reading)
         /\ Len(ReadingsOf("failed")) + Len(ReadingsOf("ok")) = Len(Unsent)
         /\ Range(ReadingsOf("failed")) \subseteq Range(Unsent)
         /\ IsInjective(Unsent) => IsInjective(ReadingsOf("failed"))
         /\ \A x : x \in Range(ReadingsOf("failed")) <=>
                   \E b \in 1..Len(posts) : posts[b].outcome = "failed"
                   /\ x \in Range(posts[b].batch)
<1> DEFINE n == Len(posts)
           seqs == [b \in DOMAIN posts |-> posts[b].batch]
           part == [b \in DOMAIN posts |->
                      IF posts[b].outcome = "failed" THEN posts[b].batch ELSE <<>>]
           rest == [b \in DOMAIN posts |-> IF posts[b].outcome = "ok" THEN posts[b].batch ELSE <<>>]
<1>1. /\ n \in Nat /\ DOMAIN posts = 1..n
      /\ \A b \in 1..n : posts[b].batch \in Seq(Reading)
                         /\ (posts[b].outcome = "ok" \/ posts[b].outcome = "failed")
  BY Posts, PostFields DEF Answered
<1>2. <<>> \in Seq(Reading) /\ Range(<<>>) = {}
  BY DEF Range
<1>3. /\ \A b \in 1..n : seqs[b] = posts[b].batch
      /\ \A b \in 1..n : part[b] = IF posts[b].outcome = "failed" THEN posts[b].batch ELSE <<>>
      /\ \A b \in 1..n : rest[b] = IF posts[b].outcome = "ok" THEN posts[b].batch ELSE <<>>
  BY <1>1
<1>4. seqs \in [1..n -> Seq(Reading)] /\ part \in [1..n -> Seq(Reading)]
      /\ rest \in [1..n -> Seq(Reading)]
  BY <1>1, <1>2
<1>5. /\ ReadingsOf("failed") = FlattenSeq(part) /\ ReadingsOf("ok") = FlattenSeq(rest)
      /\ Unsent = FlattenSeq(seqs)
  BY DEF ReadingsOf, Unsent
<1> HIDE DEF seqs, part, rest
<1>6. /\ seqs \in Seq(Seq(Reading)) /\ Len(seqs) = n
      /\ part \in Seq(Seq(Reading)) /\ Len(part) = n
      /\ rest \in Seq(Seq(Reading)) /\ Len(rest) = n
  BY <1>1, <1>4, FunctionIsSeq, Zenon
<1>7. \A b \in 1..Len(seqs) : \/ part[b] = seqs[b] /\ rest[b] = <<>>
                              \/ part[b] = <<>> /\ rest[b] = seqs[b]
  BY <1>1, <1>3, <1>6, Zenon
<1>8. /\ Len(FlattenSeq(part)) + Len(FlattenSeq(rest)) = Len(FlattenSeq(seqs))
      /\ Range(FlattenSeq(part)) \subseteq Range(FlattenSeq(seqs))
      /\ IsInjective(FlattenSeq(seqs)) => IsInjective(FlattenSeq(part))
  BY <1>6, <1>7, FlattenSplit
<1>9. FlattenSeq(part) \in Seq(Reading) /\ FlattenSeq(rest) \in Seq(Reading)
  BY <1>6, FlattenType
<1>10. \A x : x \in Range(FlattenSeq(part)) <=> \E b \in 1..n : x \in Range(part[b])
  <2> TAKE x
  <2> QED
    BY <1>6, FlattenRange
<1>11. \A x : (\E b \in 1..n : x \in Range(part[b])) <=>
              \E b \in 1..n : posts[b].outcome = "failed" /\ x \in Range(posts[b].batch)
  BY <1>2, <1>3
<1> QED
  BY <1>5, <1>8, <1>9, <1>10, <1>11, Zenon

LEMMA UnsentApart ==
  ASSUME TypeOK, Ledger
  PROVE  /\ IsInjective(Unsent) /\ IsInjective(buffer)
         /\ Range(Unsent) \cap Range(buffer) = {}
         /\ Range(Unsent) \cup Range(buffer) = Range(Pending)
         /\ Len(Unsent) + Len(buffer) = Len(Pending)
         /\ Len(Unsent) \in Nat /\ Len(buffer) \in Nat
<1>1. Unsent \in Seq(Reading) /\ buffer \in Seq(Reading) /\ IsInjective(Unsent \o buffer)
  BY BatchedType DEF TypeOK, Ledger, Pending
<1>2. IsInjective(Unsent) /\ IsInjective(buffer) /\ Range(Unsent) \cap Range(buffer) = {}
  BY <1>1, InjectiveConcat
<1> QED
  BY <1>1, <1>2, BatchedType, LenProperties

\* What the end of the gather does to the buffer.
LEMMA GatheredEffect ==
  ASSUME TypeOK, Ledger, Gathered
  PROVE  /\ buffer' \in Seq(Reading) /\ Len(buffer') <= BufferMax /\ IsInjective(buffer')
         /\ \E gone :
              /\ dropped' = dropped \cup gone /\ IsFiniteSet(gone)
              /\ gone \cup Range(buffer') = Range(buffer) \cup Range(ReadingsOf("failed"))
              /\ gone \cap Range(buffer') = {}
              /\ Cardinality(gone) + Len(buffer') = Len(buffer) + Len(ReadingsOf("failed"))
<1> DEFINE more == ReadingsOf("failed")
<1>1. Answered /\ Buffered(more)
  BY DEF Gathered
<1>2. /\ more \in Seq(Reading) /\ Range(more) \subseteq Range(Unsent)
      /\ IsInjective(Unsent) => IsInjective(more)
  BY <1>1, ReadingsSplit
<1> HIDE DEF more
<1>3. IsInjective(more) /\ IsInjective(buffer) /\ Range(buffer) \cap Range(more) = {}
  BY <1>2, UnsentApart
<1>4. buffer \in Seq(Reading)
  BY DEF TypeOK
<1>5. IsInjective(buffer \o more)
  BY <1>2, <1>3, <1>4, InjectiveConcat
<1> QED
  BY <1>1, <1>2, <1>4, <1>5, BufferedFacts, Zenon DEF more

LEMMA GatheredBase ==
  ASSUME Base, Gathered
  PROVE  Base'
<1>1. TypeOK /\ RequestsOK /\ PlaceOK /\ Ledger
  BY DEF Base
<1> DEFINE ok == ReadingsOf("ok")
           failed == ReadingsOf("failed")
<1>2. /\ Answered /\ eventsSent' = eventsSent + Len(ok) /\ posts' = <<>>
      /\ UNCHANGED <<fleet, clock, produced, processor, budgets>>
      /\ place' \in {"sleep", "flush"}
      /\ \/ retries' = retries
         \/ retries' = Smaller(3, (Len(buffer') \div BatchSize) + 1)
  BY DEF Gathered
<1>3. /\ ok \in Seq(Reading) /\ failed \in Seq(Reading)
      /\ Len(failed) + Len(ok) = Len(Unsent)
      /\ Range(failed) \subseteq Range(Unsent)
  BY <1>1, <1>2, ReadingsSplit
<1>4. /\ buffer' \in Seq(Reading) /\ Len(buffer') <= BufferMax /\ IsInjective(buffer')
      /\ \E gone :
           /\ dropped' = dropped \cup gone /\ IsFiniteSet(gone)
           /\ gone \cup Range(buffer') = Range(buffer) \cup Range(failed)
           /\ gone \cap Range(buffer') = {}
           /\ Cardinality(gone) + Len(buffer') = Len(buffer) + Len(failed)
  BY <1>1, GatheredEffect
<1> HIDE DEF ok, failed
<1>5. PICK gone :
        /\ dropped' = dropped \cup gone /\ IsFiniteSet(gone)
        /\ gone \cup Range(buffer') = Range(buffer) \cup Range(failed)
        /\ gone \cap Range(buffer') = {}
        /\ Cardinality(gone) + Len(buffer') = Len(buffer) + Len(failed)
  BY <1>4
<1>6. Pending' = buffer'
  BY <1>1, <1>2, <1>4, NoPostsAfter
<1>7. gone \cup Range(buffer') \subseteq Range(Pending)
  BY <1>1, <1>3, <1>5, UnsentApart
<1>8. /\ Range(Pending) \subseteq produced /\ Range(Pending) \cap dropped = {}
      /\ eventsSent + Len(Pending) + Cardinality(dropped) = Cardinality(produced)
  BY <1>1 DEF Ledger
<1>9. /\ dropped \subseteq produced /\ dropped' \subseteq produced
      /\ Range(buffer') \subseteq produced /\ Range(buffer') \cap dropped' = {}
  BY <1>1, <1>5, <1>7, <1>8 DEF TypeOK
<1>10. /\ Cardinality(dropped') = Cardinality(dropped) + Cardinality(gone)
       /\ Cardinality(dropped) \in Nat /\ Cardinality(gone) \in Nat
  <2>1. IsFiniteSet(dropped) /\ dropped \cap gone = {}
    BY <1>1, <1>7, <1>8, <1>9, FS_Subset DEF PlaceOK
  <2>2. Cardinality(dropped \cup gone) = Cardinality(dropped) + Cardinality(gone) - Cardinality({})
    BY <1>5, <2>1, FS_Union
  <2>3. Cardinality({}) = 0 /\ Cardinality(dropped) \in Nat /\ Cardinality(gone) \in Nat
    BY <1>5, <2>1, FS_EmptySet, FS_CardinalityType
  <2> QED
    BY <1>5, <2>2, <2>3
<1>11. /\ Len(Unsent) \in Nat /\ Len(buffer) \in Nat /\ Len(buffer') \in Nat
       /\ Len(ok) \in Nat /\ Len(failed) \in Nat /\ eventsSent \in Nat
       /\ Len(Pending) = Len(Unsent) + Len(buffer)
       /\ Cardinality(produced) \in Nat
  BY <1>1, <1>3, <1>4, UnsentApart, LenProperties, FS_CardinalityType, Zenon DEF TypeOK, PlaceOK
<1>12. eventsSent' + Len(buffer') + Cardinality(dropped') = Cardinality(produced)
  <2> DEFINE e == eventsSent
             f == Len(failed)
             o == Len(ok)
             u == Len(Unsent)
             b == Len(buffer)
             l == Len(buffer')
             d == Cardinality(dropped)
             g == Cardinality(gone)
             c == Cardinality(produced)
  <2>1. /\ e \in Nat /\ f \in Nat /\ o \in Nat /\ u \in Nat /\ b \in Nat /\ l \in Nat
        /\ d \in Nat /\ g \in Nat /\ c \in Nat
    BY <1>10, <1>11
  <2>2. f + o = u /\ g + l = b + f /\ e + (u + b) + d = c
    BY <1>3, <1>5, <1>8, <1>11, Zenon
  <2>3. eventsSent' = e + o /\ Cardinality(dropped') = d + g
    BY <1>2, <1>10, Zenon
  <2> HIDE DEF e, f, o, u, b, l, d, g, c
  <2>4. (e + o) + l + (d + g) = c
    BY <2>1, <2>2
  <2> QED
    BY <2>3, <2>4, Zenon DEF l, c
<1>13. Ledger'
  BY <1>2, <1>4, <1>6, <1>9, <1>12 DEF Ledger
<1>14. RequestsOK' /\ PostsOK' /\ PlaceOK'
  <2>1. requests' = requests /\ produced' = produced /\ clock' = clock
    BY <1>2 DEF processor
  <2>2. Len(posts') = 0 /\ \A b : b \notin 1..0
    BY <1>2
  <2>3. RequestsOK'
    BY <1>1, <2>1 DEF RequestsOK, RequestOK
  <2>4. PostsOK'
    BY <2>2 DEF PostsOK
  <2>5. PlaceOK'
    BY <1>1, <1>2, <2>1, <2>2 DEF PlaceOK
  <2> QED
    BY <2>3, <2>4, <2>5
<1>15. retries' \in 0..3
  <2>1. Len(buffer') \div BatchSize \in Nat
    BY <1>11, IngestAssumption, Division, Zenon
  <2> QED
    BY <1>1, <1>2, <2>1, SMTT(30) DEF Smaller, TypeOK
<1>16. eventsSent' \in Nat
  BY <1>2, <1>11
<1>17. TypeOK'
  BY <1>1, <1>2, <1>4, <1>9, <1>15, <1>16 DEF TypeOK, processor, budgets
<1> QED
  BY <1>13, <1>14, <1>17 DEF Base

LEMMA FlushRoundEffect ==
  ASSUME Base, FlushRound
  PROVE  \E batch, left \in Seq(Reading) :
            /\ batch # <<>> /\ Len(batch) <= BatchSize /\ batch \o left = buffer
            /\ (Len(buffer) <= BatchSize => left = <<>>)
            /\ Send(<<batch>>) /\ buffer' = left
            /\ <<batch>> \in Seq(Seq(Reading)) /\ Len(<<batch>>) = 1 /\ <<batch>>[1] = batch
            /\ Range(batch) \subseteq produced /\ Len(batch) + Len(left) = Len(buffer)
            /\ Unsent' = batch /\ posts' \in Seq(Post) /\ requests' \in Seq(Request)
<1> DEFINE size == Smaller(BatchSize, Len(buffer))
           batch == SubSeq(buffer, 1, size)
           left == SubSeq(buffer, size + 1, Len(buffer))
<1>1. TypeOK /\ Ledger /\ posts = <<>> /\ buffer # <<>> /\ buffer \in Seq(Reading)
      /\ produced' = produced
  BY DEF Base, FlushRound, TypeOK
<1>2. Send(<<batch>>) /\ buffer' = left
  BY DEF FlushRound, TakeOldest
<1>3. /\ Len(buffer) \in Nat \ {0} /\ size \in 1..Len(buffer) /\ size <= BatchSize
      /\ (Len(buffer) <= BatchSize => size = Len(buffer))
  <2>1. Len(buffer) \in Nat \ {0} /\ BatchSize \in Nat \ {0}
    BY <1>1, EmptySeq, IngestAssumption
  <2> QED
    BY <2>1 DEF Smaller
<1> HIDE DEF size
<1>4. \A i \in 1..Len(buffer) : buffer[i] \in Reading
  BY <1>1, ElementOfSeq
<1>5. batch \in Seq(Reading) /\ Len(batch) = size
  <2>1. 1 \in Int /\ size \in Int /\ \A i \in 1..size : buffer[i] \in Reading
    BY <1>3, <1>4
  <2>2. /\ SubSeq(buffer, 1, size) \in Seq(Reading)
        /\ Len(SubSeq(buffer, 1, size)) = IF 1 <= size THEN size - 1 + 1 ELSE 0
    BY <2>1, SubSeqProperties
  <2> QED
    BY <1>3, <2>2
<1>6. left \in Seq(Reading)
  <2>1. size + 1 \in Int /\ Len(buffer) \in Int
        /\ \A i \in size + 1..Len(buffer) : buffer[i] \in Reading
    BY <1>3, <1>4
  <2> QED
    BY <2>1, SubSeqProperties
<1>7. batch \o left = buffer
  <2>1. 1 \in 1..Len(buffer) + 1 /\ size \in 1 - 1..Len(buffer)
        /\ Len(buffer) \in size..Len(buffer)
    BY <1>3
  <2>2. batch \o left = SubSeq(buffer, 1, Len(buffer))
    BY <1>1, <2>1, ConcatAdjacentSubSeq, Zenon
  <2>3. SubSeq(buffer, 1, Len(buffer)) = buffer
    BY <1>1, SubSeqFull
  <2> QED
    BY <2>2, <2>3, Zenon
<1>8. ASSUME Len(buffer) <= BatchSize PROVE left = <<>>
  <2>1. size + 1 \in Int /\ Len(buffer) \in Int /\ Len(buffer) < size + 1
    BY <1>3, <1>8
  <2> QED
    BY <2>1, SubSeqEmpty
<1> HIDE DEF batch, left
<1>9. /\ Range(buffer) = Range(batch) \cup Range(left) /\ Len(buffer) = Len(batch) + Len(left)
      /\ batch # <<>>
  <2>1. Range(batch \o left) = Range(batch) \cup Range(left)
        /\ Len(batch \o left) = Len(batch) + Len(left)
    BY <1>5, <1>6, ConcatProperties, RangeConcatenation
  <2>2. batch # <<>>
    BY <1>3, <1>5, EmptySeq
  <2> QED
    BY <1>7, <2>1, <2>2, Zenon
<1>10. Range(batch) \subseteq produced
  BY <1>1, <1>9, UnsentApart DEF Ledger
<1>11. <<batch>> \in Seq(Seq(Reading)) /\ Len(<<batch>>) = 1 /\ <<batch>>[1] = batch
  BY <1>5
<1>12. \A b \in 1..Len(<<batch>>) : <<batch>>[b] # <<>> /\ Range(<<batch>>[b]) \subseteq produced'
  BY <1>1, <1>9, <1>10, <1>11
<1>13. Unsent' = FlattenSeq(<<batch>>) /\ posts' \in Seq(Post) /\ requests' \in Seq(Request)
  BY <1>1, <1>2, <1>11, <1>12, SendEffect, Zenon
<1>14. FlattenSeq(<<batch>>) = batch
  BY <1>5, FlattenOne
<1>15. Unsent' = batch
  BY <1>13, <1>14, Zenon
<1>16. Len(batch) <= BatchSize
  BY <1>3, <1>5
<1> QED
  BY <1>2, <1>5, <1>6, <1>7, <1>8, <1>9, <1>10, <1>11, <1>13, <1>15, <1>16, Zenon

LEMMA FlushRoundBase ==
  ASSUME Base, FlushRound
  PROVE  Base'
<1>1. TypeOK /\ RequestsOK /\ PlaceOK /\ Ledger /\ posts = <<>> /\ place = "flush"
  BY DEF Base, FlushRound
<1>2. PICK batch, left \in Seq(Reading) :
            /\ batch # <<>> /\ Len(batch) <= BatchSize /\ batch \o left = buffer
            /\ Send(<<batch>>) /\ buffer' = left
            /\ <<batch>> \in Seq(Seq(Reading)) /\ Len(<<batch>>) = 1 /\ <<batch>>[1] = batch
            /\ Range(batch) \subseteq produced /\ Len(batch) + Len(left) = Len(buffer)
            /\ Unsent' = batch /\ posts' \in Seq(Post) /\ requests' \in Seq(Request)
  BY FlushRoundEffect, Zenon
<1>3. UNCHANGED <<fleet, clock, place, produced, dropped, eventsSent, ema, damage, telemetry,
                  shown>>
      /\ UNCHANGED budgets /\ retries > 0 /\ retries' = retries - 1
  BY DEF FlushRound
<1>4. \A b \in 1..Len(<<batch>>) : /\ <<batch>>[b] # <<>> /\ Len(<<batch>>[b]) <= BatchSize
                                   /\ Range(<<batch>>[b]) \subseteq produced'
  <2>1. \A b \in 1..Len(<<batch>>) : b = 1
    BY <1>2
  <2>2. batch # <<>> /\ Len(batch) <= BatchSize /\ Range(batch) \subseteq produced'
        /\ <<batch>>[1] = batch
    BY <1>2, <1>3
  <2> QED
    BY <2>1, <2>2, Zenon
<1>5. RequestsOK' /\ PostsOK' /\ Len(posts') = 1
  <2>1. produced \subseteq produced' /\ Send(<<batch>>) /\ <<batch>> \in Seq(Seq(Reading))
    BY <1>2, <1>3
  <2>2. RequestsOK' /\ PostsOK'
    BY <1>4, <2>1, SendKeeps, Zenon
  <2>3. \A b \in 1..Len(<<batch>>) : <<batch>>[b] # <<>> /\ Range(<<batch>>[b]) \subseteq produced'
    BY <1>4
  <2>4. Len(posts') = Len(<<batch>>)
    BY <1>1, <2>1, <2>3, SendEffect, Zenon
  <2> QED
    BY <1>2, <2>2, <2>4
<1>6. Pending' = Pending
  <2>1. Pending = buffer
    BY <1>1, NoPosts
  <2>2. Pending' = batch \o left
    BY <1>2, Zenon DEF Pending
  <2> QED
    BY <1>2, <2>1, <2>2, Zenon
<1>7. Ledger'
  BY <1>1, <1>3, <1>6 DEF Ledger
<1>8. PlaceOK'
  BY <1>1, <1>3, <1>5 DEF PlaceOK
<1>9. retries' \in 0..3 /\ Len(buffer') <= BufferMax
  <2>1. Len(left) \in Nat /\ Len(batch) \in Nat /\ Len(buffer) <= BufferMax /\ BufferMax \in Nat
        /\ retries \in 0..3
    BY <1>1, <1>2, LenProperties, IngestAssumption, SMTT(30) DEF TypeOK
  <2> QED
    BY <1>2, <1>3, <2>1
<1>10. TypeOK'
  BY <1>1, <1>2, <1>3, <1>9, Zenon DEF TypeOK, budgets
<1> QED
  BY <1>5, <1>7, <1>8, <1>10 DEF Base

LEMMA FlushRoundEndsBase ==
  ASSUME Base, FlushRoundEnds
  PROVE  Base'
<1>1. TypeOK /\ RequestsOK /\ PlaceOK /\ Ledger /\ Len(posts) <= 1 /\ posts # <<>>
      /\ place = "flush"
  BY DEF Base, FlushRoundEnds, PlaceOK
<1>2. /\ 1 \in DOMAIN posts /\ Unsent = posts[1].batch /\ Pending = posts[1].batch \o buffer
  BY <1>1, OnePost
<1>3. posts[1].batch \in Seq(Reading) /\ buffer \in Seq(Reading)
  BY <1>1, <1>2, BatchFacts DEF TypeOK
<1>4. /\ posts' = <<>>
      /\ UNCHANGED <<fleet, clock, retries, produced, dropped, processor, budgets>>
  BY DEF FlushRoundEnds
<1>5. RequestsOK' /\ PostsOK' /\ PlaceOK'
  <2>1. requests' = requests
    BY <1>4 DEF processor
  <2>2. Len(posts') = 0 /\ \A b : b \notin 1..0
    BY <1>4
  <2>3. RequestsOK'
    BY <1>1, <1>4, <2>1 DEF RequestsOK, RequestOK
  <2>4. PostsOK'
    BY <2>2 DEF PostsOK
  <2>5. PlaceOK'
    BY <1>1, <1>4, <2>2 DEF PlaceOK
  <2> QED
    BY <2>3, <2>4, <2>5
<1>6. /\ Range(Pending) \subseteq produced /\ Range(Pending) \cap dropped = {}
      /\ eventsSent + Len(Pending) + Cardinality(dropped) = Cardinality(produced)
      /\ IsInjective(Pending) /\ Len(Pending) <= BufferMax
      /\ IsInjective(buffer) /\ Range(buffer) \subseteq Range(Pending)
      /\ Len(posts[1].batch) + Len(buffer) = Len(Pending)
      /\ Len(posts[1].batch) \in Nat /\ Len(buffer) \in Nat /\ eventsSent \in Nat
      /\ Cardinality(dropped) \in Nat /\ Cardinality(produced) \in Nat
  BY <1>1, <1>2, UnsentApart, FS_Subset, FS_CardinalityType, Zenon DEF Ledger, TypeOK, PlaceOK
<1>7. BufferMax \in Nat
  BY IngestAssumption
<1>8. CASE /\ eventsSent' = eventsSent + Len(posts[1].batch)
           /\ UNCHANGED <<buffer, place>>
  <2>1. Pending' = buffer
    BY <1>1, <1>3, <1>4, <1>8, NoPostsAfter
  <2>2. eventsSent' + Len(buffer) + Cardinality(dropped) = Cardinality(produced)
    BY <1>6, <1>8, SMTT(30)
  <2>3. Len(buffer) <= BufferMax /\ eventsSent' \in Nat
    BY <1>6, <1>7, <1>8
  <2>4. Ledger'
    BY <1>4, <1>6, <1>8, <2>1, <2>2, <2>3 DEF Ledger
  <2>5. TypeOK'
    BY <1>1, <1>4, <1>8, <2>3 DEF TypeOK, processor, budgets
  <2> QED
    BY <1>5, <2>4, <2>5 DEF Base
<1>9. CASE /\ buffer' = posts[1].batch \o buffer
           /\ place' = "sleep"
           /\ UNCHANGED eventsSent
  <2>1. buffer' \in Seq(Reading)
    BY <1>3, <1>9, ConcatProperties
  <2>2. Pending' = Pending /\ buffer' = Pending
    BY <1>1, <1>2, <1>4, <1>9, <2>1, NoPostsAfter
  <2>3. Ledger'
    BY <1>4, <1>6, <1>9, <2>2 DEF Ledger
  <2>4. TypeOK'
    BY <1>1, <1>4, <1>6, <1>9, <2>1, <2>2 DEF TypeOK, processor, budgets
  <2> QED
    BY <1>5, <2>3, <2>4 DEF Base
<1> QED
  BY <1>8, <1>9 DEF FlushRoundEnds

LEMMA BaseInit ==
  Init => Base
<1> SUFFICES ASSUME Init PROVE Base
  OBVIOUS
<1>1. /\ posts = <<>> /\ buffer = <<>> /\ produced = {} /\ dropped = {} /\ eventsSent = 0
      /\ requests = <<>> /\ place = "sleep" /\ clock = 0
  BY DEF Init
<1>2. TypeOK
  <2>1. 0 \in 0..MaxTicks /\ 0 \in 0..MaxFaults /\ 0 \in 0..MaxTimeouts /\ 0 \in 0..MaxRestarts
        /\ 0 <= BufferMax
    BY IngestAssumption
  <2> QED
    BY <2>1 DEF Init, TypeOK
<1>3. Len(posts) = 0 /\ Len(requests) = 0 /\ \A b : b \notin 1..0
  BY <1>1
<1>4. RequestsOK /\ PostsOK
  BY <1>3 DEF RequestsOK, PostsOK
<1>5. PlaceOK
  BY <1>1, FS_EmptySet DEF PlaceOK
<1>6. Ledger
  <2>1. Pending = <<>>
    BY <1>1, <1>2, NoPosts
  <2>2. Len(<<>>) = 0 /\ Range(<<>>) = {} /\ IsInjective(<<>>) /\ Cardinality({}) = 0
    BY FS_EmptySet DEF Range, IsInjective
  <2> QED
    BY <1>1, <2>1, <2>2 DEF Ledger
<1> QED
  BY <1>2, <1>4, <1>5, <1>6 DEF Base

\* Steps that leave posts, requests and the ledger's variables alone.
LEMMA IdleBase ==
  ASSUME Base, TypeOK', place' = place \/ (place' = "sleep" /\ posts = <<>>),
         UNCHANGED <<clock, posts, buffer, produced, dropped, eventsSent, requests>>
  PROVE  Base'
<1>1. TypeOK /\ RequestsOK /\ PostsOK /\ PlaceOK /\ Ledger
  BY DEF Base
<1>2. Pending' = Pending
  BY DEF Pending, Unsent
<1>3. Ledger' /\ PlaceOK'
  BY <1>1, <1>2 DEF Ledger, PlaceOK
<1>4. RequestsOK' /\ PostsOK'
  BY <1>1 DEF RequestsOK, RequestOK, PostsOK, Bound
<1> QED
  BY <1>3, <1>4 DEF Base

\* Every action keeps it.
LEMMA BaseStep ==
  Base /\ [Next]_vars => Base'
<1> SUFFICES ASSUME Base, [Next]_vars PROVE Base'
  OBVIOUS
<1>0. TypeOK
  BY DEF Base
<1>1. CASE Tick
  BY <1>1, TickBase
<1>2. CASE Gathered
  BY <1>2, GatheredBase
<1>3. CASE FlushRound
  BY <1>3, FlushRoundBase
<1>4. CASE FlushRoundEnds
  BY <1>4, FlushRoundEndsBase
<1>5. CASE Flushed
  <2>1. TypeOK'
    BY <1>0, <1>5 DEF TypeOK, Flushed, processor, budgets
  <2> QED
    BY <1>5, <2>1, IdleBase DEF Flushed, processor
<1>6. ASSUME NEW l \in Locomotive, AddLocomotive(l) \/ RemoveLocomotive(l) PROVE Base'
  <2>1. TypeOK'
    BY <1>0, <1>6, Zenon DEF TypeOK, AddLocomotive, RemoveLocomotive, processor, budgets
  <2> QED
    BY <1>6, <2>1, IdleBase DEF AddLocomotive, RemoveLocomotive, processor
<1>7. ASSUME NEW b \in DOMAIN posts, AttemptFails(b) PROVE Base'
  BY <1>7, AttemptFailsBase
<1>8. ASSUME NEW q \in DOMAIN requests, Handler(q) PROVE Base'
  BY <1>8, ArriveBase, FilterBase, ColdBase, HotReadBase, HotWriteBase, HotReturnBase,
     ReadingFailsBase, AddRowsBase, PublishBase, AnswerBase DEF Handler
<1>9. ASSUME NEW p \in Process, Restart(p) PROVE Base'
  BY <1>9, RestartBase
<1>10. CASE UNCHANGED vars
  <2>1. TypeOK'
    BY <1>0, <1>10 DEF TypeOK, vars, simulator, processor, budgets
  <2> QED
    BY <1>10, <2>1, IdleBase DEF vars, simulator, processor
<1> QED
  BY <1>1, <1>2, <1>3, <1>4, <1>5, <1>6, <1>7, <1>8, <1>9, <1>10 DEF Next, Runner

\* The invariant of the ledger.
LEMMA BaseAlways ==
  Spec => []Base
<1> QED
  BY BaseInit, BaseStep, PTL DEF Spec

\* TelemetryIngest.TypeOK: the runner of runner.py, its posts and the handlers of
\* router_ingest.py keep their types, for any fleet, batches, buffer, processes and faults.
THEOREM IngestIsTyped ==
  Spec => []TypeOK
<1>1. Base => TypeOK
  BY DEF Base
<1> QED
  BY <1>1, BaseAlways, PTL

\* TelemetryIngest.EventsAddUp, runner.py:302-325: whatever fails, is sent again or overflows,
\* a reading made is counted in events_sent once, is on its way or in the buffer once, or
\* fell out of the buffer.
THEOREM EveryReadingIsAccounted ==
  Spec => []EventsAddUp
<1>1. Base => EventsAddUp
  <2> SUFFICES ASSUME Base PROVE EventsAddUp
    OBVIOUS
  <2>1. TypeOK /\ Ledger
    BY DEF Base
  <2>2. /\ Len(Pending) = Len(Unsent) + Len(buffer) /\ Len(Unsent) \in Nat /\ Len(buffer) \in Nat
        /\ eventsSent \in Nat
        /\ eventsSent + Len(Pending) + Cardinality(dropped) = Cardinality(produced)
    BY <2>1, UnsentApart, Zenon DEF Ledger, TypeOK
  <2>3. eventsSent + Len(Unsent) + Len(buffer) = eventsSent + Len(Pending)
    BY <2>2
  <2>4. eventsSent + Len(Unsent) + Len(buffer) + Cardinality(dropped) = Cardinality(produced)
    BY <2>2, <2>3, Zenon
  <2> QED
    BY <2>4 DEF EventsAddUp, Unsent
<1> QED
  BY <1>1, BaseAlways, PTL


-----------------------------------------------------------------------------
(* What the simulator no longer holds is stored.                           *)

\* The readings of the buffer and of the posts that have not succeeded.
LEMMA HeldIs ==
  ASSUME posts \in Seq(Post)
  PROVE  \A x : x \in Held <=>
            \/ x \in Range(buffer)
            \/ \E b \in 1..Len(posts) : posts[b].outcome # "ok" /\ x \in Range(posts[b].batch)
<1>1. DOMAIN posts = 1..Len(posts)
  BY LenProperties
<1> QED
  BY <1>1 DEF Held, InPosts

LEMMA HeldAfter ==
  ASSUME posts' \in Seq(Post)
  PROVE  \A x : x \in Held' <=>
            \/ x \in Range(buffer')
            \/ \E b \in 1..Len(posts') : posts'[b].outcome # "ok" /\ x \in Range(posts'[b].batch)
<1>1. DOMAIN posts' = 1..Len(posts')
  BY LenProperties
<1> QED
  BY <1>1 DEF Held, InPosts

\* A handler's step that neither fails nor stores less.
LEMMA HandlerStores ==
  ASSUME Base, Stored, NEW q \in DOMAIN requests, NEW p, NEW a, NEW n, NEW o, NEW h,
         Moves(q, p, a, n, o, h), UNCHANGED simulator, telemetry \subseteq telemetry',
         faults' = 0 => /\ faults = 0 /\ a # "error"
                        /\ a \in {"publish", "accepted"} =>
                              Range(requests[q].batch) \subseteq telemetry'
  PROVE  Stored'
<1>1. PICK r \in Request : Becomes(q, r) /\ r.batch = requests[q].batch /\ r.at = a
  BY DEF Moves
<1>2. SUFFICES ASSUME faults' = 0 PROVE Rows' /\ Delivered'
  BY DEF Stored
<1>3. Rows /\ Delivered
  BY <1>2 DEF Stored
<1>4. Rows'
  <2> SUFFICES ASSUME NEW x \in 1..Len(requests)
               PROVE  /\ requests'[x].at # "error"
                      /\ requests'[x].at \in {"publish", "accepted"} =>
                            Range(requests'[x].batch) \subseteq telemetry'
    BY <1>1 DEF Rows, Becomes
  <2>1. CASE x = q
    BY <1>1, <1>2, <2>1 DEF Becomes
  <2>2. CASE x # q
    BY <1>1, <1>3, <2>2 DEF Becomes, Rows
  <2> QED
    BY <2>1, <2>2
<1>5. Delivered'
  <2>1. posts' = posts /\ buffer' = buffer /\ produced' = produced /\ dropped' = dropped
    BY DEF simulator
  <2>2. Held' = Held
    BY <2>1 DEF Held, InPosts
  <2> QED
    BY <1>3, <2>1, <2>2 DEF Delivered
<1> QED
  BY <1>4, <1>5

\* A step that stores nothing and moves no handler on.
LEMMA RowsStay ==
  ASSUME Rows, telemetry' = telemetry,
         \A x \in 1..Len(requests') : \/ x \in 1..Len(requests) /\ requests'[x] = requests[x]
                                      \/ requests'[x].at \in {"gone", "arriving"}
  PROVE  Rows'
<1> SUFFICES ASSUME NEW x \in 1..Len(requests')
             PROVE  /\ requests'[x].at # "error"
                    /\ requests'[x].at \in {"publish", "accepted"} =>
                          Range(requests'[x].batch) \subseteq telemetry'
  BY DEF Rows
<1>1. CASE x \in 1..Len(requests) /\ requests'[x] = requests[x]
  BY <1>1 DEF Rows
<1>2. CASE requests'[x].at \in {"gone", "arriving"}
  BY <1>2
<1> QED
  BY <1>1, <1>2

LEMMA HandlerStored ==
  ASSUME Base, Stored, NEW q \in DOMAIN requests, Handler(q), ~ Answer(q)
  PROVE  Stored'
<1>0. TypeOK /\ RequestsOK /\ MaxFaults \in Nat /\ faults \in 0..MaxFaults
  BY IngestAssumption, Zenon DEF Base, TypeOK
<1>1. CASE Arrive(q)
  <2>1. PICK p \in Process :
          Moves(q, p, "filter", requests[q].n, requests[q].old, requests[q].health)
    BY <1>1, ArriveMoves
  <2> QED
    BY <1>1, <2>1, HandlerStores DEF Arrive, budgets
<1>2. CASE Filter(q)
  BY <1>2, FilterMoves, HandlerStores, Zenon DEF Filter, budgets
<1>3. CASE Cold(q)
  <2>1. AfterReading(q) \in {"filter", "xadd"}
    BY DEF AfterReading
  <2> QED
    BY <1>3, <2>1, ColdMoves, HandlerStores, Zenon DEF Cold, budgets
<1>4. CASE HotRead(q)
  BY <1>4, HotReadMoves, HandlerStores, Zenon DEF HotRead, budgets
<1>5. CASE HotWrite(q)
  BY <1>5, HotWriteMoves, HandlerStores, Zenon DEF HotWrite, budgets
<1>6. CASE HotReturn(q)
  <2>1. AfterReading(q) \in {"filter", "xadd"}
    BY DEF AfterReading
  <2> QED
    BY <1>6, <2>1, HotReturnMoves, HandlerStores, Zenon DEF HotReturn, budgets
<1>7. CASE ReadingFails(q)
  <2>1. faults' # 0
    BY <1>0, <1>7 DEF ReadingFails, Fault
  <2> QED
    BY <2>1 DEF Stored
<1>8. CASE AddRows(q)
  <2>1. Moves(q, requests[q].process, "publish", requests[q].n, requests[q].old,
              requests[q].health)
    BY <1>8, AddRowsMoves, Zenon DEF AddRows
  <2>2. UNCHANGED simulator
    BY <1>8 DEF AddRows
  <2>3. CASE faults' = faults /\ telemetry' = telemetry \cup Range(requests[q].batch)
    BY <2>1, <2>2, <2>3, HandlerStores
  <2>4. CASE Fault
    BY <1>0, <2>4 DEF Fault, Stored
  <2> QED
    BY <1>8, <2>3, <2>4 DEF AddRows
<1>9. CASE Publish(q)
  <2>1. requests[q].at = "publish" /\ UNCHANGED <<simulator, telemetry>>
    BY <1>9 DEF Publish
  <2>2. CASE requests' = [requests EXCEPT ![q].at = "accepted"] /\ faults' = faults
    <3>1. Moves(q, requests[q].process, "accepted", requests[q].n, requests[q].old,
                requests[q].health)
      BY <2>1, <2>2, PublishMoves, Zenon
    <3>2. faults' = 0 => faults = 0 /\ Range(requests[q].batch) \subseteq telemetry'
      BY <1>0, <2>1, <2>2, HandlerFacts DEF Stored, Rows
    <3> QED
      BY <2>1, <3>1, <3>2, HandlerStores
  <2>3. CASE Fault
    BY <1>0, <2>3 DEF Fault, Stored
  <2> QED
    BY <1>0, <1>9, <2>2, <2>3, PublishFacts
<1> QED
  BY <1>1, <1>2, <1>3, <1>4, <1>5, <1>6, <1>7, <1>8, <1>9 DEF Handler

LEMMA AnswerStored ==
  ASSUME Base, Stored, NEW q \in DOMAIN requests, Answer(q)
  PROVE  Stored'
<1>1. TypeOK /\ RequestsOK /\ PostsOK /\ posts \in Seq(Post)
  BY DEF Base, TypeOK
<1>2. SUFFICES ASSUME faults' = 0 PROVE Rows' /\ Delivered'
  BY DEF Stored
<1>3. /\ UNCHANGED <<buffer, produced, dropped, telemetry, faults>>
      /\ requests[q].at \in {"accepted", "error"}
  BY DEF Answer, budgets
<1>4. Rows /\ Delivered
  BY <1>2, <1>3 DEF Stored
<1>5. /\ Becomes(q, Closed)
      /\ posts' \in Seq(Post) /\ Len(posts') = Len(posts)
      /\ \A b \in 1..Len(posts) :
           /\ posts'[b].batch = posts[b].batch /\ posts'[b].request = posts[b].request
           /\ posts'[b].outcome =
                 IF posts[b].request = q /\ posts[b].outcome = "out"
                 THEN IF requests[q].at = "accepted" THEN "ok" ELSE "failed"
                 ELSE posts[b].outcome
  BY <1>1, AnswerEffect
<1>6. Rows'
  <2>1. \A x \in 1..Len(requests') : \/ x \in 1..Len(requests) /\ requests'[x] = requests[x]
                                     \/ requests'[x].at \in {"gone", "arriving"}
    BY <1>5, ClosedType DEF Becomes
  <2> QED
    BY <1>3, <1>4, <2>1, RowsStay
<1>7. Delivered'
  <2> SUFFICES ASSUME NEW x \in produced, x \notin Held', x \notin dropped PROVE x \in telemetry
    BY <1>3 DEF Delivered
  <2>1. CASE x \notin Held
    BY <1>4, <2>1 DEF Delivered
  <2>2. CASE x \in Held
    <3>1. PICK b \in 1..Len(posts) : posts[b].outcome # "ok" /\ x \in Range(posts[b].batch)
      BY <1>1, <1>3, <1>5, <2>2, HeldIs, HeldAfter
    <3>2. posts'[b].outcome = "ok"
      BY <1>5, <3>1, HeldAfter
    <3>3. posts[b].request = q /\ requests[q].at = "accepted"
      BY <1>5, <3>1, <3>2
    <3>4. requests[q].batch = posts[b].batch
      BY <1>1, <3>3 DEF PostsOK, Bound
    <3>5. Range(requests[q].batch) \subseteq telemetry
      BY <1>1, <1>4, <3>3, HandlerFacts DEF Rows
    <3> QED
      BY <3>1, <3>4, <3>5
  <2> QED
    BY <2>1, <2>2
<1> QED
  BY <1>6, <1>7

LEMMA AttemptFailsStored ==
  ASSUME Base, Stored, NEW b \in DOMAIN posts, AttemptFails(b)
  PROVE  Stored'
<1>1. TypeOK /\ PostsOK /\ posts \in Seq(Post) /\ b \in 1..Len(posts) /\ posts[b].outcome = "out"
  BY Posts, Zenon DEF Base, TypeOK, AttemptFails
<1>2. SUFFICES ASSUME faults' = 0 PROVE Rows' /\ Delivered'
  BY DEF Stored
<1>3. UNCHANGED <<buffer, produced, dropped, telemetry, faults>>
  BY DEF AttemptFails
<1>4. Rows /\ Delivered
  BY <1>2, <1>3 DEF Stored
<1>5. /\ posts' \in Seq(Post) /\ Len(posts') = Len(posts)
      /\ \A c \in 1..Len(posts) : /\ posts'[c].batch = posts[c].batch
                                  /\ posts[c].outcome # "ok" => posts'[c].outcome # "ok"
  BY <1>1, AttemptFailsEffect DEF Resent, GivenUp
<1>6. Rows'
  <2>1. CASE Resent(b)
    <3> DEFINE r == NewRequest(posts[b].batch)
    <3>1. r \in Request /\ r.at = "arriving"
      BY BatchFacts, NewRequestFacts
    <3>2. requests' = Append(requests, r) /\ requests \in Seq(Request) /\ Len(requests) \in Nat
      BY <1>1, <2>1, Requests DEF Resent
    <3> HIDE DEF r
    <3>3. /\ Len(requests') = Len(requests) + 1
          /\ requests'[Len(requests) + 1] = r
          /\ \A x \in 1..Len(requests) : requests'[x] = requests[x]
      BY <3>1, <3>2, AppendProperties
    <3>4. \A x \in 1..Len(requests') : \/ x \in 1..Len(requests) /\ requests'[x] = requests[x]
                                       \/ requests'[x].at \in {"gone", "arriving"}
      BY <3>1, <3>2, <3>3
    <3> QED
      BY <1>3, <1>4, <3>4, RowsStay
  <2>2. CASE GivenUp(b)
    BY <1>3, <1>4, <2>2, RowsStay DEF GivenUp
  <2> QED
    BY <1>1, <2>1, <2>2, AttemptFailsEffect
<1>7. Delivered'
  <2>1. Held \subseteq Held'
    BY <1>1, <1>3, <1>5, HeldIs, HeldAfter
  <2> QED
    BY <1>3, <1>4, <2>1 DEF Delivered
<1> QED
  BY <1>6, <1>7

LEMMA RestartStored ==
  ASSUME Base, Stored, NEW p \in Process, Restart(p)
  PROVE  Stored'
<1>1. TypeOK /\ RequestsOK
  BY DEF Base
<1>2. SUFFICES ASSUME faults' = 0 PROVE Rows' /\ Delivered'
  BY DEF Stored
<1>3. UNCHANGED <<posts, buffer, produced, dropped, telemetry, faults>>
  BY DEF Restart, simulator
<1>4. Rows /\ Delivered
  BY <1>2, <1>3 DEF Stored
<1>5. Rows'
  BY <1>1, <1>3, <1>4, RestartEffect, ClosedType, RowsStay
<1>6. Delivered'
  <2>1. Held' = Held
    BY <1>3 DEF Held, InPosts
  <2> QED
    BY <1>3, <1>4, <2>1 DEF Delivered
<1> QED
  BY <1>5, <1>6

\* New batches sent are held, and their requests have yet to arrive.
LEMMA SendHolds ==
  ASSUME TypeOK, Rows, NEW batches \in Seq(Seq(Reading)), Send(batches), telemetry' = telemetry,
         \A b \in 1..Len(batches) : batches[b] # <<>> /\ Range(batches[b]) \subseteq produced',
         produced' \subseteq Reading
  PROVE  /\ Rows'
         /\ Range(FlattenSeq(batches)) \cup Range(buffer') \subseteq Held'
<1>1. /\ posts' \in Seq(Post) /\ Len(posts') = Len(batches)
      /\ \A b \in 1..Len(batches) :
           /\ posts'[b].batch = batches[b] /\ posts'[b].outcome = "out"
      /\ requests' \in Seq(Request) /\ Len(requests') = Len(requests) + Len(batches)
      /\ \A x \in 1..Len(requests) : requests'[x] = requests[x]
      /\ \A b \in 1..Len(batches) : requests'[Len(requests) + b] = NewRequest(batches[b])
  BY SendEffect
<1>2. Len(batches) \in Nat /\ Len(requests) \in Nat
  BY Requests, LenProperties
<1>3. \A b \in 1..Len(batches) : NewRequest(batches[b]).at = "arriving"
  BY NewRequestIs, RecFields
<1>4. \A x \in 1..Len(requests') : \/ x \in 1..Len(requests) /\ requests'[x] = requests[x]
                                   \/ requests'[x].at \in {"gone", "arriving"}
  <2> SUFFICES ASSUME NEW x \in 1..Len(requests'), x \notin 1..Len(requests)
               PROVE  requests'[x].at = "arriving"
    BY <1>1
  <2> DEFINE b == x - Len(requests)
  <2>1. b \in 1..Len(batches) /\ x = Len(requests) + b
    BY <1>1, <1>2
  <2> QED
    BY <1>1, <1>3, <2>1
<1>5. \A x : x \in Range(FlattenSeq(batches)) => \E b \in 1..Len(batches) : x \in Range(batches[b])
  BY FlattenRange
<1>6. Range(FlattenSeq(batches)) \cup Range(buffer') \subseteq Held'
  BY <1>1, <1>5, HeldAfter, Zenon
<1> QED
  BY <1>4, <1>6, RowsStay

LEMMA TickStored ==
  ASSUME Base, Stored, Tick
  PROVE  Stored'
<1>1. TypeOK /\ posts = <<>> /\ posts \in Seq(Post)
  BY DEF Base, Tick, PlaceOK, TypeOK
<1>2. SUFFICES ASSUME faults' = 0 PROVE Rows' /\ Delivered'
  BY DEF Stored
<1>3. UNCHANGED <<buffer, dropped, telemetry, faults>>
  BY DEF Tick, budgets
<1>4. Rows /\ Delivered
  BY <1>2, <1>3 DEF Stored
<1>5. PICK made, readings :
            /\ made \subseteq Reading
            /\ produced' = produced \cup made
            /\ readings \in Seq(Reading) /\ Range(readings) = made
            /\ Batches(readings) \in Seq(Seq(Reading))
            /\ \A b \in 1..Len(Batches(readings)) :
                  /\ Batches(readings)[b] # <<>>
                  /\ Range(Batches(readings)[b]) \subseteq produced'
            /\ Send(Batches(readings))
  BY TickEffect, Zenon
<1>6. FlattenSeq(Batches(readings)) = readings
  BY <1>5, BatchesOf
<1>7. Rows' /\ made \cup Range(buffer) \subseteq Held'
  <2>1. produced' \subseteq Reading
    BY <1>1, <1>5 DEF TypeOK
  <2>2. /\ Rows'
        /\ Range(FlattenSeq(Batches(readings))) \cup Range(buffer') \subseteq Held'
    BY <1>1, <1>3, <1>4, <1>5, <2>1, SendHolds
  <2> QED
    BY <1>3, <1>5, <1>6, <2>2, Zenon
<1>8. Held \subseteq Range(buffer)
  BY <1>1, HeldIs
<1>9. Delivered'
  BY <1>3, <1>4, <1>5, <1>7, <1>8 DEF Delivered
<1> QED
  BY <1>7, <1>9

LEMMA FlushRoundStored ==
  ASSUME Base, Stored, FlushRound
  PROVE  Stored'
<1>1. TypeOK /\ posts = <<>> /\ posts \in Seq(Post)
  BY DEF Base, FlushRound, TypeOK
<1>2. SUFFICES ASSUME faults' = 0 PROVE Rows' /\ Delivered'
  BY DEF Stored
<1>3. UNCHANGED <<produced, dropped, telemetry, faults>>
  BY DEF FlushRound, budgets
<1>4. Rows /\ Delivered
  BY <1>2, <1>3 DEF Stored
<1>5. PICK batch, left \in Seq(Reading) :
            /\ batch # <<>> /\ batch \o left = buffer
            /\ Send(<<batch>>) /\ buffer' = left
            /\ <<batch>> \in Seq(Seq(Reading)) /\ Len(<<batch>>) = 1 /\ <<batch>>[1] = batch
            /\ Range(batch) \subseteq produced
  BY FlushRoundEffect, Zenon
<1>6. \A b \in 1..Len(<<batch>>) : <<batch>>[b] # <<>> /\ Range(<<batch>>[b]) \subseteq produced'
  <2>1. \A b \in 1..Len(<<batch>>) : b = 1
    BY <1>5
  <2>2. batch # <<>> /\ Range(batch) \subseteq produced' /\ <<batch>>[1] = batch
    BY <1>3, <1>5
  <2> QED
    BY <2>1, <2>2, Zenon
<1>7. Rows' /\ Range(FlattenSeq(<<batch>>)) \cup Range(buffer') \subseteq Held'
  <2>1. produced' \subseteq Reading
    BY <1>1, <1>3 DEF TypeOK
  <2>2. Send(<<batch>>) /\ <<batch>> \in Seq(Seq(Reading)) /\ telemetry' = telemetry
    BY <1>3, <1>5
  <2> QED
    BY <1>1, <1>4, <1>6, <2>1, <2>2, SendHolds, Zenon
<1>8. Held \subseteq Held'
  <2>1. Held \subseteq Range(buffer)
    BY <1>1, HeldIs
  <2>2. Range(buffer) = Range(batch) \cup Range(left)
    <3>1. Range(batch \o left) = Range(batch) \cup Range(left)
      BY RangeConcatenation
    <3> QED
      BY <1>5, <3>1, Zenon
  <2>3. FlattenSeq(<<batch>>) = batch
    BY <1>5, FlattenOne
  <2> QED
    BY <1>5, <1>7, <2>1, <2>2, <2>3, Zenon
<1>9. Delivered'
  BY <1>3, <1>4, <1>8 DEF Delivered
<1> QED
  BY <1>7, <1>9

LEMMA FlushRoundEndsStored ==
  ASSUME Base, Stored, FlushRoundEnds
  PROVE  Stored'
<1>1. TypeOK /\ Len(posts) <= 1 /\ posts # <<>> /\ posts \in Seq(Post)
  BY DEF Base, FlushRoundEnds, PlaceOK, TypeOK
<1>2. SUFFICES ASSUME faults' = 0 PROVE Rows' /\ Delivered'
  BY DEF Stored
<1>3. UNCHANGED <<requests, produced, dropped, telemetry, faults>>
  BY DEF FlushRoundEnds, processor, budgets
<1>4. Rows /\ Delivered
  BY <1>2, <1>3 DEF Stored
<1>5. Rows'
  BY <1>3, <1>4, RowsStay
<1>6. Held \subseteq Held'
  <2>1. Len(posts) = 1 /\ 1 \in DOMAIN posts
    BY <1>1, OnePost
  <2>2. posts[1].batch \in Seq(Reading) /\ buffer \in Seq(Reading)
    BY <1>1, <2>1, BatchFacts DEF TypeOK
  <2>3. Range(buffer') \subseteq Held'
    BY DEF Held
  <2>4. CASE posts[1].outcome = "ok" /\ buffer' = buffer
    <3>1. Held \subseteq Range(buffer)
      BY <1>1, <2>1, <2>4, HeldIs
    <3> QED
      BY <2>3, <2>4, <3>1
  <2>5. CASE buffer' = posts[1].batch \o buffer
    <3>1. Range(buffer') = Range(posts[1].batch) \cup Range(buffer)
      BY <2>2, <2>5, RangeConcatenation
    <3>2. Held \subseteq Range(posts[1].batch) \cup Range(buffer)
      BY <1>1, <2>1, HeldIs
    <3> QED
      BY <2>3, <3>1, <3>2
  <2> QED
    BY <2>4, <2>5 DEF FlushRoundEnds
<1>7. Delivered'
  BY <1>3, <1>4, <1>6 DEF Delivered
<1> QED
  BY <1>5, <1>7

LEMMA GatheredStored ==
  ASSUME Base, Stored, Gathered
  PROVE  Stored'
<1>1. TypeOK /\ Ledger /\ posts \in Seq(Post)
  BY DEF Base, TypeOK
<1>2. SUFFICES ASSUME faults' = 0 PROVE Rows' /\ Delivered'
  BY DEF Stored
<1>3. /\ UNCHANGED <<requests, produced, telemetry, faults>>
      /\ Answered
  BY DEF Gathered, processor, budgets
<1>4. Rows /\ Delivered
  BY <1>2, <1>3 DEF Stored
<1>5. Rows'
  BY <1>3, <1>4, RowsStay
<1>6. PICK gone : /\ dropped' = dropped \cup gone
                  /\ gone \cup Range(buffer') = Range(buffer) \cup Range(ReadingsOf("failed"))
  BY <1>1, GatheredEffect, Zenon
<1>7. Held \subseteq Range(buffer) \cup Range(ReadingsOf("failed"))
  <2>1. \A b \in 1..Len(posts) : posts[b].outcome # "ok" => posts[b].outcome = "failed"
    BY <1>1, <1>3, Posts, PostFields, Zenon DEF Answered
  <2>2. \A x : x \in Range(ReadingsOf("failed")) <=>
               \E b \in 1..Len(posts) : posts[b].outcome = "failed" /\ x \in Range(posts[b].batch)
    BY <1>1, <1>3, ReadingsSplit
  <2> QED
    BY <1>1, <2>1, <2>2, HeldIs
<1>8. Range(buffer') \subseteq Held'
  BY DEF Held
<1>9. Delivered'
  BY <1>3, <1>4, <1>6, <1>7, <1>8 DEF Delivered
<1> QED
  BY <1>5, <1>9

LEMMA StoredStep ==
  Base /\ Stored /\ [Next]_vars => Stored'
<1> SUFFICES ASSUME Base, Stored, [Next]_vars PROVE Stored'
  OBVIOUS
<1>1. CASE Tick
  BY <1>1, TickStored
<1>2. CASE Gathered
  BY <1>2, GatheredStored
<1>3. CASE FlushRound
  BY <1>3, FlushRoundStored
<1>4. CASE FlushRoundEnds
  BY <1>4, FlushRoundEndsStored
<1>5. CASE \/ Flushed \/ (\E l \in Locomotive : AddLocomotive(l) \/ RemoveLocomotive(l))
           \/ UNCHANGED vars
  <2>1. UNCHANGED <<requests, posts, buffer, produced, dropped, telemetry, faults>>
    BY <1>5 DEF Flushed, AddLocomotive, RemoveLocomotive, vars, simulator, processor, budgets
  <2>2. Held' = Held
    BY <2>1 DEF Held, InPosts
  <2> QED
    BY <2>1, <2>2 DEF Stored, Rows, Delivered
<1>6. ASSUME NEW b \in DOMAIN posts, AttemptFails(b) PROVE Stored'
  BY <1>6, AttemptFailsStored
<1>7. ASSUME NEW q \in DOMAIN requests, Handler(q) PROVE Stored'
  BY <1>7, HandlerStored, AnswerStored
<1>8. ASSUME NEW p \in Process, Restart(p) PROVE Stored'
  BY <1>8, RestartStored
<1> QED
  BY <1>1, <1>2, <1>3, <1>4, <1>5, <1>6, <1>7, <1>8 DEF Next, Runner

\* TelemetryIngest.SentIsStored, runner.py:302 and router_ingest.py:227: while no call to
\* Redis fails, a reading leaves the simulator's hands only into the telemetry stream,
\* however many answers are lost, requests are sent twice and processes restart.
THEOREM NothingSentIsLost ==
  Spec => []SentIsStored
<1>1. Init => Stored
  BY DEF Init, Stored, Rows, Delivered
<1>2. Stored => SentIsStored
  BY DEF Stored, Delivered, SentIsStored
<1> QED
  BY <1>1, <1>2, StoredStep, BaseAlways, PTL DEF Spec

-----------------------------------------------------------------------------
(* While at most one call fails, every answer arrives and no process       *)
(* restarts, the readings on their way are those of the last tick.         *)

\* A handler's step that fails at most one call.
LEMMA HandlerOrders ==
  ASSUME Base, Orderly, NEW q \in DOMAIN requests, NEW p, NEW a, NEW n, NEW o, NEW h,
         Moves(q, p, a, n, o, h), requests[q].at # "gone", a # "gone",
         UNCHANGED <<simulator, timeouts, restarts>>,
         \/ faults' = faults /\ a # "error"
         \/ faults' = faults + 1,
         \A x \in Process, l \in Locomotive : ema'[x][l] = ema[x][l] \/ ema'[x][l] = clock
  PROVE  Orderly'
<1>1. PICK r \in Request : Becomes(q, r) /\ r.batch = requests[q].batch /\ r.at = a
  BY DEF Moves
<1>2. SUFFICES ASSUME Calm' PROVE Awaited' /\ OneLost' /\ FlushedOnce' /\ Newest'
  BY DEF Orderly
<1>3. TypeOK /\ PostsOK /\ faults \in Nat /\ clock \in Nat
  BY IngestAssumption, SMTT(30) DEF Base, TypeOK
<1>4. Calm
  BY <1>2, <1>3 DEF Calm
<1>5. Awaited /\ OneLost /\ FlushedOnce /\ Newest
  BY <1>4 DEF Orderly
<1>6. /\ posts' = posts /\ buffer' = buffer /\ place' = place /\ clock' = clock
      /\ retries' = retries
  BY DEF simulator
<1>7. /\ Len(requests') = Len(requests) /\ requests'[q].at = a
      /\ \A x \in 1..Len(requests) : x # q => requests'[x] = requests[x]
  BY <1>1 DEF Becomes
<1>8. \A b \in 1..Len(posts) : posts[b].request \in 1..Len(requests)
  BY <1>3 DEF PostsOK, Bound
<1>9. Awaited'
  <2> SUFFICES
        /\ \A x \in 1..Len(requests) : requests'[x].at # "gone" =>
              \E b \in 1..Len(posts) : posts[b].request = x /\ posts[b].outcome = "out"
        /\ \A b \in 1..Len(posts) : posts[b].outcome = "out" =>
              requests'[posts[b].request].at # "gone"
    BY <1>5, <1>6, <1>7 DEF Awaited
  <2>1. \A x \in 1..Len(requests) : requests'[x].at # "gone" => requests[x].at # "gone"
    BY <1>7
  <2>2. \A x \in 1..Len(requests) : requests[x].at # "gone" => requests'[x].at # "gone"
    BY <1>7
  <2> QED
    BY <1>5, <1>8, <2>1, <2>2, Zenon DEF Awaited
<1>10. ASSUME NEW b \in 1..Len(posts), Lost(b)'
       PROVE  \/ Lost(b) /\ faults' = faults
              \/ posts[b].request = q /\ faults = 0 /\ faults' = 1
  <2>1. \/ posts[b].outcome = "failed"
        \/ posts[b].outcome = "out" /\ requests'[posts[b].request].at = "error"
    BY <1>6, <1>10 DEF Lost
  <2>2. CASE faults' = faults
    <3>1. requests'[posts[b].request].at = "error" => requests[posts[b].request].at = "error"
      BY <1>3, <1>7, <1>8, <2>2
    <3> QED
      BY <2>1, <2>2, <3>1 DEF Lost
  <2>3. CASE faults' = faults + 1
    <3>1. faults = 0 /\ faults' = 1
      BY <1>2, <1>3, <2>3 DEF Calm
    <3>2. ~ Lost(b)
      BY <1>5, <3>1 DEF OneLost
    <3>3. posts[b].request = q
      BY <1>7, <1>8, <2>1, <3>2 DEF Lost
    <3> QED
      BY <3>1, <3>3
  <2> QED
    BY <2>2, <2>3
<1>11. OneLost'
  <2>1. ASSUME NEW b \in 1..Len(posts), Lost(b)' PROVE faults' = 1
    BY <1>5, <1>10, <2>1 DEF OneLost
  <2>2. ASSUME NEW b \in 1..Len(posts), NEW c \in 1..Len(posts), Lost(b)', Lost(c)'
        PROVE  b = c
    <3>1. \/ Lost(b) /\ faults' = faults
          \/ posts[b].request = q /\ faults = 0 /\ faults' = 1
      BY <1>10, <2>2
    <3>2. \/ Lost(c) /\ faults' = faults
          \/ posts[c].request = q /\ faults = 0 /\ faults' = 1
      BY <1>10, <2>2
    <3> QED
      BY <1>5, <3>1, <3>2 DEF OneLost, Awaited
  <2> QED
    BY <1>6, <2>1, <2>2 DEF OneLost
<1>12. FlushedOnce'
  <2>1. ASSUME place = "flush" PROVE faults' = 1 /\ \A b \in 1..Len(posts) : ~ Lost(b)'
    <3>1. faults = 1 /\ faults' = 1
      BY <1>2, <1>3, <1>5, <2>1 DEF FlushedOnce, Calm
    <3> QED
      BY <1>5, <1>10, <2>1, <3>1 DEF FlushedOnce
  <2> QED
    BY <1>5, <1>6, <2>1 DEF FlushedOnce
<1>13. Newest'
  <2>1. Pending' = Pending
    BY <1>6 DEF Pending, Unsent
  <2>2. \A x \in Process, l \in Locomotive : ema'[x][l] <= clock
    BY <1>3, <1>5 DEF Newest
  <2> QED
    BY <1>5, <1>6, <2>1, <2>2 DEF Newest
<1> QED
  BY <1>9, <1>11, <1>12, <1>13

\* In the calm, the reading a handler works on is of the last tick.
LEMMA CurrentIsNewest ==
  ASSUME Base, Orderly, Calm, NEW q \in DOMAIN requests,
         requests[q].at \in {"filter", "read", "write", "return"}
  PROVE  \E b \in 1..Len(posts) :
            /\ posts[b].request = q
            /\ Current(q) \in Range(posts[b].batch)
            /\ Current(q).tick = clock
<1>1. TypeOK /\ RequestsOK /\ PostsOK /\ Awaited /\ Newest
  BY DEF Base, Orderly
<1>2. PICK b \in 1..Len(posts) : posts[b].request = q /\ posts[b].outcome = "out"
  BY <1>1, HandlerFacts DEF Awaited
<1>3. requests[q].batch = posts[b].batch
  BY <1>1, <1>2 DEF PostsOK, Bound
<1>4. Current(q) \in Range(posts[b].batch)
  BY <1>1, <1>3, CurrentFacts
<1>5. Range(posts[b].batch) \subseteq Range(Pending)
  BY <1>1, <1>2, Posts, BatchFacts
<1> QED
  BY <1>1, <1>2, <1>4, <1>5 DEF Newest

LEMMA HandlerOrderly ==
  ASSUME Base, Orderly, NEW q \in DOMAIN requests, Handler(q), ~ Answer(q)
  PROVE  Orderly'
<1>0. TypeOK /\ RequestsOK
  BY DEF Base
<1>1. CASE Arrive(q)
  <2>1. PICK p \in Process :
          Moves(q, p, "filter", requests[q].n, requests[q].old, requests[q].health)
    BY <1>1, ArriveMoves
  <2> QED
    BY <1>1, <2>1, HandlerOrders DEF Arrive, budgets
<1>2. CASE Filter(q)
  <2>1. CASE Calm
    <3>1. requests[q].at = "filter" /\ UNCHANGED <<simulator, timeouts, restarts, faults>>
      BY <1>2 DEF Filter, budgets
    <3>2. Current(q).tick = clock
      BY <2>1, <3>1, CurrentIsNewest
    <3>3. requests[q].process \in Process /\ Current(q).loco \in Locomotive
      BY <1>0, <3>1, CurrentFacts
    <3>4. \A x \in Process, l \in Locomotive : ema'[x][l] = ema[x][l] \/ ema'[x][l] = clock
      BY <1>0, <1>2, <3>2, <3>3, Zenon DEF Filter, TypeOK
    <3> QED
      BY <1>2, <3>1, <3>4, FilterMoves, HandlerOrders
  <2>2. CASE ~ Calm
    BY <1>2, <2>2 DEF Filter, budgets, Calm, Orderly
  <2> QED
    BY <2>1, <2>2
<1>3. CASE Cold(q)
  <2>1. AfterReading(q) \in {"filter", "xadd"}
    BY DEF AfterReading
  <2> QED
    BY <1>3, <2>1, ColdMoves, HandlerOrders, Zenon DEF Cold, budgets
<1>4. CASE HotRead(q)
  <2>1. Moves(q, requests[q].process, "write", requests[q].n,
              damage[requests[q].process][Current(q).loco],
              requests[q].health)
    BY <1>4, HotReadMoves
  <2>2. requests[q].at # "gone" /\ UNCHANGED <<simulator, timeouts, restarts, faults, ema>>
    BY <1>4 DEF HotRead, budgets
  <2> QED
    BY <2>1, <2>2, HandlerOrders
<1>5. CASE HotWrite(q)
  <2>1. Moves(q, requests[q].process, "return", requests[q].n, 0,
              requests[q].health)
    BY <1>5, HotWriteMoves
  <2>2. requests[q].at # "gone" /\ UNCHANGED <<simulator, timeouts, restarts, faults, ema>>
    BY <1>5 DEF HotWrite, budgets
  <2> QED
    BY <2>1, <2>2, HandlerOrders
<1>6. CASE HotReturn(q)
  <2>1. AfterReading(q) \in {"filter", "xadd"}
    BY DEF AfterReading
  <2> QED
    BY <1>6, <2>1, HotReturnMoves, HandlerOrders, Zenon DEF HotReturn, budgets
<1>7. CASE ReadingFails(q)
  <2>1. AfterReading(q) \in {"filter", "xadd"}
    BY DEF AfterReading
  <2> QED
    BY <1>7, <2>1, ReadingFailsMoves, HandlerOrders, Zenon DEF ReadingFails, Fault
<1>8. CASE AddRows(q)
  <2>1. Moves(q, requests[q].process, "publish", requests[q].n, requests[q].old,
              requests[q].health)
    BY <1>8, AddRowsMoves, Zenon DEF AddRows
  <2> QED
    BY <1>8, <2>1, HandlerOrders DEF AddRows, Fault
<1>9. CASE Publish(q)
  <2>1. requests[q].at = "publish" /\ UNCHANGED <<simulator, timeouts, restarts, ema>>
    BY <1>9 DEF Publish
  <2>2. CASE requests' = [requests EXCEPT ![q].at = "accepted"] /\ faults' = faults
    <3>1. Moves(q, requests[q].process, "accepted", requests[q].n, requests[q].old,
                requests[q].health)
      BY <2>1, <2>2, PublishMoves, Zenon
    <3> QED
      BY <2>1, <2>2, <3>1, HandlerOrders
  <2>3. CASE requests' = [requests EXCEPT ![q].at = "error"] /\ Fault
    <3>1. Moves(q, requests[q].process, "error", requests[q].n, requests[q].old,
                requests[q].health)
      BY <2>1, <2>3, PublishMoves, Zenon
    <3> QED
      BY <2>1, <2>3, <3>1, HandlerOrders DEF Fault
  <2> QED
    BY <1>0, <1>9, <2>2, <2>3, PublishFacts
<1> QED
  BY <1>1, <1>2, <1>3, <1>4, <1>5, <1>6, <1>7, <1>8, <1>9 DEF Handler

LEMMA AnswerOrderly ==
  ASSUME Base, Orderly, NEW q \in DOMAIN requests, Answer(q)
  PROVE  Orderly'
<1>1. TypeOK /\ RequestsOK /\ PostsOK
  BY DEF Base
<1>2. SUFFICES ASSUME Calm' PROVE Awaited' /\ OneLost' /\ FlushedOnce' /\ Newest'
  BY DEF Orderly
<1>3. /\ UNCHANGED <<place, buffer, retries, clock, ema, faults, timeouts, restarts>>
      /\ requests[q].at \in {"accepted", "error"}
  BY DEF Answer, budgets
<1>4. Awaited /\ OneLost /\ FlushedOnce /\ Newest
  BY <1>2, <1>3 DEF Orderly, Calm
<1>5. /\ Len(requests') = Len(requests) /\ requests'[q].at = "gone"
      /\ \A x \in 1..Len(requests) : x # q => requests'[x] = requests[x]
      /\ posts' \in Seq(Post) /\ Len(posts') = Len(posts)
      /\ \A b \in 1..Len(posts) :
           /\ posts'[b].batch = posts[b].batch /\ posts'[b].request = posts[b].request
           /\ posts'[b].outcome =
                 IF posts[b].request = q /\ posts[b].outcome = "out"
                 THEN IF requests[q].at = "accepted" THEN "ok" ELSE "failed"
                 ELSE posts[b].outcome
  BY <1>1, AnswerEffect, ClosedType DEF Becomes
<1>6. \A b \in 1..Len(posts) : posts[b].request \in 1..Len(requests)
  BY <1>1 DEF PostsOK, Bound
<1>7. Awaited'
  <2>1. ASSUME NEW x \in 1..Len(requests), requests'[x].at # "gone"
        PROVE  \E b \in 1..Len(posts) : posts'[b].request = x /\ posts'[b].outcome = "out"
    <3>1. x # q /\ requests[x].at # "gone"
      BY <1>5, <2>1
    <3>2. PICK b \in 1..Len(posts) : posts[b].request = x /\ posts[b].outcome = "out"
      BY <1>4, <3>1, Zenon DEF Awaited
    <3> QED
      BY <1>5, <3>1, <3>2
  <2>2. ASSUME NEW b \in 1..Len(posts), posts'[b].outcome = "out"
        PROVE  requests'[posts'[b].request].at # "gone"
    <3>1. posts[b].outcome = "out" /\ posts[b].request # q
      BY <1>5, <2>2
    <3> QED
      BY <1>4, <1>5, <1>6, <3>1 DEF Awaited
  <2>3. \A b, c \in 1..Len(posts) : posts'[b].request = posts'[c].request => b = c
    BY <1>4, <1>5 DEF Awaited
  <2> QED
    BY <1>5, <2>1, <2>2, <2>3 DEF Awaited
<1>8. ASSUME NEW b \in 1..Len(posts), Lost(b)' PROVE Lost(b)
  <2>1. \/ posts'[b].outcome = "failed"
        \/ posts'[b].outcome = "out" /\ requests'[posts'[b].request].at = "error"
    BY <1>8 DEF Lost
  <2>2. CASE posts[b].request = q /\ posts[b].outcome = "out"
    BY <1>3, <1>5, <2>1, <2>2 DEF Lost
  <2>3. CASE ~ (posts[b].request = q /\ posts[b].outcome = "out")
    <3>1. posts'[b].outcome = posts[b].outcome /\ posts'[b].request = posts[b].request
      BY <1>5, <2>3
    <3>2. CASE posts[b].outcome = "failed"
      BY <3>2 DEF Lost
    <3>3. CASE posts[b].outcome = "out" /\ requests'[posts[b].request].at = "error"
      BY <1>5, <1>6, <2>3, <3>3 DEF Lost
    <3> QED
      BY <2>1, <3>1, <3>2, <3>3
  <2> QED
    BY <2>2, <2>3
<1>9. OneLost'
  <2>1. \A b \in 1..Len(posts) : Lost(b)' => faults' = 1
    BY <1>3, <1>4, <1>8 DEF OneLost
  <2>2. \A b, c \in 1..Len(posts) : Lost(b)' /\ Lost(c)' => b = c
    BY <1>4, <1>8 DEF OneLost
  <2> QED
    BY <1>5, <2>1, <2>2 DEF OneLost
<1>10. FlushedOnce'
  <2>1. posts = <<>> => posts' = <<>>
    BY <1>1, <1>5, Posts, EmptySeq
  <2>2. place = "flush" => \A b \in 1..Len(posts) : ~ Lost(b)'
    BY <1>4, <1>8 DEF FlushedOnce
  <2> QED
    BY <1>3, <1>4, <1>5, <2>1, <2>2 DEF FlushedOnce
<1>11. Newest'
  <2>1. Pending' = Pending
    BY <1>1, <1>3, <1>5, SamePending
  <2> QED
    BY <1>3, <1>4, <2>1 DEF Newest
<1> QED
  BY <1>7, <1>9, <1>10, <1>11

\* In the calm an attempt fails only by an answer, and no process restarts.
LEMMA FailsOrderly ==
  ASSUME Base, Orderly,
         \/ \E b \in DOMAIN posts : AttemptFails(b)
         \/ \E p \in Process : Restart(p)
  PROVE  Orderly'
<1>1. TypeOK /\ timeouts \in Nat /\ restarts \in Nat
  BY IngestAssumption, SMTT(30) DEF Base, TypeOK
<1>2. SUFFICES ASSUME Calm' PROVE FALSE
  BY DEF Orderly
<1>3. ASSUME NEW b \in DOMAIN posts, AttemptFails(b) PROVE FALSE
  <2>0. \/ requests[posts[b].request].at = "gone" /\ timeouts' = timeouts
        \/ timeouts' = timeouts + 1
    BY <1>3, Zenon DEF AttemptFails
  <2>1. timeouts' = timeouts /\ requests[posts[b].request].at = "gone"
    BY <1>1, <1>2, <2>0 DEF Calm
  <2>4. posts[b].outcome = "out" /\ UNCHANGED <<faults, restarts>>
    BY <1>3, Zenon DEF AttemptFails
  <2>2. Awaited
    BY <1>2, <2>1, <2>4 DEF Orderly, Calm
  <2>3. b \in 1..Len(posts)
    BY <1>1, Posts
  <2> QED
    BY <2>1, <2>2, <2>3, <2>4 DEF Awaited
<1>4. ASSUME NEW p \in Process, Restart(p) PROVE FALSE
  BY <1>1, <1>2, <1>4 DEF Restart, Calm
<1> QED
  BY <1>3, <1>4

\* New batches sent, after every other handler has gone.
LEMMA SendOrders ==
  ASSUME TypeOK, NEW batches \in Seq(Seq(Reading)), Send(batches),
         \A b \in 1..Len(batches) : batches[b] # <<>> /\ Range(batches[b]) \subseteq produced',
         \A x \in 1..Len(requests) : requests[x].at = "gone"
  PROVE  Awaited' /\ \A b \in 1..Len(posts') : ~ Lost(b)'
<1>1. /\ Len(posts') = Len(batches)
      /\ \A b \in 1..Len(batches) :
           /\ posts'[b].outcome = "out" /\ posts'[b].request = Len(requests) + b
      /\ Len(requests') = Len(requests) + Len(batches)
      /\ \A x \in 1..Len(requests) : requests'[x] = requests[x]
      /\ \A b \in 1..Len(batches) : requests'[Len(requests) + b] = NewRequest(batches[b])
  BY SendEffect
<1>2. Len(batches) \in Nat /\ Len(requests) \in Nat
  BY Requests, LenProperties
<1>3. \A b \in 1..Len(batches) : requests'[Len(requests) + b].at = "arriving"
  BY <1>1, NewRequestIs, RecFields
<1>4. ASSUME NEW x \in 1..Len(requests'), requests'[x].at # "gone"
      PROVE  \E b \in 1..Len(posts') : posts'[b].request = x /\ posts'[b].outcome = "out"
  <2>1. x \notin 1..Len(requests)
    BY <1>1, <1>4
  <2>2. x - Len(requests) \in 1..Len(batches) /\ x = Len(requests) + (x - Len(requests))
    BY <1>1, <1>2, <2>1
  <2> QED
    BY <1>1, <2>2, Zenon
<1>5. \A b, c \in 1..Len(posts') : posts'[b].request = posts'[c].request => b = c
  BY <1>1, <1>2
<1>6. \A b \in 1..Len(posts') : requests'[posts'[b].request].at = "arriving"
  BY <1>1, <1>3
<1>7. \A b \in 1..Len(posts') : ~ Lost(b)'
  BY <1>1, <1>6 DEF Lost
<1>8. Awaited'
  BY <1>4, <1>5, <1>6, Zenon DEF Awaited
<1> QED
  BY <1>7, <1>8

\* Between two gathers every handler has gone.
LEMMA AllGone ==
  ASSUME Awaited, \A b \in 1..Len(posts) : posts[b].outcome # "out"
  PROVE  \A x \in 1..Len(requests) : requests[x].at = "gone"
BY DEF Awaited

LEMMA NobodyWaits ==
  ASSUME posts' = <<>>, \A x \in 1..Len(requests') : requests'[x].at = "gone"
  PROVE  Awaited' /\ OneLost'
<1>1. Len(posts') = 0 /\ \A b : b \notin 1..0
  OBVIOUS
<1> QED
  BY <1>1 DEF Awaited, OneLost

LEMMA TickOrderly ==
  ASSUME Base, Orderly, Tick
  PROVE  Orderly'
<1>1. TypeOK /\ posts = <<>> /\ Len(posts) = 0 /\ place = "sleep" /\ clock \in 0..MaxTicks
      /\ MaxTicks \in Nat
  BY IngestAssumption, Zenon DEF Base, Tick, PlaceOK, TypeOK
<1>2. SUFFICES ASSUME Calm' PROVE Awaited' /\ OneLost' /\ FlushedOnce' /\ Newest'
  BY DEF Orderly
<1>3. /\ UNCHANGED <<buffer, ema, faults, timeouts, restarts>>
      /\ place' = "gather"
      /\ clock' = (IF clock = MaxTicks THEN clock ELSE clock + 1)
  BY DEF Tick, budgets
<1>4. Awaited /\ OneLost /\ FlushedOnce /\ Newest
  BY <1>2, <1>3 DEF Orderly, Calm
<1>5. buffer = <<>> /\ buffer' = <<>>
  BY <1>1, <1>3, <1>4 DEF FlushedOnce
<1>6. PICK made, readings :
            /\ made = Made
            /\ readings \in Seq(Reading) /\ Range(readings) = made
            /\ Batches(readings) \in Seq(Seq(Reading))
            /\ \A b \in 1..Len(Batches(readings)) :
                  /\ Batches(readings)[b] # <<>>
                  /\ Range(Batches(readings)[b]) \subseteq produced'
            /\ Send(Batches(readings))
            /\ Unsent' = readings
  BY TickEffect
<1>7. \A x \in 1..Len(requests) : requests[x].at = "gone"
  <2>1. \A b \in 1..Len(posts) : posts[b].outcome # "out"
    BY <1>1
  <2> QED
    BY <1>4, <2>1, AllGone
<1>8. Awaited' /\ \A b \in 1..Len(posts') : ~ Lost(b)'
  <2>1. \A b \in 1..Len(Batches(readings)) :
           Batches(readings)[b] # <<>> /\ Range(Batches(readings)[b]) \subseteq produced'
    BY <1>6
  <2>2. Batches(readings) \in Seq(Seq(Reading)) /\ Send(Batches(readings))
    BY <1>6
  <2> QED
    BY <1>1, <1>7, <2>1, <2>2, SendOrders
<1>9. OneLost' /\ FlushedOnce'
  BY <1>3, <1>5, <1>8 DEF OneLost, FlushedOnce
<1>10. Newest'
  <2>1. Pending' = readings
    <3>1. readings \o <<>> = readings
      BY <1>6, ConcatEmptySeq
    <3> QED
      BY <1>5, <1>6, <3>1, Zenon DEF Pending
  <2>2. \A r \in Range(readings) : r.tick = clock + 1 /\ clock # MaxTicks
    BY <1>6, MadeFacts
  <2>3. \A r \in Range(Pending') : r.tick = clock'
    BY <1>3, <2>1, <2>2
  <2>4. \A p \in Process, l \in Locomotive : ema'[p][l] <= clock'
    <3>1. \A p \in Process, l \in Locomotive : ema[p][l] \in Nat /\ ema[p][l] <= clock
      BY <1>1, <1>4 DEF Newest, TypeOK
    <3> QED
      BY <1>1, <1>3, <3>1
  <2> QED
    BY <2>3, <2>4 DEF Newest
<1> QED
  BY <1>8, <1>9, <1>10

LEMMA FlushRoundOrderly ==
  ASSUME Base, Orderly, FlushRound
  PROVE  Orderly'
<1>1. TypeOK /\ posts = <<>> /\ Len(posts) = 0 /\ place = "flush"
  BY DEF Base, FlushRound
<1>2. SUFFICES ASSUME Calm' PROVE Awaited' /\ OneLost' /\ FlushedOnce' /\ Newest'
  BY DEF Orderly
<1>3. UNCHANGED <<place, clock, produced, ema, faults, timeouts, restarts>>
  BY DEF FlushRound, budgets
<1>4. Awaited /\ OneLost /\ FlushedOnce /\ Newest
  BY <1>2, <1>3 DEF Orderly, Calm
<1>5. PICK batch, left \in Seq(Reading) :
            /\ batch # <<>> /\ batch \o left = buffer
            /\ (Len(buffer) <= BatchSize => left = <<>>)
            /\ Send(<<batch>>) /\ buffer' = left
            /\ <<batch>> \in Seq(Seq(Reading)) /\ Len(<<batch>>) = 1 /\ <<batch>>[1] = batch
            /\ Range(batch) \subseteq produced /\ Unsent' = batch
  BY FlushRoundEffect, Zenon
<1>6. Len(buffer) <= BatchSize /\ faults = 1 /\ buffer' = <<>>
  BY <1>1, <1>4, <1>5 DEF FlushedOnce
<1>7. \A x \in 1..Len(requests) : requests[x].at = "gone"
  <2>1. \A b \in 1..Len(posts) : posts[b].outcome # "out"
    BY <1>1
  <2> QED
    BY <1>4, <2>1, AllGone
<1>8. Awaited' /\ \A b \in 1..Len(posts') : ~ Lost(b)'
  <2>1. \A b \in 1..Len(<<batch>>) : <<batch>>[b] # <<>> /\ Range(<<batch>>[b]) \subseteq produced'
    <3>1. \A b \in 1..Len(<<batch>>) : b = 1
      BY <1>5
    <3>2. batch # <<>> /\ Range(batch) \subseteq produced' /\ <<batch>>[1] = batch
      BY <1>3, <1>5
    <3> QED
      BY <3>1, <3>2, Zenon
  <2>2. Send(<<batch>>) /\ <<batch>> \in Seq(Seq(Reading))
    BY <1>5
  <2> QED
    BY <1>1, <1>7, <2>1, <2>2, SendOrders, Zenon
<1>9. OneLost'
  BY <1>8 DEF OneLost
<1>10. FlushedOnce'
  <2>1. Len(buffer') = 0 /\ 0 <= BatchSize
    BY <1>6, IngestAssumption
  <2> QED
    BY <1>1, <1>3, <1>6, <1>8, <2>1 DEF FlushedOnce
<1>11. Newest'
  <2>1. Pending = buffer
    BY <1>1, NoPosts
  <2>2. Pending' = batch \o left
    BY <1>5, Zenon DEF Pending
  <2>3. Pending' = Pending
    BY <1>5, <2>1, <2>2, Zenon
  <2> QED
    BY <1>3, <1>4, <2>3 DEF Newest
<1> QED
  BY <1>8, <1>9, <1>10, <1>11

LEMMA FlushRoundEndsOrderly ==
  ASSUME Base, Orderly, FlushRoundEnds
  PROVE  Orderly'
<1>1. TypeOK /\ place = "flush" /\ posts # <<>> /\ Answered /\ Len(posts) <= 1
      /\ Len(posts) = 1 /\ DOMAIN posts = 1..1
  <2>1. TypeOK /\ place = "flush" /\ posts # <<>> /\ Answered /\ Len(posts) <= 1
    BY DEF Base, FlushRoundEnds, PlaceOK
  <2>2. Len(posts) = 1
    BY <2>1, OnePost
  <2> QED
    BY <2>1, <2>2, Posts
<1>2. SUFFICES ASSUME Calm' PROVE Awaited' /\ OneLost' /\ FlushedOnce' /\ Newest'
  BY DEF Orderly
<1>3. /\ UNCHANGED <<requests, retries, clock, ema, faults, timeouts, restarts>>
      /\ posts' = <<>>
  BY DEF FlushRoundEnds, processor, budgets
<1>4. Awaited /\ OneLost /\ FlushedOnce /\ Newest
  BY <1>2, <1>3 DEF Orderly, Calm
<1>5. ~ Lost(1) /\ buffer = <<>> /\ faults = 1
  BY <1>1, <1>4 DEF FlushedOnce
<1>6. place' = "flush" /\ buffer' = <<>>
  BY <1>1, <1>5 DEF FlushRoundEnds, Lost
<1>7. Awaited' /\ OneLost'
  <2>1. \A b \in 1..Len(posts) : posts[b].outcome # "out"
    BY <1>1 DEF Answered
  <2>2. \A x \in 1..Len(requests) : requests[x].at = "gone"
    BY <1>4, <2>1, AllGone
  <2> QED
    BY <1>3, <2>2, NobodyWaits
<1>8. FlushedOnce'
  <2>1. Len(posts') = 0 /\ Len(buffer') = 0 /\ 0 <= BatchSize /\ \A b : b \notin 1..0
    BY <1>3, <1>6, IngestAssumption
  <2> QED
    BY <1>3, <1>5, <1>6, <2>1 DEF FlushedOnce
<1>9. Newest'
  <2>1. Pending' = <<>>
    <3>1. <<>> \in Seq(Reading)
      OBVIOUS
    <3> QED
      BY <1>1, <1>3, <1>6, <3>1, NoPostsAfter
  <2>2. Range(<<>>) = {}
    BY DEF Range
  <2> QED
    BY <1>3, <1>4, <2>1, <2>2 DEF Newest
<1> QED
  BY <1>7, <1>8, <1>9

LEMMA GatheredOrderly ==
  ASSUME Base, Orderly, Gathered
  PROVE  Orderly'
<1>1. /\ TypeOK /\ Ledger /\ PostsOK /\ place = "gather" /\ Answered
      /\ posts \in Seq(Post) /\ DOMAIN posts = 1..Len(posts)
  BY Posts DEF Base, Gathered
<1>2. SUFFICES ASSUME Calm' PROVE Awaited' /\ OneLost' /\ FlushedOnce' /\ Newest'
  BY DEF Orderly
<1>3. /\ UNCHANGED <<requests, clock, ema, faults, timeouts, restarts>>
      /\ posts' = <<>>
      /\ \/ buffer' = <<>> /\ place' = "sleep"
         \/ /\ buffer' # <<>> /\ place' = "flush"
            /\ retries' = Smaller(3, (Len(buffer') \div BatchSize) + 1)
  BY DEF Gathered, MustFlush, processor, budgets
<1>4. Awaited /\ OneLost /\ FlushedOnce /\ Newest
  BY <1>2, <1>3 DEF Orderly, Calm
<1>5. buffer = <<>>
  BY <1>1, <1>4 DEF FlushedOnce
<1>6. /\ ReadingsOf("failed") \in Seq(Reading)
      /\ Range(ReadingsOf("failed")) \subseteq Range(Unsent)
      /\ \A x : x \in Range(ReadingsOf("failed")) <=>
                \E b \in 1..Len(posts) : posts[b].outcome = "failed" /\ x \in Range(posts[b].batch)
  BY <1>1, ReadingsSplit
<1>7. /\ buffer' \in Seq(Reading) /\ IsInjective(buffer')
      /\ Range(buffer') \subseteq Range(ReadingsOf("failed"))
  <2>1. PICK gone : gone \cup Range(buffer') = Range(buffer) \cup Range(ReadingsOf("failed"))
    BY <1>1, GatheredEffect, Zenon
  <2>2. Range(<<>>) = {}
    BY DEF Range
  <2> QED
    BY <1>1, <1>5, <2>1, <2>2, GatheredEffect
<1>8. Awaited' /\ OneLost'
  <2>1. \A b \in 1..Len(posts) : posts[b].outcome # "out"
    BY <1>1 DEF Answered
  <2>2. \A x \in 1..Len(requests) : requests[x].at = "gone"
    BY <1>4, <2>1, AllGone
  <2> QED
    BY <1>3, <2>2, NobodyWaits
<1>9. ASSUME buffer' # <<>> PROVE faults = 1 /\ Len(buffer') <= BatchSize
  <2>1. Len(buffer') \in Nat \ {0}
    BY <1>7, <1>9, EmptySeq, LenProperties
  <2>2. buffer'[1] \in Range(buffer')
    BY <1>7, <2>1, RangeEquality
  <2>3. PICK b \in 1..Len(posts) :
           posts[b].outcome = "failed" /\ buffer'[1] \in Range(posts[b].batch)
    BY <1>6, <1>7, <2>2
  <2>4. Lost(b) /\ faults = 1
    BY <1>4, <2>3 DEF Lost, OneLost
  <2>5. Range(buffer') \subseteq Range(posts[b].batch)
    <3>1. \A c \in 1..Len(posts) : posts[c].outcome = "failed" => c = b
      BY <1>4, <2>4 DEF Lost, OneLost
    <3> QED
      BY <1>6, <1>7, <3>1
  <2>6. /\ posts[b].batch \in Seq(Reading)
        /\ Len(posts[b].batch) <= BatchSize
    BY <1>1, Posts, PostFields DEF PostsOK
  <2>7. IsFiniteSet(Range(posts[b].batch))
        /\ Cardinality(Range(posts[b].batch)) <= Len(posts[b].batch)
    BY <2>6, RangeAtMost
  <2>8. Cardinality(Range(buffer')) <= Cardinality(Range(posts[b].batch))
    BY <2>5, <2>7, FS_Subset
  <2>9. Cardinality(Range(buffer')) = Len(buffer')
    BY <1>7, RangeCardinality
  <2>10. BatchSize \in Nat /\ Len(posts[b].batch) \in Nat
         /\ Cardinality(Range(posts[b].batch)) \in Nat
    BY <2>6, <2>7, IngestAssumption, LenProperties, FS_CardinalityType, Zenon
  <2> QED
    BY <2>1, <2>4, <2>6, <2>7, <2>8, <2>9, <2>10
<1>10. FlushedOnce'
  <2>1. Len(posts') = 0 /\ \A b : b \notin 1..0
    BY <1>3
  <2>2. CASE buffer' = <<>> /\ place' = "sleep"
    BY <2>2 DEF FlushedOnce
  <2>3. CASE /\ buffer' # <<>> /\ place' = "flush"
             /\ retries' = Smaller(3, (Len(buffer') \div BatchSize) + 1)
    <3>1. Len(buffer') \div BatchSize \in Nat
      BY <1>7, IngestAssumption, LenProperties, Division
    <3>2. retries' > 0
      BY <2>3, <3>1 DEF Smaller
    <3> QED
      BY <1>3, <1>9, <2>1, <2>3, <3>2 DEF FlushedOnce
  <2> QED
    BY <1>3, <2>2, <2>3
<1>11. Newest'
  <2>1. Pending' = buffer'
    BY <1>1, <1>3, <1>7, NoPostsAfter
  <2>2. Range(buffer') \subseteq Range(Pending)
    BY <1>1, <1>6, <1>7, UnsentApart
  <2> QED
    BY <1>3, <1>4, <2>1, <2>2 DEF Newest
<1> QED
  BY <1>8, <1>10, <1>11

LEMMA FlushedOrderly ==
  ASSUME Base, Orderly,
         \/ Flushed \/ (\E l \in Locomotive : AddLocomotive(l) \/ RemoveLocomotive(l))
         \/ UNCHANGED vars
  PROVE  Orderly'
<1>1. UNCHANGED <<requests, posts, buffer, retries, clock, ema, faults, timeouts, restarts>>
  BY DEF Flushed, AddLocomotive, RemoveLocomotive, vars, simulator, processor, budgets
<1>2. SUFFICES ASSUME Calm' PROVE Awaited' /\ OneLost' /\ FlushedOnce' /\ Newest'
  BY DEF Orderly
<1>3. Awaited /\ OneLost /\ FlushedOnce /\ Newest
  BY <1>1, <1>2 DEF Orderly, Calm
<1>4. place' = place \/ (place' = "sleep" /\ buffer = <<>>)
  <2>1. CASE Flushed
    BY <1>3, <2>1 DEF Flushed, FlushedOnce
  <2>2. CASE place' = place
    BY <2>2
  <2> QED
    BY <2>1, <2>2 DEF AddLocomotive, RemoveLocomotive, vars, simulator
<1>5. Pending' = Pending
  BY <1>1 DEF Pending, Unsent
<1>6. \A b \in 1..Len(posts) : Lost(b)' <=> Lost(b)
  BY <1>1 DEF Lost
<1>7. Awaited' /\ OneLost'
  BY <1>1, <1>3, <1>6 DEF Awaited, OneLost
<1>8. FlushedOnce' /\ Newest'
  BY <1>1, <1>3, <1>4, <1>5, <1>6 DEF FlushedOnce, Newest
<1> QED
  BY <1>7, <1>8

LEMMA OrderlyStep ==
  Base /\ Orderly /\ [Next]_vars => Orderly'
<1> SUFFICES ASSUME Base, Orderly, [Next]_vars PROVE Orderly'
  OBVIOUS
<1>1. CASE Tick
  BY <1>1, TickOrderly
<1>2. CASE Gathered
  BY <1>2, GatheredOrderly
<1>3. CASE FlushRound
  BY <1>3, FlushRoundOrderly
<1>4. CASE FlushRoundEnds
  BY <1>4, FlushRoundEndsOrderly
<1>5. CASE \/ Flushed \/ (\E l \in Locomotive : AddLocomotive(l) \/ RemoveLocomotive(l))
           \/ UNCHANGED vars
  BY <1>5, FlushedOrderly
<1>6. ASSUME NEW b \in DOMAIN posts, AttemptFails(b) PROVE Orderly'
  BY <1>6, FailsOrderly
<1>7. ASSUME NEW q \in DOMAIN requests, Handler(q) PROVE Orderly'
  BY <1>7, HandlerOrderly, AnswerOrderly
<1>8. ASSUME NEW p \in Process, Restart(p) PROVE Orderly'
  BY <1>8, FailsOrderly
<1> QED
  BY <1>1, <1>2, <1>3, <1>4, <1>5, <1>6, <1>7, <1>8 DEF Next, Runner

LEMMA OrderlyInit ==
  Init => Orderly
<1> SUFFICES ASSUME Init PROVE Orderly
  OBVIOUS
<1>1. /\ posts = <<>> /\ buffer = <<>> /\ requests = <<>> /\ place = "sleep" /\ clock = 0
      /\ ema = [p \in Process |-> [l \in Locomotive |-> 0]]
  BY DEF Init
<1>2. Len(posts) = 0 /\ Len(requests) = 0 /\ \A b : b \notin 1..0
  BY <1>1
<1>3. Awaited /\ OneLost
  BY <1>2 DEF Awaited, OneLost
<1>4. FlushedOnce
  BY <1>1 DEF FlushedOnce
<1>5. Newest
  <2>1. Pending = <<>>
    BY <1>1, BaseInit, NoPosts DEF Base
  <2>2. Range(<<>>) = {}
    BY DEF Range
  <2> QED
    BY <1>1, <2>1, <2>2 DEF Newest
<1> QED
  BY <1>3, <1>4, <1>5 DEF Orderly

\* The invariant of the order.
LEMMA OrderlyAlways ==
  Spec => []Orderly
<1> QED
  BY OrderlyInit, OrderlyStep, BaseAlways, PTL DEF Spec

\* TelemetryIngest.FilterInOrder, filter_service.py:3: a filter takes in the readings of a
\* locomotive in the order of their ticks, though a batch whose call failed is sent again:
\* it is sent and answered before the next tick makes its readings.
THEOREM TheFilterRunsForward ==
  Spec => FilterInOrder
<1>1. ASSUME Base, Orderly, Next, timeouts = 0, restarts' = 0, faults <= 1,
             NEW p \in Process, NEW l \in Locomotive
      PROVE  ema'[p][l] >= ema[p][l]
  <2>1. TypeOK /\ RequestsOK /\ restarts \in Nat /\ ema[p][l] \in Nat
    <3>1. TypeOK /\ RequestsOK
      BY <1>1 DEF Base
    <3> QED
      BY <1>1, <3>1, IngestAssumption, SMTT(30) DEF TypeOK
  <2>2. CASE ema' = ema
    BY <2>1, <2>2
  <2>3. ASSUME NEW q \in DOMAIN requests, Filter(q) PROVE ema'[p][l] >= ema[p][l]
    <3>1. requests[q].at = "filter" /\ restarts' = restarts
      BY <2>3 DEF Filter, budgets
    <3>2. Calm
      BY <1>1, <3>1 DEF Calm
    <3>3. Current(q).tick = clock /\ ema[p][l] <= clock
      BY <1>1, <3>1, <3>2, CurrentIsNewest DEF Orderly, Newest
    <3>4. requests[q].process \in Process /\ Current(q).loco \in Locomotive
      BY <2>1, <3>1, CurrentFacts
    <3>5. ema'[p][l] = ema[p][l] \/ ema'[p][l] = clock
      BY <2>1, <2>3, <3>3, <3>4, Zenon DEF Filter, TypeOK
    <3> QED
      BY <2>1, <3>3, <3>5
  <2>4. ASSUME NEW x \in Process, Restart(x) PROVE FALSE
    BY <1>1, <2>1, <2>4 DEF Restart
  <2>5. CASE Runner \/ \E x \in Locomotive : AddLocomotive(x) \/ RemoveLocomotive(x)
    BY <2>2, <2>5 DEF Runner, Tick, Gathered, FlushRound, FlushRoundEnds, Flushed,
       AddLocomotive, RemoveLocomotive, processor
  <2>6. ASSUME NEW b \in DOMAIN posts, AttemptFails(b) PROVE ema' = ema
    BY <2>6 DEF AttemptFails
  <2>7. ASSUME NEW q \in DOMAIN requests, Handler(q), ~ Filter(q) PROVE ema' = ema
    BY <2>7, Zenon DEF Handler, Arrive, Cold, HotRead, HotWrite, HotReturn, ReadingFails, AddRows,
       Publish, Answer
  <2> QED
    BY <1>1, <2>2, <2>3, <2>4, <2>5, <2>6, <2>7 DEF Next
<1>2. Base /\ Orderly /\ [Next]_vars =>
        [timeouts = 0 /\ restarts' = 0 /\ faults <= 1 =>
            \A p \in Process, l \in Locomotive : ema'[p][l] >= ema[p][l]]_vars
  BY <1>1
<1> QED
  BY <1>2, BaseAlways, OrderlyAlways, PTL DEF Spec, FilterInOrder

-----------------------------------------------------------------------------
(* One worker process shows a damage that only grows.                      *)

LEMMA HealthFacts ==
  ASSUME TypeOK, RequestsOK, NEW q \in DOMAIN requests,
         NEW i \in 1..Len(requests[q].health)
  PROVE  /\ requests[q].health[i][1] \in 1..Len(requests[q].batch)
         /\ requests[q].batch[requests[q].health[i][1]] \in Range(requests[q].batch)
         /\ requests[q].batch[requests[q].health[i][1]].loco \in Locomotive
         /\ requests[q].health[i][2] \in Nat
<1>1. /\ requests[q].health[i][1] \in 1..Len(requests[q].batch)
      /\ requests[q].batch \in Seq(Reading) /\ requests[q].health \in Seq(Nat \X Nat)
  BY HandlerFacts DEF RequestOK
<1>2. requests[q].health[i] \in Nat \X Nat
  BY <1>1, ElementOfSeq
<1>3. requests[q].batch[requests[q].health[i][1]] \in Reading
  BY <1>1, ElementOfSeq, Zenon
<1>4. requests[q].batch[requests[q].health[i][1]] \in Range(requests[q].batch)
  BY <1>1, RangeEquality, Zenon
<1> QED
  BY <1>1, <1>2, <1>3, <1>4, Zenon DEF Reading

\* In the calm a locomotive is in the batch of one handler at a time.
LEMMA OneHandler ==
  ASSUME Base, Orderly, Calm, NEW q \in DOMAIN requests, NEW x \in DOMAIN requests,
         requests[q].at # "gone", requests[x].at # "gone",
         NEW r \in Range(requests[q].batch), NEW t \in Range(requests[x].batch),
         r.loco = t.loco
  PROVE  q = x
<1>1. TypeOK /\ RequestsOK /\ PostsOK /\ Ledger /\ Awaited /\ Newest
  BY DEF Base, Orderly
<1>2. q \in 1..Len(requests) /\ x \in 1..Len(requests)
  BY <1>1, Requests
<1>3. PICK b \in 1..Len(posts) : posts[b].request = q
  BY <1>1, <1>2 DEF Awaited
<1>4. PICK c \in 1..Len(posts) : posts[c].request = x
  BY <1>1, <1>2 DEF Awaited
<1>5. requests[q].batch = posts[b].batch /\ requests[x].batch = posts[c].batch
  BY <1>1, <1>3, <1>4, Zenon DEF PostsOK, Bound
<1>6. /\ posts[b].batch \in Seq(Reading) /\ Range(posts[b].batch) \subseteq Range(Pending)
      /\ posts[c].batch \in Seq(Reading) /\ Range(posts[c].batch) \subseteq Range(Pending)
  BY <1>1, <1>3, <1>4, Posts, BatchFacts
<1>7. r.tick = clock /\ t.tick = clock
  BY <1>1, <1>5, <1>6 DEF Newest
<1>8. r \in Reading /\ t \in Reading
  BY <1>1, <1>5, <1>6 DEF Ledger, TypeOK
<1>9. r = t
  BY <1>7, <1>8 DEF Reading
<1>10. ASSUME b # c PROVE FALSE
  <2> DEFINE seqs == [k \in DOMAIN posts |-> posts[k].batch]
  <2>1. /\ seqs \in Seq(Seq(Reading)) /\ Len(seqs) = Len(posts)
        /\ IsInjective(FlattenSeq(seqs))
    BY <1>1, BatchedType, UnsentApart DEF Unsent
  <2>2. seqs[b] = posts[b].batch /\ seqs[c] = posts[c].batch
    BY <1>1, <1>3, <1>4, Posts
  <2> HIDE DEF seqs
  <2>3. Range(seqs[b]) \cap Range(seqs[c]) = {}
    BY <1>10, <2>1, FlattenApart, Zenon
  <2> QED
    BY <1>5, <1>9, <2>2, <2>3
<1> QED
  BY <1>3, <1>4, <1>10

\* A handler's step that writes no damage and shows none.
LEMMA HandlerSounds ==
  ASSUME Base, Sound, NEW q \in DOMAIN requests, NEW p, NEW a, NEW n, NEW o, NEW h,
         Moves(q, p, a, n, o, h), UNCHANGED <<damage, shown, timeouts, restarts>>,
         faults' = faults \/ faults' = faults + 1,
         Calm => /\ a = "write" => o = damage[p][requests[q].batch[n].loco]
                 /\ a \in Running => \A i \in 1..Len(h) :
                                       EntrySound(requests[q].batch, h[i], shown, damage)
  PROVE  Sound'
<1>1. PICK r \in Request :
        /\ Becomes(q, r) /\ r.batch = requests[q].batch /\ r.process = p /\ r.at = a
        /\ r.n = n /\ r.old = o /\ r.health = h
  BY DEF Moves
<1>2. SUFFICES ASSUME Calm'
               PROVE  /\ \A x \in Process, l \in Locomotive : shown[l] <= damage[x][l]
                      /\ \A x \in 1..Len(requests) : RequestSound(requests'[x], shown, damage)
  BY <1>1 DEF Sound, Becomes
<1>3. faults \in Nat
  BY IngestAssumption, SMTT(30) DEF Base, TypeOK
<1>4. Calm
  BY <1>2, <1>3 DEF Calm
<1>5. RequestSound(r, shown, damage)
  BY <1>1, <1>4 DEF RequestSound
<1>6. \A x \in 1..Len(requests) : RequestSound(requests'[x], shown, damage)
  BY <1>1, <1>4, <1>5 DEF Sound, Becomes
<1> QED
  BY <1>4, <1>6 DEF Sound

\* The health computed has the damage of the state.
LEMMA ComputedSound ==
  ASSUME Base, Sound, Alone, Calm, NEW q \in DOMAIN requests,
         requests[q].at \in {"read", "return"}
  PROVE  LET total == damage[requests[q].process][Current(q).loco]
             h == Append(requests[q].health, <<requests[q].n, total>>)
         IN  \A i \in 1..Len(h) : EntrySound(requests[q].batch, h[i], shown, damage)
<1> DEFINE total == damage[requests[q].process][Current(q).loco]
           e == <<requests[q].n, total>>
           h == Append(requests[q].health, e)
<1>1. TypeOK /\ RequestsOK /\ q \in 1..Len(requests)
  BY HandlerFacts DEF Base
<1>2. /\ requests[q].process \in Process /\ Current(q).loco \in Locomotive
      /\ total \in Nat
  BY <1>1, CurrentFacts
<1>3. e[1] = requests[q].n /\ e[2] = total /\ e \in Nat \X Nat
  BY <1>1, <1>2, HandlerFacts
<1>4. /\ shown[Current(q).loco] <= total
      /\ \A p \in Process : damage[p][Current(q).loco] = total
  BY <1>2 DEF Sound, Alone
<1> HIDE DEF total
<1>5. EntrySound(requests[q].batch, e, shown, damage)
  BY <1>2, <1>3, <1>4 DEF EntrySound, Current
<1>6. requests[q].health \in Seq(Nat \X Nat) /\ Len(requests[q].health) \in Nat
  BY <1>1, HandlerFacts
<1> HIDE DEF e
<1>7. /\ Len(h) = Len(requests[q].health) + 1 /\ h[Len(requests[q].health) + 1] = e
      /\ \A i \in 1..Len(requests[q].health) : h[i] = requests[q].health[i]
  BY <1>3, <1>6, AppendProperties
<1> HIDE DEF h
<1>8. \A i \in 1..Len(requests[q].health) :
         EntrySound(requests[q].batch, requests[q].health[i], shown, damage)
  BY <1>1 DEF Sound, RequestSound, Running, Working
<1>9. \A i \in 1..Len(h) : EntrySound(requests[q].batch, h[i], shown, damage)
  <2> SUFFICES ASSUME NEW i \in 1..Len(h)
               PROVE  EntrySound(requests[q].batch, h[i], shown, damage)
    OBVIOUS
  <2>1. i = Len(requests[q].health) + 1 \/ i \in 1..Len(requests[q].health)
    BY <1>6, <1>7
  <2>2. h[i] = e \/ (i \in 1..Len(requests[q].health) /\ h[i] = requests[q].health[i])
    BY <1>7, <2>1, Zenon
  <2>3. CASE h[i] = e
    BY <1>5, <2>3, Zenon
  <2>4. CASE i \in 1..Len(requests[q].health) /\ h[i] = requests[q].health[i]
    BY <1>8, <2>4, Zenon
  <2> QED
    BY <2>2, <2>3, <2>4
<1> QED
  BY <1>9 DEF h, e, total

LEMMA HotWriteSound ==
  ASSUME Base, Orderly, Sound, Alone, NEW q \in DOMAIN requests, HotWrite(q)
  PROVE  Sound'
<1> DEFINE l == Current(q).loco
           w == requests[q].process
<1>1. /\ TypeOK /\ RequestsOK /\ q \in 1..Len(requests) /\ requests[q].at = "write"
      /\ w \in Process /\ l \in Locomotive
  BY HandlerFacts, CurrentFacts DEF Base, HotWrite
<1>2. UNCHANGED <<shown, timeouts, restarts, faults>>
  BY DEF HotWrite, budgets
<1>3. SUFFICES ASSUME Calm
               PROVE  /\ \A p \in Process, k \in Locomotive : shown[k] <= damage'[p][k]
                      /\ \A x \in 1..Len(requests') : RequestSound(requests'[x], shown, damage')
  BY <1>2 DEF Sound, Calm
<1>4. requests[q].old = damage[w][l]
  BY <1>1, <1>3 DEF Sound, RequestSound, Current
<1>5. damage' = [damage EXCEPT ![w][l] = damage[w][l] + 1]
  BY <1>4 DEF HotWrite
<1> DEFINE m == l
<1> HIDE DEF l, w
<1>6. \A p \in Process, k \in Locomotive :
         /\ damage[p][k] \in Nat /\ shown[k] \in Nat
         /\ damage'[p][k] = IF p = w /\ k = l THEN damage[p][k] + 1 ELSE damage[p][k]
  BY <1>1, <1>5 DEF TypeOK
<1>7. \A p \in Process, k \in Locomotive : damage[p][k] <= damage'[p][k]
  BY <1>6
<1>8. \A p \in Process, k \in Locomotive : shown[k] <= damage'[p][k]
  BY <1>3, <1>6, <1>7 DEF Sound
<1>9. PICK r \in Request : Becomes(q, r) /\ r.at = "return" /\ r.batch = requests[q].batch
                           /\ r.health = requests[q].health
  BY HotWriteMoves DEF Moves
<1>10. ASSUME NEW x \in 1..Len(requests), requests[x].at \in Running,
              NEW i \in 1..Len(requests[x].health)
       PROVE  EntrySound(requests[x].batch, requests[x].health[i], shown, damage')
  <2>1. EntrySound(requests[x].batch, requests[x].health[i], shown, damage)
    BY <1>3, <1>10 DEF Sound, RequestSound
  <2>2. /\ requests[x].batch[requests[x].health[i][1]].loco \in Locomotive
        /\ requests[x].health[i][2] \in Nat
    BY <1>1, <1>10, Requests, HealthFacts
  <2> DEFINE k == requests[x].batch[requests[x].health[i][1]].loco
             v == requests[x].health[i][2]
  <2>3. shown[k] <= v /\ \A p \in Process : v <= damage[p][k]
    BY <2>1, Zenon DEF EntrySound
  <2> HIDE DEF k, v
  <2>4. \A p \in Process : v <= damage'[p][k]
    <3> TAKE p \in Process
    <3>1. k \in Locomotive /\ v \in Nat
      BY <2>2 DEF k, v
    <3>2. damage[p][k] \in Nat /\ damage'[p][k] \in Nat /\ damage[p][k] <= damage'[p][k]
      BY <1>6, <1>7, <3>1
    <3>3. v <= damage[p][k]
      BY <2>3
    <3> HIDE DEF k, v
    <3> QED
      BY <3>1, <3>2, <3>3
  <2> QED
    BY <2>3, <2>4, Zenon DEF EntrySound, k, v
<1>11. ASSUME NEW x \in 1..Len(requests), x # q, requests[x].at = "write"
       PROVE  requests[x].old = damage'[requests[x].process][requests[x].batch[requests[x].n].loco]
  <2>1. /\ requests[x].process \in Process /\ Current(x).loco \in Locomotive
        /\ Current(x) \in Range(requests[x].batch) /\ Current(q) \in Range(requests[q].batch)
    BY <1>1, <1>11, Requests, CurrentFacts
  <2>2. Current(x).loco # Current(q).loco
    BY <1>1, <1>3, <1>11, <2>1, Requests, OneHandler
  <2>3. requests[x].old = damage[requests[x].process][Current(x).loco]
    BY <1>3, <1>11 DEF Sound, RequestSound, Current
  <2> QED
    BY <1>6, <2>1, <2>2, <2>3 DEF l, Current
<1>12. \A x \in 1..Len(requests) : RequestSound(requests'[x], shown, damage')
  <2> TAKE x \in 1..Len(requests)
  <2>1. CASE x = q
    <3>1. requests'[x] = r /\ "write" \in Running
      BY <1>9, <2>1 DEF Becomes, Running, Working
    <3> QED
      BY <1>1, <1>9, <1>10, <2>1, <3>1 DEF RequestSound
  <2>2. CASE x # q
    <3>1. requests'[x] = requests[x]
      BY <1>9, <2>2 DEF Becomes
    <3> QED
      BY <1>10, <1>11, <2>2, <3>1 DEF RequestSound
  <2> QED
    BY <2>1, <2>2
<1> QED
  BY <1>8, <1>9, <1>12 DEF Becomes

\* What a handler shows is no less than what was shown, and no more than the state's damage.
LEMMA ShownGrows ==
  ASSUME Base, Sound, Calm, NEW q \in DOMAIN requests, Publish(q), NEW l \in Locomotive
  PROVE  /\ shown[l] <= shown'[l]
         /\ \A p \in Process : shown'[l] <= damage[p][l]
         /\ shown'[l] # shown[l] => \E r \in Range(requests[q].batch) : r.loco = l
<1>1. TypeOK /\ RequestsOK /\ q \in 1..Len(requests) /\ requests[q].at = "publish"
  BY HandlerFacts DEF Base, Publish
<1>2. shown[l] \in Nat /\ \A p \in Process : shown[l] <= damage[p][l]
  BY <1>1 DEF TypeOK, Sound
<1>3. \/ shown'[l] = shown[l]
      \/ \E i \in 1..Len(requests[q].health) :
             /\ requests[q].batch[requests[q].health[i][1]].loco = l
             /\ shown'[l] = requests[q].health[i][2]
  <2>1. PICK k \in 0..Len(requests[q].health) : Show(q, k)
    BY <1>1, PublishFacts
  <2> QED
    BY <1>1, <2>1, ShowFacts
<1>4. ASSUME NEW i \in 1..Len(requests[q].health),
             requests[q].batch[requests[q].health[i][1]].loco = l,
             shown'[l] = requests[q].health[i][2]
      PROVE  /\ shown[l] <= shown'[l]
             /\ \A p \in Process : shown'[l] <= damage[p][l]
             /\ \E r \in Range(requests[q].batch) : r.loco = l
  <2>1. EntrySound(requests[q].batch, requests[q].health[i], shown, damage)
    BY <1>1, <1>4 DEF Sound, RequestSound, Running, Working
  <2>2. requests[q].batch[requests[q].health[i][1]] \in Range(requests[q].batch)
    BY <1>1, HealthFacts
  <2> QED
    BY <1>4, <2>1, <2>2 DEF EntrySound
<1> QED
  BY <1>2, <1>3, <1>4

LEMMA PublishSound ==
  ASSUME Base, Orderly, Sound, NEW q \in DOMAIN requests, Publish(q)
  PROVE  Sound'
<1>1. TypeOK /\ RequestsOK /\ q \in 1..Len(requests) /\ requests[q].at = "publish"
  BY HandlerFacts DEF Base, Publish
<1>2. UNCHANGED <<damage, timeouts, restarts>>
  BY DEF Publish
<1>3. SUFFICES ASSUME Calm'
               PROVE  /\ \A p \in Process, l \in Locomotive : shown'[l] <= damage[p][l]
                      /\ \A x \in 1..Len(requests') : RequestSound(requests'[x], shown', damage)
  BY <1>2 DEF Sound
<1>4. Calm
  <2>1. faults \in Nat /\ (faults' = faults \/ faults' = faults + 1)
    BY <1>1, PublishFacts, IngestAssumption, SMTT(30) DEF Fault, TypeOK
  <2> QED
    BY <1>2, <1>3, <2>1 DEF Calm
<1>5. PICK a \in {"accepted", "error"} :
        Moves(q, requests[q].process, a, requests[q].n, requests[q].old, requests[q].health)
  <2>1. \E a \in {"accepted", "error"} : requests' = [requests EXCEPT ![q].at = a]
    BY <1>1, PublishFacts
  <2> QED
    BY <1>1, <2>1, PublishMoves, Zenon
<1>6. PICK r \in Request : Becomes(q, r) /\ r.at = a
  BY <1>5 DEF Moves
<1>7. \A p \in Process, l \in Locomotive : shown'[l] <= damage[p][l]
  BY <1>4, ShownGrows
<1>8. ASSUME NEW x \in 1..Len(requests), x # q, requests[x].at \in Running,
             NEW i \in 1..Len(requests[x].health)
      PROVE  EntrySound(requests[x].batch, requests[x].health[i], shown', damage)
  <2> DEFINE t == requests[x].batch[requests[x].health[i][1]]
             l == t.loco
  <2>1. t \in Range(requests[x].batch) /\ l \in Locomotive
    BY <1>1, <1>8, Requests, HealthFacts, Zenon
  <2>2. requests[x].at # "gone" /\ requests[q].at # "gone"
    BY <1>1, <1>8 DEF Running, Working
  <2> HIDE DEF t
  <2>3. shown'[l] = shown[l]
    <3>1. ASSUME NEW u \in Range(requests[q].batch), u.loco = l PROVE FALSE
      BY <1>1, <1>4, <1>8, <2>1, <2>2, <3>1, Requests, OneHandler
    <3> QED
      BY <1>4, <2>1, <3>1, ShownGrows
  <2>4. EntrySound(requests[x].batch, requests[x].health[i], shown, damage)
    BY <1>4, <1>8 DEF Sound, RequestSound
  <2> QED
    BY <2>3, <2>4, Zenon DEF EntrySound, t
<1>9. \A x \in 1..Len(requests) : RequestSound(requests'[x], shown', damage)
  <2> TAKE x \in 1..Len(requests)
  <2>1. CASE x = q
    BY <1>6, <2>1 DEF Becomes, RequestSound, Running
  <2>2. CASE x # q
    <3>1. requests'[x] = requests[x]
      BY <1>6, <2>2 DEF Becomes
    <3>2. requests[x].at = "write" =>
             requests[x].old = damage[requests[x].process][requests[x].batch[requests[x].n].loco]
      BY <1>4 DEF Sound, RequestSound
    <3> QED
      BY <1>8, <2>2, <3>1, <3>2 DEF RequestSound
  <2> QED
    BY <2>1, <2>2
<1> QED
  BY <1>6, <1>7, <1>9 DEF Becomes

LEMMA HandlerSound ==
  ASSUME Base, Orderly, Sound, Alone, NEW q \in DOMAIN requests, Handler(q), ~ Answer(q)
  PROVE  Sound'
<1>0. TypeOK /\ RequestsOK /\ q \in 1..Len(requests)
  BY HandlerFacts DEF Base
<1>1. ASSUME Calm, requests[q].at \in Running
      PROVE  \A i \in 1..Len(requests[q].health) :
                EntrySound(requests[q].batch, requests[q].health[i], shown, damage)
  BY <1>0, <1>1 DEF Sound, RequestSound
<1>2. CASE Arrive(q)
  <2>1. PICK p \in Process :
          Moves(q, p, "filter", requests[q].n, requests[q].old, requests[q].health)
    BY <1>2, ArriveMoves
  <2>2. requests[q].at \in Running /\ UNCHANGED <<damage, shown, timeouts, restarts, faults>>
    BY <1>2 DEF Arrive, budgets, Running, Working
  <2> QED
    BY <1>1, <2>1, <2>2, HandlerSounds
<1>3. CASE Filter(q)
  <2>1. Moves(q, requests[q].process, "read", requests[q].n, requests[q].old, requests[q].health)
    BY <1>3, FilterMoves
  <2>2. requests[q].at \in Running /\ UNCHANGED <<damage, shown, timeouts, restarts, faults>>
    BY <1>3 DEF Filter, budgets, Running, Working
  <2> QED
    BY <1>1, <2>1, <2>2, HandlerSounds
<1>4. CASE HotRead(q)
  <2>1. Moves(q, requests[q].process, "write", requests[q].n,
              damage[requests[q].process][Current(q).loco], requests[q].health)
    BY <1>4, HotReadMoves
  <2>2. requests[q].at \in Running /\ UNCHANGED <<damage, shown, timeouts, restarts, faults>>
    BY <1>4 DEF HotRead, budgets, Running, Working
  <2>3. Current(q) = requests[q].batch[requests[q].n]
    BY DEF Current
  <2> QED
    BY <1>1, <2>1, <2>2, <2>3, HandlerSounds
<1>5. CASE Cold(q) \/ HotReturn(q)
  <2> DEFINE h == Append(requests[q].health,
                     <<requests[q].n, damage[requests[q].process][Current(q).loco]>>)
  <2>1. Moves(q, requests[q].process, AfterReading(q), requests[q].n + 1, requests[q].old, h)
    BY <1>5, ColdMoves, HotReturnMoves
  <2>2. /\ requests[q].at \in {"read", "return"}
        /\ UNCHANGED <<damage, shown, timeouts, restarts, faults>>
    BY <1>5 DEF Cold, HotReturn, budgets
  <2>3. AfterReading(q) # "write"
    BY DEF AfterReading
  <2>4. Calm => \A i \in 1..Len(h) : EntrySound(requests[q].batch, h[i], shown, damage)
    BY <2>2, ComputedSound
  <2> HIDE DEF h
  <2> QED
    BY <2>1, <2>2, <2>3, <2>4, HandlerSounds
<1>6. CASE ReadingFails(q)
  <2>1. Moves(q, requests[q].process, AfterReading(q), requests[q].n + 1, requests[q].old,
              requests[q].health)
    BY <1>6, ReadingFailsMoves
  <2>2. /\ requests[q].at \in Running /\ UNCHANGED <<damage, shown, timeouts, restarts>>
        /\ faults' = faults + 1
    BY <1>6 DEF ReadingFails, Fault, Running, Working
  <2>3. AfterReading(q) # "write"
    BY DEF AfterReading
  <2> QED
    BY <1>1, <2>1, <2>2, <2>3, HandlerSounds
<1>7. CASE AddRows(q)
  <2>1. Moves(q, requests[q].process, "publish", requests[q].n, requests[q].old,
              requests[q].health)
    BY <1>7, AddRowsMoves, Zenon DEF AddRows
  <2>2. /\ requests[q].at \in Running /\ UNCHANGED <<damage, shown, timeouts, restarts>>
        /\ faults' = faults \/ faults' = faults + 1
    BY <1>7 DEF AddRows, Fault, Running, Working
  <2> QED
    BY <1>1, <2>1, <2>2, HandlerSounds
<1>8. CASE HotWrite(q)
  BY <1>8, HotWriteSound
<1>9. CASE Publish(q)
  BY <1>9, PublishSound
<1> QED
  BY <1>2, <1>3, <1>4, <1>5, <1>6, <1>7, <1>8, <1>9 DEF Handler

\* A step of the simulator, an answer or a restart: handlers go or have yet to arrive.
LEMMA OthersSound ==
  ASSUME Base, Sound, UNCHANGED <<damage, shown, faults>>, Calm' => Calm,
         \A x \in 1..Len(requests') : \/ x \in 1..Len(requests) /\ requests'[x] = requests[x]
                                      \/ requests'[x].at = "gone"
                                      \/ requests'[x].at = "arriving" /\ requests'[x].health = <<>>
  PROVE  Sound'
<1>1. SUFFICES ASSUME Calm, NEW x \in 1..Len(requests')
               PROVE  RequestSound(requests'[x], shown, damage)
  BY DEF Sound
<1>2. CASE x \in 1..Len(requests) /\ requests'[x] = requests[x]
  BY <1>1, <1>2 DEF Sound
<1>3. CASE requests'[x].at = "gone"
  BY <1>3 DEF RequestSound, Running, Working
<1>4. CASE requests'[x].at = "arriving" /\ requests'[x].health = <<>>
  BY <1>4 DEF RequestSound
<1> QED
  BY <1>2, <1>3, <1>4

LEMMA SendSounds ==
  ASSUME TypeOK, NEW batches \in Seq(Seq(Reading)), Send(batches),
         \A b \in 1..Len(batches) : batches[b] # <<>> /\ Range(batches[b]) \subseteq produced'
  PROVE  \A x \in 1..Len(requests') : \/ x \in 1..Len(requests) /\ requests'[x] = requests[x]
                                      \/ requests'[x].at = "gone"
                                      \/ requests'[x].at = "arriving" /\ requests'[x].health = <<>>
<1>1. /\ Len(requests') = Len(requests) + Len(batches)
      /\ \A x \in 1..Len(requests) : requests'[x] = requests[x]
      /\ \A b \in 1..Len(batches) : requests'[Len(requests) + b] = NewRequest(batches[b])
  BY SendEffect, Zenon
<1>2. Len(batches) \in Nat /\ Len(requests) \in Nat
  BY Requests, LenProperties
<1>3. \A b \in 1..Len(batches) : /\ requests'[Len(requests) + b].at = "arriving"
                                 /\ requests'[Len(requests) + b].health = <<>>
  BY <1>1, NewRequestIs, RecFields
<1> SUFFICES ASSUME NEW x \in 1..Len(requests'), x \notin 1..Len(requests)
             PROVE  requests'[x].at = "arriving" /\ requests'[x].health = <<>>
  BY <1>1
<1>4. x - Len(requests) \in 1..Len(batches) /\ x = Len(requests) + (x - Len(requests))
  BY <1>1, <1>2
<1> QED
  BY <1>3, <1>4

LEMMA SoundStep ==
  ASSUME Alone
  PROVE  Base /\ Orderly /\ Sound /\ [Next]_vars => Sound'
<1> SUFFICES ASSUME Base, Orderly, Sound, [Next]_vars PROVE Sound'
  OBVIOUS
<1>0. TypeOK /\ RequestsOK /\ timeouts \in Nat /\ restarts \in Nat
  BY IngestAssumption, SMTT(30) DEF Base, TypeOK
<1>1. CASE Tick
  <2>1. UNCHANGED <<damage, shown, faults, timeouts, restarts>>
    BY <1>1 DEF Tick, budgets
  <2>2. PICK made, readings :
            /\ Batches(readings) \in Seq(Seq(Reading))
            /\ \A b \in 1..Len(Batches(readings)) :
                  Batches(readings)[b] # <<>> /\ Range(Batches(readings)[b]) \subseteq produced'
            /\ Send(Batches(readings))
    BY <1>1, TickEffect, Zenon
  <2> QED
    BY <1>0, <2>1, <2>2, SendSounds, OthersSound, Zenon DEF Calm
<1>2. CASE FlushRound
  <2>1. UNCHANGED <<damage, shown, faults, timeouts, restarts, produced>>
    BY <1>2 DEF FlushRound, budgets
  <2>2. PICK batch, left \in Seq(Reading) :
            /\ batch # <<>> /\ Send(<<batch>>)
            /\ <<batch>> \in Seq(Seq(Reading)) /\ Len(<<batch>>) = 1 /\ <<batch>>[1] = batch
            /\ Range(batch) \subseteq produced
    BY <1>2, FlushRoundEffect, Zenon
  <2>3. \A b \in 1..Len(<<batch>>) : <<batch>>[b] # <<>> /\ Range(<<batch>>[b]) \subseteq produced'
    <3>1. \A b \in 1..Len(<<batch>>) : b = 1
      BY <2>2
    <3>2. batch # <<>> /\ Range(batch) \subseteq produced' /\ <<batch>>[1] = batch
      BY <2>1, <2>2
    <3> QED
      BY <3>1, <3>2, Zenon
  <2>4. Send(<<batch>>) /\ <<batch>> \in Seq(Seq(Reading))
    BY <2>2
  <2> QED
    BY <1>0, <2>1, <2>3, <2>4, SendSounds, OthersSound, Zenon DEF Calm
<1>3. CASE \/ Gathered \/ FlushRoundEnds \/ Flushed \/ UNCHANGED vars
           \/ \E l \in Locomotive : AddLocomotive(l) \/ RemoveLocomotive(l)
  <2>1. UNCHANGED <<requests, damage, shown, faults, timeouts, restarts>>
    BY <1>3 DEF Gathered, FlushRoundEnds, Flushed, AddLocomotive, RemoveLocomotive, vars,
       simulator, processor, budgets
  <2> QED
    BY <2>1, OthersSound DEF Calm
<1>4. ASSUME NEW b \in DOMAIN posts, AttemptFails(b) PROVE Sound'
  <2>1. UNCHANGED <<damage, shown, faults, restarts>>
    BY <1>4 DEF AttemptFails
  <2>2. Calm' => Calm
    <3>1. timeouts' = timeouts \/ timeouts' = timeouts + 1
      BY <1>4, Zenon DEF AttemptFails
    <3> QED
      BY <1>0, <2>1, <3>1 DEF Calm
  <2>3. CASE Resent(b)
    <3> DEFINE r == NewRequest(posts[b].batch)
    <3>1. r \in Request /\ r.at = "arriving" /\ r.health = <<>>
      BY BatchFacts, NewRequestFacts
    <3>2. requests' = Append(requests, r) /\ requests \in Seq(Request) /\ Len(requests) \in Nat
      BY <1>0, <2>3, Requests DEF Resent
    <3> HIDE DEF r
    <3>3. /\ Len(requests') = Len(requests) + 1
          /\ requests'[Len(requests) + 1] = r
          /\ \A x \in 1..Len(requests) : requests'[x] = requests[x]
      BY <3>1, <3>2, AppendProperties
    <3>4. \A x \in 1..Len(requests') :
             \/ x \in 1..Len(requests) /\ requests'[x] = requests[x]
             \/ requests'[x].at = "arriving" /\ requests'[x].health = <<>>
      BY <3>1, <3>2, <3>3
    <3> QED
      BY <2>1, <2>2, <3>4, OthersSound
  <2>4. CASE GivenUp(b)
    BY <2>1, <2>2, <2>4, OthersSound DEF GivenUp
  <2> QED
    BY <1>0, <1>4, <2>3, <2>4, AttemptFailsEffect
<1>5. ASSUME NEW q \in DOMAIN requests, Handler(q) PROVE Sound'
  <2>1. CASE Answer(q)
    <3>1. UNCHANGED <<damage, shown, faults, timeouts, restarts>>
      BY <2>1 DEF Answer, budgets
    <3>2. \A x \in 1..Len(requests') : \/ x \in 1..Len(requests) /\ requests'[x] = requests[x]
                                       \/ requests'[x].at = "gone"
      BY <1>0, <2>1, AnswerEffect, ClosedType DEF Becomes
    <3> QED
      BY <3>1, <3>2, OthersSound DEF Calm
  <2> QED
    BY <1>5, <2>1, HandlerSound
<1>6. ASSUME NEW p \in Process, Restart(p) PROVE Sound'
  BY <1>0, <1>6 DEF Restart, Sound, Calm
<1> QED
  BY <1>1, <1>2, <1>3, <1>4, <1>5, <1>6 DEF Next, Runner

LEMMA SoundInit ==
  Init => Sound
<1> SUFFICES ASSUME Init PROVE Sound
  OBVIOUS
<1>1. /\ \A p \in Process, l \in Locomotive : shown[l] <= damage[p][l]
      /\ Len(requests) = 0
  BY DEF Init
<1> QED
  BY <1>1 DEF Sound

\* TelemetryIngest.DamageNeverShrinks, health_service.py:4-5: with one worker process, the
\* damage published for a locomotive never shrinks while every answer arrives, at most one
\* call fails and the process stays up.  Of two processes each keeps a damage of its own,
\* and the run `ingest_processes` shows the published one falling.
THEOREM DamageOfOneProcessGrows ==
  ASSUME Alone
  PROVE  Spec => DamageNeverShrinks
<1>1. ASSUME Base, Sound, Next, timeouts = 0, restarts = 0, faults <= 1, NEW l \in Locomotive
      PROVE  shown'[l] >= shown[l]
  <2>1. TypeOK /\ shown[l] \in Nat
    BY <1>1 DEF Base, TypeOK
  <2>2. CASE shown' = shown
    BY <2>1, <2>2
  <2>3. ASSUME NEW q \in DOMAIN requests, Publish(q) PROVE shown'[l] >= shown[l]
    <3>1. shown[l] <= shown'[l]
      BY <1>1, <2>3, ShownGrows DEF Calm
    <3>2. shown'[l] \in Nat
      BY <1>1, <2>3, PublishBase DEF Base, TypeOK
    <3> QED
      BY <2>1, <3>1, <3>2
  <2>4. CASE Runner \/ \E x \in Locomotive : AddLocomotive(x) \/ RemoveLocomotive(x)
    BY <2>2, <2>4 DEF Runner, Tick, Gathered, FlushRound, FlushRoundEnds, Flushed,
       AddLocomotive, RemoveLocomotive, processor
  <2>5. ASSUME NEW b \in DOMAIN posts, AttemptFails(b) PROVE shown' = shown
    BY <2>5 DEF AttemptFails
  <2>6. ASSUME NEW q \in DOMAIN requests, Handler(q), ~ Publish(q) PROVE shown' = shown
    BY <2>6, Zenon DEF Handler, Arrive, Filter, Cold, HotRead, HotWrite, HotReturn, ReadingFails,
       AddRows, Answer
  <2>7. ASSUME NEW p \in Process, Restart(p) PROVE shown' = shown
    BY <2>7 DEF Restart
  <2> QED
    BY <1>1, <2>2, <2>3, <2>4, <2>5, <2>6, <2>7 DEF Next
<1>2. Base /\ Sound /\ [Next]_vars =>
        [timeouts = 0 /\ restarts = 0 /\ faults <= 1 =>
            \A l \in Locomotive : shown'[l] >= shown[l]]_vars
  BY <1>1
<1>3. Base /\ Orderly /\ Sound /\ [Next]_vars => Sound'
  BY SoundStep
<1> QED
  BY <1>2, <1>3, SoundInit, BaseAlways, OrderlyAlways, PTL DEF Spec, DamageNeverShrinks
==============================================================================
