------------------------ MODULE FleetAggregatorProofs ------------------------
(***************************************************************************)
(* Theorems about the fleet aggregator and the health cache, for any fleet *)
(* and any number of messages, failing connections and restarts.           *)
(***************************************************************************)
EXTENDS FleetAggregator, SequenceTheorems, FiniteSetTheorems, TLAPS

-----------------------------------------------------------------------------
(* Type correctness.                                                       *)

LEMMA NothingIsTyped ==
    Nothing \in [summary : {<<>>} \cup [Category -> Nat], changes : Seq(Change)]
BY EmptySeq DEF Nothing

LEMMA SummaryIsTyped ==
    ASSUME NEW f \in Fleet
    PROVE  Summary(f) \in [Category -> Nat]
<1>1. ASSUME NEW c \in Category
      PROVE  Cardinality({l \in Locomotive : f[l] = c}) \in Nat
  <2>1. IsFiniteSet({l \in Locomotive : f[l] = c})
    BY FleetAssumption, FS_Subset
  <2> QED
    BY <2>1, FS_CardinalityType
<1> QED
  BY <1>1 DEF Summary

LEMMA ChangesOfIsTyped ==
    ASSUME fleet \in Fleet, NEW m \in Message
    PROVE  ChangesOf(m) \in Seq(Change)
<1>1. CASE fleet[m.loco] \in {Unknown, m.category}
  BY <1>1, EmptySeq DEF ChangesOf
<1>2. CASE fleet[m.loco] \notin {Unknown, m.category}
  <2>1. [loco |-> m.loco, old |-> fleet[m.loco], new |-> m.category] \in Change
    BY <1>2 DEF Change, Message, Fleet
  <2> QED
    BY <1>2, <2>1 DEF ChangesOf
<1> QED
  BY <1>1, <1>2

-----------------------------------------------------------------------------
(* Sequences of changes.                                                   *)

Mine(cs, l) == {i \in DOMAIN cs : cs[i].loco = l}

IsLast(cs, l, i) == i \in Mine(cs, l) /\ \A j \in Mine(cs, l) : j <= i

\* The last change of a locomotive, if it has one, exists.
HasLast(cs) == \A l \in Locomotive : Mine(cs, l) # {} => \E i \in Nat : IsLast(cs, l, i)

\* What ChangesChain says of one locomotive that subscribers believe is t and that is f.
Chained(cs, f, t, l) ==
    /\ Mine(cs, l) = {} => t \in {Unknown, f}
    /\ \A i \in Mine(cs, l) :
        /\ cs[i].old # cs[i].new
        /\ (\A j \in Mine(cs, l) : i <= j) => t \in {Unknown, cs[i].old}
        /\ (\A j \in Mine(cs, l) : j <= i) => cs[i].new = f
        /\ \A j \in Mine(cs, l) :
            i < j /\ (\A k \in Mine(cs, l) : k <= i \/ j <= k) => cs[j].old = cs[i].new

LEMMA MineIsNat ==
    ASSUME NEW cs \in Seq(Change), NEW l
    PROVE  /\ Mine(cs, l) \subseteq 1..Len(cs) /\ Len(cs) \in Nat
           /\ \A i \in Mine(cs, l) : cs[i] \in Change /\ cs[i].loco = l
BY DEF Mine

LEMMA MineOfAppend ==
    ASSUME NEW cs \in Seq(Change), NEW c \in Change, NEW l
    PROVE  /\ c.loco = l => Mine(Append(cs, c), l) = Mine(cs, l) \cup {Len(cs) + 1}
           /\ c.loco # l => Mine(Append(cs, c), l) = Mine(cs, l)
BY AppendProperties DEF Mine

LEMMA AppendHasLast ==
    ASSUME NEW cs \in Seq(Change), NEW c \in Change, HasLast(cs)
    PROVE  HasLast(Append(cs, c))
<1> SUFFICES ASSUME NEW l \in Locomotive, Mine(Append(cs, c), l) # {}
             PROVE  \E i \in Nat : IsLast(Append(cs, c), l, i)
  BY DEF HasLast
<1>1. CASE c.loco = l
  <2>1. IsLast(Append(cs, c), l, Len(cs) + 1)
    BY <1>1, MineOfAppend, MineIsNat, SMTT(30) DEF IsLast
  <2> QED
    BY <2>1
<1>2. CASE c.loco # l
  BY <1>2, MineOfAppend DEF HasLast, IsLast
<1> QED
  BY <1>1, <1>2

LEMMA AppendKeepsChain ==
    ASSUME NEW cs \in Seq(Change), NEW c \in Change, NEW l, NEW f, NEW g, NEW t,
           Chained(cs, f, t, l), f # Unknown,
           c.loco = l => c.old = f /\ c.new = g /\ f # g,
           c.loco # l => f = g
    PROVE  Chained(Append(cs, c), g, t, l)
<1> DEFINE ds == Append(cs, c)
           n == Len(cs)
<1>1. n \in Nat /\ Mine(cs, l) \subseteq 1..n
  BY MineIsNat
<1>2. \A i \in Mine(cs, l) : ds[i] = cs[i]
  BY <1>1, AppendProperties
<1>3. CASE c.loco # l
  <2>1. Mine(ds, l) = Mine(cs, l)
    BY <1>3, MineOfAppend
  <2> HIDE DEF ds
  <2> QED
    BY <1>2, <1>3, <2>1 DEF Chained, ds
<1>4. CASE c.loco = l
  <2>1. Mine(ds, l) = Mine(cs, l) \cup {n + 1}
    BY <1>4, MineOfAppend
  <2>2. ds[n + 1] = c
    BY AppendProperties
  <2> HIDE DEF ds, n
  <2>3. ASSUME NEW i \in Mine(ds, l)
        PROVE  /\ ds[i].old # ds[i].new
               /\ (\A j \in Mine(ds, l) : i <= j) => t \in {Unknown, ds[i].old}
               /\ (\A j \in Mine(ds, l) : j <= i) => ds[i].new = g
               /\ \A j \in Mine(ds, l) :
                    i < j /\ (\A k \in Mine(ds, l) : k <= i \/ j <= k) => ds[j].old = ds[i].new
    <3>1. CASE i = n + 1
      <4>1. \A j \in Mine(ds, l) : ~(i < j)
        BY <1>1, <2>1, <3>1
      <4>2. (\A j \in Mine(ds, l) : i <= j) => Mine(cs, l) = {}
        BY <1>1, <2>1, <3>1
      <4> QED
        BY <1>4, <2>2, <3>1, <4>1, <4>2 DEF Chained
    <3>2. CASE i \in Mine(cs, l)
      <4>1. ~ \A j \in Mine(ds, l) : j <= i
        <5>1. n + 1 \in Mine(ds, l) /\ ~(n + 1 <= i)
          BY <1>1, <2>1, <3>2
        <5> QED
          BY <5>1
      <4>2. ds[i].old # ds[i].new /\ ((\A j \in Mine(ds, l) : i <= j) => t \in {Unknown, ds[i].old})
        BY <1>2, <2>1, <3>2 DEF Chained
      <4>3. ASSUME NEW j \in Mine(ds, l), i < j, \A k \in Mine(ds, l) : k <= i \/ j <= k
            PROVE  ds[j].old = ds[i].new
        <5>1. CASE j = n + 1
          <6>1. \A k \in Mine(cs, l) : k <= i
            BY <1>1, <2>1, <4>3, <5>1
          <6> QED
            BY <1>2, <1>4, <2>2, <3>2, <5>1, <6>1 DEF Chained
        <5>2. CASE j \in Mine(cs, l)
          BY <1>2, <2>1, <3>2, <4>3, <5>2 DEF Chained
        <5> QED
          BY <2>1, <5>1, <5>2
      <4> QED
        BY <4>1, <4>2, <4>3
    <3> QED
      BY <2>1, <3>1, <3>2
  <2>4. Mine(ds, l) # {}
    BY <2>1
  <2> QED
    BY <2>3, <2>4 DEF Chained, ds
<1> QED
  BY <1>3, <1>4

\* The changes of a locomotive in a concatenation, and their places in it.
LEMMA MineOfConcat ==
    ASSUME NEW sc \in Seq(Change), NEW cs \in Seq(Change), NEW l
    PROVE  /\ \A i \in Mine(sc, l) : i \in Mine(sc \o cs, l) /\ (sc \o cs)[i] = sc[i]
           /\ \A i \in Mine(cs, l) :
                Len(sc) + i \in Mine(sc \o cs, l) /\ (sc \o cs)[Len(sc) + i] = cs[i]
           /\ \A j \in Mine(sc \o cs, l) :
                j \in Mine(sc, l) \/ (j - Len(sc) \in Mine(cs, l) /\ j > Len(sc))
<1>1. /\ sc \o cs \in Seq(Change) /\ Len(sc \o cs) = Len(sc) + Len(cs)
      /\ \A i \in 1..Len(sc) + Len(cs) :
            (sc \o cs)[i] = IF i <= Len(sc) THEN sc[i] ELSE cs[i - Len(sc)]
  BY ConcatProperties
<1>2. Len(sc) \in Nat /\ Len(cs) \in Nat
  OBVIOUS
<1>3. ASSUME NEW i \in Mine(sc, l)
      PROVE  i \in Mine(sc \o cs, l) /\ (sc \o cs)[i] = sc[i]
  BY <1>1, <1>2 DEF Mine
<1>4. ASSUME NEW i \in Mine(cs, l)
      PROVE  Len(sc) + i \in Mine(sc \o cs, l) /\ (sc \o cs)[Len(sc) + i] = cs[i]
  <2>1. i \in 1..Len(cs)
    BY DEF Mine
  <2>2. Len(sc) + i \in 1..Len(sc \o cs) /\ ~(Len(sc) + i <= Len(sc)) /\ Len(sc) + i - Len(sc) = i
    BY <1>1, <1>2, <2>1
  <2> DEFINE j == Len(sc) + i
  <2>3. (sc \o cs)[j] = cs[j - Len(sc)] /\ j - Len(sc) = i
    <3> HIDE DEF j
    <3>1. j \in 1..Len(sc) + Len(cs) /\ ~(j <= Len(sc)) /\ j - Len(sc) = i
      BY <1>2, <2>1 DEF j
    <3> QED
      BY <1>1, <3>1
  <2> QED
    BY <1>1, <2>2, <2>3 DEF Mine
<1>5. ASSUME NEW j \in Mine(sc \o cs, l)
      PROVE  j \in Mine(sc, l) \/ (j - Len(sc) \in Mine(cs, l) /\ j > Len(sc))
  <2>1. j \in 1..Len(sc) + Len(cs) /\ (sc \o cs)[j].loco = l
    BY <1>1 DEF Mine
  <2>2. CASE j <= Len(sc)
    BY <1>1, <1>2, <2>1, <2>2 DEF Mine
  <2>3. CASE ~(j <= Len(sc))
    BY <1>1, <1>2, <2>1, <2>3 DEF Mine
  <2> QED
    BY <2>2, <2>3
<1> QED
  BY <1>3, <1>4, <1>5

\* When the first changes sc reach a subscriber, or are lost, the rest still chain: it was
\* told what the last of sc says, or nothing.
LEMMA DropKeepsChain ==
    ASSUME NEW sc \in Seq(Change), NEW cs \in Seq(Change), NEW l, NEW f, NEW t, NEW u,
           Chained(sc \o cs, f, t, l),
           Mine(sc, l) = {} => u = t,
           Mine(sc, l) # {} => u = Unknown \/ \E i \in Mine(sc, l) : IsLast(sc, l, i) /\ u = sc[i].new
    PROVE  Chained(cs, f, u, l)
<1> DEFINE O == sc \o cs
           n == Len(sc)
<1>1. n \in Nat /\ Mine(sc, l) \subseteq 1..n /\ Mine(cs, l) \subseteq Nat \ {0}
      /\ Mine(O, l) \subseteq Nat
  <2>1. O \in Seq(Change)
    BY ConcatProperties
  <2> HIDE DEF O
  <2> QED
    BY <2>1, MineIsNat
<1>2. /\ \A i \in Mine(sc, l) : i \in Mine(O, l) /\ O[i] = sc[i]
      /\ \A i \in Mine(cs, l) : n + i \in Mine(O, l) /\ O[n + i] = cs[i]
      /\ \A j \in Mine(O, l) : j \in Mine(sc, l) \/ (j - n \in Mine(cs, l) /\ j > n)
  BY MineOfConcat
<1>3. Chained(O, f, t, l)
  OBVIOUS
<1> HIDE DEF O, n
<1>4. ASSUME Mine(cs, l) = {}
      PROVE  u \in {Unknown, f}
  <2>1. Mine(O, l) = Mine(sc, l)
    BY <1>2, <1>4
  <2>2. CASE Mine(sc, l) = {}
    BY <1>3, <2>1, <2>2 DEF Chained
  <2>3. CASE Mine(sc, l) # {} /\ u # Unknown
    <3>1. PICK i \in Mine(sc, l) : IsLast(sc, l, i) /\ u = sc[i].new
      BY <2>3
    <3>2. O[i].new = f
      BY <1>3, <2>1, <3>1 DEF Chained, IsLast
    <3> QED
      BY <1>2, <3>1, <3>2
  <2> QED
    BY <2>2, <2>3
<1>5. ASSUME NEW i \in Mine(cs, l)
      PROVE  /\ cs[i].old # cs[i].new
             /\ (\A j \in Mine(cs, l) : i <= j) => u \in {Unknown, cs[i].old}
             /\ (\A j \in Mine(cs, l) : j <= i) => cs[i].new = f
             /\ \A j \in Mine(cs, l) :
                  i < j /\ (\A k \in Mine(cs, l) : k <= i \/ j <= k) => cs[j].old = cs[i].new
  <2>1. n + i \in Mine(O, l) /\ O[n + i] = cs[i]
    BY <1>2
  <2>2. cs[i].old # cs[i].new
    BY <1>3, <2>1 DEF Chained
  <2>3. ASSUME \A j \in Mine(cs, l) : i <= j
        PROVE  u \in {Unknown, cs[i].old}
    <3>1. CASE Mine(sc, l) = {}
      <4>1. \A j \in Mine(O, l) : n + i <= j
        BY <1>1, <1>2, <2>3, <3>1
      <4> QED
        BY <1>3, <2>1, <3>1, <4>1 DEF Chained
    <3>2. CASE Mine(sc, l) # {} /\ u # Unknown
      <4>1. PICK k \in Mine(sc, l) : IsLast(sc, l, k) /\ u = sc[k].new
        BY <3>2
      <4>2. k \in Mine(O, l) /\ k < n + i /\ O[k] = sc[k]
        BY <1>1, <1>2, <4>1
      <4>3. ASSUME NEW j \in Mine(O, l)
            PROVE  j <= k \/ n + i <= j
        <5>1. CASE j \in Mine(sc, l)
          BY <4>1, <5>1 DEF IsLast
        <5>2. CASE j - n \in Mine(cs, l) /\ j > n
          <6>1. i <= j - n /\ j \in Nat
            BY <1>1, <2>3, <5>2
          <6> QED
            BY <1>1, <6>1
        <5> QED
          BY <1>2, <5>1, <5>2
      <4> QED
        BY <1>3, <2>1, <4>1, <4>2, <4>3 DEF Chained
    <3> QED
      BY <3>1, <3>2
  <2>4. ASSUME \A j \in Mine(cs, l) : j <= i
        PROVE  cs[i].new = f
    <3>1. \A j \in Mine(O, l) : j <= n + i
      BY <1>1, <1>2, <2>4
    <3> QED
      BY <1>3, <2>1, <3>1 DEF Chained
  <2>5. ASSUME NEW j \in Mine(cs, l), i < j, \A k \in Mine(cs, l) : k <= i \/ j <= k
        PROVE  cs[j].old = cs[i].new
    <3>1. n + j \in Mine(O, l) /\ O[n + j] = cs[j] /\ n + i < n + j
      BY <1>1, <1>2, <2>5
    <3>2. ASSUME NEW k \in Mine(O, l)
          PROVE  k <= n + i \/ n + j <= k
      <4>1. CASE k \in Mine(sc, l)
        BY <1>1, <4>1
      <4>2. CASE k - n \in Mine(cs, l) /\ k > n
        <5>1. k - n <= i \/ j <= k - n
          BY <2>5, <4>2
        <5> QED
          BY <1>1, <4>2, <5>1
      <4> QED
        BY <1>2, <4>1, <4>2
    <3> QED
      BY <1>3, <2>1, <3>1, <3>2 DEF Chained
  <2> QED
    BY <2>2, <2>3, <2>4, <2>5
<1> QED
  BY <1>4, <1>5 DEF Chained

\* What the changes cs leave a subscriber with.
LEMMA AfterIsLast ==
    ASSUME NEW f \in Fleet, NEW cs \in Seq(Change), HasLast(cs), NEW l \in Locomotive
    PROVE  /\ Mine(cs, l) = {} => After(f, cs)[l] = f[l]
           /\ Mine(cs, l) # {} =>
                \E i \in Mine(cs, l) : IsLast(cs, l, i) /\ After(f, cs)[l] = cs[i].new
<1>1. CASE Mine(cs, l) = {}
  BY <1>1 DEF After, Mine
<1>2. CASE Mine(cs, l) # {}
  <2> DEFINE last == CHOOSE i \in Mine(cs, l) : \A j \in Mine(cs, l) : j <= i
  <2>1. \E i \in Mine(cs, l) : \A j \in Mine(cs, l) : j <= i
    BY <1>2 DEF HasLast, IsLast
  <2>2. last \in Mine(cs, l) /\ \A j \in Mine(cs, l) : j <= last
    BY <2>1
  <2>3. After(f, cs)[l] = cs[last].new
    BY <1>2 DEF After, Mine
  <2> HIDE DEF last
  <2> QED
    BY <1>2, <2>2, <2>3 DEF IsLast
<1> QED
  BY <1>1, <1>2

LEMMA AfterIsTyped ==
    ASSUME NEW f \in Fleet, NEW cs \in Seq(Change), HasLast(cs)
    PROVE  After(f, cs) \in Fleet
<1>1. ASSUME NEW l \in Locomotive
      PROVE  After(f, cs)[l] \in Category \cup {Unknown}
  <2>1. CASE Mine(cs, l) = {}
    BY <2>1, AfterIsLast DEF Fleet
  <2>2. CASE Mine(cs, l) # {}
    <3>1. PICK i \in Mine(cs, l) : After(f, cs)[l] = cs[i].new
      BY <2>2, AfterIsLast
    <3>2. cs[i] \in Change
      BY MineIsNat
    <3> QED
      BY <3>1, <3>2 DEF Change
  <2> QED
    BY <2>1, <2>2
<1> QED
  BY <1>1 DEF After, Fleet

-----------------------------------------------------------------------------
(* The inductive invariant.                                                *)

\* Locomotives nothing is known of have no change, sent or not, and subscribers know nothing
\* of them either; what the pipeline of the publisher holds describes one moment.
UnknownIsQuiet ==
    \A l \in Locomotive : fleet[l] = Unknown => Believed[l] = Unknown /\ Mine(Outstanding, l) = {}

Together(s, t) ==
    s # Nothing =>
        \E f \in Fleet :
            /\ s.summary = Summary(f)
            /\ \A l \in Locomotive : After(t, s.changes)[l] \in {Unknown, f[l]}

Inv ==
    /\ TypeOK
    /\ ChangesChain
    /\ UnknownIsQuiet
    /\ HasLast(changes)
    /\ HasLast(sending.changes)
    /\ Together(sending, Believed)

\* Believed depends on the subscriber's variables only.
LEMMA BelievedStays ==
    UNCHANGED <<told, lost>> => Believed' = Believed
BY DEF Believed

LEMMA BelievedIsTyped == TypeOK => Believed \in Fleet
BY DEF TypeOK, Believed, Fleet

LEMMA ChangesChainDef ==
    ChangesChain <=> \A l \in Locomotive : Chained(Outstanding, fleet[l], Believed[l], l)
BY DEF ChangesChain, Chained, Mine

LEMMA ChangesChainPrime ==
    ChangesChain' <=> \A l \in Locomotive : Chained(Outstanding', fleet'[l], Believed'[l], l)
BY DEF ChangesChain, Chained, Mine

LEMMA OutstandingIsTyped ==
    TypeOK => /\ sending.changes \in Seq(Change) /\ changes \in Seq(Change)
              /\ Outstanding \in Seq(Change)
BY ConcatProperties DEF TypeOK, Outstanding

LEMMA InitInv == Init => Inv
<1> SUFFICES ASSUME Init PROVE Inv
  OBVIOUS
<1>1. TypeOK
  <2>1. NoFleet \in Fleet
    BY DEF NoFleet, Fleet
  <2> QED
    BY <2>1, NothingIsTyped, EmptySeq DEF Init, TypeOK
<1>2. Outstanding = <<>> /\ changes = <<>> /\ sending.changes = <<>>
  BY DEF Init, Outstanding, Nothing
<1>3. (\A l : Mine(<<>>, l) = {}) /\ \A l \in Locomotive : Believed[l] = Unknown
  BY DEF Mine, Init, Believed, NoFleet
<1>4. ChangesChain
  BY <1>2, <1>3, ChangesChainDef DEF Chained
<1>5. UnknownIsQuiet
  BY <1>2, <1>3 DEF UnknownIsQuiet
<1>6. HasLast(changes) /\ HasLast(sending.changes)
  BY <1>2, <1>3 DEF HasLast
<1>7. Together(sending, Believed)
  BY DEF Init, Together
<1> QED
  BY <1>1, <1>4, <1>5, <1>6, <1>7 DEF Inv

\* A step that leaves the fleet, the changes and the pipeline alone.
LEMMA OthersKeepInv ==
    ASSUME Inv, TypeOK', UNCHANGED <<fleet, changes, sending, told, lost>>
    PROVE  Inv'
<1>1. Outstanding' = Outstanding /\ Believed' = Believed
  BY BelievedStays DEF Outstanding
<1>2. ChangesChain'
  BY <1>1, ChangesChainDef, ChangesChainPrime DEF Inv
<1>3. UnknownIsQuiet'
  BY <1>1 DEF Inv, UnknownIsQuiet
<1> QED
  BY <1>1, <1>2, <1>3 DEF Inv

\* _update_state(): the change it appends goes on from the fleet as it was.
LEMMA UpdateStateKeepsInv == Inv /\ UpdateState => Inv'
<1> SUFFICES ASSUME Inv, UpdateState PROVE Inv'
  OBVIOUS
<1> DEFINE m == Head(inbox["aggregator"])
           d == ChangesOf(m)
<1>1. TypeOK /\ m \in Message /\ Tail(inbox["aggregator"]) \in Seq(Message)
      /\ m.loco \in Locomotive /\ m.category \in Category /\ m.category # Unknown
  <2>1. TypeOK /\ inbox["aggregator"] \in Seq(Message) /\ inbox["aggregator"] # <<>>
    BY DEF Inv, TypeOK, UpdateState, Listener
  <2>2. m \in Message /\ Tail(inbox["aggregator"]) \in Seq(Message)
    BY <2>1, HeadTailProperties
  <2> QED
    BY <2>1, <2>2, FleetAssumption DEF Message
<1>2. d \in Seq(Change) /\ sending.changes \in Seq(Change) /\ changes \in Seq(Change)
      /\ Outstanding \in Seq(Change)
  BY <1>1, ChangesOfIsTyped, OutstandingIsTyped DEF TypeOK
<1>3. fleet' = [fleet EXCEPT ![m.loco] = m.category] /\ changes' = changes \o d
      /\ sending' = sending /\ Believed' = Believed
      /\ inbox' = [inbox EXCEPT !["aggregator"] = Tail(inbox["aggregator"])]
  BY BelievedStays DEF UpdateState, subscriberVars
<1>a. UNCHANGED <<published, faults, subscribed, cache, told, counted, lost, missed>>
  BY DEF UpdateState, subscriberVars
<1> HIDE DEF m
<1>4. TypeOK'
  <2>1. changes \o d \in Seq(Change)
    BY <1>2, ConcatProperties
  <2> HIDE DEF d
  <2> QED
    BY <1>1, <1>3, <1>a, <2>1 DEF TypeOK, Fleet
<1>5. \A l \in Locomotive : fleet'[l] = IF l = m.loco THEN m.category ELSE fleet[l]
  BY <1>1, <1>3 DEF TypeOK, Fleet
<1>6. Outstanding' = Outstanding \o d
  <2>1. Outstanding' = sending.changes \o (changes \o d)
    BY <1>3 DEF Outstanding
  <2> QED
    <3>1. ASSUME NEW s \in Seq(Change), NEW t \in Seq(Change), NEW u \in Seq(Change)
          PROVE  (s \o t) \o u = s \o (t \o u)
      BY ConcatAssociative
    <3>2. (sending.changes \o changes) \o d = sending.changes \o (changes \o d)
      BY <1>2, <3>1
    <3> QED
      BY <2>1, <3>2 DEF Outstanding
<1>7. Together(sending', Believed')
  BY <1>3 DEF Inv
<1>8. CASE fleet[m.loco] = Unknown \/ fleet[m.loco] = m.category
  <2>1. d = <<>>
    BY <1>8 DEF ChangesOf
  <2>2. changes' = changes /\ Outstanding' = Outstanding
    BY <1>2, <1>3, <1>6, <2>1, ConcatEmptySeq
  <2>3. ChangesChain'
    <3> SUFFICES ASSUME NEW l \in Locomotive
                 PROVE  Chained(Outstanding, fleet'[l], Believed[l], l)
      BY <1>3, <2>2, ChangesChainPrime
    <3>1. Chained(Outstanding, fleet[l], Believed[l], l)
      BY ChangesChainDef DEF Inv
    <3>2. CASE fleet'[l] = fleet[l]
      BY <3>1, <3>2
    <3>3. CASE fleet'[l] # fleet[l]
      <4>1. fleet[l] = Unknown
        BY <1>5, <1>8, <3>3
      <4>2. Believed[l] = Unknown /\ Mine(Outstanding, l) = {}
        BY <4>1 DEF Inv, UnknownIsQuiet
      <4> QED
        BY <4>2 DEF Chained
    <3> QED
      BY <3>2, <3>3
  <2>4. UnknownIsQuiet'
    BY <1>1, <1>3, <1>5, <2>2 DEF Inv, UnknownIsQuiet
  <2> QED
    BY <1>3, <1>4, <1>7, <2>2, <2>3, <2>4 DEF Inv
<1>9. CASE fleet[m.loco] # Unknown /\ fleet[m.loco] # m.category
  <2> DEFINE c == [loco |-> m.loco, old |-> fleet[m.loco], new |-> m.category]
  <2>1. d = <<c>> /\ c \in Change
    BY <1>1, <1>9 DEF ChangesOf, Change, TypeOK, Fleet
  <2>2. changes' = Append(changes, c) /\ Outstanding' = Append(Outstanding, c)
    BY <1>2, <1>3, <1>6, <2>1, AppendIsConcat
  <2>3. c.loco = m.loco /\ c.old = fleet[m.loco] /\ c.new = m.category
    OBVIOUS
  <2> HIDE DEF c
  <2>4. HasLast(changes')
    BY <1>2, <2>1, <2>2, AppendHasLast DEF Inv
  <2>5. ChangesChain'
    <3> SUFFICES ASSUME NEW l \in Locomotive
                 PROVE  Chained(Append(Outstanding, c), fleet'[l], Believed[l], l)
      BY <1>3, <2>2, ChangesChainPrime
    <3>1. Chained(Outstanding, fleet[l], Believed[l], l)
      BY ChangesChainDef DEF Inv
    <3>2. CASE l = m.loco
      <4>1. Chained(Append(Outstanding, c), m.category, Believed[l], l)
        BY <1>2, <1>9, <2>1, <2>3, <3>1, <3>2, AppendKeepsChain
      <4> QED
        BY <1>5, <3>2, <4>1
    <3>3. CASE l # m.loco
      <4>1. Mine(Append(Outstanding, c), l) = Mine(Outstanding, l)
        BY <1>2, <2>1, <2>3, <3>3, MineOfAppend
      <4>2. \A i \in Mine(Outstanding, l) : Append(Outstanding, c)[i] = Outstanding[i]
        BY <1>2, <2>1, AppendProperties, MineIsNat
      <4>3. fleet'[l] = fleet[l]
        BY <1>5, <3>3
      <4> DEFINE O == Append(Outstanding, c)
      <4> HIDE DEF O
      <4>4. Mine(O, l) = Mine(Outstanding, l) /\ \A i \in Mine(Outstanding, l) : O[i] = Outstanding[i]
        BY <4>1, <4>2 DEF O
      <4>5. Chained(O, fleet[l], Believed[l], l)
        BY <3>1, <4>4 DEF Chained
      <4> QED
        BY <4>3, <4>5 DEF O
    <3> QED
      BY <3>2, <3>3
  <2>6. UnknownIsQuiet'
    <3> SUFFICES ASSUME NEW l \in Locomotive, fleet'[l] = Unknown
                 PROVE  Believed[l] = Unknown /\ Mine(Append(Outstanding, c), l) = {}
      BY <1>3, <2>2 DEF UnknownIsQuiet
    <3>1. l # m.loco /\ fleet[l] = Unknown
      BY <1>1, <1>5
    <3>2. Mine(Append(Outstanding, c), l) = Mine(Outstanding, l)
      BY <1>2, <2>1, <2>3, <3>1, MineOfAppend
    <3> QED
      BY <3>1, <3>2 DEF Inv, UnknownIsQuiet
  <2> QED
    BY <1>3, <1>4, <1>7, <2>4, <2>5, <2>6 DEF Inv
<1> QED
  BY <1>8, <1>9

\* The publisher's awake half moves the changes into its pipeline, beside the summary of the
\* fleet they leave a subscriber with.
LEMMA StartPublishKeepsInv == Inv /\ StartPublish => Inv'
<1> SUFFICES ASSUME Inv, StartPublish PROVE Inv'
  OBVIOUS
<1>1. TypeOK /\ changes \in Seq(Change) /\ HasLast(changes) /\ fleet \in Fleet /\ Believed \in Fleet
  BY BelievedIsTyped DEF Inv, TypeOK
<1>2. sending = Nothing /\ sending.changes = <<>> /\ Outstanding = changes
  BY <1>1, ConcatEmptySeq DEF StartPublish, Nothing, Outstanding
<1>3. sending' = [summary |-> Summary(fleet), changes |-> changes] /\ changes' = <<>>
      /\ fleet' = fleet /\ Believed' = Believed
  BY BelievedStays DEF StartPublish, Drained, subscriberVars
<1>4. sending'.changes = changes /\ sending'.summary = Summary(fleet)
  BY <1>3
<1>5. Outstanding' = Outstanding
  BY <1>1, <1>2, <1>3, <1>4, ConcatEmptySeq DEF Outstanding
<1>6. TypeOK'
  BY <1>1, <1>3, SummaryIsTyped, EmptySeq DEF TypeOK, StartPublish, subscriberVars
<1>7. ChangesChain'
  BY <1>3, <1>5, ChangesChainDef, ChangesChainPrime DEF Inv
<1>8. UnknownIsQuiet'
  BY <1>3, <1>5 DEF Inv, UnknownIsQuiet
<1>9. HasLast(changes') /\ HasLast(sending'.changes)
  BY <1>1, <1>3, <1>4 DEF HasLast, Mine
<1>10. Together(sending', Believed')
  <2>1. ASSUME NEW l \in Locomotive
        PROVE  After(Believed, changes)[l] \in {Unknown, fleet[l]}
    <3>1. Chained(changes, fleet[l], Believed[l], l)
      BY <1>2, ChangesChainDef DEF Inv
    <3>2. CASE Mine(changes, l) = {}
      BY <1>1, <3>1, <3>2, AfterIsLast DEF Chained
    <3>3. CASE Mine(changes, l) # {}
      BY <1>1, <3>1, <3>3, AfterIsLast DEF Chained, IsLast
    <3> QED
      BY <3>2, <3>3
  <2> QED
    BY <1>1, <1>3, <1>4, <2>1 DEF Together
<1> QED
  BY <1>6, <1>7, <1>8, <1>9, <1>10 DEF Inv

\* Its other half ends with the changes delivered, or lost.
LEMMA EndedPublishKeepsInv ==
    ASSUME Inv, TypeOK', sending' = Nothing, UNCHANGED <<fleet, changes>>,
           \A l \in Locomotive :
              /\ Mine(sending.changes, l) = {} => Believed'[l] = Believed[l]
              /\ Mine(sending.changes, l) # {} =>
                    Believed'[l] = Unknown
                      \/ \E i \in Mine(sending.changes, l) :
                            IsLast(sending.changes, l, i) /\ Believed'[l] = sending.changes[i].new
    PROVE  Inv'
<1>1. sending.changes \in Seq(Change) /\ changes \in Seq(Change)
      /\ Outstanding = sending.changes \o changes
  BY OutstandingIsTyped DEF Inv, Outstanding
<1>2. sending'.changes = <<>> /\ Outstanding' = changes
  BY <1>1, ConcatEmptySeq DEF Outstanding, Nothing
<1>3. ChangesChain'
  <2> SUFFICES ASSUME NEW l \in Locomotive
               PROVE  Chained(changes, fleet[l], Believed'[l], l)
    BY <1>2, ChangesChainPrime
  <2>1. Chained(sending.changes \o changes, fleet[l], Believed[l], l)
    BY <1>1, ChangesChainDef DEF Inv
  <2> QED
    BY <1>1, <2>1, DropKeepsChain
<1>4. UnknownIsQuiet'
  <2> SUFFICES ASSUME NEW l \in Locomotive, fleet[l] = Unknown
               PROVE  Believed'[l] = Unknown /\ Mine(changes, l) = {}
    BY <1>2 DEF UnknownIsQuiet
  <2>1. Believed[l] = Unknown /\ Mine(sending.changes \o changes, l) = {}
    BY <1>1 DEF Inv, UnknownIsQuiet
  <2>2. Mine(sending.changes, l) = {} /\ Mine(changes, l) = {}
    BY <1>1, <2>1, MineOfConcat
  <2> QED
    BY <2>1, <2>2
<1>5. HasLast(changes') /\ HasLast(sending'.changes)
  BY <1>2 DEF Inv, HasLast, Mine
<1>6. Together(sending', Believed')
  BY DEF Together
<1> QED
  BY <1>3, <1>4, <1>5, <1>6 DEF Inv

LEMMA FinishPublishKeepsInv == Inv /\ FinishPublish => Inv'
<1> SUFFICES ASSUME Inv, FinishPublish PROVE Inv'
  OBVIOUS
<1> DEFINE cs == sending.changes
<1>1. cs \in Seq(Change) /\ HasLast(cs) /\ told \in Fleet /\ TypeOK
  BY OutstandingIsTyped DEF Inv, TypeOK
<1>2. /\ told' = After(told, cs) /\ lost' = lost \ Changed(cs) /\ counted' = sending.summary
      /\ sending' = Nothing /\ UNCHANGED <<fleet, changes>>
  BY DEF FinishPublish, Delivered
<1>3. TypeOK'
  BY <1>1, <1>2, AfterIsTyped, NothingIsTyped DEF TypeOK, FinishPublish
<1>4. ASSUME NEW l \in Locomotive
      PROVE  /\ Mine(cs, l) = {} => Believed'[l] = Believed[l]
             /\ Mine(cs, l) # {} => \E i \in Mine(cs, l) :
                    IsLast(cs, l, i) /\ Believed'[l] = cs[i].new
  <2>1. l \in Changed(cs) <=> Mine(cs, l) # {}
    BY DEF Changed, Mine
  <2>2. Believed'[l] = IF l \in lost /\ Mine(cs, l) = {} THEN Unknown ELSE After(told, cs)[l]
    BY <1>2, <2>1 DEF Believed
  <2> QED
    BY <1>1, <2>2, AfterIsLast DEF Believed
<1> QED
  BY <1>2, <1>3, <1>4, EndedPublishKeepsInv

LEMMA FailPublishKeepsInv == Inv /\ FailPublish => Inv'
<1> SUFFICES ASSUME Inv, FailPublish PROVE Inv'
  OBVIOUS
<1>1. TypeOK
  BY DEF Inv
<1>2. \A l \in Locomotive :
        Believed'[l] = IF Mine(sending.changes, l) # {} THEN Unknown ELSE Believed[l]
  BY DEF FailPublish, Mine, Changed, Believed
<1>3. TypeOK'
  <2>1. lost' \in SUBSET Locomotive
    BY <1>1 DEF TypeOK, FailPublish, Changed
  <2>2. counted' \in {<<>>} \cup [Category -> Nat]
    BY <1>1 DEF TypeOK, FailPublish
  <2> QED
    BY <1>1, <2>1, <2>2, NothingIsTyped DEF TypeOK, FailPublish
<1> QED
  BY <1>2, <1>3, EndedPublishKeepsInv DEF FailPublish

LEMMA RestartKeepsInv == Inv /\ Restart => Inv'
<1> SUFFICES ASSUME Inv, Restart PROVE Inv'
  OBVIOUS
<1>1. fleet' = NoFleet /\ changes' = <<>> /\ sending' = Nothing
  BY DEF Restart
<1>2. TypeOK'
  <2>1. NoFleet \in Fleet
    BY DEF NoFleet, Fleet
  <2> QED
    BY <1>1, <2>1, NothingIsTyped, EmptySeq DEF Inv, Restart, TypeOK
<1>3. sending'.changes = <<>> /\ Outstanding' = <<>>
  BY <1>1 DEF Outstanding, Nothing
<1>4. (\A l : Mine(<<>>, l) = {}) /\ \A l \in Locomotive : Believed'[l] = Unknown
  BY DEF Mine, Restart, Believed
<1>5. ChangesChain'
  BY <1>1, <1>3, <1>4, ChangesChainPrime DEF Chained
<1>6. UnknownIsQuiet'
  BY <1>1, <1>3, <1>4 DEF UnknownIsQuiet
<1>7. HasLast(changes') /\ HasLast(sending'.changes)
  BY <1>1, <1>3, <1>4 DEF HasLast
<1>8. Together(sending', Believed')
  BY <1>1 DEF Together
<1> QED
  BY <1>2, <1>5, <1>6, <1>7, <1>8 DEF Inv

LEMMA StepInv == Inv /\ [Next]_vars => Inv'
<1> SUFFICES ASSUME Inv, [Next]_vars PROVE Inv'
  OBVIOUS
<1>1. TypeOK
  BY DEF Inv
<1>2. CASE PublishHealth
  <2>1. TypeOK'
    <3>1. PICK m \in Message :
            /\ inbox' = [a \in Listener |->
                            IF a \in subscribed THEN Append(inbox[a], m) ELSE inbox[a]]
            /\ missed' = [a \in Listener |->
                            IF a \in subscribed THEN missed[a] \ {m.loco}
                                                ELSE missed[a] \cup {m.loco}]
      BY <1>2 DEF PublishHealth
    <3>2. m.loco \in Locomotive
      BY DEF Message
    <3>3. inbox' \in [Listener -> Seq(Message)]
      BY <1>1, <3>1, AppendProperties DEF TypeOK
    <3>4. missed' \in [Listener -> SUBSET Locomotive]
      BY <1>1, <3>1, <3>2 DEF TypeOK
    <3> QED
      BY <1>1, <1>2, <3>3, <3>4 DEF TypeOK, PublishHealth, subscriberVars
  <2> QED
    BY <1>2, <2>1, OthersKeepInv DEF PublishHealth, subscriberVars
<1>3. ASSUME NEW a \in Listener, Subscribe(a) PROVE Inv'
  <2>1. TypeOK'
    BY <1>1, <1>3 DEF TypeOK, Subscribe, subscriberVars
  <2> QED
    BY <1>3, <2>1, OthersKeepInv DEF Subscribe, subscriberVars
<1>4. ASSUME NEW a \in Listener, ListenerError(a) PROVE Inv'
  <2>1. TypeOK'
    <3>1. ASSUME NEW i \in DOMAIN inbox[a]
          PROVE  inbox[a][i].loco \in Locomotive
      <4>1. inbox[a] \in Seq(Message)
        BY <1>1 DEF TypeOK
      <4>2. inbox[a][i] \in Message
        BY <4>1
      <4> QED
        BY <4>2 DEF Message
    <3> QED
      BY <1>1, <1>4, <3>1, EmptySeq DEF TypeOK, ListenerError, subscriberVars
  <2> QED
    BY <1>4, <2>1, OthersKeepInv DEF ListenerError, subscriberVars
<1>5. CASE CacheHealth
  <2>1. TypeOK'
    <3>1. Head(inbox["cache"]) \in Message /\ Tail(inbox["cache"]) \in Seq(Message)
      BY <1>1, <1>5, HeadTailProperties DEF TypeOK, CacheHealth, subscriberVars, Listener
    <3> QED
      BY <1>1, <1>5, <3>1 DEF TypeOK, CacheHealth, subscriberVars, Message, Fleet
  <2> QED
    BY <1>5, <2>1, OthersKeepInv DEF CacheHealth, subscriberVars
<1>6. CASE Expire
  <2>1. TypeOK'
    BY <1>1, <1>6 DEF TypeOK, Expire, subscriberVars, Fleet
  <2> QED
    BY <1>6, <2>1, OthersKeepInv DEF Expire, subscriberVars
<1>7. CASE UNCHANGED vars
  <2>1. TypeOK'
    BY <1>1, <1>7 DEF TypeOK, vars, subscriberVars
  <2> QED
    BY <1>7, <2>1, OthersKeepInv DEF vars, subscriberVars
<1>8. CASE CacheFails
  <2>1. TypeOK'
    <3>1. Head(inbox["cache"]) \in Message /\ Tail(inbox["cache"]) \in Seq(Message)
      BY <1>1, <1>8, HeadTailProperties DEF TypeOK, CacheFails, subscriberVars, Listener
    <3>2. Head(inbox["cache"]).loco \in Locomotive
      BY <3>1 DEF Message
    <3>3. inbox' \in [Listener -> Seq(Message)]
      BY <1>1, <1>8, <3>1 DEF TypeOK, CacheFails, subscriberVars
    <3>4. missed' \in [Listener -> SUBSET Locomotive]
      BY <1>1, <1>8, <3>2 DEF TypeOK, CacheFails, subscriberVars
    <3> QED
      BY <1>1, <1>8, <3>3, <3>4 DEF TypeOK, CacheFails, subscriberVars
  <2> QED
    BY <1>8, <2>1, OthersKeepInv DEF CacheFails, subscriberVars
<1> QED
  BY <1>2, <1>3, <1>4, <1>5, <1>6, <1>7, <1>8, UpdateStateKeepsInv, StartPublishKeepsInv,
     FinishPublishKeepsInv, FailPublishKeepsInv, RestartKeepsInv DEF Next

LEMMA SpecInv == Spec => []Inv
BY InitInv, StepInv, PTL DEF Spec

-----------------------------------------------------------------------------
(* The theorems.                                                           *)

THEOREM FleetIsTyped == Spec => []TypeOK
<1>1. Inv => TypeOK
  BY DEF Inv
<1> QED
  BY <1>1, SpecInv, PTL

\* Whatever fails and whatever arrives while a pipeline is awaited, the changes still to be
\* received lead every subscriber from what it believes to what the fleet is.
THEOREM ChangesAreADelta == Spec => []ChangesChain
<1>1. Inv => ChangesChain
  BY DEF Inv
<1> QED
  BY <1>1, SpecInv, PTL

\* The summary of a pipeline counts the fleet its changes lead to.
THEOREM SummaryMatchesChanges == Spec => []SummaryAgrees
<1>1. Inv => SummaryAgrees
  <2> SUFFICES ASSUME Inv, sending # Nothing, NEW c \in Category
               PROVE  Cardinality({l \in Locomotive : After(Believed, sending.changes)[l] = c})
                        <= sending.summary[c]
    BY DEF SummaryAgrees
  <2>1. PICK f \in Fleet :
          /\ sending.summary = Summary(f)
          /\ \A l \in Locomotive : After(Believed, sending.changes)[l] \in {Unknown, f[l]}
    BY DEF Inv, Together
  <2> DEFINE T == {l \in Locomotive : After(Believed, sending.changes)[l] = c}
             S == {l \in Locomotive : f[l] = c}
  <2>2. T \subseteq S
    BY <2>1, FleetAssumption
  <2>3. IsFiniteSet(S)
    BY FleetAssumption, FS_Subset
  <2>4. Cardinality(T) <= Cardinality(S)
    <3> HIDE DEF S, T
    <3> QED
      BY <2>2, <2>3, FS_Subset
  <2>5. sending.summary[c] = Cardinality(S)
    BY <2>1 DEF Summary
  <2> QED
    BY <2>4, <2>5
<1> QED
  BY <1>1, SpecInv, PTL

-----------------------------------------------------------------------------
(* The two listeners.                                                      *)

\* v is what a listener that holds `stored` will hold of l once it has read its inbox.
Final(in, stored, l, v) ==
    \/ Mine(in, l) = {} /\ v = stored
    \/ \E i \in Mine(in, l) : IsLast(in, l, i) /\ v = in[i].category

LEMMA MinesOfMessages ==
    ASSUME NEW in \in Seq(Message), NEW l
    PROVE  Mine(in, l) \subseteq 1..Len(in) /\ Len(in) \in Nat
BY DEF Mine

\* The last message published is what it will hold.
LEMMA FinalOfAppend ==
    ASSUME NEW in \in Seq(Message), NEW m \in Message, NEW l, NEW stored
    PROVE  /\ m.loco = l => Final(Append(in, m), stored, l, m.category)
           /\ \A v : m.loco # l /\ Final(in, stored, l, v) => Final(Append(in, m), stored, l, v)
<1> DEFINE out == Append(in, m)
           n == Len(in)
<1>1. n \in Nat /\ Mine(in, l) \subseteq 1..n /\ \A i \in Mine(in, l) : out[i] = in[i]
  BY MinesOfMessages, AppendProperties
<1>2. out[n + 1] = m /\ (m.loco = l => Mine(out, l) = Mine(in, l) \cup {n + 1})
      /\ (m.loco # l => Mine(out, l) = Mine(in, l))
  BY AppendProperties DEF Mine
<1> HIDE DEF out, n
<1>3. ASSUME m.loco = l PROVE Final(out, stored, l, m.category)
  <2>1. IsLast(out, l, n + 1)
    BY <1>1, <1>2, <1>3 DEF IsLast
  <2> QED
    BY <1>2, <1>3, <2>1 DEF Final, IsLast
<1>4. ASSUME NEW v, m.loco # l, Final(in, stored, l, v) PROVE Final(out, stored, l, v)
  BY <1>1, <1>2, <1>4 DEF Final, IsLast
<1> QED
  BY <1>3, <1>4 DEF out

\* A listener that reads a message gets no nearer and no further.
LEMMA FinalOfTail ==
    ASSUME NEW in \in Seq(Message), in # <<>>, NEW l, NEW stored, NEW next, NEW v,
           Final(in, stored, l, v),
           next = IF Head(in).loco = l THEN Head(in).category ELSE stored
    PROVE  Final(Tail(in), next, l, v)
<1> DEFINE out == Tail(in)
<1>1. /\ Head(in) = in[1] /\ Len(in) \in Nat \ {0} /\ out \in Seq(Message)
      /\ Len(out) = Len(in) - 1 /\ \A i \in 1..Len(out) : out[i] = in[i + 1]
  BY HeadTailProperties, EmptySeq
<1>2. Mine(in, l) \subseteq 1..Len(in) /\ Mine(out, l) \subseteq 1..Len(out)
  BY <1>1, MinesOfMessages
<1>3. \A i \in Mine(out, l) : i + 1 \in Mine(in, l) /\ out[i] = in[i + 1]
  <2> SUFFICES ASSUME NEW i \in Mine(out, l) PROVE i + 1 \in Mine(in, l) /\ out[i] = in[i + 1]
    OBVIOUS
  <2>1. i \in 1..Len(out) /\ out[i].loco = l
    BY <1>2 DEF Mine
  <2>2. i + 1 \in 1..Len(in) /\ in[i + 1].loco = l
    BY <1>1, <2>1
  <2> QED
    BY <1>1, <2>1, <2>2 DEF Mine
<1>4. \A i \in Mine(in, l) : i = 1 \/ (i - 1 \in Mine(out, l) /\ i > 1)
  <2> SUFFICES ASSUME NEW i \in Mine(in, l), i # 1
               PROVE  i - 1 \in Mine(out, l) /\ i > 1
    OBVIOUS
  <2>1. i \in 1..Len(in) /\ in[i].loco = l
    BY <1>2 DEF Mine
  <2>2. i - 1 \in 1..Len(out) /\ out[i - 1] = in[(i - 1) + 1] /\ (i - 1) + 1 = i
    BY <1>1, <2>1
  <2>3. out[i - 1].loco = l
    BY <2>1, <2>2
  <2> QED
    BY <1>1, <2>1, <2>2, <2>3 DEF Mine
<1>5. 1 \in Mine(in, l) <=> Head(in).loco = l
  BY <1>1 DEF Mine
<1> HIDE DEF out
<1>6. CASE Mine(in, l) = {} /\ v = stored
  BY <1>3, <1>5, <1>6 DEF Final, out
<1>7. ASSUME NEW i \in Mine(in, l), IsLast(in, l, i), v = in[i].category
      PROVE  Final(out, next, l, v)
  <2>1. CASE i = 1
    <3>1. Mine(out, l) = {}
      BY <1>2, <1>3, <1>7, <2>1 DEF IsLast
    <3> QED
      BY <1>1, <1>5, <1>7, <2>1, <3>1 DEF Final
  <2>2. CASE i # 1
    <3>1. i - 1 \in Mine(out, l) /\ out[i - 1] = in[i]
      BY <1>2, <1>3, <1>4, <2>2
    <3>2. ASSUME NEW j \in Mine(out, l) PROVE j <= i - 1
      <4>1. j + 1 <= i
        BY <1>3, <1>7 DEF IsLast
      <4> QED
        BY <1>2, <4>1
    <3> QED
      BY <1>7, <3>1, <3>2 DEF Final, IsLast
  <2> QED
    BY <2>1, <2>2
<1> QED
  BY <1>6, <1>7 DEF Final, out

\* Of a locomotive neither listener missed, both will hold the same, but what expired.
WillAgree ==
    \A l \in Locomotive :
        l \notin missed["aggregator"] /\ l \notin missed["cache"] =>
            \E v, w : /\ Final(inbox["aggregator"], fleet[l], l, v)
                      /\ Final(inbox["cache"], cache[l], l, w)
                      /\ w \in {Unknown, v}

LEMMA InitWillAgree == Init => WillAgree
<1> SUFFICES ASSUME Init, NEW l \in Locomotive
             PROVE  Final(<<>>, Unknown, l, Unknown)
  BY DEF Init, WillAgree, NoFleet, Listener
<1> QED
  BY DEF Final, Mine

LEMMA StepWillAgree == TypeOK /\ WillAgree /\ [Next]_vars => WillAgree'
<1> SUFFICES ASSUME TypeOK, WillAgree, [Next]_vars,
                    NEW l \in Locomotive,
                    l \notin missed'["aggregator"], l \notin missed'["cache"]
             PROVE  \E v, w : /\ Final(inbox'["aggregator"], fleet'[l], l, v)
                              /\ Final(inbox'["cache"], cache'[l], l, w)
                              /\ w \in {Unknown, v}
  BY DEF WillAgree
<1>1. /\ inbox["aggregator"] \in Seq(Message) /\ inbox["cache"] \in Seq(Message)
      /\ "aggregator" \in Listener /\ "cache" \in Listener
  BY DEF TypeOK, Listener
<1>2. ASSUME UNCHANGED <<inbox, fleet, cache, missed>>
      PROVE  \E v, w : /\ Final(inbox'["aggregator"], fleet'[l], l, v)
                       /\ Final(inbox'["cache"], cache'[l], l, w)
                       /\ w \in {Unknown, v}
  BY <1>2 DEF WillAgree
<1>3. CASE PublishHealth
  <2>1. PICK m \in Message :
          /\ inbox' = [a \in Listener |->
                          IF a \in subscribed THEN Append(inbox[a], m) ELSE inbox[a]]
          /\ missed' = [a \in Listener |->
                          IF a \in subscribed THEN missed[a] \ {m.loco}
                                              ELSE missed[a] \cup {m.loco}]
    BY <1>3 DEF PublishHealth
  <2>2. fleet' = fleet /\ cache' = cache
    BY <1>3 DEF PublishHealth
  <2>3. CASE m.loco = l
    <3>1. "aggregator" \in subscribed /\ "cache" \in subscribed
      BY <1>1, <2>1, <2>3
    <3>2. /\ inbox'["aggregator"] = Append(inbox["aggregator"], m)
          /\ inbox'["cache"] = Append(inbox["cache"], m)
      BY <1>1, <2>1, <3>1
    <3>3. Final(inbox'["aggregator"], fleet'[l], l, m.category)
      BY <1>1, <2>3, <3>2, FinalOfAppend
    <3>4. Final(inbox'["cache"], cache'[l], l, m.category)
      BY <1>1, <2>3, <3>2, FinalOfAppend
    <3> QED
      BY <3>3, <3>4
  <2>4. CASE m.loco # l
    <3>1. l \notin missed["aggregator"] /\ l \notin missed["cache"]
      BY <1>1, <2>1, <2>4
    <3>2. PICK v, w : /\ Final(inbox["aggregator"], fleet[l], l, v)
                      /\ Final(inbox["cache"], cache[l], l, w)
                      /\ w \in {Unknown, v}
      BY <3>1 DEF WillAgree
    <3>3. Final(inbox'["aggregator"], fleet'[l], l, v)
      BY <1>1, <2>1, <2>2, <2>4, <3>2, FinalOfAppend
    <3>4. Final(inbox'["cache"], cache'[l], l, w)
      BY <1>1, <2>1, <2>2, <2>4, <3>2, FinalOfAppend
    <3> QED
      BY <3>2, <3>3, <3>4
  <2> QED
    BY <2>3, <2>4
<1>4. ASSUME NEW a \in Listener, Subscribe(a) PROVE UNCHANGED <<inbox, fleet, cache, missed>>
  BY <1>4 DEF Subscribe
<1>5. ASSUME NEW a \in Listener, ListenerError(a)
      PROVE  \E v, w : /\ Final(inbox'["aggregator"], fleet'[l], l, v)
                       /\ Final(inbox'["cache"], cache'[l], l, w)
                       /\ w \in {Unknown, v}
  <2>1. /\ inbox' = [inbox EXCEPT ![a] = <<>>] /\ fleet' = fleet /\ cache' = cache
        /\ missed' = [missed EXCEPT ![a] = missed[a] \cup {inbox[a][i].loco : i \in DOMAIN inbox[a]}]
    BY <1>5 DEF ListenerError
  <2>2. missed["aggregator"] \subseteq missed'["aggregator"] /\ missed["cache"] \subseteq missed'["cache"]
    BY <1>1, <2>1 DEF TypeOK
  <2>3. PICK v, w : /\ Final(inbox["aggregator"], fleet[l], l, v)
                    /\ Final(inbox["cache"], cache[l], l, w)
                    /\ w \in {Unknown, v}
    BY <2>2 DEF WillAgree
  <2>4. Mine(inbox[a], l) = {}
    <3>1. l \notin missed'[a]
      BY <1>5 DEF Listener
    <3>2. l \notin {inbox[a][i].loco : i \in DOMAIN inbox[a]}
      BY <1>1, <2>1, <3>1 DEF TypeOK
    <3> QED
      BY <3>2 DEF Mine
  <2>5. Mine(<<>>, l) = {}
    BY DEF Mine
  <2>6. CASE a = "aggregator"
    <3>1. inbox'["aggregator"] = <<>> /\ inbox'["cache"] = inbox["cache"]
      BY <1>1, <2>1, <2>6 DEF TypeOK
    <3> QED
      BY <2>1, <2>3, <2>4, <2>5, <2>6, <3>1 DEF Final
  <2>7. CASE a = "cache"
    <3>1. inbox'["cache"] = <<>> /\ inbox'["aggregator"] = inbox["aggregator"]
      BY <1>1, <2>1, <2>7 DEF TypeOK
    <3> QED
      BY <2>1, <2>3, <2>4, <2>5, <2>7, <3>1 DEF Final
  <2> QED
    BY <2>6, <2>7 DEF Listener
<1>6. CASE UpdateState
  <2> DEFINE in == inbox["aggregator"]
  <2>1. /\ in # <<>> /\ fleet' = [fleet EXCEPT ![Head(in).loco] = Head(in).category]
        /\ inbox' = [inbox EXCEPT !["aggregator"] = Tail(in)] /\ cache' = cache
        /\ missed' = missed
    BY <1>6 DEF UpdateState
  <2>2. PICK v, w : /\ Final(in, fleet[l], l, v)
                    /\ Final(inbox["cache"], cache[l], l, w)
                    /\ w \in {Unknown, v}
    BY <2>1 DEF WillAgree
  <2>3. fleet'[l] = IF Head(in).loco = l THEN Head(in).category ELSE fleet[l]
    BY <2>1 DEF TypeOK, Fleet
  <2>4. Final(Tail(in), fleet'[l], l, v)
    BY <1>1, <2>1, <2>2, <2>3, FinalOfTail
  <2>5. inbox'["aggregator"] = Tail(in) /\ inbox'["cache"] = inbox["cache"]
    BY <1>1, <2>1 DEF TypeOK
  <2> QED
    BY <2>1, <2>2, <2>4, <2>5
<1>7. CASE CacheHealth
  <2> DEFINE in == inbox["cache"]
  <2>1. /\ in # <<>> /\ cache' = [cache EXCEPT ![Head(in).loco] = Head(in).category]
        /\ inbox' = [inbox EXCEPT !["cache"] = Tail(in)] /\ fleet' = fleet
        /\ missed' = missed
    BY <1>7 DEF CacheHealth
  <2>2. PICK v, w : /\ Final(inbox["aggregator"], fleet[l], l, v)
                    /\ Final(in, cache[l], l, w)
                    /\ w \in {Unknown, v}
    BY <2>1 DEF WillAgree
  <2>3. cache'[l] = IF Head(in).loco = l THEN Head(in).category ELSE cache[l]
    BY <2>1 DEF TypeOK, Fleet
  <2>4. Final(Tail(in), cache'[l], l, w)
    BY <1>1, <2>1, <2>2, <2>3, FinalOfTail
  <2>5. inbox'["cache"] = Tail(in) /\ inbox'["aggregator"] = inbox["aggregator"]
    BY <1>1, <2>1 DEF TypeOK
  <2> QED
    BY <2>1, <2>2, <2>4, <2>5
<1>8. CASE Expire
  <2>1. /\ fleet' = fleet /\ inbox' = inbox /\ missed' = missed
        /\ cache'[l] \in {Unknown, cache[l]}
    BY <1>8 DEF Expire, TypeOK, Fleet
  <2>2. PICK v, w : /\ Final(inbox["aggregator"], fleet[l], l, v)
                    /\ Final(inbox["cache"], cache[l], l, w)
                    /\ w \in {Unknown, v}
    BY <2>1 DEF WillAgree
  <2>3. \E u : Final(inbox["cache"], cache'[l], l, u) /\ u \in {Unknown, v}
    BY <2>1, <2>2 DEF Final
  <2> QED
    BY <2>1, <2>2, <2>3
<1>9. CASE StartPublish \/ FinishPublish \/ FailPublish \/ UNCHANGED vars
  BY <1>2, <1>9 DEF StartPublish, FinishPublish, FailPublish, vars
<1>10. CASE Restart
  BY <1>1, <1>10 DEF Restart
<1>11. CASE CacheFails
  <2> DEFINE in == inbox["cache"]
  <2>1. /\ in # <<>> /\ cache' = cache /\ fleet' = fleet
        /\ inbox' = [inbox EXCEPT !["cache"] = Tail(in)]
        /\ missed' = [missed EXCEPT !["cache"] = missed["cache"] \cup {Head(in).loco}]
    BY <1>11 DEF CacheFails
  <2>2. l \notin missed["aggregator"] /\ l \notin missed["cache"] /\ Head(in).loco # l
    BY <1>1, <2>1 DEF TypeOK
  <2>3. PICK v, w : /\ Final(inbox["aggregator"], fleet[l], l, v)
                    /\ Final(in, cache[l], l, w)
                    /\ w \in {Unknown, v}
    BY <2>2 DEF WillAgree
  <2>4. Final(Tail(in), cache[l], l, w)
    BY <1>1, <2>1, <2>2, <2>3, FinalOfTail
  <2>5. inbox'["cache"] = Tail(in) /\ inbox'["aggregator"] = inbox["aggregator"]
    BY <1>1, <2>1 DEF TypeOK
  <2> QED
    BY <2>1, <2>3, <2>4, <2>5
<1> QED
  BY <1>2, <1>3, <1>4, <1>5, <1>6, <1>7, <1>8, <1>9, <1>10, <1>11 DEF Next

\* Once both listeners have read the last message of a locomotive and neither missed it, the
\* fleet's category of it is the cached one, whatever was lost and expired before.
THEOREM ListenersAgree == Spec => []CacheAgrees
<1>1. TypeOK /\ WillAgree => CacheAgrees
  <2> SUFFICES ASSUME WillAgree, NEW l \in Locomotive,
                      \A a \in Listener :
                        l \notin missed[a] /\ \A i \in DOMAIN inbox[a] : inbox[a][i].loco # l
               PROVE  cache[l] \in {Unknown, fleet[l]}
    BY DEF CacheAgrees
  <2>1. /\ l \notin missed["aggregator"] /\ l \notin missed["cache"]
        /\ Mine(inbox["aggregator"], l) = {} /\ Mine(inbox["cache"], l) = {}
    BY DEF Listener, Mine
  <2> QED
    BY <2>1 DEF WillAgree, Final
<1>2. Inv => TypeOK
  BY DEF Inv
<1> QED
  BY <1>1, <1>2, SpecInv, InitWillAgree, StepWillAgree, PTL DEF Spec
=============================================================================
