------------------------ MODULE ContentGuardsProofs -------------------------
(***************************************************************************)
(* Proofs about what is kept from leaving and from coming in: the guards   *)
(* of prompts and outputs, for any of them at any times and under any      *)
(* settings, and the filter of sensitive data, for any documents, patterns *)
(* and configurations.  What is proved here of lists and of sums serves    *)
(* the other proofs too.                                                   *)
(***************************************************************************)
EXTENDS ContentGuards, SequenceTheorems, FiniteSetTheorems, WellFoundedInduction, TLAPS

-----------------------------------------------------------------------------
(***************************************************************************)
(* Lists that are sorted, searched and joined, sums, and what is changed   *)
(* step by step.                                                           *)
(***************************************************************************)

\* A set of numbers has a least one.
LEMMA LeastOf ==
    ASSUME NEW S, S \subseteq Nat, S # {}
    PROVE  Min(S) \in S /\ \A n \in S : Min(S) <= n
<1>1. IsWellFoundedOn(OpToRel(<, Nat), Nat) BY NatLessThanWellFounded
<1>2. PICK m \in S : \A n \in S : ~ (<<n, m>> \in OpToRel(<, Nat)) BY <1>1, WFMin
<1>3. \A n \in S : ~ (n < m) BY <1>2 DEF OpToRel
<1>4. \A n \in S : m <= n BY <1>3
<1> QED BY <1>4 DEF Min

\* A set of numbers that has a bound has a greatest one.
LEMMA GreatestOf ==
    ASSUME NEW L \in Nat, NEW S \in SUBSET (0 .. L), S # {}
    PROVE  Max(S) \in S /\ \A y \in S : Max(S) >= y
<1>1. PICK D : D = {L - y : y \in S} OBVIOUS
<1>2. D \subseteq Nat BY <1>1
<1>3. D # {}
  <2>1. PICK y \in S : TRUE OBVIOUS
  <2> QED BY <2>1, <1>1
<1>4. Min(D) \in D /\ \A n \in D : Min(D) <= n BY <1>2, <1>3, LeastOf
<1>5. PICK m \in S : Min(D) = L - m BY <1>1, <1>4
<1>6. ASSUME NEW y \in S PROVE m >= y
  <2>1. L - y \in D BY <1>1
  <2>2. L - m <= L - y BY <2>1, <1>4, <1>5
  <2> QED BY <2>2
<1> QED BY <1>6 DEF Max

\* In a strict order of the first n numbers, given by what comes before each, counting what
\* comes before gives every number a place of its own.
LEMMA CountingOrders ==
    ASSUME NEW n \in Nat, NEW B,
           \A k \in 1 .. n : B[k] \subseteq 1 .. n /\ k \notin B[k],
           \A j, k \in 1 .. n : j # k => j \in B[k] \/ k \in B[j],
           \A i, j, k \in 1 .. n : i \in B[j] /\ j \in B[k] => i \in B[k]
    PROVE  /\ \A k \in 1 .. n : Cardinality(B[k]) + 1 \in 1 .. n
           /\ \A j, k \in 1 .. n : j \in B[k] => Cardinality(B[j]) < Cardinality(B[k])
           /\ \A j, k \in 1 .. n : j # k => Cardinality(B[j]) # Cardinality(B[k])
           /\ \A m \in 1 .. n : \E k \in 1 .. n : Cardinality(B[k]) + 1 = m
<1> DEFINE D == 1 .. n
<1>1. IsFiniteSet(D) /\ Cardinality(D) = n
  <2>1. 1 \in Int /\ n \in Int OBVIOUS
  <2>2. IsFiniteSet(1 .. n) /\ Cardinality(1 .. n) = IF 1 > n THEN 0 ELSE n - 1 + 1
        BY <2>1, FS_Interval
  <2> QED BY <2>2
<1>2. ASSUME NEW k \in D PROVE IsFiniteSet(B[k]) /\ Cardinality(B[k]) \in 0 .. n - 1
  <2>1. B[k] \subseteq D \ {k} OBVIOUS
  <2>2. IsFiniteSet(D \ {k}) /\ Cardinality(D \ {k}) = n - 1 BY <1>1, FS_RemoveElement
  <2> QED BY <2>1, <2>2, FS_Subset, FS_CardinalityType
<1>3. ASSUME NEW j \in D, NEW k \in D, j \in B[k] PROVE Cardinality(B[j]) < Cardinality(B[k])
  <2>1. j \notin B[j] /\ B[j] \cup {j} \subseteq B[k] BY <1>3
  <2>2. Cardinality(B[j] \cup {j}) = Cardinality(B[j]) + 1 BY <1>2, <2>1, FS_AddElement
  <2>3. Cardinality(B[j] \cup {j}) <= Cardinality(B[k]) BY <1>2, <2>1, FS_Subset
  <2>4. Cardinality(B[j]) \in Nat /\ Cardinality(B[k]) \in Nat BY <1>2
  <2> QED BY <2>2, <2>3, <2>4
<1>4. ASSUME NEW j \in D, NEW k \in D, j # k PROVE Cardinality(B[j]) # Cardinality(B[k])
  <2>1. j \in B[k] \/ k \in B[j] BY <1>4
  <2>2. Cardinality(B[j]) \in Nat /\ Cardinality(B[k]) \in Nat BY <1>2
  <2> QED BY <2>1, <2>2, <1>3
<1>5. \A m \in D : \E k \in D : Cardinality(B[k]) + 1 = m
  <2> DEFINE R == [k \in D |-> Cardinality(B[k]) + 1]
  <2>1. \A k \in D : Cardinality(B[k]) + 1 \in D BY <1>2
  <2>2. \A j, k \in D : j # k => Cardinality(B[j]) + 1 # Cardinality(B[k]) + 1
    <3> SUFFICES ASSUME NEW j \in D, NEW k \in D, j # k
                 PROVE  Cardinality(B[j]) + 1 # Cardinality(B[k]) + 1
        OBVIOUS
    <3>1. Cardinality(B[j]) \in Nat /\ Cardinality(B[k]) \in Nat BY <1>2
    <3> QED BY <3>1, <1>4
  <2>3. R \in Injection(D, D) BY <2>1, <2>2 DEF Injection, IsInjective
  <2>4. R \in Surjection(D, D) BY <1>1, <2>3, FS_Injection
  <2> QED BY <2>4 DEF Surjection
<1>6. \A k \in D : Cardinality(B[k]) + 1 \in D BY <1>2
<1> QED BY <1>3, <1>4, <1>5, <1>6

\* Taking an element out of a list moves those behind it up by one.
LEMMA OneTakenOut ==
    ASSUME NEW S, NEW t \in Seq(S), NEW k \in 1 .. Len(t)
    PROVE  /\ RemoveAt(t, k) \in Seq(S) /\ Len(RemoveAt(t, k)) = Len(t) - 1
           /\ \A i \in 1 .. Len(t) - 1 :
                 RemoveAt(t, k)[i] = IF i < k THEN t[i] ELSE t[i + 1]
<1> DEFINE u == RemoveAt(t, k)
<1>1. Len(t) \in Nat /\ k \in 1 .. Len(t) OBVIOUS
<1>3. PICK v : v = SubSeq(t, 1, k - 1) OBVIOUS
<1>4. PICK w : w = SubSeq(t, k + 1, Len(t)) OBVIOUS
<1>5. /\ v \in Seq(S) /\ Len(v) = k - 1 /\ \A i \in 1 .. k - 1 : v[i] = t[i]
  <2>1. \A i \in 1 .. k - 1 : t[i] \in S BY <1>1
  <2> QED BY <1>1, <1>3, <2>1, SubSeqProperties
<1>6. /\ w \in Seq(S) /\ Len(w) = Len(t) - k
      /\ \A i \in 1 .. Len(t) - k : w[i] = t[k + i]
  <2>1. \A i \in k + 1 .. Len(t) : t[i] \in S BY <1>1
  <2>2. /\ SubSeq(t, k + 1, Len(t)) \in Seq(S)
        /\ Len(SubSeq(t, k + 1, Len(t))) = IF k + 1 <= Len(t) THEN Len(t) - (k + 1) + 1 ELSE 0
        /\ \A i \in 1 .. Len(t) - (k + 1) + 1 : SubSeq(t, k + 1, Len(t))[i] = t[(k + 1) + i - 1]
        BY <1>1, <2>1, SubSeqProperties
  <2> QED BY <1>1, <1>4, <2>2
<1>7. u = v \o w BY <1>3, <1>4 DEF RemoveAt
<1>8. /\ u \in Seq(S) /\ Len(u) = Len(t) - 1
      /\ \A i \in 1 .. Len(t) - 1 : u[i] = IF i <= k - 1 THEN v[i] ELSE w[i - (k - 1)]
  <2>1. /\ v \o w \in Seq(S) /\ Len(v \o w) = Len(v) + Len(w)
        /\ \A i \in 1 .. Len(v) + Len(w) :
              (v \o w)[i] = IF i <= Len(v) THEN v[i] ELSE w[i - Len(v)]
        BY <1>5, <1>6, ConcatProperties
  <2> QED BY <1>1, <1>5, <1>6, <1>7, <2>1
<1> HIDE DEF u
<1>9. \A i \in 1 .. Len(t) - 1 : u[i] = IF i < k THEN t[i] ELSE t[i + 1]
  <2> SUFFICES ASSUME NEW i \in 1 .. Len(t) - 1
               PROVE  u[i] = IF i < k THEN t[i] ELSE t[i + 1]
      OBVIOUS
  <2>1. CASE i < k BY <2>1, <1>1, <1>5, <1>8
  <2>2. CASE ~(i < k)
    <3>1. u[i] = w[i - (k - 1)] BY <2>2, <1>1, <1>8
    <3>2. w[i - (k - 1)] = t[k + (i - (k - 1))] BY <2>2, <1>1, <1>6
    <3>3. k + (i - (k - 1)) = i + 1 BY <1>1
    <3> QED BY <2>2, <3>1, <3>2, <3>3
  <2> QED BY <2>1, <2>2
<1> QED BY <1>8, <1>9 DEF u

LEMMA FromZeroOn ==
    ASSUME NEW S, 0 \in S, \A n \in Nat : n \in S => n + 1 \in S
    PROVE  Nat \subseteq S
<1> SUFFICES ASSUME Nat \ S # {} PROVE FALSE OBVIOUS
<1>1. PICK m \in Nat \ S : \A n \in Nat \ S : m <= n
  <2>1. Nat \ S \subseteq Nat OBVIOUS
  <2> QED BY <2>1, LeastOf
<1>2. m # 0 /\ m - 1 \in Nat BY <1>1
<1>3. m - 1 \in S BY <1>1, <1>2
<1>4. (m - 1) + 1 \in S BY <1>2, <1>3
<1> QED BY <1>1, <1>4

\* f adds up the numbers d, from the first on.
AddsUp(f, d, n) == f \in [0 .. n -> Nat] /\ f[0] = 0 /\ \A k \in 1 .. n : f[k] = f[k - 1] + d[k]

LEMMA SumsExist ==
    ASSUME NEW L \in Nat, NEW d \in [1 .. L -> Nat]
    PROVE  \E f : AddsUp(f, d, L)
<1> DEFINE S == {m \in Nat : m <= L => \E f : AddsUp(f, d, m)}
<1>1. 0 \in S
  <2>1. PICK f : f = [k \in 0 .. 0 |-> 0] OBVIOUS
  <2>2. AddsUp(f, d, 0) BY <2>1 DEF AddsUp
  <2> QED BY <2>2
<1>2. ASSUME NEW m \in Nat, m \in S PROVE m + 1 \in S
  <2> SUFFICES ASSUME m + 1 <= L PROVE \E f : AddsUp(f, d, m + 1) OBVIOUS
  <2>1. PICK f : AddsUp(f, d, m) BY <1>2
  <2>2. PICK g : g = [k \in 0 .. m + 1 |-> IF k = m + 1 THEN f[m] + d[m + 1] ELSE f[k]] OBVIOUS
  <2>3. f[m] \in Nat /\ d[m + 1] \in Nat /\ \A k \in 0 .. m : f[k] \in Nat BY <2>1 DEF AddsUp
  <2>4. g[m + 1] = f[m] + d[m + 1] /\ \A k \in 0 .. m : g[k] = f[k] BY <2>2
  <2>5. \A k \in 0 .. m + 1 : g[k] \in Nat
    <3>1. \A k \in 0 .. m + 1 : k \in 0 .. m \/ k = m + 1 OBVIOUS
    <3>2. f[m] + d[m + 1] \in Nat BY <2>3
    <3> QED BY <3>1, <3>2, <2>3, <2>4
  <2>6. g \in [0 .. m + 1 -> Nat] /\ g[0] = 0 BY <2>1, <2>2, <2>4, <2>5 DEF AddsUp
  <2>7. ASSUME NEW k \in 1 .. m + 1 PROVE g[k] = g[k - 1] + d[k]
    <3>1. CASE k = m + 1
      <4>1. k - 1 = m /\ m \in 0 .. m BY <3>1
      <4> QED BY <4>1, <3>1, <2>4
    <3>2. CASE k # m + 1
      <4>1. k \in 1 .. m /\ k \in 0 .. m /\ k - 1 \in 0 .. m BY <3>2
      <4> QED BY <4>1, <2>1, <2>4 DEF AddsUp
    <3> QED BY <3>1, <3>2
  <2>8. AddsUp(g, d, m + 1) BY <2>6, <2>7 DEF AddsUp
  <2> QED BY <2>8
<1> HIDE DEF S
<1>3. Nat \subseteq S BY <1>1, <1>2, FromZeroOn
<1> QED BY <1>3 DEF S

\* What holds of each number holds of the sums.
LEMMA SumsCompare ==
    ASSUME NEW L \in Nat, NEW a \in [1 .. L -> Nat], NEW b \in [1 .. L -> Nat],
           NEW f, NEW g, AddsUp(f, a, L), AddsUp(g, b, L), NEW lo \in Nat, NEW hi \in Nat,
           \A k \in 1 .. L : lo * b[k] <= a[k] /\ a[k] <= hi * b[k]
    PROVE  /\ f[L] \in Nat /\ g[L] \in Nat
           /\ lo * g[L] <= f[L] /\ f[L] <= hi * g[L]
<1> DEFINE S == {m \in Nat : m <= L => lo * g[m] <= f[m] /\ f[m] <= hi * g[m]}
<1>1. \A k \in 0 .. L : f[k] \in Nat /\ g[k] \in Nat BY DEF AddsUp
<1>2. 0 \in S
  <2>1. f[0] = 0 /\ g[0] = 0 BY DEF AddsUp
  <2> QED BY <2>1
<1>3. ASSUME NEW m \in Nat, m \in S PROVE m + 1 \in S
  <2> SUFFICES ASSUME m + 1 <= L
               PROVE  lo * g[m + 1] <= f[m + 1] /\ f[m + 1] <= hi * g[m + 1]
      OBVIOUS
  <2>1. m + 1 \in 1 .. L /\ m \in 0 .. L /\ (m + 1) - 1 = m OBVIOUS
  <2>2. f[m + 1] = f[m] + a[m + 1] /\ g[m + 1] = g[m] + b[m + 1] BY <2>1 DEF AddsUp
  <2>3. PICK x \in Nat, y \in Nat, u \in Nat, v \in Nat :
           x = f[m] /\ y = g[m] /\ u = a[m + 1] /\ v = b[m + 1]
        BY <2>1, <1>1
  <2>4. lo * y <= x /\ x <= hi * y BY <1>3, <2>3
  <2>5. lo * v <= u /\ u <= hi * v BY <2>1, <2>3
  <2>6. lo * (y + v) = lo * y + lo * v /\ hi * (y + v) = hi * y + hi * v OBVIOUS
  <2>7. lo * (y + v) <= x + u /\ x + u <= hi * (y + v) BY <2>4, <2>5, <2>6
  <2> QED BY <2>2, <2>3, <2>7
<1> HIDE DEF S
<1>4. Nat \subseteq S BY <1>2, <1>3, FromZeroOn
<1>5. L \in S /\ L \in 0 .. L BY <1>4
<1> QED BY <1>1, <1>5 DEF S

\* Ones add up to how many there are.
LEMMA OnesAddUp ==
    ASSUME NEW L \in Nat, NEW K, K \subseteq 1 .. L,
           NEW f, AddsUp(f, [k \in 1 .. L |-> IF k \in K THEN 1 ELSE 0], L)
    PROVE  f[L] = Cardinality(K)
<1> DEFINE S == {m \in Nat : m <= L => f[m] = Cardinality(K \cap 1 .. m)}
<1>1. 0 \in S
  <2>1. K \cap 1 .. 0 = {} OBVIOUS
  <2>2. f[0] = 0 BY DEF AddsUp
  <2> QED BY <2>1, <2>2, FS_EmptySet
<1>2. ASSUME NEW m \in Nat, m \in S PROVE m + 1 \in S
  <2> SUFFICES ASSUME m + 1 <= L PROVE f[m + 1] = Cardinality(K \cap 1 .. m + 1) OBVIOUS
  <2>1. m + 1 \in 1 .. L /\ (m + 1) - 1 = m OBVIOUS
  <2>2. f[m + 1] = f[m] + (IF m + 1 \in K THEN 1 ELSE 0) BY <2>1 DEF AddsUp
  <2>3. f[m] = Cardinality(K \cap 1 .. m) BY <1>2
  <2>4. IsFiniteSet(K \cap 1 .. m) /\ m + 1 \notin K \cap 1 .. m
    <3>1. IsFiniteSet(1 .. m) BY FS_Interval
    <3> QED BY <3>1, FS_Subset
  <2>5. Cardinality(K \cap 1 .. m) \in Nat BY <2>4, FS_CardinalityType
  <2>6. CASE m + 1 \in K
    <3>1. K \cap 1 .. m + 1 = (K \cap 1 .. m) \cup {m + 1} BY <2>6
    <3>2. Cardinality((K \cap 1 .. m) \cup {m + 1}) = Cardinality(K \cap 1 .. m) + 1
          BY <2>4, FS_AddElement
    <3> QED BY <3>1, <3>2, <2>2, <2>3, <2>6
  <2>7. CASE m + 1 \notin K
    <3>1. K \cap 1 .. m + 1 = K \cap 1 .. m BY <2>7
    <3>2. PICK c \in Nat : c = f[m] BY <2>3, <2>5
    <3>3. f[m + 1] = c + 0 BY <3>2, <2>2, <2>7
    <3>4. f[m + 1] = f[m] BY <3>2, <3>3
    <3> QED BY <3>1, <3>4, <2>3
  <2> QED BY <2>6, <2>7
<1> HIDE DEF S
<1>3. Nat \subseteq S BY <1>1, <1>2, FromZeroOn
<1>4. K \cap 1 .. L = K OBVIOUS
<1> QED BY <1>3, <1>4 DEF S

\* f is what e becomes, step by step.
StepsFrom(f, n, V, e, step) ==
    f \in [0 .. n -> V] /\ f[0] = e /\ \A k \in 1 .. n : f[k] = step[<<k, f[k - 1]>>]

\* Something that is changed n times has been something each time.
LEMMA StepsExist ==
    ASSUME NEW V, NEW e \in V, NEW n \in Nat, NEW step,
           \A k \in 1 .. n : \A s \in V : step[<<k, s>>] \in V
    PROVE  \E f : StepsFrom(f, n, V, e, step)
<1> DEFINE Reached(f, m) ==
               f \in [0 .. m -> V] /\ f[0] = e /\ \A k \in 1 .. m : f[k] = step[<<k, f[k - 1]>>]
           S == {m \in Nat : m <= n => \E f : Reached(f, m)}
<1>1. 0 \in S
  <2>1. PICK f : f = [k \in 0 .. 0 |-> e] OBVIOUS
  <2>2. Reached(f, 0) BY <2>1
  <2> QED BY <2>2
<1>2. ASSUME NEW m \in Nat, m \in S PROVE m + 1 \in S
  <2> SUFFICES ASSUME m + 1 <= n PROVE \E f : Reached(f, m + 1) OBVIOUS
  <2>1. PICK f : Reached(f, m) BY <1>2
  <2>2. PICK g : g = [k \in 0 .. m + 1 |-> IF k = m + 1 THEN step[<<m + 1, f[m]>>] ELSE f[k]] OBVIOUS
  <2>3. f[m] \in V /\ m + 1 \in 1 .. n BY <2>1
  <2>4. step[<<m + 1, f[m]>>] \in V BY <2>3
  <2>5. g \in [0 .. m + 1 -> V]
    <3>1. \A k \in 0 .. m + 1 : g[k] \in V
      <4> SUFFICES ASSUME NEW k \in 0 .. m + 1 PROVE g[k] \in V OBVIOUS
      <4>1. CASE k = m + 1 BY <4>1, <2>2, <2>4
      <4>2. CASE k # m + 1
        <5>1. k \in 0 .. m BY <4>2
        <5> QED BY <5>1, <4>2, <2>1, <2>2
      <4> QED BY <4>1, <4>2
    <3> QED BY <3>1, <2>2
  <2>6. g[0] = e
    <3>1. 0 \in 0 .. m + 1 /\ 0 # m + 1 OBVIOUS
    <3> QED BY <3>1, <2>1, <2>2
  <2>7. ASSUME NEW k \in 1 .. m + 1 PROVE g[k] = step[<<k, g[k - 1]>>]
    <3>1. k - 1 \in 0 .. m + 1 /\ k - 1 # m + 1 /\ k \in 0 .. m + 1 OBVIOUS
    <3>2. g[k - 1] = f[k - 1] BY <3>1, <2>2
    <3>3. CASE k = m + 1
      <4>1. k - 1 = m BY <3>3
      <4> QED BY <4>1, <3>1, <3>2, <3>3, <2>2
    <3>4. CASE k # m + 1
      <4>1. k \in 1 .. m BY <3>4
      <4>2. g[k] = f[k] BY <3>1, <3>4, <2>2
      <4> QED BY <4>1, <4>2, <3>2, <2>1
    <3> QED BY <3>3, <3>4
  <2>8. Reached(g, m + 1) BY <2>5, <2>6, <2>7
  <2> QED BY <2>8
<1> HIDE DEF S
<1>3. Nat \subseteq S BY <1>1, <1>2, FromZeroOn
<1> HIDE DEF Reached
<1>4. n \in S /\ n <= n BY <1>3
<1>5. PICK f : Reached(f, n) BY <1>4 DEF S
<1> QED BY <1>5 DEF Reached, StepsFrom

LEMMA JoinTwo ==
    ASSUME NEW S, NEW s \in Seq(S), NEW t \in Seq(S)
    PROVE  /\ s \o t \in Seq(S) /\ Range(s \o t) = Range(s) \cup Range(t)
           /\ IsInjective(s) /\ IsInjective(t) /\ Range(s) \cap Range(t) = {} => IsInjective(s \o t)
<1>1. PICK m \in Nat, n \in Nat : m = Len(s) /\ n = Len(t) OBVIOUS
<1>2. PICK r : r = s \o t OBVIOUS
<1>3. /\ r \in Seq(S) /\ Len(r) = m + n
      /\ \A i \in 1 .. m : r[i] = s[i]
      /\ \A i \in m + 1 .. m + n : r[i] = t[i - m]
      BY <1>1, <1>2, ConcatProperties
<1>4. DOMAIN s = 1 .. m /\ DOMAIN t = 1 .. n /\ DOMAIN r = 1 .. m + n BY <1>1, <1>3
<1>5. Range(r) = Range(s) \cup Range(t)
  <2>1. ASSUME NEW i \in 1 .. m + n PROVE r[i] \in Range(s) \cup Range(t)
    <3>1. CASE i \in 1 .. m BY <3>1, <1>3, <1>4 DEF Range
    <3>2. CASE i \notin 1 .. m
      <4>1. i \in m + 1 .. m + n /\ i - m \in 1 .. n BY <3>2
      <4> QED BY <4>1, <1>3, <1>4 DEF Range
    <3> QED BY <3>1, <3>2
  <2>2. ASSUME NEW i \in 1 .. m PROVE s[i] \in Range(r)
    <3>1. i \in 1 .. m + n OBVIOUS
    <3> QED BY <3>1, <1>3, <1>4 DEF Range
  <2>3. ASSUME NEW i \in 1 .. n PROVE t[i] \in Range(r)
    <3>1. m + i \in 1 .. m + n /\ m + i \in m + 1 .. m + n /\ (m + i) - m = i OBVIOUS
    <3>2. r[m + i] = t[i] BY <3>1, <1>3
    <3> QED BY <3>1, <3>2, <1>4 DEF Range
  <2> QED BY <2>1, <2>2, <2>3, <1>4 DEF Range
<1>6. ASSUME IsInjective(s), IsInjective(t), Range(s) \cap Range(t) = {} PROVE IsInjective(r)
  <2> SUFFICES ASSUME NEW i \in 1 .. m + n, NEW j \in 1 .. m + n, r[i] = r[j] PROVE i = j
      BY <1>4 DEF IsInjective
  <2>1. CASE i \in 1 .. m /\ j \in 1 .. m BY <2>1, <1>3, <1>4, <1>6 DEF IsInjective
  <2>2. CASE i \notin 1 .. m /\ j \notin 1 .. m
    <3>1. i \in m + 1 .. m + n /\ i - m \in 1 .. n BY <2>2
    <3>2. j \in m + 1 .. m + n /\ j - m \in 1 .. n BY <2>2
    <3>3. t[i - m] = t[j - m] BY <3>1, <3>2, <1>3
    <3>4. i - m = j - m BY <3>1, <3>2, <3>3, <1>4, <1>6 DEF IsInjective
    <3> QED BY <3>4
  <2>3. ASSUME NEW x \in 1 .. m, NEW y \in 1 .. m + n, y \notin 1 .. m, r[x] = r[y] PROVE FALSE
    <3>1. y \in m + 1 .. m + n /\ y - m \in 1 .. n BY <2>3
    <3>2. s[x] = t[y - m] BY <3>1, <2>3, <1>3
    <3>3. s[x] \in Range(s) /\ t[y - m] \in Range(t) BY <3>1, <1>4 DEF Range
    <3> QED BY <3>2, <3>3, <1>6
  <2> QED BY <2>1, <2>2, <2>3
<1> QED BY <1>2, <1>3, <1>5, <1>6

\* What a list of children holds when another is added.
LEMMA AppendedRange ==
    ASSUME NEW S, NEW q \in Seq(S), NEW e \in S
    PROVE  Append(q, e) \in Seq(S) /\ Range(Append(q, e)) = Range(q) \cup {e}
<1>1. Append(q, e) \in Seq(S) OBVIOUS
<1>2. /\ DOMAIN q = 1 .. Len(q) /\ DOMAIN Append(q, e) = 1 .. Len(q) + 1 /\ Len(q) \in Nat
      /\ \A i \in 1 .. Len(q) : Append(q, e)[i] = q[i]
      /\ Append(q, e)[Len(q) + 1] = e
      OBVIOUS
<1>3. 1 .. Len(q) + 1 = 1 .. Len(q) \cup {Len(q) + 1} BY <1>2
<1> QED BY <1>1, <1>2, <1>3 DEF Range

LEMMA ImageIsFinite ==
    ASSUME NEW S, IsFiniteSet(S), NEW f, f \in [S -> {f[x] : x \in S}]
    PROVE  IsFiniteSet({f[x] : x \in S})
<1>1. PICK T : T = {f[x] : x \in S} OBVIOUS
<1>2. f \in Surjection(S, T) BY <1>1 DEF Surjection
<1> QED BY <1>1, <1>2, FS_Surjection

-----------------------------------------------------------------------------
(***************************************************************************)
(* What guards the models.                                                 *)
(***************************************************************************)

Rated(d, severity) == \E id, layer, type : d = Detection(id, layer, type, severity)

\* The worst severity is that of a sign that was found, or 0.
LEMMA Worst ==
    ASSUME NEW found \in SUBSET (SuspiciousPatterns \cup StructuralSigns \cup SemanticSigns)
    PROVE  /\ MaxSeverity(found) \in 0 .. 9
           /\ \A d \in found : d.severity <= MaxSeverity(found)
           /\ MaxSeverity(found) = 0 \/ \E d \in found : d.severity = MaxSeverity(found)
<1>1. \A d \in SuspiciousPatterns \cup StructuralSigns \cup SemanticSigns : d.severity \in 4 .. 9
  <2>1. \A d \in SuspiciousPatterns :
           Rated(d, 5) \/ Rated(d, 6) \/ Rated(d, 7) \/ Rated(d, 8) \/ Rated(d, 9)
        BY Zenon DEF SuspiciousPatterns, Rated
  <2>2. \A d \in StructuralSigns : Rated(d, 4) \/ Rated(d, 5) \/ Rated(d, 6)
        BY Zenon DEF StructuralSigns, Rated
  <2>3. \A d \in SemanticSigns : Rated(d, 7) \/ Rated(d, 8)
        BY Zenon DEF SemanticSigns, Rated
  <2>4. \A d, s : Rated(d, s) => d.severity = s BY DEF Rated, Detection
  <2> QED BY <2>1, <2>2, <2>3, <2>4
<1>2. PICK S : S = {d.severity : d \in found} \cup {0} OBVIOUS
<1>3. S \in SUBSET (0 .. 9) /\ S # {} BY <1>1, <1>2
<1>4. Max(S) \in S /\ \A y \in S : Max(S) >= y BY <1>3, GreatestOf
<1>5. MaxSeverity(found) = Max(S) BY <1>2 DEF MaxSeverity
<1>6. PICK m : m = Max(S) OBVIOUS
<1>7. m \in 0 .. 9 BY <1>3, <1>4, <1>6
<1>8. \A d \in found : d.severity \in S /\ d.severity \in 4 .. 9 BY <1>1, <1>2
<1>9. \A d \in found : d.severity <= m BY <1>4, <1>6, <1>7, <1>8
<1>10. m = 0 \/ \E d \in found : d.severity = m BY <1>2, <1>4, <1>6
<1> QED BY <1>5, <1>6, <1>7, <1>9, <1>10

LEMMA DetectedIsKnown ==
    \A prompt : Detected(prompt) \in SUBSET (SuspiciousPatterns \cup StructuralSigns \cup SemanticSigns)
BY DEF Detected

\* Only the severities that a check gives: none is low.
AreViolations(V) == IsFiniteSet(V) /\ \A v \in V : v.severity \in {"medium", "high", "critical"}

\* The mean of the scores is at least 30 and at most 100, and at most 60 without a critical one.
LEMMA TotalIsBetween ==
    ASSUME NEW V, AreViolations(V), V # {}
    PROVE  \E n \in Nat \ {0} :
              /\ n = Cardinality(V) /\ ScoreSum(V) \in Nat
              /\ 30 * n <= ScoreSum(V) /\ ScoreSum(V) <= 100 * n
              /\ (\A v \in V : v.severity # "critical") => ScoreSum(V) <= 60 * n
<1>1. IsFiniteSet(V) /\ \A v \in V : v.severity \in {"medium", "high", "critical"} BY DEF AreViolations
<1>2. PICK L, M, H, C : /\ L = OfSeverity(V, "low") /\ M = OfSeverity(V, "medium")
                        /\ H = OfSeverity(V, "high") /\ C = OfSeverity(V, "critical")
      OBVIOUS
<1>3. /\ L = {} /\ V = (M \cup H) \cup C /\ M \cap H = {} /\ (M \cup H) \cap C = {}
      /\ M \subseteq V /\ H \subseteq V /\ C \subseteq V
      BY <1>1, <1>2 DEF OfSeverity
<1>4. IsFiniteSet(M) /\ IsFiniteSet(H) /\ IsFiniteSet(C) BY <1>1, <1>3, FS_Subset
<1>5. PICK m \in Nat, h \in Nat, c \in Nat : m = Cardinality(M) /\ h = Cardinality(H) /\ c = Cardinality(C)
      BY <1>4, FS_CardinalityType
<1>6. IsFiniteSet(M \cup H) /\ Cardinality(M \cup H) = m + h
  <2>1. Cardinality(M \cup H) = Cardinality(M) + Cardinality(H) - Cardinality({})
        BY <1>3, <1>4, FS_Union
  <2>2. Cardinality({}) = 0 BY FS_EmptySet
  <2>3. IsFiniteSet(M \cup H) BY <1>4, FS_Union
  <2> QED BY <2>1, <2>2, <2>3, <1>5
<1>7. Cardinality(V) = m + h + c
  <2>1. Cardinality((M \cup H) \cup C) = Cardinality(M \cup H) + Cardinality(C) - Cardinality({})
        BY <1>3, <1>4, <1>6, FS_Union
  <2>2. Cardinality({}) = 0 BY FS_EmptySet
  <2> QED BY <2>1, <2>2, <1>3, <1>5, <1>6
<1>8. Cardinality(V) # 0 BY <1>1, FS_EmptySet
<1>9. ScoreSum(V) = 30 * m + 60 * h + 100 * c
  <2>1. Cardinality(L) = 0 BY <1>3, FS_EmptySet
  <2>2. /\ SeverityScores["low"] = 10 /\ SeverityScores["medium"] = 30
        /\ SeverityScores["high"] = 60 /\ SeverityScores["critical"] = 100
        BY DEF SeverityScores
  <2>3. ScoreSum(V) = SeverityScores["low"] * Cardinality(L) + SeverityScores["medium"] * Cardinality(M)
                        + SeverityScores["high"] * Cardinality(H) + SeverityScores["critical"] * Cardinality(C)
        BY <1>2 DEF ScoreSum
  <2>4. ScoreSum(V) = 10 * 0 + 30 * m + 60 * h + 100 * c BY <2>1, <2>2, <2>3, <1>5
  <2> QED BY <2>4
<1>10. (\A v \in V : v.severity # "critical") => c = 0
  <2> SUFFICES ASSUME \A v \in V : v.severity # "critical" PROVE c = 0 OBVIOUS
  <2>1. C = {} BY <1>2 DEF OfSeverity
  <2> QED BY <2>1, <1>5, FS_EmptySet
<1>11. PICK n \in Nat \ {0} : n = m + h + c BY <1>7, <1>8
<1> QED BY <1>7, <1>9, <1>10, <1>11

LEMMA RoundedDown ==
    ASSUME NEW a \in Nat, NEW b \in Nat \ {0}
    PROVE  /\ a \div b \in Nat
           /\ b * (a \div b) <= a /\ a < b * (a \div b) + b
<1>1. a \div b \in Int OBVIOUS
<1>2. b * (a \div b) <= a OBVIOUS
<1>3. a < b * (a \div b) + b OBVIOUS
<1>4. PICK q \in Int : q = a \div b BY <1>1
<1>5. q < 0 => b * q + b <= 0
  <2>1. q < 0 => b * (q + 1) <= 0 OBVIOUS
  <2> QED BY <2>1
<1> QED BY <1>2, <1>3, <1>4, <1>5

LEMMA ScoreIsBetween ==
    ASSUME NEW V, AreViolations(V)
    PROVE  /\ GuardScore(V) \in 0 .. 100
           /\ (\A v \in V : v.severity # "critical") => GuardScore(V) <= 60
           /\ (\E v \in V : v.severity = "critical") => GuardScore(V) >= 79
<1>1. CASE V = {} BY <1>1 DEF GuardScore
<1>2. CASE V # {}
  <2>1. PICK n \in Nat \ {0} :
              /\ n = Cardinality(V) /\ ScoreSum(V) \in Nat
              /\ 30 * n <= ScoreSum(V) /\ ScoreSum(V) <= 100 * n
              /\ (\A v \in V : v.severity # "critical") => ScoreSum(V) <= 60 * n
        BY <1>2, TotalIsBetween
  <2>2. PICK t \in Nat : t = ScoreSum(V) BY <2>1
  <2>3. PICK S : S = {SeverityScores[v.severity] : v \in V} OBVIOUS
  <2>4. /\ SeverityScores["medium"] = 30
        /\ SeverityScores["high"] = 60 /\ SeverityScores["critical"] = 100
        BY DEF SeverityScores
  <2>5. \A v \in V : v.severity \in {"medium", "high", "critical"} BY DEF AreViolations
  <2>6. S \subseteq {30, 60, 100} /\ S # {} BY <1>2, <2>3, <2>4, <2>5
  <2>7. S \in SUBSET (0 .. 100) BY <2>6
  <2>8. Max(S) \in S /\ \A y \in S : Max(S) >= y BY <2>6, <2>7, GreatestOf
  <2>9. PICK w \in {30, 60, 100} : w = Max(S) BY <2>6, <2>8
  <2>10. (\E v \in V : v.severity = "critical") => w = 100
    <3>1. (\E v \in V : v.severity = "critical") => 100 \in S BY <2>3, <2>4
    <3> QED BY <3>1, <2>8, <2>9
  <2>11. (\A v \in V : v.severity # "critical") => w <= 60
    <3>1. (\A v \in V : v.severity # "critical") => S \subseteq {30, 60} BY <2>3, <2>4, <2>5
    <3> QED BY <3>1, <2>8, <2>9
  <2>12. PICK a \in Nat : a = 7 * w * n + 3 * t + 5 * n BY <2>9
  <2>13. PICK q : q = a \div (10 * n) OBVIOUS
  <2>14. GuardScore(V) = q BY <1>2, <2>1, <2>2, <2>3, <2>9, <2>12, <2>13 DEF GuardScore
  <2>15. q \in Nat /\ 10 * n * q <= a /\ a < 10 * n * q + 10 * n
    <3>1. PICK b \in Nat \ {0} : b = 10 * n OBVIOUS
    <3>2. a \div b \in Nat /\ b * (a \div b) <= a /\ a < b * (a \div b) + b BY RoundedDown
    <3> QED BY <3>1, <3>2, <2>13
  <2>16. PICK p \in Int : p = n * q BY <2>15
  <2>17. 10 * p <= a /\ a < 10 * p + 10 * n BY <2>15, <2>16
  <2>18. 7 * w * n = 210 * n \/ 7 * w * n = 420 * n \/ 7 * w * n = 700 * n BY <2>9
  <2>19. q <= 100
    <3>1. 10 * p <= 1005 * n BY <2>1, <2>2, <2>12, <2>17, <2>18
    <3>2. q >= 101 => p >= 101 * n BY <2>15, <2>16
    <3> QED BY <3>1, <3>2, <2>15
  <2>20. ASSUME \A v \in V : v.severity # "critical" PROVE q <= 60
    <3>1. 7 * w * n <= 420 * n /\ t <= 60 * n BY <2>1, <2>2, <2>11, <2>20, <2>9
    <3>2. 10 * p <= 605 * n BY <3>1, <2>12, <2>17
    <3>3. q >= 61 => p >= 61 * n BY <2>15, <2>16
    <3> QED BY <3>2, <3>3, <2>15
  <2>21. ASSUME \E v \in V : v.severity = "critical" PROVE q >= 79
    <3>1. 7 * w * n = 700 * n /\ t >= 30 * n BY <2>1, <2>2, <2>10, <2>21
    <3>2. 795 * n < 10 * p + 10 * n BY <3>1, <2>12, <2>17
    <3>3. q <= 78 => p <= 78 * n BY <2>15, <2>16
    <3> QED BY <3>2, <3>3, <2>15
  <2> QED BY <2>14, <2>15, <2>19, <2>20, <2>21
<1> QED BY <1>1, <1>2

\* What a detection says, under the settings g.
VerdictFollows(d, g) ==
    d.is = "detection" =>
        /\ d.level = "definite_attack" /\ g.blockThreshold <= 9 => d.blocked
        /\ d.level \in {"safe", "suspicious"} /\ g.blockThreshold > 6 => ~d.blocked
        /\ g.blockThreshold > 0 => (d.blocked <=> d.reasons # {})

LEMMA VerdictIsGiven ==
    ASSUME guardSettings \in GuardSettings, NEW prompt,
           NEW d, d = [is |-> "detection", level |-> ThreatLevel(Detected(prompt)),
                       blocked |-> Blocked(Detected(prompt)),
                       reasons |-> IF Blocked(Detected(prompt))
                                   THEN {s.type : s \in Detected(prompt)} ELSE {}]
    PROVE  VerdictFollows(d, guardSettings)
<1>1. PICK found : found = Detected(prompt) OBVIOUS
<1>2. found \in SUBSET (SuspiciousPatterns \cup StructuralSigns \cup SemanticSigns)
      BY <1>1, DetectedIsKnown
<1>3. PICK m \in 0 .. 9 :
         m = MaxSeverity(found) /\ (m = 0 \/ \E s \in found : s.severity = m)
      BY <1>2, Worst
<1>4. PICK t \in Int : t = guardSettings.blockThreshold BY GuardsAssumption
<1>5. d.level = ThreatLevel(found) /\ (d.blocked = TRUE <=> m >= t)
      BY <1>1, <1>3, <1>4 DEF Blocked
<1>6. /\ d.blocked = TRUE => d.reasons = {s.type : s \in found}
      /\ d.blocked # TRUE => d.reasons = {}
      BY <1>1
<1>7. d.blocked \in BOOLEAN BY DEF Blocked
<1>8. d.level = "definite_attack" => m >= 9 BY <1>3, <1>5 DEF ThreatLevel
<1>9. d.level \in {"safe", "suspicious"} => m < 7
  <2>1. CASE m >= 9 BY <2>1, <1>3, <1>5 DEF ThreatLevel
  <2>2. CASE m \in 7 .. 8 BY <2>2, <1>3, <1>5 DEF ThreatLevel
  <2> QED BY <2>1, <2>2
<1>10. m # 0 => {s.type : s \in found} # {}
  <2> SUFFICES ASSUME m # 0 PROVE {s.type : s \in found} # {} OBVIOUS
  <2>1. PICK s \in found : s.severity = m BY <1>3
  <2> QED BY <2>1
<1>11. t > 0 => (d.blocked = TRUE <=> d.reasons # {}) BY <1>3, <1>4, <1>5, <1>6, <1>10
<1>12. (d.level = "definite_attack" /\ t <= 9) => d.blocked = TRUE BY <1>5, <1>8
<1>13. (d.level \in {"safe", "suspicious"} /\ t > 6) => d.blocked # TRUE
  <2> SUFFICES ASSUME d.level \in {"safe", "suspicious"}, t > 6 PROVE ~(m >= t)
      BY <1>5
  <2>1. m < 7 BY <1>9
  <2> QED BY <2>1, <1>3, <1>4
<1> QED BY <1>4, <1>7, <1>11, <1>12, <1>13 DEF VerdictFollows

\* More signs are not less severe.
LEMMA MoreIsWorse ==
    ASSUME guardSettings \in GuardSettings, NEW p, NEW q, p \subseteq q, Blocked(Detected(p))
    PROVE  Blocked(Detected(q))
<1>1. Detected(p) \subseteq Detected(q) BY DEF Detected
<1>2. PICK m \in 0 .. 9 :
         m = MaxSeverity(Detected(p)) /\ (m = 0 \/ \E s \in Detected(p) : s.severity = m)
      BY DetectedIsKnown, Worst
<1>3. PICK n \in 0 .. 9 :
         n = MaxSeverity(Detected(q)) /\ \A s \in Detected(q) : s.severity <= n
      BY DetectedIsKnown, Worst
<1>4. PICK t \in Int : t = guardSettings.blockThreshold BY GuardsAssumption
<1>5. m <= n
  <2>1. CASE m = 0 BY <2>1
  <2>2. CASE \E s \in Detected(p) : s.severity = m BY <2>2, <1>1, <1>3
  <2> QED BY <2>1, <2>2, <1>2
<1> QED BY <1>2, <1>3, <1>4, <1>5 DEF Blocked

LEMMA FourAreFinite == \A a, b, c, d : IsFiniteSet({a, b, c, d})
<1> TAKE a, b, c, d
<1>1. IsFiniteSet({a} \cup {b}) BY FS_Singleton, FS_AddElement
<1>2. IsFiniteSet(({a} \cup {b}) \cup {c}) BY <1>1, FS_AddElement
<1>3. IsFiniteSet((({a} \cup {b}) \cup {c}) \cup {d}) BY <1>2, FS_AddElement
<1>4. {a, b, c, d} = (({a} \cup {b}) \cup {c}) \cup {d} OBVIOUS
<1> QED BY <1>3, <1>4

LEMMA KindsAreFinite ==
    ASSUME NEW K, IsFiniteSet(K), NEW s \in {"medium", "high", "critical"}
    PROVE  AreViolations({Violation(k, s) : k \in K})
<1>1. PICK T : T = {Violation(k, s) : k \in K} OBVIOUS
<1>2. PICK f : f = [k \in K |-> Violation(k, s)] OBVIOUS
<1>3. f \in Surjection(K, T) BY <1>1, <1>2 DEF Surjection
<1>4. IsFiniteSet(T) BY <1>3, FS_Surjection
<1>5. \A v \in T : v.severity = s BY <1>1 DEF Violation
<1> QED BY <1>1, <1>4, <1>5 DEF AreViolations

LEMMA ViolationsTogether == \A V, W : AreViolations(V) /\ AreViolations(W) => AreViolations(V \cup W)
BY FS_Union DEF AreViolations

LEMMA ViolationsAreFew ==
    /\ \A output : AreViolations(ContentViolations(output))
    /\ \A cost : AreViolations(CostViolations(cost))
    /\ \A timestamps : AreViolations(RateViolations(timestamps))
<1>1. /\ IsFiniteSet(PersonalData) /\ IsFiniteSet(SecretKinds)
      /\ IsFiniteSet(Harmful) /\ IsFiniteSet(Jailbroken)
  <2>1. IsFiniteSet(PersonalData) BY FourAreFinite DEF PersonalData
  <2>2. IsFiniteSet(SecretKinds) BY FourAreFinite DEF SecretKinds
  <2>3. Harmful = {"how to hack", "phishing", "bypass security", "bypass security"} BY DEF Harmful
  <2>4. Jailbroken = {"as dan", "in developer mode", "as dan", "as dan"} BY DEF Jailbroken
  <2>5. IsFiniteSet(Harmful) BY <2>3, FourAreFinite
  <2>6. IsFiniteSet(Jailbroken) BY <2>4, FourAreFinite
  <2> QED BY <2>1, <2>2, <2>5, <2>6
<1>3. ASSUME NEW output PROVE AreViolations(ContentViolations(output))
  <2>1. PICK A, B, C, D :
           /\ A = {p \in PersonalData \cap output : "pii" \in guardSettings.checks}
           /\ B = {p \in SecretKinds \cap output : "secrets" \in guardSettings.checks}
           /\ C = {p \in Harmful \cap output : "harmful" \in guardSettings.checks}
           /\ D = Jailbroken \cap output
        OBVIOUS
  <2>2. A \subseteq PersonalData /\ B \subseteq SecretKinds /\ C \subseteq Harmful /\ D \subseteq Jailbroken
        BY <2>1
  <2>3. IsFiniteSet(A) /\ IsFiniteSet(B) /\ IsFiniteSet(C) /\ IsFiniteSet(D)
        BY <1>1, <2>2, FS_Subset
  <2>5. PICK VA, VB, VC, VD :
           /\ VA = {Violation(k, "high") : k \in A} /\ VB = {Violation(k, "critical") : k \in B}
           /\ VC = {Violation(k, "high") : k \in C} /\ VD = {Violation(k, "critical") : k \in D}
        OBVIOUS
  <2>6. AreViolations(VA) /\ AreViolations(VB) /\ AreViolations(VC) /\ AreViolations(VD)
        BY <2>3, <2>5, KindsAreFinite
  <2>7. ContentViolations(output) = ((VA \cup VB) \cup VC) \cup VD
        BY <2>1, <2>5 DEF ContentViolations
  <2>8. AreViolations(VA \cup VB) BY <2>6, ViolationsTogether
  <2>9. AreViolations((VA \cup VB) \cup VC) BY <2>6, <2>8, ViolationsTogether
  <2> QED BY <2>6, <2>7, <2>9, ViolationsTogether
<1>4. \A k : \A s \in {"medium", "high", "critical"} :
         \A V \in SUBSET {Violation(k, s)} : AreViolations(V)
  <2> SUFFICES ASSUME NEW k, NEW s \in {"medium", "high", "critical"},
                      NEW V \in SUBSET {Violation(k, s)}
               PROVE  AreViolations(V)
      OBVIOUS
  <2>1. IsFiniteSet({Violation(k, s)}) BY FS_Singleton
  <2>2. IsFiniteSet(V) BY <2>1, FS_Subset
  <2>3. \A v \in V : v.severity = s BY DEF Violation
  <2> QED BY <2>2, <2>3 DEF AreViolations
<1>5. \A cost : AreViolations(CostViolations(cost))
  <2>1. \A cost : CostViolations(cost) \in SUBSET {Violation("cost", "high")} BY DEF CostViolations
  <2>2. "high" \in {"medium", "high", "critical"} OBVIOUS
  <2>3. \A V \in SUBSET {Violation("cost", "high")} : AreViolations(V) BY <2>2, <1>4
  <2> QED BY <2>1, <2>3
<1>6. \A timestamps : AreViolations(RateViolations(timestamps))
  <2>1. \A timestamps : RateViolations(timestamps) \in SUBSET {Violation("rate", "medium")}
        BY DEF RateViolations
  <2>2. "medium" \in {"medium", "high", "critical"} OBVIOUS
  <2>3. \A V \in SUBSET {Violation("rate", "medium")} : AreViolations(V) BY <2>2, <1>4
  <2> QED BY <2>1, <2>3
<1> QED BY <1>3, <1>5, <1>6

EveryKind == {"pii", "secrets", "harmful", "rate", "cost"}

\* What a check says, under the settings g.
CheckFollows(c, g) ==
    c.is = "check" =>
        LET critical == \E v \in c.violations : v.severity = "critical" IN
        /\ critical => ~c.safe
        /\ g.riskThreshold > 60 => (c.safe <=> ~critical)
        /\ g.riskThreshold <= 79 /\ c.warning => c.safe
        /\ c.safe /\ g.checks = EveryKind =>
               c.sanitized \cap (PersonalData \cup SecretKinds) = {}

\* Where everything is looked for, all that is personal or secret is found, and so redacted.
LEMMA FoundIsRedacted ==
    ASSUME NEW output, NEW V, ContentViolations(output) \subseteq V, guardSettings.checks = EveryKind
    PROVE  Sanitized(output, V) \cap (PersonalData \cup SecretKinds) = {}
<1> SUFFICES ASSUME NEW k \in output, k \in PersonalData \cup SecretKinds
             PROVE  \E v \in V : v.kind = k
    BY DEF Sanitized
<1>1. "pii" \in guardSettings.checks /\ "secrets" \in guardSettings.checks BY DEF EveryKind
<1>2. CASE k \in PersonalData
  <2>1. Violation(k, "high") \in ContentViolations(output) BY <1>1, <1>2 DEF ContentViolations
  <2> QED BY <2>1 DEF Violation
<1>3. CASE k \in SecretKinds
  <2>1. Violation(k, "critical") \in ContentViolations(output) BY <1>1, <1>3 DEF ContentViolations
  <2> QED BY <2>1 DEF Violation
<1> QED BY <1>2, <1>3

LEMMA CheckIsSteady ==
    ASSUME guardSettings \in GuardSettings, NEW output, NEW V, AreViolations(V),
           ContentViolations(output) \subseteq V, NEW critical \in BOOLEAN,
           critical <=> \E v \in V : v.severity = "critical",
           NEW c, c.violations = V, c.sanitized = Sanitized(output, V),
           c.safe \in BOOLEAN, c.warning \in BOOLEAN,
           c.safe = TRUE <=> GuardScore(V) < guardSettings.riskThreshold /\ ~critical,
           c.warning = TRUE <=> GuardScore(V) < guardSettings.riskThreshold /\ V # {}
    PROVE  CheckFollows(c, guardSettings)
<1>1. PICK s \in 0 .. 100 : s = GuardScore(V) BY ScoreIsBetween
<1>2. PICK t \in Int : t = guardSettings.riskThreshold BY GuardsAssumption
<1>3. (c.safe = TRUE <=> s < t /\ ~critical) /\ (c.warning = TRUE <=> s < t /\ V # {}) BY <1>1, <1>2
<1>4. ~critical => s <= 60
  <2>1. ~critical => \A v \in V : v.severity # "critical" OBVIOUS
  <2> QED BY <2>1, <1>1, ScoreIsBetween
<1>5. critical => s >= 79 BY <1>1, ScoreIsBetween
<1>6. critical => c.safe # TRUE BY <1>3
<1>7. t > 60 => (c.safe = TRUE <=> ~critical) BY <1>3, <1>4, <1>1, <1>2
<1>8. t <= 79 /\ c.warning = TRUE => c.safe = TRUE BY <1>3, <1>5, <1>1, <1>2
<1>9. guardSettings.checks = EveryKind => c.sanitized \cap (PersonalData \cup SecretKinds) = {}
      BY FoundIsRedacted
<1> QED BY <1>2, <1>6, <1>7, <1>8, <1>9 DEF CheckFollows

\* The times of the checks go up, and none is later than now.
AreTimes(all, now) ==
    /\ all \in Seq(Nat) /\ now \in Nat
    /\ \A j, k \in DOMAIN all : j <= k => all[j] <= all[k]
    /\ \A k \in DOMAIN all : all[k] <= now

\* recent is what is left of all when the first n are dropped.
IsWithout(recent, n, all) ==
    /\ recent \in Seq(Nat) /\ n \in 0 .. Len(all) /\ Len(recent) = Len(all) - n
    /\ \A k \in 1 .. Len(recent) : recent[k] = all[n + k]

AreOutdated(all, n, now) == \A k \in 1 .. n : now - all[k] > GuardMinute

LEMMA DroppedAreOutdated ==
    ASSUME AreTimes(allRequests, guardTime), NEW d, IsWithout(requestTimestamps, d, allRequests),
           AreOutdated(allRequests, d, guardTime)
    PROVE  \E e \in 0 .. Len(allRequests) :
              /\ IsWithout(WithinMinute, e, allRequests)
              /\ AreOutdated(allRequests, e, guardTime)
              /\ \A k \in e + 1 .. Len(allRequests) : guardTime - allRequests[k] <= GuardMinute
<1>1. PICK n \in Nat, all \in Seq(Nat), now \in Nat :
         n = Len(allRequests) /\ all = allRequests /\ now = guardTime
      BY DEF AreTimes
<1>2. PICK ts \in Seq(Nat) : ts = requestTimestamps BY DEF IsWithout
<1>3. PICK m \in Nat : m = Len(ts) OBVIOUS
<1>4. d \in 0 .. n /\ m = n - d /\ \A k \in 1 .. m : ts[k] = all[d + k]
      BY <1>1, <1>2, <1>3 DEF IsWithout
<1>5. DOMAIN ts = 1 .. m /\ DOMAIN all = 1 .. n BY <1>1, <1>2, <1>3
<1>6. \A k \in 1 .. m : ts[k] \in Nat BY <1>2, <1>5
<1>7. PICK M \in Nat : M = GuardMinute BY GuardsAssumption
<1>8. \A k : Outdated(k) <=> now - ts[k] > M BY <1>1, <1>2, <1>7 DEF Outdated
<1>9. PICK S : S = {k \in 1 .. m + 1 : k = m + 1 \/ ~Outdated(k)} OBVIOUS
<1>10. S \subseteq Nat /\ m + 1 \in S BY <1>9, <1>3
<1>11. PICK l \in S : \A k \in S : l <= k BY <1>10, LeastOf
<1>12. /\ l \in 1 .. m + 1 /\ \A j \in 1 .. l - 1 : Outdated(j)
       /\ l \in DOMAIN ts => ~Outdated(l)
  <2>1. \A j \in 1 .. l - 1 : j \in 1 .. m + 1 /\ j \notin S BY <1>9, <1>10, <1>11, <1>3
  <2>2. l \in DOMAIN ts => l # m + 1 BY <1>5, <1>3
  <2> QED BY <2>1, <2>2, <1>9, <1>11
<1>13. PICK f : f = CHOOSE k \in 1 .. Len(requestTimestamps) + 1 :
                        /\ \A j \in 1 .. k - 1 : Outdated(j)
                        /\ k \in DOMAIN requestTimestamps => ~Outdated(k)
       OBVIOUS
<1>14. /\ f \in 1 .. m + 1 /\ \A j \in 1 .. f - 1 : Outdated(j)
       /\ f \in DOMAIN ts => ~Outdated(f)
       BY <1>2, <1>3, <1>12, <1>13
<1>15. PICK w : w = SubSeq(ts, f, m) OBVIOUS
<1>16. WithinMinute = w BY <1>2, <1>3, <1>13, <1>15 DEF WithinMinute
<1>17. PICK e \in Int : e = d + f - 1 BY <1>4, <1>14, <1>3
<1>18. e \in 0 .. n BY <1>17, <1>4, <1>14, <1>3
<1>19. w \in Seq(Nat) /\ Len(w) = n - e /\ \A k \in 1 .. n - e : w[k] = ts[f + k - 1]
  <2>1. \A i \in f .. m : ts[i] \in Nat BY <1>6, <1>14, <1>3
  <2>2. f \in Int /\ m \in Int BY <1>14, <1>3
  <2>3. /\ SubSeq(ts, f, m) \in Seq(Nat)
        /\ Len(SubSeq(ts, f, m)) = IF f <= m THEN m - f + 1 ELSE 0
        /\ \A i \in 1 .. m - f + 1 : SubSeq(ts, f, m)[i] = ts[f + i - 1]
        BY <2>1, <2>2, SubSeqProperties
  <2>4. m - f + 1 = n - e BY <1>17, <1>4, <1>14, <1>3
  <2>5. Len(SubSeq(ts, f, m)) = n - e
    <3>1. CASE f <= m BY <3>1, <2>3, <2>4
    <3>2. CASE ~(f <= m)
      <4>1. f = m + 1 BY <3>2, <1>14, <1>3
      <4> QED BY <4>1, <3>2, <2>3, <2>4
    <3> QED BY <3>1, <3>2
  <2> QED BY <2>3, <2>4, <2>5, <1>15
<1>20. IsWithout(w, e, all)
  <2>1. ASSUME NEW k \in 1 .. n - e PROVE w[k] = all[e + k]
    <3>1. f + k - 1 \in 1 .. m /\ d + (f + k - 1) = e + k BY <1>17, <1>4, <1>14, <1>3, <1>1
    <3> QED BY <3>1, <1>4, <1>19
  <2> QED BY <2>1, <1>18, <1>19, <1>1 DEF IsWithout
<1>21. ASSUME NEW k \in 1 .. e PROVE now - all[k] > M
  <2>1. CASE k <= d
    <3>1. k \in 1 .. d BY <2>1, <1>4, <1>17, <1>14, <1>3
    <3> QED BY <3>1, <1>1, <1>7 DEF AreOutdated
  <2>2. CASE k > d
    <3>1. k - d \in 1 .. f - 1 /\ k - d \in 1 .. m /\ d + (k - d) = k
          BY <2>2, <1>4, <1>17, <1>14, <1>3
    <3> QED BY <3>1, <1>4, <1>8, <1>14
  <2> QED BY <2>1, <2>2, <1>4, <1>17, <1>14, <1>3
<1>22. ASSUME NEW k \in e + 1 .. n PROVE now - all[k] <= M
  <2>1. f \in 1 .. m /\ d + f = e + 1 /\ e + 1 \in 1 .. n /\ k \in 1 .. n
        BY <1>17, <1>4, <1>14, <1>3, <1>18, <1>1
  <2>2. now - ts[f] <= M
    <3>1. ~(now - ts[f] > M) BY <2>1, <1>5, <1>8, <1>14
    <3>2. ts[f] \in Nat BY <2>1, <1>6
    <3> QED BY <3>1, <3>2, <1>1, <1>7
  <2>3. ts[f] = all[e + 1] BY <2>1, <1>4
  <2>4. all[e + 1] <= all[k]
    <3>1. \A i, j \in 1 .. n : i <= j => all[i] <= all[j] BY <1>1, <1>5 DEF AreTimes
    <3>2. e + 1 <= k BY <1>18, <1>1
    <3> QED BY <2>1, <3>1, <3>2
  <2>5. all[e + 1] \in Nat /\ all[k] \in Nat BY <2>1, <1>5, <1>1
  <2> QED BY <2>2, <2>3, <2>4, <2>5, <1>1, <1>7
<1> QED BY <1>1, <1>7, <1>16, <1>18, <1>20, <1>21, <1>22 DEF AreOutdated

LEMMA TimesGoOn ==
    ASSUME NEW all, NEW now, AreTimes(all, now)
    PROVE  AreTimes(Append(all, now), now)
<1>0. PICK l \in Nat, t \in Nat : l = Len(all) /\ t = now BY DEF AreTimes
<1>1. PICK a : l = Len(all) /\ t = now /\ a = Append(all, t) BY <1>0
<1>2. all \in Seq(Nat) /\ DOMAIN all = 1 .. l BY <1>1 DEF AreTimes
<1>3. a \in Seq(Nat) /\ Len(a) = l + 1 /\ a[l + 1] = t /\ \A k \in 1 .. l : a[k] = all[k]
      BY <1>1, <1>2
<1>4. DOMAIN a = 1 .. l + 1 BY <1>1, <1>3
<1>5. \A k \in 1 .. l + 1 : k \in 1 .. l \/ k = l + 1 BY <1>1
<1>6. \A k \in 1 .. l : a[k] \in Nat /\ a[k] <= t BY <1>1, <1>2, <1>3 DEF AreTimes
<1>7. ASSUME NEW j \in 1 .. l + 1, NEW k \in 1 .. l + 1, j <= k PROVE a[j] <= a[k]
  <2>1. CASE k \in 1 .. l
    <3>1. j \in 1 .. l BY <2>1, <1>1, <1>7
    <3> QED BY <3>1, <2>1, <1>2, <1>3, <1>7 DEF AreTimes
  <2>2. CASE k = l + 1 BY <2>2, <1>3, <1>5, <1>6
  <2> QED BY <2>1, <2>2, <1>5
<1>8. \A k \in 1 .. l + 1 : a[k] <= t BY <1>1, <1>3, <1>5, <1>6
<1> QED BY <1>1, <1>3, <1>4, <1>7, <1>8 DEF AreTimes

\* What is left after dropping, with the new check, is what was made in the last minute.
LEMMA RateIsCounted ==
    ASSUME NEW all, NEW now, AreTimes(all, now), NEW recent, NEW n, IsWithout(recent, n, all),
           AreOutdated(all, n, now), \A k \in n + 1 .. Len(all) : now - all[k] <= GuardMinute
    PROVE  /\ AreTimes(Append(all, now), now)
           /\ IsWithout(Append(recent, now), n, Append(all, now))
           /\ AreOutdated(Append(all, now), n, now)
           /\ Cardinality({k \in DOMAIN Append(all, now) : now - Append(all, now)[k] <= GuardMinute})
                  = Len(Append(recent, now))
<1>1. PICK l \in Nat, m \in Nat : l = Len(all) /\ m = Len(recent) BY DEF AreTimes, IsWithout
<1>2. PICK t \in Nat : t = now BY DEF AreTimes
<1>3. PICK M \in Nat : M = GuardMinute BY GuardsAssumption
<1>4. all \in Seq(Nat) /\ recent \in Seq(Nat) BY DEF AreTimes, IsWithout
<1>5. n \in 0 .. l /\ m = l - n /\ \A k \in 1 .. m : recent[k] = all[n + k]
      BY <1>1 DEF IsWithout
<1>6. DOMAIN all = 1 .. l BY <1>1, <1>4
<1>7. PICK a, r : a = Append(all, t) /\ r = Append(recent, t) OBVIOUS
<1>8. a \in Seq(Nat) /\ Len(a) = l + 1 /\ a[l + 1] = t /\ \A k \in 1 .. l : a[k] = all[k]
      BY <1>1, <1>4, <1>7
<1>9. r \in Seq(Nat) /\ Len(r) = m + 1 /\ r[m + 1] = t /\ \A k \in 1 .. m : r[k] = recent[k]
      BY <1>1, <1>4, <1>7
<1>10. DOMAIN a = 1 .. l + 1 BY <1>1, <1>8
<1>12. \A k \in 1 .. l : a[k] \in Nat BY <1>4, <1>6, <1>8
<1>13. AreTimes(a, t) BY <1>2, <1>7, TimesGoOn
<1>14. IsWithout(r, n, a)
  <2>1. n \in 0 .. l + 1 /\ m + 1 = l + 1 - n BY <1>1, <1>5
  <2>2. ASSUME NEW k \in 1 .. m + 1 PROVE r[k] = a[n + k]
    <3>1. CASE k \in 1 .. m
      <4>1. n + k \in 1 .. l BY <3>1, <1>1, <1>5
      <4> QED BY <4>1, <3>1, <1>5, <1>8, <1>9
    <3>2. CASE k = m + 1
      <4>1. n + k = l + 1 BY <3>2, <1>1, <1>5
      <4> QED BY <4>1, <3>2, <1>8, <1>9
    <3> QED BY <3>1, <3>2, <1>1
  <2> QED BY <2>1, <2>2, <1>8, <1>9 DEF IsWithout
<1>15. \A k \in 1 .. n : k \in 1 .. l BY <1>1, <1>5
<1>16. AreOutdated(a, n, t) BY <1>2, <1>8, <1>15 DEF AreOutdated
<1>17. {k \in DOMAIN a : t - a[k] <= M} = n + 1 .. l + 1
  <2>1. ASSUME NEW k \in 1 .. n PROVE ~(t - a[k] <= M)
    <3>1. t - a[k] > M BY <1>3, <1>16 DEF AreOutdated
    <3>2. a[k] \in Nat BY <1>12, <1>15
    <3> QED BY <3>1, <3>2
  <2>2. ASSUME NEW k \in n + 1 .. l PROVE t - a[k] <= M
    <3>1. k \in 1 .. l BY <1>1, <1>5
    <3> QED BY <3>1, <1>1, <1>2, <1>3, <1>8
  <2>3. t - a[l + 1] <= M BY <1>8
  <2>4. \A k \in 1 .. l + 1 : k \in 1 .. n \/ k \in n + 1 .. l \/ k = l + 1 BY <1>1, <1>5
  <2>5. \A k \in n + 1 .. l + 1 : k \in 1 .. l + 1 /\ k \notin 1 .. n BY <1>1, <1>5
  <2>6. l + 1 \in n + 1 .. l + 1 /\ n + 1 .. l \subseteq n + 1 .. l + 1 BY <1>1, <1>5
  <2> QED BY <2>1, <2>2, <2>3, <2>4, <2>5, <2>6, <1>10
<1>18. Cardinality(n + 1 .. l + 1) = m + 1
  <2>1. n + 1 \in Int /\ l + 1 \in Int /\ n + 1 <= l + 1 BY <1>1, <1>5
  <2>2. Cardinality(n + 1 .. l + 1) = (l + 1) - (n + 1) + 1 BY <2>1, FS_Interval
  <2> QED BY <2>2, <1>1, <1>5
<1> QED BY <1>2, <1>3, <1>7, <1>9, <1>13, <1>14, <1>16, <1>17, <1>18

RateFollows(c, all, g) ==
    c.is = "check" /\ "rate" \in g.checks =>
        LET made == Cardinality({k \in DOMAIN all : c.at - all[k] <= GuardMinute})
        IN Violation("rate", "medium") \in c.violations <=> made > g.maxRequests

\* What is kept of the times is what is left of all when only outdated ones are dropped.
RecentAreKept ==
    "rate" \in guardSettings.checks =>
        \E n \in 0 .. Len(allRequests) :
            IsWithout(requestTimestamps, n, allRequests) /\ AreOutdated(allRequests, n, guardTime)

GuardsInv ==
    /\ guardSettings \in GuardSettings
    /\ AreTimes(allRequests, guardTime) /\ RecentAreKept
    /\ VerdictFollows(lastDetection, guardSettings)
    /\ CheckFollows(lastCheck, guardSettings)
    /\ RateFollows(lastCheck, allRequests, guardSettings)

LEMMA GuardsInitially == GuardsInit => GuardsInv
<1> SUFFICES ASSUME GuardsInit PROVE GuardsInv OBVIOUS
<1>1. /\ guardSettings \in GuardSettings /\ guardTime = 0 /\ allRequests = <<>>
      /\ requestTimestamps = <<>> /\ lastDetection.is = "nothing" /\ lastCheck.is = "nothing"
      BY DEF GuardsInit, NothingYet
<1>2. AreTimes(allRequests, guardTime) BY <1>1 DEF AreTimes
<1>3. IsWithout(requestTimestamps, 0, allRequests) /\ AreOutdated(allRequests, 0, guardTime)
      BY <1>1 DEF IsWithout, AreOutdated
<1>4. 0 \in 0 .. Len(allRequests) BY <1>1
<1>5. RecentAreKept BY <1>3, <1>4 DEF RecentAreKept
<1>6. /\ VerdictFollows(lastDetection, guardSettings) /\ CheckFollows(lastCheck, guardSettings)
      /\ RateFollows(lastCheck, allRequests, guardSettings)
      BY <1>1 DEF VerdictFollows, CheckFollows, RateFollows
<1> QED BY <1>1, <1>2, <1>5, <1>6 DEF GuardsInv

LEMMA GuardsCheck ==
    ASSUME GuardsInv, NEW output, NEW cost, CheckOutput(output, cost)
    PROVE  GuardsInv'
<1>1. /\ guardSettings \in GuardSettings /\ AreTimes(allRequests, guardTime) /\ RecentAreKept
      /\ VerdictFollows(lastDetection, guardSettings)
      BY DEF GuardsInv
<1>2. PICK limiting : limiting = ("rate" \in guardSettings.checks) OBVIOUS
<1>3. PICK ts : ts = IF limiting THEN Append(WithinMinute, guardTime) ELSE requestTimestamps OBVIOUS
<1>4. PICK V : V = ContentViolations(output) \cup CostViolations(cost)
                       \cup (IF limiting THEN RateViolations(ts) ELSE {})
      OBVIOUS
<1>5. PICK critical : critical = (\E v \in V : v.severity = "critical") OBVIOUS
<1>6. PICK c : c = [is |-> "check", at |-> guardTime, output |-> output,
                    violations |-> V, score |-> GuardScore(V),
                    safe |-> GuardScore(V) < guardSettings.riskThreshold /\ ~critical,
                    warning |-> GuardScore(V) < guardSettings.riskThreshold /\ V # {},
                    sanitized |-> Sanitized(output, V)]
      OBVIOUS
<1>7. /\ allRequests' = Append(allRequests, guardTime) /\ requestTimestamps' = ts
      /\ lastCheck' = c /\ guardSettings' = guardSettings /\ guardTime' = guardTime
      /\ lastDetection' = lastDetection
      BY <1>2, <1>3, <1>4, <1>5, <1>6 DEF CheckOutput
<1>8. /\ c.is = "check" /\ c.violations = V /\ c.at = guardTime /\ c.sanitized = Sanitized(output, V)
      /\ c.safe \in BOOLEAN /\ c.warning \in BOOLEAN
      /\ c.safe = TRUE <=> GuardScore(V) < guardSettings.riskThreshold /\ ~critical
      /\ c.warning = TRUE <=> GuardScore(V) < guardSettings.riskThreshold /\ V # {}
      BY <1>6
<1>9. AreViolations(V)
  <2>1. AreViolations({}) BY FS_EmptySet DEF AreViolations
  <2> QED BY <2>1, <1>4, ViolationsAreFew, ViolationsTogether
<1>10. CheckFollows(c, guardSettings) BY <1>1, <1>4, <1>5, <1>8, <1>9, CheckIsSteady
<1>11. limiting => (Violation("rate", "medium") \in V <=> Len(ts) > guardSettings.maxRequests)
  <2> SUFFICES ASSUME limiting
               PROVE Violation("rate", "medium") \in V <=> Len(ts) > guardSettings.maxRequests
      OBVIOUS
  <2>1. \A k, s : s # "medium" => Violation(k, s) # Violation("rate", "medium") BY DEF Violation
  <2>2. Violation("rate", "medium") \notin ContentViolations(output)
        BY <2>1 DEF ContentViolations
  <2>3. Violation("rate", "medium") \notin CostViolations(cost) BY <2>1 DEF CostViolations
  <2>4. Violation("rate", "medium") \in RateViolations(ts) <=> Len(ts) > guardSettings.maxRequests
        BY DEF RateViolations
  <2> QED BY <2>2, <2>3, <2>4, <1>4
<1>12. ASSUME limiting
       PROVE  \E n \in 0 .. Len(Append(allRequests, guardTime)) :
                 /\ IsWithout(ts, n, Append(allRequests, guardTime))
                 /\ AreOutdated(Append(allRequests, guardTime), n, guardTime)
                 /\ Cardinality({k \in DOMAIN Append(allRequests, guardTime) :
                       guardTime - Append(allRequests, guardTime)[k] <= GuardMinute}) = Len(ts)
  <2>1. PICK d \in 0 .. Len(allRequests) :
           IsWithout(requestTimestamps, d, allRequests) /\ AreOutdated(allRequests, d, guardTime)
        BY <1>1, <1>2, <1>12 DEF RecentAreKept
  <2>2. PICK n \in 0 .. Len(allRequests) :
           /\ IsWithout(WithinMinute, n, allRequests) /\ AreOutdated(allRequests, n, guardTime)
           /\ \A k \in n + 1 .. Len(allRequests) : guardTime - allRequests[k] <= GuardMinute
        BY <1>1, <2>1, DroppedAreOutdated
  <2>3. ts = Append(WithinMinute, guardTime) BY <1>3, <1>12
  <2>4. /\ IsWithout(ts, n, Append(allRequests, guardTime))
        /\ AreOutdated(Append(allRequests, guardTime), n, guardTime)
        /\ Cardinality({k \in DOMAIN Append(allRequests, guardTime) :
              guardTime - Append(allRequests, guardTime)[k] <= GuardMinute}) = Len(ts)
        BY <1>1, <2>2, <2>3, RateIsCounted
  <2>5. n \in 0 .. Len(Append(allRequests, guardTime)) BY <2>4 DEF IsWithout
  <2> QED BY <2>4, <2>5
<1>13. AreTimes(Append(allRequests, guardTime), guardTime) BY <1>1, TimesGoOn
<1>14. RateFollows(c, Append(allRequests, guardTime), guardSettings)
       BY <1>2, <1>8, <1>11, <1>12 DEF RateFollows
<1>15. RecentAreKept' BY <1>2, <1>7, <1>12 DEF RecentAreKept
<1> QED BY <1>1, <1>7, <1>10, <1>13, <1>14, <1>15 DEF GuardsInv

LEMMA GuardsStep == GuardsInv /\ [GuardsNext]_screenVars => GuardsInv'
<1> SUFFICES ASSUME GuardsInv, [GuardsNext]_screenVars PROVE GuardsInv' OBVIOUS
<1> USE DEF screenVars
<1>1. ASSUME NEW prompt \in Prompts, AnalyzePrompt(prompt) PROVE GuardsInv'
  <2>1. PICK d : d = [is |-> "detection", level |-> ThreatLevel(Detected(prompt)),
                      blocked |-> Blocked(Detected(prompt)),
                      reasons |-> IF Blocked(Detected(prompt))
                                  THEN {s.type : s \in Detected(prompt)} ELSE {}]
        OBVIOUS
  <2>2. lastDetection' = d BY <1>1, <2>1 DEF AnalyzePrompt
  <2>3. VerdictFollows(d, guardSettings) BY <2>1, VerdictIsGiven DEF GuardsInv
  <2>4. UNCHANGED <<guardSettings, guardTime, requestTimestamps, lastCheck, allRequests>>
        BY <1>1 DEF AnalyzePrompt
  <2>5. RecentAreKept' BY <2>4 DEF GuardsInv, RecentAreKept
  <2> QED BY <2>2, <2>3, <2>4, <2>5 DEF GuardsInv
<1>2. ASSUME NEW output \in Outputs, NEW cost \in Costs, CheckOutput(output, cost) PROVE GuardsInv'
      BY <1>2, GuardsCheck
<1>3. CASE GuardsTick
  <2>1. /\ guardTime' = guardTime + 1
        /\ UNCHANGED <<guardSettings, lastDetection, requestTimestamps, lastCheck, allRequests>>
        BY <1>3 DEF GuardsTick
  <2>2. PICK t \in Nat, M \in Nat : t = guardTime /\ M = GuardMinute
        BY GuardsAssumption DEF GuardsInv, AreTimes
  <2>3. PICK all \in Seq(Nat) : all = allRequests BY DEF GuardsInv, AreTimes
  <2>4. \A k \in DOMAIN all : all[k] \in Nat /\ all[k] <= t BY <2>2, <2>3 DEF GuardsInv, AreTimes
  <2>5. AreTimes(all, t + 1)
    <3>1. \A k \in DOMAIN all : all[k] <= t + 1 BY <2>2, <2>4
    <3> QED BY <3>1, <2>2, <2>3 DEF GuardsInv, AreTimes
  <2>6. ASSUME NEW n \in 0 .. Len(all), AreOutdated(all, n, t) PROVE AreOutdated(all, n, t + 1)
    <3>1. \A k \in 1 .. n : k \in DOMAIN all BY <2>3
    <3>2. \A k \in 1 .. n : t - all[k] > M BY <2>2, <2>6 DEF AreOutdated
    <3>3. \A k \in 1 .. n : t + 1 - all[k] > M BY <3>1, <3>2, <2>2, <2>4
    <3> QED BY <3>3, <2>2 DEF AreOutdated
  <2>7. RecentAreKept' BY <2>1, <2>2, <2>3, <2>6 DEF GuardsInv, RecentAreKept
  <2> QED BY <2>1, <2>2, <2>3, <2>5, <2>7 DEF GuardsInv
<1>4. CASE UNCHANGED screenVars BY <1>4 DEF GuardsInv, RecentAreKept
<1> QED BY <1>1, <1>2, <1>3, <1>4 DEF GuardsNext

LEMMA GuardsFollow == GuardsInv => AttacksAreBlocked /\ ChecksAreSteady /\ RateIsOfTheMinute
<1> SUFFICES ASSUME GuardsInv PROVE AttacksAreBlocked /\ ChecksAreSteady /\ RateIsOfTheMinute
    OBVIOUS
<1>1. \A p, q \in Prompts : p \subseteq q /\ Blocked(Detected(p)) => Blocked(Detected(q))
      BY MoreIsWorse DEF GuardsInv
<1>2. AttacksAreBlocked BY <1>1 DEF GuardsInv, AttacksAreBlocked, VerdictFollows
<1>3. ChecksAreSteady BY DEF GuardsInv, ChecksAreSteady, CheckFollows, EveryKind
<1>4. RateIsOfTheMinute BY DEF GuardsInv, RateIsOfTheMinute, RateFollows
<1> QED BY <1>2, <1>3, <1>4

LEMMA GuardsAlways == GuardsSpec => []GuardsInv
BY GuardsInitially, GuardsStep, PTL DEF GuardsSpec

GuardsTyped ==
    /\ guardTime \in 0 .. MaxGuardTime /\ detections \in Nat /\ blocks \in 0 .. detections
    /\ lastCheck.is = "check" => lastCheck.score \in 0 .. 100
    /\ Len(requestTimestamps) \in Nat /\ Len(requestTimestamps) <= Len(allRequests)

LEMMA GuardsAreTyped == GuardsSpec => []GuardsTyped
<1>1. GuardsInit => GuardsTyped
  <2> SUFFICES ASSUME GuardsInit PROVE GuardsTyped OBVIOUS
  <2>1. /\ guardTime = 0 /\ detections = 0 /\ blocks = 0 /\ lastCheck.is = "nothing"
        /\ requestTimestamps = <<>> /\ allRequests = <<>>
        BY DEF GuardsInit, NothingYet
  <2>2. Len(<<>>) = 0 OBVIOUS
  <2> QED BY <2>1, <2>2, GuardsAssumption DEF GuardsTyped
<1>2. GuardsInv /\ GuardsInv' /\ GuardsTyped /\ [GuardsNext]_screenVars => GuardsTyped'
  <2> SUFFICES ASSUME GuardsInv, GuardsInv', GuardsTyped, [GuardsNext]_screenVars
               PROVE  GuardsTyped'
      OBVIOUS
  <2>1. ASSUME NEW prompt \in Prompts, AnalyzePrompt(prompt) PROVE GuardsTyped'
    <3>1. /\ detections' = detections + 1
          /\ blocks' = blocks + (IF Blocked(Detected(prompt)) THEN 1 ELSE 0)
          /\ UNCHANGED <<guardTime, requestTimestamps, lastCheck, allRequests>>
          BY <2>1 DEF AnalyzePrompt
    <3> QED BY <3>1 DEF GuardsTyped
  <2>2. ASSUME NEW output \in Outputs, NEW cost \in Costs, CheckOutput(output, cost)
        PROVE  GuardsTyped'
    <3>1. PICK limiting : limiting = ("rate" \in guardSettings.checks) OBVIOUS
    <3>2. PICK ts : ts = IF limiting THEN Append(WithinMinute, guardTime) ELSE requestTimestamps
          OBVIOUS
    <3>3. PICK V : V = ContentViolations(output) \cup CostViolations(cost)
                           \cup (IF limiting THEN RateViolations(ts) ELSE {})
          OBVIOUS
    <3>4. AreViolations(V)
      <4>1. AreViolations({}) BY FS_EmptySet DEF AreViolations
      <4> QED BY <4>1, <3>3, ViolationsAreFew, ViolationsTogether
    <3>5. PICK s \in 0 .. 100 : s = GuardScore(V) BY <3>4, ScoreIsBetween
    <3>6. lastCheck'.score = s BY <2>2, <3>1, <3>2, <3>3, <3>5 DEF CheckOutput
    <3>7. /\ allRequests' = Append(allRequests, guardTime) /\ guardSettings' = guardSettings
          /\ guardTime' = guardTime /\ detections' = detections /\ blocks' = blocks
          BY <2>2 DEF CheckOutput
    <3>8. Len(requestTimestamps') \in Nat /\ Len(requestTimestamps') <= Len(allRequests')
      <4>1. CASE limiting
        <5>1. \E n \in 0 .. Len(allRequests') : IsWithout(requestTimestamps', n, allRequests')
              BY <3>1, <3>7, <4>1 DEF GuardsInv, RecentAreKept
        <5>5. PICK r, all : r = requestTimestamps' /\ all = allRequests' OBVIOUS
        <5>2. PICK n \in 0 .. Len(all) : IsWithout(r, n, all) BY <5>1, <5>5
        <5>3. all \in Seq(Nat) BY <5>5 DEF GuardsInv, AreTimes
        <5>4. Len(all) \in Nat BY <5>3
        <5> QED BY <5>2, <5>4, <5>5 DEF IsWithout
      <4>2. CASE ~limiting
        <5>1. requestTimestamps' = requestTimestamps BY <2>2, <3>1, <4>2 DEF CheckOutput
        <5>2. allRequests \in Seq(Nat) /\ guardTime \in Nat BY DEF GuardsInv, AreTimes
        <5>3. Len(Append(allRequests, guardTime)) = Len(allRequests) + 1 /\ Len(allRequests) \in Nat
              BY <5>2
        <5> QED BY <5>1, <5>3, <3>7 DEF GuardsTyped
      <4> QED BY <3>1, <4>1, <4>2
    <3> QED BY <3>6, <3>7, <3>8 DEF GuardsTyped
  <2>3. CASE GuardsTick
    <3>1. /\ guardTime < MaxGuardTime /\ guardTime' = guardTime + 1
          /\ UNCHANGED <<detections, blocks, requestTimestamps, lastCheck, allRequests>>
          BY <2>3 DEF GuardsTick
    <3> QED BY <3>1, GuardsAssumption DEF GuardsTyped
  <2>4. CASE UNCHANGED screenVars BY <2>4 DEF screenVars, GuardsTyped
  <2> QED BY <2>1, <2>2, <2>3, <2>4 DEF GuardsNext
<1> QED BY <1>1, <1>2, GuardsAlways, PTL DEF GuardsSpec

LEMMA GuardTypes == GuardsTyped => GuardsTypeOK
BY DEF GuardsTyped, GuardsTypeOK

\* Whatever prompts and outputs come at whatever times, under any settings: an attack is blocked,
\* a critical output is unsafe, and calls are beyond the rate that are (PromptInjectionDetector,
\* LLMGuardrails).
THEOREM GuardsAlwaysWatch ==
    GuardsSpec => [](AttacksAreBlocked /\ ChecksAreSteady /\ RateIsOfTheMinute)
BY GuardsFollow, GuardsAlways, PTL

-----------------------------------------------------------------------------
(***************************************************************************)
(* What the filter cuts out.                                               *)
(***************************************************************************)

LEMMA WidthIs ==
    ASSUME NEW n \in Nat
    PROVE  Width(n) \in Nat /\ (dlpConfig.method = "mask" /\ n <= MaskWidth => Width(n) = n)
<1>1. MaskWidth \in Nat /\ TokenWidth \in Nat BY DlpAssumption
<1>2. Min({n, MaskWidth}) \in {n, MaskWidth} /\ \A x \in {n, MaskWidth} : Min({n, MaskWidth}) <= x
      BY <1>1, LeastOf
<1> QED BY <1>1, <1>2 DEF Width

\* t is p, of k elements, with q, of n, behind it.
IsJoin(t, p, q, k, n) ==
    /\ Len(t) = k + n
    /\ \A i \in 1 .. k : t[i] = p[i]
    /\ \A i \in k + 1 .. k + n : t[i] = q[i - k]

\* t is the text with w stars in the place of the stretch from a to b.
IsCut(t, text, a, b, w) ==
    /\ Len(t) = Len(text) - (b - a + 1) + w
    /\ \A i \in 1 .. Len(t) :
          t[i] = IF i < a THEN text[i] ELSE IF i < a + w THEN Star ELSE text[i - w + (b - a + 1)]

LEMMA JoinIs ==
    ASSUME NEW S, NEW p \in Seq(S), NEW q \in Seq(S), NEW k \in Nat, NEW n \in Nat,
           k = Len(p), n = Len(q)
    PROVE  p \o q \in Seq(S) /\ IsJoin(p \o q, p, q, k, n)
BY ConcatProperties DEF IsJoin

\* The stretch from a to b gives way to stars, and what is behind it moves.
LEMMA ReplacedIs ==
    ASSUME NEW text \in Seq(Nat), NEW a \in Nat \ {0}, NEW b \in Nat, a <= b, b <= Len(text),
           NEW m, m.from = a, m.to = b, NEW w \in Nat, w = Width(b - a + 1)
    PROVE  Replaced(text, m) \in Seq(Nat) /\ IsCut(Replaced(text, m), text, a, b, w)
<1>1. PICK L \in Nat : L = Len(text) OBVIOUS
<1>2. \A i \in 1 .. L : text[i] \in Nat BY <1>1
<1>3. Min({a - 1, L}) = a - 1
  <2>1. a - 1 \in Nat /\ a - 1 <= L BY <1>1
  <2>2. Min({a - 1, L}) \in {a - 1, L} /\ \A x \in {a - 1, L} : Min({a - 1, L}) <= x
        BY <2>1, LeastOf
  <2> QED BY <2>1, <2>2
<1>4. PICK p : p = SubSeq(text, 1, a - 1) OBVIOUS
<1>5. PICK q : q = SubSeq(text, b + 1, L) OBVIOUS
<1>6. PICK s : s = Stars(w) OBVIOUS
<1>7. p \in Seq(Nat) /\ Len(p) = a - 1 /\ \A i \in 1 .. a - 1 : p[i] = text[i]
  <2>1. \A i \in 1 .. a - 1 : text[i] \in Nat BY <1>1, <1>2
  <2>2. /\ p \in Seq(Nat) /\ Len(p) = IF 1 <= a - 1 THEN (a - 1) - 1 + 1 ELSE 0
        /\ \A i \in 1 .. (a - 1) - 1 + 1 : p[i] = text[1 + i - 1]
        BY <2>1, <1>4, SubSeqProperties
  <2> QED BY <2>2
<1>8. q \in Seq(Nat) /\ Len(q) = L - b /\ \A i \in 1 .. L - b : q[i] = text[b + i]
  <2>1. \A i \in b + 1 .. L : text[i] \in Nat BY <1>2
  <2>2. /\ q \in Seq(Nat) /\ Len(q) = IF b + 1 <= L THEN L - (b + 1) + 1 ELSE 0
        /\ \A i \in 1 .. L - (b + 1) + 1 : q[i] = text[(b + 1) + i - 1]
        BY <2>1, <1>5, SubSeqProperties
  <2>3. L - (b + 1) + 1 = L - b /\ \A i \in 1 .. L - b : (b + 1) + i - 1 = b + i BY <1>1, <1>2
  <2>4. Len(q) = L - b
    <3>1. Len(q) = IF b + 1 <= L THEN L - (b + 1) + 1 ELSE 0 BY <2>2
    <3>2. b <= L BY <1>1
    <3> QED BY <3>1, <3>2
  <2> QED BY <2>2, <2>3, <2>4
<1>9. s \in Seq(Nat) /\ Len(s) = w /\ \A i \in 1 .. w : s[i] = Star BY <1>6 DEF Stars, Star
<1>10. PICK r : r = p \o s OBVIOUS
<1>11. PICK k \in Nat : k = a - 1 + w OBVIOUS
<1>12. /\ r \in Seq(Nat) /\ Len(r) = k
       /\ \A i \in 1 .. a - 1 : r[i] = text[i]
       /\ \A i \in a .. k : r[i] = Star
  <2>1. PICK c \in Nat : c = a - 1 OBVIOUS
  <2>5. /\ p \in Seq(Nat) /\ s \in Seq(Nat) /\ c = Len(p) /\ w = Len(s)
        BY <2>1, <1>7, <1>9
  <2>6. r \in Seq(Nat) /\ IsJoin(r, p, s, c, w) BY <2>5, <1>10, JoinIs
  <2>2. /\ Len(r) = c + w
        /\ \A i \in 1 .. c : r[i] = p[i]
        /\ \A i \in c + 1 .. c + w : r[i] = s[i - c]
        BY <2>6 DEF IsJoin
  <2>3. \A i \in 1 .. a - 1 : r[i] = text[i] BY <2>1, <2>2, <1>7
  <2>4. ASSUME NEW i \in a .. k PROVE r[i] = Star
    <3>1. i \in c + 1 .. c + w /\ i - c \in 1 .. w BY <2>1, <1>11
    <3> QED BY <3>1, <2>2, <1>9
  <2> QED BY <2>1, <2>2, <2>3, <2>4, <2>6, <1>11
<1>13. Replaced(text, m) = r \o q BY <1>1, <1>3, <1>4, <1>5, <1>6, <1>10 DEF Replaced
<1>20. PICK t : t = r \o q OBVIOUS
<1>14. /\ t \in Seq(Nat) /\ Len(t) = k + (L - b)
       /\ \A i \in 1 .. k : t[i] = r[i]
       /\ \A i \in k + 1 .. k + (L - b) : t[i] = q[i - k]
  <2>3. b <= L BY <1>1
  <2>4. L - b \in Nat BY <2>3
  <2>1. PICK n \in Nat : n = L - b BY <2>4
  <2>5. r \in Seq(Nat) /\ q \in Seq(Nat) /\ k = Len(r) /\ n = Len(q) BY <2>1, <1>8, <1>12
  <2>6. t \in Seq(Nat) /\ IsJoin(t, r, q, k, n) BY <2>5, <1>20, JoinIs
  <2> QED BY <2>1, <2>6 DEF IsJoin
<1>15. Len(t) = L - (b - a + 1) + w BY <1>11, <1>14
<1>16. ASSUME NEW i \in 1 .. Len(t)
       PROVE  t[i] = IF i < a THEN text[i] ELSE IF i < a + w THEN Star
                     ELSE text[i - w + (b - a + 1)]
  <2>1. i \in 1 .. k + (L - b) BY <1>14
  <2>2. CASE i < a
    <3>1. i \in 1 .. a - 1 /\ i \in 1 .. k BY <2>2, <1>11
    <3> QED BY <2>2, <3>1, <1>12, <1>14
  <2>3. CASE ~(i < a) /\ i < a + w
    <3>1. i \in a .. k /\ i \in 1 .. k BY <2>3, <1>11
    <3> QED BY <2>3, <3>1, <1>12, <1>14
  <2>4. CASE ~(i < a + w)
    <3>6. k < i BY <2>4, <1>11
    <3>1. i - k \in 1 .. L - b /\ i \in k + 1 .. k + (L - b) BY <2>1, <3>6
    <3>2. t[i] = q[i - k] BY <3>1, <1>14
    <3>3. q[i - k] = text[b + (i - k)] BY <3>1, <1>8
    <3>4. b + (i - k) = i - w + (b - a + 1) BY <2>1, <1>11
    <3>5. ~(i < a) BY <2>4
    <3> QED BY <3>2, <3>3, <3>4, <3>5, <2>4
  <2> QED BY <2>2, <2>3, <2>4
<1>17. IsCut(t, text, a, b, w) BY <1>1, <1>15, <1>16 DEF IsCut
<1> QED BY <1>13, <1>20, <1>14, <1>17

\* Up to c the text is as it came.
IsIntact(text, c) == c <= Len(text) /\ \A i \in 1 .. c : text[i] = i

\* Where a text is as it came up to b, a match that ends there is cut out of it, and nothing else.
LEMMA CutInPlace ==
    ASSUME NEW text \in Seq(Nat), NEW c \in Nat, IsIntact(text, c), Ascending(text),
           NEW a \in Nat \ {0}, NEW b \in Nat, a <= b, b <= c,
           NEW m, m.from = a, m.to = b
    PROVE  /\ Replaced(text, m) \in Seq(Nat) /\ IsIntact(Replaced(text, m), a - 1)
           /\ Ascending(Replaced(text, m))
           /\ Range(Replaced(text, m)) \ {Star} = (Range(text) \ {Star}) \ (a .. b)
<1>1. PICK w \in Nat : w = Width(b - a + 1)
  <2>1. b - a + 1 \in Nat OBVIOUS
  <2> QED BY <2>1, WidthIs
<1>2. PICK t : t = Replaced(text, m) OBVIOUS
<1>3. PICK L \in Nat : L = Len(text) /\ DOMAIN text = 1 .. L OBVIOUS
<1>20. c <= L /\ \A i \in 1 .. c : text[i] = i BY <1>3 DEF IsIntact
<1>4. b <= L /\ c <= L BY <1>20
<1>5. /\ t \in Seq(Nat) /\ Len(t) = L - (b - a + 1) + w
      /\ \A i \in 1 .. Len(t) : t[i] = IF i < a THEN text[i] ELSE IF i < a + w THEN Star
                                       ELSE text[i - w + (b - a + 1)]
  <2>1. b <= Len(text) BY <1>3, <1>4
  <2>2. t \in Seq(Nat) /\ IsCut(t, text, a, b, w) BY <2>1, <1>1, <1>2, ReplacedIs
  <2> QED BY <2>2, <1>3 DEF IsCut
<1>6. PICK M \in Nat : M = L - (b - a + 1) + w /\ DOMAIN t = 1 .. M /\ Len(t) = M BY <1>4, <1>5
<1>7. \A i \in 1 .. M : t[i] = IF i < a THEN text[i] ELSE IF i < a + w THEN Star
                               ELSE text[i - w + (b - a + 1)]
      BY <1>5, <1>6
<1>8. \A i, j \in 1 .. L : i < j /\ text[i] # Star /\ text[j] # Star => text[i] < text[j]
      BY <1>3 DEF Ascending
<1>9. \A i \in 1 .. L : text[i] \in Nat BY <1>3
\* Each cell of the new text that is not a star was one of the old, beside the stretch.
<1> DEFINE was(i) == IF i < a THEN i ELSE i - w + (b - a + 1)
<1>10. ASSUME NEW i \in 1 .. M, t[i] # Star
       PROVE  was(i) \in 1 .. L /\ was(i) \notin a .. b /\ t[i] = text[was(i)]
  <2>1. CASE i < a BY <2>1, <1>7, <1>4
  <2>2. CASE ~(i < a)
    <3>1. i >= a + w BY <2>2, <1>7, <1>10
    <3>2. was(i) = i - w + (b - a + 1) BY <2>2
    <3>3. was(i) > b /\ was(i) <= L BY <3>1, <3>2, <1>6
    <3>4. t[i] = text[was(i)] BY <3>1, <3>2, <2>2, <1>7
    <3> QED BY <3>2, <3>3, <3>4
  <2> QED BY <2>1, <2>2
<1>11. ASSUME NEW i \in 1 .. M, NEW j \in 1 .. M, i < j, t[i] # Star, t[j] # Star
       PROVE  was(i) < was(j)
  <2>1. CASE j < a BY <2>1, <1>11
  <2>2. CASE ~(j < a)
    <3>1. j >= a + w BY <2>2, <1>7, <1>11
    <3>2. was(j) > b BY <3>1, <2>2
    <3>3. CASE i < a BY <3>3, <3>2
    <3>4. CASE ~(i < a) BY <3>4, <2>2, <1>11
    <3> QED BY <3>3, <3>4
  <2> QED BY <2>1, <2>2
<1>12. Ascending(t)
  <2> SUFFICES ASSUME NEW i \in 1 .. M, NEW j \in 1 .. M, i < j, t[i] # Star, t[j] # Star
               PROVE  t[i] < t[j]
      BY <1>6 DEF Ascending
  <2>1. was(i) \in 1 .. L /\ was(j) \in 1 .. L /\ t[i] = text[was(i)] /\ t[j] = text[was(j)]
        BY <1>10
  <2>2. was(i) < was(j) BY <1>11
  <2> HIDE DEF was
  <2> QED BY <2>1, <2>2, <1>8
\* What is in the old text beside the stretch is in the new one.
<1>13. ASSUME NEW i \in 1 .. L, i \notin a .. b PROVE \E j \in 1 .. M : t[j] = text[i]
  <2>1. CASE i < a
    <3>1. i \in 1 .. M BY <2>1, <1>4, <1>6
    <3> QED BY <2>1, <3>1, <1>7
  <2>2. CASE i > b
    <3>1. PICK j : j = i + w - (b - a + 1) OBVIOUS
    <3>2. j \in 1 .. M /\ j >= a + w /\ j - w + (b - a + 1) = i BY <2>2, <3>1, <1>6
    <3>3. t[j] = text[j - w + (b - a + 1)] BY <3>2, <1>7
    <3> QED BY <3>2, <3>3
  <2>3. i < a \/ i > b BY <1>13
  <2> QED BY <2>1, <2>2, <2>3
\* And the stretch holds itself, and nobody else does.
<1>14. \A i \in 1 .. L : text[i] \in a .. b => text[i] = Star \/ i \in a .. b
  <2> SUFFICES ASSUME NEW i \in 1 .. L, text[i] \in a .. b PROVE i \in a .. b OBVIOUS
  <2>1. PICK e \in a .. b : e = text[i] OBVIOUS
  <2>2. e \in 1 .. c /\ e \in 1 .. L BY <1>4
  <2>3. text[e] = e BY <2>2, <1>20
  <2>4. e # Star BY DEF Star
  <2>5. ~(i < e) /\ ~(e < i) BY <2>1, <2>2, <2>3, <2>4, <1>8
  <2> QED BY <2>2, <2>5
<1>15. ASSUME NEW e \in Range(t) \ {Star} PROVE e \in (Range(text) \ {Star}) \ (a .. b)
  <2>1. PICK i \in 1 .. M : e = t[i] BY <1>6 DEF Range
  <2>2. was(i) \in 1 .. L /\ was(i) \notin a .. b /\ e = text[was(i)] BY <2>1, <1>10
  <2> HIDE DEF was
  <2>3. e \notin a .. b BY <2>2, <1>14
  <2> QED BY <2>2, <2>3, <1>3 DEF Range
<1>16. ASSUME NEW e \in (Range(text) \ {Star}) \ (a .. b) PROVE e \in Range(t) \ {Star}
  <2>1. PICK i \in 1 .. L : e = text[i] BY <1>3 DEF Range
  <2>2. i \notin a .. b
    <3> SUFFICES ASSUME i \in a .. b PROVE FALSE OBVIOUS
    <3>1. i \in 1 .. c OBVIOUS
    <3> QED BY <3>1, <2>1, <1>20
  <2>3. PICK j \in 1 .. M : t[j] = e BY <2>1, <2>2, <1>13
  <2> QED BY <2>3, <1>6 DEF Range
<1>17. Range(t) \ {Star} = (Range(text) \ {Star}) \ (a .. b) BY <1>15, <1>16
<1>18. \A i \in 1 .. a - 1 : t[i] = i
  <2> SUFFICES ASSUME NEW i \in 1 .. a - 1 PROVE t[i] = i OBVIOUS
  <2>1. i \in 1 .. M /\ i \in 1 .. c /\ i < a BY <1>4, <1>6
  <2> QED BY <2>1, <1>7, <1>20
<1>19. a - 1 <= Len(t) BY <1>4, <1>6
<1>21. IsIntact(t, a - 1) BY <1>18, <1>19 DEF IsIntact
<1> QED BY <1>2, <1>5, <1>12, <1>17, <1>21

\* What the first k findings take out.
Gone(list, k) ==
    {c \in Nat : \E j \in 1 .. k : list[j].action = "redacted" /\ c \in list[j].from .. list[j].to}

\* n findings, all of them within the first S cells.
AreFindings(list, n, S) ==
    \A k \in 1 .. n : /\ list[k].from \in Nat \ {0} /\ list[k].to \in Nat
                      /\ list[k].from <= list[k].to /\ list[k].to <= S

\* f is what is left after each of them.
IsCutting(f, list, n, S) ==
    /\ f[0] = [k \in 1 .. S |-> k]
    /\ \A k \in 1 .. n : f[k] = IF list[k].action = "redacted" THEN Replaced(f[k - 1], list[k])
                                ELSE f[k - 1]

LEMMA GoneAfter ==
    ASSUME NEW n \in Nat, NEW S \in Nat, NEW list, AreFindings(list, n, S), NEW k \in 1 .. n
    PROVE  Gone(list, k) = IF list[k].action = "redacted"
                           THEN Gone(list, k - 1) \cup (list[k].from .. list[k].to)
                           ELSE Gone(list, k - 1)
<1>1. \A j : j \in 1 .. k <=> j \in 1 .. k - 1 \/ j = k OBVIOUS
<1>2. list[k].from \in Nat /\ list[k].to \in Nat BY DEF AreFindings
<1>3. \A c : c \in list[k].from .. list[k].to => c \in Nat BY <1>2
<1>4. ASSUME NEW c
      PROVE  c \in Gone(list, k) <=>
                c \in Gone(list, k - 1) \/ (list[k].action = "redacted" /\ c \in list[k].from .. list[k].to)
      BY <1>1, <1>3 DEF Gone
<1> QED BY <1>4

\* A text of S cells with stars for those that are gone.
IsMasked(text, S, gone) ==
    /\ text \in Seq(Nat) /\ Len(text) = S
    /\ \A c \in 1 .. S : text[c] = IF c \in gone THEN Star ELSE c

\* Masks as long as what they cover leave every other cell where it was.
LEMMA MasksCover ==
    ASSUME NEW n \in Nat, NEW S \in Nat, NEW list, AreFindings(list, n, S), NEW f,
           IsCutting(f, list, n, S), dlpConfig.method = "mask",
           \A k \in 1 .. n : list[k].action = "redacted" => list[k].to - list[k].from < MaskWidth
    PROVE  IsMasked(f[n], S, Gone(list, n))
<1> DEFINE Right(k) == /\ f[k] \in Seq(Nat) /\ Len(f[k]) = S
                       /\ \A c \in 1 .. S : f[k][c] = IF c \in Gone(list, k) THEN Star ELSE c
           P == {k \in Nat : k <= n => Right(k)}
<1>1. 0 \in P
  <2>1. f[0] = [c \in 1 .. S |-> c] BY DEF IsCutting
  <2>2. f[0] \in Seq(Nat) /\ Len(f[0]) = S /\ \A c \in 1 .. S : f[0][c] = c BY <2>1
  <2>3. Gone(list, 0) = {} BY DEF Gone
  <2> QED BY <2>2, <2>3
<1>2. ASSUME NEW m \in Nat, m \in P PROVE m + 1 \in P
  <2> SUFFICES ASSUME m + 1 <= n PROVE Right(m + 1) OBVIOUS
  <2>1. Right(m) BY <1>2
  <2>2. PICK k \in 1 .. n : k = m + 1 /\ m = k - 1 OBVIOUS
  <2>3. PICK t : t = f[m] OBVIOUS
  <2>4. t \in Seq(Nat) /\ Len(t) = S /\ \A c \in 1 .. S : t[c] = IF c \in Gone(list, m) THEN Star ELSE c
        BY <2>1, <2>3
  <2>5. f[k] = IF list[k].action = "redacted" THEN Replaced(t, list[k]) ELSE t
        BY <2>2, <2>3 DEF IsCutting
  <2>6. CASE list[k].action # "redacted"
    <3>1. f[k] = t /\ Gone(list, k) = Gone(list, m) BY <2>2, <2>5, <2>6, GoneAfter
    <3> QED BY <3>1, <2>2, <2>4
  <2>7. CASE list[k].action = "redacted"
    <3>1. PICK a \in Nat \ {0}, b \in Nat : a = list[k].from /\ b = list[k].to /\ a <= b /\ b <= S
          BY DEF AreFindings
    <3>2. PICK w \in Nat : w = b - a + 1 BY <3>1
    <3>3. b - a < MaskWidth BY <2>7, <3>1
    <3>4. MaskWidth \in Nat BY DlpAssumption
    <3>5. w = Width(b - a + 1)
      <4>1. w <= MaskWidth BY <3>2, <3>3, <3>4
      <4> QED BY <3>2, <4>1, WidthIs
    <3>6. PICK r : r = Replaced(t, list[k]) OBVIOUS
    <3>7. r \in Seq(Nat) /\ IsCut(r, t, a, b, w) BY <3>1, <3>5, <3>6, <2>4, ReplacedIs
    <3>8. /\ Len(r) = S
          /\ \A i \in 1 .. S : r[i] = IF i < a THEN t[i] ELSE IF i < a + w THEN Star
                                      ELSE t[i - w + (b - a + 1)]
      <4>1. Len(r) = S BY <3>1, <3>2, <3>7, <2>4 DEF IsCut
      <4> QED BY <4>1, <3>7 DEF IsCut
    <3>9. Gone(list, k) = Gone(list, m) \cup (a .. b)
      <4>1. Gone(list, k) = Gone(list, k - 1) \cup (list[k].from .. list[k].to)
            BY <2>7, GoneAfter
      <4> QED BY <4>1, <2>2, <3>1
    <3>10. ASSUME NEW c \in 1 .. S PROVE r[c] = IF c \in Gone(list, k) THEN Star ELSE c
      <4>1. CASE c \in a .. b BY <4>1, <3>2, <3>8, <3>9
      <4>2. CASE c \notin a .. b
        <5>1. r[c] = t[c] BY <4>2, <3>2, <3>8
        <5> QED BY <4>2, <5>1, <3>9, <2>4
      <4> QED BY <4>1, <4>2
    <3>11. f[k] = r BY <2>5, <2>7, <3>6
    <3> QED BY <3>7, <3>8, <3>10, <3>11, <2>2
  <2> QED BY <2>6, <2>7
<1> HIDE DEF Right
<1>3. Nat \subseteq P BY <1>1, <1>2, FromZeroOn
<1>4. Right(n) BY <1>3
<1> QED BY <1>4 DEF Right, IsMasked

\* Findings from the end of the text to its beginning leave what is before them as it was.
LEMMA CutsFromTheEnd ==
    ASSUME NEW n \in Nat, NEW S \in Nat, NEW list, AreFindings(list, n, S), NEW f,
           IsCutting(f, list, n, S),
           \A j, k \in 1 .. n : j < k /\ list[j].action = "redacted" /\ list[k].action = "redacted"
                                => list[k].to < list[j].from
    PROVE  /\ f[n] \in Seq(Nat) /\ Ascending(f[n])
           /\ Range(f[n]) \ {Star} = (1 .. S) \ Gone(list, n)
<1> DEFINE Intact(t, c, k) ==
               /\ IsIntact(t, c)
               /\ \A j \in k + 1 .. n : list[j].action = "redacted" => list[j].to <= c
           Right(k) == /\ f[k] \in Seq(Nat) /\ Ascending(f[k])
                       /\ Range(f[k]) \ {Star} = (1 .. S) \ Gone(list, k)
                       /\ \E c \in Nat : Intact(f[k], c, k)
           P == {k \in Nat : k <= n => Right(k)}
<1>1. 0 \in P
  <2>1. f[0] = [c \in 1 .. S |-> c] BY DEF IsCutting
  <2>2. f[0] \in Seq(Nat) /\ Len(f[0]) = S /\ DOMAIN f[0] = 1 .. S /\ \A c \in 1 .. S : f[0][c] = c BY <2>1
  <2>3. Gone(list, 0) = {} BY DEF Gone
  <2>4. Ascending(f[0]) BY <2>2 DEF Ascending
  <2>5. Range(f[0]) = 1 .. S BY <2>2 DEF Range
  <2>6. Star \notin 1 .. S BY DEF Star
  <2>7. Intact(f[0], S, 0) BY <2>2 DEF AreFindings, IsIntact
  <2> QED BY <2>2, <2>3, <2>4, <2>5, <2>6, <2>7
<1>2. ASSUME NEW m \in Nat, m \in P PROVE m + 1 \in P
  <2> SUFFICES ASSUME m + 1 <= n PROVE Right(m + 1) OBVIOUS
  <2>1. Right(m) BY <1>2
  <2>2. PICK k \in 1 .. n : k = m + 1 /\ m = k - 1 OBVIOUS
  <2>3. PICK t : t = f[m] OBVIOUS
  <2>4. PICK c \in Nat : Intact(t, c, m) BY <2>1, <2>3
  <2>5. /\ t \in Seq(Nat) /\ Ascending(t)
        /\ Range(t) \ {Star} = (1 .. S) \ Gone(list, m)
        BY <2>1, <2>3
  <2>6. f[k] = IF list[k].action = "redacted" THEN Replaced(t, list[k]) ELSE t
        BY <2>2, <2>3 DEF IsCutting
  <2>7. \A j \in k .. n : list[j].action = "redacted" => list[j].to <= c BY <2>2, <2>4
  <2>8. CASE list[k].action # "redacted"
    <3>1. f[k] = t /\ Gone(list, k) = Gone(list, m) BY <2>2, <2>6, <2>8, GoneAfter
    <3>2. \A j \in k + 1 .. n : list[j].action = "redacted" => list[j].to <= c BY <2>7
    <3>3. Intact(t, c, k) BY <3>2, <2>4
    <3> HIDE DEF Intact
    <3> QED BY <3>1, <3>3, <2>2, <2>5
  <2>9. CASE list[k].action = "redacted"
    <3>1. PICK a \in Nat \ {0}, b \in Nat : a = list[k].from /\ b = list[k].to /\ a <= b
          BY DEF AreFindings
    <3>2. b <= c BY <2>7, <2>9, <3>1
    <3>3. PICK r : r = Replaced(t, list[k]) OBVIOUS
    <3>4. IsIntact(t, c) BY <2>4
    <3>5. /\ r \in Seq(Nat) /\ IsIntact(r, a - 1) /\ Ascending(r)
          /\ Range(r) \ {Star} = (Range(t) \ {Star}) \ (a .. b)
      <4>1. PICK x : x = list[k] OBVIOUS
      <4>2. x.from = a /\ x.to = b BY <4>1, <3>1
      <4>3. /\ Replaced(t, x) \in Seq(Nat) /\ IsIntact(Replaced(t, x), a - 1)
            /\ Ascending(Replaced(t, x))
            /\ Range(Replaced(t, x)) \ {Star} = (Range(t) \ {Star}) \ (a .. b)
        <5>1. t \in Seq(Nat) /\ Ascending(t) BY <2>5
        <5>2. a \in Nat \ {0} /\ b \in Nat /\ c \in Nat /\ a <= b /\ b <= c BY <3>1, <3>2
        <5> HIDE DEF Intact, Right, P
        <5> QED BY <4>2, <3>4, <5>1, <5>2, CutInPlace
      <4> QED BY <4>1, <4>3, <3>3
    <3>6. Gone(list, k) = Gone(list, m) \cup (a .. b)
      <4>1. Gone(list, k) = Gone(list, k - 1) \cup (list[k].from .. list[k].to)
            BY <2>9, GoneAfter
      <4> QED BY <4>1, <2>2, <3>1
    <3>7. Range(r) \ {Star} = (1 .. S) \ Gone(list, k) BY <3>5, <3>6, <2>5
    <3>8. ASSUME NEW j \in k + 1 .. n, list[j].action = "redacted" PROVE list[j].to <= a - 1
      <4>1. j \in 1 .. n /\ k < j BY <2>2
      <4>2. list[j].to < a BY <4>1, <3>1, <3>8, <2>9
      <4>3. list[j].to \in Nat BY <4>1 DEF AreFindings
      <4> QED BY <4>2, <4>3
    <3>9. Intact(r, a - 1, k) BY <3>5, <3>8
    <3>10. f[k] = r BY <2>6, <2>9, <3>3
    <3> HIDE DEF Intact
    <3>11. a - 1 \in Nat OBVIOUS
    <3> QED BY <3>5, <3>7, <3>9, <3>10, <3>11, <2>2
  <2> QED BY <2>8, <2>9
<1> HIDE DEF Right
<1>3. Nat \subseteq P BY <1>1, <1>2, FromZeroOn
<1>4. Right(n) BY <1>3
<1> QED BY <1>4 DEF Right

\* Findings that differ in where they are and in whose they are.
AreApart(found) ==
    /\ \A f \in found : f.at \in Int /\ f.from \in Int
    /\ \A f, g \in found : f.at = g.at /\ f.from = g.from => f = g

IsInTurn(list, found, n) ==
    /\ list \in Seq(found) /\ Len(list) = n /\ DOMAIN list = 1 .. n
    /\ \A f \in found : \E k \in 1 .. n : list[k] = f
    /\ \A j, k \in 1 .. n : j < k => DealtWithBefore(list[j], list[k])

LEMMA DealtWithInOrder ==
    ASSUME NEW found, AreApart(found)
    PROVE  /\ \A f \in found : ~DealtWithBefore(f, f)
           /\ \A f, g \in found : f # g => DealtWithBefore(f, g) \/ DealtWithBefore(g, f)
           /\ \A f, g, h \in found : DealtWithBefore(f, g) /\ DealtWithBefore(g, h) => DealtWithBefore(f, h)
<1>1. \A f \in found : f.at \in Int /\ f.from \in Int BY DEF AreApart
<1>2. \A f, g \in found : f # g => f.at # g.at \/ f.from # g.from BY DEF AreApart
<1> QED BY <1>1, <1>2 DEF DealtWithBefore

\* As many come before a finding as before its number.
LEMMA RanksAreCounted ==
    ASSUME NEW found, NEW n \in Nat, NEW b \in Bijection(1 .. n, found), NEW k \in 1 .. n
    PROVE  Cardinality({j \in 1 .. n : DealtWithBefore(b[j], b[k])})
              = Cardinality({g \in found : DealtWithBefore(g, b[k])})
<1>1. PICK D : D = {j \in 1 .. n : DealtWithBefore(b[j], b[k])} OBVIOUS
<1>2. PICK G : G = {g \in found : DealtWithBefore(g, b[k])} OBVIOUS
<1>3. \A j \in 1 .. n : b[j] \in found BY DEF Bijection, Injection
<1>4. \A i, j \in 1 .. n : b[i] = b[j] => i = j BY DEF Bijection, Injection, IsInjective
<1>5. \A g \in found : \E j \in 1 .. n : b[j] = g BY DEF Bijection, Surjection
<1>6. PICK h : h = [j \in D |-> b[j]] OBVIOUS
<1>7. h \in [D -> G] BY <1>1, <1>2, <1>3, <1>6
<1>8. h \in Injection(D, G)
  <2>1. \A i, j \in D : h[i] = h[j] => i = j BY <1>1, <1>4, <1>6
  <2> QED BY <2>1, <1>7 DEF Injection, IsInjective
<1>9. h \in Surjection(D, G)
  <2>1. \A g \in G : \E j \in D : h[j] = g BY <1>1, <1>2, <1>5, <1>6
  <2> QED BY <2>1, <1>7 DEF Surjection
<1>10. ExistsBijection(D, G) BY <1>8, <1>9 DEF Bijection, ExistsBijection
<1>11. IsFiniteSet(D)
  <2>1. IsFiniteSet(1 .. n) BY FS_Interval
  <2> QED BY <2>1, <1>1, FS_Subset
<1> QED BY <1>1, <1>2, <1>10, <1>11, FS_Bijection

\* The list has each finding once, in the order of the code.
LEMMA InTurnIs ==
    ASSUME NEW found, IsFiniteSet(found), AreApart(found)
    PROVE  \E n \in Nat : n = Cardinality(found) /\ IsInTurn(InTurn(found), found, n)
<1>1. PICK n \in Nat : n = Cardinality(found) BY FS_CardinalityType
<1>2. PICK b : b \in Bijection(1 .. n, found) BY <1>1, FS_CardinalityType DEF ExistsBijection
<1>3. \A j \in 1 .. n : b[j] \in found BY <1>2 DEF Bijection, Injection
<1>4. \A i, j \in 1 .. n : b[i] = b[j] => i = j BY <1>2 DEF Bijection, Injection, IsInjective
<1>5. \A g \in found : \E j \in 1 .. n : b[j] = g BY <1>2 DEF Bijection, Surjection
<1>6. PICK B : B = [k \in 1 .. n |-> {j \in 1 .. n : DealtWithBefore(b[j], b[k])}] OBVIOUS
<1>7. \A j, k \in 1 .. n : j \in B[k] <=> DealtWithBefore(b[j], b[k]) BY <1>6
<1>8. \A k \in 1 .. n : B[k] \subseteq 1 .. n BY <1>6
<1>9. /\ \A k \in 1 .. n : B[k] \subseteq 1 .. n /\ k \notin B[k]
      /\ \A j, k \in 1 .. n : j # k => j \in B[k] \/ k \in B[j]
      /\ \A i, j, k \in 1 .. n : i \in B[j] /\ j \in B[k] => i \in B[k]
  <2>1. /\ \A f \in found : ~DealtWithBefore(f, f)
        /\ \A f, g \in found : f # g => DealtWithBefore(f, g) \/ DealtWithBefore(g, f)
        /\ \A f, g, h \in found : DealtWithBefore(f, g) /\ DealtWithBefore(g, h) => DealtWithBefore(f, h)
        BY DealtWithInOrder
  <2>2. \A k \in 1 .. n : k \notin B[k] BY <2>1, <1>3, <1>7
  <2>3. \A j, k \in 1 .. n : j # k => j \in B[k] \/ k \in B[j] BY <2>1, <1>3, <1>4, <1>7
  <2>4. \A i, j, k \in 1 .. n : i \in B[j] /\ j \in B[k] => i \in B[k] BY <2>1, <1>3, <1>7
  <2> QED BY <2>2, <2>3, <2>4, <1>8
<1>10. /\ \A k \in 1 .. n : Cardinality(B[k]) + 1 \in 1 .. n
       /\ \A j, k \in 1 .. n : j \in B[k] => Cardinality(B[j]) < Cardinality(B[k])
       /\ \A j, k \in 1 .. n : j # k => Cardinality(B[j]) # Cardinality(B[k])
       /\ \A m \in 1 .. n : \E k \in 1 .. n : Cardinality(B[k]) + 1 = m
       BY <1>9, CountingOrders
<1> DEFINE rank(f) == Cardinality({g \in found : DealtWithBefore(g, f)})
<1>11. \A k \in 1 .. n : B[k] = {j \in 1 .. n : DealtWithBefore(b[j], b[k])} BY <1>6
<1>12. ASSUME NEW k \in 1 .. n PROVE rank(b[k]) = Cardinality(B[k])
  <2>1. Cardinality({j \in 1 .. n : DealtWithBefore(b[j], b[k])}) = rank(b[k])
        BY <1>2, RanksAreCounted
  <2> QED BY <2>1, <1>11
<1>13. \A k \in 1 .. n : Cardinality(B[k]) \in Nat
  <2>1. IsFiniteSet(1 .. n) BY FS_Interval
  <2> QED BY <2>1, <1>8, FS_Subset, FS_CardinalityType
<1>14. PICK list : list = InTurn(found) OBVIOUS
<1>15. list = [i \in 1 .. n |-> CHOOSE f \in found : rank(f) = i - 1] BY <1>1, <1>14 DEF InTurn
<1> HIDE DEF rank
<1>16. ASSUME NEW i \in 1 .. n PROVE \E k \in 1 .. n : rank(b[k]) = i - 1
  <2>1. PICK k \in 1 .. n : Cardinality(B[k]) + 1 = i BY <1>10
  <2> QED BY <2>1, <1>12, <1>13
<1>17. ASSUME NEW i \in 1 .. n PROVE list[i] \in found /\ rank(list[i]) = i - 1
  <2>1. \E f \in found : rank(f) = i - 1 BY <1>3, <1>16
  <2>2. list[i] = CHOOSE f \in found : rank(f) = i - 1 BY <1>15
  <2> QED BY <2>1, <2>2
<1>18. list \in Seq(found) /\ Len(list) = n /\ DOMAIN list = 1 .. n BY <1>15, <1>17
<1>19. ASSUME NEW j \in 1 .. n, NEW k \in 1 .. n, rank(b[j]) = rank(b[k]) PROVE j = k
       BY <1>10, <1>12, <1>19
<1>20. ASSUME NEW f \in found PROVE \E k \in 1 .. n : list[k] = f
  <2>1. PICK j \in 1 .. n : b[j] = f BY <1>5
  <2>2. PICK k \in 1 .. n : k = Cardinality(B[j]) + 1 BY <1>10
  <2>3. rank(list[k]) = rank(b[j]) BY <2>2, <1>12, <1>13, <1>17
  <2>4. PICK i \in 1 .. n : b[i] = list[k] BY <1>5, <1>17
  <2> QED BY <2>1, <2>3, <2>4, <1>19
<1>21. ASSUME NEW j \in 1 .. n, NEW k \in 1 .. n, j < k PROVE DealtWithBefore(list[j], list[k])
  <2>1. PICK i \in 1 .. n, l \in 1 .. n : b[i] = list[j] /\ b[l] = list[k] BY <1>5, <1>17
  <2>2. Cardinality(B[i]) = j - 1 /\ Cardinality(B[l]) = k - 1 BY <2>1, <1>12, <1>17
  <2>3. i # l /\ ~(l \in B[i]) BY <2>2, <1>10, <1>21
  <2>4. i \in B[l] BY <2>3, <1>9
  <2> QED BY <2>1, <2>4, <1>7
<1> QED BY <1>1, <1>14, <1>18, <1>20, <1>21 DEF IsInTurn

LEMMA ReplacedIsText ==
    ASSUME NEW text \in Seq(Nat), NEW m, m.from \in Nat \ {0}, m.to \in Nat, m.from <= m.to
    PROVE  Replaced(text, m) \in Seq(Nat)
<1>1. PICK a \in Nat \ {0}, b \in Nat : a = m.from /\ b = m.to /\ a <= b OBVIOUS
<1>2. PICK L \in Nat : L = Len(text) OBVIOUS
<1>3. \A i \in 1 .. L : text[i] \in Nat BY <1>2
<1>4. PICK e \in Nat : e = Min({a - 1, L}) /\ e <= L
  <2>1. a - 1 \in Nat OBVIOUS
  <2>2. Min({a - 1, L}) \in {a - 1, L} /\ \A x \in {a - 1, L} : Min({a - 1, L}) <= x
        BY <2>1, LeastOf
  <2> QED BY <2>1, <2>2
<1>5. SubSeq(text, 1, e) \in Seq(Nat)
  <2>1. \A i \in 1 .. e : text[i] \in Nat BY <1>3, <1>4
  <2> QED BY <2>1, SubSeqProperties
<1>6. SubSeq(text, b + 1, L) \in Seq(Nat)
  <2>1. \A i \in b + 1 .. L : text[i] \in Nat BY <1>3
  <2> QED BY <2>1, SubSeqProperties
<1>7. Stars(Width(b - a + 1)) \in Seq(Nat)
  <2>1. PICK w \in Nat : w = Width(b - a + 1)
    <3>1. b - a + 1 \in Nat BY <1>1
    <3> QED BY <3>1, WidthIs
  <2>2. Stars(w) \in Seq(Nat) BY DEF Stars, Star
  <2> QED BY <2>1, <2>2
<1>8. Replaced(text, m) = (SubSeq(text, 1, e) \o Stars(Width(b - a + 1))) \o SubSeq(text, b + 1, L)
      BY <1>1, <1>2, <1>4 DEF Replaced
<1>9. SubSeq(text, 1, e) \o Stars(Width(b - a + 1)) \in Seq(Nat) BY <1>5, <1>7, ConcatProperties
<1> QED BY <1>6, <1>8, <1>9, ConcatProperties

\* The text is cut by one finding after the other.
LEMMA CutTextIs ==
    ASSUME NEW n \in Nat, NEW S \in Nat, NEW list, AreFindings(list, n, S), Len(list) = n
    PROVE  \E f : IsCutting(f, list, n, S) /\ CutText([k \in 1 .. S |-> k], list) = f[n]
<1>1. PICK e : e = [k \in 1 .. S |-> k] OBVIOUS
<1>2. PICK V : V = Seq(Nat) OBVIOUS
<1>3. e \in V BY <1>1, <1>2
<1> DEFINE Left(s, k) == IF list[k].action = "redacted" THEN Replaced(s, list[k]) ELSE s
<1>4. PICK step : step = [x \in (1 .. n) \X V |-> Left(x[2], x[1])] OBVIOUS
<1>5. ASSUME NEW k \in 1 .. n, NEW s \in V PROVE step[<<k, s>>] = Left(s, k) /\ Left(s, k) \in V
  <2>1. <<k, s>> \in (1 .. n) \X V OBVIOUS
  <2>2. step[<<k, s>>] = Left(s, k) BY <2>1, <1>4
  <2>3. Replaced(s, list[k]) \in Seq(Nat)
    <3>1. PICK m : m = list[k] OBVIOUS
    <3>2. m.from \in Nat \ {0} /\ m.to \in Nat /\ m.from <= m.to BY <3>1 DEF AreFindings
    <3>3. s \in Seq(Nat) BY <1>2
    <3> QED BY <3>1, <3>2, <3>3, ReplacedIsText
  <2>4. Left(s, k) \in V BY <2>3, <1>2
  <2> QED BY <2>2, <2>4
<1>6. PICK f : StepsFrom(f, n, V, e, step)
  <2>1. \A k \in 1 .. n : \A s \in V : step[<<k, s>>] \in V BY <1>5
  <2> QED BY <2>1, <1>3, StepsExist
<1>7. \A k \in 0 .. n : f[k] \in V BY <1>6 DEF StepsFrom
<1>8. f[0] = e BY <1>6 DEF StepsFrom
<1>9. ASSUME NEW k \in 1 .. n PROVE f[k] = Left(f[k - 1], k)
  <2>1. k - 1 \in 0 .. n OBVIOUS
  <2>2. f[k - 1] \in V BY <2>1, <1>7
  <2>3. f[k] = step[<<k, f[k - 1]>>] BY <1>6 DEF StepsFrom
  <2> QED BY <2>2, <2>3, <1>5
<1> DEFINE Onward(h, k) == IF k = 0 THEN e
                           ELSE IF list[k].action = "redacted" THEN Replaced(h[k - 1], list[k])
                           ELSE h[k - 1]
<1>10. f = [k \in 0 .. n |-> Onward(f, k)]
  <2>1. ASSUME NEW k \in 0 .. n PROVE f[k] = Onward(f, k)
    <3>1. CASE k = 0 BY <3>1, <1>8
    <3>2. CASE k # 0
      <4>1. k \in 1 .. n BY <3>2
      <4> QED BY <4>1, <3>2, <1>9
    <3> QED BY <3>1, <3>2
  <2>2. f \in [0 .. n -> V] BY <1>6 DEF StepsFrom
  <2> HIDE DEF Onward
  <2> QED BY <2>1, <2>2
<1>11. PICK g : g = CHOOSE h : h = [k \in 0 .. n |-> Onward(h, k)] OBVIOUS
<1>12. g = [k \in 0 .. n |-> Onward(g, k)]
  <2> HIDE DEF Onward
  <2> QED BY <1>10, <1>11
<1>13. CutText(e, list) = g[n] BY <1>11 DEF CutText
<1>14. g[0] = e
  <2>1. 0 \in 0 .. n OBVIOUS
  <2> QED BY <2>1, <1>12
<1>15. ASSUME NEW k \in 1 .. n PROVE g[k] = Left(g[k - 1], k)
  <2>1. k \in 0 .. n /\ k # 0 OBVIOUS
  <2> QED BY <2>1, <1>12
<1>16. IsCutting(g, list, n, S) BY <1>1, <1>14, <1>15 DEF IsCutting
<1> QED BY <1>1, <1>13, <1>16

\* What is assumed of a leaf.
IsLeaf(leaf) ==
    /\ leaf.size \in Nat /\ IsFiniteSet(leaf.matches)
    /\ \A m \in leaf.matches : m.from \in Nat \ {0} /\ m.to \in Nat /\ m.from <= m.to
    /\ \A m, n \in leaf.matches : m.pattern = n.pattern => m = n \/ m.to < n.from \/ n.to < m.from

LEMMA KeptIs ==
    ASSUME NEW leaf, IsLeaf(leaf)
    PROVE  Kept(leaf) \in Nat /\ Kept(leaf) <= leaf.size
<1>1. leaf.size \in Nat /\ MaxStringLength \in Nat BY DlpAssumption DEF IsLeaf
<1>2. PICK s \in Nat, t \in Nat : s = leaf.size /\ t = MaxStringLength BY <1>1
<1>3. Min({s, t}) \in {s, t} /\ \A x \in {s, t} : Min({s, t}) <= x BY LeastOf
<1> QED BY <1>2, <1>3 DEF Kept

\* What is found in a leaf: where, by which pattern, and what is done about it.
IsFound(f, leaf) ==
    /\ f.at \in DOMAIN dlpPatterns /\ f.pattern = dlpPatterns[f.at].id
    /\ \E m \in leaf.matches : f.from = m.from /\ f.to = m.to /\ f.pattern = m.pattern
    /\ f.to <= Kept(leaf)
    /\ f.action \in {"blocked", "allowed", "redacted"} /\ (f.action = "allowed" <=> dlpConfig.shadow)

LEMMA FoundIs ==
    ASSUME NEW leaf, IsLeaf(leaf), NEW trusted, dlpConfig.shadow \in BOOLEAN
    PROVE  /\ \A f \in FoundIn(leaf, trusted) : IsFound(f, leaf)
           /\ \A f, g \in FoundIn(leaf, trusted) : f.at = g.at /\ f.from = g.from => f = g
<1> DEFINE action(i) == IF ShouldBlock(dlpPatterns[i], trusted) THEN "blocked"
                        ELSE IF dlpConfig.shadow THEN "allowed" ELSE "redacted"
           rec(i, m) == [at |-> i, from |-> m.from, to |-> m.to, pattern |-> m.pattern,
                         action |-> action(i)]
<1>1. ASSUME NEW f \in FoundIn(leaf, trusted)
      PROVE  \E i \in DOMAIN dlpPatterns : \E m \in leaf.matches :
                f = rec(i, m) /\ dlpPatterns[i].id = m.pattern /\ m.to <= Kept(leaf)
      BY DEF FoundIn
<1>2. \A i : /\ action(i) \in {"blocked", "allowed", "redacted"}
             /\ action(i) = "allowed" <=> dlpConfig.shadow
      BY DEF ShouldBlock
<1> HIDE DEF action
<1>3. ASSUME NEW f \in FoundIn(leaf, trusted) PROVE IsFound(f, leaf)
  <2>1. PICK i \in DOMAIN dlpPatterns : \E m \in leaf.matches :
            f = rec(i, m) /\ dlpPatterns[i].id = m.pattern /\ m.to <= Kept(leaf)
        BY <1>1
  <2>2. PICK m \in leaf.matches :
            f = rec(i, m) /\ dlpPatterns[i].id = m.pattern /\ m.to <= Kept(leaf)
        BY <2>1
  <2>3. f.at = i /\ f.from = m.from /\ f.to = m.to /\ f.pattern = m.pattern /\ f.action = action(i)
        BY <2>2
  <2> QED BY <2>2, <2>3, <1>2 DEF IsFound
<1>4. ASSUME NEW f \in FoundIn(leaf, trusted), NEW g \in FoundIn(leaf, trusted),
             f.at = g.at, f.from = g.from
      PROVE  f = g
  <2>1. PICK i \in DOMAIN dlpPatterns, m \in leaf.matches :
            f = rec(i, m) /\ dlpPatterns[i].id = m.pattern
        BY <1>1
  <2>2. PICK j \in DOMAIN dlpPatterns, n \in leaf.matches :
            g = rec(j, n) /\ dlpPatterns[j].id = n.pattern
        BY <1>1
  <2>3. i = j /\ m.from = n.from
    <3>1. f.at = i /\ f.from = m.from BY <2>1
    <3>2. g.at = j /\ g.from = n.from BY <2>2
    <3> QED BY <3>1, <3>2, <1>4
  <2>4. m.pattern = n.pattern BY <2>1, <2>2, <2>3
  <2>5. m = n \/ m.to < n.from \/ n.to < m.from BY <2>4 DEF IsLeaf
  <2>6. /\ m.from \in Nat /\ m.to \in Nat /\ m.from <= m.to
        /\ n.from \in Nat /\ n.to \in Nat /\ n.from <= n.to
        BY DEF IsLeaf
  <2>7. m = n BY <2>3, <2>5, <2>6
  <2> QED BY <2>1, <2>2, <2>3, <2>7
<1> QED BY <1>3, <1>4

LEMMA FoundIsFinite ==
    ASSUME NEW leaf, IsLeaf(leaf), NEW trusted, dlpPatterns \in Seq(AllPatterns)
    PROVE  IsFiniteSet(FoundIn(leaf, trusted))
<1>1. IsFiniteSet(DOMAIN dlpPatterns)
  <2>1. PICK n \in Nat : DOMAIN dlpPatterns = 1 .. n OBVIOUS
  <2> QED BY <2>1, FS_Interval
<1>2. IsFiniteSet(leaf.matches) BY DEF IsLeaf
<1>3. IsFiniteSet((DOMAIN dlpPatterns) \X leaf.matches) BY <1>1, <1>2, FS_Product
<1>4. PICK D : D = {im \in (DOMAIN dlpPatterns) \X leaf.matches :
                       /\ dlpPatterns[im[1]].id = im[2].pattern
                       /\ im[2].to <= Kept(leaf)
                       /\ Found(dlpPatterns[im[1]], im[2])}
      OBVIOUS
<1>5. IsFiniteSet(D) BY <1>3, <1>4, FS_Subset
<1> DEFINE rec(f) ==
             [at |-> f[1], from |-> f[2].from, to |-> f[2].to, pattern |-> f[2].pattern,
              action |-> IF ShouldBlock(dlpPatterns[f[1]], trusted) THEN "blocked"
                         ELSE IF dlpConfig.shadow THEN "allowed" ELSE "redacted"]
<1>6. PICK F : F = FoundIn(leaf, trusted) OBVIOUS
<1>7. F = {rec(f) : f \in D} BY <1>4, <1>6 DEF FoundIn
<1> HIDE DEF rec
<1>8. PICK h : h = [f \in D |-> rec(f)] OBVIOUS
<1>9. h \in Surjection(D, F)
  <2>1. h \in [D -> F] BY <1>7, <1>8
  <2>2. \A x \in F : \E f \in D : h[f] = x BY <1>7, <1>8
  <2> QED BY <2>1, <2>2 DEF Surjection
<1> QED BY <1>5, <1>6, <1>9, FS_Surjection

\* The cells that a scan has looked at and that no match is reported to cover.
RestOf(leaf, scan) ==
    {c \in 1 .. (IF Passes(leaf) \/ leaf.key = "always" THEN leaf.size ELSE Kept(leaf)) :
        \A f \in RedactedIn(scan) : c \notin f.from .. f.to}

OneCuts(scan) == \A f, g \in RedactedIn(scan) : f.at = g.at
MasksFit(scan) == \A f \in RedactedIn(scan) : f.to - f.from < MaskWidth

\* What each leaf of a scan is, by itself.
IsScan(leaf, scan, method, shadow) ==
    /\ \E n \in Nat : DOMAIN scan.findings = 1 .. n
    /\ \A f \in Range(scan.findings) : f.action = "allowed" <=> shadow
    /\ OneCuts(scan) \/ (method = "mask" /\ MasksFit(scan)) =>
          Range(scan.text) \ {Star} = RestOf(leaf, scan) /\ Ascending(scan.text)

LEMMA FoundInPlain ==
    ASSUME NEW leaf, IsLeaf(leaf), NEW trusted, dlpPatterns \in Seq(AllPatterns),
           dlpConfig.shadow \in BOOLEAN
    PROVE  \E list : \E n \in Nat :
              /\ list = FindingsIn(leaf, trusted) /\ IsInTurn(list, FoundIn(leaf, trusted), n)
              /\ AreFindings(list, n, Kept(leaf))
              /\ \A k \in 1 .. n : list[k].action = "allowed" <=> dlpConfig.shadow
              /\ \A j, k \in 1 .. n : j < k /\ list[j].at = list[k].at => list[k].to < list[j].from
<1>1. PICK F : F = FoundIn(leaf, trusted) OBVIOUS
<1>2. IsFiniteSet(F) BY <1>1, FoundIsFinite
<1>3. \A f \in F : IsFound(f, leaf) BY <1>1, FoundIs
<1>4. \A f, g \in F : f.at = g.at /\ f.from = g.from => f = g BY <1>1, FoundIs
<1>5. ASSUME NEW f \in F
      PROVE  /\ f.at \in Int /\ f.from \in Nat \ {0} /\ f.to \in Nat /\ f.from <= f.to
             /\ f.to <= Kept(leaf) /\ (f.action = "allowed" <=> dlpConfig.shadow)
  <2>1. IsFound(f, leaf) BY <1>3
  <2>2. PICK m \in leaf.matches : f.from = m.from /\ f.to = m.to BY <2>1 DEF IsFound
  <2>3. m.from \in Nat \ {0} /\ m.to \in Nat /\ m.from <= m.to BY DEF IsLeaf
  <2>4. f.at \in Int
    <3>1. PICK n \in Nat : DOMAIN dlpPatterns = 1 .. n OBVIOUS
    <3> QED BY <2>1, <3>1 DEF IsFound
  <2> QED BY <2>1, <2>2, <2>3, <2>4 DEF IsFound
<1>6. AreApart(F) BY <1>4, <1>5 DEF AreApart
<1>7. PICK n \in Nat : IsInTurn(InTurn(F), F, n) BY <1>2, <1>6, InTurnIs
<1>8. PICK list : list = FindingsIn(leaf, trusted) OBVIOUS
<1>9. list = InTurn(F) BY <1>1, <1>8 DEF FindingsIn
<1>10. IsInTurn(list, F, n) BY <1>7, <1>9
<1>11. \A k \in 1 .. n : list[k] \in F BY <1>10 DEF IsInTurn
<1>12. AreFindings(list, n, Kept(leaf)) BY <1>5, <1>11 DEF AreFindings
<1>13. \A k \in 1 .. n : list[k].action = "allowed" <=> dlpConfig.shadow BY <1>5, <1>11
<1>14. ASSUME NEW j \in 1 .. n, NEW k \in 1 .. n, j < k, list[j].at = list[k].at
       PROVE  list[k].to < list[j].from
  <2>1. PICK f \in F, g \in F : f = list[j] /\ g = list[k] BY <1>11
  <2>2. DealtWithBefore(f, g) BY <2>1, <1>10, <1>14 DEF IsInTurn
  <2>3. /\ f.at \in Int /\ f.from \in Nat /\ f.to \in Nat /\ f.from <= f.to
        /\ g.at \in Int /\ g.from \in Nat /\ g.to \in Nat /\ g.from <= g.to
        BY <1>5
  <2>4. f.at = g.at /\ f.from > g.from BY <2>1, <2>2, <2>3, <1>14 DEF DealtWithBefore
  <2>5. PICK m \in leaf.matches : f.from = m.from /\ f.to = m.to /\ f.pattern = m.pattern
        BY <1>3 DEF IsFound
  <2>6. PICK l \in leaf.matches : g.from = l.from /\ g.to = l.to /\ g.pattern = l.pattern
        BY <1>3 DEF IsFound
  <2>7. f.pattern = g.pattern BY <2>4, <1>3 DEF IsFound
  <2>8. m = l \/ m.to < l.from \/ l.to < m.from BY <2>5, <2>6, <2>7 DEF IsLeaf
  <2> QED BY <2>1, <2>3, <2>4, <2>5, <2>6, <2>8
<1> QED BY <1>1, <1>8, <1>10, <1>12, <1>13, <1>14

LEMMA PlainLeafIs ==
    ASSUME NEW leaf, IsLeaf(leaf), NEW trusted, dlpPatterns \in Seq(AllPatterns),
           dlpConfig.shadow \in BOOLEAN, ~Passes(leaf), leaf.key # "always"
    PROVE  IsScan(leaf, ScanLeaf(leaf, trusted), dlpConfig.method, dlpConfig.shadow)
<1> DEFINE Those(list, n) ==
          /\ list = FindingsIn(leaf, trusted) /\ IsInTurn(list, FoundIn(leaf, trusted), n)
          /\ AreFindings(list, n, Kept(leaf))
          /\ \A k \in 1 .. n : list[k].action = "allowed" <=> dlpConfig.shadow
          /\ \A j, k \in 1 .. n : j < k /\ list[j].at = list[k].at => list[k].to < list[j].from
<1>14. PICK list : \E n \in Nat : Those(list, n) BY FoundInPlain
<1>1. PICK n \in Nat : Those(list, n) BY <1>14
<1>2. PICK S \in Nat : S = Kept(leaf) BY KeptIs
<1>3. Len(list) = n /\ DOMAIN list = 1 .. n BY <1>1 DEF IsInTurn
<1>4. AreFindings(list, n, S) BY <1>1, <1>2
<1>5. PICK f : IsCutting(f, list, n, S) /\ CutText([k \in 1 .. S |-> k], list) = f[n]
      BY <1>3, <1>4, CutTextIs
<1>6. PICK scan : scan = ScanLeaf(leaf, trusted) OBVIOUS
<1>7. scan.text = f[n] /\ scan.findings = list
  <2>1. scan = [text |-> CutText(Cells(leaf), list), findings |-> list]
        BY <1>1, <1>6 DEF ScanLeaf
  <2>2. Cells(leaf) = [k \in 1 .. S |-> k] BY <1>2 DEF Cells
  <2> QED BY <2>1, <2>2, <1>5
<1>8. \A g : g \in RedactedIn(scan) <=> \E k \in 1 .. n : g = list[k] /\ list[k].action = "redacted"
      BY <1>3, <1>7 DEF RedactedIn, Range
<1>9. ASSUME NEW c PROVE c \in RestOf(leaf, scan) <=> c \in (1 .. S) \ Gone(list, n)
      BY <1>2, <1>8 DEF RestOf, Gone
<1>10. RestOf(leaf, scan) = (1 .. S) \ Gone(list, n) BY <1>9
<1>11. ASSUME OneCuts(scan)
       PROVE  Range(f[n]) \ {Star} = (1 .. S) \ Gone(list, n) /\ Ascending(f[n])
  <2>1. ASSUME NEW j \in 1 .. n, NEW k \in 1 .. n, j < k,
               list[j].action = "redacted", list[k].action = "redacted"
        PROVE  list[k].to < list[j].from
    <3>1. list[j].at = list[k].at BY <2>1, <1>8, <1>11 DEF OneCuts
    <3> QED BY <2>1, <3>1, <1>1
  <2> QED BY <2>1, <1>4, <1>5, CutsFromTheEnd
<1>12. ASSUME dlpConfig.method = "mask", MasksFit(scan)
       PROVE  Range(f[n]) \ {Star} = (1 .. S) \ Gone(list, n) /\ Ascending(f[n])
  <2>1. \A k \in 1 .. n : list[k].action = "redacted" => list[k].to - list[k].from < MaskWidth
        BY <1>8, <1>12 DEF MasksFit
  <2>2. PICK t : t = f[n] OBVIOUS
  <2>3. t \in Seq(Nat) /\ Len(t) = S /\ \A c \in 1 .. S : t[c] = IF c \in Gone(list, n) THEN Star ELSE c
    <3>1. IsMasked(t, S, Gone(list, n)) BY <2>1, <2>2, <1>4, <1>5, <1>12, MasksCover
    <3> QED BY <3>1 DEF IsMasked
  <2>4. DOMAIN t = 1 .. S BY <2>3
  <2>5. Ascending(t) BY <2>3, <2>4 DEF Ascending
  <2>6. ASSUME NEW c PROVE c \in Range(t) \ {Star} <=> c \in (1 .. S) \ Gone(list, n)
    <3>1. \A e \in 1 .. S : e # Star BY DEF Star
    <3> QED BY <3>1, <2>3, <2>4 DEF Range
  <2> QED BY <2>2, <2>5, <2>6
<1>13. \A g \in Range(scan.findings) : g.action = "allowed" <=> dlpConfig.shadow
       BY <1>1, <1>3, <1>7 DEF Range
<1> QED BY <1>3, <1>6, <1>7, <1>10, <1>11, <1>12, <1>13 DEF IsScan

LEMMA LeafIsScanned ==
    ASSUME NEW leaf, IsLeaf(leaf), NEW trusted, dlpPatterns \in Seq(AllPatterns),
           dlpConfig.shadow \in BOOLEAN
    PROVE  IsScan(leaf, ScanLeaf(leaf, trusted), dlpConfig.method, dlpConfig.shadow)
<1>1. PICK s \in Nat : s = leaf.size BY DEF IsLeaf
<1>2. PICK scan : scan = ScanLeaf(leaf, trusted) OBVIOUS
<1>3. CASE Passes(leaf) \/ (leaf.key = "always" /\ dlpConfig.shadow)
  <2>1. scan = [text |-> [k \in 1 .. s |-> k], findings |-> <<>>] BY <1>1, <1>2, <1>3 DEF ScanLeaf
  <2>2. PICK t : t = [k \in 1 .. s |-> k] OBVIOUS
  <2>3. scan.text = t /\ scan.findings = <<>> BY <2>1, <2>2
  <2>4. DOMAIN scan.findings = {} /\ Range(scan.findings) = {} BY <2>3 DEF Range
  <2>5. RestOf(leaf, scan) = 1 .. s BY <2>4, <1>1, <1>3 DEF RestOf, RedactedIn
  <2>6. Ascending(t) BY <2>2 DEF Ascending
  <2>7. Range(t) \ {Star} = 1 .. s BY <2>2 DEF Range, Star
  <2>8. \E n \in Nat : DOMAIN scan.findings = 1 .. n
    <3>1. 1 .. 0 = {} OBVIOUS
    <3> QED BY <3>1, <2>4
  <2> QED BY <2>3, <2>4, <2>5, <2>6, <2>7, <2>8, <1>2 DEF IsScan
<1>4. CASE ~Passes(leaf) /\ leaf.key = "always" /\ ~dlpConfig.shadow
  <2>1. PICK f : f = [at |-> 0, from |-> 1, to |-> s, pattern |-> "field-name-match",
                      action |-> "redacted"]
        OBVIOUS
  <2>2. PICK w \in Nat : w = Width(s) BY WidthIs
  <2>3. scan = [text |-> Stars(w), findings |-> <<f>>] BY <2>1, <2>2, <1>1, <1>2, <1>4 DEF ScanLeaf
  <2>4. scan.text = Stars(w) /\ scan.findings = <<f>> BY <2>3
  <2>5. DOMAIN scan.findings = 1 .. 1 /\ Range(scan.findings) = {f} BY <2>4 DEF Range
  <2>6. f.from = 1 /\ f.to = s /\ f.action = "redacted" BY <2>1
  <2>7. RedactedIn(scan) = {f} BY <2>5, <2>6 DEF RedactedIn
  <2>8. RestOf(leaf, scan) = {} BY <2>6, <2>7, <1>1, <1>4 DEF RestOf
  <2>9. Range(Stars(w)) \ {Star} = {} BY DEF Stars, Range
  <2>10. Ascending(Stars(w)) BY DEF Stars, Ascending
  <2>11. \A g \in Range(scan.findings) : g.action = "allowed" <=> dlpConfig.shadow
         BY <2>5, <2>6, <1>4
  <2>12. \E n \in Nat : DOMAIN scan.findings = 1 .. n BY <2>5
  <2> QED BY <2>4, <2>8, <2>9, <2>10, <2>11, <2>12, <1>2 DEF IsScan
<1>5. CASE ~Passes(leaf) /\ leaf.key # "always" BY <1>5, PlainLeafIs
<1> QED BY <1>3, <1>4, <1>5

ScanIsRight(last) ==
    /\ \A k \in DOMAIN last.scans :
          IsScan(last.document.leaves[k], last.scans[k], last.method, last.shadow)
    /\ last.shadow => ~last.blocked
    /\ \A k \in DOMAIN last.scans : \A f \in Range(last.scans[k].findings) :
          f.action = "blocked" => last.blocked

IsGroup(list, group) == list \in Seq(Range(list)) /\ \A p \in Range(list) : p.group = group

\* All of a list is of one group.
AreOf(list, n, group) ==
    list = [k \in 1 .. n |-> list[k]] /\ \A k \in 1 .. n : list[k].group = group

LEMMA GroupIs ==
    ASSUME NEW n \in Nat, NEW list, NEW group, AreOf(list, n, group)
    PROVE  IsGroup(list, group)
<1>1. list = [k \in 1 .. n |-> list[k]] /\ DOMAIN list = 1 .. n BY DEF AreOf
<1>2. PICK S : S = Range(list) OBVIOUS
<1>3. \A k \in 1 .. n : list[k] \in S BY <1>1, <1>2 DEF Range
<1>4. list \in Seq(S) BY <1>1, <1>3
<1>5. \A p \in S : p.group = group BY <1>1, <1>2 DEF Range, AreOf
<1> QED BY <1>2, <1>4, <1>5 DEF IsGroup

LEMMA DefaultsAreOfTheirGroup ==
    /\ Groups = {"pii", "financial", "credential", "health"}
    /\ \A group \in Groups : IsGroup(DefaultPatterns[group], group)
<1>1. Groups = {"pii", "financial", "credential", "health"} BY DEF Groups, DefaultPatterns
<1>2. IsGroup(DefaultPatterns.pii, "pii")
  <2>1. PICK list : list = DefaultPatterns.pii OBVIOUS
  <2>2. AreOf(list, 4, "pii") BY <2>1 DEF DefaultPatterns, Pattern, AreOf
  <2>3. 4 \in Nat OBVIOUS
  <2> QED BY <2>1, <2>2, <2>3, GroupIs
<1>3. IsGroup(DefaultPatterns.financial, "financial")
  <2>1. PICK list : list = DefaultPatterns.financial OBVIOUS
  <2>2. AreOf(list, 4, "financial") BY <2>1 DEF DefaultPatterns, Pattern, AreOf
  <2>3. 4 \in Nat OBVIOUS
  <2> QED BY <2>1, <2>2, <2>3, GroupIs
<1>4. IsGroup(DefaultPatterns.credential, "credential")
  <2>1. PICK list : list = DefaultPatterns.credential OBVIOUS
  <2>2. AreOf(list, 8, "credential") BY <2>1 DEF DefaultPatterns, Pattern, AreOf
  <2>3. 8 \in Nat OBVIOUS
  <2> QED BY <2>1, <2>2, <2>3, GroupIs
<1>5. IsGroup(DefaultPatterns.health, "health")
  <2>1. PICK list : list = DefaultPatterns.health OBVIOUS
  <2>2. AreOf(list, 3, "health") BY <2>1 DEF DefaultPatterns, Pattern, AreOf
  <2>3. 3 \in Nat OBVIOUS
  <2> QED BY <2>1, <2>2, <2>3, GroupIs
<1> QED BY <1>1, <1>2, <1>3, <1>4, <1>5

\* A configuration, by its fields.
IsConfig(config) ==
    /\ DOMAIN config = DOMAIN DlpSettings
    /\ \A k \in DOMAIN DlpSettings : config[k] \in DlpSettings[k]

LEMMA ConfigIs ==
    ASSUME NEW config, IsConfig(config)
    PROVE  /\ config.enabled \in BOOLEAN /\ config.shadow \in BOOLEAN
           /\ config.groups \subseteq Groups /\ config.custom \in Seq(AddablePatterns)
           /\ config.schemas \in (SUBSET Schemas) \cup {NoSchemas}
<1>1. DOMAIN DlpSettings = {"enabled", "shadow", "method", "groups", "custom", "schemas"}
      BY DEF DlpSettings
<1> QED BY <1>1 DEF IsConfig, DlpSettings

LEMMA DefaultIsConfig == IsConfig(DefaultDlpConfig)
<1>1. <<>> \in Seq(AddablePatterns) OBVIOUS
<1>2. PICK c : c = DefaultDlpConfig OBVIOUS
<1>3. /\ DOMAIN c = {"enabled", "shadow", "method", "groups", "custom", "schemas"}
      /\ c.enabled = TRUE /\ c.shadow = FALSE /\ c.method = "mask" /\ c.groups = Groups
      /\ c.custom = <<>> /\ c.schemas = NoSchemas
      BY <1>2 DEF DefaultDlpConfig
<1>4. DOMAIN DlpSettings = {"enabled", "shadow", "method", "groups", "custom", "schemas"}
      BY DEF DlpSettings
<1>5. c.custom \in DlpSettings.custom BY <1>1, <1>3 DEF DlpSettings
<1>6. c.enabled \in DlpSettings.enabled /\ c.shadow \in DlpSettings.shadow BY <1>3 DEF DlpSettings
<1>7. c.method \in DlpSettings.method BY <1>3 DEF DlpSettings
<1>8. c.groups \in DlpSettings.groups /\ c.schemas \in DlpSettings.schemas
  <2>1. /\ DlpSettings.groups = SUBSET Groups
        /\ DlpSettings.schemas = (SUBSET Schemas) \cup {NoSchemas}
        BY DEF DlpSettings
  <2>2. Groups \in SUBSET Groups OBVIOUS
  <2> QED BY <2>1, <2>2, <1>3
<1>9. \A k \in DOMAIN DlpSettings : c[k] \in DlpSettings[k] BY <1>4, <1>5, <1>6, <1>7, <1>8
<1> QED BY <1>2, <1>3, <1>4, <1>9 DEF IsConfig

LEMMA OverriddenIsConfig ==
    ASSUME NEW config, IsConfig(config), NEW change \in DlpConfigs
    PROVE  IsConfig(Overridden(config, change))
<1>1. PICK other : other = Overridden(config, change) OBVIOUS
<1>2. DOMAIN other = DOMAIN config BY <1>1 DEF Overridden
<1>3. ASSUME NEW k \in DOMAIN config PROVE other[k] \in DlpSettings[k]
  <2>1. k \in DOMAIN change => change[k] \in DlpSettings[k] BY DlpAssumption
  <2> QED BY <2>1, <1>1, <1>3 DEF Overridden, IsConfig
<1> QED BY <1>1, <1>2, <1>3 DEF IsConfig

\* What a configuration asks for of one group.
AskedOf(config, g) == IF g \in config.groups THEN DefaultPatterns[g] ELSE <<>>

LEMMA AskedIs ==
    ASSUME NEW config, NEW g \in Groups
    PROVE  /\ AskedOf(config, g) \in Seq(AllPatterns)
           /\ Range(AskedOf(config, g)) = IF g \in config.groups THEN DefaultsOf(g) ELSE {}
<1>1. IsGroup(DefaultPatterns[g], g) BY DefaultsAreOfTheirGroup
<1>2. DefaultsOf(g) \subseteq AllPatterns BY DefaultsAreOfTheirGroup DEF AllPatterns
<1>3. PICK list : list = DefaultPatterns[g] OBVIOUS
<1>4. PICK S : S = Range(list) OBVIOUS
<1>5. list \in Seq(S) /\ S \subseteq AllPatterns BY <1>1, <1>2, <1>3, <1>4 DEF IsGroup, DefaultsOf
<1>6. list \in Seq(AllPatterns) BY <1>5
<1>7. <<>> \in Seq(AllPatterns) OBVIOUS
<1>8. Range(<<>>) = {} BY DEF Range
<1> QED BY <1>3, <1>4, <1>6, <1>7, <1>8 DEF AskedOf, DefaultsOf

LEMMA PatternsForIs ==
    ASSUME NEW config, IsConfig(config)
    PROVE  /\ PatternsFor(config) \in Seq(AllPatterns)
           /\ \A group \in Groups : \A p \in DefaultsOf(group) :
                 p \in Range(PatternsFor(config)) <=> group \in config.groups
           /\ Range(config.custom) \subseteq Range(PatternsFor(config))
<1>1. PICK c : c = config.custom OBVIOUS
<1>2. c \in Seq(AddablePatterns) BY <1>1, ConfigIs
<1>3. c \in Seq(AllPatterns) BY <1>2 DEF AllPatterns
<1>4. Range(c) \subseteq AddablePatterns BY <1>2 DEF Range
<1>5. PICK w, x, y, z : /\ w = AskedOf(config, "pii") /\ x = AskedOf(config, "financial")
                        /\ y = AskedOf(config, "credential") /\ z = AskedOf(config, "health")
      OBVIOUS
<1>6. PatternsFor(config) = w \o x \o y \o z \o c BY <1>1, <1>5 DEF PatternsFor, AskedOf
<1>7. /\ w \in Seq(AllPatterns) /\ x \in Seq(AllPatterns)
      /\ y \in Seq(AllPatterns) /\ z \in Seq(AllPatterns)
      BY <1>5, AskedIs, DefaultsAreOfTheirGroup
<1>8. /\ Range(w) = IF "pii" \in config.groups THEN DefaultsOf("pii") ELSE {}
      /\ Range(x) = IF "financial" \in config.groups THEN DefaultsOf("financial") ELSE {}
      /\ Range(y) = IF "credential" \in config.groups THEN DefaultsOf("credential") ELSE {}
      /\ Range(z) = IF "health" \in config.groups THEN DefaultsOf("health") ELSE {}
      BY <1>5, AskedIs, DefaultsAreOfTheirGroup
<1>9. PICK wx : wx = w \o x OBVIOUS
<1>10. wx \in Seq(AllPatterns) /\ Range(wx) = Range(w) \cup Range(x) BY <1>7, <1>9, JoinTwo
<1>11. PICK wxy : wxy = wx \o y OBVIOUS
<1>12. wxy \in Seq(AllPatterns) /\ Range(wxy) = Range(wx) \cup Range(y)
       BY <1>7, <1>10, <1>11, JoinTwo
<1>13. PICK all : all = wxy \o z OBVIOUS
<1>14. all \in Seq(AllPatterns) /\ Range(all) = Range(wxy) \cup Range(z)
       BY <1>7, <1>12, <1>13, JoinTwo
<1>15. all \o c \in Seq(AllPatterns) /\ Range(all \o c) = Range(all) \cup Range(c)
       BY <1>3, <1>14, JoinTwo
<1>16. PICK t : t = PatternsFor(config) OBVIOUS
<1>17. t \in Seq(AllPatterns)
       /\ Range(t) = Range(w) \cup Range(x) \cup Range(y) \cup Range(z) \cup Range(c)
       BY <1>6, <1>9, <1>10, <1>11, <1>12, <1>13, <1>14, <1>15, <1>16
<1>18. ASSUME NEW group \in Groups, NEW p \in DefaultsOf(group)
       PROVE  /\ p.group = group /\ p \notin Range(c)
              /\ group \in {"pii", "financial", "credential", "health"}
  <2>1. p.group = group BY <1>18, DefaultsAreOfTheirGroup DEF IsGroup, DefaultsOf
  <2>2. p \notin Range(c) BY <1>4, <1>18, DlpAssumption
  <2> QED BY <2>1, <2>2, DefaultsAreOfTheirGroup
<1>19. ASSUME NEW group \in Groups, NEW p \in DefaultsOf(group)
       PROVE  p \in Range(t) <=> group \in config.groups
  <2>1. p.group = group /\ p \notin Range(c) BY <1>18
  <2>2. \A g \in {"pii", "financial", "credential", "health"} : p \in DefaultsOf(g) => g = group
        BY <2>1, <1>18, DefaultsAreOfTheirGroup
  <2>3. group \in {"pii", "financial", "credential", "health"} BY <1>18
  <2> QED BY <2>1, <2>2, <2>3, <1>8, <1>17
<1> QED BY <1>1, <1>16, <1>17, <1>19

\* A filter that is initialized looks for what its configuration asks for.
Follows(config, patterns) ==
    /\ \A group \in Groups : \A p \in DefaultsOf(group) :
          p \in Range(patterns) <=> group \in config.groups
    /\ Range(config.custom) \subseteq Range(patterns)

DlpInv ==
    /\ dlpInitialized \in BOOLEAN
    /\ dlpStats \in [scans : 0 .. MaxScans, findings : Nat, redactions : Nat]
    /\ dlpStats.redactions <= dlpStats.findings
    /\ IsConfig(dlpConfig) /\ dlpPatterns \in Seq(AllPatterns) /\ defaultSchemas \subseteq Schemas
    /\ dlpInitialized => Follows(dlpConfig, dlpPatterns)
    /\ lastScan # NoScan => ScanIsRight(lastScan)

LEMMA NoStatsIs == NoStats \in [scans : 0 .. MaxScans, findings : Nat, redactions : Nat]
BY DlpAssumption DEF NoStats

LEMMA DlpInitially == DlpInit => DlpInv
<1> SUFFICES ASSUME DlpInit PROVE DlpInv OBVIOUS
<1>1. <<>> \in Seq(AllPatterns) OBVIOUS
<1>2. NoStats.redactions <= NoStats.findings BY DEF NoStats
<1> QED BY <1>1, <1>2, NoStatsIs, DefaultIsConfig DEF DlpInit, DlpInv

LEMMA InitializeKeeps == DlpInv /\ InitializeDlp => DlpInv'
<1> SUFFICES ASSUME DlpInv, InitializeDlp PROVE DlpInv' OBVIOUS
<1>1. PICK t : t = PatternsFor(dlpConfig) OBVIOUS
<1>2. t \in Seq(AllPatterns) /\ Follows(dlpConfig, t) BY <1>1, PatternsForIs DEF DlpInv, Follows
<1>3. /\ dlpPatterns' = t /\ dlpInitialized' = TRUE /\ dlpConfig' = dlpConfig
      /\ defaultSchemas' = defaultSchemas /\ dlpStats' = dlpStats /\ lastScan' = lastScan
      BY <1>1 DEF InitializeDlp
<1> QED BY <1>2, <1>3 DEF DlpInv

LEMMA ReplaceKeeps ==
    ASSUME DlpInv, NEW change \in DlpConfigs, ReplaceDlpFilter(change) PROVE DlpInv'
<1>1. PICK config : config = Overridden(DefaultDlpConfig, change) OBVIOUS
<1>2. IsConfig(config) BY <1>1, DefaultIsConfig, OverriddenIsConfig
<1>3. PICK t : t = PatternsFor(config) OBVIOUS
<1>4. t \in Seq(AllPatterns) /\ Follows(config, t) BY <1>2, <1>3, PatternsForIs DEF Follows
<1>5. /\ dlpPatterns' = t /\ dlpInitialized' = TRUE /\ dlpConfig' = config
      /\ defaultSchemas' = defaultSchemas /\ dlpStats' = NoStats /\ lastScan' = NoScan
      BY <1>1, <1>3 DEF ReplaceDlpFilter
<1>6. NoStats.redactions <= NoStats.findings BY DEF NoStats
<1> QED BY <1>2, <1>4, <1>5, <1>6, NoStatsIs DEF DlpInv

LEMMA UpdateConfigKeeps ==
    ASSUME DlpInv, NEW change \in DlpConfigs, UpdateDlpConfig(change) PROVE DlpInv'
<1>1. PICK config : config = Overridden(dlpConfig, change) OBVIOUS
<1>2. IsConfig(config) BY <1>1, OverriddenIsConfig DEF DlpInv
<1>3. /\ dlpPatterns' = dlpPatterns /\ dlpInitialized' = FALSE /\ dlpConfig' = config
      /\ defaultSchemas' = defaultSchemas /\ dlpStats' = dlpStats /\ lastScan' = lastScan
      BY <1>1 DEF UpdateDlpConfig
<1> QED BY <1>2, <1>3 DEF DlpInv

LEMMA AddPatternKeeps ==
    ASSUME DlpInv, NEW p \in AddablePatterns, AddPattern(p) PROVE DlpInv'
<1>1. p \in AllPatterns BY DEF AllPatterns
<1>2. PICK t : t = Append(dlpPatterns, p) OBVIOUS
<1>3. t \in Seq(AllPatterns) /\ Range(t) = Range(dlpPatterns) \cup {p}
      BY <1>1, <1>2, AppendedRange DEF DlpInv
<1>4. \A group \in Groups : p \notin DefaultsOf(group) BY DlpAssumption
<1>5. dlpInitialized => Follows(dlpConfig, t) BY <1>3, <1>4 DEF DlpInv, Follows
<1>6. /\ dlpPatterns' = t /\ dlpInitialized' = dlpInitialized /\ dlpConfig' = dlpConfig
      /\ defaultSchemas' = defaultSchemas /\ dlpStats' = dlpStats /\ lastScan' = lastScan
      BY <1>2 DEF AddPattern
<1> QED BY <1>3, <1>5, <1>6 DEF DlpInv

LEMMA AddSchemaKeeps ==
    ASSUME DlpInv, NEW s \in Schemas, AddSchema(s) PROVE DlpInv'
<1>1. /\ dlpPatterns' = dlpPatterns /\ dlpInitialized' = dlpInitialized /\ dlpStats' = dlpStats
      /\ lastScan' = lastScan
      BY DEF AddSchema
<1>2. CASE dlpConfig.schemas = NoSchemas
  <2>1. defaultSchemas' = defaultSchemas \cup {s} /\ dlpConfig' = dlpConfig BY <1>2 DEF AddSchema
  <2> QED BY <2>1, <1>1 DEF DlpInv
<1>3. CASE dlpConfig.schemas # NoSchemas
  <2>1. PICK config : config = [dlpConfig EXCEPT !.schemas = @ \cup {s}] OBVIOUS
  <2>2. dlpConfig' = config /\ defaultSchemas' = defaultSchemas BY <2>1, <1>3 DEF AddSchema
  <2>3. DOMAIN dlpConfig = {"enabled", "shadow", "method", "groups", "custom", "schemas"}
        BY DEF DlpInv, IsConfig, DlpSettings
  <2>4. /\ DOMAIN config = DOMAIN dlpConfig /\ config.schemas = dlpConfig.schemas \cup {s}
        /\ \A k \in DOMAIN dlpConfig : k # "schemas" => config[k] = dlpConfig[k]
        BY <2>1, <2>3
  <2>5. dlpConfig.schemas \in SUBSET Schemas BY <1>3, ConfigIs DEF DlpInv
  <2>6. config.schemas \in SUBSET Schemas BY <2>4, <2>5
  <2>7. DlpSettings.schemas = (SUBSET Schemas) \cup {NoSchemas} BY DEF DlpSettings
  <2>8. config.schemas \in DlpSettings.schemas BY <2>6, <2>7
  <2>9. \A k \in DOMAIN dlpConfig : config[k] \in DlpSettings[k]
        BY <2>4, <2>8 DEF DlpInv, IsConfig
  <2>10. IsConfig(config) BY <2>4, <2>9 DEF DlpInv, IsConfig
  <2>11. config.groups = dlpConfig.groups /\ config.custom = dlpConfig.custom BY <2>3, <2>4
  <2>12. dlpInitialized => Follows(config, dlpPatterns) BY <2>11 DEF DlpInv, Follows
  <2> QED BY <2>2, <2>10, <2>12, <1>1 DEF DlpInv
<1> QED BY <1>2, <1>3

LEMMA ResetKeeps == DlpInv /\ ResetStats => DlpInv'
<1> SUFFICES ASSUME DlpInv, ResetStats PROVE DlpInv' OBVIOUS
<1>1. /\ dlpPatterns' = dlpPatterns /\ dlpInitialized' = dlpInitialized /\ dlpConfig' = dlpConfig
      /\ defaultSchemas' = defaultSchemas /\ dlpStats' = NoStats /\ lastScan' = lastScan
      BY DEF ResetStats
<1>2. NoStats.redactions <= NoStats.findings BY DEF NoStats
<1> QED BY <1>1, <1>2, NoStatsIs DEF DlpInv

\* Where in a document something was found: its leaf and the place in the list of that one.
PlacesFound(scans) == UNION {{k} \X DOMAIN scans[k].findings : k \in DOMAIN scans}

LEMMA PlacesFoundAre ==
    ASSUME NEW scans, IsFiniteSet(DOMAIN scans),
           \A k \in DOMAIN scans : \E n \in Nat : DOMAIN scans[k].findings = 1 .. n
    PROVE  /\ IsFiniteSet(PlacesFound(scans))
           /\ \A k \in DOMAIN scans : \A i \in DOMAIN scans[k].findings :
                 <<k, i>> \in PlacesFound(scans)
           /\ \A ki \in PlacesFound(scans) :
                 ki[1] \in DOMAIN scans /\ ki[2] \in DOMAIN scans[ki[1]].findings
<1>1. PICK D : D = DOMAIN scans OBVIOUS
<1>2. PICK F : F = [k \in D |-> {k} \X DOMAIN scans[k].findings] OBVIOUS
<1>3. PICK S : S = {F[k] : k \in D} OBVIOUS
<1>4. PlacesFound(scans) = UNION S BY <1>1, <1>2, <1>3 DEF PlacesFound
<1>5. IsFiniteSet(S)
  <2>1. F \in [D -> {F[k] : k \in D}] BY <1>2
  <2> QED BY <2>1, <1>1, <1>3, ImageIsFinite
<1>6. ASSUME NEW T \in S PROVE IsFiniteSet(T)
  <2>1. PICK k \in D : T = {k} \X DOMAIN scans[k].findings BY <1>2, <1>3
  <2>2. PICK n \in Nat : DOMAIN scans[k].findings = 1 .. n BY <1>1
  <2>3. IsFiniteSet({k}) BY FS_Singleton
  <2>4. IsFiniteSet(1 .. n) BY FS_Interval
  <2>5. IsFiniteSet({k} \X (1 .. n)) BY <2>3, <2>4, FS_Product
  <2> QED BY <2>1, <2>2, <2>5
<1>7. IsFiniteSet(UNION S) BY <1>5, <1>6, FS_UNION
<1>8. ASSUME NEW k \in D, NEW i \in DOMAIN scans[k].findings
      PROVE  <<k, i>> \in UNION S
  <2>1. <<k, i>> \in F[k] BY <1>2
  <2> QED BY <2>1, <1>3
<1>9. ASSUME NEW ki \in UNION S
      PROVE  ki[1] \in D /\ ki[2] \in DOMAIN scans[ki[1]].findings
  <2>1. PICK k \in D : ki \in {k} \X DOMAIN scans[k].findings BY <1>2, <1>3
  <2> QED BY <2>1
<1> QED BY <1>1, <1>4, <1>7, <1>8, <1>9

LEMMA NamedAreCounted ==
    ASSUME DlpInv, NEW document \in Documents PROVE SchemaFindings(document) \in Nat
<1>1. PICK S : S = SchemasOf(dlpConfig) OBVIOUS
<1>2. S \subseteq Schemas BY <1>1, ConfigIs DEF SchemasOf, DlpInv
<1>3. IsFiniteSet(S) BY <1>2, DlpAssumption, FS_Subset
<1>4. PICK D : D = DOMAIN document.leaves OBVIOUS
<1>5. IsFiniteSet(D) BY <1>4, DlpAssumption
<1>6. IsFiniteSet(S \X D) BY <1>3, <1>5, FS_Product
<1>7. PICK T : T = {sk \in S \X D : sk[2] \in sk[1]} OBVIOUS
<1>8. Cardinality(T) \in Nat BY <1>6, <1>7, FS_Subset, FS_CardinalityType
<1> QED BY <1>1, <1>4, <1>7, <1>8 DEF SchemaFindings

\* What a filter makes of a document, where it is enabled.
ScansOf(document, trusted) ==
    [k \in DOMAIN document.leaves |-> ScanLeaf(document.leaves[k], trusted)]

ActedIn(scans, action) ==
    {ki \in PlacesFound(scans) : scans[ki[1]].findings[ki[2]].action = action}

LEMMA ScansAre ==
    ASSUME DlpInv, NEW document \in Documents, NEW trusted, NEW scans,
           scans = ScansOf(document, trusted)
    PROVE  /\ DOMAIN scans = DOMAIN document.leaves /\ IsFiniteSet(DOMAIN scans)
           /\ \A k \in DOMAIN scans :
                 IsScan(document.leaves[k], scans[k], dlpConfig.method, dlpConfig.shadow)
<1>1. DOMAIN scans = DOMAIN document.leaves BY DEF ScansOf
<1>2. IsFiniteSet(DOMAIN scans) BY <1>1, DlpAssumption
<1>3. ASSUME NEW k \in DOMAIN scans
      PROVE  IsScan(document.leaves[k], scans[k], dlpConfig.method, dlpConfig.shadow)
  <2>1. PICK leaf : leaf = document.leaves[k] OBVIOUS
  <2>2. IsLeaf(leaf) BY <2>1, <1>1, DlpAssumption DEF IsLeaf
  <2>3. dlpConfig.shadow \in BOOLEAN /\ dlpPatterns \in Seq(AllPatterns) BY ConfigIs DEF DlpInv
  <2>4. IsScan(leaf, ScanLeaf(leaf, trusted), dlpConfig.method, dlpConfig.shadow)
        BY <2>2, <2>3, LeafIsScanned
  <2>5. scans[k] = ScanLeaf(leaf, trusted) BY <2>1, <1>1 DEF ScansOf
  <2> QED BY <2>1, <2>4, <2>5
<1> QED BY <1>1, <1>2, <1>3

LEMMA FilterIs ==
    ASSUME NEW document, NEW trusted, Filter(document, trusted), dlpConfig.enabled
    PROVE  \E scans :
              /\ scans = ScansOf(document, trusted)
              /\ lastScan' = [document |-> document, scans |-> scans, method |-> dlpConfig.method,
                              shadow |-> dlpConfig.shadow,
                              blocked |-> ActedIn(scans, "blocked") # {}]
              /\ dlpStats' =
                    [scans |-> dlpStats.scans + 1,
                     findings |-> dlpStats.findings + Cardinality(PlacesFound(scans))
                                      + SchemaFindings(document),
                     redactions |-> dlpStats.redactions + Cardinality(ActedIn(scans, "redacted"))
                                      + (IF dlpConfig.shadow THEN 0 ELSE SchemaFindings(document))]
BY DEF Filter, ScansOf, ActedIn, PlacesFound

LEMMA FilterKeeps ==
    ASSUME DlpInv, NEW document \in Documents, NEW trusted, Filter(document, trusted)
    PROVE  DlpInv'
<1>1. /\ dlpConfig' = dlpConfig /\ defaultSchemas' = defaultSchemas /\ dlpPatterns' = dlpPatterns
      /\ dlpInitialized' = dlpInitialized
      BY DEF Filter
<1>2. PICK t \in [scans : 0 .. MaxScans, findings : Nat, redactions : Nat] : t = dlpStats
      BY DEF DlpInv
<1>3. /\ t.scans \in Nat /\ t.scans < MaxScans /\ t.findings \in Nat /\ t.redactions \in Nat
      /\ t.redactions <= t.findings
      BY <1>2 DEF DlpInv, Filter
<1>4. MaxScans \in Nat BY DlpAssumption
<1>5. CASE ~dlpConfig.enabled
  <2>1. lastScan' = NoScan /\ dlpStats' = [t EXCEPT !.scans = @ + 1] BY <1>2, <1>5 DEF Filter
  <2>2. PICK u : u = [t EXCEPT !.scans = @ + 1] OBVIOUS
  <2>3. /\ u \in [scans : 0 .. MaxScans, findings : Nat, redactions : Nat]
        /\ u.redactions <= u.findings
        BY <2>2, <1>2, <1>3, <1>4
  <2> QED BY <2>1, <2>2, <2>3, <1>1 DEF DlpInv
<1>6. CASE dlpConfig.enabled
  <2>1. PICK scans : /\ scans = ScansOf(document, trusted)
                     /\ lastScan' = [document |-> document, scans |-> scans,
                                     method |-> dlpConfig.method, shadow |-> dlpConfig.shadow,
                                     blocked |-> ActedIn(scans, "blocked") # {}]
                     /\ dlpStats' =
                           [scans |-> dlpStats.scans + 1,
                            findings |-> dlpStats.findings + Cardinality(PlacesFound(scans))
                                             + SchemaFindings(document),
                            redactions |-> dlpStats.redactions
                                             + Cardinality(ActedIn(scans, "redacted"))
                                             + (IF dlpConfig.shadow THEN 0
                                                ELSE SchemaFindings(document))]
        BY <1>6, FilterIs
  <2>2. /\ DOMAIN scans = DOMAIN document.leaves /\ IsFiniteSet(DOMAIN scans)
        /\ \A k \in DOMAIN scans :
              IsScan(document.leaves[k], scans[k], dlpConfig.method, dlpConfig.shadow)
        BY <2>1, ScansAre
  <2>3. \A k \in DOMAIN scans : \E n \in Nat : DOMAIN scans[k].findings = 1 .. n
        BY <2>2 DEF IsScan
  <2>4. /\ IsFiniteSet(PlacesFound(scans))
        /\ \A k \in DOMAIN scans : \A i \in DOMAIN scans[k].findings :
              <<k, i>> \in PlacesFound(scans)
        /\ \A ki \in PlacesFound(scans) :
              ki[1] \in DOMAIN scans /\ ki[2] \in DOMAIN scans[ki[1]].findings
        BY <2>2, <2>3, PlacesFoundAre
  <2>5. PICK n \in Nat : n = SchemaFindings(document) BY NamedAreCounted
  <2>6. PICK a \in Nat, r \in Nat : /\ a = Cardinality(PlacesFound(scans))
                                    /\ r = Cardinality(ActedIn(scans, "redacted")) /\ r <= a
    <3>1. ActedIn(scans, "redacted") \in SUBSET PlacesFound(scans) BY DEF ActedIn
    <3> QED BY <3>1, <2>4, FS_Subset, FS_CardinalityType
  <2>7. PICK u : u = dlpStats' OBVIOUS
  <2>8. u = [scans |-> t.scans + 1, findings |-> t.findings + a + n,
             redactions |-> t.redactions + r + (IF dlpConfig.shadow THEN 0 ELSE n)]
        BY <2>1, <2>5, <2>6, <2>7, <1>2
  <2>9. /\ u \in [scans : 0 .. MaxScans, findings : Nat, redactions : Nat]
        /\ u.redactions <= u.findings
        BY <2>6, <2>8, <1>3, <1>4
  <2>10. PICK last : last = lastScan' OBVIOUS
  <2>11. /\ last.document = document /\ last.scans = scans /\ last.method = dlpConfig.method
         /\ last.shadow = dlpConfig.shadow
         /\ last.blocked <=> ActedIn(scans, "blocked") # {}
         BY <2>1, <2>10
  <2>12. \A k \in DOMAIN scans : \A f \in Range(scans[k].findings) :
            f.action = "allowed" <=> dlpConfig.shadow
         BY <2>2 DEF IsScan
  <2>13. ASSUME dlpConfig.shadow PROVE ActedIn(scans, "blocked") = {}
    <3> SUFFICES ASSUME NEW ki \in ActedIn(scans, "blocked") PROVE FALSE OBVIOUS
    <3>1. /\ ki \in PlacesFound(scans) /\ scans[ki[1]].findings[ki[2]].action = "blocked"
          BY DEF ActedIn
    <3>2. ki[1] \in DOMAIN scans /\ ki[2] \in DOMAIN scans[ki[1]].findings BY <3>1, <2>4
    <3>3. scans[ki[1]].findings[ki[2]] \in Range(scans[ki[1]].findings) BY <3>2 DEF Range
    <3>4. scans[ki[1]].findings[ki[2]].action = "allowed" BY <3>2, <3>3, <2>12, <2>13
    <3> QED BY <3>1, <3>4
  <2>14. ASSUME NEW k \in DOMAIN scans, NEW f \in Range(scans[k].findings), f.action = "blocked"
         PROVE  ActedIn(scans, "blocked") # {}
    <3>1. PICK i \in DOMAIN scans[k].findings : f = scans[k].findings[i] BY DEF Range
    <3>2. <<k, i>> \in PlacesFound(scans) BY <2>4
    <3>3. <<k, i>> \in ActedIn(scans, "blocked") BY <3>1, <3>2, <2>14 DEF ActedIn
    <3> QED BY <3>3
  <2>15. ScanIsRight(last) BY <2>2, <2>11, <2>13, <2>14 DEF ScanIsRight
  <2> QED BY <2>7, <2>9, <2>10, <2>15, <1>1 DEF DlpInv
<1> QED BY <1>5, <1>6

LEMMA DlpStep == DlpInv /\ [DlpNext]_dlpVars => DlpInv'
<1> SUFFICES ASSUME DlpInv, [DlpNext]_dlpVars PROVE DlpInv' OBVIOUS
<1>1. CASE InitializeDlp BY <1>1, InitializeKeeps
<1>2. CASE ResetStats BY <1>2, ResetKeeps
<1>3. ASSUME NEW change \in DlpConfigs, ReplaceDlpFilter(change) PROVE DlpInv'
      BY <1>3, ReplaceKeeps
<1>4. ASSUME NEW change \in DlpConfigs, UpdateDlpConfig(change) PROVE DlpInv'
      BY <1>4, UpdateConfigKeeps
<1>5. ASSUME NEW p \in AddablePatterns, AddPattern(p) PROVE DlpInv' BY <1>5, AddPatternKeeps
<1>6. ASSUME NEW s \in Schemas, AddSchema(s) PROVE DlpInv' BY <1>6, AddSchemaKeeps
<1>7. ASSUME NEW document \in Documents, NEW trusted \in BOOLEAN, Filter(document, trusted)
      PROVE  DlpInv'
      BY <1>7, FilterKeeps
<1>8. CASE UNCHANGED dlpVars BY <1>8 DEF dlpVars, DlpInv
<1> QED BY <1>1, <1>2, <1>3, <1>4, <1>5, <1>6, <1>7, <1>8 DEF DlpNext

LEMMA DlpAlways == DlpSpec => []DlpInv
BY DlpInitially, DlpStep, PTL DEF DlpSpec

LEMMA DlpFollows ==
    DlpInv => DlpTypeOK /\ RedactedIsGone /\ VerdictIsOfTheScan /\ PatternsFollowConfig
<1> SUFFICES ASSUME DlpInv
             PROVE  DlpTypeOK /\ RedactedIsGone /\ VerdictIsOfTheScan /\ PatternsFollowConfig
    OBVIOUS
<1>1. DlpTypeOK BY DEF DlpInv, DlpTypeOK, IsConfig
<1>2. PatternsFollowConfig BY DEF DlpInv, PatternsFollowConfig, Follows
<1>3. VerdictIsOfTheScan BY DEF DlpInv, VerdictIsOfTheScan, ScanIsRight, IsScan
<1>4. ASSUME lastScan # NoScan, NEW k \in DOMAIN lastScan.scans, OffsetsHold(lastScan.scans[k])
      PROVE  /\ Range(lastScan.scans[k].text) \ {Star}
                    = RestOf(lastScan.document.leaves[k], lastScan.scans[k])
             /\ Ascending(lastScan.scans[k].text)
  <2>1. PICK scan, leaf : scan = lastScan.scans[k] /\ leaf = lastScan.document.leaves[k] OBVIOUS
  <2>2. IsScan(leaf, scan, lastScan.method, lastScan.shadow)
        BY <2>1, <1>4 DEF DlpInv, ScanIsRight
  <2>3. OneCuts(scan) \/ (lastScan.method = "mask" /\ MasksFit(scan))
        BY <2>1, <1>4 DEF OffsetsHold, OneCuts, MasksFit
  <2> QED BY <2>1, <2>2, <2>3 DEF IsScan
<1>5. RedactedIsGone BY <1>4 DEF RedactedIsGone, RestOf
<1> QED BY <1>1, <1>2, <1>3, <1>5

\* Whatever is filtered, under whatever configurations and patterns, as they are changed one
\* after the other: where offsets hold, what is reported as redacted is gone and all the rest is
\* there in its order; a scan says that it blocks when it does; and a filter that is initialized
\* looks for what its configuration asks for (DLPFilter).
THEOREM RedactedStaysGone ==
    DlpSpec => [](RedactedIsGone /\ VerdictIsOfTheScan /\ PatternsFollowConfig)
BY DlpFollows, DlpAlways, PTL
=============================================================================
