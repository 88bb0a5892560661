------------------------- MODULE CalculationProofs --------------------------
(***************************************************************************)
(* Lemmas the theorems about the endpoints rest on: what filters, sorts,   *)
(* folds and loops do to sets and sequences of any size, and what the      *)
(* back-test of the losses, the fit of the curves, the frontier of the     *)
(* funds and the convex hulls of the model tracks compute from them.       *)
(***************************************************************************)
EXTENDS ModelTracks, LossApi, FundApi, TLAPS, FiniteSetTheorems, SequenceTheorems

(***************************************************************************)
(* Induction over sets of numbers and over finite sets. The theorems of    *)
(* the library take a predicate; these take the set it stands for.         *)
(***************************************************************************)
\* A non-empty set of natural numbers has a least element.
LEMMA LeastElement ==
  ASSUME NEW T \in SUBSET Nat, T # {}
  PROVE  \E n \in T : \A m \in T : n <= m
<1> DEFINE R == OpToRel(<, Nat)
<1>1. IsWellFoundedOn(R, Nat)
  BY NatLessThanWellFounded
<1>2. \A i, j \in Nat : i < j => <<i, j>> \in R
  BY DEF OpToRel
<1> HIDE DEF R
<1>3. PICK n \in T : \A m \in T : ~ (<<m, n>> \in R)
  BY <1>1, WFMin, Zenon
<1>4. \A m \in T : n \in Nat /\ m \in Nat /\ ~ (m < n)
  BY <1>2, <1>3
<1>5. \A m \in T : n <= m
  BY <1>4
<1> QED
  BY <1>3, <1>5

\* A set that holds 0 and the successor of each of its members holds every
\* natural number.
LEMMA InductionOnNat ==
  ASSUME NEW S, 0 \in S, \A n \in Nat : n \in S => n + 1 \in S
  PROVE  \A n \in Nat : n \in S
<1>1. SUFFICES ASSUME Nat \ S # {} PROVE FALSE
  OBVIOUS
<1>2. PICK n \in Nat \ S : \A m \in Nat \ S : n <= m
  BY <1>1, LeastElement
<1>3. n # 0 /\ n - 1 \in Nat
  BY <1>2
<1>4. n - 1 \in S
  BY <1>2, <1>3
<1> QED
  BY <1>2, <1>3, <1>4

\* A family that holds the empty set, and a set with one more member of S with
\* each of its own, holds S when S is finite.
LEMMA FiniteInduction ==
  ASSUME NEW S, IsFiniteSet(S), NEW C, {} \in C,
         \A T \in SUBSET S : \A x \in S : T \in C /\ x \notin T => T \cup {x} \in C
  PROVE  S \in C
<1> DEFINE N == {n \in Nat : \A T \in SUBSET S : Cardinality(T) = n => T \in C}
<1>1. \A T \in SUBSET S : IsFiniteSet(T) /\ Cardinality(T) \in Nat
  BY FS_Subset, FS_CardinalityType
<1>2. 0 \in N
  BY <1>1, FS_EmptySet
<1>3. ASSUME NEW n \in Nat, n \in N PROVE n + 1 \in N
  <2>1. SUFFICES ASSUME NEW T \in SUBSET S, Cardinality(T) = n + 1 PROVE T \in C
    OBVIOUS
  <2>2. PICK x : x \in T
    BY <1>1, <2>1, FS_EmptySet
  <2>3. Cardinality(T \ {x}) = n
    <3>1. IsFiniteSet(T)
      BY <1>1
    <3>2. Cardinality(T \ {x}) = Cardinality(T) - 1
      BY <2>2, <3>1, FS_RemoveElement
    <3> QED
      BY <2>1, <3>2
  <2>4. T \ {x} \in C
    BY <1>3, <2>3
  <2>5. (T \ {x}) \cup {x} = T
    BY <2>2
  <2> QED
    BY <2>2, <2>4, <2>5
<1>4. \A n \in Nat : n \in N
  <2> HIDE DEF N
  <2> QED
    BY <1>2, <1>3, InductionOnNat
<1> QED
  BY <1>1, <1>4

(***************************************************************************)
(* The least and the greatest of a finite set of integers.                 *)
(***************************************************************************)
LEMMA MinOfFinite ==
  ASSUME NEW S \in SUBSET Int, IsFiniteSet(S), S # {}
  PROVE  Min(S) \in S /\ \A y \in S : Min(S) <= y
<1> DEFINE C == {T \in SUBSET S : T = {} \/ \E m \in T : \A y \in T : m <= y}
<1>1. {} \in C
  OBVIOUS
<1>2. ASSUME NEW T \in SUBSET S, NEW x \in S, T \in C, x \notin T PROVE T \cup {x} \in C
  <2>1. CASE T = {}
    BY <2>1
  <2>2. CASE T # {}
    <3>1. PICK m \in T : \A y \in T : m <= y
      BY <1>2, <2>2
    <3>2. CASE m <= x
      BY <3>1, <3>2
    <3>3. CASE ~ (m <= x)
      <4>1. \A y \in T \cup {x} : x <= y
        BY <3>1, <3>3
      <4> QED
        BY <4>1
    <3> QED
      BY <3>2, <3>3
  <2> QED
    BY <2>1, <2>2
<1>3. S \in C
  <2> HIDE DEF C
  <2> QED
    BY <1>1, <1>2, FiniteInduction
<1> QED
  BY <1>3 DEF Min

LEMMA MaxOfFinite ==
  ASSUME NEW S \in SUBSET Int, IsFiniteSet(S), S # {}
  PROVE  Max(S) \in S /\ \A y \in S : y <= Max(S)
<1> DEFINE C == {T \in SUBSET S : T = {} \/ \E m \in T : \A y \in T : y <= m}
<1>1. {} \in C
  OBVIOUS
<1>2. ASSUME NEW T \in SUBSET S, NEW x \in S, T \in C, x \notin T PROVE T \cup {x} \in C
  <2>1. CASE T = {}
    BY <2>1
  <2>2. CASE T # {}
    <3>1. PICK m \in T : \A y \in T : y <= m
      BY <1>2, <2>2
    <3>2. CASE x <= m
      BY <3>1, <3>2
    <3>3. CASE ~ (x <= m)
      <4>1. \A y \in T \cup {x} : y <= x
        BY <3>1, <3>3
      <4> QED
        BY <4>1
    <3> QED
      BY <3>2, <3>3
  <2> QED
    BY <2>1, <2>2
<1>3. S \in C
  <2> HIDE DEF C
  <2> QED
    BY <1>1, <1>2, FiniteInduction
<1> QED
  BY <1>3 DEF Max

(***************************************************************************)
(* Sequences.                                                              *)
(***************************************************************************)
\* A concatenation has what its parts have.
LEMMA RangeOfConcat ==
  ASSUME NEW S, NEW s \in Seq(S), NEW t \in Seq(S)
  PROVE  s \o t \in Seq(S) /\ Range(s \o t) = Range(s) \cup Range(t)
<1>1. /\ s \o t \in Seq(S) /\ Len(s \o t) = Len(s) + Len(t)
      /\ \A i \in 1..(Len(s) + Len(t)) : (s \o t)[i] = IF i <= Len(s) THEN s[i] ELSE t[i - Len(s)]
  BY ConcatProperties
<1>2. Len(s) \in Nat /\ Len(t) \in Nat /\ DOMAIN s = 1..Len(s) /\ DOMAIN t = 1..Len(t)
      /\ DOMAIN (s \o t) = 1..(Len(s) + Len(t))
  BY <1>1, LenProperties
<1> DEFINE u == s \o t
<1> HIDE DEF u
<1>3. \A i \in DOMAIN s : i \in DOMAIN u /\ u[i] = s[i]
  BY <1>1, <1>2 DEF u
<1>4. \A i \in DOMAIN t : Len(s) + i \in DOMAIN u /\ u[Len(s) + i] = t[i]
  BY <1>1, <1>2 DEF u
<1>5. \A i \in DOMAIN u : IF i <= Len(s) THEN i \in DOMAIN s /\ u[i] = s[i]
                          ELSE i - Len(s) \in DOMAIN t /\ u[i] = t[i - Len(s)]
  BY <1>1, <1>2 DEF u
<1>6. Range(s) \subseteq Range(u) /\ Range(t) \subseteq Range(u)
  BY <1>3, <1>4 DEF Range
<1>7. Range(u) \subseteq Range(s) \cup Range(t)
  BY <1>5 DEF Range
<1> QED
  BY <1>1, <1>6, <1>7 DEF u

\* Lists of at most one member.
LEMMA OneOrNone ==
  ASSUME NEW S, NEW x \in S
  PROVE  /\ <<x>> \in Seq(S) /\ Range(<<x>>) = {x}
         /\ <<>> \in Seq(S) /\ Range(<<>>) = {}
<1> DEFINE s == <<x>>
<1>1. DOMAIN s = 1..1 /\ s[1] = x
  OBVIOUS
<1>2. Range(s) = {x}
  <2> HIDE DEF s
  <2> QED
    BY <1>1 DEF Range
<1>4. DOMAIN <<>> = {}
  <2>1. <<>> \in Seq(S) /\ Len(<<>>) = 0
    BY EmptySeq
  <2>2. DOMAIN <<>> = 1..0
    BY <2>1, LenProperties
  <2> QED
    BY <2>2
<1>5. Range(<<>>) = {}
  BY <1>4, Zenon DEF Range
<1>6. <<x>> \in Seq(S) /\ <<>> \in Seq(S)
  OBVIOUS
<1> QED
  BY <1>2, <1>5, <1>6, Zenon

\* The members of a sequence belong to what it is a sequence of.
LEMMA RangeInType ==
  ASSUME NEW S, NEW s \in Seq(S)
  PROVE  Range(s) \subseteq S /\ Range(s) = {s[i] : i \in 1..Len(s)} /\ DOMAIN s = 1..Len(s) /\ Len(s) \in Nat
<1>1. DOMAIN s = 1..Len(s) /\ Len(s) \in Nat /\ \A i \in 1..Len(s) : s[i] \in S
  BY LenProperties, ElementOfSeq
<1> QED
  BY <1>1 DEF Range

\* A sequence of sequences is flattened by joining one after the other.
LEMMA FlattenSteps ==
  ASSUME NEW S, NEW ss \in Seq(S), Len(ss) # 0
  PROVE  \E h : /\ FlattenSeq(ss) = h[Len(ss)]
               /\ \A i \in 1..Len(ss) : h[i] = IF i = 1 THEN ss[i] ELSE h[i - 1] \o ss[i]
<1> DEFINE n == Len(ss)
           Step(f, i) == IF i = 1 THEN ss[i] ELSE f[i - 1] \o ss[i]
           flatten[i \in 1..n] == IF i = 1 THEN ss[i] ELSE flatten[i - 1] \o ss[i]
           E == {m \in Nat : \E f : f = [i \in 1..m |-> Step(f, i)]}
<1>1. FlattenSeq(ss) = flatten[n]
  BY DEF FlattenSeq, n
<1>0. n \in Nat
  BY LenProperties
<1> HIDE DEF n
<1>2. \A m \in Nat : m \in E
  <2>1. 0 \in E
    <3>1. [i \in 1..0 |-> 0] = [i \in 1..0 |-> Step([j \in 1..0 |-> 0], i)]
      OBVIOUS
    <3> QED
      BY <3>1
  <2>2. ASSUME NEW m \in Nat, m \in E PROVE m + 1 \in E
    <3>1. PICK f : f = [i \in 1..m |-> Step(f, i)]
      BY <2>2
    <3> DEFINE g == [i \in 1..(m + 1) |-> IF i = m + 1 THEN Step(f, i) ELSE f[i]]
    <3>2. \A i \in 1..(m + 1) : g[i] = Step(g, i)
      <4> SUFFICES ASSUME NEW i \in 1..(m + 1) PROVE g[i] = Step(g, i)
        OBVIOUS
      <4>1. i # 1 => i - 1 \in 1..m /\ g[i - 1] = f[i - 1]
        OBVIOUS
      <4>2. Step(g, i) = Step(f, i)
        BY <4>1
      <4>3. i \in 1..m => f[i] = Step(f, i)
        BY <3>1
      <4> QED
        BY <4>2, <4>3
    <3>3. g = [i \in 1..(m + 1) |-> Step(g, i)]
      <4> HIDE DEF Step
      <4> QED
        BY <3>2
    <3>4. \E h : h = [i \in 1..(m + 1) |-> Step(h, i)]
      <4> HIDE DEF g, Step
      <4> QED
        BY <3>3, Zenon
    <3>5. m + 1 \in Nat
      OBVIOUS
    <3> QED
      BY <3>4, <3>5, Zenon
  <2> HIDE DEF E
  <2> QED
    BY <2>1, <2>2, InductionOnNat
<1>3. flatten = [i \in 1..n |-> IF i = 1 THEN ss[i] ELSE flatten[i - 1] \o ss[i]]
  <2>1. \E f : f = [i \in 1..n |-> IF i = 1 THEN ss[i] ELSE f[i - 1] \o ss[i]]
    BY <1>0, <1>2
  <2> QED
    BY <2>1, Zenon
<1> HIDE DEF flatten
<1>4. \A i \in 1..n : flatten[i] = IF i = 1 THEN ss[i] ELSE flatten[i - 1] \o ss[i]
  BY <1>3
<1> QED
  BY <1>1, <1>4 DEF n

\* A flattened sequence has what its parts have.
LEMMA FlattenedRange ==
  ASSUME NEW S, NEW ss \in Seq(Seq(S))
  PROVE  /\ FlattenSeq(ss) \in Seq(S)
         /\ Range(FlattenSeq(ss)) = {x \in S : \E i \in DOMAIN ss : x \in Range(ss[i])}
<1> DEFINE n == Len(ss)
<1>1. n \in Nat /\ DOMAIN ss = 1..n /\ \A i \in 1..n : ss[i] \in Seq(S)
  BY LenProperties, ElementOfSeq
<1>2. CASE n = 0
  <2>1. ss = <<>>
    BY <1>2
  <2>2. FlattenSeq(ss) = ss /\ DOMAIN ss = {} /\ ss \in Seq(S)
    BY <1>1, <1>2, <2>1, EmptySeq DEF FlattenSeq
  <2> QED
    BY <2>2 DEF Range
<1>3. CASE n # 0
  <2>1. PICK flatten : /\ FlattenSeq(ss) = flatten[n]
                       /\ \A i \in 1..n : flatten[i] = IF i = 1 THEN ss[i] ELSE flatten[i - 1] \o ss[i]
    BY <1>3, FlattenSteps
  <2> HIDE DEF n
  <2>2. \A i \in 1..n : flatten[i] = IF i = 1 THEN ss[i] ELSE flatten[i - 1] \o ss[i]
    BY <2>1
  <2> DEFINE P == {m \in Nat : m \in 1..n => /\ flatten[m] \in Seq(S)
                                             /\ \A x : x \in Range(flatten[m]) <=> \E i \in 1..m : x \in Range(ss[i])}
  <2>3. \A m \in Nat : m \in P
    <3>1. 0 \in P
      OBVIOUS
    <3>2. ASSUME NEW m \in Nat, m \in P PROVE m + 1 \in P
            <4>0. m + 1 \in Nat
        OBVIOUS
      <4> SUFFICES ASSUME m + 1 \in 1..n
                   PROVE  /\ flatten[m + 1] \in Seq(S)
                          /\ \A x : x \in Range(flatten[m + 1]) <=> \E i \in 1..(m + 1) : x \in Range(ss[i])
        BY <4>0
      <4>1. CASE m = 0
        <5>1. flatten[m + 1] = ss[1] /\ 1 \in 1..n
          BY <2>2, <4>1
        <5> QED
          BY <1>1, <4>1, <5>1
      <4>2. CASE m # 0
        <5>0. m \in 1..n /\ m + 1 # 1 /\ (m + 1) - 1 = m
          BY <1>1, <4>2
        <5>1. flatten[m + 1] = flatten[m] \o ss[m + 1] /\ m \in 1..n
          BY <2>2, <5>0
        <5>2. flatten[m] \in Seq(S) /\ ss[m + 1] \in Seq(S)
          BY <1>1, <3>2, <5>1
        <5>3. /\ flatten[m + 1] \in Seq(S)
              /\ Range(flatten[m + 1]) = Range(flatten[m]) \cup Range(ss[m + 1])
          BY <5>1, <5>2, RangeOfConcat
        <5>4. \A x : x \in Range(flatten[m]) <=> \E i \in 1..m : x \in Range(ss[i])
          BY <3>2, <5>1
        <5>5. 1..(m + 1) = 1..m \cup {m + 1}
          OBVIOUS
        <5> QED
          BY <5>3, <5>4, <5>5
      <4> QED
        BY <4>1, <4>2
    <3> HIDE DEF P
    <3> QED
      BY <3>1, <3>2, InductionOnNat
  <2>4. /\ flatten[n] \in Seq(S)
        /\ \A x : x \in Range(flatten[n]) <=> \E i \in 1..n : x \in Range(ss[i])
    <3>1. n \in Nat /\ n \in 1..n
      BY <1>1, <1>3
    <3>2. n \in P
      <4> HIDE DEF P
      <4> QED
        BY <2>3, <3>1
    <3> QED
      BY <3>1, <3>2
  <2>5. Range(flatten[n]) \subseteq S
    BY <2>4, RangeInType
  <2>6. Range(flatten[n]) = {x \in S : \E i \in 1..n : x \in Range(ss[i])}
    BY <2>4, <2>5
  <2> QED
    BY <1>1, <2>1, <2>4, <2>6
<1> QED
  BY <1>2, <1>3


\* A sequence is one of whatever has all it holds.
LEMMA NarrowSequence ==
  ASSUME NEW S, NEW T, NEW s \in Seq(S), Range(s) \subseteq T
  PROVE  s \in Seq(T)
<1>1. Range(s) = {s[i] : i \in 1..Len(s)} /\ DOMAIN s = 1..Len(s) /\ Len(s) \in Nat
  BY RangeInType
<1>2. \A i \in 1..Len(s) : s[i] \in T
  BY <1>1
<1>3. s = [i \in 1..Len(s) |-> s[i]]
  OBVIOUS
<1> DEFINE n == Len(s)
<1>4. n \in Nat /\ s = [i \in 1..n |-> s[i]] /\ \A i \in 1..n : s[i] \in T
  BY <1>1, <1>2, <1>3
<1> HIDE DEF n
<1>5. s \in [1..n -> T]
  BY <1>4
<1> QED
  BY <1>4, <1>5

\* The values a function takes on a finite set are finitely many.
LEMMA FiniteImage ==
  ASSUME NEW I, IsFiniteSet(I), NEW f
  PROVE  IsFiniteSet({f[i] : i \in I})
<1>1. [i \in I |-> f[i]] \in Surjection(I, {f[i] : i \in I})
  BY Zenon DEF Surjection
<1> QED
  BY <1>1, FS_Surjection

\* What a sequence holds is finite.
LEMMA FiniteRange ==
  ASSUME NEW S, NEW s \in Seq(S)
  PROVE  IsFiniteSet(Range(s))
<1>1. Range(s) = {s[i] : i \in 1..Len(s)} /\ Len(s) \in Nat
  BY RangeInType
<1>2. IsFiniteSet(1..Len(s))
  BY <1>1, FS_Interval
<1>3. IsFiniteSet({s[i] : i \in 1..Len(s)})
  BY <1>2, FiniteImage
<1> QED
  BY <1>1, <1>3

\* The members of a list at some of its places, in their order.
Picked(s, I) == FlattenSeq([i \in DOMAIN s |-> IF i \in I THEN <<s[i]>> ELSE <<>>])

\* It has those members.
LEMMA Sifted ==
  ASSUME NEW S, NEW s \in Seq(S), NEW I
  PROVE  /\ Picked(s, I) \in Seq(S)
         /\ Range(Picked(s, I)) = {x \in S : \E i \in DOMAIN s : i \in I /\ x = s[i]}
<1> DEFINE v == [i \in DOMAIN s |-> IF i \in I THEN <<s[i]>> ELSE <<>>]
<1>1. Len(s) \in Nat /\ DOMAIN s = 1..Len(s) /\ \A i \in 1..Len(s) : s[i] \in S
  BY LenProperties, ElementOfSeq
<1>2. \A i \in 1..Len(s) : v[i] \in Seq(S) /\ Range(v[i]) = IF i \in I THEN {s[i]} ELSE {}
  <2> SUFFICES ASSUME NEW i \in 1..Len(s) PROVE v[i] \in Seq(S) /\ Range(v[i]) = IF i \in I THEN {s[i]} ELSE {}
    OBVIOUS
  <2>1. v[i] = IF i \in I THEN <<s[i]>> ELSE <<>>
    BY <1>1
  <2>2. s[i] \in S
    BY <1>1
  <2> HIDE DEF v
  <2> QED
    BY <2>1, <2>2, OneOrNone, Zenon
<1>3. v \in Seq(Seq(S)) /\ DOMAIN v = 1..Len(s)
  <2>1. v \in [1..Len(s) -> Seq(S)]
    BY <1>1, <1>2
  <2> HIDE DEF v
  <2> QED
    BY <1>1, <2>1
<1> HIDE DEF v
<1>4. FlattenSeq(v) \in Seq(S) /\ Range(FlattenSeq(v)) = {x \in S : \E i \in 1..Len(s) : x \in Range(v[i])}
  BY <1>3, FlattenedRange
<1>5. \A x : (\E i \in 1..Len(s) : x \in Range(v[i])) <=> \E i \in 1..Len(s) : i \in I /\ x = s[i]
  BY <1>2
<1>6. Range(FlattenSeq(v)) = {x \in S : \E i \in DOMAIN s : i \in I /\ x = s[i]}
  BY <1>1, <1>4, <1>5
<1> QED
  BY <1>4, <1>6 DEF v, Picked

(***************************************************************************)
(* Orders: sorted() by ranks, the number of members that stand before.     *)
(***************************************************************************)
\* In a strict order of a finite set, more members stand before what comes later.
LEMMA Ranks ==
  ASSUME NEW S, IsFiniteSet(S), NEW R,
         \A x \in S : <<x, x>> \notin R,
         \A x, y, z \in S : <<x, y>> \in R /\ <<y, z>> \in R => <<x, z>> \in R,
         \A x, y \in S : x = y \/ <<x, y>> \in R \/ <<y, x>> \in R
  PROVE  /\ Cardinality(S) \in Nat
         /\ \A x \in S : Cardinality({y \in S : <<y, x>> \in R}) \in 0..(Cardinality(S) - 1)
         /\ \A x, y \in S : <<x, y>> \in R =>
              Cardinality({z \in S : <<z, x>> \in R}) < Cardinality({z \in S : <<z, y>> \in R})
         /\ \A i \in 1..Cardinality(S) : \E x \in S : Cardinality({y \in S : <<y, x>> \in R}) = i - 1
<1> DEFINE Before(x) == {y \in S : <<y, x>> \in R}
           n == Cardinality(S)
           Turn == [x \in S |-> Cardinality(Before(x))]
<1>0. n \in Nat
  BY FS_CardinalityType
<1>1. \A x \in S : IsFiniteSet(Before(x)) /\ Cardinality(Before(x)) \in Nat /\ Cardinality(Before(x)) <= n - 1
  <2> SUFFICES ASSUME NEW x \in S
               PROVE  IsFiniteSet(Before(x)) /\ Cardinality(Before(x)) \in Nat /\ Cardinality(Before(x)) <= n - 1
    OBVIOUS
  <2>1. Before(x) \in SUBSET (S \ {x})
    OBVIOUS
  <2>2. IsFiniteSet(S \ {x}) /\ Cardinality(S \ {x}) = n - 1
    BY FS_RemoveElement
  <2> HIDE DEF Before, n
  <2>3. IsFiniteSet(Before(x)) /\ Cardinality(Before(x)) <= Cardinality(S \ {x})
    BY <2>1, <2>2, FS_Subset
  <2> QED
    BY <2>2, <2>3, FS_CardinalityType
<1>2. \A x, y \in S : <<x, y>> \in R => Cardinality(Before(x)) < Cardinality(Before(y))
  <2> SUFFICES ASSUME NEW x \in S, NEW y \in S, <<x, y>> \in R PROVE Cardinality(Before(x)) < Cardinality(Before(y))
    OBVIOUS
  <2>1. Before(x) \in SUBSET Before(y) /\ x \in Before(y) /\ x \notin Before(x)
    OBVIOUS
  <2> HIDE DEF Before
  <2>2. IsFiniteSet(Before(y)) /\ Before(x) # Before(y)
    BY <1>1, <2>1
  <2>3. Cardinality(Before(x)) <= Cardinality(Before(y))
    BY <2>1, <2>2, FS_Subset
  <2>4. Cardinality(Before(x)) # Cardinality(Before(y))
    BY <2>1, <2>2, FS_Subset
  <2> QED
    BY <1>1, <2>3, <2>4
<1>3. \A x \in S : Turn[x] = Cardinality(Before(x)) /\ Turn[x] \in 0..(n - 1)
  <2> HIDE DEF Before, n
  <2> QED
    BY <1>0, <1>1
<1>4. \A x, y \in S : Turn[x] = Turn[y] => x = y
  <2> SUFFICES ASSUME NEW x \in S, NEW y \in S, Turn[x] = Turn[y] PROVE x = y
    OBVIOUS
  <2> HIDE DEF Turn, Before, n
  <2>1. Cardinality(Before(x)) = Cardinality(Before(y)) /\ Cardinality(Before(x)) \in Nat
    BY <1>1, <1>3
  <2>2. <<x, y>> \notin R /\ <<y, x>> \notin R
    BY <1>2, <2>1
  <2> QED
    BY <2>2
<1>5. \A i \in 0..(n - 1) : \E x \in S : Turn[x] = i
  <2> DEFINE T == {Turn[x] : x \in S}
  <2>1. Turn \in Bijection(S, T)
    <3>1. Turn \in [S -> T]
      OBVIOUS
    <3> HIDE DEF Turn
    <3>2. Turn \in Injection(S, T)
      BY <1>4, <3>1 DEF Injection, IsInjective
    <3>3. Turn \in Surjection(S, T)
      BY <3>1, Zenon DEF Surjection
    <3> QED
      BY <3>2, <3>3 DEF Bijection
  <2>2. T \in SUBSET (0..(n - 1))
    <3>1. \A x \in S : Turn[x] \in 0..(n - 1)
      BY <1>3, Zenon
    <3> HIDE DEF Turn, n
    <3> QED
      BY <3>1, Zenon
  <2> HIDE DEF T, Turn
  <2>3. IsFiniteSet(T) /\ Cardinality(T) = n
    <3>1. ExistsBijection(S, T)
      BY <2>1, Zenon DEF ExistsBijection
    <3> QED
      BY <3>1, FS_Bijection
  <2> HIDE DEF n
  <2>4. IsFiniteSet(0..(n - 1)) /\ Cardinality(0..(n - 1)) = n
    <3>1. 0 \in Int /\ n - 1 \in Int
      BY <1>0
    <3>2. IsFiniteSet(0..(n - 1)) /\ Cardinality(0..(n - 1)) = IF 0 > n - 1 THEN 0 ELSE (n - 1) - 0 + 1
      BY <3>1, FS_Interval
    <3> QED
      BY <1>0, <3>2
  <2>5. T = 0..(n - 1)
    BY <2>2, <2>3, <2>4, FS_Subset
  <2> QED
    BY <2>5 DEF T
<1>6. \A i \in 1..n : \E x \in S : Cardinality(Before(x)) = i - 1
  <2> SUFFICES ASSUME NEW i \in 1..n PROVE \E x \in S : Cardinality(Before(x)) = i - 1
    OBVIOUS
  <2> HIDE DEF Before, n, Turn
  <2>1. i - 1 \in 0..(n - 1)
    BY <1>0
  <2> QED
    BY <1>3, <1>5, <2>1
<1>7. \A x \in S : Cardinality(Before(x)) \in 0..(n - 1)
  <2> HIDE DEF Before, n
  <2> QED
    BY <1>0, <1>1
<1> QED
  BY <1>0, <1>2, <1>6, <1>7

\* sorted(S) of numbers has each of them once, the smaller first.
Ascending(S) == Ordered(S, <)
LEMMA AscendingNumbers ==
  ASSUME NEW S \in SUBSET Int, IsFiniteSet(S)
  PROVE  /\ Ascending(S) \in Seq(S)
         /\ \A i, k \in DOMAIN Ascending(S) : i < k => Ascending(S)[i] < Ascending(S)[k]
         /\ \A x \in S : \E i \in DOMAIN Ascending(S) : Ascending(S)[i] = x
<1> DEFINE R == {p \in S \X S : p[1] < p[2]}
           n == Cardinality(S)
           t == Ascending(S)
           rank(x) == Cardinality({y \in S : y < x})
<1>1. \A x, y \in S : <<x, y>> \in R <=> x < y
  OBVIOUS
<1>2. \A x \in S : {y \in S : <<y, x>> \in R} = {y \in S : y < x}
  BY <1>1
<1> HIDE DEF R
<1>3. /\ n \in Nat
      /\ \A x \in S : Cardinality({y \in S : <<y, x>> \in R}) \in 0..(n - 1)
      /\ \A x, y \in S : <<x, y>> \in R =>
              Cardinality({z \in S : <<z, x>> \in R}) < Cardinality({z \in S : <<z, y>> \in R})
      /\ \A i \in 1..n : \E x \in S : Cardinality({y \in S : <<y, x>> \in R}) = i - 1
  <2>1. \A x \in S : <<x, x>> \notin R
    BY <1>1
  <2>2. \A x, y, z \in S : <<x, y>> \in R /\ <<y, z>> \in R => <<x, z>> \in R
    BY <1>1
  <2>3. \A x, y \in S : x = y \/ <<x, y>> \in R \/ <<y, x>> \in R
    <3> SUFFICES ASSUME NEW x \in S, NEW y \in S PROVE x = y \/ <<x, y>> \in R \/ <<y, x>> \in R
      OBVIOUS
    <3>1. x \in Int /\ y \in Int
      OBVIOUS
    <3>2. x = y \/ x < y \/ y < x
      BY <3>1
    <3> QED
      BY <1>1, <3>2
  <2> QED
    BY <2>1, <2>2, <2>3, Ranks, Zenon
<1>4. /\ \A x \in S : rank(x) \in 0..(n - 1)
      /\ \A x, y \in S : x < y => rank(x) < rank(y)
      /\ \A i \in 1..n : \E x \in S : rank(x) = i - 1
  <2>1. \A x \in S : rank(x) = Cardinality({y \in S : <<y, x>> \in R})
    BY <1>2, Zenon
  <2> HIDE DEF rank, n
  <2>2. \A x \in S : rank(x) \in 0..(n - 1)
    BY <1>3, <2>1
  <2>3. \A x, y \in S : x < y => rank(x) < rank(y)
    <3> SUFFICES ASSUME NEW x \in S, NEW y \in S, x < y PROVE rank(x) < rank(y)
      OBVIOUS
    <3>1. Cardinality({z \in S : <<z, x>> \in R}) < Cardinality({z \in S : <<z, y>> \in R})
      BY <1>1, <1>3
    <3> QED
      BY <2>1, <3>1
  <2>4. \A i \in 1..n : \E x \in S : rank(x) = i - 1
    BY <1>3, <2>1
  <2> QED
    BY <2>2, <2>3, <2>4
<1>5. t = [i \in 1..n |-> CHOOSE x \in S : rank(x) = i - 1]
  BY DEF Ascending, Ordered
<1> HIDE DEF rank, n, t
<1>6. \A i \in 1..n : t[i] \in S /\ rank(t[i]) = i - 1
  BY <1>4, <1>5, Zenon
<1>7. t \in Seq(S) /\ DOMAIN t = 1..n
  <2>1. DOMAIN t = 1..n /\ t \in [1..n -> S]
    BY <1>5, <1>6
  <2> QED
    BY <1>3, <2>1
<1>8. \A i, k \in 1..n : i < k => t[i] < t[k]
  <2> SUFFICES ASSUME NEW i \in 1..n, NEW k \in 1..n, i < k PROVE t[i] < t[k]
    OBVIOUS
  <2>1. t[i] \in S /\ t[k] \in S /\ rank(t[i]) = i - 1 /\ rank(t[k]) = k - 1
    BY <1>6
  <2>2. t[i] \in Int /\ t[k] \in Int /\ i \in Int /\ k \in Int
    <3>1. n \in Nat
      BY <1>3
    <3>2. i \in Int /\ k \in Int
      BY <3>1
    <3> QED
      BY <2>1, <3>2
  <2>3. t[k] < t[i] => rank(t[k]) < rank(t[i])
    BY <1>4, <2>1
  <2>4. t[i] # t[k] /\ ~ (t[k] < t[i])
    BY <2>1, <2>2, <2>3
  <2> QED
    BY <2>2, <2>4
<1>9. \A x \in S : \E i \in 1..n : t[i] = x
  <2> SUFFICES ASSUME NEW x \in S PROVE \E i \in 1..n : t[i] = x
    OBVIOUS
  <2>1. rank(x) + 1 \in 1..n /\ rank(x) \in Nat
    BY <1>3, <1>4
  <2> DEFINE i == rank(x) + 1
  <2>2. t[i] \in S /\ rank(t[i]) = i - 1 /\ i - 1 = rank(x)
    BY <1>6, <2>1
  <2>3. t[i] = x
    <3>1. t[i] \in Int /\ x \in Int
      BY <2>2
    <3>2. rank(t[i]) = rank(x) /\ rank(x) \in Int
      BY <2>1, <2>2
    <3>3. (t[i] < x => rank(t[i]) < rank(x)) /\ (x < t[i] => rank(x) < rank(t[i]))
      BY <1>4, <2>2
    <3>4. ~ (t[i] < x) /\ ~ (x < t[i])
      BY <3>2, <3>3
    <3> QED
      BY <3>1, <3>4
  <2> QED
    BY <2>1, <2>3
<1> QED
  BY <1>7, <1>8, <1>9 DEF t

\* sorted(s, key=hours) has what s has.
ByHours(s) == Sorted(s, LAMBDA a, b : a.hours < b.hours)
LEMMA SortedByHours ==
  ASSUME NEW S, NEW s \in Seq(S), \A f \in S : f.hours \in Int
  PROVE  ByHours(s) \in Seq(S)
<1> DEFINE D == DOMAIN s
           n == Cardinality(D)
           h(i) == s[i].hours
           R == {p \in D \X D : h(p[1]) < h(p[2]) \/ (~ (h(p[2]) < h(p[1])) /\ p[1] < p[2])}
           before(k) == {j \in D : s[j].hours < s[k].hours \/ (~ (s[k].hours < s[j].hours) /\ j < k)}
           at == [i \in 1..n |-> CHOOSE k \in D : Cardinality(before(k)) = i - 1]
<1>1. Len(s) \in Nat /\ D = 1..Len(s) /\ \A i \in D : s[i] \in S
  BY LenProperties, ElementOfSeq
<1>2. IsFiniteSet(D) /\ n = Len(s)
  <2>1. IsFiniteSet(1..Len(s)) /\ Cardinality(1..Len(s)) = Len(s)
    BY <1>1, FS_Interval
  <2> QED
    BY <1>1, <2>1
<1>3. \A i \in D : i \in Int /\ h(i) \in Int
  BY <1>1
<1>4. \A x, y \in D : <<x, y>> \in R <=> h(x) < h(y) \/ (~ (h(y) < h(x)) /\ x < y)
  OBVIOUS
<1>5. \A k \in D : {j \in D : <<j, k>> \in R} = before(k)
  BY <1>4
<1>6. \A i \in 1..n : \E k \in D : Cardinality({j \in D : <<j, k>> \in R}) = i - 1
  <2> HIDE DEF R, h, D
  <2>1. \A x \in D : <<x, x>> \notin R
    BY <1>3, <1>4
  <2>2. \A x, y, z \in D : <<x, y>> \in R /\ <<y, z>> \in R => <<x, z>> \in R
    BY <1>3, <1>4
  <2>3. \A x, y \in D : x = y \/ <<x, y>> \in R \/ <<y, x>> \in R
    <3> SUFFICES ASSUME NEW x \in D, NEW y \in D PROVE x = y \/ <<x, y>> \in R \/ <<y, x>> \in R
      OBVIOUS
    <3>1. x \in Int /\ y \in Int /\ h(x) \in Int /\ h(y) \in Int
      BY <1>3
    <3>2. \/ x = y
          \/ h(x) < h(y) \/ (~ (h(y) < h(x)) /\ x < y)
          \/ h(y) < h(x) \/ (~ (h(x) < h(y)) /\ y < x)
      BY <3>1
    <3> QED
      BY <1>4, <3>2
  <2> QED
    BY <1>2, <2>1, <2>2, <2>3, Ranks, Zenon
<1>7. \A i \in 1..n : \E k \in D : Cardinality(before(k)) = i - 1
  <2> HIDE DEF R, h, D, before
  <2> QED
    BY <1>5, <1>6
<1>8. \A i \in 1..n : at[i] \in D
  <2> HIDE DEF before
  <2> QED
    BY <1>7
<1>9. ByHours(s) = [i \in D |-> s[at[i]]]
  BY DEF ByHours, Sorted, Ordered
<1> HIDE DEF at
<1>10. ByHours(s) \in [1..Len(s) -> S]
  BY <1>1, <1>2, <1>8, <1>9
<1> QED
  BY <1>1, <1>10

(***************************************************************************)
(* Sums over finite sets. The library folds a set by a function defined    *)
(* recursively on its subsets, which takes away a member of its choice;    *)
(* such a function exists, and the sum does not depend on the choice.      *)
(***************************************************************************)
\* A family that holds every subset of a finite set whose subsets with one
\* member less it holds, holds them all.
LEMMA ByRemoval ==
  ASSUME NEW D, IsFiniteSet(D), NEW C,
         \A s \in SUBSET D : (\A x \in s : s \ {x} \in C) => s \in C
  PROVE  \A s \in SUBSET D : s \in C
<1> DEFINE N == {n \in Nat : \A s \in SUBSET D : Cardinality(s) = n => s \in C}
<1>1. \A s \in SUBSET D : IsFiniteSet(s) /\ Cardinality(s) \in Nat
  BY FS_Subset, FS_CardinalityType
<1>2. 0 \in N
  <2>1. \A s \in SUBSET D : Cardinality(s) = 0 => s = {}
    BY <1>1, FS_EmptySet
  <2>2. {} \in C
    OBVIOUS
  <2> QED
    BY <2>1, <2>2
<1>3. ASSUME NEW n \in Nat, n \in N PROVE n + 1 \in N
  <2>1. SUFFICES ASSUME NEW s \in SUBSET D, Cardinality(s) = n + 1 PROVE s \in C
    OBVIOUS
  <2>2. SUFFICES ASSUME NEW x \in s PROVE s \ {x} \in C
    OBVIOUS
  <2>3. IsFiniteSet(s)
    BY <1>1
  <2>4. Cardinality(s \ {x}) = Cardinality(s) - 1
    BY <2>3, FS_RemoveElement
  <2>5. Cardinality(s \ {x}) = n /\ s \ {x} \in SUBSET D
    BY <2>1, <2>4
  <2> QED
    BY <1>3, <2>5
<1>4. \A n \in Nat : n \in N
  <2> HIDE DEF N
  <2> QED
    BY <1>2, <1>3, InductionOnNat
<1> QED
  BY <1>1, <1>4

\* A fold has a value, whatever it takes away first.
Folds(it, D, base, c, g) ==
  \A s \in SUBSET D : it[s] = IF s = {} THEN base ELSE g[<<c[s], it[s \ {c[s]}]>>]
LEMMA FoldExists ==
  ASSUME NEW D, IsFiniteSet(D), NEW T, NEW base \in T, NEW g \in [D \X T -> T],
         NEW c, \A s \in SUBSET D : s # {} => c[s] \in s
  PROVE  \E it \in [SUBSET D -> T] : Folds(it, D, base, c, g)
<1> DEFINE Step(h, s) == IF s = {} THEN base ELSE g[<<c[s], h[s \ {c[s]}]>>]
           Holds(h, n) == \A s \in SUBSET D : Cardinality(s) <= n => h[s] = Step(h, s)
           N == {n \in Nat : \E h \in [SUBSET D -> T] : Holds(h, n)}
<1>1. \A s \in SUBSET D : IsFiniteSet(s) /\ Cardinality(s) \in Nat
  BY FS_Subset, FS_CardinalityType
<1>2. 0 \in N
  <2>1. \A s \in SUBSET D : Cardinality(s) <= 0 => s = {}
    BY <1>1, FS_EmptySet
  <2>2. Holds([s \in SUBSET D |-> base], 0)
    BY <2>1
  <2> QED
    BY <2>2
<1>3. ASSUME NEW n \in Nat, n \in N PROVE n + 1 \in N
  <2>1. PICK h \in [SUBSET D -> T] : Holds(h, n)
    BY <1>3
  <2> DEFINE k == [s \in SUBSET D |-> Step(h, s)]
  <2>2. k \in [SUBSET D -> T]
    <3> SUFFICES ASSUME NEW s \in SUBSET D, s # {} PROVE Step(h, s) \in T
      OBVIOUS
    <3>1. c[s] \in D /\ s \ {c[s]} \in SUBSET D
      OBVIOUS
    <3> QED
      BY <3>1
  <2>3. Holds(k, n + 1)
    <3> SUFFICES ASSUME NEW s \in SUBSET D, Cardinality(s) <= n + 1, s # {} PROVE k[s] = Step(k, s)
      OBVIOUS
    <3>1. c[s] \in s /\ s \ {c[s]} \in SUBSET D
      OBVIOUS
    <3>2. Cardinality(s \ {c[s]}) = Cardinality(s) - 1
      BY <1>1, <3>1, FS_RemoveElement
    <3>3. Cardinality(s \ {c[s]}) <= n
      BY <1>1, <3>2
    <3>4. h[s \ {c[s]}] = Step(h, s \ {c[s]})
      BY <2>1, <3>1, <3>3
    <3>5. k[s \ {c[s]}] = h[s \ {c[s]}]
      BY <3>1, <3>4
    <3> QED
      BY <3>5
  <2>4. n + 1 \in Nat
    OBVIOUS
  <2> HIDE DEF k, Holds
  <2> QED
    BY <2>2, <2>3, <2>4
<1>4. \A n \in Nat : n \in N
  <2> HIDE DEF N
  <2> QED
    BY <1>2, <1>3, InductionOnNat
<1>5. Cardinality(D) \in Nat /\ \A s \in SUBSET D : Cardinality(s) <= Cardinality(D)
  BY <1>1, FS_Subset
<1>6. PICK h \in [SUBSET D -> T] : Holds(h, Cardinality(D))
  <2>1. Cardinality(D) \in N
    <3> HIDE DEF N
    <3> QED
      BY <1>4, <1>5
  <2> QED
    BY <2>1
<1>7. \A s \in SUBSET D : h[s] = Step(h, s)
  BY <1>5, <1>6
<1> QED
  BY <1>7 DEF Folds

\* The sum of a function over some members, and when there is one.
SumOver(f, S) == MapThenSumSet(LAMBDA k : f[k], S)
IntOn(f, D) == IsFiniteSet(D) /\ \A x \in D : f[x] \in Int

\* The function the sum is read from.
AnyOf(s) == CHOOSE x \in s : TRUE
Running(f, D) ==
  CHOOSE iter : iter = [s \in SUBSET D |-> IF s = {} THEN 0 ELSE f[AnyOf(s)] + iter[s \ {AnyOf(s)}]]
Adds(it, f, D) ==
  /\ it \in [SUBSET D -> Int] /\ it[{}] = 0
  /\ \A s \in SUBSET D : s # {} => it[s] = f[AnyOf(s)] + it[s \ {AnyOf(s)}]
AddsAny(it, f, D) ==
  /\ it \in [SUBSET D -> Int] /\ it[{}] = 0
  /\ \A s \in SUBSET D : \A x \in s : it[s] = f[x] + it[s \ {x}]
LEMMA RunningSum ==
  ASSUME NEW f, NEW D, IntOn(f, D)
  PROVE  SumOver(f, D) = Running(f, D)[D] /\ Adds(Running(f, D), f, D)
<1>0. IsFiniteSet(D) /\ \A x \in D : f[x] \in Int
  BY DEF IntOn
<1> DEFINE c == [s \in SUBSET D |-> AnyOf(s)]
           g == [p \in D \X Int |-> f[p[1]] + p[2]]
           it == Running(f, D)
<1>1. \A s \in SUBSET D : s # {} => c[s] \in s
  BY DEF AnyOf
<1>2. g \in [D \X Int -> Int]
  BY <1>0
<1>3. PICK h \in [SUBSET D -> Int] : Folds(h, D, 0, c, g)
  <2>1. 0 \in Int
    OBVIOUS
  <2> HIDE DEF c, g
  <2> QED
    BY <1>0, <1>1, <1>2, <2>1, FoldExists
<1>4. \A s \in SUBSET D : h[s] = IF s = {} THEN 0 ELSE f[AnyOf(s)] + h[s \ {AnyOf(s)}]
  <2> SUFFICES ASSUME NEW s \in SUBSET D, s # {} PROVE h[s] = f[c[s]] + h[s \ {c[s]}]
    BY <1>3 DEF Folds
  <2>1. c[s] \in D /\ h[s \ {c[s]}] \in Int
    BY <1>1
  <2> HIDE DEF c
  <2> QED
    BY <1>3, <2>1 DEF Folds
<1>5. \E iter : iter = [s \in SUBSET D |-> IF s = {} THEN 0 ELSE f[AnyOf(s)] + iter[s \ {AnyOf(s)}]]
  <2>1. h = [s \in SUBSET D |-> IF s = {} THEN 0 ELSE f[AnyOf(s)] + h[s \ {AnyOf(s)}]]
    BY <1>4
  <2> QED
    BY <2>1
<1>6. it = [s \in SUBSET D |-> IF s = {} THEN 0 ELSE f[AnyOf(s)] + it[s \ {AnyOf(s)}]]
  BY <1>5, Zenon DEF Running
<1>7. SumOver(f, D) = it[D]
  BY Zenon DEF SumOver, MapThenSumSet, MapThenFoldSet, Running, AnyOf
<1> HIDE DEF it
<1>8. it[{}] = 0 /\ \A s \in SUBSET D : s # {} => it[s] = f[c[s]] + it[s \ {c[s]}]
  BY <1>6
<1> DEFINE C == {s \in SUBSET D : it[s] \in Int}
<1>9. \A s \in SUBSET D : (\A x \in s : s \ {x} \in C) => s \in C
  <2>0. it[{}] \in Int
    BY <1>8
  <2> SUFFICES ASSUME NEW s \in SUBSET D, \A x \in s : s \ {x} \in C, s # {} PROVE it[s] \in Int
    BY <2>0
  <2>1. c[s] \in s /\ it[s \ {c[s]}] \in Int /\ f[c[s]] \in Int
    <3> HIDE DEF c
    <3> QED
      BY <1>0, <1>1
  <2> HIDE DEF c
  <2>2. it[s] = f[c[s]] + it[s \ {c[s]}]
    BY <1>8
  <2> QED
    BY <2>1, <2>2
<1>10. \A s \in SUBSET D : s \in C
  <2> HIDE DEF C
  <2> QED
    BY <1>9, <1>0, ByRemoval
<1>11. it \in [SUBSET D -> Int]
  BY <1>6, <1>10
<1> QED
  BY <1>7, <1>8, <1>11 DEF it, Adds

\* Any member may be taken away first.
LEMMA AnyFirst ==
  ASSUME NEW f, NEW D, IntOn(f, D)
  PROVE  SumOver(f, D) = Running(f, D)[D] /\ AddsAny(Running(f, D), f, D)
<1> DEFINE it == Running(f, D)
           C == {s \in SUBSET D : \A x \in s : it[s] = f[x] + it[s \ {x}]}
<1>0. IsFiniteSet(D) /\ \A x \in D : f[x] \in Int
  BY DEF IntOn
<1>a. SumOver(f, D) = it[D] /\ Adds(it, f, D)
  BY RunningSum
<1> HIDE DEF it
<1>1. it \in [SUBSET D -> Int] /\ it[{}] = 0 /\ \A s \in SUBSET D : s # {} => it[s] = f[AnyOf(s)] + it[s \ {AnyOf(s)}]
  BY <1>a, Zenon DEF Adds
<1>2. \A s \in SUBSET D : s # {} => AnyOf(s) \in s
  BY DEF AnyOf
<1>3. \A s \in SUBSET D : (\A x \in s : s \ {x} \in C) => s \in C
  <2> SUFFICES ASSUME NEW s \in SUBSET D, \A x \in s : s \ {x} \in C, NEW x \in s PROVE it[s] = f[x] + it[s \ {x}]
    OBVIOUS
  <2> DEFINE y == AnyOf(s)
  <2>1. y \in s /\ it[s] = f[y] + it[s \ {y}]
    BY <1>1, <1>2, Zenon
  <2>2. CASE x = y
    BY <2>1, <2>2
  <2>3. CASE x # y
    <3> HIDE DEF y
    <3>1. it[s \ {y}] = f[x] + it[(s \ {y}) \ {x}]
      BY <2>1, <2>3
    <3>2. it[s \ {x}] = f[y] + it[(s \ {x}) \ {y}]
      BY <2>1, <2>3
    <3>3. (s \ {x}) \ {y} = (s \ {y}) \ {x}
      OBVIOUS
    <3>4. f[x] \in Int /\ f[y] \in Int /\ it[(s \ {y}) \ {x}] \in Int
      BY <1>0, <1>1, <2>1
    <3>5. it[s \ {x}] = f[y] + it[(s \ {y}) \ {x}]
      BY <3>2, <3>3, Zenon
    <3> QED
      BY <2>1, <3>1, <3>4, <3>5
  <2> QED
    BY <2>2, <2>3
<1>4. \A s \in SUBSET D : s \in C
  <2> HIDE DEF C
  <2> QED
    BY <1>3, <1>0, ByRemoval
<1> QED
  BY <1>a, <1>1, <1>4 DEF it, AddsAny

\* A sum over two sets that share nothing is the sum of theirs.
LEMMA RunningParts ==
  ASSUME NEW f, NEW D, IntOn(f, D), NEW s \in SUBSET D, NEW t \in SUBSET D, s \cap t = {}
  PROVE  Running(f, D)[s \cup t] = Running(f, D)[s] + Running(f, D)[t]
<1> DEFINE it == Running(f, D)
           C == {u \in SUBSET D : \A v \in SUBSET D : v \cap u = {} => it[v \cup u] = it[v] + it[u]}
<1>0. IsFiniteSet(D) /\ \A x \in D : f[x] \in Int
  BY DEF IntOn
<1>a. AddsAny(it, f, D)
  BY AnyFirst
<1> HIDE DEF it
<1>1. it \in [SUBSET D -> Int] /\ it[{}] = 0
  BY <1>a DEF AddsAny
<1>2. \A v \in SUBSET D : \A x \in v : it[v] = f[x] + it[v \ {x}]
  BY <1>a, Zenon DEF AddsAny
<1>3. \A u \in SUBSET D : (\A x \in u : u \ {x} \in C) => u \in C
  <2> SUFFICES ASSUME NEW u \in SUBSET D, \A x \in u : u \ {x} \in C, NEW v \in SUBSET D, v \cap u = {}
               PROVE  it[v \cup u] = it[v] + it[u]
    OBVIOUS
  <2>1. CASE u = {}
    <3>1. v \cup u = v
      BY <2>1
    <3>2. it[u] = 0 /\ it[v] \in Int
      BY <1>1, <2>1
    <3>3. it[v \cup u] = it[v]
      BY <3>1, Zenon
    <3> QED
      BY <3>2, <3>3
  <2>2. CASE u # {}
    <3>1. PICK x : x \in u
      BY <2>2
    <3>2. it[u] = f[x] + it[u \ {x}] /\ it[v \cup u] = f[x] + it[(v \cup u) \ {x}]
      BY <1>2, <3>1
    <3>3. (v \cup u) \ {x} = v \cup (u \ {x}) /\ v \cap (u \ {x}) = {}
      BY <3>1
    <3>4. it[v \cup (u \ {x})] = it[v] + it[u \ {x}]
      BY <3>1, <3>3
    <3>6. it[(v \cup u) \ {x}] = it[v] + it[u \ {x}]
      BY <3>3, <3>4, Zenon
    <3>5. f[x] \in Int /\ it[v] \in Int /\ it[u \ {x}] \in Int
      BY <1>0, <1>1, <3>1
    <3> QED
      BY <3>2, <3>5, <3>6
  <2> QED
    BY <2>1, <2>2
<1>4. \A u \in SUBSET D : u \in C
  <2> HIDE DEF C
  <2> QED
    BY <1>3, <1>0, ByRemoval
<1> QED
  BY <1>4 DEF it

\* Functions that agree on a set have one sum over it.
LEMMA SameSum ==
  ASSUME NEW f, NEW h, NEW D, IntOn(f, D), NEW E \in SUBSET D, \A x \in E : h[x] = f[x]
  PROVE  \A s \in SUBSET E : Running(h, E)[s] = Running(f, D)[s]
<1> DEFINE a == Running(h, E)
           b == Running(f, D)
           C == {s \in SUBSET E : a[s] = b[s]}
<1>0. IntOn(h, E) /\ IsFiniteSet(E) /\ IsFiniteSet(D) /\ \A x \in D : f[x] \in Int
  BY FS_Subset DEF IntOn
<1>a. AddsAny(a, h, E) /\ AddsAny(b, f, D)
  BY <1>0, AnyFirst
<1> HIDE DEF a, b
<1>1. a[{}] = 0 /\ b[{}] = 0
  BY <1>a DEF AddsAny
<1>2. \A s \in SUBSET E : \A x \in s : a[s] = h[x] + a[s \ {x}]
  BY <1>a, Zenon DEF AddsAny
<1>3. \A s \in SUBSET D : \A x \in s : b[s] = f[x] + b[s \ {x}]
  BY <1>a, Zenon DEF AddsAny
<1>4. \A s \in SUBSET E : (\A x \in s : s \ {x} \in C) => s \in C
  <2> SUFFICES ASSUME NEW s \in SUBSET E, \A x \in s : s \ {x} \in C PROVE a[s] = b[s]
    OBVIOUS
  <2>1. CASE s = {}
    BY <1>1, <2>1
  <2>2. CASE s # {}
    <3>1. PICK x : x \in s
      BY <2>2
    <3>2. a[s] = h[x] + a[s \ {x}]
      BY <1>2, <3>1
    <3>3. b[s] = f[x] + b[s \ {x}]
      BY <1>3, <3>1
    <3>4. a[s \ {x}] = b[s \ {x}] /\ h[x] = f[x]
      BY <3>1
    <3> QED
      BY <3>2, <3>3, <3>4
  <2> QED
    BY <2>1, <2>2
<1>5. \A s \in SUBSET E : s \in C
  <2> HIDE DEF C
  <2> QED
    BY <1>0, <1>4, ByRemoval
<1> QED
  BY <1>5 DEF a, b

\* A sum over two parts that share nothing is the sum of their sums.
LEMMA SumOfParts ==
  ASSUME NEW f, NEW S, NEW T, IsFiniteSet(S), IsFiniteSet(T), S \cap T = {}, \A x \in S \cup T : f[x] \in Int
  PROVE  SumOver(f, S \cup T) = SumOver(f, S) + SumOver(f, T)
<1> DEFINE D == S \cup T
<1>1. IntOn(f, D) /\ IntOn(f, S) /\ IntOn(f, T)
  BY FS_Union DEF IntOn
<1>2. SumOver(f, D) = Running(f, D)[D]
  BY <1>1, RunningSum, Zenon
<1>3. SumOver(f, S) = Running(f, S)[S] /\ SumOver(f, T) = Running(f, T)[T]
  BY <1>1, RunningSum, Zenon
<1>4. Running(f, S)[S] = Running(f, D)[S]
  <2>1. S \in SUBSET D /\ S \in SUBSET S
    OBVIOUS
  <2> HIDE DEF D
  <2> QED
    BY <1>1, <2>1, SameSum DEF D
<1>5. Running(f, T)[T] = Running(f, D)[T]
  <2>1. T \in SUBSET D /\ T \in SUBSET T
    OBVIOUS
  <2> QED
    BY <1>1, <2>1, SameSum
<1>6. Running(f, D)[S \cup T] = Running(f, D)[S] + Running(f, D)[T]
  <2>1. S \in SUBSET D /\ T \in SUBSET D
    OBVIOUS
  <2>2. IntOn(f, D) /\ S \cap T = {}
    BY <1>1
  <2> HIDE DEF D
  <2> QED
    BY <2>1, <2>2, RunningParts
<1> QED
  BY <1>2, <1>3, <1>4, <1>5, <1>6

\* Functions that agree on a set have one sum over it, stated of the sums.
LEMMA SumAgrees ==
  ASSUME NEW f, NEW h, NEW S, IntOn(f, S), \A x \in S : h[x] = f[x]
  PROVE  SumOver(h, S) = SumOver(f, S)
<1>1. S \in SUBSET S /\ IntOn(h, S)
  BY DEF IntOn
<1>2. SumOver(h, S) = Running(h, S)[S] /\ SumOver(f, S) = Running(f, S)[S]
  BY <1>1, RunningSum, Zenon
<1>3. Running(h, S)[S] = Running(f, S)[S]
  BY <1>1, SameSum
<1> QED
  BY <1>2, <1>3

\* A sum of integers is one, and of natural numbers a natural number.
LEMMA SumType ==
  ASSUME NEW f, NEW S, IntOn(f, S)
  PROVE  /\ SumOver(f, S) \in Int
         /\ (\A x \in S : f[x] >= 0) => SumOver(f, S) >= 0
         /\ (\A x \in S : f[x] = 0) => SumOver(f, S) = 0
<1> DEFINE it == Running(f, S)
<1>0. IsFiniteSet(S) /\ \A x \in S : f[x] \in Int
  BY DEF IntOn
<1>a. SumOver(f, S) = it[S] /\ AddsAny(it, f, S)
  BY AnyFirst
<1> HIDE DEF it
<1>1. it \in [SUBSET S -> Int] /\ it[{}] = 0 /\ SumOver(f, S) = it[S] /\ S \in SUBSET S
  BY <1>a DEF AddsAny
<1>2. \A s \in SUBSET S : \A x \in s : it[s] = f[x] + it[s \ {x}]
  BY <1>a, Zenon DEF AddsAny
<1>3. ASSUME \A x \in S : f[x] >= 0 PROVE it[S] >= 0
  <2> DEFINE C == {s \in SUBSET S : it[s] >= 0}
  <2>1. \A s \in SUBSET S : (\A x \in s : s \ {x} \in C) => s \in C
    <3> SUFFICES ASSUME NEW s \in SUBSET S, \A x \in s : s \ {x} \in C PROVE it[s] >= 0
      OBVIOUS
    <3>1. CASE s = {}
      BY <1>1, <3>1
    <3>2. CASE s # {}
      <4>1. PICK x : x \in s
        BY <3>2
      <4>2. it[s] = f[x] + it[s \ {x}] /\ it[s \ {x}] \in Int /\ f[x] \in Int
        BY <1>0, <1>1, <1>2, <4>1
      <4>3. it[s \ {x}] >= 0 /\ f[x] >= 0
        BY <1>3, <4>1
      <4> QED
        BY <4>2, <4>3
    <3> QED
      BY <3>1, <3>2
  <2>2. \A s \in SUBSET S : s \in C
    <3> HIDE DEF C
    <3> QED
      BY <2>1, <1>0, ByRemoval
  <2> QED
    BY <1>1, <2>2
<1>4. ASSUME \A x \in S : f[x] = 0 PROVE it[S] = 0
  <2> DEFINE C == {s \in SUBSET S : it[s] = 0}
  <2>1. \A s \in SUBSET S : (\A x \in s : s \ {x} \in C) => s \in C
    <3> SUFFICES ASSUME NEW s \in SUBSET S, \A x \in s : s \ {x} \in C PROVE it[s] = 0
      OBVIOUS
    <3>1. CASE s = {}
      BY <1>1, <3>1
    <3>2. CASE s # {}
      <4>1. PICK x : x \in s
        BY <3>2
      <4>2. it[s] = f[x] + it[s \ {x}]
        BY <1>2, <4>1
      <4>3. it[s \ {x}] = 0 /\ f[x] = 0
        BY <1>4, <4>1
      <4> QED
        BY <4>2, <4>3
    <3> QED
      BY <3>1, <3>2
  <2>2. \A s \in SUBSET S : s \in C
    <3> HIDE DEF C
    <3> QED
      BY <2>1, <1>0, ByRemoval
  <2> QED
    BY <1>1, <2>2
<1> QED
  BY <1>1, <1>3, <1>4
\* The sum over one member.
LEMMA SumOfOne ==
  ASSUME NEW f, NEW x, f[x] \in Int
  PROVE  SumOver(f, {x}) = f[x]
<1> DEFINE it == Running(f, {x})
<1>1. IntOn(f, {x})
  BY FS_Singleton DEF IntOn
<1>2. SumOver(f, {x}) = it[{x}] /\ AddsAny(it, f, {x})
  BY <1>1, AnyFirst
<1> HIDE DEF it
<1>3. it[{}] = 0 /\ it[{x}] = f[x] + it[{x} \ {x}]
  BY <1>2 DEF AddsAny
<1>4. {x} \ {x} = {}
  OBVIOUS
<1>5. it[{x}] = f[x] + 0
  BY <1>3, <1>4, Zenon
<1> QED
  BY <1>2, <1>5

\* A part of a sum of natural numbers is at most the whole, and so is a term.
LEMMA SumGrows ==
  ASSUME NEW f, NEW T, IsFiniteSet(T), \A x \in T : f[x] \in Nat, NEW S \in SUBSET T
  PROVE  SumOver(f, S) \in Nat /\ SumOver(f, T) \in Nat /\ SumOver(f, S) <= SumOver(f, T)
<1> DEFINE R == T \ S
<1>1. IsFiniteSet(S) /\ IsFiniteSet(R) /\ S \cap R = {} /\ S \cup R = T
  BY FS_Subset
<1>2. IntOn(f, S) /\ IntOn(f, R) /\ IntOn(f, T)
  BY <1>1 DEF IntOn
<1>3. \A x \in T : f[x] \in Int /\ f[x] >= 0
  OBVIOUS
<1>4. SumOver(f, S) \in Int /\ SumOver(f, S) >= 0
  BY <1>2, <1>3, SumType
<1>5. SumOver(f, R) \in Int /\ SumOver(f, R) >= 0
  BY <1>2, <1>3, SumType
<1>6. SumOver(f, S \cup R) = SumOver(f, S) + SumOver(f, R)
  <2>1. \A x \in S \cup R : f[x] \in Int
    BY <1>3
  <2> HIDE DEF R
  <2> QED
    BY <1>1, <2>1, SumOfParts
<1>7. SumOver(f, S \cup R) = SumOver(f, T)
  BY <1>1, Zenon
<1> QED
  BY <1>4, <1>5, <1>6, <1>7

\* A term of a sum of natural numbers is at most the sum.
LEMMA TermOfSum ==
  ASSUME NEW f, NEW T, IsFiniteSet(T), \A x \in T : f[x] \in Nat, NEW x \in T
  PROVE  f[x] <= SumOver(f, T)
<1>1. {x} \in SUBSET T
  OBVIOUS
<1>2. SumOver(f, {x}) <= SumOver(f, T)
  BY <1>1, SumGrows
<1>3. SumOver(f, {x}) = f[x]
  <2>1. f[x] \in Int
    OBVIOUS
  <2> QED
    BY <2>1, SumOfOne, Zenon
<1> QED
  BY <1>2, <1>3

(***************************************************************************)
(* Where a reported loss goes in the back-test.                            *)
(***************************************************************************)
\* Losses that are not negative, by place and segment.
Amounts(f) ==
  /\ IsFiniteSet(DOMAIN f)
  /\ \A k \in DOMAIN f : f[k] \in Nat /\ k[2] \in LossSegments
Kept(f, S) == [k \in S |-> f[k]]

\* The total of a part is the sum over it.
LEMMA TotalOfPart ==
  ASSUME NEW f, Amounts(f), NEW S \in SUBSET DOMAIN f
  PROVE  Total(Kept(f, S)) = SumOver(f, S) /\ IntOn(f, S) /\ SumOver(f, S) \in Int
<1>1. DOMAIN Kept(f, S) = S /\ \A x \in S : Kept(f, S)[x] = f[x]
  BY DEF Kept
<1>2. IntOn(f, S)
  BY FS_Subset DEF Amounts, IntOn
<1>3. Total(Kept(f, S)) = SumOver(Kept(f, S), S)
  BY <1>1, Zenon DEF Total, SumOver
<1> QED
  BY <1>1, <1>2, <1>3, SumAgrees, SumType

\* Two parts that share nothing add up.
LEMMA PartsAddUp ==
  ASSUME NEW f, Amounts(f), NEW S \in SUBSET DOMAIN f, NEW T \in SUBSET DOMAIN f, S \cap T = {}
  PROVE  SumOver(f, S \cup T) = SumOver(f, S) + SumOver(f, T)
<1>1. IsFiniteSet(S) /\ IsFiniteSet(T) /\ \A x \in S \cup T : f[x] \in Int
  BY FS_Subset DEF Amounts
<1> QED
  BY <1>1, SumOfParts

\* Totals by segment make up the total.
InSegment(f, seg) == {j \in DOMAIN f : j[2] = seg}
LEMMA SegmentsAddUp ==
  ASSUME NEW f, Amounts(f)
  PROVE  SumOver(f, DOMAIN f) = SumOver(f, InSegment(f, "RESIDENTIAL")) + SumOver(f, InSegment(f, "COMMERCIAL"))
                                  + SumOver(f, InSegment(f, "AUTO"))
<1> DEFINE R == InSegment(f, "RESIDENTIAL")
           C == InSegment(f, "COMMERCIAL")
           A == InSegment(f, "AUTO")
<1>1. /\ R \in SUBSET DOMAIN f /\ C \in SUBSET DOMAIN f /\ A \in SUBSET DOMAIN f /\ R \cup C \in SUBSET DOMAIN f
      /\ R \cap C = {} /\ (R \cup C) \cap A = {}
  BY DEF InSegment
<1>2. DOMAIN f = (R \cup C) \cup A
  BY DEF InSegment, Amounts, LossSegments
<1> HIDE DEF R, C, A
<1>3. SumOver(f, R \cup C) = SumOver(f, R) + SumOver(f, C)
  BY <1>1, PartsAddUp
<1>4. SumOver(f, (R \cup C) \cup A) = SumOver(f, R \cup C) + SumOver(f, A)
  BY <1>1, PartsAddUp
<1>5. SumOver(f, DOMAIN f) = SumOver(f, (R \cup C) \cup A)
  BY <1>2, Zenon
<1>6. SumOver(f, R) \in Int /\ SumOver(f, C) \in Int /\ SumOver(f, A) \in Int
  BY <1>1, TotalOfPart
<1>7. SumOver(f, DOMAIN f) = SumOver(f, R) + SumOver(f, C) + SumOver(f, A)
  BY <1>3, <1>4, <1>5, <1>6
<1> QED
  BY <1>7 DEF R, C, A

\* The event's segments together are its county losses, those in no county and
\* the state rows that count.
Standing(event) == Kept(event.state, {j \in DOMAIN event.state : StateCounts(event, j)})
\* Those of a standing event are integers.
LEMMA StandingAmounts ==
  ASSUME NEW event, Amounts(event.state)
  PROVE  Amounts(Standing(event))
<1> DEFINE s == Standing(event)
<1>1. DOMAIN s \in SUBSET DOMAIN event.state /\ \A k \in DOMAIN s : s[k] = event.state[k]
  BY DEF Standing, Kept
<1>2. IsFiniteSet(DOMAIN s)
  BY <1>1, FS_Subset DEF Amounts
<1> HIDE DEF s
<1>3. Amounts(s)
  BY <1>1, <1>2 DEF Amounts
<1> QED
  BY <1>3 DEF s
\* The totals of a standing event are integers.
LEMMA EventTotals ==
  ASSUME NEW event, Amounts(event.unallocated), Amounts(event.state)
  PROVE  Total(event.unallocated) \in Int /\ Total(Standing(event)) \in Int
<1>1. ASSUME NEW f, Amounts(f) PROVE Total(f) \in Int
  <2>1. IntOn(f, DOMAIN f)
    BY <1>1 DEF Amounts, IntOn
  <2>2. SumOver(f, DOMAIN f) \in Int
    BY <2>1, SumType
  <2>3. Total(f) = SumOver(f, DOMAIN f)
    BY Zenon DEF Total, SumOver
  <2> QED
    BY <2>2, <2>3
<1> QED
  BY <1>1, StandingAmounts
LEMMA ActualIsTheEvent ==
  ASSUME NEW event, Amounts(event.county), Amounts(event.unallocated), Amounts(event.state)
  PROVE  Total(SegmentTotals(event)) = Total(event.county) + Total(event.unallocated) + Total(Standing(event))
<1> DEFINE c == event.county
           u == event.unallocated
           s == Standing(event)
           g == SegmentTotals(event)
           Seg(f, seg) == SumOver(f, InSegment(f, seg))
<1>1. Amounts(s)
  BY StandingAmounts
<1>2. ASSUME NEW f, Amounts(f) PROVE Total(f) = SumOver(f, DOMAIN f)
  BY Zenon DEF Total, SumOver
<1>3. ASSUME NEW f, Amounts(f), NEW seg
      PROVE  Total([k \in {j \in DOMAIN f : j[2] = seg} |-> f[k]]) = Seg(f, seg) /\ Seg(f, seg) \in Int
  <2>1. InSegment(f, seg) \in SUBSET DOMAIN f
    BY DEF InSegment
  <2>2. [k \in {j \in DOMAIN f : j[2] = seg} |-> f[k]] = Kept(f, InSegment(f, seg))
    BY DEF InSegment, Kept
  <2> QED
    BY <1>3, <2>1, <2>2, TotalOfPart
<1>4. ASSUME NEW seg \in LossSegments
      PROVE  g[seg] = Seg(c, seg) + Seg(u, seg) + Seg(s, seg) /\ g[seg] \in Int
  <2>1. g[seg] = Total([k \in {j \in DOMAIN c : j[2] = seg} |-> c[k]])
                   + Total([k \in {j \in DOMAIN u : j[2] = seg} |-> u[k]])
                   + Total([k \in {j \in DOMAIN s : j[2] = seg} |-> s[k]])
    BY DEF SegmentTotals, Standing, Kept
  <2> HIDE DEF c, u, s, g, Seg
  <2>2. /\ Total([k \in {j \in DOMAIN c : j[2] = seg} |-> c[k]]) = Seg(c, seg) /\ Seg(c, seg) \in Int
    BY <1>3 DEF c
  <2>3. /\ Total([k \in {j \in DOMAIN u : j[2] = seg} |-> u[k]]) = Seg(u, seg) /\ Seg(u, seg) \in Int
    BY <1>3 DEF u
  <2>4. /\ Total([k \in {j \in DOMAIN s : j[2] = seg} |-> s[k]]) = Seg(s, seg) /\ Seg(s, seg) \in Int
    BY <1>1, <1>3
  <2> QED
    BY <2>1, <2>2, <2>3, <2>4
<1>5. Total(g) = g["RESIDENTIAL"] + g["COMMERCIAL"] + g["AUTO"]
  <2> DEFINE three == ({"RESIDENTIAL"} \cup {"COMMERCIAL"}) \cup {"AUTO"}
  <2>1. DOMAIN g = three
    BY DEF SegmentTotals, LossSegments
  <2>2. /\ g["RESIDENTIAL"] \in Int /\ g["COMMERCIAL"] \in Int /\ g["AUTO"] \in Int
    BY <1>4 DEF LossSegments
  <2> HIDE DEF g
  <2>3. SumOver(g, {"RESIDENTIAL"} \cup {"COMMERCIAL"}) = SumOver(g, {"RESIDENTIAL"}) + SumOver(g, {"COMMERCIAL"})
    <3>1. IsFiniteSet({"RESIDENTIAL"}) /\ IsFiniteSet({"COMMERCIAL"})
      BY FS_Singleton
    <3>2. {"RESIDENTIAL"} \cap {"COMMERCIAL"} = {} /\ \A x \in {"RESIDENTIAL"} \cup {"COMMERCIAL"} : g[x] \in Int
      BY <2>2
    <3> QED
      BY <3>1, <3>2, SumOfParts
  <2>4. SumOver(g, three) = SumOver(g, {"RESIDENTIAL"} \cup {"COMMERCIAL"}) + SumOver(g, {"AUTO"})
    <3>1. IsFiniteSet({"RESIDENTIAL"} \cup {"COMMERCIAL"}) /\ IsFiniteSet({"AUTO"})
      BY FS_Singleton, FS_Union
    <3>2. ({"RESIDENTIAL"} \cup {"COMMERCIAL"}) \cap {"AUTO"} = {} /\ \A x \in three : g[x] \in Int
      BY <2>2
    <3> QED
      BY <3>1, <3>2, SumOfParts
  <2>5. Total(g) = SumOver(g, three)
    BY <2>1, Zenon DEF Total, SumOver
  <2>6. /\ SumOver(g, {"RESIDENTIAL"}) = g["RESIDENTIAL"] /\ SumOver(g, {"COMMERCIAL"}) = g["COMMERCIAL"]
        /\ SumOver(g, {"AUTO"}) = g["AUTO"]
    BY <2>2, SumOfOne
  <2> QED
    BY <2>3, <2>4, <2>5, <2>6
<1>6. ASSUME NEW f, Amounts(f)
      PROVE  Total(f) = Seg(f, "RESIDENTIAL") + Seg(f, "COMMERCIAL") + Seg(f, "AUTO")
  BY <1>2, <1>6, SegmentsAddUp
<1>7. /\ Total(c) = Seg(c, "RESIDENTIAL") + Seg(c, "COMMERCIAL") + Seg(c, "AUTO")
      /\ Total(u) = Seg(u, "RESIDENTIAL") + Seg(u, "COMMERCIAL") + Seg(u, "AUTO")
      /\ Total(s) = Seg(s, "RESIDENTIAL") + Seg(s, "COMMERCIAL") + Seg(s, "AUTO")
  <2> HIDE DEF s, Seg
  <2> QED
    BY <1>1, <1>6
<1>8. \A seg \in LossSegments : Seg(c, seg) \in Int /\ Seg(u, seg) \in Int /\ Seg(s, seg) \in Int
  <2> HIDE DEF s, Seg
  <2> QED
    BY <1>1, <1>3
<1> HIDE DEF c, u, s, g, Seg
<1>9. {"RESIDENTIAL", "COMMERCIAL", "AUTO"} \subseteq LossSegments
  BY DEF LossSegments
<1>10. Total(g) = Total(c) + Total(u) + Total(s)
  BY <1>4, <1>5, <1>7, <1>8, <1>9
<1> QED
  BY <1>10 DEF c, u, s, g

\* Multiplying an inequality by a number that is not negative.
LEMMA Times ==
  ASSUME NEW a \in Int, NEW b \in Int, a <= b, NEW t \in Nat
  PROVE  a * t <= b * t
OBVIOUS

\* A county loss is observed, missed or without values, or it is none.
LEMMA MatchedIsAllOfIt ==
  ASSUME NEW event, Amounts(event.county), NEW impacts, NEW tiv, NEW curve, NEW wind,
         \A k \in DOMAIN event.county : ValueOf(tiv, k) \in Int
  PROVE  LET m == MatchEvent(event, impacts, tiv, curve, wind)
         IN /\ Total(event.county) = Total(m.observed) + Total(m.miss) + Total(m.gap)
            /\ {Total(m.observed), Total(m.miss), Total(m.gap)} \subseteq Int
            /\ DOMAIN m.observed \cap DOMAIN m.miss = {} /\ DOMAIN m.observed \cap DOMAIN m.gap = {}
            /\ DOMAIN m.miss \cap DOMAIN m.gap = {}
            /\ \A k \in DOMAIN m.observed : InField(impacts, curve, wind, k[1]) /\ ValueOf(tiv, k) > 0
            /\ \A k \in DOMAIN m.miss : ~InField(impacts, curve, wind, k[1])
            /\ \A k \in DOMAIN m.gap : InField(impacts, curve, wind, k[1]) /\ ValueOf(tiv, k) <= 0
<1> DEFINE f == event.county
           seen == {k \in DOMAIN f : InField(impacts, curve, wind, k[1])}
           valued == {j \in seen : ValueOf(tiv, j) > 0}
           out == DOMAIN f \ seen
           bare == {j \in seen : ValueOf(tiv, j) <= 0}
           Lost(S) == {j \in S : f[j] > 0}
           m == MatchEvent(event, impacts, tiv, curve, wind)
<1>1. m.observed = Kept(f, valued) /\ m.miss = Kept(f, Lost(out)) /\ m.gap = Kept(f, Lost(bare))
  BY DEF MatchEvent, Kept
<1>2. /\ valued \cap out = {} /\ (valued \cup out) \cap bare = {} /\ DOMAIN f = (valued \cup out) \cup bare
      /\ valued \in SUBSET DOMAIN f /\ out \in SUBSET DOMAIN f /\ bare \in SUBSET DOMAIN f /\ valued \cup out \in SUBSET DOMAIN f
  <2>1. \A j \in seen : ValueOf(tiv, j) \in Int
    OBVIOUS
  <2>2. \A j \in seen : ValueOf(tiv, j) > 0 <=> ~ (ValueOf(tiv, j) <= 0)
    BY <2>1
  <2> HIDE DEF seen
  <2>3. seen \subseteq DOMAIN f
    BY DEF seen
  <2> QED
    BY <2>2, <2>3
<1>3. \A S \in SUBSET DOMAIN f : Lost(S) \in SUBSET DOMAIN f /\ SumOver(f, S) = SumOver(f, Lost(S))
  <2> SUFFICES ASSUME NEW S \in SUBSET DOMAIN f PROVE SumOver(f, S) = SumOver(f, Lost(S))
    OBVIOUS
  <2> DEFINE none == {j \in S : f[j] = 0}
  <2>1. /\ Lost(S) \in SUBSET DOMAIN f /\ none \in SUBSET DOMAIN f /\ Lost(S) \cap none = {} /\ S = Lost(S) \cup none
    BY DEF Amounts
  <2>2. \A x \in none : f[x] = 0
    OBVIOUS
  <2> HIDE DEF Lost, none, f
  <2>3. Amounts(f)
    BY DEF f
  <2>4. SumOver(f, Lost(S) \cup none) = SumOver(f, Lost(S)) + SumOver(f, none)
    BY <2>1, <2>3, PartsAddUp
  <2>5. SumOver(f, S) = SumOver(f, Lost(S) \cup none)
    BY <2>1, Zenon
  <2>6. IntOn(f, none) /\ SumOver(f, Lost(S)) \in Int
    BY <2>1, <2>3, TotalOfPart
  <2>7. SumOver(f, none) = 0
    BY <2>2, <2>6, SumType
  <2> QED
    BY <2>4, <2>5, <2>6, <2>7
<1>4. DOMAIN m.observed = valued /\ DOMAIN m.miss = Lost(out) /\ DOMAIN m.gap = Lost(bare)
  <2> HIDE DEF valued, out, bare, Lost, m
  <2> QED
    BY <1>1 DEF Kept
<1>5. Lost(out) \subseteq out /\ Lost(bare) \subseteq bare
  OBVIOUS
<1>16. /\ \A k \in valued : InField(impacts, curve, wind, k[1]) /\ ValueOf(tiv, k) > 0
       /\ \A k \in out : ~InField(impacts, curve, wind, k[1])
       /\ \A k \in bare : InField(impacts, curve, wind, k[1]) /\ ValueOf(tiv, k) <= 0
  OBVIOUS
<1>17. /\ \A k \in DOMAIN m.observed : InField(impacts, curve, wind, k[1]) /\ ValueOf(tiv, k) > 0
       /\ \A k \in DOMAIN m.miss : ~InField(impacts, curve, wind, k[1])
       /\ \A k \in DOMAIN m.gap : InField(impacts, curve, wind, k[1]) /\ ValueOf(tiv, k) <= 0
  <2> HIDE DEF valued, out, bare, Lost, m
  <2> QED
    BY <1>4, <1>5, <1>16
<1>6. Total(f) = SumOver(f, DOMAIN f)
  BY Zenon DEF Total, SumOver
<1> HIDE DEF valued, out, bare, Lost, m, f, seen
<1>7. Amounts(f)
  BY DEF f
<1>8. SumOver(f, valued \cup out) = SumOver(f, valued) + SumOver(f, out)
  BY <1>2, <1>7, PartsAddUp
<1>9. SumOver(f, (valued \cup out) \cup bare) = SumOver(f, valued \cup out) + SumOver(f, bare)
  BY <1>2, <1>7, PartsAddUp
<1>10. SumOver(f, DOMAIN f) = SumOver(f, (valued \cup out) \cup bare)
  BY <1>2, Zenon
<1>11. /\ Total(m.observed) = SumOver(f, valued) /\ SumOver(f, valued) \in Int
  BY <1>1, <1>2, <1>7, TotalOfPart
<1>12. /\ Total(m.miss) = SumOver(f, out) /\ SumOver(f, out) \in Int
  BY <1>1, <1>2, <1>3, <1>7, TotalOfPart
<1>13. /\ Total(m.gap) = SumOver(f, bare) /\ SumOver(f, bare) \in Int
  BY <1>1, <1>2, <1>3, <1>7, TotalOfPart
<1>14. Total(f) = Total(m.observed) + Total(m.miss) + Total(m.gap)
  BY <1>6, <1>8, <1>9, <1>10, <1>11, <1>12, <1>13
<1>15. /\ DOMAIN m.observed \cap DOMAIN m.miss = {} /\ DOMAIN m.observed \cap DOMAIN m.gap = {}
       /\ DOMAIN m.miss \cap DOMAIN m.gap = {}
  BY <1>2, <1>4, <1>5
<1> QED
  BY <1>11, <1>12, <1>13, <1>14, <1>15, <1>17 DEF m, f
(***************************************************************************)
(* Bringing a loss to another price level leaves it not negative.          *)
(***************************************************************************)
LEMMA DivNat ==
  ASSUME NEW a \in Nat, NEW b \in Nat, b > 0
  PROVE  a \div b \in Nat
OBVIOUS

\* A part of a whole that is at least a (negative) number is no less.
LEMMA DivBound ==
  ASSUME NEW v \in Int, NEW m \in Nat, v >= -m, NEW n \in Nat, n > 0, NEW t \in Nat, t <= n
  PROVE  (v * t) \div n \in Int /\ (v * t) \div n >= -m
<1> DEFINE q == (v * t) \div n
<1>1. v * t \in Int
  OBVIOUS
<1>2. (-m) * t <= v * t
  BY Times
<1>3. t * m <= n * m
  BY Times
<1>4. -(n * m) <= v * t
  <2>1. (-m) * t = -(t * m) /\ t * m \in Int /\ n * m \in Int
    OBVIOUS
  <2> QED
    BY <1>1, <1>2, <1>3, <2>1
<1>5. q \in Int /\ n * q <= v * t /\ v * t < n * (q + 1)
  BY <1>1
<1> HIDE DEF q
<1>6. ASSUME q < -m PROVE FALSE
  <2>1. q + 1 <= -m
    BY <1>5, <1>6
  <2>2. (q + 1) * n <= (-m) * n
    BY <1>5, <2>1, Times
  <2>3. n * (q + 1) <= -(n * m)
    BY <1>5, <2>2
  <2> QED
    BY <1>1, <1>4, <1>5, <2>3
<1> QED
  BY <1>5, <1>6 DEF q

\* Values of some years, none of them negative.
Points(p) ==
  /\ IsFiniteSet(DOMAIN p) /\ DOMAIN p \subseteq Int
  /\ \A y \in DOMAIN p : p[y] \in Nat
LEMMA AnnualType ==
  ASSUME NEW points, Points(points), NEW y \in Int
  PROVE  AnnualAt(points, y) \in Nat \cup {None}
<1> DEFINE known == DOMAIN points
           lo == Min(known)
           hi == Max(known)
           below == Max({k \in known : k <= y})
           above == Min({k \in known : k >= y})
           Past(edge, next) == IF points[edge] <= 0 \/ points[next] <= 0 THEN None
                               ELSE (points[edge] * points[edge]) \div points[next]
           between == IF below = above THEN points[y]
                      ELSE points[below] + ((points[above] - points[below]) * (y - below)) \div (above - below)
<1>0. /\ IsFiniteSet(known) /\ known \in SUBSET Int /\ Cardinality(known) \in Nat
      /\ \A k \in known : points[k] \in Nat
  BY FS_CardinalityType DEF Points
<1>1. AnnualAt(points, y) =
        CASE known = {} -> None
          [] Cardinality(known) = 1 -> IF y - lo \in {-1, 0, 1} THEN points[lo] ELSE None
          [] Cardinality(known) > 1 /\ y < lo -> IF lo - y > 1 THEN None ELSE Past(lo, Min(known \ {lo}))
          [] Cardinality(known) > 1 /\ y > hi -> IF y - hi > 1 THEN None ELSE Past(hi, Max(known \ {hi}))
          [] OTHER -> between
  BY Zenon DEF AnnualAt
<1>2. known # {} => /\ lo \in known /\ (\A k \in known : lo <= k) /\ hi \in known /\ (\A k \in known : k <= hi)
                    /\ Cardinality(known) >= 1
  <2>1. known # {} => Cardinality(known) # 0
    BY <1>0, FS_EmptySet
  <2> HIDE DEF known
  <2> QED
    BY <1>0, <2>1, MinOfFinite, MaxOfFinite
<1> HIDE DEF known, lo, hi
<1>3. \A edge \in known : \A next \in known : Past(edge, next) \in Nat \cup {None}
  <2> SUFFICES ASSUME NEW edge \in known, NEW next \in known, points[edge] > 0, points[next] > 0
               PROVE  (points[edge] * points[edge]) \div points[next] \in Nat
    <3>1. \A k \in known : ~ (points[k] <= 0) => points[k] > 0
      BY <1>0
    <3> QED
      BY <3>1
  <2>1. points[edge] \in Nat /\ points[next] \in Nat
    BY <1>0
  <2>2. points[edge] * points[edge] \in Nat
    BY <2>1
  <2> QED
    BY <2>1, <2>2, DivNat
<1>4. Cardinality(known) > 1 => \A k \in known : /\ known \ {k} # {} /\ IsFiniteSet(known \ {k}) /\ known \ {k} \in SUBSET Int
  <2> SUFFICES ASSUME Cardinality(known) > 1, NEW k \in known
               PROVE  known \ {k} # {} /\ IsFiniteSet(known \ {k}) /\ known \ {k} \in SUBSET Int
    OBVIOUS
  <2>1. IsFiniteSet(known \ {k}) /\ Cardinality(known \ {k}) = Cardinality(known) - 1
    BY <1>0, FS_RemoveElement
  <2>2. Cardinality(known \ {k}) # 0
    BY <1>0, <2>1
  <2>3. known \ {k} # {}
    BY <2>2, FS_EmptySet
  <2> QED
    BY <1>0, <2>1, <2>3
<1>a. known # {} => lo \in Int /\ hi \in Int /\ lo <= hi
  <2> SUFFICES ASSUME known # {} PROVE lo \in Int /\ hi \in Int /\ lo <= hi
    OBVIOUS
  <2>1. lo \in known /\ hi \in known
    BY <1>2
  <2> QED
    BY <1>0, <1>2, <2>1
<1>5. CASE known = {}
  <2>1. Cardinality(known) = 0
    BY <1>0, <1>5, FS_EmptySet
  <2>2. ~ (Cardinality(known) = 1) /\ ~ (Cardinality(known) > 1)
    BY <2>1
  <2> HIDE DEF Past, between
  <2> QED
    BY <1>1, <1>5, <2>2
<1>6. CASE known # {} /\ Cardinality(known) = 1
  BY <1>0, <1>1, <1>2, <1>6
<1>7. CASE known # {} /\ Cardinality(known) > 1 /\ y < lo
  <2>1. Min(known \ {lo}) \in known
    BY <1>2, <1>4, <1>7, MinOfFinite
  <2>2. Past(lo, Min(known \ {lo})) \in Nat \cup {None}
    BY <1>2, <1>3, <1>7, <2>1
  <2>3. Cardinality(known) # 1 /\ ~ (y > hi)
    BY <1>0, <1>a, <1>7
  <2> HIDE DEF Past, between
  <2> QED
    BY <1>1, <1>7, <2>2, <2>3
<1>8. CASE known # {} /\ Cardinality(known) > 1 /\ ~ (y < lo) /\ y > hi
  <2>1. Max(known \ {hi}) \in known
    BY <1>2, <1>4, <1>8, MaxOfFinite
  <2>2. Past(hi, Max(known \ {hi})) \in Nat \cup {None}
    BY <1>2, <1>3, <1>8, <2>1
  <2>3. Cardinality(known) # 1
    BY <1>0, <1>8
  <2> HIDE DEF Past, between
  <2> QED
    BY <1>1, <1>8, <2>2, <2>3
<1>9. CASE known # {} /\ Cardinality(known) > 1 /\ ~ (y < lo) /\ ~ (y > hi)
  <2>1. lo \in Int /\ hi \in Int /\ lo <= y /\ y <= hi
    BY <1>a, <1>9
  <2>2. /\ {k \in known : k <= y} # {} /\ IsFiniteSet({k \in known : k <= y}) /\ {k \in known : k <= y} \in SUBSET Int
        /\ {k \in known : k >= y} # {} /\ IsFiniteSet({k \in known : k >= y}) /\ {k \in known : k >= y} \in SUBSET Int
    <3>1. lo \in {k \in known : k <= y} /\ hi \in {k \in known : k >= y}
      BY <1>2, <1>9, <2>1
    <3>2. {k \in known : k <= y} \in SUBSET known /\ {k \in known : k >= y} \in SUBSET known
      OBVIOUS
    <3> QED
      BY <1>0, <3>1, <3>2, FS_Subset
  <2>3. below \in {k \in known : k <= y} /\ above \in {k \in known : k >= y}
    BY <2>2, MinOfFinite, MaxOfFinite
  <2> HIDE DEF below, above
  <2>4. /\ below \in known /\ above \in known /\ below \in Int /\ above \in Int /\ below <= y /\ y <= above
        /\ points[below] \in Nat /\ points[above] \in Nat
    BY <1>0, <2>3
  <2>5. between \in Nat
    <3>1. CASE below = above
      <4>1. y = below
        BY <2>4, <3>1
      <4> QED
        BY <2>4, <3>1, <4>1
    <3>2. CASE below # above
      <4> DEFINE v == points[above] - points[below]
                 t == y - below
                 n == above - below
      <4>1. v \in Int /\ v >= -points[below] /\ t \in Nat /\ n \in Nat /\ n > 0 /\ t <= n
        BY <2>4, <3>2
      <4> HIDE DEF v, t, n
      <4>2. (v * t) \div n \in Int /\ (v * t) \div n >= -points[below]
        BY <2>4, <4>1, DivBound
      <4>3. between = points[below] + (v * t) \div n
        BY <3>2 DEF v, t, n
      <4> HIDE DEF between
      <4> QED
        BY <2>4, <4>2, <4>3
    <3> QED
      BY <3>1, <3>2
  <2>6. Cardinality(known) # 1
    BY <1>0, <1>9
  <2> HIDE DEF Past, between
  <2> QED
    BY <1>1, <1>9, <2>5, <2>6
<1> QED
  BY <1>0, <1>2, <1>5, <1>6, <1>7, <1>8, <1>9

\* Growth and prices are never negative.
LEMMA GrowthType ==
  ASSUME None \notin Int, NEW series, \A k \in DOMAIN series : Points(series[k]),
         NEW geo, NEW metric, NEW d0 \in Int, NEW d1 \in Int
  PROVE  Growth(series, geo, metric, d0, d1)[1] \in Nat
<1> DEFINE Grown(key) == (100 * AnnualAt(series[<<key, metric>>], d1)) \div AnnualAt(series[<<key, metric>>], d0)
           county == geo.level = "COUNTY" /\ HasGrowth(series, geo.id, metric, "county", d0, d1)
           state == HasGrowth(series, geo.state, metric, "state", d0, d1)
<1>1. ASSUME NEW key, NEW level, HasGrowth(series, key, metric, level, d0, d1) PROVE Grown(key) \in Nat
  <2> DEFINE a == AnnualAt(series[<<key, metric>>], d0)
             b == AnnualAt(series[<<key, metric>>], d1)
  <2>1. <<key, metric>> \in DOMAIN series /\ a # None /\ b # None /\ a > 0
    BY <1>1 DEF HasGrowth
  <2>2. a \in Nat \cup {None} /\ b \in Nat \cup {None}
    BY <2>1, AnnualType
  <2> HIDE DEF a, b
  <2>3. a \in Nat /\ b \in Nat /\ 100 * b \in Nat
    BY <2>1, <2>2
  <2>4. (100 * b) \div a \in Nat
    BY <2>1, <2>3, DivNat
  <2> QED
    BY <2>4 DEF a, b
<1>2. Growth(series, geo, metric, d0, d1) =
        CASE county -> <<Grown(geo.id), "county">>
          [] ~ county /\ state -> <<Grown(geo.state), "state">>
          [] OTHER -> <<100, "flat">>
  BY Zenon DEF Growth
<1>3. county => Grown(geo.id) \in Nat
  BY <1>1
<1>4. state => Grown(geo.state) \in Nat
  BY <1>1
<1> HIDE DEF Grown, county, state
<1>5. CASE county
  BY <1>2, <1>3, <1>5
<1>6. CASE ~ county /\ state
  BY <1>2, <1>4, <1>6
<1>7. CASE ~ county /\ ~ state
  BY <1>2, <1>7
<1> QED
  BY <1>5, <1>6, <1>7

\* A price is of some year, or there is none.
LEMMA PriceType ==
  ASSUME NEW prices, \A k \in DOMAIN prices : Points(prices[k]), NEW key, NEW d0 \in Int, NEW d1 \in Int
  PROVE  Price(prices, key, d0, d1) \in Nat
<1> DEFINE Known(y) == {k \in DOMAIN prices[key] : k <= y}
           At(y) == IF Known(y) = {} THEN 0 ELSE prices[key][Max(Known(y))]
<1>1. Price(prices, key, d0, d1) =
        IF key \in DOMAIN prices /\ At(d0) > 0 /\ At(d1) > 0 THEN (100 * At(d1)) \div At(d0) ELSE 100
  BY Zenon DEF Price
<1>2. ASSUME key \in DOMAIN prices, NEW y \in Int PROVE At(y) \in Nat
  <2> SUFFICES ASSUME Known(y) # {} PROVE prices[key][Max(Known(y))] \in Nat
    OBVIOUS
  <2>1. /\ IsFiniteSet(DOMAIN prices[key]) /\ DOMAIN prices[key] \subseteq Int
        /\ \A k \in DOMAIN prices[key] : prices[key][k] \in Nat
    BY <1>2 DEF Points
  <2>2. Known(y) \in SUBSET DOMAIN prices[key]
    OBVIOUS
  <2>3. IsFiniteSet(Known(y)) /\ Known(y) \in SUBSET Int
    BY <2>1, <2>2, FS_Subset
  <2>4. Max(Known(y)) \in Known(y)
    BY <2>3, MaxOfFinite
  <2> QED
    BY <2>1, <2>2, <2>4
<1> HIDE DEF At
<1>3. ASSUME key \in DOMAIN prices, At(d0) > 0 PROVE (100 * At(d1)) \div At(d0) \in Nat
  <2>1. At(d0) \in Nat /\ At(d1) \in Nat
    BY <1>2, <1>3
  <2>2. 100 * At(d1) \in Nat
    BY <2>1
  <2> QED
    BY <1>3, <2>1, <2>2, DivNat
<1> QED
  BY <1>1, <1>3

\* So is the factor of a place and segment.
IndexType(ix) ==
  /\ \A k \in DOMAIN ix.series : Points(ix.series[k])
  /\ \A k \in DOMAIN ix.prices : Points(ix.prices[k])
LEMMA FactorType ==
  ASSUME None \notin Int, NEW ix, IndexType(ix), NEW geo, NEW seg \in LossSegments, NEW d0 \in Int, NEW d1 \in Int
  PROVE  FactorOf(ix, geo, seg, d0, d1) \in Nat
<1> DEFINE Grow(metric) == Growth(ix.series, geo, metric, d0, d1)[1]
           CostOf(key) == Cost(ix, geo, key, d0, d1)
           PriceOf(key) == Price(ix.prices, key, d0, d1)
<1>1. \A metric : Grow(metric) \in Nat
  BY GrowthType DEF IndexType
<1>2. \A key : PriceOf(key) \in Nat
  BY PriceType DEF IndexType
<1>3. ASSUME NEW key PROVE CostOf(key) \in Nat
  <2> DEFINE pay == Growth(ix.series, [geo EXCEPT !.level = "STATE"], "CONS_PAY", d0, d1)[1]
  <2>1. pay \in Nat
    BY GrowthType DEF IndexType
  <2>2. CostOf(key) = (55 * PriceOf(key) + 45 * pay) \div 100
    BY DEF Cost
  <2> HIDE DEF pay, PriceOf, CostOf
  <2>3. 55 * PriceOf(key) + 45 * pay \in Nat
    <3>1. \A x, y \in Nat : 55 * x + 45 * y \in Nat
      OBVIOUS
    <3> QED
      BY <1>2, <2>1, <3>1, Zenon
  <2> QED
    BY <2>2, <2>3, DivNat
<1>4. FactorOf(ix, geo, seg, d0, d1) =
        CASE seg = "RESIDENTIAL" -> (Grow("HU") * CostOf("PPI_RES_INPUTS")) \div 100
          [] seg = "COMMERCIAL" -> (62 * Grow("EMP") * CostOf("PPI_NONRES_INPUTS") + 38 * 100 * Grow("WAGES")) \div 10000
          [] seg = "AUTO" -> (Grow("POP") * PriceOf("CPI_USED_VEHICLES")) \div 100
  BY Zenon DEF FactorOf
<1> HIDE DEF Grow, CostOf, PriceOf
<1>5. (Grow("HU") * CostOf("PPI_RES_INPUTS")) \div 100 \in Nat
  <2>1. Grow("HU") * CostOf("PPI_RES_INPUTS") \in Nat
    BY <1>1, <1>3
  <2> QED
    BY <2>1, DivNat
<1>6. (62 * Grow("EMP") * CostOf("PPI_NONRES_INPUTS") + 38 * 100 * Grow("WAGES")) \div 10000 \in Nat
  <2>1. Grow("EMP") \in Nat /\ CostOf("PPI_NONRES_INPUTS") \in Nat /\ Grow("WAGES") \in Nat
    BY <1>1, <1>3
  <2>2. 62 * Grow("EMP") * CostOf("PPI_NONRES_INPUTS") \in Nat /\ 38 * 100 * Grow("WAGES") \in Nat
    BY <2>1
  <2>3. 62 * Grow("EMP") * CostOf("PPI_NONRES_INPUTS") + 38 * 100 * Grow("WAGES") \in Nat
    BY <2>2
  <2> QED
    BY <2>3, DivNat
<1>7. (Grow("POP") * PriceOf("CPI_USED_VEHICLES")) \div 100 \in Nat
  <2>1. Grow("POP") * PriceOf("CPI_USED_VEHICLES") \in Nat
    BY <1>1, <1>2
  <2> QED
    BY <2>1, DivNat
<1>8. CASE seg = "RESIDENTIAL"
  BY <1>4, <1>5, <1>8
<1>9. CASE seg = "COMMERCIAL"
  BY <1>4, <1>6, <1>9
<1>10. CASE seg = "AUTO"
  BY <1>4, <1>7, <1>10
<1> QED
  BY <1>8, <1>9, <1>10 DEF LossSegments

\* And the analyst's multipliers leave it so.
AdjustedLoss(loss, adjustments, storm, geo, seg) ==
  FoldLeft(LAMBDA x, adj : IF Matches(adj, storm, geo, seg) THEN (x * adj.factor) \div 100 ELSE x, loss, adjustments)
LEMMA AdjustedType ==
  ASSUME NEW adjustments, IsFiniteSet(DOMAIN adjustments), DOMAIN adjustments \in SUBSET Int,
         \A i \in DOMAIN adjustments : adjustments[i].factor \in Nat,
         NEW loss \in Nat, NEW storm, NEW geo, NEW seg
  PROVE  AdjustedLoss(loss, adjustments, storm, geo, seg) \in Nat
<1> DEFINE D == DOMAIN adjustments
           c == [s \in SUBSET D |-> Max(s)]
           Applied(x, i) == IF Matches(adjustments[i], storm, geo, seg) THEN (x * adjustments[i].factor) \div 100 ELSE x
           g == [p \in D \X Nat |-> Applied(p[2], p[1])]
           iter == CHOOSE iter : iter = [s \in SUBSET D |->
                     IF s = {} THEN loss
                     ELSE IF Matches(adjustments[Max(s)], storm, geo, seg)
                          THEN (iter[s \ {Max(s)}] * adjustments[Max(s)].factor) \div 100 ELSE iter[s \ {Max(s)}]]
<1>0. AdjustedLoss(loss, adjustments, storm, geo, seg) = iter[D]
  BY Zenon DEF AdjustedLoss, FoldLeft, MapThenFoldSet
<1>1. \A s \in SUBSET D : s # {} => c[s] \in s
  <2> SUFFICES ASSUME NEW s \in SUBSET D, s # {} PROVE Max(s) \in s
    OBVIOUS
  <2>1. IsFiniteSet(s) /\ s \in SUBSET Int
    BY FS_Subset
  <2> QED
    BY <2>1, MaxOfFinite
<1>2. ASSUME NEW x \in Nat, NEW i \in D PROVE Applied(x, i) \in Nat
  <2>1. adjustments[i].factor \in Nat
    OBVIOUS
  <2>2. x * adjustments[i].factor \in Nat
    BY <2>1
  <2>3. (x * adjustments[i].factor) \div 100 \in Nat
    BY <2>2, DivNat
  <2> QED
    BY <2>3
<1>3. g \in [D \X Nat -> Nat]
  <2> HIDE DEF Applied
  <2> QED
    BY <1>2
<1>4. PICK h \in [SUBSET D -> Nat] : Folds(h, D, loss, c, g)
  <2> HIDE DEF c, g
  <2> QED
    BY <1>1, <1>3, FoldExists
<1>5. \A s \in SUBSET D : h[s] = IF s = {} THEN loss ELSE Applied(h[s \ {Max(s)}], Max(s))
  <2> SUFFICES ASSUME NEW s \in SUBSET D, s # {} PROVE h[s] = Applied(h[s \ {Max(s)}], Max(s))
    BY <1>4 DEF Folds
  <2>1. c[s] = Max(s)
    OBVIOUS
  <2>2. c[s] \in D /\ h[s \ {c[s]}] \in Nat /\ h[s] = g[<<c[s], h[s \ {c[s]}]>>]
    <3> HIDE DEF c, g
    <3> QED
      BY <1>1, <1>4 DEF Folds
  <2> HIDE DEF c, Applied
  <2>3. h[s] = Applied(h[s \ {c[s]}], c[s])
    BY <2>2
  <2> QED
    BY <2>1, <2>3, Zenon
<1>6. h = [s \in SUBSET D |-> IF s = {} THEN loss ELSE Applied(h[s \ {Max(s)}], Max(s))]
  <2> HIDE DEF Applied
  <2> QED
    BY <1>5
<1>7. iter = [s \in SUBSET D |-> IF s = {} THEN loss ELSE Applied(iter[s \ {Max(s)}], Max(s))]
  BY <1>6, Zenon
<1> HIDE DEF iter, Applied
<1> DEFINE C == {s \in SUBSET D : iter[s] \in Nat}
<1>8. \A s \in SUBSET D : (\A x \in s : s \ {x} \in C) => s \in C
  <2> SUFFICES ASSUME NEW s \in SUBSET D, \A x \in s : s \ {x} \in C PROVE iter[s] \in Nat
    OBVIOUS
  <2>1. CASE s = {}
    BY <1>7, <2>1
  <2>2. CASE s # {}
    <3>1. Max(s) \in s
      BY <1>1, <2>2
    <3>2. iter[s \ {Max(s)}] \in Nat /\ Max(s) \in D
      BY <3>1
    <3>3. iter[s] = Applied(iter[s \ {Max(s)}], Max(s))
      BY <1>7, <2>2
    <3> QED
      BY <1>2, <3>2, <3>3
  <2> QED
    BY <2>1, <2>2
<1>9. \A s \in SUBSET D : s \in C
  <2> HIDE DEF C, D
  <2>1. IsFiniteSet(D)
    BY DEF D
  <2> QED
    BY <1>8, <2>1, ByRemoval
<1>10. iter[D] \in Nat
  BY <1>9
<1> QED
  BY <1>0, <1>10
\* An event is loaded with losses that are not negative; on-levelling leaves
\* them so.
EventType(e) ==
  /\ {"county", "state", "unallocated"} \subseteq DOMAIN e
  /\ Amounts(e.county) /\ Amounts(e.state) /\ Amounts(e.unallocated)
Multipliers(adjustments) ==
  /\ IsFiniteSet(DOMAIN adjustments) /\ DOMAIN adjustments \in SUBSET Int
  /\ \A i \in DOMAIN adjustments : adjustments[i].factor \in Nat
LEMMA OnlevelType ==
  ASSUME None \notin Int, NEW event, EventType(event), event.date \in Int \cup {None}, event.storm.year \in Int,
         NEW ix, ix = None \/ IndexType(ix), NEW adjustments, Multipliers(adjustments), NEW target \in Int
  PROVE  EventType(OnlevelActuals(event, ix, adjustments, target))
<1> DEFINE keys == DOMAIN event.county \cup DOMAIN event.state \cup DOMAIN event.unallocated
           d0 == IF event.date # None THEN event.date ELSE event.storm.year
           factor == [k \in keys |-> FactorOf(ix, k[1], k[2], d0, target)]
           All(f) == [k \in DOMAIN f |-> AdjustedLoss((f[k] * factor[k]) \div 100, adjustments, event.storm, k[1], k[2])]
<1>1. CASE ix = None
  BY <1>1 DEF OnlevelActuals
<1>2. CASE ix # None
  <2>1. OnlevelActuals(event, ix, adjustments, target) =
          [event EXCEPT !.county = All(event.county), !.state = All(event.state), !.unallocated = All(event.unallocated)]
    BY <1>2, Zenon DEF OnlevelActuals, Given, AdjustedLoss
  <2>2. d0 \in Int
    OBVIOUS
  <2> HIDE DEF d0
  <2>3. \A k \in keys : factor[k] \in Nat
    <3> SUFFICES ASSUME NEW k \in keys PROVE FactorOf(ix, k[1], k[2], d0, target) \in Nat
      OBVIOUS
    <3>1. k[2] \in LossSegments
      BY DEF EventType, Amounts
    <3> QED
      BY <1>2, <2>2, <3>1, FactorType
  <2> HIDE DEF factor
  <2>4. ASSUME NEW f, Amounts(f), DOMAIN f \subseteq keys PROVE Amounts(All(f))
    <3>1. DOMAIN All(f) = DOMAIN f
      OBVIOUS
    <3>2. ASSUME NEW k \in DOMAIN f PROVE All(f)[k] \in Nat
      <4>1. f[k] \in Nat /\ factor[k] \in Nat
        BY <2>3, <2>4 DEF Amounts
      <4>2. f[k] * factor[k] \in Nat
        BY <4>1
      <4>3. (f[k] * factor[k]) \div 100 \in Nat
        BY <4>2, DivNat
      <4>4. AdjustedLoss((f[k] * factor[k]) \div 100, adjustments, event.storm, k[1], k[2]) \in Nat
        BY <4>3, AdjustedType DEF Multipliers
      <4> QED
        BY <4>4
    <3> HIDE DEF All
    <3> QED
      BY <2>4, <3>1, <3>2 DEF Amounts
  <2>5. Amounts(All(event.county)) /\ Amounts(All(event.state)) /\ Amounts(All(event.unallocated))
    <3> HIDE DEF All
    <3>1. Amounts(event.county) /\ Amounts(event.state) /\ Amounts(event.unallocated)
      BY DEF EventType
    <3>2. DOMAIN event.county \subseteq keys /\ DOMAIN event.state \subseteq keys /\ DOMAIN event.unallocated \subseteq keys
      OBVIOUS
    <3> HIDE DEF keys
    <3> QED
      BY <2>4, <3>1, <3>2
  <2> DEFINE e == [event EXCEPT !.county = All(event.county), !.state = All(event.state), !.unallocated = All(event.unallocated)]
  <2>6. /\ DOMAIN e = DOMAIN event
        /\ e.county = All(event.county) /\ e.state = All(event.state) /\ e.unallocated = All(event.unallocated)
    <3> HIDE DEF All
    <3> QED
      BY DEF EventType
  <2> HIDE DEF e, All
  <2>7. EventType(e)
    BY <2>5, <2>6 DEF EventType
  <2>8. OnlevelActuals(event, ix, adjustments, target) = e
    BY <2>1 DEF e
  <2> QED
    BY <2>7, <2>8
<1> QED
  BY <1>1, <1>2

\* The losses of some rows add up to none that is negative.
LossesOf(rows, S) == MapThenSumSet(LAMBDA i : rows[i].loss, S)
LEMMA LossesType ==
  ASSUME NEW rows, NEW S, IsFiniteSet(S), \A i \in S : rows[i].loss \in Nat
  PROVE  LossesOf(rows, S) \in Nat
<1> DEFINE f == [i \in S |-> rows[i].loss]
           it == CHOOSE iter : iter = [s \in SUBSET S |->
                   IF s = {} THEN 0 ELSE rows[CHOOSE x \in s : TRUE].loss + iter[s \ {CHOOSE x \in s : TRUE}]]
           h == Running(f, S)
<1>1. LossesOf(rows, S) = it[S]
  BY Zenon DEF LossesOf, MapThenSumSet, MapThenFoldSet
<1>2. \A s \in SUBSET S : s # {} => AnyOf(s) \in s /\ AnyOf(s) \in S
  BY DEF AnyOf
<1>3. h \in [SUBSET S -> Int] /\ h[{}] = 0 /\ \A s \in SUBSET S : s # {} => h[s] = f[AnyOf(s)] + h[s \ {AnyOf(s)}]
  <2>1. IntOn(f, S)
    BY DEF IntOn
  <2>2. Adds(h, f, S)
    <3> HIDE DEF f
    <3> QED
      BY <2>1, RunningSum
  <2> HIDE DEF f, h
  <2> QED
    BY <2>2, Zenon DEF Adds
<1>4. h = [s \in SUBSET S |-> IF s = {} THEN 0 ELSE rows[AnyOf(s)].loss + h[s \ {AnyOf(s)}]]
  <2> HIDE DEF h
  <2>1. \A s \in SUBSET S : s # {} => h[s] = rows[AnyOf(s)].loss + h[s \ {AnyOf(s)}]
    BY <1>2, <1>3
  <2> QED
    BY <1>3, <2>1
<1>5. it = [s \in SUBSET S |-> IF s = {} THEN 0 ELSE rows[AnyOf(s)].loss + it[s \ {AnyOf(s)}]]
  <2> HIDE DEF h
  <2> QED
    BY <1>4, Zenon DEF AnyOf
<1> HIDE DEF it
<1> DEFINE C == {s \in SUBSET S : it[s] \in Nat}
<1>6. \A s \in SUBSET S : (\A x \in s : s \ {x} \in C) => s \in C
  <2> SUFFICES ASSUME NEW s \in SUBSET S, \A x \in s : s \ {x} \in C PROVE it[s] \in Nat
    OBVIOUS
  <2>1. CASE s = {}
    BY <1>5, <2>1
  <2>2. CASE s # {}
    <3>1. it[s] = rows[AnyOf(s)].loss + it[s \ {AnyOf(s)}]
      BY <1>5, <2>2
    <3>2. AnyOf(s) \in s /\ rows[AnyOf(s)].loss \in Nat
      BY <1>2, <2>2
    <3>3. it[s \ {AnyOf(s)}] \in Nat
      BY <3>2
    <3> QED
      BY <3>1, <3>2, <3>3
  <2> QED
    BY <2>1, <2>2
<1>7. \A s \in SUBSET S : s \in C
  <2> HIDE DEF C
  <2> QED
    BY <1>6, ByRemoval
<1> QED
  BY <1>1, <1>7

\* Rows of a loss file: a loss, a date and a storm, or none of them.
RowsType(rows) ==
  /\ rows \in Seq(Range(rows))
  /\ \A i \in DOMAIN rows : /\ rows[i].loss \in Nat \cup {None} /\ rows[i].date \in Int \cup {None}
                            /\ rows[i].storm = None \/ rows[i].storm.year \in Int
\* Every event of the loaded rows has losses that are not negative.
LEMMA LoadedType ==
  ASSUME NEW rows, RowsType(rows), LoadActuals(rows) # Invalid, NEW s \in DOMAIN LoadActuals(rows)
  PROVE  /\ EventType(LoadActuals(rows)[s])
         /\ LoadActuals(rows)[s].date \in Int \cup {None} /\ LoadActuals(rows)[s].storm.year \in Int
<1> DEFINE D == DOMAIN rows
           Own(z) == {i \in D : rows[i].storm = z}
           county(z) == {i \in Own(z) : ~rows[i].part /\ rows[i].geo.level = "COUNTY"}
           states(z) == {i \in Own(z) : ~rows[i].part /\ rows[i].geo.level = "STATE"}
           parts(z) == {i \in Own(z) : rows[i].part}
           key(i) == <<rows[i].geo, rows[i].seg>>
           Sums(S) == [k \in {key(i) : i \in S} |-> LossesOf(rows, {i \in S : key(i) = k})]
           counted(z) == {i \in county(z) : rows[i].claims # None}
           claims(S) == [k \in {key(i) : i \in S} |-> MapThenSumSet(LAMBDA i : rows[i].claims, {i \in S : key(i) = k})]
           dated(z) == {i \in Own(z) : rows[i].date # None}
           E(z) == [storm |-> z, cur |-> rows[Min(Own(z))].cur, county |-> Sums(county(z)), state |-> Sums(states(z)),
                    unallocated |-> Sums(parts(z)), claims |-> claims(counted(z)),
                    date |-> IF dated(z) = {} THEN None ELSE rows[Max(dated(z))].date]
<1>1. LoadActuals(rows) = IF \E i \in D : BadRow(rows, i) THEN Invalid
                          ELSE [z \in {rows[i].storm : i \in D} |-> E(z)]
  BY Zenon DEF LoadActuals, LossesOf
<1>2. D = 1..Len(rows) /\ Len(rows) \in Nat /\ IsFiniteSet(D) /\ D \in SUBSET Int
  <2>1. D = 1..Len(rows) /\ Len(rows) \in Nat
    BY LenProperties DEF RowsType
  <2>2. 1 \in Int /\ Len(rows) \in Int
    BY <2>1
  <2>3. IsFiniteSet(1..Len(rows))
    BY <2>2, FS_Interval
  <2> QED
    BY <2>1, <2>3
<1> HIDE DEF E
<1>3. ~ \E i \in D : BadRow(rows, i)
  BY <1>1
<1>4. DOMAIN LoadActuals(rows) = {rows[i].storm : i \in D} /\ LoadActuals(rows)[s] = E(s)
  BY <1>1, <1>3
<1>5. \A i \in D : /\ rows[i].loss \in Nat /\ rows[i].seg \in LossSegments /\ rows[i].storm # None
                   /\ rows[i].storm.year \in Int
  BY <1>3 DEF BadRow, RowsType
<1>6. s.year \in Int
  <2>1. PICK i \in D : s = rows[i].storm
    BY <1>4
  <2> QED
    BY <1>5, <2>1
<1>7. ASSUME NEW S \in SUBSET D PROVE Amounts(Sums(S))
  <2> DEFINE kf == [i \in S |-> key(i)]
  <2>1. IsFiniteSet(S)
    BY <1>2, FS_Subset
  <2>2. {key(i) : i \in S} = {kf[i] : i \in S}
    OBVIOUS
  <2>3. IsFiniteSet({kf[i] : i \in S})
    <3> HIDE DEF kf
    <3> QED
      BY <2>1, FiniteImage
  <2>4. IsFiniteSet({key(i) : i \in S})
    BY <2>2, <2>3
  <2>5. ASSUME NEW k \in {key(i) : i \in S} PROVE LossesOf(rows, {i \in S : key(i) = k}) \in Nat /\ k[2] \in LossSegments
    <3> DEFINE T == {i \in S : key(i) = k}
    <3>1. T \in SUBSET S
      OBVIOUS
    <3>2. IsFiniteSet(T) /\ \A i \in T : rows[i].loss \in Nat
      BY <1>5, <2>1, <3>1, FS_Subset
    <3> HIDE DEF T
    <3>3. LossesOf(rows, T) \in Nat
      BY <3>2, LossesType
    <3>4. k[2] \in LossSegments
      BY <1>5
    <3> QED
      BY <3>3, <3>4 DEF T
  <2>6. DOMAIN Sums(S) = {key(i) : i \in S} /\ \A k \in {key(i) : i \in S} : Sums(S)[k] = LossesOf(rows, {i \in S : key(i) = k})
    OBVIOUS
  <2> HIDE DEF Sums
  <2> QED
    BY <2>4, <2>5, <2>6 DEF Amounts
<1>8. county(s) \in SUBSET D /\ states(s) \in SUBSET D /\ parts(s) \in SUBSET D /\ dated(s) \in SUBSET D
  OBVIOUS
<1>9. /\ {"county", "state", "unallocated"} \subseteq DOMAIN E(s)
      /\ E(s).county = Sums(county(s)) /\ E(s).state = Sums(states(s)) /\ E(s).unallocated = Sums(parts(s))
      /\ E(s).storm = s /\ E(s).date = IF dated(s) = {} THEN None ELSE rows[Max(dated(s))].date
  <2> HIDE DEF Sums, claims, county, states, parts, dated, counted, Own
  <2> QED
    BY DEF E
<1>10. EventType(E(s))
  <2> HIDE DEF Sums, county, states, parts
  <2> QED
    BY <1>7, <1>8, <1>9 DEF EventType
<1>11. E(s).date \in Int \cup {None}
  <2> SUFFICES ASSUME dated(s) # {} PROVE rows[Max(dated(s))].date \in Int \cup {None}
    BY <1>9
  <2> HIDE DEF dated, D
  <2>1. IsFiniteSet(dated(s)) /\ dated(s) \in SUBSET Int
    BY <1>2, <1>8, FS_Subset
  <2>2. Max(dated(s)) \in D
    BY <1>8, <2>1, MaxOfFinite
  <2> QED
    BY <2>2 DEF RowsType, D
<1> QED
  BY <1>4, <1>6, <1>9, <1>10, <1>11
\* The back-test accounts for every loss of such an event.
Accounted(e, r) ==
  /\ Total(r.actual) = Total(r.observed) + Total(r.miss) + Total(r.gap)
                         + (Total(e.unallocated) + Total([k \in {j \in DOMAIN e.state : StateCounts(e, j)} |-> e.state[k]]))
  /\ DOMAIN r.observed \cap DOMAIN r.miss = {} /\ DOMAIN r.observed \cap DOMAIN r.gap = {}
  /\ DOMAIN r.miss \cap DOMAIN r.gap = {}
\* Each of them is in its place: "tiv" and "curve" are those of the back-test.
InPlace_(r, impacts, tiv, curve, wind) ==
  /\ \A k \in DOMAIN r.observed : InField(impacts, curve, wind, k[1]) /\ ValueOf(tiv, k) > 0
  /\ \A k \in DOMAIN r.miss : ~InField(impacts, curve, wind, k[1])
  /\ \A k \in DOMAIN r.gap : InField(impacts, curve, wind, k[1]) /\ ValueOf(tiv, k) <= 0
TableType(tiv) == tiv.asOf \in Int /\ \A geo \in DOMAIN tiv.county : Range(tiv.county[geo]) \subseteq Int
LEMMA BacktestAccounts ==
  ASSUME NEW e, EventType(e), NEW impacts, NEW tiv, TableType(tiv), NEW curve, NEW wind
  PROVE  /\ Accounted(e, Backtest(e, impacts, tiv, curve, wind))
         /\ InPlace_(Backtest(e, impacts, tiv, curve, wind), impacts, tiv, curve, wind)
<1> DEFINE r == Backtest(e, impacts, tiv, curve, wind)
           m == MatchEvent(e, impacts, tiv, curve, wind)
<1>1. r.actual = SegmentTotals(e) /\ r.observed = m.observed /\ r.miss = m.miss /\ r.gap = m.gap
  BY DEF Backtest
<1>2. \A k : ValueOf(tiv, k) \in Int
  BY DEF ValueOf, Get, TableType, Range
<1>3. Amounts(e.county) /\ Amounts(e.state) /\ Amounts(e.unallocated)
  BY DEF EventType
<1>4. /\ Total(e.county) = Total(m.observed) + Total(m.miss) + Total(m.gap)
      /\ {Total(m.observed), Total(m.miss), Total(m.gap)} \subseteq Int
      /\ DOMAIN m.observed \cap DOMAIN m.miss = {} /\ DOMAIN m.observed \cap DOMAIN m.gap = {}
      /\ DOMAIN m.miss \cap DOMAIN m.gap = {}
      /\ \A k \in DOMAIN m.observed : InField(impacts, curve, wind, k[1]) /\ ValueOf(tiv, k) > 0
      /\ \A k \in DOMAIN m.miss : ~InField(impacts, curve, wind, k[1])
      /\ \A k \in DOMAIN m.gap : InField(impacts, curve, wind, k[1]) /\ ValueOf(tiv, k) <= 0
  <2> HIDE DEF m
  <2> QED
    BY <1>2, <1>3, MatchedIsAllOfIt DEF m
<1>5. Total(SegmentTotals(e)) = Total(e.county) + Total(e.unallocated) + Total(Standing(e))
  BY <1>3, ActualIsTheEvent
<1>6. Standing(e) = [k \in {j \in DOMAIN e.state : StateCounts(e, j)} |-> e.state[k]]
  BY DEF Standing, Kept
<1>7. Total(e.unallocated) \in Int /\ Total(Standing(e)) \in Int
  BY <1>3, EventTotals
<1> HIDE DEF r, m
<1>8. Total(r.actual) = Total(r.observed) + Total(r.miss) + Total(r.gap) + (Total(e.unallocated) + Total(Standing(e)))
  BY <1>1, <1>4, <1>5, <1>7
<1>9. Accounted(e, r)
  BY <1>1, <1>4, <1>6, <1>8 DEF Accounted
<1>10. InPlace_(r, impacts, tiv, curve, wind)
  BY <1>1, <1>4, Zenon DEF InPlace_
<1> QED
  BY <1>9, <1>10 DEF r

\* The values compared with are of a table that is there.
LEMMA VintageType ==
  ASSUME NEW supplied, IsFiniteSet(DOMAIN supplied), DOMAIN supplied \subseteq Int, \A y \in DOMAIN supplied : TableType(supplied[y]),
         NEW book, TableType(book), NEW year
  PROVE  TableType(TivForYear(supplied, book, year).tiv)
<1> DEFINE years == DOMAIN supplied
           earlier == {y \in years : y <= year}
           pick == IF earlier # {} THEN Max(earlier) ELSE Min(years)
<1>1. CASE years = {}
  BY <1>1 DEF TivForYear
<1>2. CASE years # {}
  <2>1. IsFiniteSet(earlier) /\ earlier \in SUBSET Int /\ earlier \subseteq years
    <3>1. earlier \in SUBSET years
      OBVIOUS
    <3> QED
      BY <3>1, FS_Subset
  <2> HIDE DEF earlier
  <2>2. earlier # {} => Max(earlier) \in years
    BY <2>1, MaxOfFinite
  <2>3. Min(years) \in years
    BY <1>2, MinOfFinite
  <2>4. pick \in years
    BY <2>2, <2>3
  <2>5. TivForYear(supplied, book, year).tiv = supplied[pick]
    BY <1>2 DEF TivForYear, earlier
  <2> HIDE DEF pick
  <2> QED
    BY <2>4, <2>5
<1> QED
  BY <1>1, <1>2

\* The year they are of says which table it is.
LEMMA VintageIsNamed ==
  ASSUME NEW supplied, IsFiniteSet(DOMAIN supplied), DOMAIN supplied \subseteq Int, None \notin Int, NEW book, NEW year
  PROVE  LET vintage == TivForYear(supplied, book, year)
         IN vintage.tiv = IF vintage.year = None THEN book ELSE supplied[vintage.year]
<1> DEFINE years == DOMAIN supplied
           earlier == {y \in years : y <= year}
           pick == IF earlier # {} THEN Max(earlier) ELSE Min(years)
<1>1. CASE years = {}
  BY <1>1 DEF TivForYear
<1>2. CASE years # {}
  <2>1. IsFiniteSet(earlier) /\ earlier \in SUBSET Int /\ earlier \subseteq years
    <3>1. earlier \in SUBSET years
      OBVIOUS
    <3> QED
      BY <3>1, FS_Subset
  <2> HIDE DEF earlier
  <2>2. earlier # {} => Max(earlier) \in years
    BY <2>1, MaxOfFinite
  <2>3. Min(years) \in years
    BY <1>2, MinOfFinite
  <2>4. pick \in years /\ pick # None
    BY <2>2, <2>3
  <2>5. TivForYear(supplied, book, year).tiv = supplied[pick] /\ TivForYear(supplied, book, year).year = pick
    BY <1>2 DEF TivForYear, earlier
  <2> HIDE DEF pick
  <2> QED
    BY <2>4, <2>5
<1> QED
  BY <1>1, <1>2

\* A step that answers a back-test accounts for its event.
LEMMA BacktestStepsAccount ==
  ASSUME BacktestCall
  PROVE  EveryLossIsAccountedFor'
<1>1. PICK file, given, rows, supplied, files, ix, adjustments, evidence, wanted :
        /\ rows \in LossFiles /\ supplied \in TivFiles /\ ix \in Indices /\ adjustments \in AdjustmentLists
        /\ call' = [op |-> "backtest", supplied |-> supplied, files |-> files, impacts |-> given.impacts]
        /\ reply' = BacktestReply(rows, given.storm, supplied, Book, LoadCurveSets(files, Prior), Prior, None, given.impacts,
                                  [past |-> TRUE, wanted |-> wanted, evidence |-> evidence], ix, adjustments, TRUE)
  BY Zenon DEF BacktestCall
<1> DEFINE events == LoadActuals(rows)
           storm == given.storm
           sets == LoadCurveSets(files, Prior)
           id == ResolveCurveSet(sets, Prior, None)
           vintage == TivForYear(supplied, Book, storm.year)
           tiv == vintage.tiv
           wind == [past |-> TRUE, wanted |-> wanted, evidence |-> evidence]
           observed == ObservedWind(wind.wanted, wind.past, wind.evidence, sets[id], given.impacts)
           known == events # Invalid /\ storm \in DOMAIN events
           e == OnlevelActuals(events[storm], ix, adjustments, tiv.asOf)
           answer == [event |-> e, curve |-> id, vintage |-> vintage.year, observed |-> observed,
                      result |-> Backtest(e, given.impacts, tiv, sets[id], observed)]
<1>2. reply' = CASE events = Invalid -> Invalid
                 [] events # Invalid /\ (~known \/ id \notin DOMAIN sets) -> NotFound
                 [] known /\ id \in DOMAIN sets /\ events[storm].cur # tiv.cur -> Invalid
                 [] OTHER -> answer
  BY <1>1, Zenon DEF BacktestReply, Given
<1>17. tiv = IF vintage.year = None THEN Book ELSE supplied[vintage.year]
  BY <1>1, LossAssumption, VintageIsNamed
<1>3. None \notin Int
  BY LossAssumption
<1>4. RowsType(rows)
  BY <1>1, LossAssumption, Zenon DEF RowsType
<1>5. TableType(tiv)
  <2>1. IsFiniteSet(DOMAIN supplied) /\ DOMAIN supplied \subseteq Int
    BY <1>1, LossAssumption, Zenon
  <2>2. \A t \in {Book} \cup UNION {Range(years) : years \in TivFiles} : TableType(t)
    BY LossAssumption, Zenon DEF TableType
  <2>3. TableType(Book)
    BY <2>2
  <2>4. \A y \in DOMAIN supplied : TableType(supplied[y])
    <3> SUFFICES ASSUME NEW y \in DOMAIN supplied PROVE TableType(supplied[y])
      OBVIOUS
    <3>1. supplied[y] \in Range(supplied)
      BY DEF Range
    <3>2. supplied[y] \in UNION {Range(years) : years \in TivFiles}
      BY <1>1, <3>1
    <3> QED
      BY <2>2, <3>2
  <2> QED
    BY <2>1, <2>3, <2>4, VintageType
<1>6. ix = None \/ IndexType(ix)
  <2> SUFFICES ASSUME ix # None PROVE IndexType(ix)
    OBVIOUS
  <2>1. \A values \in Range(ix.series) \cup Range(ix.prices) :
          IsFiniteSet(DOMAIN values) /\ DOMAIN values \subseteq Int /\ Range(values) \subseteq Nat
    <3>1. ix \in Indices \ {None}
      BY <1>1
    <3> QED
      BY <3>1, LossAssumption, Zenon
  <2>2. \A values \in Range(ix.series) \cup Range(ix.prices) : Points(values)
    <3> SUFFICES ASSUME NEW values \in Range(ix.series) \cup Range(ix.prices) PROVE Points(values)
      OBVIOUS
    <3>1. IsFiniteSet(DOMAIN values) /\ DOMAIN values \subseteq Int /\ Range(values) \subseteq Nat
      BY <2>1
    <3> QED
      BY <3>1 DEF Points, Range
  <2>3. \A k \in DOMAIN ix.series : ix.series[k] \in Range(ix.series)
    BY DEF Range
  <2>4. \A k \in DOMAIN ix.prices : ix.prices[k] \in Range(ix.prices)
    BY DEF Range
  <2> QED
    BY <2>2, <2>3, <2>4 DEF IndexType
<1>7. Multipliers(adjustments)
  <2>1. adjustments \in Seq(Range(adjustments)) /\ \A i \in DOMAIN adjustments : adjustments[i].factor \in Nat
    BY <1>1, LossAssumption, Zenon
  <2>2. DOMAIN adjustments = 1..Len(adjustments) /\ Len(adjustments) \in Nat
    BY <2>1, LenProperties
  <2>3. 1 \in Int /\ Len(adjustments) \in Int
    BY <2>2
  <2>4. IsFiniteSet(1..Len(adjustments))
    BY <2>3, FS_Interval
  <2> QED
    BY <2>1, <2>2, <2>4 DEF Multipliers
<1> HIDE DEF events, storm, sets, id, vintage, wind, observed, tiv, e, answer
<1>8. ASSUME reply' \notin {NotFound, Invalid, BadGateway}
      PROVE  /\ Accounted(reply'.event, reply'.result)
             /\ InPlace_(reply'.result, given.impacts, tiv, sets[id], observed)
             /\ reply'.curve = id /\ reply'.vintage = vintage.year /\ reply'.observed = observed
  <2>1. known /\ reply' = answer
    BY <1>2, <1>8
  <2>2. EventType(events[storm]) /\ events[storm].date \in Int \cup {None} /\ events[storm].storm.year \in Int
    BY <1>4, <2>1, LoadedType DEF events
  <2>3. tiv.asOf \in Int
    BY <1>5 DEF TableType
  <2>4. EventType(e)
    BY <1>3, <1>6, <1>7, <2>2, <2>3, OnlevelType DEF e
  <2>5. /\ Accounted(e, Backtest(e, given.impacts, tiv, sets[id], observed))
        /\ InPlace_(Backtest(e, given.impacts, tiv, sets[id], observed), given.impacts, tiv, sets[id], observed)
    BY <1>5, <2>4, BacktestAccounts
  <2>6. /\ reply'.event = e /\ reply'.result = Backtest(e, given.impacts, tiv, sets[id], observed)
        /\ reply'.curve = id /\ reply'.vintage = vintage.year /\ reply'.observed = observed
    BY <2>1 DEF answer
  <2> QED
    BY <2>5, <2>6
<1>9. call'.supplied = supplied /\ call'.files = files /\ call'.impacts = given.impacts
  BY <1>1
<1>10. ASSUME reply' \notin {NotFound, Invalid, BadGateway}
       PROVE  /\ Accounted(reply'.event, reply'.result)
              /\ InPlace_(reply'.result, call'.impacts, IF reply'.vintage = None THEN Book ELSE call'.supplied[reply'.vintage],
                        LoadCurveSets(call'.files, Prior)[reply'.curve], reply'.observed)
  BY <1>8, <1>9, <1>10, <1>17, Zenon DEF sets
<1> QED
  BY <1>10, Zenon DEF EveryLossIsAccountedFor, Answers, Of, Accounted, InPlace_

(***************************************************************************)
(* Loops: a function of the rounds already made, and what holds of every   *)
(* round.                                                                  *)
(***************************************************************************)
\* What holds of round 0 and of each round after one it holds of holds of all.
LEMMA EveryRound ==
  ASSUME NEW n \in Nat, NEW S, 0 \in S, \A k \in 1..n : k - 1 \in S => k \in S
  PROVE  \A k \in 0..n : k \in S
<1> DEFINE N == {m \in Nat : m <= n => m \in S}
<1>1. 0 \in N
  OBVIOUS
<1>2. ASSUME NEW m \in Nat, m \in N PROVE m + 1 \in N
  <2>1. m + 1 <= n => m + 1 \in 1..n /\ (m + 1) - 1 = m
    OBVIOUS
  <2> QED
    BY <1>2, <2>1
<1>3. \A m \in Nat : m \in N
  <2> HIDE DEF N
  <2> QED
    BY <1>1, <1>2, InductionOnNat
<1> QED
  BY <1>3

\* A loop over a type has a function of its rounds.
Rounds(h, n, base, g) == h[0] = base /\ \A k \in 1..n : h[k] = g[<<k, h[k - 1]>>]
LEMMA RoundsExist ==
  ASSUME NEW n \in Nat, NEW T, NEW base \in T, NEW g \in [(1..n) \X T -> T]
  PROVE  \E h \in [0..n -> T] : Rounds(h, n, base, g)
<1> DEFINE S == {m \in 0..n : \E h \in [0..n -> T] : Rounds(h, m, base, g)}
<1>1. 0 \in S
  <2> DEFINE h == [k \in 0..n |-> base]
  <2>1. h \in [0..n -> T] /\ h[0] = base /\ 0 \in 0..n
    OBVIOUS
  <2>2. Rounds(h, 0, base, g)
    BY <2>1 DEF Rounds
  <2> HIDE DEF h
  <2> QED
    BY <2>1, <2>2
<1>2. ASSUME NEW m \in 1..n, m - 1 \in S PROVE m \in S
  <2>1. PICK h \in [0..n -> T] : Rounds(h, m - 1, base, g)
    BY <1>2
  <2> DEFINE f == [k \in 0..n |-> IF k = m THEN g[<<m, h[m - 1]>>] ELSE h[k]]
  <2>2. f \in [0..n -> T]
    OBVIOUS
  <2>3. \A k \in 1..m : f[k] = g[<<k, f[k - 1]>>]
    <3> SUFFICES ASSUME NEW k \in 1..m PROVE f[k] = g[<<k, f[k - 1]>>]
      OBVIOUS
    <3>1. f[k - 1] = h[k - 1]
      OBVIOUS
    <3>2. CASE k = m
      <4>1. f[m] = g[<<m, h[m - 1]>>] /\ f[m - 1] = h[m - 1]
        BY <3>1, <3>2
      <4> HIDE DEF f
      <4> QED
        BY <3>2, <4>1
    <3>3. CASE k # m
      <4>1. k \in 1..(m - 1) /\ f[k] = h[k]
        BY <3>3
      <4> QED
        BY <2>1, <3>1, <4>1 DEF Rounds
    <3> QED
      BY <3>2, <3>3
  <2>4. f[0] = base
    BY <2>1 DEF Rounds
  <2> HIDE DEF f
  <2> QED
    BY <2>2, <2>3, <2>4 DEF Rounds
<1>3. \A m \in 0..n : m \in S
  <2> HIDE DEF S
  <2> QED
    BY <1>1, <1>2, EveryRound
<1>4. n \in S
  <2> HIDE DEF S
  <2> QED
    BY <1>3
<1> QED
  BY <1>4

(***************************************************************************)
(* The monotone fit is the isotonic regression. P is the sum of the first  *)
(* values; a block from c to d has the level m when its mean rounded down, *)
(* and that of each start of it, is at least m, and that of each end at    *)
(* most m.                                                                 *)
(***************************************************************************)
Level(P, c, d, m) ==
  \A k \in c..d : P[k] - P[c] >= m * (k - c) /\ (k < d => P[d] - P[k] < (m + 1) * (d - k))

LEMMA Quotient ==
  ASSUME NEW s \in Int, NEW n \in Nat \ {0}
  PROVE  s \div n \in Int /\ (s \div n) * n <= s /\ s < (s \div n + 1) * n
<1> DEFINE q == s \div n
           r == s % n
<1>1. s = n * q + r /\ r \in 0..(n - 1) /\ q \in Int
  OBVIOUS
<1> HIDE DEF q, r
<1>2. (q + 1) * n = n * q + n /\ q * n = n * q
  BY <1>1
<1>3. q * n <= s /\ s < (q + 1) * n
  BY <1>1, <1>2
<1> QED
  BY <1>1, <1>3 DEF q

\* Of the multiples of a positive number, the larger has the larger factor.
LEMMA Factors ==
  ASSUME NEW a \in Int, NEW b \in Int, NEW n \in Nat \ {0}, a * n < b * n
  PROVE  a < b
OBVIOUS

LEMMA Scaled ==
  ASSUME NEW a \in Int, NEW b \in Int, a <= b, NEW t \in Nat
  PROVE  a * t <= b * t /\ a * t \in Int /\ b * t \in Int
OBVIOUS

LEMMA Spread ==
  ASSUME NEW m \in Int, NEW x \in Int, NEW y \in Int
  PROVE  m * (x + y) = m * x + m * y /\ m * x \in Int /\ m * y \in Int
OBVIOUS

\* Two blocks of which the left one lies higher make one block.
LEMMA MergedLevel ==
  ASSUME NEW n \in Nat, NEW P \in [0..n -> Int], NEW c \in 0..n, NEW d \in 0..n, NEW f \in 0..n, c < d, d < f,
         NEW m1 \in Int, NEW m2 \in Int, m1 > m2, Level(P, c, d, m1), Level(P, d, f, m2)
  PROVE  Level(P, c, f, (P[f] - P[c]) \div (f - c))
<1> DEFINE s == P[f] - P[c]
           w == f - c
           M == s \div w
<1>1. w \in Nat \ {0} /\ s \in Int /\ P[c] \in Int /\ P[d] \in Int /\ P[f] \in Int /\ w = (d - c) + (f - d)
  OBVIOUS
<1>2. M \in Int /\ M * w <= s /\ s < (M + 1) * w
  BY <1>1, Quotient
<1> HIDE DEF M, s, w
<1> DEFINE a == d - c
           b == f - d
<1>3. a \in Nat \ {0} /\ b \in Nat \ {0} /\ w = a + b
  BY <1>1
<1>4. P[d] - P[c] >= m1 * a /\ P[f] - P[d] >= m2 * b /\ P[d] - P[c] < (m1 + 1) * a /\ P[f] - P[d] < (m2 + 1) * b
  BY DEF Level
<1>5. s = (P[d] - P[c]) + (P[f] - P[d])
  BY <1>1 DEF s
<1> HIDE DEF a, b
<1>6. M <= m1
  <2>1. (m2 + 1) * b <= (m1 + 1) * b /\ (m2 + 1) * b \in Int /\ (m1 + 1) * b \in Int
    BY <1>3, Scaled
  <2>2. (m1 + 1) * w = (m1 + 1) * a + (m1 + 1) * b
    BY <1>3
  <2>3. M * w < (m1 + 1) * w
    <3> DEFINE l == M * w
               u == P[d] - P[c]
               v == P[f] - P[d]
               p == (m1 + 1) * a
               q == (m2 + 1) * b
               r == (m1 + 1) * b
               t == (m1 + 1) * w
    <3>1. l \in Int /\ u \in Int /\ v \in Int /\ p \in Int /\ q \in Int /\ r \in Int
      BY <1>1, <1>2, <1>3
    <3>2. l <= s /\ s = u + v /\ u < p /\ v < q /\ q <= r /\ t = p + r
      BY <1>2, <1>4, <1>5, <2>1, <2>2, Zenon
    <3> HIDE DEF l, u, v, p, q, r, t
    <3>3. l < t
      BY <1>1, <3>1, <3>2
    <3> QED
      BY <3>3 DEF l, t
  <2>4. M < m1 + 1
    BY <1>1, <1>2, <2>3, Factors
  <2> QED
    BY <1>2, <2>4
<1>7. m2 <= M
  <2>1. m2 * a <= m1 * a /\ m2 * a \in Int /\ m1 * a \in Int
    BY <1>3, Scaled
  <2>2. m2 * w = m2 * a + m2 * b
    BY <1>3
  <2>3. m2 * w < (M + 1) * w
    <3> DEFINE l == (M + 1) * w
               u == P[d] - P[c]
               v == P[f] - P[d]
               p == m1 * a
               q == m2 * b
               r == m2 * a
               t == m2 * w
    <3>1. l \in Int /\ u \in Int /\ v \in Int /\ p \in Int /\ q \in Int /\ r \in Int
      BY <1>1, <1>2, <1>3
    <3>2. s < l /\ s = u + v /\ u >= p /\ v >= q /\ r <= p /\ t = r + q
      BY <1>2, <1>4, <1>5, <2>1, <2>2, Zenon
    <3> HIDE DEF l, u, v, p, q, r, t
    <3>3. t < l
      BY <1>1, <3>1, <3>2
    <3> QED
      BY <3>3 DEF l, t
  <2>4. m2 < M + 1
    BY <1>1, <1>2, <2>3, Factors
  <2> QED
    BY <1>2, <2>4
<1>8. ASSUME NEW k \in c..f
      PROVE  P[k] - P[c] >= M * (k - c) /\ (k < f => P[f] - P[k] < (M + 1) * (f - k))
  <2>0. k \in 0..n /\ P[k] \in Int
    OBVIOUS
  <2>1. CASE k <= d
    <3> DEFINE x == k - c
               y == d - k
    <3>1. k \in c..d /\ x \in Nat /\ y \in Nat /\ a = x + y /\ f - k = y + b /\ w = x + (f - k) /\ f - k \in Nat
      BY <2>1, <1>1 DEF a, b, w
    <3>2. P[k] - P[c] >= m1 * x /\ (k < d => P[d] - P[k] < (m1 + 1) * y)
      BY <3>1 DEF Level
    <3> DEFINE z == f - k
    <3>3. z \in Nat /\ z = y + b /\ w = x + z
      BY <3>1
    <3> HIDE DEF x, y, z
    <3>4. M * x <= m1 * x /\ M * x \in Int /\ m1 * x \in Int
      BY <1>2, <1>6, <3>1, Scaled
    <3>5. P[k] - P[c] >= M * x
      <4> DEFINE u == P[k] - P[c]
                 p == m1 * x
                 q == M * x
      <4>1. u \in Int
        BY <1>1, <2>0
      <4>2. p \in Int /\ q \in Int /\ q <= p /\ u >= p
        BY <3>2, <3>4, Zenon
      <4> HIDE DEF u, p, q
      <4>3. u >= q
        BY <4>1, <4>2
      <4> QED
        BY <4>3 DEF u, q
    <3>6. P[f] - P[k] < (M + 1) * z
      <4>1. CASE M = m1
        <5>1. (m2 + 1) * b <= (M + 1) * b /\ (m2 + 1) * b \in Int /\ (M + 1) * b \in Int
          BY <1>2, <1>3, <1>7, Scaled
        <5>2. (M + 1) * z = (M + 1) * y + (M + 1) * b /\ (M + 1) * y \in Int
          BY <1>2, <1>3, <3>1, <3>3, Spread
        <5>3. P[d] - P[k] <= (M + 1) * y
          <6>1. CASE k < d
            <7> DEFINE u == P[d] - P[k]
                       q == (M + 1) * y
            <7>1. u \in Int
              BY <1>1, <2>0
            <7>2. u < q /\ q \in Int
              BY <3>2, <4>1, <5>2, <6>1, Zenon
            <7> HIDE DEF u, q
            <7>3. u <= q
              BY <7>1, <7>2
            <7> QED
              BY <7>3 DEF u, q
          <6>2. CASE k = d
            <7>1. y = 0
              BY <6>2 DEF y
            <7>2. (M + 1) * y = 0
              BY <1>2, <7>1
            <7> QED
              BY <6>2, <7>2, <1>1
          <6> QED
            BY <2>1, <6>1, <6>2
        <5> DEFINE p == (m2 + 1) * b
                   q == (M + 1) * b
                   r == (M + 1) * y
                   t == (M + 1) * z
                   u == P[k]
                   v == P[d]
                   o == P[f]
        <5>4. p <= q /\ p \in Int /\ q \in Int /\ r \in Int /\ t = r + q /\ v - u <= r /\ o - v < p
          BY <1>4, <5>1, <5>2, <5>3, Zenon
        <5>5. u \in Int /\ v \in Int /\ o \in Int
          BY <1>1, <2>0, Zenon
        <5> HIDE DEF p, q, r, t, u, v, o
        <5>6. o - u < t
          BY <5>4, <5>5
        <5> QED
          BY <5>6 DEF t, u, o
      <4>2. CASE M < m1
        <5>1. (M + 1) * x <= m1 * x /\ (M + 1) * x \in Int
          BY <1>2, <3>1, <4>2, Scaled
        <5>2. (M + 1) * w = (M + 1) * x + (M + 1) * z /\ (M + 1) * z \in Int
          <6>1. w = x + z /\ M \in Int /\ x \in Int /\ z \in Int
            BY <1>2, <3>1, <3>3
          <6> QED
            BY <6>1
        <5>3. s < (M + 1) * w /\ s = (P[k] - P[c]) + (P[f] - P[k])
          BY <1>1, <1>2, <2>0 DEF s
        <5> DEFINE p == (M + 1) * x
                   q == m1 * x
                   r == (M + 1) * z
                   t == (M + 1) * w
                   u == P[c]
                   v == P[k]
                   o == P[f]
        <5>4. p <= q /\ p \in Int /\ q \in Int /\ r \in Int /\ t = p + r /\ s < t /\ v - u >= q
          BY <3>2, <3>4, <5>1, <5>2, <5>3, Zenon
        <5>5. s = (v - u) + (o - v) /\ u \in Int /\ v \in Int /\ o \in Int
          BY <1>1, <2>0, <5>3, Zenon
        <5> HIDE DEF p, q, r, t, u, v, o
        <5>6. o - v < r
          BY <1>1, <5>4, <5>5
        <5> QED
          BY <5>6 DEF r, v, o
      <4> QED
        BY <1>2, <1>6, <4>1, <4>2
    <3> QED
      BY <3>5, <3>6 DEF x, z
  <2>2. CASE k > d
    <3> DEFINE x == k - d
               z == f - k
               v == k - c
    <3>1. k \in d..f /\ x \in Nat /\ z \in Nat /\ b = x + z /\ v \in Nat /\ v = a + x /\ w = v + z
      BY <2>2, <1>1 DEF a, b, w
    <3>2. P[k] - P[d] >= m2 * x /\ (k < f => P[f] - P[k] < (m2 + 1) * z)
      BY <3>1 DEF Level
    <3>3. k < f => z > 0
      OBVIOUS
    <3>4. k = f => z = 0
      OBVIOUS
    <3> HIDE DEF x, z, v
    <3>5. (m2 + 1) * z <= (M + 1) * z /\ (M + 1) * z \in Int /\ (m2 + 1) * z \in Int
      BY <1>2, <1>7, <3>1, Scaled
    <3>6. k < f => P[f] - P[k] < (M + 1) * z
      <4> DEFINE u == P[f] - P[k]
                 p == (m2 + 1) * z
                 q == (M + 1) * z
      <4>1. u \in Int
        BY <1>1, <2>0
      <4>2. p \in Int /\ q \in Int /\ p <= q /\ (k < f => u < p)
        BY <3>2, <3>5, Zenon
      <4> HIDE DEF u, p, q
      <4>3. k < f => u < q
        BY <4>1, <4>2
      <4> QED
        BY <4>3 DEF u, q
    <3>7. P[k] - P[c] >= M * v
      <4>1. CASE M = m2
        <5>1. M * a <= m1 * a /\ M * a \in Int /\ m1 * a \in Int
          BY <1>2, <1>3, <1>6, Scaled
        <5>2. M * v = M * a + M * x /\ M * x \in Int
          BY <1>2, <1>3, <3>1, Spread
        <5> DEFINE p == M * a
                   q == m1 * a
                   r == M * x
                   t == M * v
                   u == P[c]
                   i == P[d]
                   o == P[k]
        <5>3. p <= q /\ p \in Int /\ q \in Int /\ r \in Int /\ t = p + r /\ i - u >= q /\ o - i >= r
          BY <1>4, <3>2, <4>1, <5>1, <5>2, Zenon
        <5>4. u \in Int /\ i \in Int /\ o \in Int
          BY <1>1, <2>0, Zenon
        <5> HIDE DEF p, q, r, t, u, i, o
        <5>5. o - u >= t
          BY <5>3, <5>4
        <5> QED
          BY <5>5 DEF t, u, o
      <4>2. CASE m2 < M
        <5>1. (m2 + 1) * z <= M * z /\ M * z \in Int
          BY <1>2, <3>1, <4>2, Scaled
        <5>2. M * w = M * v + M * z /\ M * v \in Int
          <6>1. w = v + z /\ M \in Int /\ v \in Int /\ z \in Int
            BY <1>2, <3>1
          <6> QED
            BY <6>1
        <5>3. P[f] - P[k] <= M * z
          <6>1. CASE k < f
            <7> DEFINE u == P[f] - P[k]
                       p == (m2 + 1) * z
                       q == M * z
            <7>1. u \in Int
              BY <1>1, <2>0
            <7>2. p \in Int /\ q \in Int /\ p <= q /\ u < p
              BY <3>2, <3>5, <5>1, <6>1, Zenon
            <7> HIDE DEF u, p, q
            <7>3. u <= q
              BY <7>1, <7>2
            <7> QED
              BY <7>3 DEF u, q
          <6>2. CASE k = f
            <7>1. M * z = 0
              BY <1>2, <3>4, <6>2
            <7> QED
              BY <6>2, <7>1, <1>1
          <6> QED
            BY <6>1, <6>2
        <5>4. M * w <= s /\ s = (P[k] - P[c]) + (P[f] - P[k])
          BY <1>1, <1>2, <2>0 DEF s
        <5> DEFINE p == M * v
                   q == M * z
                   t == M * w
                   u == P[c]
                   i == P[k]
                   o == P[f]
        <5>5. p \in Int /\ q \in Int /\ t = p + q /\ t <= s /\ o - i <= q /\ s = (i - u) + (o - i)
          BY <5>1, <5>2, <5>3, <5>4, Zenon
        <5>6. s \in Int /\ u \in Int /\ i \in Int /\ o \in Int
          BY <1>1, <2>0, Zenon
        <5> HIDE DEF p, q, t, u, i, o
        <5>7. i - u >= p
          BY <5>5, <5>6
        <5> QED
          BY <5>7 DEF p, u, i
      <4> QED
        BY <1>2, <1>7, <4>1, <4>2
    <3> QED
      BY <3>6, <3>7 DEF z, v
  <2> QED
    BY <2>0, <2>1, <2>2
<1>9. Level(P, c, f, M)
  BY <1>8 DEF Level
<1> QED
  BY <1>9 DEF M, s, w

\* The sum of the first values.
Prefix(theta) == [k \in 0..Len(theta) |-> SumOver(theta, 1..k)]
LEMMA PrefixSums ==
  ASSUME NEW theta \in Seq(Int)
  PROVE  /\ Prefix(theta) \in [0..Len(theta) -> Int] /\ Prefix(theta)[0] = 0
         /\ \A a \in 1..Len(theta) : \A b \in a..Len(theta) :
              SumOver(theta, a..b) = Prefix(theta)[b] - Prefix(theta)[a - 1]
         /\ \A k \in 1..Len(theta) : theta[k] = Prefix(theta)[k] - Prefix(theta)[k - 1]
<1> DEFINE n == Len(theta)
           P == Prefix(theta)
<1>1. n \in Nat /\ \A k \in 1..n : theta[k] \in Int
  BY LenProperties, ElementOfSeq
<1>2. \A a, b \in 0..n : IsFiniteSet(a..b)
  BY <1>1, FS_Interval
<1>3. \A k \in 0..n : P[k] = SumOver(theta, 1..k) /\ IntOn(theta, 1..k)
  <2> SUFFICES ASSUME NEW k \in 0..n PROVE P[k] = SumOver(theta, 1..k) /\ IntOn(theta, 1..k)
    OBVIOUS
  <2>1. IsFiniteSet(1..k)
    <3>1. 1 \in Int /\ k \in Int
      OBVIOUS
    <3> QED
      BY <3>1, FS_Interval
  <2>2. 1..k \subseteq 1..n
    BY <1>1
  <2> QED
    BY <1>1, <2>1, <2>2 DEF Prefix, IntOn
<1> HIDE DEF n, P
<1>4. P \in [0..n -> Int]
  <2>1. \A k \in 0..n : P[k] \in Int
    BY <1>3, SumType
  <2>2. P = [k \in 0..n |-> P[k]]
    BY DEF P, Prefix, n
  <2> QED
    BY <2>1, <2>2
<1>5. P[0] = 0
  <2>1. 1..0 = {}
    OBVIOUS
  <2>2. 0 \in 0..n
    BY <1>1
  <2> QED
    BY <1>3, <2>1, <2>2, SumType
<1>6. ASSUME NEW a \in 1..n, NEW b \in a..n
      PROVE  SumOver(theta, a..b) = P[b] - P[a - 1] /\ IntOn(theta, a..b)
  <2>1. 1..b = 1..(a - 1) \cup a..b /\ 1..(a - 1) \cap a..b = {} /\ b \in 0..n /\ a - 1 \in 0..n /\ a \in 0..n
    BY <1>1
  <2>2. IsFiniteSet(a..b) /\ IsFiniteSet(1..(a - 1))
    BY <1>2, <1>3, <2>1 DEF IntOn
  <2>3. a..b \subseteq 1..n
    BY <1>1
  <2>4. \A x \in 1..(a - 1) \cup a..b : theta[x] \in Int
    BY <1>1, <2>1
  <2> DEFINE S == 1..(a - 1)
             T == a..b
  <2>5. SumOver(theta, S \cup T) = SumOver(theta, S) + SumOver(theta, T)
    <3>1. IsFiniteSet(S) /\ IsFiniteSet(T) /\ S \cap T = {} /\ \A x \in S \cup T : theta[x] \in Int
      BY <2>1, <2>2, <2>4
    <3> HIDE DEF S, T
    <3> QED
      BY <3>1, SumOfParts
  <2>6. P[b] = P[a - 1] + SumOver(theta, a..b)
    BY <1>3, <2>1, <2>5
  <2>7. IntOn(theta, a..b)
    BY <1>1, <2>2, <2>3 DEF IntOn
  <2>8. SumOver(theta, a..b) \in Int /\ P[a - 1] \in Int
    BY <1>4, <2>1, <2>7, SumType
  <2> QED
    BY <2>6, <2>7, <2>8
<1>7. ASSUME NEW k \in 1..n PROVE theta[k] = P[k] - P[k - 1]
  <2>1. k..k = {k} /\ k \in k..n
    BY <1>1
  <2>2. SumOver(theta, {k}) = theta[k]
    BY <1>1, SumOfOne
  <2> QED
    BY <1>6, <2>1, <2>2
<1> QED
  BY <1>4, <1>5, <1>6, <1>7 DEF n, P

(***************************************************************************)
(* The blocks of a loop's state are cut at e, the last at j. All but the   *)
(* last are in order while they are pooled.                                *)
(***************************************************************************)
Blocked(B, e, j, P) ==
  /\ B \in Seq(Int \X Int) /\ e \in [0..Len(B) -> 0..j] /\ e[0] = 0 /\ e[Len(B)] = j
  /\ \A i \in 1..Len(B) : /\ e[i - 1] < e[i]
                          /\ B[i] = <<P[e[i]] - P[e[i - 1]], e[i] - e[i - 1]>>
                          /\ Level(P, e[i - 1], e[i], BlockMean(B[i]))
Rising(B, k) == \A i \in 1..(k - 1) : BlockMean(B[i]) <= BlockMean(B[i + 1])
Pooling(B, j, P) == \E e : Blocked(B, e, j, P) /\ Rising(B, Len(B) - 1)
Settled(B, j, P) == \E e : Blocked(B, e, j, P) /\ Rising(B, Len(B))

\* The mean of a block is a number.
LEMMA BlockMeans ==
  ASSUME NEW n \in Nat, NEW P \in [0..n -> Int], NEW j \in 0..n, NEW B, NEW e, Blocked(B, e, j, P), NEW i \in 1..Len(B)
  PROVE  /\ i \in 0..Len(B) /\ i - 1 \in 0..Len(B) /\ Len(B) \in Nat
         /\ e[i] \in 0..n /\ e[i - 1] \in 0..n /\ e[i - 1] < e[i] /\ B[i][1] = P[e[i]] - P[e[i - 1]]
         /\ BlockMean(B[i]) = (P[e[i]] - P[e[i - 1]]) \div (e[i] - e[i - 1]) /\ BlockMean(B[i]) \in Int
<1>1. Len(B) \in Nat /\ i \in 0..Len(B) /\ i - 1 \in 0..Len(B)
  BY LenProperties DEF Blocked
<1>2. e[i] \in 0..j /\ e[i - 1] \in 0..j /\ e[i - 1] < e[i] /\ B[i] = <<P[e[i]] - P[e[i - 1]], e[i] - e[i - 1]>>
  BY <1>1 DEF Blocked
<1>3. e[i] \in 0..n /\ e[i - 1] \in 0..n
  BY <1>2
<1>4. P[e[i]] - P[e[i - 1]] \in Int /\ e[i] - e[i - 1] \in Nat \ {0}
  <2> DEFINE c == e[i - 1]
             d == e[i]
  <2>1. c \in 0..n /\ d \in 0..n /\ c < d
    BY <1>2, <1>3
  <2> HIDE DEF c, d
  <2>2. P[d] - P[c] \in Int /\ d - c \in Nat \ {0}
    BY <2>1
  <2> QED
    BY <2>2 DEF c, d
<1>5. BlockMean(B[i]) = (P[e[i]] - P[e[i - 1]]) \div (e[i] - e[i - 1])
  BY <1>2 DEF BlockMean
<1>6. BlockMean(B[i]) \in Int
  BY <1>4, <1>5, Quotient
<1> QED
  BY <1>1, <1>2, <1>3, <1>5, <1>6

\* Blocks in order stay as they are.
LEMMA SettledStays ==
  ASSUME NEW n \in Nat, NEW P \in [0..n -> Int], NEW j \in 0..n, NEW B, NEW e, Blocked(B, e, j, P), Rising(B, Len(B))
  PROVE  MergeStep(B) = B
<1>1. Len(B) \in Nat
  BY LenProperties DEF Blocked
<1>2. CASE Len(B) > 1
  <2>1. Len(B) - 1 \in 1..Len(B) /\ Len(B) \in 1..Len(B) /\ Len(B) - 1 \in 1..(Len(B) - 1) /\ (Len(B) - 1) + 1 = Len(B)
    BY <1>1, <1>2
  <2>2. BlockMean(B[Len(B) - 1]) <= BlockMean(B[Len(B)])
    BY <2>1 DEF Rising
  <2>3. BlockMean(B[Len(B) - 1]) \in Int /\ BlockMean(B[Len(B)]) \in Int
    BY <2>1, BlockMeans
  <2> QED
    BY <2>2, <2>3 DEF MergeStep
<1>3. CASE ~ (Len(B) > 1)
  BY <1>3 DEF MergeStep
<1> QED
  BY <1>2, <1>3

\* Pooling the last two of them leaves one block less.
LEMMA PoolsLast ==
  ASSUME NEW n \in Nat, NEW P \in [0..n -> Int], NEW j \in 0..n, NEW B, NEW e, Blocked(B, e, j, P),
         Rising(B, Len(B) - 1), ~ Rising(B, Len(B))
  PROVE  Pooling(MergeStep(B), j, P) /\ Len(MergeStep(B)) = Len(B) - 1
<1> DEFINE L == Len(B)
           m(i) == BlockMean(B[i])
           A == SubSeq(B, 1, L - 2)
           z == <<B[L - 1][1] + B[L][1], B[L - 1][2] + B[L][2]>>
           C == Append(A, z)
           d == [i \in 0..(L - 1) |-> IF i = L - 1 THEN j ELSE e[i]]
<1>1. L \in Nat /\ B \in Seq(Int \X Int)
  BY LenProperties DEF Blocked
<1>2. PICK i \in 1..(L - 1) : ~ (m(i) <= m(i + 1))
  BY DEF Rising
<1>3. i = L - 1
  <2>1. i \in 1..(L - 2) => m(i) <= m(i + 1)
    BY <1>1 DEF Rising
  <2> QED
    BY <1>1, <1>2, <2>1
<1>4. L > 1 /\ L - 1 \in 1..L /\ L \in 1..L /\ (L - 1) + 1 = L
  <2>1. L \in Nat /\ L - 1 \in 1..(L - 1)
    BY <1>1, <1>2, <1>3
  <2> HIDE DEF L
  <2> QED
    BY <2>1
<1>5. m(L - 1) \in Int /\ m(L) \in Int
  BY <1>4, BlockMeans
<1>6. m(L - 1) > m(L)
  BY <1>2, <1>3, <1>4, <1>5
<1>7. MergeStep(B) = C
  BY <1>4, <1>6 DEF MergeStep
<1>8. A \in Seq(Int \X Int) /\ Len(A) = L - 2 /\ \A k \in 1..(L - 2) : A[k] = B[k]
  <2>1. L - 2 \in 0..L
    BY <1>1, <1>4
  <2>2. 1 \in 1..(L + 1) /\ 1 <= L - 2 + 1 /\ (L - 2) - 1 + 1 = L - 2
    BY <1>1, <1>4
  <2>3. \A k \in 1..(L - 2) : 1 + k - 1 = k
    BY <1>1
  <2> HIDE DEF L
  <2>4. \A k \in 1..(L - 2) : B[k] \in Int \X Int
    <3>1. \A k \in 1..(L - 2) : k \in 1..L
      BY <1>1
    <3> QED
      BY <1>1, <3>1, ElementOfSeq DEF L
  <2>5. /\ A \in Seq(Int \X Int) /\ Len(A) = IF 1 <= L - 2 THEN (L - 2) - 1 + 1 ELSE 0
        /\ \A k \in 1..((L - 2) - 1 + 1) : A[k] = B[1 + k - 1]
    <3>1. 1 \in Int /\ L - 2 \in Int
      BY <1>1
    <3> DEFINE v == L - 2
    <3>2. v \in Int /\ \A k \in 1..v : B[k] \in Int \X Int
      BY <2>4, <3>1
    <3> HIDE DEF v
    <3>3. /\ SubSeq(B, 1, v) \in Seq(Int \X Int) /\ Len(SubSeq(B, 1, v)) = IF 1 <= v THEN v - 1 + 1 ELSE 0
          /\ \A k \in 1..(v - 1 + 1) : SubSeq(B, 1, v)[k] = B[1 + k - 1]
      BY <3>1, <3>2, SubSeqProperties
    <3> QED
      BY <3>3 DEF v
  <2>6. L - 2 \in Nat /\ ((1 <= L - 2) => (L - 2) - 1 + 1 = L - 2) /\ (~ (1 <= L - 2) => L - 2 = 0)
    BY <1>1, <1>4
  <2> HIDE DEF A
  <2>7. Len(A) = L - 2
    BY <2>5, <2>6
  <2> QED
    BY <2>2, <2>3, <2>5, <2>7
<1>9. B[L - 1] \in Int \X Int /\ B[L] \in Int \X Int
  BY <1>1, <1>4, ElementOfSeq
<1>10. z \in Int \X Int
  <2>1. \A x, y \in Int \X Int : <<x[1] + y[1], x[2] + y[2]>> \in Int \X Int
    OBVIOUS
  <2> QED
    BY <1>9, <2>1
<1> HIDE DEF A, z
<1>11. C \in Seq(Int \X Int) /\ Len(C) = L - 1 /\ C[L - 1] = z /\ \A k \in 1..(L - 2) : C[k] = B[k]
  <2>1. C \in Seq(Int \X Int) /\ Len(C) = Len(A) + 1 /\ \A k \in 1..Len(A) : C[k] = A[k]
    BY <1>8, <1>10, AppendProperties
  <2>2. C[Len(A) + 1] = z
    BY <1>8, <1>10, AppendProperties
  <2> QED
    BY <1>1, <1>4, <1>8, <2>1, <2>2
<1> HIDE DEF C
<1>12. e \in [0..L -> 0..j] /\ e[0] = 0 /\ e[L] = j
  BY DEF Blocked
<1> HIDE DEF L
<1>13. d \in [0..(L - 1) -> 0..j] /\ d[0] = 0 /\ d[L - 1] = j /\ \A k \in 0..(L - 2) : d[k] = e[k]
  <2>1. \A k \in 0..(L - 1) : k \in 0..L /\ (k # L - 1 => k \in 0..(L - 2))
    BY <1>1, <1>4
  <2>2. \A k \in 0..(L - 2) : k \in 0..(L - 1) /\ k # L - 1
    BY <1>1, <1>4
  <2>3. 0 \in 0..(L - 1) /\ L - 1 \in 0..(L - 1) /\ 0 # L - 1 /\ j \in 0..j
    BY <1>1, <1>4
  <2>4. \A k \in 0..(L - 1) : d[k] = IF k = L - 1 THEN j ELSE e[k]
    BY DEF d
  <2>5. \A k \in 0..(L - 1) : d[k] \in 0..j
    BY <1>12, <2>1, <2>3, <2>4
  <2>6. d \in [0..(L - 1) -> 0..j]
    BY <2>5 DEF d
  <2> QED
    BY <1>12, <2>2, <2>3, <2>4, <2>6
<1> HIDE DEF d
<1>14. d[L - 2] = e[L - 2] /\ e[L - 2] \in 0..n /\ e[L - 1] \in 0..n /\ e[L] \in 0..n
  <2>1. L - 2 \in 0..(L - 2) /\ L - 2 \in 0..L /\ L - 1 \in 0..L /\ L \in 0..L
    BY <1>1, <1>4
  <2>2. \A k \in 0..j : k \in 0..n
    OBVIOUS
  <2> QED
    BY <1>12, <1>13, <2>1, <2>2
<1>15. /\ e[L - 2] < e[L - 1] /\ e[L - 1] < e[L]
       /\ B[L - 1] = <<P[e[L - 1]] - P[e[L - 2]], e[L - 1] - e[L - 2]>>
       /\ B[L] = <<P[e[L]] - P[e[L - 1]], e[L] - e[L - 1]>>
       /\ Level(P, e[L - 2], e[L - 1], m(L - 1)) /\ Level(P, e[L - 1], e[L], m(L))
  <2>1. (L - 1) - 1 = L - 2
    BY <1>1
  <2> QED
    BY <1>4, <2>1 DEF Blocked, L
<1>16. z = <<P[e[L]] - P[e[L - 2]], e[L] - e[L - 2]>>
  <2>1. \A u, v, w \in Int : (v - u) + (w - v) = w - u
    OBVIOUS
  <2>2. P[e[L]] \in Int /\ P[e[L - 1]] \in Int /\ P[e[L - 2]] \in Int
    BY <1>14
  <2>3. e[L] \in Int /\ e[L - 1] \in Int /\ e[L - 2] \in Int
    <3>1. \A k \in 0..n : k \in Int
      OBVIOUS
    <3> QED
      BY <1>14, <3>1
  <2>4. /\ (P[e[L - 1]] - P[e[L - 2]]) + (P[e[L]] - P[e[L - 1]]) = P[e[L]] - P[e[L - 2]]
        /\ (e[L - 1] - e[L - 2]) + (e[L] - e[L - 1]) = e[L] - e[L - 2]
    BY <2>1, <2>2, <2>3, Zenon
  <2> QED
    BY <1>15, <2>4 DEF z
<1>17. Level(P, e[L - 2], e[L], BlockMean(z))
  <2>1. BlockMean(z) = (P[e[L]] - P[e[L - 2]]) \div (e[L] - e[L - 2])
    BY <1>16 DEF BlockMean
  <2> DEFINE x == e[L - 2]
             y == e[L - 1]
             w == e[L]
             a == m(L - 1)
             b == m(L)
  <2>2. /\ x \in 0..n /\ y \in 0..n /\ w \in 0..n /\ x < y /\ y < w /\ a \in Int /\ b \in Int /\ a > b
        /\ Level(P, x, y, a) /\ Level(P, y, w, b)
    BY <1>5, <1>6, <1>14, <1>15
  <2> HIDE DEF x, y, w, a, b
  <2>3. Level(P, x, w, (P[w] - P[x]) \div (w - x))
    BY <2>2, MergedLevel
  <2> QED
    BY <2>1, <2>3 DEF x, w
<1>18. ASSUME NEW k \in 1..(L - 1)
       PROVE  /\ d[k - 1] < d[k] /\ C[k] = <<P[d[k]] - P[d[k - 1]], d[k] - d[k - 1]>>
              /\ Level(P, d[k - 1], d[k], BlockMean(C[k]))
  <2>1. CASE k = L - 1
    <3>1. k - 1 = L - 2
      BY <1>1, <2>1
    <3>2. d[k - 1] = e[L - 2] /\ d[k] = e[L] /\ C[k] = z
      BY <1>11, <1>12, <1>13, <1>14, <2>1, <3>1
    <3>3. e[L - 2] < e[L]
      <4>1. \A x, y, w \in 0..n : x < y /\ y < w => x < w
        OBVIOUS
      <4> QED
        BY <1>14, <1>15, <4>1
    <3> QED
      BY <1>16, <1>17, <3>2, <3>3
  <2>2. CASE k # L - 1
    <3>1. k \in 1..(L - 2) /\ k \in 0..(L - 2) /\ k - 1 \in 0..(L - 2) /\ k \in 1..L
      BY <1>1, <2>2
    <3>2. d[k - 1] = e[k - 1] /\ d[k] = e[k] /\ C[k] = B[k]
      BY <1>11, <1>13, <3>1
    <3> QED
      BY <3>1, <3>2 DEF Blocked, L
  <2> QED
    BY <2>1, <2>2
<1>19. Blocked(C, d, j, P)
  BY <1>11, <1>13, <1>18 DEF Blocked
<1>20. Rising(C, Len(C) - 1)
  <2>1. ASSUME NEW k \in 1..((L - 1) - 1 - 1) PROVE BlockMean(C[k]) <= BlockMean(C[k + 1])
    <3>1. k \in 1..(L - 2) /\ k + 1 \in 1..(L - 2)
      BY <1>1
    <3>2. C[k] = B[k] /\ C[k + 1] = B[k + 1]
      BY <1>11, <3>1
    <3>3. m(k) <= m(k + 1)
      <4>1. k \in 1..(L - 1 - 1)
        BY <1>1
      <4> QED
        BY <4>1 DEF Rising, L
    <3> QED
      BY <3>2, <3>3
  <2> QED
    BY <1>11, <2>1 DEF Rising
<1> QED
  BY <1>7, <1>11, <1>19, <1>20 DEF Pooling, L

\* Pooling two blocks of numbers makes blocks of numbers.
LEMMA MergesTyped ==
  ASSUME NEW A \in Seq(Int \X Int)
  PROVE  MergeStep(A) \in Seq(Int \X Int)
<1> DEFINE k == Len(A)
           T == Seq(Int \X Int)
           z == <<A[k - 1][1] + A[k][1], A[k - 1][2] + A[k][2]>>
           R == SubSeq(A, 1, k - 2)
<1>1. CASE k > 1
  <2>1. k \in Nat
    BY LenProperties
  <2>2. k - 1 \in 1..k /\ k \in 1..k /\ k - 2 \in 0..k /\ 1 \in 1..(k + 1) /\ 1 <= k - 2 + 1
    BY <1>1, <2>1
  <2>3. \A x, y \in Int \X Int : <<x[1] + y[1], x[2] + y[2]>> \in Int \X Int
    OBVIOUS
  <2>4. A[k - 1] \in Int \X Int /\ A[k] \in Int \X Int
    BY <2>2, ElementOfSeq
  <2>5. z \in Int \X Int
    BY <2>3, <2>4
  <2>6. R \in T
    BY <2>2, SubSeqProperties
  <2> HIDE DEF z, R
  <2>7. Append(R, z) \in T
    BY <2>5, <2>6, AppendProperties
  <2> QED
    BY <1>1, <2>7 DEF MergeStep, z, R
<1>2. CASE ~ (k > 1)
  BY <1>2 DEF MergeStep
<1> QED
  BY <1>1, <1>2

\* The merge of a list of blocks is the last of as many poolings as it has blocks.
LEMMA MergeRounds ==
  ASSUME NEW B \in Seq(Int \X Int)
  PROVE  \E h \in [0..Len(B) -> Seq(Int \X Int)] :
           /\ h[0] = B /\ Merge(B) = h[Len(B)]
           /\ \A k \in 1..Len(B) : h[k] = MergeStep(h[k - 1])
<1> DEFINE L == Len(B)
           T == Seq(Int \X Int)
           g == [p \in (1..L) \X T |-> MergeStep(p[2])]
           merged[k \in 0..L] == IF k = 0 THEN B ELSE MergeStep(merged[k - 1])
<1>1. B \in T /\ L \in Nat
  BY LenProperties
<1> HIDE DEF L
<1>2. g \in [(1..L) \X T -> T]
  <2>1. \A A \in T : MergeStep(A) \in T
    BY MergesTyped
  <2> QED
    BY <2>1
<1> HIDE DEF g, T
<1>3. PICK h \in [0..L -> T] : Rounds(h, L, B, g)
  BY <1>1, <1>2, RoundsExist
<1>4. \A k \in 1..L : h[k] = MergeStep(h[k - 1])
  <2> SUFFICES ASSUME NEW k \in 1..L PROVE h[k] = MergeStep(h[k - 1])
    OBVIOUS
  <2>1. k - 1 \in 0..L
    BY <1>1
  <2>2. h[k - 1] \in T
    BY <1>3, <2>1
  <2> QED
    BY <1>3, <2>2 DEF g, Rounds
<1>5. h = [k \in 0..L |-> IF k = 0 THEN B ELSE MergeStep(h[k - 1])]
  <2>1. \A k \in 0..L : h[k] = IF k = 0 THEN B ELSE MergeStep(h[k - 1])
    <3> SUFFICES ASSUME NEW k \in 0..L PROVE h[k] = IF k = 0 THEN B ELSE MergeStep(h[k - 1])
      OBVIOUS
    <3>1. k # 0 => k \in 1..L
      BY <1>1
    <3> QED
      BY <1>3, <1>4, <3>1 DEF Rounds
  <2> QED
    BY <1>3, <2>1
<1>6. merged = [k \in 0..L |-> IF k = 0 THEN B ELSE MergeStep(merged[k - 1])]
  <2>1. \E f : f = [k \in 0..L |-> IF k = 0 THEN B ELSE MergeStep(f[k - 1])]
    BY <1>5
  <2> QED
    BY <2>1, Zenon
<1>7. Merge(B) = merged[L]
  BY DEF Merge, L
<1> HIDE DEF merged
<1>8. merged[0] = B /\ \A k \in 1..L : merged[k] = MergeStep(merged[k - 1])
  <2>1. 0 \in 0..L /\ \A k \in 1..L : k \in 0..L /\ k # 0
    BY <1>1
  <2> QED
    BY <1>6, <2>1
<1> DEFINE S == {k \in 0..L : merged[k] \in T}
<1>9. \A k \in 0..L : k \in S
  <2>1. 0 \in S
    BY <1>1, <1>8
  <2>2. ASSUME NEW k \in 1..L, k - 1 \in S PROVE k \in S
    <3>1. \A A \in T : MergeStep(A) \in T
      BY MergesTyped DEF T
    <3>2. k \in 0..L
      BY <1>1
    <3> QED
      BY <1>8, <2>2, <3>1, <3>2
  <2> HIDE DEF S
  <2> QED
    BY <1>1, <2>1, <2>2, EveryRound
<1>10. merged \in [0..L -> T]
  BY <1>6, <1>9
<1> QED
  BY <1>7, <1>8, <1>10 DEF L, T

\* Merging until nothing is left to pool.
LEMMA MergeSettles ==
  ASSUME NEW n \in Nat, NEW P \in [0..n -> Int], NEW j \in 0..n, NEW B, Pooling(B, j, P)
  PROVE  Settled(Merge(B), j, P) /\ Merge(B) \in Seq(Int \X Int)
<1> DEFINE L == Len(B)
<1>1. B \in Seq(Int \X Int) /\ L \in Nat
  BY LenProperties DEF Pooling, Blocked
<1>2. PICK merged \in [0..L -> Seq(Int \X Int)] :
        merged[0] = B /\ Merge(B) = merged[L] /\ \A k \in 1..L : merged[k] = MergeStep(merged[k - 1])
  BY <1>1, MergeRounds
<1>4. Merge(B) = merged[L] /\ merged[L] \in Seq(Int \X Int)
  <2>1. L \in 0..L
    BY <1>1
  <2> HIDE DEF L
  <2> QED
    BY <1>2, <2>1
<1>5. merged[0] = B /\ \A k \in 1..L : merged[k] = MergeStep(merged[k - 1])
  BY <1>2
<1> HIDE DEF L
<1> DEFINE S == {k \in 0..L : /\ Pooling(merged[k], j, P)
                              /\ Settled(merged[k], j, P) \/ Len(merged[k]) = L - k}
<1>6. 0 \in S
  <2>1. 0 \in 0..L /\ L - 0 = L /\ Len(merged[0]) = L
    BY <1>1, <1>5 DEF L
  <2> QED
    BY <1>5, <2>1
<1>7. ASSUME NEW k \in 1..L, k - 1 \in S PROVE k \in S
  <2> DEFINE A == merged[k - 1]
  <2>1. merged[k] = MergeStep(A) /\ Pooling(A, j, P) /\ (Settled(A, j, P) \/ Len(A) = L - (k - 1))
    BY <1>5, <1>7
  <2> HIDE DEF A
  <2>2. CASE Settled(A, j, P)
    <3>1. PICK e : Blocked(A, e, j, P) /\ Rising(A, Len(A))
      BY <2>2 DEF Settled
    <3>2. MergeStep(A) = A
      BY <3>1, SettledStays
    <3>3. k \in 0..L
      BY <1>1
    <3>4. Pooling(A, j, P)
      BY <2>1
    <3> QED
      BY <2>1, <2>2, <3>2, <3>3, <3>4
  <2>3. CASE ~ Settled(A, j, P)
    <3>1. PICK e : Blocked(A, e, j, P) /\ Rising(A, Len(A) - 1)
      BY <2>1 DEF Pooling
    <3>2. ~ Rising(A, Len(A))
      BY <2>3, <3>1 DEF Settled
    <3>3. Pooling(MergeStep(A), j, P) /\ Len(MergeStep(A)) = Len(A) - 1
      BY <3>1, <3>2, PoolsLast
    <3>4. Len(MergeStep(A)) = L - k
      BY <1>1, <2>1, <2>3, <3>3
    <3>5. k \in 0..L
      BY <1>1
    <3> QED
      BY <2>1, <3>3, <3>4, <3>5
  <2> QED
    BY <2>2, <2>3
<1>8. \A k \in 0..L : k \in S
  <2> HIDE DEF S
  <2> QED
    BY <1>1, <1>6, <1>7, EveryRound
<1>9. L \in S
  <2> HIDE DEF S
  <2> QED
    BY <1>1, <1>8
<1>10. CASE Settled(merged[L], j, P)
  BY <1>4, <1>10
<1>11. CASE Len(merged[L]) = 0
  <2>1. PICK e : Blocked(merged[L], e, j, P)
    BY <1>9 DEF Pooling
  <2>2. Rising(merged[L], Len(merged[L]))
    BY <1>11 DEF Rising
  <2> QED
    BY <1>4, <2>1, <2>2 DEF Settled
<1> QED
  BY <1>1, <1>9, <1>10, <1>11

\* A new value is a block of its own.
LEMMA AddOne ==
  ASSUME NEW n \in Nat, NEW P \in [0..n -> Int], NEW j \in 1..n, NEW A, NEW v \in Int, v = P[j] - P[j - 1],
         Settled(A, j - 1, P)
  PROVE  Pooling(Append(A, <<v, 1>>), j, P)
<1> DEFINE L == Len(A)
           C == Append(A, <<v, 1>>)
<1>1. PICK e : Blocked(A, e, j - 1, P) /\ Rising(A, L)
  BY DEF Settled
<1>2. L \in Nat /\ A \in Seq(Int \X Int)
  BY <1>1, LenProperties DEF Blocked
<1>3. e \in [0..L -> 0..(j - 1)] /\ e[0] = 0 /\ e[L] = j - 1
  BY <1>1 DEF Blocked
<1> DEFINE d == [i \in 0..(L + 1) |-> IF i = L + 1 THEN j ELSE e[i]]
<1>4. C \in Seq(Int \X Int) /\ Len(C) = L + 1 /\ C[L + 1] = <<v, 1>> /\ \A k \in 1..L : C[k] = A[k]
  <2>1. <<v, 1>> \in Int \X Int
    OBVIOUS
  <2> QED
    BY <1>2, <2>1, AppendProperties
<1> HIDE DEF C
<1>5. BlockMean(<<v, 1>>) = v
  <2>1. v \div 1 = v
    OBVIOUS
  <2> QED
    BY <2>1 DEF BlockMean
<1>6. Level(P, j - 1, j, v)
  <2>1. ASSUME NEW k \in (j - 1)..j
        PROVE  P[k] - P[j - 1] >= v * (k - (j - 1)) /\ (k < j => P[j] - P[k] < (v + 1) * (j - k))
    <3>1. k = j \/ k = j - 1
      OBVIOUS
    <3>2. P[j] \in Int /\ P[j - 1] \in Int
      OBVIOUS
    <3>3. CASE k = j
      <4>1. k - (j - 1) = 1 /\ v * 1 = v /\ ~ (k < j)
        BY <3>3
      <4> QED
        BY <3>2, <3>3, <4>1
    <3>4. CASE k = j - 1
      <4>1. k - (j - 1) = 0 /\ v * 0 = 0 /\ j - k = 1 /\ (v + 1) * 1 = v + 1
        BY <3>4
      <4> QED
        BY <3>2, <3>4, <4>1
    <3> QED
      BY <3>1, <3>3, <3>4
  <2> QED
    BY <2>1 DEF Level
<1> HIDE DEF L
<1>7. d \in [0..(L + 1) -> 0..j] /\ d[0] = 0 /\ d[L + 1] = j /\ \A k \in 0..L : d[k] = e[k]
  <2>1. \A k \in 0..(L + 1) : k # L + 1 => k \in 0..L
    BY <1>2
  <2>2. \A k \in 0..L : k \in 0..(L + 1) /\ k # L + 1
    BY <1>2
  <2>3. 0 \in 0..L /\ L + 1 \in 0..(L + 1) /\ j \in 0..j /\ \A x \in 0..(j - 1) : x \in 0..j
    BY <1>2
  <2>4. \A k \in 0..(L + 1) : d[k] = IF k = L + 1 THEN j ELSE e[k]
    BY DEF d
  <2>5. \A k \in 0..(L + 1) : d[k] \in 0..j
    BY <1>3, <2>1, <2>3, <2>4
  <2>6. d \in [0..(L + 1) -> 0..j]
    BY <2>5 DEF d
  <2> QED
    BY <1>3, <2>2, <2>3, <2>4, <2>6
<1> HIDE DEF d
<1>8. ASSUME NEW k \in 1..(L + 1)
      PROVE  /\ d[k - 1] < d[k] /\ C[k] = <<P[d[k]] - P[d[k - 1]], d[k] - d[k - 1]>>
             /\ Level(P, d[k - 1], d[k], BlockMean(C[k]))
  <2>1. CASE k = L + 1
    <3>1. k - 1 = L /\ L \in 0..L
      BY <1>2, <2>1
    <3>2. d[k - 1] = j - 1 /\ d[k] = j /\ C[k] = <<v, 1>>
      BY <1>3, <1>4, <1>7, <2>1, <3>1, Zenon
    <3>3. j - (j - 1) = 1 /\ j - 1 < j
      OBVIOUS
    <3> QED
      BY <1>5, <1>6, <3>2, <3>3
  <2>2. CASE k # L + 1
    <3>1. k \in 1..L /\ k \in 0..L /\ k - 1 \in 0..L
      BY <1>2, <2>2
    <3>2. d[k - 1] = e[k - 1] /\ d[k] = e[k] /\ C[k] = A[k]
      BY <1>4, <1>7, <3>1
    <3> QED
      BY <1>1, <3>1, <3>2 DEF Blocked, L
  <2> QED
    BY <2>1, <2>2
<1>9. Blocked(C, d, j, P)
  BY <1>4, <1>7, <1>8 DEF Blocked
<1>10. Rising(C, Len(C) - 1)
  <2>1. Len(C) - 1 = L /\ \A k \in 1..(L - 1) : k \in 1..L /\ k + 1 \in 1..L
    BY <1>2, <1>4
  <2> QED
    BY <1>1, <1>4, <2>1 DEF Rising
<1> QED
  BY <1>9, <1>10 DEF Pooling, C

\* The fit spreads the blocks of all the values.
LEMMA PooledBlocks ==
  ASSUME NEW theta \in Seq(Int)
  PROVE  \E B : /\ Settled(B, Len(theta), Prefix(theta))
                /\ PavNonDecreasing(theta) = FlattenSeq([i \in DOMAIN B |-> [k \in 1..B[i][2] |-> BlockMean(B[i])]])
<1> DEFINE n == Len(theta)
           P == Prefix(theta)
           T == {B \in Seq(Int \X Int) : TRUE}
           Pooled(acc, v) == Merge(Append(acc, <<v, 1>>))
           g == [p \in (1..n) \X T |-> Pooled(p[2], theta[p[1]])]
           pooled[k \in 0..n] == IF k = 0 THEN <<>> ELSE Pooled(pooled[k - 1], theta[k])
<1>1. n \in Nat /\ \A k \in 1..n : theta[k] \in Int
  BY LenProperties, ElementOfSeq
<1>2. P \in [0..n -> Int] /\ P[0] = 0 /\ \A k \in 1..n : theta[k] = P[k] - P[k - 1]
  BY PrefixSums
<1> HIDE DEF n, P
<1>3. ASSUME NEW acc \in T, NEW v \in Int PROVE Pooled(acc, v) \in T
  <2>1. Append(acc, <<v, 1>>) \in Seq(Int \X Int)
    <3>1. <<v, 1>> \in Int \X Int
      OBVIOUS
    <3> QED
      BY <3>1, AppendProperties
  <2> DEFINE B == Append(acc, <<v, 1>>)
  <2>2. PICK h \in [0..Len(B) -> Seq(Int \X Int)] : Merge(B) = h[Len(B)]
    BY <2>1, MergeRounds
  <2>3. Len(B) \in Nat
    BY <2>1, LenProperties
  <2>4. Len(B) \in 0..Len(B)
    BY <2>3
  <2> HIDE DEF B
  <2>5. Merge(B) \in Seq(Int \X Int)
    BY <2>2, <2>4
  <2> QED
    BY <2>5 DEF B
<1>4. <<>> \in T
  OBVIOUS
<1> HIDE DEF T, Pooled
<1>5. g \in [(1..n) \X T -> T]
  BY <1>1, <1>3
<1> HIDE DEF g
<1>6. PICK h \in [0..n -> T] : Rounds(h, n, <<>>, g)
  BY <1>1, <1>4, <1>5, RoundsExist
<1>7. \A k \in 1..n : h[k] = Pooled(h[k - 1], theta[k])
  <2> SUFFICES ASSUME NEW k \in 1..n PROVE h[k] = Pooled(h[k - 1], theta[k])
    OBVIOUS
  <2>1. k - 1 \in 0..n
    BY <1>1
  <2>2. h[k - 1] \in T
    BY <1>6, <2>1
  <2> QED
    BY <1>6, <2>2 DEF g, Rounds
<1>8. h = [k \in 0..n |-> IF k = 0 THEN <<>> ELSE Pooled(h[k - 1], theta[k])]
  <2>1. \A k \in 0..n : h[k] = IF k = 0 THEN <<>> ELSE Pooled(h[k - 1], theta[k])
    <3> SUFFICES ASSUME NEW k \in 0..n PROVE h[k] = IF k = 0 THEN <<>> ELSE Pooled(h[k - 1], theta[k])
      OBVIOUS
    <3>1. k # 0 => k \in 1..n
      BY <1>1
    <3> QED
      BY <1>6, <1>7, <3>1 DEF Rounds
  <2> QED
    BY <1>6, <2>1
<1>9. pooled = [k \in 0..n |-> IF k = 0 THEN <<>> ELSE Pooled(pooled[k - 1], theta[k])]
  <2>1. \E f : f = [k \in 0..n |-> IF k = 0 THEN <<>> ELSE Pooled(f[k - 1], theta[k])]
    BY <1>8
  <2> QED
    BY <2>1, Zenon
<1>10. PavNonDecreasing(theta) = FlattenSeq([i \in DOMAIN pooled[n] |-> [k \in 1..pooled[n][i][2] |-> BlockMean(pooled[n][i])]])
  BY DEF PavNonDecreasing, Pooled, n
<1> HIDE DEF pooled
<1> DEFINE S == {k \in 0..n : Settled(pooled[k], k, P)}
<1>11. 0 \in S
  <2>1. pooled[0] = <<>> /\ 0 \in 0..n
    BY <1>1, <1>9
  <2> DEFINE e == [i \in 0..0 |-> 0]
  <2>2. Len(<<>>) = 0 /\ e \in [0..0 -> 0..0] /\ e[0] = 0 /\ 1..0 = {} /\ 1..(0 - 1) = {}
    OBVIOUS
  <2>3. <<>> \in Seq(Int \X Int)
    OBVIOUS
  <2> HIDE DEF e
  <2>4. Blocked(<<>>, e, 0, P) /\ Rising(<<>>, Len(<<>>))
    BY <2>2, <2>3 DEF Blocked, Rising
  <2> QED
    BY <2>1, <2>4 DEF Settled
<1>12. ASSUME NEW k \in 1..n, k - 1 \in S PROVE k \in S
  <2>1. k \in 0..n /\ k # 0
    BY <1>1
  <2>2. pooled[k] = Merge(Append(pooled[k - 1], <<theta[k], 1>>))
    BY <1>9, <2>1 DEF Pooled
  <2>3. Settled(pooled[k - 1], k - 1, P)
    BY <1>12
  <2>4. Pooling(Append(pooled[k - 1], <<theta[k], 1>>), k, P)
    BY <1>1, <1>2, <2>3, AddOne
  <2>5. Settled(pooled[k], k, P)
    BY <1>1, <1>2, <2>1, <2>2, <2>4, MergeSettles
  <2> QED
    BY <2>1, <2>5
<1>13. \A k \in 0..n : k \in S
  <2> HIDE DEF S
  <2> QED
    BY <1>1, <1>11, <1>12, EveryRound
<1>14. Settled(pooled[n], n, P)
  <2>1. n \in 0..n
    BY <1>1
  <2> QED
    BY <1>13, <2>1
<1> QED
  BY <1>10, <1>14 DEF n, P

\* A flattened sequence has each member of each part where its lengths put it.
LEMMA FlattenedAt ==
  ASSUME NEW S, NEW ss \in Seq(Seq(S)), NEW e \in [0..Len(ss) -> Nat], e[0] = 0,
         \A i \in 1..Len(ss) : e[i] = e[i - 1] + Len(ss[i])
  PROVE  /\ FlattenSeq(ss) \in Seq(S) /\ Len(FlattenSeq(ss)) = e[Len(ss)]
         /\ \A i \in 1..Len(ss) : \A k \in 1..Len(ss[i]) : FlattenSeq(ss)[e[i - 1] + k] = ss[i][k]
<1> DEFINE n == Len(ss)
<1>1. n \in Nat /\ DOMAIN ss = 1..n /\ \A i \in 1..n : ss[i] \in Seq(S) /\ Len(ss[i]) \in Nat
  BY LenProperties, ElementOfSeq
<1>2. CASE n = 0
  <2>1. ss = <<>>
    BY <1>2
  <2>2. FlattenSeq(ss) = <<>> /\ <<>> \in Seq(S) /\ Len(<<>>) = 0 /\ 1..n = {}
    BY <1>1, <1>2, <2>1, EmptySeq DEF FlattenSeq
  <2> QED
    BY <1>2, <2>2
<1>3. CASE n # 0
  <2>1. PICK h : /\ FlattenSeq(ss) = h[n]
                 /\ \A i \in 1..n : h[i] = IF i = 1 THEN ss[i] ELSE h[i - 1] \o ss[i]
    BY <1>3, FlattenSteps
  <2>2. /\ e \in [0..n -> Nat] /\ e[0] = 0 /\ \A i \in 1..n : e[i] = e[i - 1] + Len(ss[i])
    OBVIOUS
  <2> HIDE DEF n
  <2> DEFINE Placed(m) == /\ h[m] \in Seq(S) /\ Len(h[m]) = e[m]
                          /\ \A i \in 1..m : \A k \in 1..Len(ss[i]) : /\ e[i - 1] + k \in 1..e[m]
                                                                    /\ h[m][e[i - 1] + k] = ss[i][k]
             T == {m \in Nat : m \in 1..n => Placed(m)}
  <2>3. 0 \in T
    BY <1>1
  <2>4. ASSUME NEW m \in 1..n, m - 1 \in T PROVE m \in T
    <3>0. m \in Nat /\ m \in 0..n /\ m - 1 \in 0..n /\ e[m] \in Nat /\ e[m - 1] \in Nat /\ e[m] = e[m - 1] + Len(ss[m])
          /\ ss[m] \in Seq(S) /\ Len(ss[m]) \in Nat
      <4>1. m \in Nat /\ m \in 0..n /\ m - 1 \in 0..n
        BY <1>1
      <4> QED
        BY <1>1, <2>2, <4>1
    <3>1. CASE m = 1
      <4>1. h[1] = ss[1] /\ e[0] = 0 /\ e[1] = Len(ss[1])
        BY <2>1, <2>2, <3>0, <3>1
      <4>2. \A i \in 1..1 : i = 1 /\ i - 1 = 0
        OBVIOUS
      <4>3. \A k \in 1..Len(ss[1]) : 0 + k = k
        BY <3>0, <3>1
      <4>4. Placed(1)
        BY <3>0, <3>1, <4>1, <4>2, <4>3
      <4> QED
        BY <3>0, <3>1, <4>4
    <3>2. CASE m # 1
      <4>1. m - 1 \in 1..n
        BY <1>1, <3>2
      <4>2. Placed(m - 1) /\ h[m] = h[m - 1] \o ss[m]
        BY <2>1, <2>4, <3>2, <4>1
      <4>3. h[m - 1] \in Seq(S) /\ Len(h[m - 1]) = e[m - 1]
        BY <4>2
      <4>4. /\ h[m] \in Seq(S) /\ Len(h[m]) = e[m]
            /\ \A i \in 1..e[m] : h[m][i] = IF i <= e[m - 1] THEN h[m - 1][i] ELSE ss[m][i - e[m - 1]]
        <5> DEFINE u == h[m - 1]
                   w == ss[m]
        <5>1. h[m] = u \o w /\ u \in Seq(S) /\ w \in Seq(S) /\ Len(u) = e[m - 1] /\ e[m] = Len(u) + Len(w)
          BY <3>0, <4>2, <4>3
        <5> HIDE DEF u, w
        <5>2. /\ u \o w \in Seq(S) /\ Len(u \o w) = Len(u) + Len(w)
              /\ \A i \in 1..(Len(u) + Len(w)) : (u \o w)[i] = IF i <= Len(u) THEN u[i] ELSE w[i - Len(u)]
          BY <5>1, ConcatProperties
        <5>3. \A i \in 1..e[m] : h[m][i] = IF i <= e[m - 1] THEN u[i] ELSE w[i - e[m - 1]]
          BY <5>1, <5>2
        <5> QED
          BY <5>1, <5>2, <5>3 DEF u, w
      <4>5. ASSUME NEW i \in 1..m, NEW k \in 1..Len(ss[i])
            PROVE  e[i - 1] + k \in 1..e[m] /\ h[m][e[i - 1] + k] = ss[i][k]
        <5>1. CASE i = m
          <6>1. k \in 1..Len(ss[m])
            BY <5>1
          <6>2. e[m - 1] + k \in 1..e[m] /\ ~ (e[m - 1] + k <= e[m - 1]) /\ (e[m - 1] + k) - e[m - 1] = k
            <7> DEFINE a == e[m - 1]
                       b == Len(ss[m])
            <7>1. a \in Nat /\ b \in Nat /\ e[m] = a + b /\ k \in 1..b
              BY <3>0, <6>1
            <7> HIDE DEF a, b
            <7>2. a + k \in 1..(a + b) /\ ~ (a + k <= a) /\ (a + k) - a = k
              BY <7>1
            <7> QED
              BY <7>1, <7>2 DEF a
          <6>3. h[m][e[m - 1] + k] = ss[m][k]
            BY <4>4, <6>2
          <6> QED
            BY <5>1, <6>2, <6>3
        <5>2. CASE i # m
          <6>1. i \in 1..(m - 1)
            BY <5>2
          <6>2. e[i - 1] + k \in 1..e[m - 1] /\ h[m - 1][e[i - 1] + k] = ss[i][k]
            BY <4>2, <6>1
          <6> DEFINE x == e[i - 1] + k
          <6> HIDE DEF x
          <6>3. x \in 1..e[m - 1] /\ h[m - 1][x] = ss[i][k]
            BY <6>2 DEF x
          <6>4. x \in 1..e[m] /\ x <= e[m - 1]
            <7>1. \A a, b \in Nat : \A y \in 1..a : y \in 1..(a + b) /\ y <= a
              OBVIOUS
            <7> QED
              BY <3>0, <6>3, <7>1, Zenon
          <6>5. h[m][x] = ss[i][k]
            BY <4>4, <6>3, <6>4
          <6> QED
            BY <6>4, <6>5 DEF x
        <5> QED
          BY <5>1, <5>2
      <4>6. Placed(m)
        BY <4>4, <4>5
      <4> QED
        BY <3>0, <4>6
    <3> QED
      BY <3>1, <3>2
  <2>5. \A m \in 0..n : m \in T
    <3> HIDE DEF T
    <3> QED
      BY <1>1, <2>3, <2>4, EveryRound
  <2>6. Placed(n) /\ n \in 1..n
    <3>1. n \in 0..n /\ n \in 1..n
      BY <1>1, <1>3
    <3> HIDE DEF Placed
    <3> QED
      BY <2>5, <3>1
  <2> QED
    BY <2>1, <2>6 DEF n
<1> QED
  BY <1>2, <1>3

\* The mean of a stretch of values, and what bounds it.
LEMMA MeanOfStretch ==
  ASSUME NEW theta \in Seq(Int), NEW a \in 1..Len(theta), NEW b \in a..Len(theta), NEW m \in Int
  PROVE  /\ MeanOf(theta, a, b) \in Int
         /\ Prefix(theta)[b] - Prefix(theta)[a - 1] >= m * (b - (a - 1)) => m <= MeanOf(theta, a, b)
         /\ Prefix(theta)[b] - Prefix(theta)[a - 1] < (m + 1) * (b - (a - 1)) => MeanOf(theta, a, b) <= m
<1> DEFINE s == Prefix(theta)[b] - Prefix(theta)[a - 1]
           w == b - a + 1
           q == s \div w
<1>1. Len(theta) \in Nat
  BY LenProperties
<1>2. w \in Nat \ {0} /\ b - (a - 1) = w /\ a - 1 \in 0..Len(theta) /\ b \in 0..Len(theta)
  BY <1>1
<1>3. s \in Int
  <2>1. Prefix(theta)[b] \in Int /\ Prefix(theta)[a - 1] \in Int
    BY <1>2, PrefixSums
  <2> QED
    BY <2>1
<1>4. MeanOf(theta, a, b) = q
  <2>1. SumOver(theta, a..b) = s
    BY PrefixSums
  <2> QED
    BY <2>1 DEF MeanOf, SumOver
<1> HIDE DEF s, w
<1>5. q \in Int /\ q * w <= s /\ s < (q + 1) * w
  BY <1>2, <1>3, Quotient
<1> HIDE DEF q
<1>6. s >= m * w => m <= q
  <2> SUFFICES ASSUME s >= m * w PROVE m <= q
    OBVIOUS
  <2> DEFINE x == m * w
             y == (q + 1) * w
  <2>1. x \in Int /\ y \in Int
    BY <1>2, <1>5
  <2>2. s >= x /\ s < y
    BY <1>5
  <2> HIDE DEF x, y
  <2>3. x < y
    BY <1>3, <2>1, <2>2
  <2>4. m < q + 1
    BY <1>2, <1>5, <2>3, Factors DEF x, y
  <2> QED
    BY <1>5, <2>4
<1>7. s < (m + 1) * w => q <= m
  <2> SUFFICES ASSUME s < (m + 1) * w PROVE q <= m
    OBVIOUS
  <2> DEFINE x == q * w
             y == (m + 1) * w
  <2>1. x \in Int /\ y \in Int
    BY <1>2, <1>5
  <2>2. x <= s /\ s < y
    BY <1>5
  <2> HIDE DEF x, y
  <2>3. x < y
    BY <1>3, <2>1, <2>2
  <2>4. q < m + 1
    BY <1>2, <1>5, <2>3, Factors DEF x, y
  <2> QED
    BY <1>5, <2>4
<1> QED
  BY <1>2, <1>4, <1>5, <1>6, <1>7 DEF s

\* A block and all after it lie no lower than the block.
LEMMA AboveLevel ==
  ASSUME NEW n \in Nat, NEW P \in [0..n -> Int], NEW B, NEW e, Blocked(B, e, n, P), Rising(B, Len(B)),
         NEW t \in 1..Len(B), NEW b \in e[t - 1]..n
  PROVE  P[b] - P[e[t - 1]] >= BlockMean(B[t]) * (b - e[t - 1])
<1> DEFINE L == Len(B)
           c == e[t - 1]
           m == BlockMean(B[t])
<1>1. L \in Nat /\ e[L] = n /\ \A i \in 1..L : Level(P, e[i - 1], e[i], BlockMean(B[i]))
  BY LenProperties DEF Blocked
<1>2. \A i \in 1..L : e[i] \in 0..n /\ e[i - 1] \in 0..n /\ e[i - 1] < e[i] /\ BlockMean(B[i]) \in Int
  <2>1. n \in 0..n
    OBVIOUS
  <2> QED
    BY <2>1, BlockMeans
<1>3. c \in 0..n /\ m \in Int
  BY <1>2
<1>4. P[c] \in Int /\ \A i \in 0..n : P[i] \in Int
  BY <1>3
<1>5. \A i \in 1..(L - 1) : BlockMean(B[i]) <= BlockMean(B[i + 1])
  BY DEF Rising
<1> HIDE DEF L, c, m
<1> DEFINE Up(u) == /\ c <= e[u] /\ m <= BlockMean(B[u])
                    /\ \A x \in c..e[u] : P[x] - P[c] >= m * (x - c)
           S == {u \in 0..L : u >= t => Up(u)}
<1>6. 0 \in S
  BY <1>1
<1>7. ASSUME NEW u \in 1..L, u - 1 \in S PROVE u \in S
  <2>0. u \in 0..L /\ t \in 1..L
    BY <1>1 DEF L
  <2>1. CASE u < t
    BY <2>0, <2>1
  <2>2. CASE u = t
    <3>1. Level(P, c, e[u], m)
      BY <1>1, <2>0, <2>2 DEF c, m
    <3>2. c <= e[u] /\ m <= BlockMean(B[u])
      BY <1>2, <2>0, <2>2 DEF c, m
    <3> QED
      BY <2>0, <3>1, <3>2 DEF Level
  <2>3. CASE u > t
    <3>1. u - 1 \in 1..L /\ u - 1 \in 1..(L - 1) /\ u - 1 >= t /\ (u - 1) + 1 = u /\ t \in Nat
      BY <1>1, <2>0, <2>3
    <3> DEFINE d == e[u - 1]
               f == e[u]
               v == BlockMean(B[u])
               w == BlockMean(B[u - 1])
    <3>2. Up(u - 1)
      BY <1>7, <3>1
    <3>3. w <= v
      BY <1>5, <3>1
    <3>4. d \in 0..n /\ f \in 0..n /\ d < f /\ v \in Int /\ w \in Int /\ Level(P, d, f, v)
      BY <1>1, <1>2, <2>0, <3>1
    <3>5. c <= d /\ m <= w /\ \A x \in c..d : P[x] - P[c] >= m * (x - c)
      BY <3>2
    <3> HIDE DEF d, f, v, w
    <3>6. c <= f /\ m <= v
      <4>1. \A x, y, z \in Int : x <= y /\ y <= z => x <= z
        OBVIOUS
      <4>2. c \in Int /\ d \in Int /\ f \in Int /\ d <= f
        BY <1>3, <3>4
      <4> QED
        BY <1>3, <3>3, <3>4, <3>5, <4>1, <4>2, Zenon
    <3>7. ASSUME NEW x \in c..f PROVE P[x] - P[c] >= m * (x - c)
      <4>1. CASE x <= d
        <5>1. x \in c..d
          BY <1>3, <3>4, <4>1
        <5> QED
          BY <3>5, <5>1
      <4>2. CASE x > d
        <5>0. x \in d..f /\ d \in c..d /\ x \in 0..n
          BY <1>3, <3>4, <3>5, <4>2
        <5>1. P[x] - P[d] >= v * (x - d) /\ P[d] - P[c] >= m * (d - c)
          BY <3>4, <3>5, <5>0 DEF Level
        <5> DEFINE y == x - d
                   z == d - c
        <5>2. y \in Nat /\ z \in Nat /\ x - c = y + z
          BY <1>3, <3>4, <3>5, <5>0
        <5>3. P[x] - P[d] >= v * y /\ P[d] - P[c] >= m * z
          BY <5>1
        <5> HIDE DEF y, z
        <5>4. m * y <= v * y /\ m * y \in Int /\ v * y \in Int
          BY <1>3, <3>4, <3>6, <5>2, Scaled
        <5>5. m * (y + z) = m * y + m * z /\ m * z \in Int
          BY <1>3, <5>2, Spread
        <5> DEFINE p == m * y
                   q == v * y
                   r == m * z
                   s == m * (y + z)
                   g == P[c]
                   h == P[d]
                   o == P[x]
        <5>6. p \in Int /\ q \in Int /\ r \in Int /\ p <= q /\ s = p + r /\ o - h >= q /\ h - g >= r
          BY <5>3, <5>4, <5>5, Zenon
        <5>7. o \in Int /\ h \in Int /\ g \in Int
          BY <1>4, <3>4, <5>0, Zenon
        <5> HIDE DEF p, q, r, s, g, h, o
        <5>8. o - g >= s
          BY <5>6, <5>7
        <5> QED
          BY <5>2, <5>8 DEF s, g, o
      <4> QED
        BY <1>3, <3>4, <4>1, <4>2
    <3>8. Up(u)
      BY <3>6, <3>7 DEF f, v
    <3> QED
      BY <2>0, <3>8
  <2> QED
    BY <1>1, <2>0, <2>1, <2>2, <2>3
<1>8. \A u \in 0..L : u \in S
  <2> HIDE DEF S
  <2> QED
    BY <1>1, <1>6, <1>7, EveryRound
<1>9. Up(L)
  <2>1. L \in 0..L /\ L >= t
    BY <1>1 DEF L
  <2> HIDE DEF Up
  <2> QED
    BY <1>8, <2>1
<1> QED
  BY <1>1, <1>9 DEF c, m

\* A block and all before it lie no higher than the block.
LEMMA BelowLevel ==
  ASSUME NEW n \in Nat, NEW P \in [0..n -> Int], NEW B, NEW e, Blocked(B, e, n, P), Rising(B, Len(B)),
         NEW t \in 1..Len(B), NEW a \in 0..(e[t] - 1)
  PROVE  P[e[t]] - P[a] < (BlockMean(B[t]) + 1) * (e[t] - a)
<1> DEFINE L == Len(B)
           f == e[t]
           m == BlockMean(B[t])
<1>1. L \in Nat /\ t \in Nat /\ e[0] = 0 /\ \A i \in 1..L : Level(P, e[i - 1], e[i], BlockMean(B[i]))
  BY LenProperties DEF Blocked
<1>2. \A i \in 1..L : e[i] \in 0..n /\ e[i - 1] \in 0..n /\ e[i - 1] < e[i] /\ BlockMean(B[i]) \in Int
  <2>1. n \in 0..n
    OBVIOUS
  <2> QED
    BY <2>1, BlockMeans
<1>3. f \in 0..n /\ m \in Int
  BY <1>2
<1>4. P[f] \in Int /\ \A i \in 0..n : P[i] \in Int
  BY <1>3
<1>5. \A i \in 1..(L - 1) : BlockMean(B[i]) <= BlockMean(B[i + 1])
  BY DEF Rising
<1>6. t \in 1..L /\ t - 1 \in Nat
  BY <1>1
<1> HIDE DEF L, f, m
<1> DEFINE Down(u) == /\ e[u - 1] < f /\ BlockMean(B[u]) <= m
                      /\ \A x \in e[u - 1]..(f - 1) : P[f] - P[x] < (m + 1) * (f - x)
           S == {k \in 0..(t - 1) : Down(t - k)}
<1>7. 0 \in S
  <2>1. t - 0 = t /\ 0 \in 0..(t - 1)
    BY <1>6
  <2>2. Level(P, e[t - 1], f, m) /\ e[t - 1] < f /\ BlockMean(B[t]) <= m /\ e[t - 1] \in 0..n
    BY <1>1, <1>2, <1>6 DEF f, m
  <2>3. \A x \in e[t - 1]..(f - 1) : x \in e[t - 1]..f /\ x < f
    BY <1>3, <2>2
  <2>4. Down(t)
    BY <2>2, <2>3 DEF Level
  <2> QED
    BY <2>1, <2>4
<1>8. ASSUME NEW k \in 1..(t - 1), k - 1 \in S PROVE k \in S
  <2> DEFINE u == t - k
  <2>1. u \in 1..(L - 1) /\ u \in 1..L /\ u + 1 \in 1..L /\ t - (k - 1) = u + 1 /\ (u + 1) - 1 = u /\ k \in 0..(t - 1)
    BY <1>6, <1>1
  <2> HIDE DEF u
  <2> DEFINE c == e[u - 1]
             d == e[u]
             v == BlockMean(B[u])
             w == BlockMean(B[u + 1])
  <2>2. Down(u + 1)
    BY <1>8, <2>1
  <2>3. v <= w
    BY <1>5, <2>1
  <2>4. c \in 0..n /\ d \in 0..n /\ c < d /\ v \in Int /\ w \in Int /\ Level(P, c, d, v)
    BY <1>1, <1>2, <2>1
  <2>5. d < f /\ w <= m /\ \A x \in d..(f - 1) : P[f] - P[x] < (m + 1) * (f - x)
    BY <2>1, <2>2
  <2> HIDE DEF c, d, v, w
  <2>6. c < f /\ v <= m
    BY <1>3, <2>3, <2>4, <2>5
  <2>7. ASSUME NEW x \in c..(f - 1) PROVE P[f] - P[x] < (m + 1) * (f - x)
    <3>1. CASE x >= d
      <4>1. x \in d..(f - 1)
        BY <1>3, <2>4, <3>1
      <4> QED
        BY <2>5, <4>1
    <3>2. CASE x < d
      <4>0. x \in c..d /\ d \in d..(f - 1) /\ x \in 0..n
        BY <1>3, <2>4, <2>5, <3>2
      <4>1. P[d] - P[x] < (v + 1) * (d - x) /\ P[f] - P[d] < (m + 1) * (f - d)
        BY <2>4, <2>5, <3>2, <4>0 DEF Level
      <4> DEFINE y == d - x
                 z == f - d
                 g == m + 1
                 h == v + 1
      <4>2. y \in Nat /\ z \in Nat /\ f - x = y + z /\ g \in Int /\ h \in Int /\ h <= g
        BY <1>3, <2>4, <2>5, <2>6, <3>2, <4>0
      <4>3. P[d] - P[x] < h * y /\ P[f] - P[d] < g * z
        BY <4>1
      <4> HIDE DEF y, z, g, h
      <4>4. h * y <= g * y /\ g * y \in Int /\ h * y \in Int
        BY <4>2, Scaled
      <4>5. g * (y + z) = g * y + g * z /\ g * z \in Int
        BY <4>2, Spread
      <4> DEFINE p == g * y
                 q == h * y
                 r == g * z
                 s == g * (y + z)
                 i == P[x]
                 l == P[d]
                 o == P[f]
      <4>6. p \in Int /\ q \in Int /\ r \in Int /\ q <= p /\ s = p + r /\ l - i < q /\ o - l < r
        BY <4>3, <4>4, <4>5, Zenon
      <4>7. i \in Int /\ l \in Int /\ o \in Int
        BY <1>4, <2>4, <4>0, Zenon
      <4> HIDE DEF p, q, r, s, i, l, o
      <4>8. o - i < s
        BY <4>6, <4>7
      <4> QED
        BY <4>2, <4>8 DEF s, g, i, o
    <3> QED
      BY <1>3, <2>4, <3>1, <3>2
  <2>8. Down(u)
    BY <2>6, <2>7 DEF c, v
  <2> QED
    BY <2>1, <2>8 DEF u
<1>9. \A k \in 0..(t - 1) : k \in S
  <2> HIDE DEF S
  <2> QED
    BY <1>6, <1>7, <1>8, EveryRound
<1>10. Down(1)
  <2>1. t - 1 \in 0..(t - 1) /\ t - (t - 1) = 1
    BY <1>6
  <2> HIDE DEF Down
  <2> QED
    BY <1>9, <2>1
<1>11. e[1 - 1] = 0
  BY <1>1
<1> QED
  BY <1>10, <1>11 DEF f, m

\* The largest over starts of the smallest over ends is m when one start has
\* no mean below m and one end no mean above it.
LEMMA LargestOfSmallest ==
  ASSUME NEW theta \in Seq(Int), NEW x \in 1..Len(theta), NEW m \in Int, NEW c \in 1..x, NEW d \in x..Len(theta),
         \A b \in x..Len(theta) : m <= MeanOf(theta, c, b), \A a \in 1..x : MeanOf(theta, a, d) <= m
  PROVE  Max({Min({MeanOf(theta, a, b) : b \in x..Len(theta)}) : a \in 1..x}) = m
<1> DEFINE n == Len(theta)
           Least(a) == Min({MeanOf(theta, a, b) : b \in x..n})
           least == [a \in 1..x |-> Least(a)]
<1>1. n \in Nat /\ x \in Nat /\ IsFiniteSet(1..x) /\ IsFiniteSet(x..n)
  <2>1. n \in Nat /\ x \in Int /\ 1 \in Int
    BY LenProperties
  <2> QED
    BY <2>1, FS_Interval
<1>2. \A a \in 1..x, b \in x..n : MeanOf(theta, a, b) \in Int
  <2> SUFFICES ASSUME NEW a \in 1..x, NEW b \in x..n PROVE MeanOf(theta, a, b) \in Int
    OBVIOUS
  <2>1. a \in 1..n /\ b \in a..n /\ 0 \in Int
    BY <1>1
  <2> QED
    BY <2>1, MeanOfStretch
<1> HIDE DEF n
<1>3. ASSUME NEW a \in 1..x
      PROVE  /\ Least(a) \in Int /\ \A b \in x..n : Least(a) <= MeanOf(theta, a, b)
             /\ \E b \in x..n : Least(a) = MeanOf(theta, a, b)
  <2> DEFINE f == [b \in x..n |-> MeanOf(theta, a, b)]
             I == {f[b] : b \in x..n}
  <2>1. IsFiniteSet(I)
    <3> HIDE DEF f
    <3> QED
      BY <1>1, FiniteImage
  <2>2. I = {MeanOf(theta, a, b) : b \in x..n} /\ I \subseteq Int
    BY <1>2
  <2>3. d \in x..n
    BY DEF n
  <2>4. I # {}
    BY <2>3
  <2>5. Least(a) = Min(I)
    BY <2>2
  <2>6. Min(I) \in I /\ \A y \in I : Min(I) <= y
    <3> HIDE DEF I
    <3> QED
      BY <2>1, <2>2, <2>4, MinOfFinite
  <2>7. \A b \in x..n : MeanOf(theta, a, b) \in I
    BY <2>2
  <2>8. \E b \in x..n : Min(I) = MeanOf(theta, a, b)
    BY <2>2, <2>6
  <2> HIDE DEF I, Least
  <2> QED
    BY <2>2, <2>5, <2>6, <2>7, <2>8
<1> HIDE DEF Least
<1>4. Least(c) = m
  <2>1. PICK b \in x..n : Least(c) = MeanOf(theta, c, b)
    BY <1>3
  <2>2. m <= MeanOf(theta, c, b)
    BY <2>1 DEF n
  <2>3. d \in x..n /\ Least(c) <= MeanOf(theta, c, d) /\ MeanOf(theta, c, d) <= m
    BY <1>3 DEF n
  <2>4. MeanOf(theta, c, d) \in Int /\ Least(c) \in Int
    BY <1>2, <1>3, <2>3
  <2> QED
    BY <2>1, <2>2, <2>3, <2>4
<1>5. ASSUME NEW a \in 1..x PROVE Least(a) <= m
  <2>1. d \in x..n /\ Least(a) <= MeanOf(theta, a, d) /\ MeanOf(theta, a, d) <= m
    BY <1>3 DEF n
  <2>2. MeanOf(theta, a, d) \in Int /\ Least(a) \in Int
    BY <1>2, <1>3, <2>1
  <2> QED
    BY <2>1, <2>2
<1> DEFINE M == {least[a] : a \in 1..x}
<1>6. IsFiniteSet(M)
  <2> HIDE DEF least
  <2> QED
    BY <1>1, FiniteImage
<1>7. M = {Least(a) : a \in 1..x} /\ M \subseteq Int /\ m \in M /\ \A y \in M : y <= m
  BY <1>3, <1>4, <1>5
<1>8. Max(M) = m
  <2> HIDE DEF M
  <2>1. Max(M) \in M /\ \A y \in M : y <= Max(M)
    BY <1>6, <1>7, MaxOfFinite
  <2>2. Max(M) \in Int /\ Max(M) <= m /\ m <= Max(M)
    BY <1>7, <2>1
  <2> QED
    BY <2>2
<1> QED
  BY <1>7, <1>8 DEF Least, n

\* Pooling the values that fall makes of any sequence of integers its isotonic
\* regression: of each value the largest over the starts before it of the
\* smallest over the ends after it of the mean between them.
LEMMA PooledIsIsotonic ==
  ASSUME NEW theta \in Seq(Int)
  PROVE  PavNonDecreasing(theta) = Isotonic(theta)
<1> DEFINE n == Len(theta)
           P == Prefix(theta)
<1>1. PICK B : /\ Settled(B, n, P)
               /\ PavNonDecreasing(theta) = FlattenSeq([i \in DOMAIN B |-> [k \in 1..B[i][2] |-> BlockMean(B[i])]])
  BY PooledBlocks
<1>2. PICK e : Blocked(B, e, n, P) /\ Rising(B, Len(B))
  BY <1>1 DEF Settled
<1>3. n \in Nat /\ P \in [0..n -> Int] /\ DOMAIN theta = 1..n /\ n \in 0..n
  BY LenProperties, PrefixSums
<1> HIDE DEF P
<1> DEFINE L == Len(B)
           ss == [i \in 1..L |-> [k \in 1..B[i][2] |-> BlockMean(B[i])]]
<1>4. L \in Nat /\ DOMAIN B = 1..L /\ e \in [0..L -> 0..n] /\ e[0] = 0 /\ e[L] = n
  BY <1>2, LenProperties DEF Blocked
<1>5. \A i \in 1..L : /\ e[i] \in 0..n /\ e[i - 1] \in 0..n /\ e[i - 1] < e[i] /\ BlockMean(B[i]) \in Int
                      /\ B[i][2] = e[i] - e[i - 1]
  <2>1. \A i \in 1..L : B[i][2] = e[i] - e[i - 1]
    BY <1>2 DEF Blocked
  <2>2. \A i \in 1..L : e[i] \in 0..n /\ e[i - 1] \in 0..n /\ e[i - 1] < e[i] /\ BlockMean(B[i]) \in Int
    BY <1>2, <1>3, BlockMeans
  <2> QED
    BY <2>1, <2>2
<1> HIDE DEF n, L
<1>6. \A i \in 1..L : /\ ss[i] \in Seq(Int) /\ Len(ss[i]) = e[i] - e[i - 1]
                      /\ \A k \in 1..(e[i] - e[i - 1]) : ss[i][k] = BlockMean(B[i])
  <2> SUFFICES ASSUME NEW i \in 1..L
               PROVE  /\ ss[i] \in Seq(Int) /\ Len(ss[i]) = e[i] - e[i - 1]
                      /\ \A k \in 1..(e[i] - e[i - 1]) : ss[i][k] = BlockMean(B[i])
    OBVIOUS
  <2> DEFINE w == e[i] - e[i - 1]
             m == BlockMean(B[i])
  <2>1. w \in Nat /\ m \in Int /\ ss[i] = [k \in 1..w |-> m]
    <3>1. B[i][2] = w /\ m \in Int
      BY <1>5
    <3>2. w \in Nat
      <4>1. \A x, y \in 0..n : x < y => y - x \in Nat
        BY <1>3
      <4> QED
        BY <1>5, <4>1
    <3> QED
      BY <3>1, <3>2
  <2> HIDE DEF w, m, ss
  <2>2. ss[i] \in Seq(Int) /\ Len(ss[i]) = w /\ \A k \in 1..w : ss[i][k] = m
    BY <2>1
  <2> QED
    BY <2>2 DEF w, m
<1>7. PavNonDecreasing(theta) = FlattenSeq(ss)
  BY <1>1, <1>4
<1>8. ss \in Seq(Seq(Int)) /\ Len(ss) = L
  BY <1>4, <1>6
<1> HIDE DEF ss
<1>9. /\ FlattenSeq(ss) \in Seq(Int) /\ Len(FlattenSeq(ss)) = n
      /\ \A i \in 1..L : \A k \in 1..(e[i] - e[i - 1]) : FlattenSeq(ss)[e[i - 1] + k] = BlockMean(B[i])
  <2>1. e \in [0..Len(ss) -> Nat]
    BY <1>3, <1>4, <1>8
  <2>2. \A i \in 1..Len(ss) : e[i] = e[i - 1] + Len(ss[i])
    <3> SUFFICES ASSUME NEW i \in 1..L PROVE e[i] = e[i - 1] + Len(ss[i])
      BY <1>8
    <3>1. \A x, y \in 0..n : y = x + (y - x)
      BY <1>3
    <3>2. Len(ss[i]) = e[i] - e[i - 1] /\ e[i] \in 0..n /\ e[i - 1] \in 0..n
      BY <1>5, <1>6
    <3> QED
      BY <3>1, <3>2, Zenon
  <2>3. /\ FlattenSeq(ss) \in Seq(Int) /\ Len(FlattenSeq(ss)) = e[Len(ss)]
        /\ \A i \in 1..Len(ss) : \A k \in 1..Len(ss[i]) : FlattenSeq(ss)[e[i - 1] + k] = ss[i][k]
    <3>1. e[0] = 0
      BY <1>4
    <3> HIDE DEF Isotonic
    <3>2. ss \in Seq(Seq(Int))
      BY <1>8
    <3>3. FlattenSeq(ss) \in Seq(Int) /\ Len(FlattenSeq(ss)) = e[Len(ss)]
      BY <2>1, <2>2, <3>1, <3>2, FlattenedAt, Zenon
    <3>4. \A i \in 1..Len(ss) : \A k \in 1..Len(ss[i]) : FlattenSeq(ss)[e[i - 1] + k] = ss[i][k]
      BY <2>1, <2>2, <3>1, <3>2, FlattenedAt, Zenon
    <3> QED
      BY <3>3, <3>4
  <2>4. ASSUME NEW i \in 1..L, NEW k \in 1..(e[i] - e[i - 1]) PROVE FlattenSeq(ss)[e[i - 1] + k] = BlockMean(B[i])
    <3>1. k \in 1..Len(ss[i]) /\ i \in 1..Len(ss) /\ ss[i][k] = BlockMean(B[i])
      BY <1>6, <1>8
    <3> QED
      BY <2>3, <3>1
  <2> QED
    BY <1>4, <1>8, <2>3, <2>4
<1>10. ASSUME NEW x \in 1..n PROVE FlattenSeq(ss)[x] = Isotonic(theta)[x]
  <2> DEFINE E == {i \in 0..L : x <= e[i]}
  <2>1. E \in SUBSET Nat /\ L \in E
    BY <1>3, <1>4
  <2>2. PICK t \in E : \A u \in E : t <= u
    <3> HIDE DEF E
    <3> QED
      BY <2>1, LeastElement
  <2>3. t \in 1..L /\ x <= e[t] /\ t \in Nat
    BY <1>3, <1>4, <2>2
  <2>4. e[t - 1] < x
    <3>1. t - 1 \in 0..L /\ ~ (t <= t - 1)
      BY <1>4, <2>3
    <3>2. ~ (x <= e[t - 1])
      BY <2>2, <3>1
    <3>3. e[t - 1] \in 0..n
      BY <1>5, <2>3
    <3> QED
      BY <1>3, <3>2, <3>3
  <2> DEFINE m == BlockMean(B[t])
             c == e[t - 1]
             d == e[t]
  <2>5. c \in 0..n /\ d \in 0..n /\ m \in Int /\ c < x /\ x <= d
    BY <1>5, <2>3, <2>4
  <2>6. FlattenSeq(ss)[x] = m
    <3>1. \A u, v \in 0..n : u < x /\ x <= v => x - u \in 1..(v - u) /\ u + (x - u) = x
      BY <1>3
    <3>2. x - c \in 1..(d - c) /\ c + (x - c) = x
      BY <2>5, <3>1
    <3>3. FlattenSeq(ss)[c + (x - c)] = m
      BY <1>9, <2>3, <3>2
    <3> QED
      BY <3>2, <3>3
  <2>7. \A b \in c..n : P[b] - P[c] >= m * (b - c)
    BY <1>2, <1>3, <2>3, AboveLevel DEF L
  <2>8. \A a \in 0..(d - 1) : P[d] - P[a] < (m + 1) * (d - a)
    BY <1>2, <1>3, <2>3, BelowLevel DEF L
  <2> HIDE DEF m, c, d
  <2>9. \A b \in x..n : m <= MeanOf(theta, c + 1, b)
    <3> SUFFICES ASSUME NEW b \in x..n PROVE m <= MeanOf(theta, c + 1, b)
      OBVIOUS
    <3>1. b \in c..n /\ c + 1 \in 1..n /\ b \in (c + 1)..n /\ (c + 1) - 1 = c
      BY <1>3, <2>5
    <3>2. P[b] - P[(c + 1) - 1] >= m * (b - ((c + 1) - 1))
      BY <2>7, <3>1
    <3> QED
      BY <2>5, <3>1, <3>2, MeanOfStretch DEF P, n
  <2>10. \A a \in 1..x : MeanOf(theta, a, d) <= m
    <3> SUFFICES ASSUME NEW a \in 1..x PROVE MeanOf(theta, a, d) <= m
      OBVIOUS
    <3>1. a - 1 \in 0..(d - 1) /\ a \in 1..n /\ d \in a..n
      BY <1>3, <2>5
    <3>2. P[d] - P[a - 1] < (m + 1) * (d - (a - 1))
      BY <2>8, <3>1
    <3> QED
      BY <2>5, <3>1, <3>2, MeanOfStretch DEF P, n
  <2>11. c + 1 \in 1..x /\ d \in x..n
    BY <1>3, <2>5
  <2>12. Max({Min({MeanOf(theta, a, b) : b \in x..Len(theta)}) : a \in 1..x}) = m
    BY <2>5, <2>9, <2>10, <2>11, LargestOfSmallest DEF n
  <2>13. Isotonic(theta)[x] = m
    BY <1>3, <2>12 DEF Isotonic
  <2> QED
    BY <2>6, <2>13
<1>11. FlattenSeq(ss) = [x \in 1..n |-> FlattenSeq(ss)[x]]
  BY <1>9
<1>12. Isotonic(theta) = [x \in 1..n |-> Isotonic(theta)[x]]
  BY <1>3 DEF Isotonic
<1> QED
  BY <1>7, <1>10, <1>11, <1>12

(***************************************************************************)
(* Books of funds. A book is a table of numbers over a finite set of       *)
(* funds, or None.                                                         *)
(***************************************************************************)
\* A table of numbers has a sum, part by part.
LEMMA PlusType ==
  ASSUME NEW D, IsFiniteSet(D), NEW f \in [D -> Int]
  PROVE  Plus(f) \in Int /\ Plus(f) = SumOver(f, D) /\ \A S \in SUBSET D : SumOver(f, S) \in Int
<1>1. \A S \in SUBSET D : IntOn(f, S)
  BY FS_Subset DEF IntOn
<1>2. \A S \in SUBSET D : SumOver(f, S) \in Int
  BY <1>1, SumType
<1>3. Plus(f) = SumOver(f, DOMAIN f) /\ DOMAIN f = D
  BY DEF Plus, SumOver
<1> QED
  BY <1>2, <1>3

\* A sum is positive when its terms are, and there are some.
LEMMA PlusPositive ==
  ASSUME NEW D, IsFiniteSet(D), D # {}, NEW f \in [D -> Int], \A x \in D : f[x] > 0
  PROVE  Plus(f) > 0
<1>1. PICK x \in D : TRUE
  OBVIOUS
<1>2. \A y \in D : f[y] \in Nat
  OBVIOUS
<1>3. f[x] <= SumOver(f, D)
  BY <1>2, TermOfSum
<1> QED
  BY <1>3, PlusType

\* A sum is not negative when no term is.
LEMMA PlusNat ==
  ASSUME NEW D, IsFiniteSet(D), NEW f \in [D -> Int], \A x \in D : f[x] >= 0
  PROVE  Plus(f) \in Nat
<1>1. IntOn(f, D)
  BY DEF IntOn
<1>2. SumOver(f, D) \in Int /\ SumOver(f, D) >= 0
  BY <1>1, SumType
<1> QED
  BY <1>2, PlusType

\* A root is a natural number, whatever it is of.
LEMMA RootType ==
  ASSUME NEW n
  PROVE  Root(n) \in Nat
<1> DEFINE Better(low, next) == IF next * next <= n THEN next ELSE low
           g == [p \in (1..15) \X Nat |-> Better(p[2], p[2] + Bits[p[1]])]
           bit[k \in 0..15] == IF k = 0 THEN 0 ELSE Better(bit[k - 1], bit[k - 1] + Bits[k])
<1>1. \A k \in 1..15 : Bits[k] \in Nat
  BY DEF Bits
<1>2. ASSUME NEW k \in 1..15, NEW low \in Nat PROVE Better(low, low + Bits[k]) \in Nat
  BY <1>1, <1>2
<1> HIDE DEF Better
<1>3. g \in [(1..15) \X Nat -> Nat]
  BY <1>2
<1> HIDE DEF g
<1>4. PICK h \in [0..15 -> Nat] : Rounds(h, 15, 0, g)
  BY <1>3, RoundsExist
<1>5. \A k \in 1..15 : h[k] = Better(h[k - 1], h[k - 1] + Bits[k])
  <2> SUFFICES ASSUME NEW k \in 1..15 PROVE h[k] = Better(h[k - 1], h[k - 1] + Bits[k])
    OBVIOUS
  <2>1. h[k - 1] \in Nat /\ h[k] = g[<<k, h[k - 1]>>]
    BY <1>4 DEF Rounds
  <2> QED
    BY <2>1 DEF g
<1>6. h = [k \in 0..15 |-> IF k = 0 THEN 0 ELSE Better(h[k - 1], h[k - 1] + Bits[k])]
  <2>1. \A k \in 0..15 : h[k] = IF k = 0 THEN 0 ELSE Better(h[k - 1], h[k - 1] + Bits[k])
    BY <1>4, <1>5 DEF Rounds
  <2> QED
    BY <2>1
<1>7. bit = [k \in 0..15 |-> IF k = 0 THEN 0 ELSE Better(bit[k - 1], bit[k - 1] + Bits[k])]
  <2>1. \E f : f = [k \in 0..15 |-> IF k = 0 THEN 0 ELSE Better(f[k - 1], f[k - 1] + Bits[k])]
    BY <1>6
  <2> QED
    BY <2>1, Zenon
<1>8. Root(n) = bit[15]
  BY DEF Root, Better
<1> HIDE DEF bit
<1> DEFINE S == {k \in 0..15 : bit[k] \in Nat}
<1>9. 0 \in S
  BY <1>7
<1>10. ASSUME NEW k \in 1..15, k - 1 \in S PROVE k \in S
  <2>1. bit[k] = Better(bit[k - 1], bit[k - 1] + Bits[k]) /\ bit[k - 1] \in Nat
    BY <1>7, <1>10
  <2> HIDE DEF S
  <2>2. Better(bit[k - 1], bit[k - 1] + Bits[k]) \in Nat
    BY <1>2, <2>1
  <2>3. k \in 0..15 /\ bit[k] \in Nat
    BY <2>1, <2>2
  <2> QED
    BY <2>3 DEF S
<1>11. \A k \in 0..15 : k \in S
  <2> HIDE DEF S
  <2> QED
    BY <1>9, <1>10, EveryRound
<1> QED
  BY <1>8, <1>11

\* A series of returns by month, and a series of its values in order.
Series(f) == IsFiniteSet(DOMAIN f) /\ DOMAIN f \subseteq Int /\ f \in [DOMAIN f -> Int]

LEMMA InOrderType ==
  ASSUME NEW f, Series(f)
  PROVE  InOrder(f) \in Seq(Int)
<1> DEFINE D == DOMAIN f
           months == Ascending(D)
<1>1. months \in Seq(D)
  BY AscendingNumbers DEF Series
<1>2. InOrder(f) = [i \in DOMAIN months |-> f[months[i]]]
  BY DEF InOrder, Months, Ascending
<1>3. DOMAIN months = 1..Len(months) /\ Len(months) \in Nat /\ \A i \in 1..Len(months) : months[i] \in D
  BY <1>1, LenProperties, ElementOfSeq
<1>4. \A x \in D : f[x] \in Int
  BY DEF Series
<1> HIDE DEF months, D
<1> QED
  BY <1>2, <1>3, <1>4

\* The value of 1 stays a number along a sequence of returns.
LEMMA CurveType ==
  ASSUME NEW returns \in Seq(Int)
  PROVE  CumulativeCurve(returns) \in [1..Len(returns) -> Int]
<1> DEFINE n == Len(returns)
           Grown(value, r) == (value * (Unit + r)) \div Unit
           g == [p \in (1..n) \X Int |-> Grown(p[2], returns[p[1]])]
           at[i \in 0..n] == IF i = 0 THEN Unit ELSE Grown(at[i - 1], returns[i])
<1>1. n \in Nat /\ DOMAIN returns = 1..n /\ \A i \in 1..n : returns[i] \in Int
  BY LenProperties, ElementOfSeq
<1>2. ASSUME NEW value \in Int, NEW r \in Int PROVE Grown(value, r) \in Int
  BY DEF Unit
<1> HIDE DEF n, Grown
<1>3. g \in [(1..n) \X Int -> Int] /\ Unit \in Int
  <2>1. \A p \in (1..n) \X Int : p[2] \in Int /\ returns[p[1]] \in Int
    BY <1>1
  <2>2. \A p \in (1..n) \X Int : Grown(p[2], returns[p[1]]) \in Int
    BY <1>2, <2>1
  <2> QED
    BY <2>2 DEF Unit
<1> HIDE DEF g
<1>4. PICK h \in [0..n -> Int] : Rounds(h, n, Unit, g)
  BY <1>1, <1>3, RoundsExist
<1>5. \A i \in 1..n : h[i] = Grown(h[i - 1], returns[i])
  <2> SUFFICES ASSUME NEW i \in 1..n PROVE h[i] = Grown(h[i - 1], returns[i])
    OBVIOUS
  <2>1. i - 1 \in 0..n /\ h[i - 1] \in Int /\ h[i] = g[<<i, h[i - 1]>>]
    BY <1>1, <1>4 DEF Rounds
  <2> QED
    BY <2>1 DEF g
<1>6. h = [i \in 0..n |-> IF i = 0 THEN Unit ELSE Grown(h[i - 1], returns[i])]
  <2>1. \A i \in 0..n : i # 0 => i \in 1..n
    BY <1>1
  <2>2. \A i \in 0..n : h[i] = IF i = 0 THEN Unit ELSE Grown(h[i - 1], returns[i])
    BY <1>4, <1>5, <2>1 DEF Rounds
  <2> QED
    BY <2>2
<1>7. at = [i \in 0..n |-> IF i = 0 THEN Unit ELSE Grown(at[i - 1], returns[i])]
  <2>1. \E f : f = [i \in 0..n |-> IF i = 0 THEN Unit ELSE Grown(f[i - 1], returns[i])]
    BY <1>6
  <2> QED
    BY <2>1, Zenon
<1>8. CumulativeCurve(returns) = [i \in DOMAIN returns |-> at[i]]
  BY DEF CumulativeCurve, Grown, n
<1> HIDE DEF at
<1> DEFINE S == {i \in 0..n : at[i] \in Int}
<1>9. 0 \in S
  BY <1>1, <1>3, <1>7
<1>10. ASSUME NEW i \in 1..n, i - 1 \in S PROVE i \in S
  <2>1. i \in 0..n /\ i # 0 /\ at[i - 1] \in Int
    BY <1>1, <1>10
  <2> HIDE DEF S
  <2>2. at[i] = Grown(at[i - 1], returns[i])
    BY <1>7, <2>1
  <2>3. at[i] \in Int
    BY <1>1, <1>2, <2>1, <2>2
  <2> QED
    BY <2>1, <2>3 DEF S
<1>11. \A i \in 0..n : i \in S
  <2> HIDE DEF S
  <2> QED
    BY <1>1, <1>9, <1>10, EveryRound
<1>12. \A i \in 1..n : at[i] \in Int
  BY <1>1, <1>11
<1> QED
  BY <1>1, <1>8, <1>12 DEF n

\* The yearly return of a positive growth over some months is a number.
YearlyIsANumber == \A growth, n \in Nat \ {0} : Annualise(growth, n) \in Int

LEMMA CagrType ==
  ASSUME YearlyIsANumber, NEW returns \in Seq(Int)
  PROVE  Cagr(returns) \in Int
<1> DEFINE n == Len(returns)
           curve == CumulativeCurve(returns)
<1>1. n \in Nat /\ (returns # <<>> => n > 0)
  BY LenProperties
<1>2. curve \in [1..n -> Int]
  BY CurveType
<1>3. -Unit \in Int
  BY DEF Unit
<1>4. CASE returns = <<>>
  BY <1>4 DEF Cagr
<1>5. CASE returns # <<>>
  <2>1. curve \in Seq(Int) /\ Len(curve) = n
    BY <1>1, <1>2
  <2> HIDE DEF curve
  <2>2. Last(curve) \in Int
    BY <1>1, <1>2, <1>5, <2>1 DEF Last
  <2>3. ~ (Last(curve) <= 0) => Annualise(Last(curve), n) \in Int
    BY <1>1, <1>5, <2>2 DEF YearlyIsANumber
  <2> QED
    BY <1>3, <1>5, <2>3 DEF Cagr, curve
<1> QED
  BY <1>4, <1>5

\* A book's path is a series, and so is what is left of it after the fee.
LEMMA PathType ==
  ASSUME NEW D, IsFiniteSet(D), NEW w \in [D -> Int], NEW series, \A a \in D : Series(series[a]), NEW fee \in Int
  PROVE  Series(NetOfFee(MonthlySeries(w, series), fee))
<1> DEFINE A == Active(w)
           M == {k \in UNION {DOMAIN series[a] : a \in A} : \A a \in A : k \in DOMAIN series[a]}
           Value(m) == Plus([a \in A |-> w[a] * series[a][m]]) \div Whole
           path == MonthlySeries(w, series)
<1>1. A \subseteq D /\ IsFiniteSet(A)
  <2>1. A \subseteq D
    BY DEF Active
  <2> QED
    BY <2>1, FS_Subset
<1>2. Series(path)
  <2>1. CASE A = {}
    <3>1. path = <<>>
      BY <2>1 DEF MonthlySeries
    <3>2. DOMAIN path = {}
      BY <3>1
    <3>3. path \in [DOMAIN path -> Int]
      BY <3>1
    <3> QED
      BY <3>2, <3>3, FS_EmptySet DEF Series
  <2>2. CASE A # {}
    <3>1. path = [m \in M |-> Value(m)]
      BY <2>2 DEF MonthlySeries
    <3>2. PICK b \in A : TRUE
      BY <2>2
    <3>3. M \subseteq DOMAIN series[b] /\ Series(series[b])
      BY <1>1, <3>2
    <3>4. IsFiniteSet(M) /\ M \subseteq Int
      BY <3>3, FS_Subset DEF Series
    <3>5. ASSUME NEW m \in M PROVE Value(m) \in Int
      <4> DEFINE f == [a \in A |-> w[a] * series[a][m]]
      <4>1. \A a \in A : w[a] \in Int /\ series[a][m] \in Int
        BY <1>1, <3>5 DEF Series
      <4> HIDE DEF A
      <4>2. f \in [A -> Int]
        BY <4>1
      <4> HIDE DEF f
      <4>3. Plus(f) \in Int
        BY <1>1, <4>2, PlusType
      <4>4. Plus(f) \div Whole \in Int
        BY <4>3 DEF Whole
      <4> QED
        BY <4>4 DEF f
    <3> HIDE DEF M, Value
    <3>6. DOMAIN path = M /\ path \in [M -> Int]
      BY <3>1, <3>5
    <3> QED
      BY <3>4, <3>6 DEF Series
  <2> QED
    BY <2>1, <2>2
<1> HIDE DEF path
<1>3. NetOfFee(path, fee) = [m \in DOMAIN path |-> path[m] - fee \div 12]
  BY DEF NetOfFee
<1>4. \A m \in DOMAIN path : path[m] - fee \div 12 \in Int
  BY <1>2 DEF Series
<1>5. Series(NetOfFee(path, fee))
  BY <1>2, <1>3, <1>4 DEF Series
<1> QED
  BY <1>5 DEF path

\* A set of numbers ordered by a key has each of them once, the key rising and
\* the numbers rising where the key does not.
LEMMA KeyOrder ==
  ASSUME NEW S \in SUBSET Int, IsFiniteSet(S), NEW key, \A x \in S : key[x] \in Int
  PROVE  /\ ByKey(S, key) \in Seq(S)
         /\ \A i, k \in DOMAIN ByKey(S, key) : i < k => key[ByKey(S, key)[i]] <= key[ByKey(S, key)[k]]
         /\ \A x \in S : \E i \in DOMAIN ByKey(S, key) : ByKey(S, key)[i] = x
<1> DEFINE Before(x, y) == key[x] < key[y] \/ (key[x] = key[y] /\ x < y)
           R == {p \in S \X S : Before(p[1], p[2])}
           n == Cardinality(S)
           t == ByKey(S, key)
           rank(x) == Cardinality({y \in S : Before(y, x)})
<1>1. \A x, y \in S : <<x, y>> \in R <=> Before(x, y)
  OBVIOUS
<1>2. \A x \in S : {y \in S : <<y, x>> \in R} = {y \in S : Before(y, x)}
  BY <1>1
<1> HIDE DEF R
<1>3. /\ n \in Nat
      /\ \A x \in S : Cardinality({y \in S : <<y, x>> \in R}) \in 0..(n - 1)
      /\ \A x, y \in S : <<x, y>> \in R =>
              Cardinality({z \in S : <<z, x>> \in R}) < Cardinality({z \in S : <<z, y>> \in R})
      /\ \A i \in 1..n : \E x \in S : Cardinality({y \in S : <<y, x>> \in R}) = i - 1
  <2>1. \A x \in S : <<x, x>> \notin R
    BY <1>1
  <2>2. \A x, y, z \in S : <<x, y>> \in R /\ <<y, z>> \in R => <<x, z>> \in R
    <3> SUFFICES ASSUME NEW x \in S, NEW y \in S, NEW z \in S, Before(x, y), Before(y, z) PROVE Before(x, z)
      BY <1>1
    <3>1. x \in Int /\ y \in Int /\ z \in Int /\ key[x] \in Int /\ key[y] \in Int /\ key[z] \in Int
      OBVIOUS
    <3> QED
      BY <3>1
  <2>3. \A x, y \in S : x = y \/ <<x, y>> \in R \/ <<y, x>> \in R
    <3> SUFFICES ASSUME NEW x \in S, NEW y \in S PROVE x = y \/ <<x, y>> \in R \/ <<y, x>> \in R
      OBVIOUS
    <3>1. x \in Int /\ y \in Int /\ key[x] \in Int /\ key[y] \in Int
      OBVIOUS
    <3>2. x = y \/ Before(x, y) \/ Before(y, x)
      BY <3>1
    <3> QED
      BY <1>1, <3>2
  <2> QED
    BY <2>1, <2>2, <2>3, Ranks, Zenon
<1>4. /\ \A x \in S : rank(x) \in 0..(n - 1)
      /\ \A x, y \in S : Before(x, y) => rank(x) < rank(y)
      /\ \A i \in 1..n : \E x \in S : rank(x) = i - 1
  <2>1. \A x \in S : rank(x) = Cardinality({y \in S : <<y, x>> \in R})
    BY <1>2, Zenon
  <2> HIDE DEF rank, n, Before
  <2>2. \A x \in S : rank(x) \in 0..(n - 1)
    BY <1>3, <2>1
  <2>3. \A x, y \in S : Before(x, y) => rank(x) < rank(y)
    <3> SUFFICES ASSUME NEW x \in S, NEW y \in S, Before(x, y) PROVE rank(x) < rank(y)
      OBVIOUS
    <3>1. Cardinality({z \in S : <<z, x>> \in R}) < Cardinality({z \in S : <<z, y>> \in R})
      BY <1>1, <1>3
    <3> QED
      BY <2>1, <3>1
  <2>4. \A i \in 1..n : \E x \in S : rank(x) = i - 1
    BY <1>3, <2>1
  <2> QED
    BY <2>2, <2>3, <2>4
<1>5. t = [i \in 1..n |-> CHOOSE x \in S : rank(x) = i - 1]
  BY DEF ByKey, Ordered
<1>6. \A x, y \in S : ~ Before(x, y) => key[y] <= key[x]
  <2> SUFFICES ASSUME NEW x \in S, NEW y \in S, ~ Before(x, y) PROVE key[y] <= key[x]
    OBVIOUS
  <2>1. key[x] \in Int /\ key[y] \in Int
    OBVIOUS
  <2> QED
    BY <2>1
<1>7. \A x, y \in S : x = y \/ Before(x, y) \/ Before(y, x)
  <2> SUFFICES ASSUME NEW x \in S, NEW y \in S PROVE x = y \/ Before(x, y) \/ Before(y, x)
    OBVIOUS
  <2>1. x \in Int /\ y \in Int /\ key[x] \in Int /\ key[y] \in Int
    OBVIOUS
  <2> QED
    BY <2>1
<1> HIDE DEF rank, n, t, Before
<1>8. \A i \in 1..n : t[i] \in S /\ rank(t[i]) = i - 1
  BY <1>4, <1>5, Zenon
<1>9. t \in Seq(S) /\ DOMAIN t = 1..n
  <2>1. DOMAIN t = 1..n /\ t \in [1..n -> S]
    BY <1>5, <1>8
  <2> QED
    BY <1>3, <2>1
<1>10. \A i, k \in 1..n : i < k => key[t[i]] <= key[t[k]]
  <2> SUFFICES ASSUME NEW i \in 1..n, NEW k \in 1..n, i < k PROVE key[t[i]] <= key[t[k]]
    OBVIOUS
  <2>1. t[i] \in S /\ t[k] \in S /\ rank(t[i]) = i - 1 /\ rank(t[k]) = k - 1
    BY <1>8
  <2>2. i \in Int /\ k \in Int
    BY <1>3
  <2>3. ~ Before(t[k], t[i])
    <3>1. Before(t[k], t[i]) => rank(t[k]) < rank(t[i])
      BY <1>4, <2>1
    <3> QED
      BY <2>1, <2>2, <3>1
  <2> QED
    BY <1>6, <2>1, <2>3
<1>11. \A x \in S : \E i \in 1..n : t[i] = x
  <2> SUFFICES ASSUME NEW x \in S PROVE \E i \in 1..n : t[i] = x
    OBVIOUS
  <2>1. rank(x) + 1 \in 1..n /\ rank(x) \in Nat
    BY <1>3, <1>4
  <2> DEFINE i == rank(x) + 1
  <2>2. t[i] \in S /\ rank(t[i]) = i - 1 /\ i - 1 = rank(x)
    BY <1>8, <2>1
  <2>3. t[i] = x
    <3>1. (Before(t[i], x) => rank(t[i]) < rank(x)) /\ (Before(x, t[i]) => rank(x) < rank(t[i]))
      BY <1>4, <2>2
    <3>2. ~ Before(t[i], x) /\ ~ Before(x, t[i])
      BY <2>1, <2>2, <3>1
    <3> QED
      BY <1>7, <2>2, <3>2
  <2> QED
    BY <2>1, <2>3
<1> QED
  BY <1>9, <1>10, <1>11 DEF t

\* Books over a set of funds, and limits that are numbers.
Books(D) == [D -> Int] \cup {None}
LimitsType(lim) ==
  /\ \A a \in DOMAIN lim.cap : lim.cap[a] \in Int
  /\ \A a \in DOMAIN lim.ticket : lim.ticket[a] \in Int
  /\ IsFiniteSet(DOMAIN lim.floor) /\ \A a \in DOMAIN lim.floor : lim.floor[a] \in Int
  /\ lim.names \in Int /\ lim.sleeve \in Nat

LEMMA LimitOf ==
  ASSUME NEW lim, LimitsType(lim), NEW a
  PROVE  CapOf(lim, a) \in Int /\ TicketOf(lim, a) \in Int /\ FloorOf(lim, a) \in Int
<1>1. CapOf(lim, a) \in Int
  BY DEF LimitsType, CapOf, Whole
<1>2. TicketOf(lim, a) \in Int
  BY DEF LimitsType, TicketOf
<1>3. FloorOf(lim, a) \in Int
  BY DEF LimitsType, FloorOf
<1> QED
  BY <1>1, <1>2, <1>3

LEMMA NormalType ==
  ASSUME NEW D, IsFiniteSet(D), NEW w \in [D -> Int]
  PROVE  Normal(w) \in Books(D)
<1> DEFINE s == Plus(w)
<1>1. s \in Int /\ DOMAIN w = D
  BY PlusType
<1> HIDE DEF s
<1>2. CASE s <= 0
  BY <1>2 DEF Normal, s, Books
<1>3. CASE ~ (s <= 0)
  <2>1. Normal(w) = [a \in DOMAIN w |-> (w[a] * Whole) \div s]
    BY <1>3 DEF Normal, s
  <2>2. \A a \in D : (w[a] * Whole) \div s \in Int
    <3> SUFFICES ASSUME NEW a \in D PROVE (w[a] * Whole) \div s \in Int
      OBVIOUS
    <3>1. w[a] * Whole \in Int /\ s > 0
      BY <1>1, <1>3 DEF Whole
    <3> QED
      BY <1>1, <3>1
  <2> QED
    BY <1>1, <2>1, <2>2 DEF Books
<1> QED
  BY <1>2, <1>3

LEMMA DropType ==
  ASSUME NEW D, IsFiniteSet(D), NEW w \in [D -> Int], NEW names \in SUBSET D
  PROVE  Drop(w, names) \in Books(D)
<1> DEFINE mass == SumOver(w, names)
           kept == [a \in DOMAIN w |-> IF a \in names THEN 0 ELSE w[a]]
<1>1. mass \in Int /\ DOMAIN w = D
  BY PlusType
<1>2. kept \in [D -> Int]
  BY <1>1
<1>3. Drop(w, names) = IF mass = 0 THEN w
                       ELSE IF Cash \in DOMAIN w THEN [kept EXCEPT ![Cash] = @ + mass] ELSE Normal(kept)
  BY DEF Drop, SumOver
<1> HIDE DEF mass, kept
<1>4. Cash \in D => [kept EXCEPT ![Cash] = @ + mass] \in [D -> Int]
  BY <1>1, <1>2
<1>5. Normal(kept) \in Books(D)
  BY <1>2, NormalType
<1> QED
  BY <1>1, <1>3, <1>4, <1>5 DEF Books

LEMMA EnforceType ==
  ASSUME NEW D, IsFiniteSet(D), NEW w \in [D -> Int], NEW lim
  PROVE  EnforceMinInvestments(w, lim) \in Books(D)
<1> DEFINE names == BelowTicket(w, lim) \ Protected(lim)
<1>1. names \in SUBSET D
  BY DEF BelowTicket, Funds
<1> HIDE DEF names
<1>2. Drop(w, names) \in Books(D)
  BY <1>1, DropType
<1> QED
  BY <1>2 DEF EnforceMinInvestments, names

LEMMA ProjectRoundType ==
  ASSUME NEW D, IsFiniteSet(D), NEW w \in [D -> Int], NEW lim, LimitsType(lim)
  PROVE  ProjectRound(w, lim) \in Books(D)
<1> DEFINE over == {a \in DOMAIN w : w[a] > CapOf(lim, a)}
           excess == Plus([a \in over |-> w[a] - CapOf(lim, a)])
           below == {a \in DOMAIN w : w[a] < CapOf(lim, a)}
           free == IF below \ {Cash} # {} THEN below \ {Cash} ELSE below
           room == Plus([a \in free |-> CapOf(lim, a) - w[a]])
           moved == [a \in DOMAIN w |-> IF a \in over THEN CapOf(lim, a)
                                        ELSE IF a \in free THEN w[a] + (excess * (CapOf(lim, a) - w[a])) \div room
                                        ELSE w[a]]
<1>1. ProjectRound(w, lim) = IF over = {} THEN w ELSE IF free = {} THEN None ELSE moved
  BY DEF ProjectRound
<1>2. \A a \in D : CapOf(lim, a) \in Int /\ w[a] \in Int
  BY LimitOf
<1>3. over \subseteq D /\ below \subseteq D /\ free \subseteq below /\ DOMAIN w = D
  OBVIOUS
<1>4. IsFiniteSet(over) /\ IsFiniteSet(free)
  BY <1>3, FS_Subset
<1>5. \A a \in free : CapOf(lim, a) - w[a] \in Int /\ CapOf(lim, a) - w[a] > 0
  BY <1>2, <1>3
<1> HIDE DEF below, free
<1>6. excess \in Int
  <2> DEFINE f == [a \in over |-> w[a] - CapOf(lim, a)]
  <2>1. f \in [over -> Int]
    BY <1>2, <1>3
  <2> HIDE DEF f, over
  <2>2. Plus(f) \in Int
    BY <1>4, <2>1, PlusType
  <2> QED
    BY <2>2 DEF f
<1>7. free # {} => room \in Int /\ room > 0
  <2> DEFINE f == [a \in free |-> CapOf(lim, a) - w[a]]
  <2>1. f \in [free -> Int] /\ \A a \in free : f[a] > 0
    BY <1>5
  <2> HIDE DEF f
  <2>2. Plus(f) \in Int
    BY <1>4, <2>1, PlusType
  <2>3. free # {} => Plus(f) > 0
    BY <1>4, <2>1, PlusPositive
  <2> QED
    BY <2>2, <2>3 DEF f
<1> HIDE DEF over, excess, room
<1>8. free # {} => moved \in [D -> Int]
  <2> SUFFICES ASSUME free # {} PROVE moved \in [D -> Int]
    OBVIOUS
  <2>1. ASSUME NEW a \in D, a \in free PROVE w[a] + (excess * (CapOf(lim, a) - w[a])) \div room \in Int
    <3>1. excess * (CapOf(lim, a) - w[a]) \in Int
      BY <1>5, <1>6, <2>1
    <3>2. (excess * (CapOf(lim, a) - w[a])) \div room \in Int
      BY <1>7, <3>1
    <3> QED
      BY <1>2, <3>2
  <2> QED
    BY <1>2, <1>3, <2>1
<1> HIDE DEF moved
<1> QED
  BY <1>1, <1>8 DEF Books

\* Two values make a finite set.
LEMMA TwoAreFinite ==
  ASSUME NEW x, NEW y
  PROVE  IsFiniteSet({x, y})
<1>1. IsFiniteSet({x})
  BY FS_Singleton
<1>2. IsFiniteSet({x} \cup {y})
  BY <1>1, FS_AddElement
<1>3. {x, y} = {x} \cup {y}
  OBVIOUS
<1> QED
  BY <1>2, <1>3

\* Projected onto the caps, a book is a book, or None.
LEMMA ProjectType ==
  ASSUME NEW D, IsFiniteSet(D), NEW w \in [D -> Int], NEW lim, LimitsType(lim)
  PROVE  ProjectMaxWeights(w, lim) \in Books(D)
<1> DEFINE Step(v) == IF v = None THEN None ELSE ProjectRound(v, lim)
           g == [p \in (1..20) \X Books(D) |-> Step(p[2])]
           round[k \in 0..20] == IF k = 0 THEN w ELSE Step(round[k - 1])
<1>1. \A v \in Books(D) : Step(v) \in Books(D)
  <2> SUFFICES ASSUME NEW v \in Books(D) PROVE Step(v) \in Books(D)
    OBVIOUS
  <2>1. CASE v = None
    BY <2>1 DEF Books
  <2>2. CASE v # None
    <3>1. v \in [D -> Int]
      BY <2>2 DEF Books
    <3> QED
      BY <2>2, <3>1, ProjectRoundType
  <2> QED
    BY <2>1, <2>2
<1>2. w \in Books(D)
  BY DEF Books
<1> HIDE DEF Step
<1>3. g \in [(1..20) \X Books(D) -> Books(D)]
  BY <1>1
<1> HIDE DEF g
<1>4. PICK h \in [0..20 -> Books(D)] : Rounds(h, 20, w, g)
  BY <1>2, <1>3, RoundsExist
<1>5. \A k \in 1..20 : h[k] = Step(h[k - 1])
  <2> SUFFICES ASSUME NEW k \in 1..20 PROVE h[k] = Step(h[k - 1])
    OBVIOUS
  <2>1. h[k - 1] \in Books(D) /\ h[k] = g[<<k, h[k - 1]>>]
    BY <1>4 DEF Rounds
  <2> QED
    BY <2>1 DEF g
<1>6. h = [k \in 0..20 |-> IF k = 0 THEN w ELSE Step(h[k - 1])]
  <2>1. \A k \in 0..20 : h[k] = IF k = 0 THEN w ELSE Step(h[k - 1])
    BY <1>4, <1>5 DEF Rounds
  <2> QED
    BY <2>1
<1>7. round = [k \in 0..20 |-> IF k = 0 THEN w ELSE Step(round[k - 1])]
  <2>1. \E f : f = [k \in 0..20 |-> IF k = 0 THEN w ELSE Step(f[k - 1])]
    BY <1>6
  <2> QED
    BY <2>1, Zenon
<1>8. ProjectMaxWeights(w, lim) = IF \A a \in DOMAIN w : w[a] <= CapOf(lim, a) THEN w
        ELSE IF round[20] = None THEN None
        ELSE IF ProjectRound(round[20], lim) = round[20] THEN round[20] ELSE Normal(round[20])
  BY DEF ProjectMaxWeights, Then, Step
<1> HIDE DEF round
<1> DEFINE S == {k \in 0..20 : round[k] \in Books(D)}
<1>9. 0 \in S
  BY <1>2, <1>7
<1>10. ASSUME NEW k \in 1..20, k - 1 \in S PROVE k \in S
  <2>1. round[k] = Step(round[k - 1]) /\ round[k - 1] \in Books(D)
    BY <1>7, <1>10
  <2> QED
    BY <1>1, <2>1
<1>11. \A k \in 0..20 : k \in S
  <2> HIDE DEF S
  <2> QED
    BY <1>9, <1>10, EveryRound
<1>12. round[20] \in Books(D)
  BY <1>11
<1>13. round[20] # None => Normal(round[20]) \in Books(D)
  <2>1. round[20] # None => round[20] \in [D -> Int]
    BY <1>12 DEF Books
  <2> QED
    BY <2>1, NormalType
<1>14. None \in Books(D)
  BY DEF Books
<1> QED
  BY <1>2, <1>8, <1>12, <1>13, <1>14

\* The room below the caps is a number for every fund that has some.
LEMMA RoomType ==
  ASSUME NEW D, IsFiniteSet(D), NEW w \in [D -> Int], NEW lim, LimitsType(lim)
  PROVE  \E H \in SUBSET (D \ {Cash}) : FundCapRoom(w, lim) \in [H -> Int]
<1> DEFINE held == {a \in Funds(w) : w[a] > 0 /\ w[a] < CapOf(lim, a)}
           names == lim.illiquid \cap DOMAIN w
           left == lim.sleeve - SumOver(w, names)
           sleeve == Max({0, left})
           open(a) == CapOf(lim, a) - w[a]
           both == held \cap lim.illiquid
           wanted == Plus([a \in both |-> open(a)])
           Room(a) == IF a \notin lim.illiquid \/ lim.sleeve >= Whole \/ wanted <= sleeve THEN open(a)
                      ELSE (open(a) * sleeve) \div wanted
<1>1. FundCapRoom(w, lim) = [a \in held |-> Room(a)]
  BY DEF FundCapRoom, SumOver
<1>2. held \subseteq D \ {Cash} /\ both \subseteq D /\ IsFiniteSet(both)
  <2>1. held \subseteq D \ {Cash} /\ both \subseteq D
    BY DEF Funds
  <2> HIDE DEF both
  <2> QED
    BY <2>1, FS_Subset
<1>3. \A a \in held : open(a) \in Int
  BY <1>2, LimitOf
<1>4. left \in Int
  <2>1. SumOver(w, names) \in Int
    BY PlusType
  <2> QED
    BY <2>1 DEF LimitsType
<1> HIDE DEF left
<1>5. sleeve \in Nat
  <2> DEFINE T == {0, left}
  <2>1. IsFiniteSet(T)
    BY TwoAreFinite, Zenon
  <2>2. T \in SUBSET Int /\ 0 \in T
    BY <1>4
  <2> HIDE DEF T
  <2>3. Max(T) \in Int /\ 0 <= Max(T)
    BY <2>1, <2>2, MaxOfFinite
  <2> QED
    BY <2>3 DEF T
<1>6. wanted \in Int
  <2> DEFINE f == [a \in both |-> open(a)]
  <2>1. f \in [both -> Int]
    BY <1>3
  <2> HIDE DEF f, both
  <2>2. Plus(f) \in Int
    BY <1>2, <2>1, PlusType
  <2> QED
    BY <2>2 DEF f
<1> HIDE DEF sleeve, wanted
<1>7. ASSUME NEW a \in held PROVE Room(a) \in Int
  <2>1. CASE a \notin lim.illiquid \/ lim.sleeve >= Whole \/ wanted <= sleeve
    BY <1>3, <2>1
  <2>2. CASE ~ (a \notin lim.illiquid \/ lim.sleeve >= Whole \/ wanted <= sleeve)
    <3>1. ~ (wanted <= sleeve)
      BY <2>2
    <3>2. wanted > 0
      BY <1>5, <1>6, <3>1
    <3> DEFINE x == open(a)
    <3>3. x \in Int
      BY <1>3
    <3> HIDE DEF x
    <3>4. (x * sleeve) \div wanted \in Int
      BY <1>5, <1>6, <3>2, <3>3
    <3>5. Room(a) = (x * sleeve) \div wanted
      BY <2>2 DEF x
    <3> QED
      BY <3>4, <3>5
  <2> QED
    BY <2>1, <2>2
<1> HIDE DEF held, Room
<1>8. FundCapRoom(w, lim) \in [held -> Int]
  BY <1>1, <1>7
<1> QED
  BY <1>2, <1>8

\* Cash put into funds leaves numbers.
LEMMA DrainIntoType ==
  ASSUME NEW D, IsFiniteSet(D), NEW w \in [D -> Int], Cash \in D, NEW H \in SUBSET (D \ {Cash}), NEW room \in [H -> Int]
  PROVE  DrainInto(w, room) \in [D -> Int]
<1> DEFINE total == Plus(room)
           T == {w[Cash], total}
           take == Min(T)
           drained == [a \in DOMAIN w |-> IF a = Cash THEN w[a] - take
                                          ELSE IF a \in DOMAIN room THEN w[a] + (take * room[a]) \div total ELSE w[a]]
<1>1. total \in Int
  BY FS_Subset, PlusType
<1>2. DrainInto(w, room) = IF total <= 0 THEN w ELSE drained
  BY DEF DrainInto
<1> HIDE DEF total
<1>3. T \in SUBSET Int /\ IsFiniteSet(T) /\ T # {}
  BY <1>1, TwoAreFinite
<1> HIDE DEF T
<1>4. take \in Int
  BY <1>3, MinOfFinite
<1> HIDE DEF take
<1>5. ASSUME ~ (total <= 0) PROVE drained \in [D -> Int]
  <2>1. total > 0
    BY <1>1, <1>5
  <2>2. ASSUME NEW a \in H PROVE w[a] + (take * room[a]) \div total \in Int
    <3>1. take * room[a] \in Int
      BY <1>4
    <3> DEFINE x == take * room[a]
    <3> HIDE DEF x
    <3>2. x \div total \in Int
      BY <1>1, <2>1, <3>1 DEF x
    <3>3. w[a] \in Int
      OBVIOUS
    <3> QED
      BY <3>2, <3>3 DEF x
  <2> QED
    BY <1>4, <2>2
<1> HIDE DEF drained
<1> QED
  BY <1>2, <1>5

LEMMA DrainType ==
  ASSUME NEW D, IsFiniteSet(D), NEW w \in [D -> Int], NEW lim, LimitsType(lim)
  PROVE  DrainCash(w, lim) \in [D -> Int]
<1>1. CASE Cash \notin D
  BY <1>1 DEF DrainCash
<1>2. CASE Cash \in D
  <2>1. PICK H \in SUBSET (D \ {Cash}) : FundCapRoom(w, lim) \in [H -> Int]
    BY RoomType
  <2>2. DrainInto(w, FundCapRoom(w, lim)) \in [D -> Int]
    BY <1>2, <2>1, DrainIntoType
  <2>3. DrainCash(w, lim) = DrainInto(w, FundCapRoom(w, lim))
    BY <1>2 DEF DrainCash, Once
  <2> QED
    BY <2>2, <2>3
<1> QED
  BY <1>1, <1>2

\* With fewer names, a book is a book, or None.
LEMMA CardinalityType ==
  ASSUME NEW D \in SUBSET Int, IsFiniteSet(D), NEW w \in [D -> Int], NEW lim, LimitsType(lim)
  PROVE  ApplyCardinality(w, lim) \in Books(D)
<1> DEFINE held == {a \in Funds(w) : w[a] > 0}
           loose == held \ Protected(lim)
           droppable == ByKey(loose, w)
           extra == Cardinality(held) - lim.names
           names == {droppable[i] : i \in 1..extra}
<1>1. ApplyCardinality(w, lim) = IF extra <= 0 THEN w ELSE IF extra > Len(droppable) THEN None ELSE Drop(w, names)
  BY DEF ApplyCardinality
<1>2. held \subseteq D /\ loose \subseteq D
  BY DEF Funds
<1>3. IsFiniteSet(loose) /\ loose \in SUBSET Int /\ \A x \in loose : w[x] \in Int
  BY <1>2, FS_Subset
<1>4. extra \in Int
  BY <1>2, FS_Subset, FS_CardinalityType DEF LimitsType
<1> HIDE DEF loose, extra
<1>5. droppable \in Seq(loose)
  BY <1>3, KeyOrder
<1> HIDE DEF droppable
<1>6. ~ (extra <= 0) /\ ~ (extra > Len(droppable)) => names \in SUBSET D
  <2> SUFFICES ASSUME ~ (extra <= 0), ~ (extra > Len(droppable)), NEW i \in 1..extra PROVE droppable[i] \in D
    OBVIOUS
  <2>1. i \in 1..Len(droppable)
    BY <1>4, <1>5, LenProperties
  <2> QED
    BY <1>2, <1>5, <2>1, ElementOfSeq
<1> HIDE DEF names
<1>7. ~ (extra <= 0) /\ ~ (extra > Len(droppable)) => Drop(w, names) \in Books(D)
  BY <1>6, DropType
<1> QED
  BY <1>1, <1>7 DEF Books

\* With less in illiquid funds, a book is a book, or None.
LEMMA IlliquidType ==
  ASSUME NEW D, IsFiniteSet(D), NEW w \in [D -> Int], NEW lim, LimitsType(lim)
  PROVE  ApplyIlliquidCap(w, lim) \in Books(D)
<1> DEFINE names == lim.illiquid \cap DOMAIN w
           now == SumOver(w, names)
           scaled == [a \in DOMAIN w |-> IF a \in names THEN (w[a] * lim.sleeve) \div now ELSE w[a]]
           liquid == DOMAIN w \ names
           mass == SumOver(w, liquid)
           spread == [a \in DOMAIN w |-> IF a \in liquid /\ mass > 0 THEN w[a] + ((now - lim.sleeve) * w[a]) \div mass
                                         ELSE scaled[a]]
<1>1. ApplyIlliquidCap(w, lim) =
        IF names = {} \/ lim.sleeve >= Whole \/ now <= lim.sleeve THEN w
        ELSE IF \E a \in names : FloorOf(lim, a) > scaled[a] + Slack THEN None
        ELSE IF Cash \in DOMAIN w THEN [scaled EXCEPT ![Cash] = @ + now - lim.sleeve]
        ELSE IF liquid = {} THEN None ELSE Normal(spread)
  BY DEF ApplyIlliquidCap, SumOver
<1>2. DOMAIN w = D /\ names \subseteq D /\ liquid \subseteq D
  OBVIOUS
<1>3. now \in Int /\ mass \in Int /\ lim.sleeve \in Nat
  BY <1>2, PlusType DEF LimitsType
<1> HIDE DEF now, mass, names, liquid
<1>4. CASE names = {} \/ lim.sleeve >= Whole \/ now <= lim.sleeve
  BY <1>1, <1>4 DEF Books
<1>5. CASE ~ (names = {} \/ lim.sleeve >= Whole \/ now <= lim.sleeve)
  <2>1. now > 0
    BY <1>3, <1>5
  <2>2. scaled \in [D -> Int]
    <3>1. ASSUME NEW a \in D PROVE (w[a] * lim.sleeve) \div now \in Int
      <4>1. w[a] * lim.sleeve \in Int
        BY <1>3
      <4> QED
        BY <1>3, <2>1, <4>1
    <3> QED
      BY <1>2, <3>1
  <2> HIDE DEF scaled
  <2>3. Cash \in D => [scaled EXCEPT ![Cash] = @ + now - lim.sleeve] \in [D -> Int]
    <3> SUFFICES ASSUME Cash \in D PROVE [scaled EXCEPT ![Cash] = @ + now - lim.sleeve] \in [D -> Int]
      OBVIOUS
    <3>1. scaled[Cash] + now - lim.sleeve \in Int
      BY <1>3, <2>2
    <3> QED
      BY <2>2, <3>1
  <2>4. spread \in [D -> Int]
    <3>1. ASSUME mass > 0, NEW a \in D PROVE w[a] + ((now - lim.sleeve) * w[a]) \div mass \in Int
      <4> DEFINE x == (now - lim.sleeve) * w[a]
      <4>1. x \in Int /\ w[a] \in Int
        BY <1>3
      <4> HIDE DEF x
      <4>2. x \div mass \in Int
        BY <1>3, <3>1, <4>1
      <4> QED
        BY <4>1, <4>2 DEF x
    <3> QED
      BY <1>2, <2>2, <3>1
  <2> HIDE DEF spread
  <2>5. Normal(spread) \in Books(D)
    BY <2>4, NormalType
  <2> QED
    BY <1>1, <1>2, <1>5, <2>3, <2>5 DEF Books
<1> QED
  BY <1>4, <1>5

\* A pass over all the limits.
LEMMA PassType ==
  ASSUME NEW D \in SUBSET Int, IsFiniteSet(D), NEW w \in [D -> Int], NEW lim, LimitsType(lim)
  PROVE  FeasiblePass(w, lim) \in Books(D)
<1> DEFINE Ticketed(v) == IF v = None THEN None ELSE EnforceMinInvestments(DrainCash(v, lim), lim)
           Held(v) == IF v = None THEN None ELSE IF FloorsHold(v, lim) THEN Normal(v) ELSE None
           Fewer(v) == IF v = None THEN None ELSE ApplyCardinality(v, lim)
           Liquid(v) == IF v = None THEN None ELSE ApplyIlliquidCap(v, lim)
           Drained(v) == IF v = None THEN None ELSE DrainCash(v, lim)
<1>1. FeasiblePass(w, lim) = Drained(Liquid(Fewer(Held(Ticketed(ProjectMaxWeights(w, lim))))))
  BY DEF FeasiblePass, Then
<1>2. \A v \in Books(D) : v # None => v \in [D -> Int]
  BY DEF Books
<1>3. [D -> Int] \subseteq Books(D) /\ None \in Books(D)
  BY DEF Books
<1>4. \A v \in Books(D) : Ticketed(v) \in Books(D)
  <2> SUFFICES ASSUME NEW v \in Books(D), v # None PROVE EnforceMinInvestments(DrainCash(v, lim), lim) \in Books(D)
    BY <1>3
  <2> QED
    BY <1>2, DrainType, EnforceType
<1>5. \A v \in Books(D) : Held(v) \in Books(D)
  <2> SUFFICES ASSUME NEW v \in Books(D), v # None PROVE Normal(v) \in Books(D)
    BY <1>3
  <2> QED
    BY <1>2, NormalType
<1>6. \A v \in Books(D) : Fewer(v) \in Books(D)
  <2> SUFFICES ASSUME NEW v \in Books(D), v # None PROVE ApplyCardinality(v, lim) \in Books(D)
    BY <1>3
  <2> QED
    BY <1>2, CardinalityType
<1>7. \A v \in Books(D) : Liquid(v) \in Books(D)
  <2> SUFFICES ASSUME NEW v \in Books(D), v # None PROVE ApplyIlliquidCap(v, lim) \in Books(D)
    BY <1>3
  <2> QED
    BY <1>2, IlliquidType
<1>8. \A v \in Books(D) : Drained(v) \in Books(D)
  <2> SUFFICES ASSUME NEW v \in Books(D), v # None PROVE DrainCash(v, lim) \in Books(D)
    BY <1>3
  <2> QED
    BY <1>2, <1>3, DrainType
<1>9. ProjectMaxWeights(w, lim) \in Books(D)
  BY ProjectType
<1> HIDE DEF Ticketed, Held, Fewer, Liquid, Drained
<1> QED
  BY <1>1, <1>4, <1>5, <1>6, <1>7, <1>8, <1>9

LEMMA TicketsLastType ==
  ASSUME NEW D, IsFiniteSet(D), NEW w \in [D -> Int], NEW lim, LimitsType(lim)
  PROVE  TicketsLast(w, lim) \in Books(D)
<1> DEFINE enforced == EnforceMinInvestments(w, lim)
           again == IF enforced = None THEN None ELSE ProjectMaxWeights(enforced, lim)
           Ended(v) == IF BelowTicket(v, lim) \subseteq Protected(lim) THEN v ELSE None
           settled == IF BelowTicket(w, lim) \subseteq Protected(lim) THEN w
                      ELSE IF again = None THEN None ELSE Ended(again)
<1>1. TicketsLast(w, lim) = IF settled = None THEN None ELSE IF FloorsHold(settled, lim) THEN Normal(settled) ELSE None
  BY DEF TicketsLast, Then
<1>2. None \in Books(D) /\ w \in Books(D) /\ \A v \in Books(D) : v # None => v \in [D -> Int]
  BY DEF Books
<1>3. enforced \in Books(D)
  BY EnforceType
<1> HIDE DEF enforced
<1>4. again \in Books(D)
  BY <1>2, <1>3, ProjectType
<1> HIDE DEF again
<1>5. settled \in Books(D)
  BY <1>2, <1>4
<1> HIDE DEF settled
<1>6. settled # None => Normal(settled) \in Books(D)
  BY <1>2, <1>5, NormalType
<1> QED
  BY <1>1, <1>2, <1>6

\* A finished book is a book, or None.
LEMMA FinalType ==
  ASSUME NEW D \in SUBSET Int, IsFiniteSet(D), NEW w \in [D -> Int], NEW lim, LimitsType(lim)
  PROVE  FinalizeFeasible(w, lim) \in Books(D)
<1> DEFINE names == {a \in Funds(w) \ Protected(lim) : TicketInfeasible(lim, a)}
           start == Drop(w, names)
           base == [now |-> start, was |-> None]
           Step(k, p) == IF p.now = p.was THEN p
                         ELSE [now |-> IF p.now = None THEN None ELSE FeasiblePass(p.now, lim),
                               was |-> IF k = 1 THEN None ELSE p.now]
           T == [now : Books(D), was : Books(D)]
           g == [q \in (1..24) \X T |-> Step(q[1], q[2])]
           pass[k \in 0..24] == IF k = 0 THEN base ELSE Step(k, pass[k - 1])
<1>1. names \in SUBSET D
  BY DEF Funds
<1> HIDE DEF names
<1>2. start \in Books(D)
  BY <1>1, DropType
<1>3. None \in Books(D) /\ \A v \in Books(D) : v # None => v \in [D -> Int]
  BY DEF Books
<1>4. ASSUME NEW k \in 1..24, NEW p \in T PROVE Step(k, p) \in T
  <2>1. p.now \in Books(D)
    BY <1>4
  <2>2. p.now # None => FeasiblePass(p.now, lim) \in Books(D)
    BY <1>3, <2>1, PassType
  <2> QED
    BY <1>3, <1>4, <2>1, <2>2
<1> HIDE DEF start
<1>5. base \in T
  BY <1>2, <1>3
<1> HIDE DEF Step, T, base
<1>6. g \in [(1..24) \X T -> T]
  BY <1>4
<1> HIDE DEF g
<1>7. PICK h \in [0..24 -> T] : Rounds(h, 24, base, g)
  BY <1>5, <1>6, RoundsExist
<1>8. \A k \in 1..24 : h[k] = Step(k, h[k - 1])
  <2> SUFFICES ASSUME NEW k \in 1..24 PROVE h[k] = Step(k, h[k - 1])
    OBVIOUS
  <2>1. h[k - 1] \in T /\ h[k] = g[<<k, h[k - 1]>>]
    BY <1>7 DEF Rounds
  <2> QED
    BY <2>1 DEF g
<1>9. h = [k \in 0..24 |-> IF k = 0 THEN base ELSE Step(k, h[k - 1])]
  <2>1. \A k \in 0..24 : h[k] = IF k = 0 THEN base ELSE Step(k, h[k - 1])
    BY <1>7, <1>8 DEF Rounds
  <2> QED
    BY <2>1
<1>10. pass = [k \in 0..24 |-> IF k = 0 THEN base ELSE Step(k, pass[k - 1])]
  <2>1. \E f : f = [k \in 0..24 |-> IF k = 0 THEN base ELSE Step(k, f[k - 1])]
    BY <1>9
  <2> QED
    BY <2>1, Zenon
<1>11. FinalizeFeasible(w, lim) = IF pass[24].now = None THEN None ELSE TicketsLast(pass[24].now, lim)
  BY DEF FinalizeFeasible, Then, Step, base, start, names
<1> HIDE DEF pass
<1> DEFINE S == {k \in 0..24 : pass[k] \in T}
<1>12. 0 \in S
  BY <1>5, <1>10
<1>13. ASSUME NEW k \in 1..24, k - 1 \in S PROVE k \in S
  <2>1. pass[k] = Step(k, pass[k - 1]) /\ pass[k - 1] \in T
    BY <1>10, <1>13
  <2> QED
    BY <1>4, <2>1
<1>14. \A k \in 0..24 : k \in S
  <2> HIDE DEF S
  <2> QED
    BY <1>12, <1>13, EveryRound
<1>15. pass[24].now \in Books(D)
  BY <1>14 DEF T
<1>16. pass[24].now # None => TicketsLast(pass[24].now, lim) \in Books(D)
  BY <1>3, <1>15, TicketsLastType
<1> QED
  BY <1>3, <1>11, <1>16

(***************************************************************************)
(* Samples. A draw is a sequence of funds with masses.                     *)
(***************************************************************************)
Draw(draw) == draw \in Seq(Int \X (Nat \ {0}))

\* The larger of some numbers is a number, no less than any of them.
LEMMA LargestOf ==
  ASSUME NEW x \in Int, NEW y \in Int, NEW z \in Int
  PROVE  /\ Max({x, y}) \in Int /\ x <= Max({x, y})
         /\ Max({x, y, z}) \in Int /\ x <= Max({x, y, z})
         /\ Min({x, y}) \in Int
<1> DEFINE S == {x, y}
           T == {x, y, z}
<1>1. IsFiniteSet(S)
  BY TwoAreFinite, Zenon
<1>2. T = S \cup {z}
  OBVIOUS
<1>3. IsFiniteSet(T)
  BY <1>1, <1>2, FS_AddElement
<1>4. S \in SUBSET Int /\ x \in S /\ T \in SUBSET Int /\ x \in T
  OBVIOUS
<1> HIDE DEF S, T
<1>5. Max(S) \in Int /\ x <= Max(S) /\ Min(S) \in Int
  BY <1>1, <1>4, MaxOfFinite, MinOfFinite
<1>6. Max(T) \in Int /\ x <= Max(T)
  BY <1>3, <1>4, MaxOfFinite
<1> QED
  BY <1>5, <1>6 DEF S, T

\* The names a sample takes are finitely many.
LEMMA ChosenType ==
  ASSUME NEW ids, IsFiniteSet(ids), NEW draw, Draw(draw), NEW lim, LimitsType(lim)
  PROVE  IsFiniteSet(Chosen(ids, draw, lim))
<1> DEFINE musts == Protected(lim)
           I == {i \in DOMAIN draw : draw[i][1] \notin musts /\ draw[i][1] \in ids}
           picks == Picked(draw, I)
           slots == Max({0, lim.names - Cardinality(musts)})
           picked == {picks[i][1] : i \in 1..Min({slots, Len(picks)})}
           chosen == {a \in musts \cup picked : a \in musts \/ ~TicketInfeasible(lim, a)}
           spare == {a \in ids : a = Cash \/ a \in musts}
<1>1. Sift(draw, LAMBDA d : d[1] \notin musts /\ d[1] \in ids) = picks
  <2>1. \A i \in DOMAIN draw : i \in I <=> draw[i][1] \notin musts /\ draw[i][1] \in ids
    OBVIOUS
  <2> HIDE DEF I
  <2> DEFINE left == [i \in DOMAIN draw |-> IF draw[i][1] \notin musts /\ draw[i][1] \in ids THEN <<draw[i]>> ELSE <<>>]
             right == [i \in DOMAIN draw |-> IF i \in I THEN <<draw[i]>> ELSE <<>>]
  <2>2. left = right
    BY <2>1
  <2>3. Sift(draw, LAMBDA d : d[1] \notin musts /\ d[1] \in ids) = FlattenSeq(left)
    BY DEF Sift
  <2>4. picks = FlattenSeq(right)
    BY DEF Picked
  <2> QED
    BY <2>2, <2>3, <2>4
<1>2. Chosen(ids, draw, lim) = IF chosen # {} THEN chosen ELSE IF spare # {} THEN spare ELSE ids
  BY <1>1 DEF Chosen
<1>3. IsFiniteSet(musts)
  <2>1. musts \subseteq DOMAIN lim.floor /\ IsFiniteSet(DOMAIN lim.floor)
    BY DEF Protected, LimitsType
  <2> QED
    BY <2>1, FS_Subset
<1> HIDE DEF musts
<1>4. Cardinality(musts) \in Nat /\ lim.names - Cardinality(musts) \in Int
  BY <1>3, FS_CardinalityType DEF LimitsType
<1>5. slots \in Int
  <2> DEFINE x == lim.names - Cardinality(musts)
  <2>1. x \in Int /\ 0 \in Int
    BY <1>4
  <2> HIDE DEF x
  <2>2. Max({0, x}) \in Int
    BY <2>1, LargestOf, Zenon
  <2> QED
    BY <2>2 DEF x
<1> HIDE DEF slots
<1>6. picks \in Seq(Int \X (Nat \ {0}))
  BY Sifted DEF Draw
<1> HIDE DEF picks
<1>7. Len(picks) \in Int
  BY <1>6, LenProperties
<1>8. Min({slots, Len(picks)}) \in Int
  BY <1>5, <1>7, LargestOf, Zenon
<1>9. IsFiniteSet(picked)
  <2> DEFINE n == Min({slots, Len(picks)})
             J == 1..n
             f == [i \in J |-> picks[i][1]]
  <2>1. IsFiniteSet(J)
    BY <1>8, FS_Interval
  <2> HIDE DEF n
  <2>2. picked = {f[i] : i \in J}
    BY DEF n
  <2> HIDE DEF J, f, picked
  <2> QED
    BY <2>1, <2>2, FiniteImage
<1> HIDE DEF picked
<1>10. IsFiniteSet(chosen)
  <2>1. IsFiniteSet(musts \cup picked)
    BY <1>3, <1>9, FS_Union
  <2> QED
    BY <2>1, FS_Subset
<1>11. IsFiniteSet(spare)
  BY FS_Subset
<1> HIDE DEF chosen, spare
<1> QED
  BY <1>2, <1>10, <1>11

\* A sampled book is a book of the funds, or None.
LEMMA SampleType ==
  ASSUME NEW ids, IsFiniteSet(ids), NEW draw, Draw(draw), NEW lim, LimitsType(lim),
         NEW fixed, \A a \in DOMAIN fixed : fixed[a] \in Int, NEW free \in Int,
         NEW soft, \A a \in DOMAIN soft : soft[a] \in Int
  PROVE  SampleWeights(ids, draw, lim, fixed, free, soft) \in Books(ids)
<1> DEFINE held(a) == IF a \in DOMAIN fixed THEN fixed[a] ELSE 0
           chosen == Chosen(ids, draw, lim)
           Mass(a) == IF \E i \in DOMAIN draw : draw[i][1] = a THEN (CHOOSE d \in Range(draw) : d[1] = a)[2] ELSE 1
           mass == [a \in chosen |-> Mass(a)]
           drawn(a) == IF a \in chosen THEN (free * mass[a]) \div Plus(mass) ELSE 0
           softly(a) == IF drawn(a) > 0 /\ a \in DOMAIN soft /\ soft[a] <= CapOf(lim, a) THEN soft[a] ELSE 0
           least == [a \in ids |-> Max({FloorOf(lim, a), softly(a), held(a)})]
           holding == [a \in ids |-> held(a)]
           sum == [a \in ids |-> held(a) + drawn(a)]
           base == Normal(sum)
           over == [a \in ids |-> Max({0, base[a] - least[a]})]
           raised == IF Plus(over) = 0 THEN Normal(least)
                     ELSE [a \in ids |-> least[a] + (over[a] * (Whole - Plus(least))) \div Plus(over)]
<1>1. SampleWeights(ids, draw, lim, fixed, free, soft) =
        IF free = 0 THEN Normal(holding)
        ELSE IF Plus(least) > Whole THEN None ELSE IF base = None THEN None ELSE raised
  BY DEF SampleWeights, Given, Then
<1>2. \A a \in ids : held(a) \in Int
  OBVIOUS
<1>3. mass \in [chosen -> Int] /\ \A a \in chosen : mass[a] > 0
  <2> SUFFICES ASSUME NEW a \in chosen PROVE Mass(a) \in Nat \ {0}
    OBVIOUS
  <2> HIDE DEF chosen
  <2>1. CASE \E i \in DOMAIN draw : draw[i][1] = a
    <3>1. PICK i \in DOMAIN draw : draw[i][1] = a
      BY <2>1
    <3>2. Range(draw) \subseteq Int \X (Nat \ {0}) /\ draw[i] \in Range(draw)
      <4>1. DOMAIN draw = 1..Len(draw) /\ Range(draw) = {draw[k] : k \in 1..Len(draw)}
        BY RangeInType DEF Draw
      <4>2. Range(draw) \subseteq Int \X (Nat \ {0})
        BY RangeInType DEF Draw
      <4> QED
        BY <4>1, <4>2
    <3> DEFINE d == CHOOSE x \in Range(draw) : x[1] = a
    <3>3. d \in Range(draw)
      BY <3>1, <3>2
    <3> HIDE DEF d
    <3>4. d[2] \in Nat \ {0}
      BY <3>2, <3>3
    <3> QED
      BY <2>1, <3>4 DEF d
  <2>2. CASE ~ \E i \in DOMAIN draw : draw[i][1] = a
    BY <2>2
  <2> QED
    BY <2>1, <2>2
<1>4. IsFiniteSet(chosen)
  BY ChosenType
<1> HIDE DEF chosen, mass, held
<1>5. \A a \in ids : drawn(a) \in Int
  <2>1. ASSUME NEW a \in chosen PROVE (free * mass[a]) \div Plus(mass) \in Int
    <3>1. Plus(mass) \in Int /\ Plus(mass) > 0
      BY <1>3, <1>4, PlusType, PlusPositive
    <3> DEFINE x == free * mass[a]
    <3>2. x \in Int
      BY <1>3
    <3> HIDE DEF x
    <3>3. x \div Plus(mass) \in Int
      BY <3>1, <3>2
    <3> QED
      BY <3>3 DEF x
  <2> QED
    BY <2>1
<1> HIDE DEF drawn
<1>6. \A a \in ids : softly(a) \in Int /\ FloorOf(lim, a) \in Int
  BY LimitOf
<1> HIDE DEF softly
<1>7. least \in [ids -> Int]
  BY <1>2, <1>6, LargestOf
<1>8. holding \in [ids -> Int] /\ sum \in [ids -> Int]
  BY <1>2, <1>5
<1> HIDE DEF least, holding, sum
<1>9. Normal(holding) \in Books(ids) /\ base \in Books(ids) /\ Normal(least) \in Books(ids)
  BY <1>7, <1>8, NormalType
<1> HIDE DEF base
<1>10. base # None => raised \in Books(ids)
  <2> SUFFICES ASSUME base # None PROVE raised \in Books(ids)
    OBVIOUS
  <2>1. base \in [ids -> Int]
    BY <1>9 DEF Books
  <2>2. over \in [ids -> Int] /\ \A a \in ids : over[a] >= 0
    <3> SUFFICES ASSUME NEW a \in ids PROVE Max({0, base[a] - least[a]}) \in Int /\ Max({0, base[a] - least[a]}) >= 0
      OBVIOUS
    <3> DEFINE x == base[a] - least[a]
    <3>1. x \in Int /\ 0 \in Int
      BY <1>7, <2>1
    <3> HIDE DEF x
    <3>2. Max({0, x}) \in Int /\ 0 <= Max({0, x})
      BY <3>1, LargestOf, Zenon
    <3> QED
      BY <3>2 DEF x
  <2> HIDE DEF over
  <2>3. Plus(over) \in Nat /\ Plus(least) \in Int
    BY <1>7, <2>2, PlusNat, PlusType
  <2>4. ASSUME Plus(over) # 0, NEW a \in ids
        PROVE  least[a] + (over[a] * (Whole - Plus(least))) \div Plus(over) \in Int
    <3> DEFINE x == over[a] * (Whole - Plus(least))
    <3>1. x \in Int
      BY <2>2, <2>3 DEF Whole
    <3> HIDE DEF x
    <3>2. x \div Plus(over) \in Int
      BY <2>3, <2>4, <3>1
    <3>3. least[a] + x \div Plus(over) \in Int
      BY <1>7, <3>2
    <3> QED
      BY <3>3 DEF x
  <2>5. Plus(over) # 0 => raised \in [ids -> Int]
    BY <2>4
  <2> QED
    BY <1>9, <2>5 DEF Books
<1> HIDE DEF raised
<1> QED
  BY <1>1, <1>9, <1>10 DEF Books

(***************************************************************************)
(* The frontier. A point has a volatility and a return, and the points of  *)
(* a request are in the order of their volatilities.                       *)
(***************************************************************************)
Figures(p) == p.vol \in Nat /\ p.ret \in Int
Scores(P, n) == n \in Nat /\ DOMAIN P = 1..n /\ \A i \in 1..n : Figures(P[i])
Calmest(P, n) == Scores(P, n) /\ \A i, k \in 1..n : i < k => P[i].vol <= P[k].vol

\* The bin of a volatility, and the best point of each bin.
BinOf(widest, vol) == IF widest = 0 THEN 0 ELSE (vol * Bins) \div widest
BestAt(P, n, widest, i) ==
  \A k \in 1..n : BinOf(widest, P[k].vol) = BinOf(widest, P[i].vol) =>
    P[k].ret < P[i].ret \/ (P[k].ret = P[i].ret /\ k >= i)
BestsOf(P, n, widest) == {i \in 1..n : BestAt(P, n, widest, i)}
RisingOf(P, n, widest) == {i \in BestsOf(P, n, widest) : \A k \in BestsOf(P, n, widest) : k < i => P[k].ret < P[i].ret}

\* A quotient grows with what is divided.
LEMMA QuotientGrows ==
  ASSUME NEW a \in Nat, NEW b \in Nat, a <= b, NEW n \in Nat \ {0}
  PROVE  a \div n \in Nat /\ b \div n \in Nat /\ a \div n <= b \div n
<1> DEFINE x == a \div n
           y == b \div n
<1>1. x \in Nat /\ y \in Nat
  BY DivNat
<1>2. x * n <= a /\ b < (y + 1) * n
  BY Quotient
<1> HIDE DEF x, y
<1>3. ASSUME y + 1 <= x PROVE FALSE
  <2>1. (y + 1) * n <= x * n
    <3> DEFINE d == x - (y + 1)
    <3>1. d \in Nat /\ x = y + 1 + d
      BY <1>1, <1>3
    <3> HIDE DEF d
    <3>2. x * n = (y + 1) * n + d * n /\ d * n \in Nat
      BY <1>1, <3>1
    <3>3. (y + 1) * n \in Nat /\ x * n \in Nat
      BY <1>1
    <3> QED
      BY <3>2, <3>3
  <2> DEFINE u == (y + 1) * n
             v == x * n
  <2>2. u \in Nat /\ v \in Nat /\ v <= a /\ b < u /\ u <= v
    BY <1>1, <1>2, <2>1
  <2> HIDE DEF u, v
  <2> QED
    BY <2>2
<1>4. x <= y
  BY <1>1, <1>3
<1> QED
  BY <1>1, <1>4 DEF x, y

\* A calmer point is in no higher bin.
LEMMA BinGrows ==
  ASSUME NEW a \in Nat, NEW b \in Nat, a <= b, NEW widest \in Nat
  PROVE  /\ BinOf(widest, a) \in Nat /\ BinOf(widest, b) \in Nat
         /\ BinOf(widest, a) <= BinOf(widest, b)
<1>1. CASE widest = 0
  BY <1>1 DEF BinOf
<1>2. CASE widest # 0
  <2> DEFINE x == a * Bins
             y == b * Bins
  <2>1. x \in Nat /\ y \in Nat /\ x <= y
    BY DEF Bins
  <2> HIDE DEF x, y
  <2>2. x \div widest \in Nat /\ y \div widest \in Nat /\ x \div widest <= y \div widest
    BY <1>2, <2>1, QuotientGrows
  <2> QED
    BY <1>2, <2>2 DEF BinOf, x, y
<1> QED
  BY <1>1, <1>2

LEMMA BinType ==
  ASSUME NEW a \in Nat, NEW widest \in Nat
  PROVE  BinOf(widest, a) \in Nat
<1>1. a <= a
  OBVIOUS
<1> QED
  BY <1>1, BinGrows

\* Among some points there is the best: the first of those that return most.
LEMMA FirstOfMost ==
  ASSUME NEW P, NEW n, Scores(P, n), NEW S \in SUBSET (1..n), S # {}
  PROVE  \E i \in S : \A k \in S : P[k].ret < P[i].ret \/ (P[k].ret = P[i].ret /\ k >= i)
<1> DEFINE R == {P[k].ret : k \in S}
           most == Max(R)
           T == {k \in S : P[k].ret = most}
<1>1. n \in Nat /\ \A k \in S : P[k].ret \in Int
  BY DEF Scores, Figures
<1>2. IsFiniteSet(S)
  <2>1. IsFiniteSet(1..n)
    BY <1>1, FS_Interval
  <2> QED
    BY <2>1, FS_Subset
<1>3. IsFiniteSet(R)
  <2> DEFINE f == [k \in S |-> P[k].ret]
  <2>1. R = {f[k] : k \in S}
    OBVIOUS
  <2> HIDE DEF f, R
  <2> QED
    BY <1>2, <2>1, FiniteImage
<1>4. R \in SUBSET Int /\ R # {}
  BY <1>1
<1> HIDE DEF R
<1>5. most \in R /\ \A y \in R : y <= most
  BY <1>3, <1>4, MaxOfFinite
<1> HIDE DEF most
<1>6. T # {} /\ T \in SUBSET Nat
  <2>1. PICK k \in S : most = P[k].ret
    BY <1>5 DEF R
  <2>2. k \in T
    BY <2>1
  <2>3. \A m \in S : m \in Nat
    BY <1>1
  <2> QED
    BY <2>2, <2>3
<1>7. PICK i \in T : \A k \in T : i <= k
  BY <1>6, LeastElement
<1>8. ASSUME NEW k \in S PROVE P[k].ret < P[i].ret \/ (P[k].ret = P[i].ret /\ k >= i)
  <2>1. P[k].ret <= most /\ P[k].ret \in Int /\ P[i].ret = most
    BY <1>1, <1>5, <1>7 DEF R
  <2>2. P[k].ret = most => k >= i
    BY <1>6, <1>7
  <2> QED
    BY <1>4, <1>5, <2>1, <2>2
<1> QED
  BY <1>7, <1>8

\* Every bin with a point has its best.
LEMMA BestOfBin ==
  ASSUME NEW P, NEW n, Scores(P, n), NEW widest \in Nat, NEW k \in 1..n
  PROVE  \E j \in BestsOf(P, n, widest) : /\ BinOf(widest, P[j].vol) = BinOf(widest, P[k].vol)
                                          /\ P[k].ret <= P[j].ret
<1> DEFINE S == {m \in 1..n : BinOf(widest, P[m].vol) = BinOf(widest, P[k].vol)}
<1>1. S \in SUBSET (1..n) /\ k \in S
  OBVIOUS
<1> HIDE DEF S
<1>2. PICK j \in S : \A m \in S : P[m].ret < P[j].ret \/ (P[m].ret = P[j].ret /\ m >= j)
  BY <1>1, FirstOfMost
<1>3. j \in 1..n /\ BinOf(widest, P[j].vol) = BinOf(widest, P[k].vol)
  BY <1>2 DEF S
<1>4. BestAt(P, n, widest, j)
  BY <1>2, <1>3 DEF BestAt, S
<1>5. P[k].ret <= P[j].ret
  <2>1. P[k].ret \in Int /\ P[j].ret \in Int
    BY <1>3 DEF Scores, Figures
  <2> QED
    BY <1>1, <1>2, <2>1
<1> QED
  BY <1>3, <1>4, <1>5 DEF BestsOf

\* No point is calmer than one of the rising ones and returns as much.
LEMMA NoneIsBetter ==
  ASSUME NEW P, NEW n, Calmest(P, n), NEW widest \in Nat, NEW i \in RisingOf(P, n, widest), NEW k \in 1..n,
         P[k].vol <= P[i].vol, P[k].ret >= P[i].ret
  PROVE  ~ (P[k].vol < P[i].vol \/ P[k].ret > P[i].ret)
<1>1. i \in 1..n /\ i \in BestsOf(P, n, widest) /\ BestAt(P, n, widest, i)
  BY DEF RisingOf, BestsOf
<1>2. \A m \in 1..n : P[m].vol \in Nat /\ P[m].ret \in Int
  BY DEF Calmest, Scores, Figures
<1> DEFINE B(m) == BinOf(widest, P[m].vol)
<1>3. \A l, m \in 1..n : B(l) \in Nat /\ B(m) \in Nat /\ (P[l].vol <= P[m].vol => B(l) <= B(m))
  <2>1. \A a \in Nat : BinOf(widest, a) \in Nat
    BY BinType
  <2>2. \A a, b \in Nat : a <= b => BinOf(widest, a) <= BinOf(widest, b)
    BY BinGrows
  <2> QED
    BY <1>2, <2>1, <2>2
<1>4. CASE B(k) = B(i)
  <2>1. P[k].ret < P[i].ret \/ (P[k].ret = P[i].ret /\ k >= i)
    BY <1>1, <1>4 DEF BestAt
  <2>2. P[k].ret = P[i].ret /\ k >= i
    BY <1>1, <1>2, <2>1
  <2>3. k = i \/ P[i].vol <= P[k].vol
    BY <1>1, <2>2 DEF Calmest
  <2> QED
    BY <1>1, <1>2, <2>2, <2>3
<1>5. CASE B(k) # B(i)
  <2>1. PICK j \in BestsOf(P, n, widest) : B(j) = B(k) /\ P[k].ret <= P[j].ret
    BY BestOfBin DEF Calmest
  <2>2. j \in 1..n
    BY DEF BestsOf
  <2>3. B(j) < B(i)
    BY <1>1, <1>3, <1>5, <2>1, <2>2
  <2> HIDE DEF B
  <2>4. ~ (i <= j)
    <3> SUFFICES ASSUME i <= j PROVE FALSE
      OBVIOUS
    <3>1. P[i].vol <= P[j].vol
      BY <1>1, <1>2, <2>2 DEF Calmest
    <3>2. B(i) <= B(j)
      BY <1>1, <1>3, <2>2, <3>1
    <3> QED
      BY <1>1, <1>3, <2>2, <2>3, <3>2
  <2>5. j < i
    BY <1>1, <2>2, <2>4
  <2>6. P[j].ret < P[i].ret
    BY <2>5 DEF RisingOf
  <2> QED
    BY <1>1, <1>2, <2>1, <2>2, <2>6
<1> QED
  BY <1>4, <1>5

\* Every point is matched by a rising one of its bin or a lower one.
LEMMA SomeIsAsGood ==
  ASSUME NEW P, NEW n, Calmest(P, n), NEW widest \in Nat, NEW k \in 1..n
  PROVE  \E j \in RisingOf(P, n, widest) : /\ BinOf(widest, P[j].vol) <= BinOf(widest, P[k].vol)
                                           /\ P[j].ret >= P[k].ret
<1> DEFINE B(m) == BinOf(widest, P[m].vol)
           S == {m \in BestsOf(P, n, widest) : B(m) <= B(k)}
<1>1. \A m \in 1..n : P[m].vol \in Nat /\ P[m].ret \in Int
  BY DEF Calmest, Scores, Figures
<1>2. \A l, m \in 1..n : B(l) \in Nat /\ B(m) \in Nat /\ (P[l].vol <= P[m].vol => B(l) <= B(m))
  <2>1. \A a \in Nat : BinOf(widest, a) \in Nat
    BY BinType
  <2>2. \A a, b \in Nat : a <= b => BinOf(widest, a) <= BinOf(widest, b)
    BY BinGrows
  <2> QED
    BY <1>1, <2>1, <2>2
<1>3. BestsOf(P, n, widest) \subseteq 1..n
  BY DEF BestsOf
<1>4. PICK b \in BestsOf(P, n, widest) : B(b) = B(k) /\ P[k].ret <= P[b].ret
  BY BestOfBin DEF Calmest
<1> HIDE DEF B
<1>5. b \in S /\ S \in SUBSET (1..n)
  BY <1>2, <1>3, <1>4
<1>6. PICK j \in S : \A m \in S : P[m].ret < P[j].ret \/ (P[m].ret = P[j].ret /\ m >= j)
  BY <1>5, FirstOfMost DEF Calmest
<1>7. j \in RisingOf(P, n, widest)
  <2> SUFFICES ASSUME NEW m \in BestsOf(P, n, widest), m < j PROVE P[m].ret < P[j].ret
    BY DEF RisingOf
  <2>1. P[m].vol <= P[j].vol
    BY <1>3, <1>5, <1>6 DEF Calmest
  <2>2. B(m) <= B(j) /\ B(j) <= B(k) /\ B(m) \in Nat /\ B(j) \in Nat /\ B(k) \in Nat
    BY <1>2, <1>3, <1>5, <1>6, <2>1
  <2>3. m \in S
    BY <2>2
  <2> QED
    BY <1>3, <1>5, <1>6, <2>3
<1>8. P[j].ret >= P[k].ret
  <2>1. P[b].ret <= P[j].ret
    BY <1>1, <1>5, <1>6
  <2> QED
    BY <1>1, <1>4, <1>5, <1>6, <2>1
<1>9. B(j) <= B(k)
  BY <1>6
<1> QED
  BY <1>7, <1>8, <1>9 DEF B

\* The frontier of the points of a request, and what is promised of it.
Undominated(points, frontier) ==
  LET f == Range(frontier)
      all == Range(points)
      widest == Max({p.vol : p \in all} \cup {1})
      bin(p) == (p.vol * Bins) \div widest
  IN /\ \A p \in f, q \in all : ~(q.vol <= p.vol /\ q.ret >= p.ret /\ (q.vol < p.vol \/ q.ret > p.ret))
     /\ \A q \in all : \E p \in f : bin(p) <= bin(q) /\ p.ret >= q.ret

\* The widest volatility, and the same where it is not nought.
LEMMA WidestOf ==
  ASSUME NEW P, NEW n, Scores(P, n), n > 0
  PROVE  /\ Max({P[i].vol : i \in 1..n}) \in Nat
         /\ Max({P[i].vol : i \in 1..n} \cup {1}) \in Nat \ {0}
         /\ \A i \in 1..n : BinOf(Max({P[j].vol : j \in 1..n}), P[i].vol)
                            = (P[i].vol * Bins) \div Max({P[j].vol : j \in 1..n} \cup {1})
<1> DEFINE V == {P[i].vol : i \in 1..n}
           W == V \cup {1}
           v == Max(V)
           w == Max(W)
<1>1. n \in Nat /\ \A i \in 1..n : P[i].vol \in Nat
  BY DEF Scores, Figures
<1>2. IsFiniteSet(V) /\ IsFiniteSet(W)
  <2> DEFINE f == [i \in 1..n |-> P[i].vol]
  <2>1. V = {f[i] : i \in 1..n}
    OBVIOUS
  <2> HIDE DEF V, f
  <2>2. IsFiniteSet(1..n)
    BY <1>1, FS_Interval
  <2>3. IsFiniteSet(V)
    BY <2>1, <2>2, FiniteImage
  <2> QED
    BY <2>3, FS_AddElement
<1>3. V \in SUBSET Nat /\ V # {} /\ W \in SUBSET Nat /\ 1 \in W /\ V \subseteq W /\ \A x \in W : x \in V \/ x = 1
  BY <1>1
<1>4. \A i \in 1..n : P[i].vol \in V
  OBVIOUS
<1> HIDE DEF V, W
<1>5. v \in V /\ \A x \in V : x <= v
  BY <1>2, <1>3, MaxOfFinite
<1>6. w \in W /\ \A x \in W : x <= w
  BY <1>2, <1>3, MaxOfFinite
<1> HIDE DEF v, w
<1>7. v \in Nat /\ w \in Nat /\ w >= 1
  BY <1>3, <1>5, <1>6
<1>8. v # 0 => v = w
  <2> SUFFICES ASSUME v # 0 PROVE v = w
    OBVIOUS
  <2>1. v >= 1 /\ v <= w
    BY <1>3, <1>5, <1>6, <1>7
  <2>2. w <= v
    BY <1>3, <1>5, <1>6, <1>7, <2>1
  <2> QED
    BY <1>7, <2>1, <2>2
<1>9. ASSUME NEW i \in 1..n PROVE BinOf(v, P[i].vol) = (P[i].vol * Bins) \div w
  <2>1. CASE v = 0
    <3>1. P[i].vol = 0
      BY <1>1, <1>4, <1>5, <2>1
    <3>2. 0 * Bins = 0 /\ 0 \div w = 0
      BY <1>7 DEF Bins
    <3> QED
      BY <2>1, <3>1, <3>2 DEF BinOf
  <2>2. CASE v # 0
    BY <1>8, <2>2 DEF BinOf
  <2> QED
    BY <2>1, <2>2
<1> QED
  BY <1>7, <1>9 DEF v, w, V, W

LEMMA FrontierPoints ==
  ASSUME NEW P, NEW n, Calmest(P, n), n > 0
  PROVE  Range(FrontierOf(P)) = {P[i] : i \in RisingOf(P, n, Max({P[j].vol : j \in 1..n}))}
<1> DEFINE widest == Max({P[i].vol : i \in DOMAIN P})
           bin(i) == IF widest = 0 THEN 0 ELSE (P[i].vol * Bins) \div widest
           best(i) == \A k \in DOMAIN P : bin(k) = bin(i) =>
                        \/ P[k].ret < P[i].ret
                        \/ P[k].ret = P[i].ret /\ k >= i
           bests == {i \in DOMAIN P : best(i)}
           rising == {i \in bests : \A k \in bests : k < i => P[k].ret < P[i].ret}
           o == Ascending(rising)
<1>1. n \in Nat /\ DOMAIN P = 1..n /\ P # <<>>
  <2>1. n \in Nat /\ DOMAIN P = 1..n
    BY DEF Calmest, Scores
  <2>2. 1 \in DOMAIN P
    BY <2>1
  <2> QED
    BY <2>1, <2>2
<1>2. FrontierOf(P) = [j \in DOMAIN o |-> P[o[j]]]
  BY <1>1 DEF FrontierOf, Once, Ascending
<1>3. \A i : bin(i) = BinOf(widest, P[i].vol)
  BY DEF BinOf
<1> HIDE DEF bin
<1>4. \A i : best(i) <=> BestAt(P, n, widest, i)
  BY <1>1, <1>3 DEF BestAt
<1>5. widest = Max({P[j].vol : j \in 1..n})
  BY <1>1
<1> HIDE DEF best, widest
<1>6. bests = BestsOf(P, n, widest)
  BY <1>1, <1>4 DEF BestsOf
<1> HIDE DEF bests
<1>7. rising = RisingOf(P, n, widest)
  BY <1>6 DEF RisingOf
<1> HIDE DEF rising
<1>8. rising \in SUBSET (1..n)
  BY <1>7 DEF RisingOf, BestsOf
<1>9. IsFiniteSet(rising)
  <2>1. IsFiniteSet(1..n)
    BY <1>1, FS_Interval
  <2> QED
    BY <1>8, <2>1, FS_Subset
<1>10. rising \in SUBSET Int
  BY <1>8
<1>11. o \in Seq(rising) /\ \A x \in rising : \E i \in DOMAIN o : o[i] = x
  BY <1>9, <1>10, AscendingNumbers
<1> HIDE DEF o
<1>12. \A j \in DOMAIN o : o[j] \in rising
  BY <1>11, ElementOfSeq, LenProperties
<1>13. Range(FrontierOf(P)) = {FrontierOf(P)[j] : j \in DOMAIN FrontierOf(P)}
  BY DEF Range
<1>14. {P[o[j]] : j \in DOMAIN o} = {P[i] : i \in rising}
  BY <1>11, <1>12
<1>15. {FrontierOf(P)[j] : j \in DOMAIN FrontierOf(P)} = {P[o[j]] : j \in DOMAIN o}
  BY <1>2
<1> QED
  BY <1>5, <1>7, <1>13, <1>14, <1>15

\* No sampled book is better than one of the frontier, and each is matched by one.
LEMMA FrontierHolds ==
  ASSUME NEW P, NEW n, Calmest(P, n)
  PROVE  Undominated(P, FrontierOf(P))
<1>1. n \in Nat /\ DOMAIN P = 1..n /\ Scores(P, n)
  BY DEF Calmest, Scores
<1>2. Range(P) = {P[i] : i \in 1..n}
  BY <1>1 DEF Range
<1>3. CASE n = 0
  <2>1. P = <<>>
    BY <1>1, <1>3
  <2>2. FrontierOf(P) = <<>>
    BY <2>1 DEF FrontierOf
  <2>3. Range(P) = {} /\ Range(FrontierOf(P)) = {}
    BY <1>2, <1>3, <2>1, <2>2
  <2> QED
    BY <2>3 DEF Undominated
<1>4. CASE n # 0
  <2> DEFINE widest == Max({P[j].vol : j \in 1..n})
             R == RisingOf(P, n, widest)
             w == Max({p.vol : p \in Range(P)} \cup {1})
  <2>1. n > 0
    BY <1>1, <1>4
  <2>2. Range(FrontierOf(P)) = {P[i] : i \in R}
    BY <2>1, FrontierPoints
  <2>3. w = Max({P[j].vol : j \in 1..n} \cup {1})
    <3>1. {p.vol : p \in Range(P)} = {P[j].vol : j \in 1..n}
      BY <1>2
    <3> QED
      BY <3>1
  <2>4. widest \in Nat /\ \A i \in 1..n : BinOf(widest, P[i].vol) = (P[i].vol * Bins) \div w
    BY <1>1, <2>1, <2>3, WidestOf
  <2>5. R \subseteq 1..n
    BY DEF RisingOf, BestsOf
  <2> HIDE DEF widest, w
  <2>6. ASSUME NEW i \in R, NEW k \in 1..n
        PROVE  ~(P[k].vol <= P[i].vol /\ P[k].ret >= P[i].ret /\ (P[k].vol < P[i].vol \/ P[k].ret > P[i].ret))
    BY <2>4, NoneIsBetter
  <2>7. ASSUME NEW k \in 1..n
        PROVE  \E i \in R : (P[i].vol * Bins) \div w <= (P[k].vol * Bins) \div w /\ P[i].ret >= P[k].ret
    <3>1. PICK i \in R : BinOf(widest, P[i].vol) <= BinOf(widest, P[k].vol) /\ P[i].ret >= P[k].ret
      BY <2>4, SomeIsAsGood
    <3> QED
      BY <2>4, <2>5, <3>1
  <2> HIDE DEF R
  <2>8. Undominated(P, FrontierOf(P)) <=>
          /\ \A p \in Range(FrontierOf(P)), q \in Range(P) :
               ~(q.vol <= p.vol /\ q.ret >= p.ret /\ (q.vol < p.vol \/ q.ret > p.ret))
          /\ \A q \in Range(P) : \E p \in Range(FrontierOf(P)) :
               (p.vol * Bins) \div w <= (q.vol * Bins) \div w /\ p.ret >= q.ret
    BY DEF Undominated, w
  <2>9. \A p \in Range(FrontierOf(P)) : \E i \in R : p = P[i]
    BY <2>2
  <2>10. \A q \in Range(P) : \E k \in 1..n : q = P[k]
    BY <1>2
  <2>11. \A i \in R : P[i] \in Range(FrontierOf(P))
    BY <2>2
  <2>12. ASSUME NEW p \in Range(FrontierOf(P)), NEW q \in Range(P)
         PROVE ~(q.vol <= p.vol /\ q.ret >= p.ret /\ (q.vol < p.vol \/ q.ret > p.ret))
    BY <2>6, <2>9, <2>10
  <2>13. ASSUME NEW q \in Range(P)
         PROVE \E p \in Range(FrontierOf(P)) : (p.vol * Bins) \div w <= (q.vol * Bins) \div w /\ p.ret >= q.ret
    <3>1. PICK k \in 1..n : q = P[k]
      BY <2>10
    <3>2. PICK i \in R : (P[i].vol * Bins) \div w <= (P[k].vol * Bins) \div w /\ P[i].ret >= P[k].ret
      BY <2>7
    <3> QED
      BY <2>11, <3>1, <3>2
  <2> QED
    BY <2>8, <2>12, <2>13
<1> QED
  BY <1>3, <1>4

\* The points are put in the order of their volatilities.
LEMMA ByVolType ==
  ASSUME NEW P, NEW n, Scores(P, n)
  PROVE  \E m : Calmest(ByVol(P), m)
<1> DEFINE S == DOMAIN P
           key == [i \in S |-> P[i].vol]
           order == ByKey(S, key)
           B == [i \in DOMAIN order |-> P[order[i]]]
<1>1. n \in Nat /\ S = 1..n /\ \A i \in S : Figures(P[i])
  BY DEF Scores
<1>2. IsFiniteSet(S) /\ S \in SUBSET Int
  BY <1>1, FS_Interval
<1>3. \A i \in S : key[i] \in Int /\ key[i] = P[i].vol
  BY <1>1 DEF Figures
<1>4. ByVol(P) = B
  BY DEF ByVol, Once
<1> HIDE DEF S, key
<1>5. order \in Seq(S) /\ \A i, k \in DOMAIN order : i < k => key[order[i]] <= key[order[k]]
  BY <1>2, <1>3, KeyOrder
<1> HIDE DEF order
<1>6. Len(order) \in Nat /\ DOMAIN order = 1..Len(order) /\ \A i \in 1..Len(order) : order[i] \in S
  BY <1>5, LenProperties, ElementOfSeq
<1>7. Calmest(B, Len(order))
  <2>1. DOMAIN B = 1..Len(order) /\ \A i \in 1..Len(order) : B[i] = P[order[i]]
    BY <1>6
  <2> HIDE DEF B
  <2>2. Scores(B, Len(order))
    BY <1>1, <1>6, <2>1 DEF Scores
  <2>3. \A i, k \in 1..Len(order) : i < k => B[i].vol <= B[k].vol
    BY <1>3, <1>5, <1>6, <2>1
  <2> QED
    BY <2>2, <2>3 DEF Calmest
<1> QED
  BY <1>4, <1>7

(***************************************************************************)
(* An optimisation.                                                        *)
(***************************************************************************)
\* A book is scored with a volatility and a return.
LEMMA PointType ==
  ASSUME YearlyIsANumber, NEW D, IsFiniteSet(D), NEW w \in [D -> Int], NEW market,
         \A a \in D : Series(market.series[a]) /\ market.stats[a].ret \in Int,
         NEW benchmark, NEW rf, NEW fee \in Int
  PROVE  Figures(PointOf(w, market, benchmark, rf, fee))
<1> DEFINE path == NetOfFee(MonthlySeries(w, market.series), fee)
           p == Scored(w, market, path, benchmark, rf, fee)
           blend == Plus([a \in DOMAIN w |-> w[a] * market.stats[a].ret]) \div Whole
           returns == InOrder(path)
<1>1. PointOf(w, market, benchmark, rf, fee) = p
  BY DEF PointOf, Once
<1>2. Series(path)
  BY PathType
<1> HIDE DEF path
<1>3. returns \in Seq(Int)
  BY <1>2, InOrderType
<1>4. Cagr(returns) \in Int
  BY <1>3, CagrType
<1>5. blend \in Int
  <2> DEFINE f == [a \in D |-> w[a] * market.stats[a].ret]
  <2>1. f \in [D -> Int]
    OBVIOUS
  <2>2. blend = Plus(f) \div Whole
    OBVIOUS
  <2> HIDE DEF f, blend
  <2>3. Plus(f) \in Int
    BY <2>1, PlusType
  <2> QED
    BY <2>2, <2>3 DEF Whole
<1>6. p.ret = IF Len(returns) >= MinTail THEN Cagr(returns) ELSE blend
  BY DEF Scored
<1>7. p.vol = IF Len(returns) >= MinPath /\ AnnualVol(path) > 0 THEN AnnualVol(path) ELSE PortfolioVol(w, market)
  BY DEF Scored
<1>8. AnnualVol(path) \in Nat /\ PortfolioVol(w, market) \in Nat
  BY RootType DEF AnnualVol, PortfolioVol
<1> HIDE DEF p, blend, returns
<1> QED
  BY <1>1, <1>4, <1>5, <1>6, <1>7, <1>8 DEF Figures

\* The estimates of a series.
LEMMA StatsType ==
  ASSUME YearlyIsANumber, NEW s, Series(s), NEW drag
  PROVE  ComputeAssetStats(s, drag).ret \in Int
<1>1. Cagr(InOrder(s)) \in Int
  BY InOrderType, CagrType
<1> DEFINE n == Cardinality(DOMAIN s)
<1> HIDE DEF n
<1>2. ComputeAssetStats(s, drag) =
        IF n = 0 THEN [n |-> 0, ret |-> 0, mu |-> 0, vol |-> 0]
        ELSE [n |-> n, ret |-> Cagr(InOrder(s)), mu |-> (12 * Plus(s)) \div n - drag, vol |-> AnnualVol(s)]
  BY DEF ComputeAssetStats, n
<1> QED
  BY <1>1, <1>2

LEMMA AssumedType ==
  ASSUME NEW n, NEW ret \in Int, NEW mu, NEW vol, NEW o, o = None \/ o.ret \in Int \cup {None}
  PROVE  /\ ApplyOverrides([n |-> n, ret |-> ret, mu |-> mu, vol |-> vol], o).ret \in Int
         /\ ApplyMuShrink(ApplyOverrides([n |-> n, ret |-> ret, mu |-> mu, vol |-> vol], o)).ret \in Int
<1> DEFINE stat == [n |-> n, ret |-> ret, mu |-> mu, vol |-> vol]
           over == ApplyOverrides(stat, o)
<1>1. CASE o = None
  BY <1>1 DEF ApplyOverrides, ApplyMuShrink
<1>2. CASE o # None
  <2>1. over = [stat EXCEPT !.ret = IF o.ret = None THEN @ ELSE o.ret, !.mu = IF o.ret = None THEN @ ELSE o.ret,
                            !.vol = IF o.vol = None THEN @ ELSE o.vol]
    BY <1>2 DEF ApplyOverrides
  <2>2. over = [n |-> n, ret |-> IF o.ret = None THEN ret ELSE o.ret, mu |-> over.mu, vol |-> over.vol]
    BY <2>1
  <2> HIDE DEF over
  <2>3. over.ret \in Int
    BY <1>2, <2>2
  <2>4. ApplyMuShrink(over).ret = over.ret
    BY <2>2 DEF ApplyMuShrink
  <2> QED
    BY <2>3, <2>4 DEF over
<1> QED
  BY <1>1, <1>2

\* What a request says.
Asked(req) ==
  /\ Table(req.holdings) /\ Table(req.tickets) /\ Table(req.caps)
  /\ {req.newCapital, req.defaultCap, req.names, req.fofFee} \subseteq Int /\ req.sleeve \in Nat
  /\ \A a \in DOMAIN req.overrides : req.overrides[a].ret \in Int \cup {None}
Listed(ids) ==
  /\ IsFiniteSet(ids) /\ ids \subseteq DOMAIN Catalog
  /\ \A a \in ids : /\ a \in Int /\ Catalog[a].min \in Int
                    /\ Table(Catalog[a].series) /\ DOMAIN Catalog[a].series \subseteq Int

\* A market has a series and an estimated return for each of its funds.
Market(market, D) ==
  /\ D \subseteq Int /\ IsFiniteSet(D) /\ DOMAIN market.stats = D
  /\ \A a \in D : Series(market.series[a]) /\ market.stats[a].ret \in Int

LEMMA MarketOfType ==
  ASSUME YearlyIsANumber, NEW ids, Listed(ids), NEW start, NEW req, Asked(req)
  PROVE  Market(MarketOf(ids, start, req), ids)
<1> DEFINE ov(a) == IF a \in DOMAIN req.overrides THEN req.overrides[a] ELSE None
           Assumed(a, s) == ApplyOverrides(ComputeAssetStats(s, DragOf(req, a)), ov(a))
           Stat(a, s) == IF ov(a) # None /\ ov(a).ret # None THEN Assumed(a, s) ELSE ApplyMuShrink(Assumed(a, s))
           series == [a \in ids |-> Since(Catalog[a].series, start)]
           market == MarketOf(ids, start, req)
<1>1. market.series = series /\ market.stats = [a \in ids |-> Stat(a, series[a])]
  BY DEF MarketOf, Once
<1>2. ASSUME NEW a \in ids PROVE Series(series[a])
  <2> DEFINE f == Catalog[a].series
             M == {k \in DOMAIN f : start = None \/ k >= start}
  <2>1. IsFiniteSet(DOMAIN f) /\ DOMAIN f \subseteq Int /\ \A x \in DOMAIN f : f[x] \in Int
    BY DEF Listed, Table
  <2>2. series[a] = [m \in M |-> f[m]]
    BY DEF Since
  <2>3. IsFiniteSet(M) /\ M \subseteq DOMAIN f
    BY <2>1, FS_Subset
  <2> HIDE DEF series, M, f
  <2>4. DOMAIN series[a] = M /\ series[a] \in [M -> Int]
    BY <2>1, <2>2, <2>3
  <2> QED
    BY <2>1, <2>3, <2>4 DEF Series
<1>3. ASSUME NEW a \in ids PROVE Stat(a, series[a]).ret \in Int
  <2> DEFINE s == series[a]
             d == DragOf(req, a)
             c == ComputeAssetStats(s, d)
             o == ov(a)
  <2>1. Series(s)
    BY <1>2
  <2>2. o = None \/ o.ret \in Int \cup {None}
    BY DEF Asked
  <2> HIDE DEF s, d, o
  <2>3. c.ret \in Int
    BY <2>1, StatsType
  <2>4. c = [n |-> c.n, ret |-> c.ret, mu |-> c.mu, vol |-> c.vol]
    <3> DEFINE n == Cardinality(DOMAIN s)
    <3>1. c = IF n = 0 THEN [n |-> 0, ret |-> 0, mu |-> 0, vol |-> 0]
              ELSE [n |-> n, ret |-> Cagr(InOrder(s)), mu |-> (12 * Plus(s)) \div n - d, vol |-> AnnualVol(s)]
      BY DEF ComputeAssetStats
    <3> HIDE DEF n, c
    <3>2. CASE n = 0
      BY <3>1, <3>2
    <3>3. CASE n # 0
      BY <3>1, <3>3
    <3> QED
      BY <3>2, <3>3
  <2> HIDE DEF c
  <2>5. ApplyOverrides(c, o).ret \in Int /\ ApplyMuShrink(ApplyOverrides(c, o)).ret \in Int
    BY <2>2, <2>3, <2>4, AssumedType
  <2> QED
    BY <2>5 DEF s, d, c, o
<1> HIDE DEF market, series, Stat
<1>4. DOMAIN market.stats = ids /\ \A a \in ids : market.stats[a].ret \in Int
  BY <1>1, <1>3
<1>5. \A a \in ids : Series(market.series[a])
  BY <1>1, <1>2
<1>6. ids \subseteq Int /\ IsFiniteSet(ids)
  BY DEF Listed
<1> QED
  BY <1>4, <1>5, <1>6 DEF Market, market

\* Cash has a series too: the risk-free rate in every month of the funds.
LEMMA CashType ==
  ASSUME NEW market, NEW D, Market(market, D), NEW rf \in Int
  PROVE  Market(InjectCash(market, rf), D \cup {Cash})
<1> DEFINE funds == DOMAIN market.stats
           all == funds \cup {Cash}
           months == UNION {DOMAIN market.series[a] : a \in funds}
           flat == [m \in months |-> rf \div 12]
           with == InjectCash(market, rf)
<1>1. with.stats = [a \in all |-> IF a = Cash THEN [n |-> 999, ret |-> rf, mu |-> rf, vol |-> 0] ELSE market.stats[a]]
  BY DEF InjectCash
<1>2. with.series = [a \in all |-> IF a = Cash THEN flat ELSE market.series[a]]
  BY DEF InjectCash
<1>3. funds = D /\ IsFiniteSet(D) /\ D \subseteq Int
  BY DEF Market
<1>4. \A a \in D : Series(market.series[a]) /\ market.stats[a].ret \in Int
  BY DEF Market
<1>5. IsFiniteSet(months) /\ months \subseteq Int
  <2> DEFINE f == [a \in D |-> DOMAIN market.series[a]]
             N == {f[a] : a \in D}
  <2>1. IsFiniteSet(N)
    <3> HIDE DEF f
    <3> QED
      BY <1>3, FiniteImage
  <2>2. months = UNION N
    BY <1>3
  <2>3. \A S \in N : IsFiniteSet(S) /\ S \subseteq Int
    BY <1>4 DEF Series
  <2> HIDE DEF N, months
  <2>4. IsFiniteSet(UNION N)
    BY <2>1, <2>3, FS_UNION
  <2> QED
    BY <2>2, <2>3, <2>4
<1> HIDE DEF months, with
<1>6. Series(flat)
  <2>1. rf \div 12 \in Int
    OBVIOUS
  <2> QED
    BY <1>5, <2>1 DEF Series
<1> HIDE DEF flat
<1>7. DOMAIN with.stats = all /\ all = D \cup {Cash} /\ all \subseteq Int
  BY <1>1, <1>3 DEF Cash
<1>8. IsFiniteSet(D \cup {Cash})
  BY <1>3, FS_AddElement
<1>9. ASSUME NEW a \in all PROVE Series(with.series[a]) /\ with.stats[a].ret \in Int
  <2>1. CASE a = Cash
    BY <1>1, <1>2, <1>6, <2>1
  <2>2. CASE a # Cash
    BY <1>1, <1>2, <1>3, <1>4, <2>2
  <2> QED
    BY <2>1, <2>2
<1> QED
  BY <1>7, <1>8, <1>9 DEF Market, with

LEMMA MarketType ==
  ASSUME YearlyIsANumber, NEW ids, Listed(ids), NEW start, NEW req, Asked(req), NEW rf \in Int
  PROVE  Market(MarketFor(ids, start, req, rf), IF req.cash THEN ids \cup {Cash} ELSE ids)
<1>1. Market(MarketOf(ids, start, req), ids)
  BY MarketOfType
<1>2. Market(InjectCash(MarketOf(ids, start, req), rf), ids \cup {Cash})
  BY <1>1, CashType
<1> QED
  BY <1>1, <1>2 DEF MarketFor

\* The capital of a request is a number.
LEMMA CapitalType ==
  ASSUME NEW req, Asked(req)
  PROVE  CapitalOf(req) \in Int
<1>1. IntOn(req.holdings, DOMAIN req.holdings)
  BY DEF Asked, Table, IntOn
<1>2. SumOver(req.holdings, DOMAIN req.holdings) \in Int
  BY <1>1, SumType
<1>3. Plus(req.holdings) = SumOver(req.holdings, DOMAIN req.holdings)
  BY DEF Plus, SumOver
<1>4. req.newCapital \in Int
  BY DEF Asked
<1> QED
  BY <1>2, <1>3, <1>4 DEF CapitalOf

\* Shares of a capital are numbers, and so are the limits of a request.
LEMMA ShareType ==
  ASSUME NEW req, Asked(req), CapitalOf(req) > 0, NEW x \in Int
  PROVE  Share(req, x) \in Int
<1> DEFINE c == CapitalOf(req)
           y == x * Whole
<1>1. c \in Int
  BY CapitalType
<1>2. y \in Int /\ c > 0
  BY DEF Whole
<1>3. Share(req, x) = y \div c
  BY DEF Share
<1> HIDE DEF c, y
<1> QED
  BY <1>1, <1>2, <1>3

\* Limits with floors on finitely many funds.
Limits(lim) ==
  /\ LimitsType(lim) /\ lim.floor \in [DOMAIN lim.floor -> Int]
  /\ lim = [cap |-> lim.cap, ticket |-> lim.ticket, floor |-> lim.floor, names |-> lim.names,
            illiquid |-> lim.illiquid, sleeve |-> lim.sleeve]

LEMMA AskedLimits ==
  ASSUME NEW ids, Listed(ids), NEW req, Asked(req), CapitalOf(req) > 0
  PROVE  /\ Limits(LimitsOf(ids, req)) /\ FreeOf(req) \in Int
         /\ \A a \in DOMAIN FixedOf(ids, req) : FixedOf(ids, req)[a] \in Int
         /\ \A a \in DOMAIN SoftOf(ids, req) : SoftOf(ids, req)[a] \in Int
<1> DEFINE lim == LimitsOf(ids, req)
           held == {x \in ids \cap DOMAIN req.holdings : req.noSell /\ req.holdings[x] > 0}
           fixed == {x \in ids \cap DOMAIN req.holdings : req.newOnly /\ req.holdings[x] > 0}
<1>1. \A x \in Int : Share(req, x) \in Int
  BY ShareType
<1>2. \A a \in DOMAIN req.holdings : req.holdings[a] \in Int
  BY DEF Asked, Table
<1>3. \A a \in ids : Requested(req, a) \in Int
  <2>1. \A a \in ids : Catalog[a].min \in Int
    BY DEF Listed
  <2>2. \A a \in DOMAIN req.tickets : req.tickets[a] \in Int
    BY DEF Asked, Table
  <2> QED
    BY <2>1, <2>2 DEF Requested
<1>4. held \subseteq ids /\ fixed \subseteq ids /\ IsFiniteSet(ids)
  BY DEF Listed
<1>5. IsFiniteSet(held) /\ IsFiniteSet(fixed)
  <2> HIDE DEF held, fixed
  <2> QED
    BY <1>4, FS_Subset
<1>6. FixedOf(ids, req) = [a \in fixed |-> Share(req, req.holdings[a])]
  BY DEF FixedOf
<1>7. /\ DOMAIN FixedOf(ids, req) = fixed /\ FixedOf(ids, req) \in [fixed -> Int]
      /\ \A a \in fixed : FixedOf(ids, req)[a] \in Int
  <2>1. \A a \in fixed : Share(req, req.holdings[a]) \in Int
    BY <1>1, <1>2
  <2> HIDE DEF fixed
  <2> QED
    BY <1>6, <2>1
<1>8. \A a \in DOMAIN lim.cap : lim.cap[a] \in Int
  <2> DEFINE C == {x \in ids : x \in DOMAIN req.caps \/ Catalog[x].kind = "hedge_fund"}
  <2>1. lim.cap = [a \in C |-> IF a \in DOMAIN req.caps THEN req.caps[a] ELSE req.defaultCap]
    BY DEF LimitsOf
  <2>2. req.defaultCap \in Int /\ \A a \in DOMAIN req.caps : req.caps[a] \in Int
    BY DEF Asked, Table
  <2> HIDE DEF lim, C
  <2> QED
    BY <2>1, <2>2
<1>9. \A a \in DOMAIN lim.ticket : lim.ticket[a] \in Int
  <2>1. lim.ticket = [a \in {x \in ids : req.respectMin} |-> Share(req, Requested(req, a))]
    BY DEF LimitsOf
  <2> HIDE DEF lim
  <2> QED
    BY <1>1, <1>3, <2>1
<1>10. /\ IsFiniteSet(DOMAIN lim.floor) /\ lim.floor \in [DOMAIN lim.floor -> Int]
       /\ \A a \in DOMAIN lim.floor : lim.floor[a] \in Int
  <2> DEFINE kept == [a \in held |-> Share(req, req.holdings[a])]
  <2>1. lim.floor = IF req.newOnly /\ Plus(req.holdings) > 0 THEN FixedOf(ids, req) ELSE kept
    BY DEF LimitsOf
  <2>2. \A a \in held : Share(req, req.holdings[a]) \in Int
    BY <1>1, <1>2
  <2> HIDE DEF held, lim
  <2>3. DOMAIN kept = held /\ kept \in [held -> Int] /\ \A a \in held : kept[a] \in Int
    BY <2>2
  <2> HIDE DEF kept, fixed
  <2>4. CASE req.newOnly /\ Plus(req.holdings) > 0
    BY <1>5, <1>7, <2>1, <2>4
  <2>5. CASE ~ (req.newOnly /\ Plus(req.holdings) > 0)
    BY <1>5, <2>1, <2>3, <2>5
  <2> QED
    BY <2>4, <2>5
<1>11. lim.names \in Int
  BY DEF LimitsOf, Asked
<1>12. lim.sleeve \in Nat
  <2>1. lim.sleeve = IF req.sleeve = 0 THEN Whole ELSE req.sleeve
    BY DEF LimitsOf
  <2> QED
    BY <2>1 DEF Asked, Whole
<1>13. FreeOf(req) \in Int
  <2>1. req.newCapital \in Int
    BY DEF Asked
  <2> QED
    BY <1>1, <2>1 DEF FreeOf, Whole
<1>14. \A a \in DOMAIN SoftOf(ids, req) : SoftOf(ids, req)[a] \in Int
  <2> DEFINE A == {x \in ids : req.respectMin /\ Requested(req, x) > 0}
  <2>1. SoftOf(ids, req) = [a \in A |-> Min({Whole, Share(req, Requested(req, a))})]
    BY DEF SoftOf
  <2>2. ASSUME NEW a \in A PROVE Min({Whole, Share(req, Requested(req, a))}) \in Int
    <3> DEFINE x == Share(req, Requested(req, a))
    <3>1. x \in Int /\ Whole \in Int
      BY <1>1, <1>3 DEF Whole
    <3> HIDE DEF x
    <3>2. Min({Whole, x}) \in Int
      BY <3>1, LargestOf, Zenon
    <3> QED
      BY <3>2 DEF x
  <2> HIDE DEF A
  <2> QED
    BY <2>1, <2>2
<1>15. lim = [cap |-> lim.cap, ticket |-> lim.ticket, floor |-> lim.floor, names |-> lim.names,
              illiquid |-> lim.illiquid, sleeve |-> lim.sleeve]
  BY DEF LimitsOf
<1> HIDE DEF lim, held, fixed
<1>16. LimitsType(lim)
  BY <1>8, <1>9, <1>10, <1>11, <1>12 DEF LimitsType
<1>17. Limits(lim)
  BY <1>10, <1>15, <1>16 DEF Limits
<1> QED
  BY <1>7, <1>13, <1>14, <1>17 DEF lim

\* Floors of more than everything are scaled down.
ScaledFloors(lim) == IF Plus(lim.floor) > Whole THEN [lim EXCEPT !.floor = Normal(lim.floor)] ELSE lim

LEMMA ScaledType ==
  ASSUME NEW lim, Limits(lim)
  PROVE  LimitsType(ScaledFloors(lim))
<1> DEFINE D == DOMAIN lim.floor
           f == Normal(lim.floor)
           new == [lim EXCEPT !.floor = f]
<1>1. IsFiniteSet(D) /\ lim.floor \in [D -> Int] /\ LimitsType(lim)
  BY DEF Limits, LimitsType
<1>2. CASE Plus(lim.floor) > Whole
  <2>1. ~ (Plus(lim.floor) <= 0)
    <3>1. Plus(lim.floor) \in Int
      BY <1>1, PlusType
    <3> QED
      BY <1>2, <3>1 DEF Whole
  <2>2. f = [a \in DOMAIN lim.floor |-> (lim.floor[a] * Whole) \div Plus(lim.floor)]
    BY <2>1 DEF Normal
  <2>3. DOMAIN f = D /\ \A a \in D : f[a] \in Int
    <3> DEFINE t == Plus(lim.floor)
    <3>1. t \in Int /\ t > 0
      BY <1>1, <2>1, PlusType
    <3> HIDE DEF t
    <3>2. ASSUME NEW a \in D PROVE (lim.floor[a] * Whole) \div t \in Int
      <4> DEFINE x == lim.floor[a] * Whole
      <4>1. x \in Int
        BY <1>1 DEF Whole
      <4> HIDE DEF x
      <4>2. x \div t \in Int
        BY <3>1, <4>1
      <4> QED
        BY <4>2 DEF x
    <3> HIDE DEF D, f
    <3> QED
      BY <2>2, <3>2 DEF t, D
  <2> HIDE DEF f, D
  <2>4. new = [cap |-> lim.cap, ticket |-> lim.ticket, floor |-> f, names |-> lim.names,
               illiquid |-> lim.illiquid, sleeve |-> lim.sleeve]
    BY DEF Limits
  <2> HIDE DEF new
  <2>5. LimitsType(new)
    BY <1>1, <2>3, <2>4 DEF LimitsType
  <2> QED
    BY <1>2, <2>5 DEF ScaledFloors, new, f
<1>3. CASE ~ (Plus(lim.floor) > Whole)
  BY <1>1, <1>3 DEF ScaledFloors
<1> QED
  BY <1>2, <1>3

\* Every book that is kept is scored, and the points put in order.
LEMMA FrontierType ==
  ASSUME YearlyIsANumber, NEW ids, NEW market, Market(market, ids), NEW draws \in Seq(Seq(Int \X (Nat \ {0}))),
         NEW lim, Limits(lim), NEW fixed, \A a \in DOMAIN fixed : fixed[a] \in Int, NEW free \in Int,
         NEW soft, \A a \in DOMAIN soft : soft[a] \in Int, NEW benchmark, NEW rf, NEW fee \in Int
  PROVE  LET found == ComputeFrontier(ids, draws, market, lim, fixed, free, soft, benchmark, rf, fee)
         IN Undominated(found.points, found.frontier)
<1> DEFINE scaled == ScaledFloors(lim)
           Made(d) == IF Cardinality(ids) = 1 THEN [a \in ids |-> Whole]
                      ELSE IF SampleWeights(ids, d, scaled, fixed, free, soft) = None THEN None
                      ELSE FinalizeFeasible(SampleWeights(ids, d, scaled, fixed, free, soft), scaled)
           all == [i \in DOMAIN draws |-> Made(draws[i])]
           I == {i \in DOMAIN all : all[i] # None}
           books == Picked(all, I)
           pts == [i \in DOMAIN books |-> PointOf(books[i], market, benchmark, rf, fee)]
           p == ByVol(pts)
           found == ComputeFrontier(ids, draws, market, lim, fixed, free, soft, benchmark, rf, fee)
<1>1. ids \in SUBSET Int /\ IsFiniteSet(ids)
  BY DEF Market
<1>2. LimitsType(scaled)
  BY ScaledType
<1>3. Sift(all, LAMBDA w : w # None) = books
  <2> DEFINE left == [i \in DOMAIN all |-> IF all[i] # None THEN <<all[i]>> ELSE <<>>]
             right == [i \in DOMAIN all |-> IF i \in I THEN <<all[i]>> ELSE <<>>]
  <2>1. left = right
    <3> HIDE DEF all
    <3> QED
      OBVIOUS
  <2>2. Sift(all, LAMBDA w : w # None) = FlattenSeq(left)
    BY DEF Sift
  <2>3. books = FlattenSeq(right)
    BY DEF Picked
  <2> QED
    BY <2>1, <2>2, <2>3
<1>4. found.points = p /\ found.frontier = FrontierOf(p)
  <2> HIDE DEF books
  <2>1. found = [points |-> p, frontier |-> FrontierOf(p), picks |-> Picks(ids, p)]
    BY <1>3 DEF ComputeFrontier, ScaledFloors, Then, Once
  <2> HIDE DEF found, p
  <2> QED
    BY <2>1
<1> HIDE DEF scaled, found
<1>5. DOMAIN draws = 1..Len(draws) /\ Len(draws) \in Nat /\ \A i \in 1..Len(draws) : Draw(draws[i])
  <2>1. DOMAIN draws = 1..Len(draws) /\ Len(draws) \in Nat
    BY LenProperties
  <2>2. \A i \in 1..Len(draws) : draws[i] \in Seq(Int \X (Nat \ {0}))
    BY ElementOfSeq
  <2> QED
    BY <2>1, <2>2 DEF Draw
<1>6. ASSUME NEW d, Draw(d) PROVE Made(d) \in Books(ids)
  <2> DEFINE w == SampleWeights(ids, d, scaled, fixed, free, soft)
  <2>1. w \in Books(ids)
    BY <1>1, <1>2, <1>6, SampleType
  <2> HIDE DEF w
  <2>2. w # None => FinalizeFeasible(w, scaled) \in Books(ids)
    <3>1. w # None => w \in [ids -> Int]
      BY <2>1 DEF Books
    <3> QED
      BY <1>1, <1>2, <3>1, FinalType
  <2>3. [a \in ids |-> Whole] \in Books(ids) /\ None \in Books(ids)
    BY DEF Books, Whole
  <2>4. Made(d) = IF Cardinality(ids) = 1 THEN [a \in ids |-> Whole]
                  ELSE IF w = None THEN None ELSE FinalizeFeasible(w, scaled)
    BY DEF w
  <2> HIDE DEF Made
  <2> QED
    BY <2>2, <2>3, <2>4
<1> HIDE DEF Made
<1>7. all \in Seq(Books(ids))
  <2>1. DOMAIN all = 1..Len(draws) /\ \A i \in 1..Len(draws) : all[i] \in Books(ids)
    BY <1>5, <1>6
  <2>2. all = [i \in 1..Len(draws) |-> all[i]]
    BY <1>5
  <2> HIDE DEF all
  <2> QED
    BY <1>5, <2>1, <2>2
<1> HIDE DEF all, I
<1>8. books \in Seq(Books(ids)) /\ Range(books) = {x \in Books(ids) : \E i \in DOMAIN all : i \in I /\ x = all[i]}
  BY <1>7, Sifted
<1> HIDE DEF books
<1>9. \A x \in Range(books) : x \in [ids -> Int]
  <2>1. \A i \in I : all[i] # None
    BY DEF I
  <2> QED
    BY <1>8, <2>1 DEF Books
<1>10. DOMAIN books = 1..Len(books) /\ Len(books) \in Nat /\ \A i \in 1..Len(books) : books[i] \in [ids -> Int]
  <2>1. DOMAIN books = 1..Len(books) /\ Len(books) \in Nat /\ Range(books) = {books[i] : i \in 1..Len(books)}
    BY <1>8, RangeInType
  <2> QED
    BY <1>9, <2>1
<1>11. ASSUME NEW i \in 1..Len(books) PROVE Figures(PointOf(books[i], market, benchmark, rf, fee))
  <2>1. \A a \in ids : Series(market.series[a]) /\ market.stats[a].ret \in Int
    BY DEF Market
  <2>2. books[i] \in [ids -> Int]
    BY <1>10
  <2> QED
    BY <1>1, <2>1, <2>2, PointType
<1>12. Scores(pts, Len(books))
  BY <1>10, <1>11 DEF Scores
<1> HIDE DEF pts
<1>13. PICK m : Calmest(p, m)
  BY <1>12, ByVolType
<1> HIDE DEF p
<1>14. Undominated(p, FrontierOf(p))
  BY <1>13, FrontierHolds
<1> QED
  BY <1>4, <1>14 DEF found

\* An optimisation that is answered shows points and a frontier that is undominated.
LEMMA OptimisedFrontier ==
  ASSUME YearlyIsANumber, NEW ids, Listed(ids), NEW draws \in Seq(Seq(Int \X (Nat \ {0}))), NEW start,
         NEW rf \in Int, NEW req, Asked(req), CapitalOf(req) > 0
  PROVE  LET found == Optimised(ids, draws, start, rf, req) IN Undominated(found.points, found.frontier)
<1> DEFINE market == MarketFor(ids, start, req, rf)
           D == IF req.cash THEN ids \cup {Cash} ELSE ids
<1>1. Market(market, D)
  BY MarketType
<1>2. DOMAIN market.stats = D
  BY <1>1 DEF Market
<1>3. Optimised(ids, draws, start, rf, req) =
        ComputeFrontier(DOMAIN market.stats, draws, market, LimitsOf(ids, req), FixedOf(ids, req), FreeOf(req),
                        SoftOf(ids, req), BenchmarkOf(req.benchmark, start), rf, req.fofFee)
  BY DEF Optimised, Given
<1> HIDE DEF market, D
<1>4. /\ Limits(LimitsOf(ids, req)) /\ FreeOf(req) \in Int
      /\ \A a \in DOMAIN FixedOf(ids, req) : FixedOf(ids, req)[a] \in Int
      /\ \A a \in DOMAIN SoftOf(ids, req) : SoftOf(ids, req)[a] \in Int
  BY AskedLimits
<1>5. req.fofFee \in Int
  BY DEF Asked
<1>6. Market(market, DOMAIN market.stats)
  BY <1>1, <1>2
<1> QED
  BY <1>3, <1>4, <1>5, <1>6, FrontierType

(***************************************************************************)
(* Convex hulls. A point is supported by a set when in every direction some *)
(* point of the set is as far.                                             *)
(***************************************************************************)
Plane == Int \X Int
Dot(u, p) == u[1] * p[1] + u[2] * p[2]
Supported(p, S) == \A u \in Plane : \E s \in S : Dot(u, p) <= Dot(u, s)

\* Three vectors of the plane depend on one another by their determinants.
LEMMA ThreeVectors ==
  ASSUME NEW a1 \in Int, NEW a2 \in Int, NEW b1 \in Int, NEW b2 \in Int, NEW c1 \in Int, NEW c2 \in Int
  PROVE  /\ (b1 * c2 - b2 * c1) * a1 + (c1 * a2 - c2 * a1) * b1 + (a1 * b2 - a2 * b1) * c1 = 0
         /\ (b1 * c2 - b2 * c1) * a2 + (c1 * a2 - c2 * a1) * b2 + (a1 * b2 - a2 * b1) * c2 = 0
OBVIOUS

\* The sign of a product.
LEMMA Signs ==
  ASSUME NEW x \in Int, NEW y \in Int
  PROVE  /\ x * y \in Int
         /\ x >= 0 /\ y >= 0 => x * y >= 0
         /\ x >= 0 /\ y <= 0 => x * y <= 0
         /\ x <= 0 /\ y >= 0 => x * y <= 0
         /\ x <= 0 /\ y <= 0 => x * y >= 0
         /\ x > 0 /\ y > 0 => x * y > 0
         /\ x < 0 /\ y < 0 => x * y > 0
         /\ x > 0 /\ y < 0 => x * y < 0
         /\ x < 0 /\ y > 0 => x * y < 0
OBVIOUS

\* Three terms below nothing in one sign of weights add up to nothing only if all
\* weights are nought.
LEMMA NoWeights ==
  ASSUME NEW r \in Int, NEW s \in Int, NEW t \in Int, NEW x \in Int, NEW y \in Int, NEW z \in Int,
         x < 0, y < 0, z < 0, r * x + s * y + t * z = 0,
         (r >= 0 /\ s >= 0 /\ t >= 0) \/ (r <= 0 /\ s <= 0 /\ t <= 0)
  PROVE  r = 0 /\ s = 0 /\ t = 0
<1> DEFINE A == r * x
           B == s * y
           C == t * z
<1>1. A \in Int /\ B \in Int /\ C \in Int /\ A + B + C = 0
  OBVIOUS
<1>2. (r > 0 => A < 0) /\ (s > 0 => B < 0) /\ (t > 0 => C < 0)
  BY Signs
<1>3. (r < 0 => A > 0) /\ (s < 0 => B > 0) /\ (t < 0 => C > 0)
  BY Signs
<1>4. (r = 0 => A = 0) /\ (s = 0 => B = 0) /\ (t = 0 => C = 0)
  OBVIOUS
<1> HIDE DEF A, B, C
<1>5. CASE r >= 0 /\ s >= 0 /\ t >= 0
  BY <1>1, <1>2, <1>4, <1>5
<1>6. CASE r <= 0 /\ s <= 0 /\ t <= 0
  BY <1>1, <1>3, <1>4, <1>6
<1> QED
  BY <1>5, <1>6

\* Two vectors on a line, both against a direction, point the same way.
LEMMA SameWay ==
  ASSUME NEW a1 \in Int, NEW a2 \in Int, NEW b1 \in Int, NEW b2 \in Int, NEW u1 \in Int, NEW u2 \in Int,
         a1 * b2 = a2 * b1, u1 * a1 + u2 * a2 < 0, u1 * b1 + u2 * b2 < 0
  PROVE  /\ a1 > 0 => b1 > 0
         /\ a1 < 0 => b1 < 0
         /\ a2 > 0 => b2 > 0
         /\ a2 < 0 => b2 < 0
<1> DEFINE x == u1 * a1 + u2 * a2
           y == u1 * b1 + u2 * b2
<1>1. x \in Int /\ y \in Int /\ x < 0 /\ y < 0
  OBVIOUS
<1>2. y * a1 = b1 * x
  <2>1. y * a1 = u1 * b1 * a1 + u2 * (a1 * b2)
    OBVIOUS
  <2>2. b1 * x = u1 * b1 * a1 + u2 * (a2 * b1)
    OBVIOUS
  <2> QED
    BY <2>1, <2>2
<1>3. y * a2 = b2 * x
  <2>1. y * a2 = u1 * (a2 * b1) + u2 * b2 * a2
    OBVIOUS
  <2>2. b2 * x = u1 * (a1 * b2) + u2 * b2 * a2
    OBVIOUS
  <2> QED
    BY <2>1, <2>2
<1> HIDE DEF x, y
<1>4. a1 > 0 => b1 * x < 0
  BY <1>1, <1>2, Signs
<1>5. a1 < 0 => b1 * x > 0
  BY <1>1, <1>2, Signs
<1>6. a2 > 0 => b2 * x < 0
  BY <1>1, <1>3, Signs
<1>7. a2 < 0 => b2 * x > 0
  BY <1>1, <1>3, Signs
<1>8. (b1 <= 0 => b1 * x >= 0) /\ (b1 >= 0 => b1 * x <= 0) /\ (b2 <= 0 => b2 * x >= 0) /\ (b2 >= 0 => b2 * x <= 0)
  BY <1>1, Signs
<1>9. b1 * x \in Int /\ b2 * x \in Int
  BY <1>1
<1> DEFINE p == b1 * x
           q == b2 * x
<1>10. p \in Int /\ q \in Int
  BY <1>9
<1> HIDE DEF p, q
<1>11. /\ a1 > 0 => ~ (b1 <= 0)
       /\ a1 < 0 => ~ (b1 >= 0)
       /\ a2 > 0 => ~ (b2 <= 0)
       /\ a2 < 0 => ~ (b2 >= 0)
  BY <1>4, <1>5, <1>6, <1>7, <1>8, <1>10 DEF p, q
<1> QED
  BY <1>11

\* The least and the greatest of three.
LEMMA LeastOfThree ==
  ASSUME NEW x \in Int, NEW y \in Int, NEW z \in Int, NEW w \in Int
  PROVE  /\ w >= Min({x, y, z}) <=> w >= x \/ w >= y \/ w >= z
         /\ w <= Max({x, y, z}) <=> w <= x \/ w <= y \/ w <= z
<1> DEFINE S == {x, y, z}
<1>1. S \in SUBSET Int /\ IsFiniteSet(S) /\ S # {} /\ x \in S /\ y \in S /\ z \in S
  <2>1. IsFiniteSet({x}) /\ IsFiniteSet({y}) /\ IsFiniteSet({z})
    BY FS_Singleton
  <2>2. IsFiniteSet(({x} \cup {y}) \cup {z})
    BY <2>1, FS_Union
  <2>3. S = ({x} \cup {y}) \cup {z}
    OBVIOUS
  <2>4. S \in SUBSET Int /\ S # {} /\ x \in S /\ y \in S /\ z \in S
    OBVIOUS
  <2> QED
    BY <2>2, <2>3, <2>4
<1>2. Min(S) \in S /\ \A v \in S : Min(S) <= v
  BY <1>1, MinOfFinite
<1>3. Max(S) \in S /\ \A v \in S : v <= Max(S)
  BY <1>1, MaxOfFinite
<1>4. Min(S) \in Int /\ Max(S) \in Int /\ (Min(S) = x \/ Min(S) = y \/ Min(S) = z) /\ (Max(S) = x \/ Max(S) = y \/ Max(S) = z)
  BY <1>1, <1>2, <1>3
<1>5. Min(S) <= x /\ Min(S) <= y /\ Min(S) <= z /\ x <= Max(S) /\ y <= Max(S) /\ z <= Max(S)
  BY <1>1, <1>2, <1>3
<1> DEFINE lo == Min(S)
           hi == Max(S)
<1>6. lo \in Int /\ hi \in Int /\ (lo = x \/ lo = y \/ lo = z) /\ (hi = x \/ hi = y \/ hi = z)
      /\ lo <= x /\ lo <= y /\ lo <= z /\ x <= hi /\ y <= hi /\ z <= hi
  BY <1>4, <1>5
<1> HIDE DEF lo, hi
<1>7. (w >= lo <=> w >= x \/ w >= y \/ w >= z) /\ (w <= hi <=> w <= x \/ w <= y \/ w <= z)
  BY <1>6
<1> QED
  BY <1>7 DEF lo, hi

\* A turn is the same from each of its three points.
LEMMA SameTurn ==
  ASSUME NEW o \in Plane, NEW a \in Plane, NEW b \in Plane
  PROVE  /\ Cross(o, a, b) \in Int
         /\ Cross(a, b, o) = Cross(o, a, b)
         /\ Cross(o, b, a) = - Cross(o, a, b)
<1>1. o[1] \in Int /\ o[2] \in Int /\ a[1] \in Int /\ a[2] \in Int /\ b[1] \in Int /\ b[2] \in Int
  BY DEF Plane
<1> QED
  BY <1>1 DEF Cross

\* What it is to be in a triangle, seen from the point.
LEMMA InTriangleMeans ==
  ASSUME NEW p \in Plane, NEW a \in Plane, NEW b \in Plane, NEW c \in Plane
  PROVE  InTriangle(p, a, b, c) <=>
           /\ \/ Cross(p, a, b) >= 0 /\ Cross(p, b, c) >= 0 /\ Cross(p, c, a) >= 0
              \/ Cross(p, a, b) <= 0 /\ Cross(p, b, c) <= 0 /\ Cross(p, c, a) <= 0
           /\ a[1] - p[1] <= 0 \/ b[1] - p[1] <= 0 \/ c[1] - p[1] <= 0
           /\ a[1] - p[1] >= 0 \/ b[1] - p[1] >= 0 \/ c[1] - p[1] >= 0
           /\ a[2] - p[2] <= 0 \/ b[2] - p[2] <= 0 \/ c[2] - p[2] <= 0
           /\ a[2] - p[2] >= 0 \/ b[2] - p[2] >= 0 \/ c[2] - p[2] >= 0
<1>1. Cross(a, b, p) = Cross(p, a, b) /\ Cross(b, c, p) = Cross(p, b, c) /\ Cross(c, a, p) = Cross(p, c, a)
  BY SameTurn
<1>2. /\ p[1] \in Int /\ a[1] \in Int /\ b[1] \in Int /\ c[1] \in Int
      /\ p[2] \in Int /\ a[2] \in Int /\ b[2] \in Int /\ c[2] \in Int
  BY DEF Plane
<1>3. /\ p[1] >= Min({a[1], b[1], c[1]}) <=> p[1] >= a[1] \/ p[1] >= b[1] \/ p[1] >= c[1]
      /\ p[1] <= Max({a[1], b[1], c[1]}) <=> p[1] <= a[1] \/ p[1] <= b[1] \/ p[1] <= c[1]
  <2>1. \A w, x, y, z \in Int : (w >= Min({x, y, z}) <=> w >= x \/ w >= y \/ w >= z)
                                   /\ (w <= Max({x, y, z}) <=> w <= x \/ w <= y \/ w <= z)
    BY LeastOfThree
  <2> DEFINE w == p[1]
             x == a[1]
             y == b[1]
             z == c[1]
  <2>2. w \in Int /\ x \in Int /\ y \in Int /\ z \in Int
    BY <1>2
  <2> HIDE DEF w, x, y, z
  <2>3. /\ w >= Min({x, y, z}) <=> w >= x \/ w >= y \/ w >= z
        /\ w <= Max({x, y, z}) <=> w <= x \/ w <= y \/ w <= z
    BY <2>1, <2>2, Zenon
  <2> QED
    BY <2>3 DEF w, x, y, z
<1>4. /\ p[2] >= Min({a[2], b[2], c[2]}) <=> p[2] >= a[2] \/ p[2] >= b[2] \/ p[2] >= c[2]
      /\ p[2] <= Max({a[2], b[2], c[2]}) <=> p[2] <= a[2] \/ p[2] <= b[2] \/ p[2] <= c[2]
  <2>1. \A w, x, y, z \in Int : (w >= Min({x, y, z}) <=> w >= x \/ w >= y \/ w >= z)
                                   /\ (w <= Max({x, y, z}) <=> w <= x \/ w <= y \/ w <= z)
    BY LeastOfThree
  <2> DEFINE w == p[2]
             x == a[2]
             y == b[2]
             z == c[2]
  <2>2. w \in Int /\ x \in Int /\ y \in Int /\ z \in Int
    BY <1>2
  <2> HIDE DEF w, x, y, z
  <2>3. /\ w >= Min({x, y, z}) <=> w >= x \/ w >= y \/ w >= z
        /\ w <= Max({x, y, z}) <=> w <= x \/ w <= y \/ w <= z
    BY <2>1, <2>2, Zenon
  <2> QED
    BY <2>3 DEF w, x, y, z
<1>5. InTriangle(p, a, b, c) <=>
        /\ (\A t \in {Cross(p, a, b), Cross(p, b, c), Cross(p, c, a)} : t >= 0)
           \/ (\A t \in {Cross(p, a, b), Cross(p, b, c), Cross(p, c, a)} : t <= 0)
        /\ \A k \in {1, 2} : p[k] >= Min({a[k], b[k], c[k]}) /\ p[k] <= Max({a[k], b[k], c[k]})
  BY <1>1, Zenon DEF InTriangle
<1>6. (\A t \in {Cross(p, a, b), Cross(p, b, c), Cross(p, c, a)} : t >= 0)
        <=> Cross(p, a, b) >= 0 /\ Cross(p, b, c) >= 0 /\ Cross(p, c, a) >= 0
  BY Zenon
<1>7. (\A t \in {Cross(p, a, b), Cross(p, b, c), Cross(p, c, a)} : t <= 0)
        <=> Cross(p, a, b) <= 0 /\ Cross(p, b, c) <= 0 /\ Cross(p, c, a) <= 0
  BY Zenon
<1>8. (\A k \in {1, 2} : p[k] >= Min({a[k], b[k], c[k]}) /\ p[k] <= Max({a[k], b[k], c[k]}))
        <=> /\ p[1] >= Min({a[1], b[1], c[1]}) /\ p[1] <= Max({a[1], b[1], c[1]})
            /\ p[2] >= Min({a[2], b[2], c[2]}) /\ p[2] <= Max({a[2], b[2], c[2]})
  BY Zenon
<1>9. \A x, y \in Int : (x >= y <=> y - x <= 0) /\ (x <= y <=> y - x >= 0)
  OBVIOUS
<1>10. /\ p[1] >= a[1] <=> a[1] - p[1] <= 0
       /\ p[1] >= b[1] <=> b[1] - p[1] <= 0
       /\ p[1] >= c[1] <=> c[1] - p[1] <= 0
       /\ p[1] <= a[1] <=> a[1] - p[1] >= 0
       /\ p[1] <= b[1] <=> b[1] - p[1] >= 0
       /\ p[1] <= c[1] <=> c[1] - p[1] >= 0
  BY <1>2, <1>9
<1>11. /\ p[2] >= a[2] <=> a[2] - p[2] <= 0
       /\ p[2] >= b[2] <=> b[2] - p[2] <= 0
       /\ p[2] >= c[2] <=> c[2] - p[2] <= 0
       /\ p[2] <= a[2] <=> a[2] - p[2] >= 0
       /\ p[2] <= b[2] <=> b[2] - p[2] >= 0
       /\ p[2] <= c[2] <=> c[2] - p[2] >= 0
  BY <1>2, <1>9
<1> QED
  BY <1>3, <1>4, <1>5, <1>6, <1>7, <1>8, <1>10, <1>11, Zenon

\* A point of a triangle is as far in no direction as its corners.
LEMMA TriangleSupports ==
  ASSUME NEW p \in Plane, NEW a \in Plane, NEW b \in Plane, NEW c \in Plane, NEW u \in Plane, InTriangle(p, a, b, c)
  PROVE  Dot(u, p) <= Dot(u, a) \/ Dot(u, p) <= Dot(u, b) \/ Dot(u, p) <= Dot(u, c)
<1> DEFINE a1 == a[1] - p[1]
           a2 == a[2] - p[2]
           b1 == b[1] - p[1]
           b2 == b[2] - p[2]
           c1 == c[1] - p[1]
           c2 == c[2] - p[2]
           u1 == u[1]
           u2 == u[2]
           ab == a1 * b2 - a2 * b1
           bc == b1 * c2 - b2 * c1
           ca == c1 * a2 - c2 * a1
           x == u1 * a1 + u2 * a2
           y == u1 * b1 + u2 * b2
           z == u1 * c1 + u2 * c2
<1>1. a[1] \in Int /\ a[2] \in Int /\ b[1] \in Int /\ b[2] \in Int /\ c[1] \in Int /\ c[2] \in Int
      /\ p[1] \in Int /\ p[2] \in Int /\ u[1] \in Int /\ u[2] \in Int
  BY DEF Plane
<1>2. a1 \in Int /\ a2 \in Int /\ b1 \in Int /\ b2 \in Int /\ c1 \in Int /\ c2 \in Int /\ u1 \in Int /\ u2 \in Int
  BY <1>1
<1>3. /\ Dot(u, a) - Dot(u, p) = x /\ Dot(u, b) - Dot(u, p) = y /\ Dot(u, c) - Dot(u, p) = z
      /\ Dot(u, a) \in Int /\ Dot(u, b) \in Int /\ Dot(u, c) \in Int /\ Dot(u, p) \in Int
  BY <1>1 DEF Dot
<1>4. Cross(p, a, b) = ab /\ Cross(p, b, c) = bc /\ Cross(p, c, a) = ca
  BY DEF Cross
<1>5. /\ (ab >= 0 /\ bc >= 0 /\ ca >= 0) \/ (ab <= 0 /\ bc <= 0 /\ ca <= 0)
      /\ a1 <= 0 \/ b1 <= 0 \/ c1 <= 0
      /\ a1 >= 0 \/ b1 >= 0 \/ c1 >= 0
      /\ a2 <= 0 \/ b2 <= 0 \/ c2 <= 0
      /\ a2 >= 0 \/ b2 >= 0 \/ c2 >= 0
  BY <1>4, InTriangleMeans
<1> HIDE DEF a1, a2, b1, b2, c1, c2, u1, u2
<1>6. bc * a1 + ca * b1 + ab * c1 = 0 /\ bc * a2 + ca * b2 + ab * c2 = 0
  BY <1>2, ThreeVectors
<1>7. ab \in Int /\ bc \in Int /\ ca \in Int /\ x \in Int /\ y \in Int /\ z \in Int
  BY <1>2
<1>8. bc * x + ca * y + ab * z = 0
  <2>1. \A i, j, k \in Int : i * x + j * y + k * z = u1 * (i * a1 + j * b1 + k * c1) + u2 * (i * a2 + j * b2 + k * c2)
    BY <1>2
  <2>2. bc * x + ca * y + ab * z = u1 * (bc * a1 + ca * b1 + ab * c1) + u2 * (bc * a2 + ca * b2 + ab * c2)
    BY <1>7, <2>1
  <2> QED
    BY <1>2, <1>6, <2>2
<1>9. SUFFICES ASSUME x < 0, y < 0, z < 0
               PROVE  FALSE
  <2> HIDE DEF x, y, z
  <2>1. x < 0 /\ y < 0 /\ z < 0 => FALSE
    BY <1>9
  <2> QED
    BY <1>3, <1>7, <2>1
<1>10. bc = 0 /\ ca = 0 /\ ab = 0
  <2> HIDE DEF ab, bc, ca, x, y, z
  <2> QED
    BY <1>5, <1>7, <1>8, <1>9, NoWeights
<1>11. a1 * b2 = a2 * b1 /\ a1 * c2 = a2 * c1
  BY <1>2, <1>10
<1>12. (a1 > 0 => b1 > 0) /\ (a1 < 0 => b1 < 0) /\ (a2 > 0 => b2 > 0) /\ (a2 < 0 => b2 < 0)
  <2>1. a1 \in Int /\ a2 \in Int /\ b1 \in Int /\ b2 \in Int /\ u1 \in Int /\ u2 \in Int
    BY <1>2
  <2>2. a1 * b2 = a2 * b1
    BY <1>11
  <2>3. u1 * a1 + u2 * a2 < 0 /\ u1 * b1 + u2 * b2 < 0
    BY <1>9
  <2> HIDE DEF x, y, z
  <2> QED
    BY <2>1, <2>2, <2>3, SameWay
<1>13. (a1 > 0 => c1 > 0) /\ (a1 < 0 => c1 < 0) /\ (a2 > 0 => c2 > 0) /\ (a2 < 0 => c2 < 0)
  <2>1. a1 \in Int /\ a2 \in Int /\ c1 \in Int /\ c2 \in Int /\ u1 \in Int /\ u2 \in Int
    BY <1>2
  <2>2. a1 * c2 = a2 * c1
    BY <1>11
  <2>3. u1 * a1 + u2 * a2 < 0 /\ u1 * c1 + u2 * c2 < 0
    BY <1>9
  <2> HIDE DEF x, y, z
  <2> QED
    BY <2>1, <2>2, <2>3, SameWay
<1>14. a1 = 0 /\ a2 = 0
  BY <1>2, <1>5, <1>12, <1>13
<1> QED
  BY <1>2, <1>9, <1>14

\* Two vectors on a line that no box around the origin holds point the same way.
LEMMA SameSide ==
  ASSUME NEW a1 \in Int, NEW a2 \in Int, NEW b1 \in Int, NEW b2 \in Int, a1 * b2 - a2 * b1 = 0,
         \/ a1 > 0 /\ b1 > 0
         \/ a1 < 0 /\ b1 < 0
         \/ a2 > 0 /\ b2 > 0
         \/ a2 < 0 /\ b2 < 0
  PROVE  a1 * b1 + a2 * b2 > 0
<1> DEFINE P == a1 * b1
           Q == a2 * b2
           R == a1 * b2
<1>1. P \in Int /\ Q \in Int /\ R \in Int
  OBVIOUS
<1>2. P * Q = R * R
  <2>1. P * Q = (a1 * b2) * (a2 * b1)
    OBVIOUS
  <2>2. a2 * b1 = R
    OBVIOUS
  <2> QED
    BY <2>1, <2>2
<1>3. P > 0 \/ Q > 0
  BY Signs
<1> HIDE DEF P, Q, R
<1>4. R * R >= 0
  BY <1>1, Signs
<1>5. (P > 0 /\ Q > 0) \/ P + Q > 0
  <2>1. CASE P > 0
    <3>1. Q < 0 => P * Q < 0
      BY <1>1, <2>1, Signs
    <3> QED
      BY <1>1, <1>2, <1>4, <2>1, <3>1
  <2>2. CASE Q > 0
    <3>1. P < 0 => P * Q < 0
      BY <1>1, <2>2, Signs
    <3> QED
      BY <1>1, <1>2, <1>4, <2>2, <3>1
  <2> QED
    BY <1>3, <2>1, <2>2
<1>6. P + Q > 0
  BY <1>1, <1>5
<1> QED
  BY <1>6 DEF P, Q

\* Of three vectors that turn one way, not all lie on one side.
LEMMA AroundTheOrigin ==
  ASSUME NEW r \in Int, NEW s \in Int, NEW t \in Int, NEW x \in Int, NEW y \in Int, NEW z \in Int,
         r > 0, s > 0, t >= 0, r * x + s * y + t * z = 0
  PROVE  /\ x <= 0 \/ y <= 0 \/ z <= 0
         /\ x >= 0 \/ y >= 0 \/ z >= 0
<1>1. x < 0 /\ y < 0 /\ z < 0 => FALSE
  BY NoWeights
<1>2. x > 0 /\ y > 0 /\ z > 0 => FALSE
  <2> SUFFICES ASSUME x > 0, y > 0, z > 0
               PROVE  FALSE
    OBVIOUS
  <2> DEFINE a == r * x
             b == s * y
             c == t * z
  <2>1. a \in Int /\ b \in Int /\ c \in Int /\ a + b + c = 0
    OBVIOUS
  <2>2. a > 0 /\ b > 0 /\ c >= 0
    BY Signs
  <2> HIDE DEF a, b, c
  <2> QED
    BY <2>1, <2>2
<1> QED
  BY <1>1, <1>2

\* Three vectors that turn one way around a point have it in their triangle.
LEMMA TurningAround ==
  ASSUME NEW p \in Plane, NEW a \in Plane, NEW b \in Plane, NEW x \in Plane,
         Cross(p, a, b) >= 0, Cross(p, b, x) > 0, Cross(p, x, a) > 0
  PROVE  InTriangle(p, a, b, x)
<1> DEFINE a1 == a[1] - p[1]
           a2 == a[2] - p[2]
           b1 == b[1] - p[1]
           b2 == b[2] - p[2]
           x1 == x[1] - p[1]
           x2 == x[2] - p[2]
           ab == a1 * b2 - a2 * b1
           bx == b1 * x2 - b2 * x1
           xa == x1 * a2 - x2 * a1
<1>1. a1 \in Int /\ a2 \in Int /\ b1 \in Int /\ b2 \in Int /\ x1 \in Int /\ x2 \in Int
  BY DEF Plane
<1>2. Cross(p, a, b) = ab /\ Cross(p, b, x) = bx /\ Cross(p, x, a) = xa
  BY DEF Cross
<1> HIDE DEF a1, a2, b1, b2, x1, x2
<1>3. bx * a1 + xa * b1 + ab * x1 = 0 /\ bx * a2 + xa * b2 + ab * x2 = 0
  BY <1>1, ThreeVectors
<1>4. ab \in Int /\ bx \in Int /\ xa \in Int
  BY <1>1
<1> HIDE DEF ab, bx, xa
<1>5. bx > 0 /\ xa > 0 /\ ab >= 0
  BY <1>2
<1>6. (a1 <= 0 \/ b1 <= 0 \/ x1 <= 0) /\ (a1 >= 0 \/ b1 >= 0 \/ x1 >= 0)
  BY <1>1, <1>3, <1>4, <1>5, AroundTheOrigin
<1>7. (a2 <= 0 \/ b2 <= 0 \/ x2 <= 0) /\ (a2 >= 0 \/ b2 >= 0 \/ x2 >= 0)
  BY <1>1, <1>3, <1>4, <1>5, AroundTheOrigin
<1>8. Cross(p, a, b) >= 0 /\ Cross(p, b, x) >= 0 /\ Cross(p, x, a) >= 0
  BY <1>2, <1>4, <1>5
<1> QED
  BY <1>6, <1>7, <1>8, InTriangleMeans DEF a1, a2, b1, b2, x1, x2

\* Seen from a point outside their hull, one point of a finite set is to the right
\* of all.
LEMMA Rightmost ==
  ASSUME NEW p \in Plane, NEW S \in SUBSET Plane, IsFiniteSet(S), S # {}, ~InHull(p, S)
  PROVE  \E a \in S : \A b \in S : Cross(p, a, b) >= 0
<1> DEFINE C == {T \in SUBSET S : T # {} => \E a \in T : \A b \in T : Cross(p, a, b) >= 0}
<1>1. {} \in C
  OBVIOUS
<1>2. ASSUME NEW T \in SUBSET S, NEW x \in S, T \in C, x \notin T
      PROVE  T \cup {x} \in C
  <2>1. x \in Plane /\ Cross(p, x, x) = 0
    <3>1. x \in Plane
      OBVIOUS
    <3>2. x[1] \in Int /\ x[2] \in Int /\ p[1] \in Int /\ p[2] \in Int
      BY <3>1 DEF Plane
    <3> QED
      BY <3>1, <3>2 DEF Cross
  <2>2. CASE T = {}
    <3>1. \A b \in T \cup {x} : Cross(p, x, b) >= 0
      BY <2>1, <2>2
    <3> QED
      BY <3>1
  <2>3. CASE T # {}
    <3>1. PICK a \in T : \A b \in T : Cross(p, a, b) >= 0
      BY <1>2, <2>3
    <3>2. a \in Plane /\ Cross(p, a, x) \in Int /\ Cross(p, x, a) = - Cross(p, a, x)
      BY <2>1, SameTurn
    <3>3. CASE Cross(p, a, x) >= 0
      <4>1. \A b \in T \cup {x} : Cross(p, a, b) >= 0
        BY <3>1, <3>3
      <4> QED
        BY <3>1, <4>1
    <3>4. CASE ~ (Cross(p, a, x) >= 0)
      <4>1. Cross(p, x, a) > 0
        BY <3>2, <3>4
      <4>2. ASSUME NEW b \in T
            PROVE  Cross(p, x, b) >= 0
        <5>1. b \in Plane /\ b \in S /\ a \in S
          OBVIOUS
        <5>2. Cross(p, b, x) \in Int /\ Cross(p, x, b) = - Cross(p, b, x)
          BY <2>1, <5>1, SameTurn
        <5>3. ~ (Cross(p, b, x) > 0)
          <6>1. ~InTriangle(p, a, b, x)
            BY <5>1 DEF InHull
          <6> QED
            BY <2>1, <3>1, <3>2, <4>1, <5>1, <6>1, TurningAround
        <5> QED
          BY <5>2, <5>3
      <4>3. \A b \in T \cup {x} : Cross(p, x, b) >= 0
        BY <2>1, <4>2
      <4> QED
        BY <4>3
    <3> QED
      BY <3>3, <3>4
  <2> QED
    BY <2>2, <2>3
<1>3. \A T \in SUBSET S : \A x \in S : T \in C /\ x \notin T => T \cup {x} \in C
  BY <1>2
<1> HIDE DEF C
<1>4. S \in C
  BY <1>1, <1>3, FiniteInduction
<1> QED
  BY <1>4 DEF C

\* What lies within reach of a finite set of numbers.
LEMMA FiniteReach ==
  ASSUME NEW T \in SUBSET Int, IsFiniteSet(T)
  PROVE  \E n \in Nat : n > 0 /\ \A t \in T : t < n /\ - t < n
<1>1. CASE T = {}
  BY <1>1
<1>2. CASE T # {}
  <2>1. Max(T) \in T /\ \A y \in T : y <= Max(T)
    BY <1>2, MaxOfFinite
  <2>2. Min(T) \in T /\ \A y \in T : Min(T) <= y
    BY <1>2, MinOfFinite
  <2> DEFINE hi == Max(T)
             lo == Min(T)
             n == (IF hi >= 0 THEN hi ELSE - hi) + (IF lo >= 0 THEN lo ELSE - lo) + 1
  <2>3. hi \in Int /\ lo \in Int
    BY <2>1, <2>2
  <2>4. \A t \in T : lo <= t /\ t <= hi
    BY <2>1, <2>2
  <2> HIDE DEF hi, lo
  <2>5. n \in Nat /\ n > 0
    BY <2>3
  <2>6. ASSUME NEW t \in T
        PROVE  t < n /\ - t < n
    <3>1. t \in Int /\ lo <= t /\ t <= hi
      BY <2>4
    <3> QED
      BY <2>3, <3>1
  <2> HIDE DEF n
  <2> QED
    BY <2>5, <2>6
<1> QED
  BY <1>1, <1>2

\* The products of a direction with a finite set of points.
LEMMA FiniteDots ==
  ASSUME NEW S \in SUBSET Plane, IsFiniteSet(S), NEW u \in Plane
  PROVE  {Dot(u, s) : s \in S} \in SUBSET Int /\ IsFiniteSet({Dot(u, s) : s \in S})
<1> DEFINE f == [s \in S |-> Dot(u, s)]
<1>1. IsFiniteSet({f[s] : s \in S})
  BY FiniteImage
<1>2. {f[s] : s \in S} = {Dot(u, s) : s \in S}
  OBVIOUS
<1>3. \A s \in S : Dot(u, s) \in Int
  <2>1. ASSUME NEW s \in S
        PROVE  Dot(u, s) \in Int
    <3>1. s \in Plane
      OBVIOUS
    <3>2. s[1] \in Int /\ s[2] \in Int /\ u[1] \in Int /\ u[2] \in Int
      BY <3>1 DEF Plane
    <3> QED
      BY <3>2 DEF Dot
  <2> QED
    BY <2>1
<1> QED
  BY <1>1, <1>2, <1>3

\* A large multiple of a whole number decides a sum.
LEMMA Decides ==
  ASSUME NEW n \in Int, NEW t \in Int, NEW d \in Int, n > 0, - d < n, t >= 0, t = 0 => d > 0
  PROVE  n * t + d > 0
<1> DEFINE m == n * t
<1>1. m \in Int /\ (t = 0 => m = 0) /\ (t = 1 => m = n)
  OBVIOUS
<1>2. t > 1 => n * (t - 1) > 0
  <2> SUFFICES ASSUME t > 1
               PROVE  n * (t - 1) > 0
    OBVIOUS
  <2> DEFINE v == t - 1
  <2>1. v \in Int /\ v > 0
    OBVIOUS
  <2> HIDE DEF v
  <2>2. n * v > 0
    BY <2>1, Signs
  <2> QED
    BY <2>2 DEF v
<1>3. n * (t - 1) = m - n
  OBVIOUS
<1>4. t > 1 => m > n
  BY <1>1, <1>2, <1>3
<1> HIDE DEF m
<1>5. m + d > 0
  BY <1>1, <1>4
<1> QED
  BY <1>5 DEF m

\* How far a point is along a direction tilted by a multiple.
LEMMA Tilted ==
  ASSUME NEW n \in Int, NEW p \in Plane, NEW a \in Plane, NEW s \in Plane, NEW u \in Plane,
         u[1] = n * (a[2] - p[2]) - (a[1] - p[1]), u[2] = 0 - n * (a[1] - p[1]) - (a[2] - p[2])
  PROVE  Dot(u, p) - Dot(u, s) =
           n * ((a[1] - p[1]) * (s[2] - p[2]) - (a[2] - p[2]) * (s[1] - p[1]))
             + ((a[1] - p[1]) * (s[1] - p[1]) + (a[2] - p[2]) * (s[2] - p[2]))
<1>1. p[1] \in Int /\ p[2] \in Int /\ a[1] \in Int /\ a[2] \in Int /\ s[1] \in Int /\ s[2] \in Int
      /\ u[1] \in Int /\ u[2] \in Int
  BY DEF Plane
<1>2. Dot(u, p) - Dot(u, s) = u[1] * (p[1] - s[1]) + u[2] * (p[2] - s[2])
  BY <1>1 DEF Dot
<1> QED
  BY <1>1, <1>2

\* A point outside the hull of a finite set is beyond all of it in some direction.
LEMMA Separation ==
  ASSUME NEW p \in Plane, NEW S \in SUBSET Plane, IsFiniteSet(S), S # {}, Supported(p, S)
  PROVE  InHull(p, S)
<1> SUFFICES ASSUME ~InHull(p, S)
             PROVE  FALSE
  OBVIOUS
<1>1. PICK a \in S : \A b \in S : Cross(p, a, b) >= 0
  BY Rightmost
<1> DEFINE a1 == a[1] - p[1]
           a2 == a[2] - p[2]
           w == <<a1, a2>>
<1>2. a \in Plane /\ p[1] \in Int /\ p[2] \in Int /\ a[1] \in Int /\ a[2] \in Int
  BY DEF Plane
<1>3. w \in Plane /\ a1 \in Int /\ a2 \in Int /\ w[1] = a1 /\ w[2] = a2
  BY <1>2 DEF Plane
<1>4. {Dot(w, s) : s \in S} \in SUBSET Int /\ IsFiniteSet({Dot(w, s) : s \in S})
  BY <1>3, FiniteDots
<1>5. Dot(w, p) \in Int
  BY <1>2, <1>3 DEF Dot
<1>6. PICK n0 \in Nat : n0 > 0 /\ \A t \in {Dot(w, s) : s \in S} : t < n0 /\ - t < n0
  BY <1>4, FiniteReach
<1> DEFINE n == n0 + (IF Dot(w, p) >= 0 THEN Dot(w, p) ELSE - Dot(w, p))
           u == <<n * a2 - a1, 0 - n * a1 - a2>>
<1>7. n \in Int /\ n > 0
  BY <1>5, <1>6
<1>8. \A s \in S : - (Dot(w, s) - Dot(w, p)) < n
  <2>1. ASSUME NEW s \in S
        PROVE  - (Dot(w, s) - Dot(w, p)) < n
    <3>1. Dot(w, s) \in Int /\ - Dot(w, s) < n0
      BY <1>4, <1>6
    <3> QED
      BY <1>5, <3>1
  <2> QED
    BY <2>1
<1> HIDE DEF n
<1>9. u \in Plane /\ u[1] = n * a2 - a1 /\ u[2] = 0 - n * a1 - a2
  BY <1>3, <1>7 DEF Plane
<1>10. PICK s \in S : Dot(u, p) <= Dot(u, s)
  BY <1>9 DEF Supported
<1> DEFINE s1 == s[1] - p[1]
           s2 == s[2] - p[2]
           t == a1 * s2 - a2 * s1
           d == a1 * s1 + a2 * s2
<1>11. s \in Plane /\ s[1] \in Int /\ s[2] \in Int /\ s1 \in Int /\ s2 \in Int
  <2>1. s \in Plane
    OBVIOUS
  <2> QED
    BY <1>2, <2>1 DEF Plane
<1>12. Cross(p, a, s) = t
  BY DEF Cross
<1>13. Dot(w, s) - Dot(w, p) = d
  BY <1>2, <1>3, <1>11 DEF Dot
<1>14. Dot(u, p) - Dot(u, s) = n * t + d
  <2> HIDE DEF u
  <2>1. s \in Plane /\ n \in Int /\ a \in Plane /\ u \in Plane
    BY <1>2, <1>7, <1>9, <1>11
  <2>2. u[1] = n * (a[2] - p[2]) - (a[1] - p[1]) /\ u[2] = 0 - n * (a[1] - p[1]) - (a[2] - p[2])
    BY <1>9
  <2> QED
    BY <2>1, <2>2, Tilted
<1>15. t \in Int /\ d \in Int /\ t >= 0
  <2>1. t \in Int /\ d \in Int
    <3> HIDE DEF a1, a2, s1, s2
    <3> QED
      BY <1>3, <1>11
  <2>2. t >= 0
    BY <1>1, <1>12
  <2> QED
    BY <2>1, <2>2
<1>16. - d < n
  <2> HIDE DEF d
  <2> QED
    BY <1>8, <1>13
<1>17. t = 0 => d > 0
  <2>0. SUFFICES ASSUME t = 0
                 PROVE  d > 0
    OBVIOUS
  <2>1. ~InTriangle(p, a, s, s)
    BY DEF InHull
  <2>2. Cross(p, a, s) >= 0 /\ Cross(p, s, a) >= 0 /\ Cross(p, s, s) >= 0
    <3>1. Cross(p, s, a) = - Cross(p, a, s) /\ Cross(p, a, s) \in Int
      BY <1>2, <1>11, SameTurn
    <3>2. Cross(p, s, s) = 0
      BY <1>2, <1>11 DEF Cross
    <3>3. Cross(p, a, s) >= 0 /\ Cross(p, a, s) <= 0
      BY <1>12, <2>0
    <3> QED
      BY <3>1, <3>2, <3>3
  <2>3. ~ (/\ a1 <= 0 \/ s1 <= 0 \/ s1 <= 0
           /\ a1 >= 0 \/ s1 >= 0 \/ s1 >= 0
           /\ a2 <= 0 \/ s2 <= 0 \/ s2 <= 0
           /\ a2 >= 0 \/ s2 >= 0 \/ s2 >= 0)
    <3>1. Cross(p, a, s) >= 0 /\ Cross(p, s, s) >= 0 /\ Cross(p, s, a) >= 0
      BY <2>2
    <3> QED
      BY <1>2, <1>11, <2>1, <3>1, InTriangleMeans
  <2> HIDE DEF a1, a2, s1, s2
  <2>4. \/ a1 > 0 /\ s1 > 0
        \/ a1 < 0 /\ s1 < 0
        \/ a2 > 0 /\ s2 > 0
        \/ a2 < 0 /\ s2 < 0
    BY <1>3, <1>11, <2>3
  <2> QED
    BY <1>3, <1>11, <2>0, <2>4, SameSide
<1>18. n * t + d > 0
  <2> HIDE DEF t, d
  <2> QED
    BY <1>7, <1>15, <1>16, <1>17, Decides
<1>19. n * t + d \in Int /\ Dot(u, s) \in Int /\ Dot(u, p) \in Int
  <2>1. n * t + d \in Int
    BY <1>7, <1>15
  <2>2. Dot(u, s) \in Int /\ Dot(u, p) \in Int
    <3>1. u[1] \in Int /\ u[2] \in Int
      BY <1>9 DEF Plane
    <3> QED
      BY <1>2, <1>11, <3>1 DEF Dot
  <2> QED
    BY <2>1, <2>2
<1> DEFINE k == n * t + d
           x == Dot(u, s)
           y == Dot(u, p)
<1>20. k \in Int /\ k > 0 /\ x \in Int /\ y \in Int /\ y - x = k /\ y <= x
  BY <1>10, <1>14, <1>18, <1>19
<1> HIDE DEF k, x, y
<1> QED
  BY <1>20

\* A vector without a part along another or across it is none.
LEMMA NoTurnNoWay ==
  ASSUME NEW u1 \in Int, NEW u2 \in Int, NEW x \in Int, NEW y \in Int, u1 # 0 \/ u2 # 0,
         u1 * x + u2 * y = 0, u1 * y - u2 * x = 0
  PROVE  x = 0 /\ y = 0
<1> DEFINE q == u1 * u1 + u2 * u2
<1>1. q \in Int /\ q * x = 0 /\ q * y = 0
  <2>1. q * x = u1 * (u1 * x + u2 * y) - u2 * (u1 * y - u2 * x)
    OBVIOUS
  <2>2. q * y = u2 * (u1 * x + u2 * y) + u1 * (u1 * y - u2 * x)
    OBVIOUS
  <2>3. u1 * (u1 * x + u2 * y) = 0 /\ u2 * (u1 * y - u2 * x) = 0
        /\ u2 * (u1 * x + u2 * y) = 0 /\ u1 * (u1 * y - u2 * x) = 0
    OBVIOUS
  <2>4. q \in Int
    OBVIOUS
  <2> HIDE DEF q
  <2> QED
    BY <2>1, <2>2, <2>3, <2>4
<1>2. q > 0
  <2> DEFINE a == u1 * u1
             b == u2 * u2
  <2>1. a \in Int /\ b \in Int /\ a >= 0 /\ b >= 0
    BY Signs
  <2>2. a > 0 \/ b > 0
    <3>1. u1 > 0 \/ u1 < 0 \/ u2 > 0 \/ u2 < 0
      OBVIOUS
    <3> QED
      BY <3>1, Signs
  <2> HIDE DEF a, b
  <2>3. a + b > 0
    BY <2>1, <2>2
  <2> QED
    BY <2>3 DEF a, b
<1> HIDE DEF q
<1>3. (x > 0 => q * x > 0) /\ (x < 0 => q * x < 0) /\ (y > 0 => q * y > 0) /\ (y < 0 => q * y < 0)
  <2>1. \A z \in Int : (z > 0 => q * z > 0) /\ (z < 0 => 0 - q * z > 0)
    <3>1. ASSUME NEW z \in Int
          PROVE  (z > 0 => q * z > 0) /\ (z < 0 => 0 - q * z > 0)
      <4>1. z > 0 => q * z > 0
        BY <1>1, <1>2, Signs
      <4>2. z < 0 => z * q < 0
        BY <1>1, <1>2, Signs
      <4>3. z * q = q * z /\ q * z \in Int
        BY <1>1
      <4> QED
        BY <4>1, <4>2, <4>3
    <3> QED
      BY <3>1
  <2> QED
    BY <1>1, <2>1
<1> QED
  BY <1>1, <1>3

\* Dots are whole.
LEMMA DotIsWhole ==
  ASSUME NEW u \in Plane, NEW p \in Plane
  PROVE  Dot(u, p) \in Int
<1>1. u[1] \in Int /\ u[2] \in Int /\ p[1] \in Int /\ p[2] \in Int
  BY DEF Plane
<1> QED
  BY <1>1 DEF Dot

\* What supports the points that support p supports p.
LEMMA SupportedThrough ==
  ASSUME NEW p \in Plane, NEW S \in SUBSET Plane, NEW T \in SUBSET Plane,
         Supported(p, S), \A s \in S : Supported(s, T)
  PROVE  Supported(p, T)
<1> SUFFICES ASSUME NEW u \in Plane
             PROVE  \E t \in T : Dot(u, p) <= Dot(u, t)
  BY DEF Supported
<1>1. PICK s \in S : Dot(u, p) <= Dot(u, s)
  BY DEF Supported
<1>2. PICK t \in T : Dot(u, s) <= Dot(u, t)
  BY DEF Supported
<1>3. s \in Plane /\ t \in Plane
  OBVIOUS
<1>4. Dot(u, p) \in Int /\ Dot(u, s) \in Int /\ Dot(u, t) \in Int
  BY <1>3, DotIsWhole
<1>5. Dot(u, p) <= Dot(u, t)
  BY <1>1, <1>2, <1>4
<1> QED
  BY <1>5

\* A point supports itself, among others.
LEMMA SupportsItself ==
  ASSUME NEW S \in SUBSET Plane, NEW p \in S
  PROVE  Supported(p, S)
<1>1. \A u \in Plane : Dot(u, p) <= Dot(u, p)
  <2>1. \A u \in Plane : Dot(u, p) \in Int
    BY DotIsWhole
  <2>2. \A x \in Int : x <= x
    OBVIOUS
  <2> QED
    BY <2>1, <2>2
<1> QED
  BY <1>1 DEF Supported

\* A finite set has a point beyond which there is none, in every direction but none.
LEMMA ExtremePoint ==
  ASSUME NEW S \in SUBSET Plane, IsFiniteSet(S), S # {}, NEW u \in Plane, u[1] # 0 \/ u[2] # 0
  PROVE  \E e \in S : /\ \A s \in S : Dot(u, s) <= Dot(u, e)
                      /\ ~InHull(e, S \ {e})
<1> DEFINE u1 == u[1]
           u2 == u[2]
           w == <<0 - u2, u1>>
<1>1. u1 \in Int /\ u2 \in Int /\ w \in Plane /\ w[1] = 0 - u2 /\ w[2] = u1
  BY DEF Plane
<1> DEFINE D == {Dot(w, s) : s \in S}
<1>2. D \in SUBSET Int /\ IsFiniteSet(D)
  BY <1>1, FiniteDots
<1>3. PICK m \in Nat : m > 0 /\ \A t \in D : t < m /\ - t < m
  BY <1>2, FiniteReach
<1> DEFINE n == m + m
           v == <<n * u1 + w[1], n * u2 + w[2]>>
           E == {Dot(v, s) : s \in S}
<1>4. n \in Int /\ n > 0 /\ v \in Plane /\ v[1] = n * u1 + w[1] /\ v[2] = n * u2 + w[2]
  BY <1>1, <1>3 DEF Plane
<1>5. E \in SUBSET Int /\ IsFiniteSet(E) /\ E # {}
  BY <1>4, FiniteDots
<1>6. Max(E) \in E /\ \A y \in E : y <= Max(E)
  BY <1>5, MaxOfFinite
<1>7. PICK e \in S : Max(E) = Dot(v, e)
  BY <1>6
<1>8. \A s \in S : Dot(v, s) <= Dot(v, e)
  BY <1>6, <1>7
<1>9. \A s \in S : Dot(w, s) \in Int /\ Dot(w, s) < m /\ - Dot(w, s) < m
  BY <1>2, <1>3
<1> HIDE DEF n, v, w, E, D, u1, u2
<1>10. \A s \in S : Dot(v, s) = n * Dot(u, s) + Dot(w, s)
  <2>1. ASSUME NEW s \in S
        PROVE  Dot(v, s) = n * Dot(u, s) + Dot(w, s)
    <3>1. s \in Plane
      OBVIOUS
    <3>2. s[1] \in Int /\ s[2] \in Int /\ w[1] \in Int /\ w[2] \in Int
      BY <1>1, <3>1 DEF Plane
    <3>3. Dot(v, s) = (n * u1 + w[1]) * s[1] + (n * u2 + w[2]) * s[2]
      BY <1>4 DEF Dot
    <3>4. Dot(u, s) = u1 * s[1] + u2 * s[2] /\ Dot(w, s) = w[1] * s[1] + w[2] * s[2]
      BY DEF Dot, u1, u2
    <3> QED
      BY <1>1, <1>4, <3>2, <3>3, <3>4
  <2> QED
    BY <2>1
<1>11. ASSUME NEW s \in S
       PROVE  /\ Dot(u, s) <= Dot(u, e)
              /\ s # e => ~ (Dot(v, e) <= Dot(v, s))
  <2>1. s \in Plane /\ e \in Plane
    OBVIOUS
  <2>2. Dot(u, s) \in Int /\ Dot(u, e) \in Int /\ Dot(w, s) \in Int /\ Dot(w, e) \in Int
    BY <1>1, <2>1, DotIsWhole
  <2>3. Dot(v, e) = n * Dot(u, e) + Dot(w, e) /\ Dot(v, s) = n * Dot(u, s) + Dot(w, s)
    BY <1>10
  <2> DEFINE t == Dot(u, e) - Dot(u, s)
             d == Dot(w, e) - Dot(w, s)
  <2>4. t \in Int /\ d \in Int
    BY <2>2
  <2>5. d < n /\ - d < n
    <3>1. Dot(w, e) < m /\ - Dot(w, e) < m /\ Dot(w, s) < m /\ - Dot(w, s) < m
      BY <1>9
    <3> QED
      BY <1>3, <2>2, <3>1 DEF n
  <2>6. Dot(v, e) - Dot(v, s) = n * t + d
    BY <1>4, <2>2, <2>3
  <2>7. Dot(v, e) \in Int /\ Dot(v, s) \in Int /\ Dot(v, s) <= Dot(v, e)
    BY <1>4, <1>8, <2>1, DotIsWhole
  <2> DEFINE a == Dot(v, e)
             b == Dot(v, s)
             k == n * t + d
  <2>8. k \in Int
    BY <1>4, <2>4
  <2>9. a \in Int /\ b \in Int /\ a - b = k /\ b <= a
    BY <2>6, <2>7
  <2>10. k >= 0
    <3> HIDE DEF a, b, k
    <3> QED
      BY <2>8, <2>9
  <2>11. t >= 0
    <3> SUFFICES ASSUME t < 0
                 PROVE  FALSE
      <4> HIDE DEF t
      <4> QED
        BY <2>4
    <3> DEFINE t0 == 0 - t
               d0 == 0 - d
    <3>1. t0 \in Int /\ d0 \in Int /\ t0 > 0 /\ - d0 < n
      <4> HIDE DEF t, d
      <4> QED
        BY <2>4, <2>5
    <3>2. n * t0 + d0 = 0 - k
      <4> HIDE DEF t, d
      <4> QED
        BY <1>4, <2>4
    <3>3. n * t0 + d0 > 0
      <4> HIDE DEF t0, d0
      <4> QED
        BY <1>4, <3>1, Decides
    <3> HIDE DEF k
    <3> QED
      BY <2>8, <2>10, <3>2, <3>3
  <2>12. Dot(u, s) <= Dot(u, e)
    BY <2>2, <2>11
  <2>13. ASSUME s # e, a <= b
         PROVE  FALSE
    <3>1. k = 0
      <4> HIDE DEF a, b, k
      <4> QED
        BY <2>8, <2>9, <2>13
    <3>2. t = 0
      <4>1. t > 0 => n * t + d > 0
        <5> HIDE DEF t, d
        <5> QED
          BY <1>4, <2>4, <2>5, Decides
      <4> HIDE DEF t, d
      <4> QED
        BY <2>4, <2>11, <3>1, <4>1
    <3>3. d = 0
      <4> HIDE DEF t, d
      <4> QED
        BY <1>4, <2>4, <3>1, <3>2
    <3> DEFINE x == e[1] - s[1]
               y == e[2] - s[2]
    <3>4. e[1] \in Int /\ e[2] \in Int /\ s[1] \in Int /\ s[2] \in Int
      BY <2>1 DEF Plane
    <3>5. t = u1 * x + u2 * y /\ d = u1 * y - u2 * x
      <4>1. Dot(u, e) = u1 * e[1] + u2 * e[2] /\ Dot(u, s) = u1 * s[1] + u2 * s[2]
        BY DEF Dot, u1, u2
      <4>2. Dot(w, e) = (0 - u2) * e[1] + u1 * e[2] /\ Dot(w, s) = (0 - u2) * s[1] + u1 * s[2]
        BY <1>1 DEF Dot
      <4> QED
        BY <1>1, <3>4, <4>1, <4>2
    <3>6. x = 0 /\ y = 0
      <4> x \in Int /\ y \in Int
        BY <3>4
      <4> HIDE DEF x, y, t, d
      <4> QED
        BY <1>1, <3>2, <3>3, <3>5, NoTurnNoWay DEF u1, u2
    <3>7. e[1] = s[1] /\ e[2] = s[2]
      BY <3>4, <3>6
    <3> QED
      BY <2>1, <2>13, <3>7 DEF Plane
  <2> QED
    BY <2>12, <2>13
<1>12. ~InHull(e, S \ {e})
  <2> SUFFICES ASSUME NEW a \in S \ {e}, NEW b \in S \ {e}, NEW c \in S \ {e}, InTriangle(e, a, b, c)
               PROVE  FALSE
    BY DEF InHull
  <2>1. a \in Plane /\ b \in Plane /\ c \in Plane /\ e \in Plane
    OBVIOUS
  <2>2. Dot(v, e) <= Dot(v, a) \/ Dot(v, e) <= Dot(v, b) \/ Dot(v, e) <= Dot(v, c)
    BY <1>4, <2>1, TriangleSupports
  <2>3. a \in S /\ b \in S /\ c \in S /\ a # e /\ b # e /\ c # e
    OBVIOUS
  <2> QED
    BY <1>11, <2>2, <2>3
<1> QED
  BY <1>11, <1>12

\* A finite set is supported by its convex hull.
LEMMA HullSupports ==
  ASSUME NEW S \in SUBSET Plane, IsFiniteSet(S), NEW p \in S
  PROVE  ConvexHull(S) \subseteq S /\ Supported(p, ConvexHull(S))
<1>1. ConvexHull(S) \subseteq S
  BY DEF ConvexHull
<1>2. CASE Cardinality(S) <= 2
  BY <1>2, SupportsItself DEF ConvexHull
<1>3. CASE ~ (Cardinality(S) <= 2)
  <2>1. ASSUME NEW u \in Plane
        PROVE  \E e \in ConvexHull(S) : Dot(u, p) <= Dot(u, e)
    <3>1. CASE u[1] # 0 \/ u[2] # 0
      <4>1. PICK e \in S : /\ \A s \in S : Dot(u, s) <= Dot(u, e)
                           /\ ~InHull(e, S \ {e})
        BY <3>1, ExtremePoint, Zenon
      <4>2. e \in ConvexHull(S)
        BY <1>3, <4>1 DEF ConvexHull
      <4> QED
        BY <4>1, <4>2
    <3>2. CASE u[1] = 0 /\ u[2] = 0
      <4>1. <<1, 0>> \in Plane /\ <<1, 0>>[1] # 0
        BY DEF Plane
      <4>2. PICK e \in S : ~InHull(e, S \ {e})
        BY <4>1, ExtremePoint
      <4>3. e \in ConvexHull(S)
        BY <1>3, <4>2 DEF ConvexHull
      <4>4. p \in Plane /\ e \in Plane
        OBVIOUS
      <4>5. Dot(u, p) <= Dot(u, e)
        BY <3>2, <4>4 DEF Dot, Plane
      <4> QED
        BY <4>3, <4>5
    <3> QED
      BY <3>1, <3>2
  <2> QED
    BY <1>1, <2>1 DEF Supported
<1> QED
  BY <1>2, <1>3
=============================================================================
