--------------------------- MODULE FactCacheProofs ---------------------------
(***************************************************************************)
(* Proofs about FactCache for every set of threads and datasets, every     *)
(* capacity and every number of versions.  The inductive invariant is the  *)
(* conjunction of four layers, each proved from the ones before it:        *)
(*   TypeInv     types, the LRU order, and what a leader has loaded        *)
(*   FlightInv   who leads, who is registered, whom followers wait for     *)
(*   VersionInv  how returned, cached, loaded and source versions compare  *)
(*   ErrorInv    which calls a recorded error can still reach              *)
(***************************************************************************)
EXTENDS FactCache, TLAPS, SequenceTheorems

-----------------------------------------------------------------------------
(* What removing and re-appending an element does to a sequence without    *)
(* duplicates: the facts the LRU order rests on.                           *)

(* In a sequence without duplicates the first occurrence is the only one.  *)
LEMMA FirstIsOnly ==
  ASSUME NEW S, NEW s \in Seq(S), IsInjective(s), NEW i \in 1 .. Len(s)
  PROVE  RemoveFirst(s, s[i]) = RemoveAt(s, i)
<1> DEFINE I == {j \in 1 .. Len(s) : s[j] = s[i]}
<1>1. I = {i}
  BY DEF IsInjective
<1>2. Min(I) = i
  BY <1>1 DEF Min
<1>3. SelectInSeq(s, LAMBDA v : v = s[i]) = i
  BY <1>1, <1>2 DEF SelectInSeq
<1>. QED
  BY <1>3 DEF RemoveFirst

(* Removing position i shifts the later elements down by one.              *)
LEMMA RemoveAtProperties ==
  ASSUME NEW S, NEW s \in Seq(S), NEW i \in 1 .. Len(s)
  PROVE  /\ RemoveAt(s, i) \in Seq(S)
         /\ Len(RemoveAt(s, i)) = Len(s) - 1
         /\ \A j \in 1 .. Len(s) - 1 :
              RemoveAt(s, i)[j] = IF j < i THEN s[j] ELSE s[j + 1]
<1>. DEFINE a == SubSeq(s, 1, i - 1)
            b == SubSeq(s, i + 1, Len(s))
            r == RemoveAt(s, i)
<1>1. Len(s) \in Nat /\ i \in Int /\ 1 <= i /\ i <= Len(s)
  OBVIOUS
<1>2. a \in Seq(S) /\ Len(a) = i - 1 /\ \A j \in 1 .. i - 1 : a[j] = s[j]
  <2>1. \A j \in 1 .. i - 1 : s[j] \in S
    BY <1>1
  <2>. QED
    BY <1>1, <2>1, SubSeqProperties
<1>3. /\ b \in Seq(S) /\ Len(b) = Len(s) - i
      /\ \A j \in 1 .. Len(s) - i : b[j] = s[i + j]
  <2>1. \A j \in i + 1 .. Len(s) : s[j] \in S
    BY <1>1
  <2>2. /\ b \in Seq(S)
        /\ Len(b) = IF i + 1 <= Len(s) THEN Len(s) - (i + 1) + 1 ELSE 0
        /\ \A j \in 1 .. Len(s) - (i + 1) + 1 : b[j] = s[i + 1 + j - 1]
    BY <1>1, <2>1, SubSeqProperties
  <2>. QED
    BY <1>1, <2>2
<1>4. r = a \o b
  BY DEF RemoveAt
<1>. HIDE DEF a, b, r
<1>5. /\ r \in Seq(S)
      /\ Len(r) = Len(a) + Len(b)
      /\ \A j \in 1 .. Len(a) + Len(b) :
           r[j] = IF j <= Len(a) THEN a[j] ELSE b[j - Len(a)]
  BY <1>2, <1>3, <1>4, ConcatProperties
<1>6. ASSUME NEW j \in 1 .. Len(s) - 1
      PROVE  r[j] = IF j < i THEN s[j] ELSE s[j + 1]
  <2>1. r[j] = IF j <= i - 1 THEN a[j] ELSE b[j - (i - 1)]
    <3>1. Len(a) = i - 1 /\ Len(a) + Len(b) = Len(s) - 1
      BY <1>1, <1>2, <1>3
    <3>. QED
      BY <1>5, <3>1
  <2>2. CASE j < i
    <3>1. j \in 1 .. i - 1
      BY <1>1, <2>2
    <3>. QED
      BY <1>2, <2>1, <2>2, <3>1
  <2>3. CASE ~(j < i)
    <3>1. j - (i - 1) \in 1 .. Len(s) - i /\ i + (j - (i - 1)) = j + 1 /\ ~(j <= i - 1)
      BY <1>1, <2>3
    <3>2. b[j - (i - 1)] = s[i + (j - (i - 1))]
      BY <1>3, <3>1
    <3>. QED
      BY <2>1, <2>3, <3>1, <3>2
  <2>. QED
    BY <2>2, <2>3
<1>7. r \in Seq(S) /\ Len(r) = Len(s) - 1
  BY <1>1, <1>2, <1>3, <1>5
<1>. QED
  BY <1>6, <1>7 DEF r

(* Removing a key: the order loses that key and nothing else.              *)
LEMMA RemoveFirstProperties ==
  ASSUME NEW S, NEW s \in Seq(S), IsInjective(s), NEW k
  PROVE  /\ RemoveFirst(s, k) \in Seq(S)
         /\ IsInjective(RemoveFirst(s, k))
         /\ ToSet(RemoveFirst(s, k)) = ToSet(s) \ {k}
         /\ Len(RemoveFirst(s, k)) = IF k \in ToSet(s) THEN Len(s) - 1 ELSE Len(s)
<1>1. CASE k \notin ToSet(s)
  <2>1. RemoveFirst(s, k) = s
    BY <1>1 DEF RemoveFirst, ToSet
  <2>. QED
    BY <1>1, <2>1
<1>2. CASE k \in ToSet(s)
  <2>1. PICK i \in 1 .. Len(s) : s[i] = k
    BY <1>2 DEF ToSet
  <2>. DEFINE r == RemoveFirst(s, k)
  <2>2. Len(s) \in Nat /\ i \in Int /\ 1 <= i /\ i <= Len(s)
    OBVIOUS
  <2>3. r = RemoveAt(s, i)
    BY <2>1, FirstIsOnly
  <2>. HIDE DEF r
  <2>4. /\ r \in Seq(S)
        /\ Len(r) = Len(s) - 1
        /\ \A j \in 1 .. Len(s) - 1 : r[j] = IF j < i THEN s[j] ELSE s[j + 1]
    BY <2>3, RemoveAtProperties
  <2>5. \A x, y \in 1 .. Len(s) : s[x] = s[y] => x = y
    BY DEF IsInjective
  <2>6. ASSUME NEW x \in 1 .. Len(s) - 1, NEW y \in 1 .. Len(s) - 1, r[x] = r[y]
        PROVE  x = y
    <3>. DEFINE at(z) == IF z < i THEN z ELSE z + 1
    <3>1. at(x) \in 1 .. Len(s) /\ at(y) \in 1 .. Len(s)
      BY <2>2
    <3>2. r[x] = s[at(x)] /\ r[y] = s[at(y)]
      BY <2>4
    <3>3. at(x) = at(y)
      <4>. HIDE DEF at
      <4>. QED
        BY <2>5, <2>6, <3>1, <3>2
    <3>. QED
      BY <2>2, <3>3
  <2>7. IsInjective(r)
    BY <2>4, <2>6 DEF IsInjective
  <2>8. ASSUME NEW x \in ToSet(s) \ {k} PROVE x \in ToSet(r)
    <3>1. PICK j \in 1 .. Len(s) : s[j] = x
      BY <2>8 DEF ToSet
    <3>2. j # i
      BY <2>1, <2>8, <3>1
    <3>3. CASE j < i
      <4>1. j \in 1 .. Len(s) - 1 /\ r[j] = x
        BY <2>2, <2>4, <3>1, <3>3
      <4>. QED
        BY <2>4, <4>1 DEF ToSet
    <3>4. CASE j > i
      <4>1. j - 1 \in 1 .. Len(s) - 1 /\ ~(j - 1 < i) /\ j - 1 + 1 = j
        BY <2>2, <3>4
      <4>2. r[j - 1] = x
        BY <2>4, <3>1, <4>1
      <4>. QED
        BY <2>4, <4>1, <4>2 DEF ToSet
    <3>. QED
      BY <2>2, <3>2, <3>3, <3>4
  <2>9. ASSUME NEW x \in ToSet(r) PROVE x \in ToSet(s) \ {k}
    <3>1. PICK j \in 1 .. Len(s) - 1 : x = r[j]
      BY <2>4, <2>9 DEF ToSet
    <3>2. PICK m \in 1 .. Len(s) : x = s[m] /\ m # i
      BY <2>2, <2>4, <3>1
    <3>. QED
      BY <2>1, <2>5, <3>2 DEF ToSet
  <2>. QED
    BY <1>2, <2>4, <2>7, <2>8, <2>9 DEF r
<1>. QED
  BY <1>1, <1>2

(* Appending a new element keeps the sequence free of duplicates.          *)
LEMMA AppendNewProperties ==
  ASSUME NEW S, NEW s \in Seq(S), IsInjective(s), NEW k \in S, k \notin ToSet(s)
  PROVE  /\ Append(s, k) \in Seq(S)
         /\ IsInjective(Append(s, k))
         /\ ToSet(Append(s, k)) = ToSet(s) \cup {k}
         /\ Len(Append(s, k)) = Len(s) + 1
<1>. DEFINE t == Append(s, k)
<1>1. /\ t \in Seq(S) /\ Len(t) = Len(s) + 1 /\ t[Len(s) + 1] = k
      /\ \A j \in 1 .. Len(s) : t[j] = s[j]
  OBVIOUS
<1>. HIDE DEF t
<1>2. \A j \in 1 .. Len(s) : s[j] # k
  BY DEF ToSet
<1>3. \A x, y \in 1 .. Len(s) : s[x] = s[y] => x = y
  BY DEF IsInjective
<1>4. Len(s) \in Nat /\ DOMAIN t = 1 .. Len(s) + 1 /\ DOMAIN s = 1 .. Len(s)
  BY <1>1
<1>5. ASSUME NEW x \in 1 .. Len(s) + 1, NEW y \in 1 .. Len(s) + 1, t[x] = t[y]
      PROVE  x = y
  BY <1>1, <1>2, <1>3, <1>4, <1>5
<1>6. IsInjective(t)
  BY <1>4, <1>5 DEF IsInjective
<1>7. ToSet(t) = ToSet(s) \cup {k}
  BY <1>1, <1>4 DEF ToSet
<1>. QED
  BY <1>1, <1>6, <1>7 DEF t

(* Touching or inserting a key: it is last, and present exactly once.      *)
LEMMA MoveToEndProperties ==
  ASSUME NEW S, NEW s \in Seq(S), IsInjective(s), NEW k \in S
  PROVE  LET t == Append(RemoveFirst(s, k), k)
         IN  /\ t \in Seq(S)
             /\ IsInjective(t)
             /\ ToSet(t) = ToSet(s) \cup {k}
             /\ Len(t) = IF k \in ToSet(s) THEN Len(s) ELSE Len(s) + 1
<1>. DEFINE r == RemoveFirst(s, k)
<1>1. /\ r \in Seq(S) /\ IsInjective(r) /\ ToSet(r) = ToSet(s) \ {k}
      /\ Len(r) = IF k \in ToSet(s) THEN Len(s) - 1 ELSE Len(s)
  BY RemoveFirstProperties
<1>. HIDE DEF r
<1>2. /\ Append(r, k) \in Seq(S) /\ IsInjective(Append(r, k))
      /\ ToSet(Append(r, k)) = ToSet(r) \cup {k}
      /\ Len(Append(r, k)) = Len(r) + 1
  BY <1>1, AppendNewProperties
<1>3. (ToSet(s) \ {k}) \cup {k} = ToSet(s) \cup {k} /\ Len(s) \in Nat
  OBVIOUS
<1>. QED
  BY <1>1, <1>2, <1>3 DEF r

(* Dropping the first element, the least recently used key.                *)
LEMMA TailProperties ==
  ASSUME NEW S, NEW s \in Seq(S), IsInjective(s), s # <<>>
  PROVE  /\ Tail(s) \in Seq(S)
         /\ IsInjective(Tail(s))
         /\ ToSet(Tail(s)) = ToSet(s) \ {Head(s)}
         /\ Head(s) \in ToSet(s)
         /\ Len(Tail(s)) = Len(s) - 1
<1>. DEFINE t == Tail(s)
<1>1. /\ t \in Seq(S) /\ Len(s) \in Nat \ {0} /\ Head(s) = s[1]
      /\ Len(t) = Len(s) - 1
      /\ \A i \in 1 .. Len(s) - 1 : t[i] = s[i + 1]
  BY HeadTailProperties
<1>. HIDE DEF t
<1>2. \A x, y \in 1 .. Len(s) : s[x] = s[y] => x = y
  BY DEF IsInjective
<1>3. ASSUME NEW x \in 1 .. Len(s) - 1, NEW y \in 1 .. Len(s) - 1, t[x] = t[y]
      PROVE  x = y
  BY <1>1, <1>2, <1>3
<1>4. IsInjective(t)
  BY <1>1, <1>3 DEF IsInjective
<1>5. ASSUME NEW x \in ToSet(s) \ {Head(s)} PROVE x \in ToSet(t)
  <2>1. PICK j \in 1 .. Len(s) : s[j] = x
    BY <1>5 DEF ToSet
  <2>2. j - 1 \in 1 .. Len(s) - 1 /\ j - 1 + 1 = j
    BY <1>1, <1>5, <2>1
  <2>3. t[j - 1] = x
    BY <1>1, <2>1, <2>2
  <2>. QED
    BY <1>1, <2>2, <2>3 DEF ToSet
<1>6. ASSUME NEW x \in ToSet(t) PROVE x \in ToSet(s) \ {Head(s)}
  <2>1. PICK j \in 1 .. Len(s) - 1 : x = t[j]
    BY <1>1, <1>6 DEF ToSet
  <2>. QED
    BY <1>1, <1>2, <2>1 DEF ToSet
<1>7. Head(s) \in ToSet(s)
  BY <1>1 DEF ToSet
<1>. QED
  BY <1>1, <1>4, <1>5, <1>6, <1>7 DEF t

-----------------------------------------------------------------------------

(* What a leader holds: nothing before its loader returned, a version      *)
(* between the loader and the end of set() and its bookkeeping.            *)
LoadedOK ==
  \A c \in Callers :
    /\ pc[c] \in {"load", "record"} => loaded[c] = None
    /\ pc[c] \in {"publish", "count"} => loaded[c] # None

TypeInv == TypeOK /\ LruIsTheCache /\ LoadedOK

CacheOK == CacheTypeOK /\ LruIsTheCache

-----------------------------------------------------------------------------
(* The three ways the cache's contents change keep the LRU order exact.    *)

LEMMA MoveToEndKeepsCache ==
  ASSUME TypeInv, NEW k \in Keys, Cached(k), MoveToEnd(k), UNCHANGED <<data, expired>>
  PROVE  CacheOK'
<1>1. k \in ToSet(lru) /\ lru \in Seq(Keys) /\ IsInjective(lru)
  BY DEF TypeInv, TypeOK, CacheTypeOK, LruIsTheCache
<1>2. /\ lru' \in Seq(Keys) /\ IsInjective(lru')
      /\ ToSet(lru') = ToSet(lru) /\ Len(lru') = Len(lru)
  <2>1. ToSet(lru) \cup {k} = ToSet(lru)
    BY <1>1
  <2>. QED
    BY <1>1, <2>1, MoveToEndProperties DEF MoveToEnd
<1>. QED
  BY <1>2 DEF TypeInv, TypeOK, CacheTypeOK, LruIsTheCache, CacheOK, Cached

LEMMA DeleteKeepsCache ==
  ASSUME TypeInv, NEW k \in Keys, Delete(k)
  PROVE  CacheOK'
<1>1. lru \in Seq(Keys) /\ IsInjective(lru) /\ Len(lru) <= MaxDatasets
  BY DEF TypeInv, TypeOK, CacheTypeOK, LruIsTheCache
<1>2. /\ lru' \in Seq(Keys) /\ IsInjective(lru')
      /\ ToSet(lru') = ToSet(lru) \ {k} /\ Len(lru') <= MaxDatasets
  <2>1. Len(lru) \in Nat
    BY <1>1
  <2>. QED
    BY <1>1, <2>1, RemoveFirstProperties, Assumptions DEF Delete, Assumptions
<1>3. data' \in [Keys -> 0 .. MaxVersion \cup {None}]
  BY DEF TypeInv, TypeOK, CacheTypeOK, Delete
<1>4. ToSet(lru') = {j \in Keys : data'[j] # None}
  BY <1>2 DEF TypeInv, TypeOK, CacheTypeOK, LruIsTheCache, Cached, Delete
<1>5. expired' \subseteq ToSet(lru') /\ expired' \in SUBSET Keys
  BY <1>2 DEF TypeInv, TypeOK, CacheTypeOK, LruIsTheCache, Delete
<1>. QED
  BY <1>2, <1>3, <1>4, <1>5 DEF CacheOK, CacheTypeOK, LruIsTheCache, Cached

(* set() inserts one key and evicts at most one: the bound is kept.        *)
LEMMA SetKeepsCache ==
  ASSUME TypeInv, NEW k \in Keys, NEW v \in 0 .. MaxVersion, Set(k, v)
  PROVE  CacheOK'
<1>. DEFINE order == Append(RemoveFirst(lru, k), k)
            full  == [data EXCEPT ![k] = v]
<1>1. lru \in Seq(Keys) /\ IsInjective(lru) /\ Len(lru) <= MaxDatasets /\ Len(lru) \in Nat
  BY DEF TypeInv, TypeOK, CacheTypeOK, LruIsTheCache
<1>2. /\ order \in Seq(Keys) /\ IsInjective(order)
      /\ ToSet(order) = ToSet(lru) \cup {k}
      /\ Len(order) \in Nat /\ Len(order) <= MaxDatasets + 1
  <2>1. /\ order \in Seq(Keys) /\ IsInjective(order)
        /\ ToSet(order) = ToSet(lru) \cup {k}
        /\ Len(order) = IF k \in ToSet(lru) THEN Len(lru) ELSE Len(lru) + 1
    BY <1>1, MoveToEndProperties
  <2>. QED
    BY <1>1, <2>1, Assumptions DEF Assumptions
<1>3. v # None
  BY Assumptions DEF Assumptions
<1>4. /\ full \in [Keys -> 0 .. MaxVersion \cup {None}]
      /\ ToSet(order) = {j \in Keys : full[j] # None}
  BY <1>2, <1>3 DEF TypeInv, TypeOK, CacheTypeOK, LruIsTheCache, Cached
<1>5. expired \subseteq ToSet(order) /\ expired \in SUBSET Keys
  BY <1>2 DEF TypeInv, TypeOK, CacheTypeOK, LruIsTheCache
<1>6. /\ lru' = IF Len(order) > MaxDatasets THEN Tail(order) ELSE order
      /\ data' = IF Len(order) > MaxDatasets
                 THEN [full EXCEPT ![Head(order)] = None] ELSE full
      /\ expired' = expired \ (IF Len(order) > MaxDatasets
                               THEN {k, Head(order)} ELSE {k})
  BY DEF Set, Overfull
<1>. HIDE DEF order, full
<1>7. CASE Len(order) > MaxDatasets
  <2>1. order # <<>>
    BY <1>2, <1>7, Assumptions DEF Assumptions
  <2>2. /\ Tail(order) \in Seq(Keys) /\ IsInjective(Tail(order))
        /\ ToSet(Tail(order)) = ToSet(order) \ {Head(order)}
        /\ Head(order) \in ToSet(order)
        /\ Len(Tail(order)) = Len(order) - 1
    BY <1>2, <2>1, TailProperties
  <2>3. ToSet(lru') = {j \in Keys : data'[j] # None}
    BY <1>4, <1>6, <1>7, <2>2
  <2>4. Len(lru') <= MaxDatasets
    BY <1>2, <1>6, <1>7, <2>2, Assumptions DEF Assumptions
  <2>5. data' \in [Keys -> 0 .. MaxVersion \cup {None}]
    BY <1>4, <1>6, <1>7
  <2>6. expired' \subseteq ToSet(lru') /\ expired' \in SUBSET Keys
    BY <1>5, <1>6, <1>7, <2>2
  <2>. QED
    BY <1>6, <1>7, <2>2, <2>3, <2>4, <2>5, <2>6
    DEF CacheOK, CacheTypeOK, LruIsTheCache, Cached
<1>8. CASE ~(Len(order) > MaxDatasets)
  <2>1. Len(lru') <= MaxDatasets
    BY <1>2, <1>6, <1>8, Assumptions DEF Assumptions
  <2>. QED
    BY <1>2, <1>4, <1>5, <1>6, <1>8, <2>1
    DEF CacheOK, CacheTypeOK, LruIsTheCache, Cached
<1>. QED
  BY <1>7, <1>8

-----------------------------------------------------------------------------
LEMMA InitTypeInv == Init => TypeInv
<1>. SUFFICES ASSUME Init PROVE TypeInv
  OBVIOUS
<1>1. TypeOK
  <2>1. (CHOOSE k \in Keys : TRUE) \in Keys
    BY Assumptions DEF Assumptions
  <2>. QED
    BY <2>1, Assumptions
    DEF Init, TypeOK, CacheTypeOK, CallTypeOK, Labels, Answers, RT!NoAnswer,
        Assumptions
<1>2. LruIsTheCache
  BY Assumptions DEF Init, LruIsTheCache, Assumptions, Cached, IsInjective, ToSet
<1>3. LoadedOK
  BY DEF Init, LoadedOK
<1>. QED
  BY <1>1, <1>2, <1>3 DEF TypeInv

(* Every step keeps the types, the LRU order and what leaders hold.        *)
LEMMA NextTypeInv == TypeInv /\ [Next]_vars => TypeInv'
<1>. SUFFICES ASSUME TypeInv, [Next]_vars PROVE TypeInv'
  OBVIOUS
<1>. USE DEF Goto
<1>0. /\ TypeOK /\ CacheTypeOK /\ CallTypeOK /\ LruIsTheCache /\ LoadedOK
      /\ None \notin Nat /\ MaxVersion \in Nat
  BY Assumptions DEF TypeInv, TypeOK, Assumptions
<1>a. ASSUME UNCHANGED cacheVars PROVE CacheOK'
  BY <1>0, <1>a DEF LruIsTheCache, CacheOK, CacheTypeOK, Cached, cacheVars
<1>b. ASSUME CacheOK', CallTypeOK', LoadedOK' PROVE TypeInv'
  BY <1>b DEF CacheOK, TypeInv, TypeOK
<1>d. /\ {RT!NoAnswer, RT!Error, RT!Timeout} \subseteq Answers
      /\ {"idle", "get", "elect", "load", "publish", "count", "record",
          "clear", "signal", "waiting", "woken", "takeError"} \subseteq Labels
  BY Assumptions DEF Assumptions, Answers, Labels, RT!NoAnswer, RT!Error, RT!Timeout
<1>c. ASSUME NEW k \in Keys, IsFresh(k)
      PROVE  Cached(k) /\ data[k] \in 0 .. MaxVersion
  BY <1>0, <1>c DEF IsFresh, Cached, CacheTypeOK
<1>1. ASSUME NEW c \in Callers, NEW k \in Keys, Call(c, k) PROVE TypeInv'
  <2>1. CallTypeOK' /\ LoadedOK'
    BY <1>0, <1>d, <1>1 DEF CallTypeOK, LoadedOK, Call, flightVars
  <2>. QED
    BY <1>a, <1>b, <1>1, <2>1 DEF Call
<1>2. ASSUME NEW c \in Callers, GetHit(c) \/ ElectHit(c) PROVE TypeInv'
  <2>1. key[c] \in Keys /\ IsFresh(key[c])
    BY <1>0, <1>d, <1>2 DEF CallTypeOK, GetHit, ElectHit
  <2>2. CacheOK'
    BY <1>2, <1>c, <2>1, MoveToEndKeepsCache DEF GetHit, ElectHit
  <2>3. RT!Newer(returned[key[c]], data[key[c]]) \in 0 .. MaxVersion
    BY <1>0, <1>d, <1>c, <2>1 DEF CallTypeOK, RT!Newer
  <2>4. RT!Value(data[key[c]]) \in Answers
    BY <1>c, <2>1 DEF RT!Value, Answers
  <2>5. Return(c, data[key[c]]) /\ UNCHANGED <<flightVars, key, loaded, joined,
                                              source, floor, sawFailure>>
    BY <1>2 DEF GetHit, ElectHit
  <2>6. CallTypeOK'
    BY <1>0, <1>d, <2>1, <2>3, <2>4, <2>5 DEF CallTypeOK, Return, flightVars
  <2>7. LoadedOK'
    BY <1>0, <1>d, <2>5 DEF CallTypeOK, LoadedOK, Return
  <2>. QED
    BY <1>b, <2>2, <2>6, <2>7
<1>3. ASSUME NEW c \in Callers, GetMiss(c) PROVE TypeInv'
  <2>1. CacheOK'
    BY <1>0, <1>d, <1>3, <1>a, DeleteKeepsCache DEF GetMiss, CallTypeOK
  <2>2. CallTypeOK' /\ LoadedOK'
    BY <1>0, <1>d, <1>3 DEF CallTypeOK, LoadedOK, GetMiss, flightVars, ghostVars
  <2>. QED
    BY <1>b, <2>1, <2>2
<1>4. ASSUME NEW c \in Callers,
             \/ Join(c) \/ Lead(c) \/ LoadSucceeds(c) \/ LoadRaises(c)
             \/ CountLoad(c) \/ RecordError(c) \/ ClearInFlight(c)
             \/ WaitTimesOut(c) \/ TakeError(c) \/ Retry(c)
      PROVE  TypeInv'
  <2>1. CacheOK'
    BY <1>4, <1>a
    DEF Join, Lead, NobodyLoads, LoadSucceeds, LoadRaises, CountLoad, RecordError,
        CountOutcome,
                      ClearInFlight, Unregister, WaitTimesOut, TakeError, Retry
  <2>2. CASE Join(c)
    <3>1. CallTypeOK'
      BY <1>0, <1>d, <2>2 DEF CallTypeOK, Join, NobodyLoads, flightVars, ghostVars
    <3>2. LoadedOK'
      BY <1>0, <1>d, <2>2 DEF CallTypeOK, LoadedOK, Join, NobodyLoads
    <3>. QED
      BY <1>b, <2>1, <3>1, <3>2
  <2>3. CASE Lead(c)
    <3>1. CallTypeOK'
      BY <1>0, <1>d, <2>3
      DEF CallTypeOK, Lead, NobodyLoads, ForgetError, flightVars, ghostVars
    <3>2. LoadedOK'
      BY <1>0, <1>d, <2>3 DEF CallTypeOK, LoadedOK, Lead, NobodyLoads
    <3>. QED
      BY <1>b, <2>1, <3>1, <3>2
  <2>4. CASE LoadSucceeds(c)
    <3>1. CallTypeOK'
      BY <1>0, <1>d, <2>4 DEF CallTypeOK, LoadSucceeds, flightVars, ghostVars
    <3>2. LoadedOK'
      BY <1>0, <1>d, <2>4 DEF CallTypeOK, LoadedOK, LoadSucceeds
    <3>. QED
      BY <1>b, <2>1, <3>1, <3>2
  <2>5. CASE LoadRaises(c)
    <3>1. CallTypeOK'
      BY <1>0, <1>d, <2>5 DEF CallTypeOK, LoadRaises, flightVars, ghostVars
    <3>2. LoadedOK'
      BY <1>0, <1>d, <2>5 DEF CallTypeOK, LoadedOK, LoadRaises
    <3>. QED
      BY <1>b, <2>1, <3>1, <3>2
  <2>6. CASE CountLoad(c)
    <3>1. CallTypeOK'
      BY <1>0, <1>d, <2>6
      DEF CallTypeOK, CountLoad, CountOutcome, ForgetError, flightVars, ghostVars
    <3>2. LoadedOK'
      BY <1>0, <1>d, <2>6 DEF CallTypeOK, LoadedOK, CountLoad, CountOutcome
    <3>. QED
      BY <1>b, <2>1, <3>1, <3>2
  <2>7. CASE RecordError(c)
    <3>1. CallTypeOK'
      BY <1>0, <1>d, <2>7
      DEF CallTypeOK, RecordError, CountOutcome, flightVars, ghostVars
    <3>2. LoadedOK'
      BY <1>0, <1>d, <2>7 DEF CallTypeOK, LoadedOK, RecordError, CountOutcome
    <3>. QED
      BY <1>b, <2>1, <3>1, <3>2
  <2>8. CASE ClearInFlight(c)
    <3>1. CallTypeOK'
      BY <1>0, <1>d, <2>8
      DEF CallTypeOK, ClearInFlight, Unregister, flightVars, ghostVars
    <3>2. LoadedOK'
      BY <1>0, <1>d, <2>8 DEF CallTypeOK, LoadedOK, ClearInFlight, Unregister
    <3>. QED
      BY <1>b, <2>1, <3>1, <3>2
  <2>9. CASE WaitTimesOut(c)
    <3>1. CallTypeOK'
      BY <1>0, <1>d, <2>9 DEF CallTypeOK, WaitTimesOut, Raise, flightVars, ghostVars
    <3>2. LoadedOK'
      BY <1>0, <1>d, <2>9 DEF CallTypeOK, LoadedOK, WaitTimesOut, Raise
    <3>. QED
      BY <1>b, <2>1, <3>1, <3>2
  <2>10. CASE TakeError(c)
    <3>1. CallTypeOK'
      BY <1>0, <1>d, <2>10
      DEF CallTypeOK, TakeError, Raise, ForgetError, flightVars, ghostVars
    <3>2. LoadedOK'
      BY <1>0, <1>d, <2>10 DEF CallTypeOK, LoadedOK, TakeError, Raise
    <3>. QED
      BY <1>b, <2>1, <3>1, <3>2
  <2>11. CASE Retry(c)
    <3>1. CallTypeOK'
      BY <1>0, <1>d, <2>11 DEF CallTypeOK, Retry, flightVars, ghostVars
    <3>2. LoadedOK'
      BY <1>0, <1>d, <2>11 DEF CallTypeOK, LoadedOK, Retry
    <3>. QED
      BY <1>b, <2>1, <3>1, <3>2
  <2>. QED
    BY <1>4, <2>2, <2>3, <2>4, <2>5, <2>6, <2>7, <2>8, <2>9, <2>10, <2>11
<1>5. ASSUME NEW c \in Callers, Publish(c) PROVE TypeInv'
  <2>1. loaded[c] \in 0 .. MaxVersion /\ key[c] \in Keys
    BY <1>0, <1>d, <1>5 DEF CallTypeOK, LoadedOK, Publish
  <2>2. CacheOK'
    BY <1>5, <2>1, SetKeepsCache DEF Publish
  <2>3. CallTypeOK' /\ LoadedOK'
    BY <1>0, <1>d, <1>5, <2>1
    DEF CallTypeOK, LoadedOK, Publish, flightVars, ghostVars
  <2>. QED
    BY <1>b, <2>2, <2>3
<1>6. ASSUME NEW c \in Callers, Signal(c) PROVE TypeInv'
  <2>1. key[c] \in Keys /\ (loaded[c] # None => loaded[c] \in 0 .. MaxVersion)
    BY <1>0 DEF CallTypeOK
  <2>2. pc' \in [Callers -> Labels] /\ LoadedOK'
    BY <1>0, <1>d, <1>6
    DEF CallTypeOK, LoadedOK, Signal, Outcome, WokenBy, WaitersOf
  <2>3. loaded[c] # None => RT!Newer(returned[key[c]], loaded[c]) \in 0 .. MaxVersion
    BY <1>0, <1>d, <2>1 DEF CallTypeOK, RT!Newer
  <2>4. CallTypeOK'
    <3>1. answer' \in [Callers -> Answers]
      <4>. loaded[c] # None => RT!Value(loaded[c]) \in Answers
        BY <2>1 DEF Answers, RT!Value
      <4>. QED
        BY <1>0, <1>d, <1>6 DEF CallTypeOK, Signal, Outcome, WokenBy, WaitersOf
    <3>2. returned' \in [Keys -> 0 .. MaxVersion]
      BY <1>0, <1>d, <1>6, <2>1, <2>3
      DEF CallTypeOK, Signal, Outcome, WokenBy, WaitersOf
    <3>. QED
      BY <1>0, <1>d, <1>6, <2>2, <3>1, <3>2
      DEF CallTypeOK, Signal, Outcome, WokenBy, WaitersOf, flightVars
  <2>. QED
    BY <1>a, <1>b, <1>6, <2>2, <2>4 DEF Signal, Outcome, WokenBy, WaitersOf
<1>7. ASSUME NEW k \in Keys, Peek(k) \/ Invalidate(k) PROVE TypeInv'
  <2>1. CacheOK'
    BY <1>7, MoveToEndKeepsCache, DeleteKeepsCache DEF Peek, Invalidate
  <2>2. CallTypeOK' /\ LoadedOK'
    BY <1>0, <1>d, <1>7
    DEF CallTypeOK, LoadedOK, Peek, Invalidate, flightVars, callVars, ghostVars
  <2>. QED
    BY <1>b, <2>1, <2>2
<1>8. ASSUME InvalidateAll PROVE TypeInv'
  <2>1. CacheOK'
    BY <1>0, <1>d, <1>8, Assumptions
    DEF InvalidateAll, CacheOK, CacheTypeOK, LruIsTheCache, Cached, IsInjective,
        ToSet, Assumptions
  <2>2. CallTypeOK' /\ LoadedOK'
    BY <1>0, <1>d, <1>8
    DEF CallTypeOK, LoadedOK, InvalidateAll, flightVars, callVars, ghostVars
  <2>. QED
    BY <1>b, <2>1, <2>2
<1>9. ASSUME NEW k \in Keys, Expire(k) \/ SourceChanges(k) PROVE TypeInv'
  <2>1. CacheOK'
    BY <1>0, <1>d, <1>9
    DEF CacheOK, CacheTypeOK, LruIsTheCache, Cached, IsFresh, Expire,
        SourceChanges, cacheVars
  <2>2. CallTypeOK' /\ LoadedOK'
    BY <1>0, <1>d, <1>9
    DEF CallTypeOK, LoadedOK, Expire, SourceChanges, flightVars, callVars, ghostVars
  <2>. QED
    BY <1>b, <2>1, <2>2
<1>10. CASE UNCHANGED vars
  <2>. CallTypeOK' /\ LoadedOK'
    BY <1>0, <1>d, <1>10
    DEF CallTypeOK, LoadedOK, vars, flightVars, callVars, ghostVars
  <2>. QED
    BY <1>a, <1>b, <1>10 DEF vars
<1>. QED
  BY <1>1, <1>2, <1>3, <1>4, <1>5, <1>6, <1>7, <1>8, <1>9, <1>10
  DEF Next, LeaderStep, FollowerStep, ElectStep

(* Type correctness, and an LRU order that is exactly the cache and never  *)
(* exceeds its capacity.                                                   *)
THEOREM TypeCorrect == Spec => [](TypeOK /\ LruIsTheCache)
<1>1. TypeInv => TypeOK /\ LruIsTheCache
  BY DEF TypeInv
<1>. QED
  BY <1>1, InitTypeInv, NextTypeInv, PTL DEF Spec

-----------------------------------------------------------------------------
(* Who leads and who waits.                                                *)

Registered ==
  \A k \in Keys : inFlight[k] # None =>
    Leading(inFlight[k]) /\ key[inFlight[k]] = k

FlightInv == SingleFlight /\ Registered /\ FollowersHaveALeader

LEMMA InitFlightInv == Init => FlightInv
  BY DEF Init, FlightInv, SingleFlight, Registered, FollowersHaveALeader, Leading

LEMMA NextFlightInv == TypeInv /\ FlightInv /\ [Next]_vars => FlightInv'
<1>. SUFFICES ASSUME TypeInv, FlightInv, [Next]_vars PROVE FlightInv'
  OBVIOUS
<1>. USE DEF Goto, Leading
<1>0. /\ inFlight \in [Keys -> Callers \cup {None}]
      /\ pc \in [Callers -> Labels]
      /\ key \in [Callers -> Keys]
      /\ joined \in [Callers -> Callers \cup {None}]
      /\ None \notin Callers
      /\ SingleFlight /\ Registered /\ FollowersHaveALeader
  BY Assumptions DEF TypeInv, TypeOK, CallTypeOK, FlightInv, Assumptions
<1>1. ASSUME NEW c \in Callers, NEW k \in Keys, Call(c, k) PROVE FlightInv'
  <2>1. SingleFlight'
    BY <1>0, <1>1 DEF SingleFlight, Registered, Call, flightVars
  <2>2. Registered'
    BY <1>0, <1>1 DEF SingleFlight, Registered, Call, flightVars
  <2>3. FollowersHaveALeader'
    BY <1>0, <1>1 DEF FollowersHaveALeader, Registered, Call, flightVars
  <2>. QED
    BY <2>1, <2>2, <2>3 DEF FlightInv
<1>2. ASSUME NEW c \in Callers, GetHit(c) \/ ElectHit(c) PROVE FlightInv'
  <2>1. SingleFlight'
    BY <1>0, <1>2 DEF SingleFlight, Registered, GetHit, ElectHit, Return, flightVars
  <2>2. Registered'
    BY <1>0, <1>2 DEF SingleFlight, Registered, GetHit, ElectHit, Return, flightVars
  <2>3. FollowersHaveALeader'
    BY <1>0, <1>2
    DEF FollowersHaveALeader, Registered, GetHit, ElectHit, Return, flightVars
  <2>. QED
    BY <2>1, <2>2, <2>3 DEF FlightInv
<1>3. ASSUME NEW c \in Callers, GetMiss(c) PROVE FlightInv'
  <2>1. SingleFlight'
    BY <1>0, <1>3 DEF SingleFlight, Registered, GetMiss, flightVars
  <2>2. Registered'
    BY <1>0, <1>3 DEF SingleFlight, Registered, GetMiss, flightVars
  <2>3. FollowersHaveALeader'
    BY <1>0, <1>3 DEF FollowersHaveALeader, Registered, GetMiss, flightVars
  <2>. QED
    BY <2>1, <2>2, <2>3 DEF FlightInv
<1>4. ASSUME NEW c \in Callers, Join(c) PROVE FlightInv'
  <2>1. SingleFlight'
    BY <1>0, <1>4 DEF SingleFlight, Registered, Join, NobodyLoads, flightVars
  <2>2. Registered'
    BY <1>0, <1>4 DEF SingleFlight, Registered, Join, NobodyLoads, flightVars
  <2>3. FollowersHaveALeader'
    BY <1>0, <1>4
    DEF FollowersHaveALeader, Registered, Join, NobodyLoads, flightVars
  <2>. QED
    BY <2>1, <2>2, <2>3 DEF FlightInv
<1>5. ASSUME NEW c \in Callers, Lead(c) PROVE FlightInv'
  <2>1. SingleFlight'
    BY <1>0, <1>5 DEF SingleFlight, Registered, Lead, NobodyLoads
  <2>2. Registered'
    BY <1>0, <1>5 DEF SingleFlight, Registered, Lead, NobodyLoads
  <2>3. FollowersHaveALeader'
    BY <1>0, <1>5 DEF FollowersHaveALeader, Registered, Lead, NobodyLoads
  <2>. QED
    BY <2>1, <2>2, <2>3 DEF FlightInv
<1>6. ASSUME NEW c \in Callers, LoadSucceeds(c) \/ LoadRaises(c) PROVE FlightInv'
  <2>1. SingleFlight'
    BY <1>0, <1>6 DEF SingleFlight, Registered, LoadSucceeds, LoadRaises, flightVars
  <2>2. Registered'
    BY <1>0, <1>6 DEF SingleFlight, Registered, LoadSucceeds, LoadRaises, flightVars
  <2>3. FollowersHaveALeader'
    BY <1>0, <1>6
    DEF FollowersHaveALeader, Registered, LoadSucceeds, LoadRaises, flightVars
  <2>. QED
    BY <2>1, <2>2, <2>3 DEF FlightInv
<1>7. ASSUME NEW c \in Callers, Publish(c) PROVE FlightInv'
  <2>1. SingleFlight'
    BY <1>0, <1>7 DEF SingleFlight, Registered, Publish, flightVars
  <2>2. Registered'
    BY <1>0, <1>7 DEF SingleFlight, Registered, Publish, flightVars
  <2>3. FollowersHaveALeader'
    BY <1>0, <1>7 DEF FollowersHaveALeader, Registered, Publish, flightVars
  <2>. QED
    BY <2>1, <2>2, <2>3 DEF FlightInv
<1>8. ASSUME NEW c \in Callers, CountLoad(c) \/ RecordError(c) PROVE FlightInv'
  <2>1. SingleFlight'
    BY <1>0, <1>8 DEF SingleFlight, Registered, CountLoad, RecordError, CountOutcome
  <2>2. Registered'
    BY <1>0, <1>8 DEF SingleFlight, Registered, CountLoad, RecordError, CountOutcome
  <2>3. FollowersHaveALeader'
    BY <1>0, <1>8
    DEF FollowersHaveALeader, Registered, CountLoad, RecordError, CountOutcome
  <2>. QED
    BY <2>1, <2>2, <2>3 DEF FlightInv
<1>9. ASSUME NEW c \in Callers, ClearInFlight(c) PROVE FlightInv'
  <2>1. SingleFlight'
    BY <1>0, <1>9 DEF SingleFlight, Registered, ClearInFlight, Unregister
  <2>2. Registered'
    BY <1>0, <1>9 DEF SingleFlight, Registered, ClearInFlight, Unregister
  <2>3. FollowersHaveALeader'
    BY <1>0, <1>9 DEF FollowersHaveALeader, Registered, ClearInFlight, Unregister
  <2>. QED
    BY <2>1, <2>2, <2>3 DEF FlightInv
<1>10. ASSUME NEW c \in Callers, Signal(c) PROVE FlightInv'
  <2>1. SingleFlight'
    BY <1>0, <1>10
    DEF SingleFlight, Registered, Signal, Outcome, WokenBy, WaitersOf, flightVars
  <2>2. Registered'
    BY <1>0, <1>10
    DEF SingleFlight, Registered, Signal, Outcome, WokenBy, WaitersOf, flightVars
  <2>3. FollowersHaveALeader'
    BY <1>0, <1>10
    DEF FollowersHaveALeader, Registered, Signal, Outcome, WokenBy, WaitersOf,
        flightVars
  <2>. QED
    BY <2>1, <2>2, <2>3 DEF FlightInv
<1>11. ASSUME NEW c \in Callers, WaitTimesOut(c) PROVE FlightInv'
  <2>1. SingleFlight'
    BY <1>0, <1>11 DEF SingleFlight, Registered, WaitTimesOut, Raise, flightVars
  <2>2. Registered'
    BY <1>0, <1>11 DEF SingleFlight, Registered, WaitTimesOut, Raise, flightVars
  <2>3. FollowersHaveALeader'
    BY <1>0, <1>11
    DEF FollowersHaveALeader, Registered, WaitTimesOut, Raise, flightVars
  <2>. QED
    BY <2>1, <2>2, <2>3 DEF FlightInv
<1>12. ASSUME NEW c \in Callers, TakeError(c) \/ Retry(c) PROVE FlightInv'
  <2>1. SingleFlight'
    BY <1>0, <1>12 DEF SingleFlight, Registered, TakeError, Retry, Raise, flightVars
  <2>2. Registered'
    BY <1>0, <1>12 DEF SingleFlight, Registered, TakeError, Retry, Raise, flightVars
  <2>3. FollowersHaveALeader'
    BY <1>0, <1>12
    DEF FollowersHaveALeader, Registered, TakeError, Retry, Raise, flightVars
  <2>. QED
    BY <2>1, <2>2, <2>3 DEF FlightInv
<1>13. ASSUME UNCHANGED <<flightVars, callVars>> PROVE FlightInv'
  BY <1>0, <1>13 DEF FlightInv, SingleFlight, Registered, FollowersHaveALeader,
                    flightVars, callVars
<1>. QED
  BY <1>1, <1>2, <1>3, <1>4, <1>5, <1>6, <1>7, <1>8, <1>9, <1>10, <1>11, <1>12,
     <1>13
  DEF Next, LeaderStep, FollowerStep, ElectStep, Peek, Invalidate, InvalidateAll,
      Expire, SourceChanges, vars

(* At most one thread loads a dataset at a time, the thread newcomers join *)
(* is the one loading, and no follower is forgotten.                       *)
THEOREM SingleFlightHolds == Spec => [](SingleFlight /\ FollowersHaveALeader)
<1>1. FlightInv => SingleFlight /\ FollowersHaveALeader
  BY DEF FlightInv
<1>. QED
  BY <1>1, InitTypeInv, NextTypeInv, InitFlightInv, NextFlightInv, PTL DEF Spec

-----------------------------------------------------------------------------
(* How the versions in play compare.                                       *)

Holding(c) == loaded[c] # None /\ pc[c] \in {"publish", "count", "clear", "signal"}
Published(c) == loaded[c] # None /\ pc[c] \in {"count", "clear", "signal"}

(* What was returned is never newer than the source or than the cache.     *)
ReturnedBelow ==
  \A k \in Keys :
    /\ returned[k] <= source[k]
    /\ Cached(k) => returned[k] <= data[k] /\ data[k] <= source[k]

FloorBelow == \A c \in Callers : floor[c] <= returned[key[c]]

(* A leader holds a version its own call may return.                       *)
HoldingOK ==
  \A c \in Callers : Holding(c) =>
    floor[c] <= loaded[c] /\ loaded[c] <= source[key[c]]

(* A leader about to publish is ahead of all that was published before it. *)
PublisherAhead ==
  \A c \in Callers : pc[c] = "publish" =>
    /\ returned[key[c]] <= loaded[c]
    /\ Cached(key[c]) => data[key[c]] <= loaded[c]
    /\ \A d \in Callers :
         pc[d] = "signal" /\ Holding(d) /\ key[d] = key[c] => loaded[d] <= loaded[c]

(* A leader that has published is not ahead of the cache.                  *)
PublishedBelow ==
  \A c \in Callers :
    Published(c) /\ Cached(key[c]) => loaded[c] <= data[key[c]]

VersionInv ==
  ReturnedBelow /\ FloorBelow /\ HoldingOK /\ PublisherAhead /\ PublishedBelow

VersionTypes ==
  /\ data \in [Keys -> 0 .. MaxVersion \cup {None}]
  /\ pc \in [Callers -> Labels]
  /\ key \in [Callers -> Keys]
  /\ loaded \in [Callers -> 0 .. MaxVersion \cup {None}]
  /\ source \in [Keys -> 0 .. MaxVersion]
  /\ returned \in [Keys -> 0 .. MaxVersion]
  /\ floor \in [Callers -> 0 .. MaxVersion]
  /\ None \notin Nat
  /\ MaxVersion \in Nat

LEMMA InitVersionInv == Init => VersionInv
  BY Assumptions
  DEF Init, VersionInv, ReturnedBelow, FloorBelow, HoldingOK, PublisherAhead,
      PublishedBelow, Holding, Published, Cached, Assumptions

LEMMA NextVersionInv == TypeInv /\ FlightInv /\ VersionInv /\ [Next]_vars => VersionInv'
<1>. SUFFICES ASSUME TypeInv, FlightInv, VersionInv, [Next]_vars PROVE VersionInv'
  OBVIOUS
<1>. USE DEF Goto
<1>0. VersionTypes /\ LoadedOK
  BY Assumptions
  DEF TypeInv, TypeOK, CacheTypeOK, CallTypeOK, VersionTypes, Assumptions
<1>v. ReturnedBelow /\ FloorBelow /\ HoldingOK /\ PublisherAhead /\ PublishedBelow
  BY DEF VersionInv
<1>1. ASSUME NEW c \in Callers, NEW k \in Keys, Call(c, k) PROVE VersionInv'
  <2>1. ReturnedBelow'
    BY <1>0, <1>v, <1>1 DEF VersionTypes, ReturnedBelow, Cached, Call, cacheVars
  <2>2. FloorBelow'
    BY <1>0, <1>v, <1>1 DEF VersionTypes, FloorBelow, Call, cacheVars
  <2>3. HoldingOK'
    BY <1>0, <1>v, <1>1 DEF VersionTypes, HoldingOK, Holding, Call, cacheVars
  <2>4. PublisherAhead'
    BY <1>0, <1>v, <1>1
    DEF VersionTypes, PublisherAhead, Holding, Cached, Call, cacheVars
  <2>5. PublishedBelow'
    BY <1>0, <1>v, <1>1
    DEF VersionTypes, PublishedBelow, Published, Cached, Call, cacheVars
  <2>. QED
    BY <2>1, <2>2, <2>3, <2>4, <2>5 DEF VersionInv
<1>2. ASSUME NEW c \in Callers, GetHit(c) \/ ElectHit(c) PROVE VersionInv'
  <2>1. ReturnedBelow'
    BY <1>0, <1>v, <1>2
    DEF VersionTypes, ReturnedBelow, Cached, GetHit, ElectHit, Return, IsFresh,
        RT!Newer
  <2>2. FloorBelow'
    BY <1>0, <1>v, <1>2
    DEF VersionTypes, FloorBelow, ReturnedBelow, Cached, GetHit, ElectHit, Return,
        IsFresh, RT!Newer
  <2>3. HoldingOK'
    BY <1>0, <1>v, <1>2
    DEF VersionTypes, HoldingOK, Holding, GetHit, ElectHit, Return, IsFresh,
        RT!Newer
  <2>4. PublisherAhead'
    BY <1>0, <1>v, <1>2
    DEF VersionTypes, PublisherAhead, Holding, Cached, GetHit, ElectHit, Return,
        IsFresh, RT!Newer
  <2>5. PublishedBelow'
    BY <1>0, <1>v, <1>2
    DEF VersionTypes, PublishedBelow, Published, Cached, GetHit, ElectHit, Return,
        IsFresh, RT!Newer
  <2>. QED
    BY <2>1, <2>2, <2>3, <2>4, <2>5 DEF VersionInv
<1>3. ASSUME NEW c \in Callers, GetMiss(c) PROVE VersionInv'
  <2>s. \A j \in Keys : data'[j] \in {data[j], None}
    BY <1>0, <1>3 DEF VersionTypes, GetMiss, Delete, cacheVars
  <2>1. ReturnedBelow'
    BY <1>0, <1>v, <1>3, <2>s
    DEF VersionTypes, ReturnedBelow, Cached, GetMiss, ghostVars
  <2>2. FloorBelow'
    BY <1>0, <1>v, <1>3, <2>s DEF VersionTypes, FloorBelow, GetMiss, ghostVars
  <2>3. HoldingOK'
    BY <1>0, <1>v, <1>3, <2>s
    DEF VersionTypes, HoldingOK, Holding, GetMiss, ghostVars
  <2>4. PublisherAhead'
    BY <1>0, <1>v, <1>3, <2>s
    DEF VersionTypes, PublisherAhead, Holding, Cached, GetMiss, ghostVars
  <2>5. PublishedBelow'
    BY <1>0, <1>v, <1>3, <2>s
    DEF VersionTypes, PublishedBelow, Published, Cached, GetMiss, ghostVars
  <2>. QED
    BY <2>1, <2>2, <2>3, <2>4, <2>5 DEF VersionInv
<1>4. ASSUME NEW c \in Callers, Join(c) \/ Retry(c) PROVE VersionInv'
  <2>1. ReturnedBelow'
    BY <1>0, <1>v, <1>4
    DEF VersionTypes, ReturnedBelow, Cached, Join, Retry, cacheVars, ghostVars
  <2>2. FloorBelow'
    BY <1>0, <1>v, <1>4
    DEF VersionTypes, FloorBelow, Join, Retry, cacheVars, ghostVars
  <2>3. HoldingOK'
    BY <1>0, <1>v, <1>4
    DEF VersionTypes, HoldingOK, Holding, Join, Retry, cacheVars, ghostVars
  <2>4. PublisherAhead'
    BY <1>0, <1>v, <1>4
    DEF VersionTypes, PublisherAhead, Holding, Cached, Join, Retry, cacheVars,
        ghostVars
  <2>5. PublishedBelow'
    BY <1>0, <1>v, <1>4
    DEF VersionTypes, PublishedBelow, Published, Cached, Join, Retry, cacheVars,
        ghostVars
  <2>. QED
    BY <2>1, <2>2, <2>3, <2>4, <2>5 DEF VersionInv
<1>5. ASSUME NEW c \in Callers, Lead(c) PROVE VersionInv'
  <2>1. ReturnedBelow'
    BY <1>0, <1>v, <1>5
    DEF VersionTypes, ReturnedBelow, Cached, Lead, cacheVars, ghostVars
  <2>2. FloorBelow'
    BY <1>0, <1>v, <1>5 DEF VersionTypes, FloorBelow, Lead, cacheVars, ghostVars
  <2>3. HoldingOK'
    BY <1>0, <1>v, <1>5
    DEF VersionTypes, HoldingOK, Holding, Lead, cacheVars, ghostVars
  <2>4. PublisherAhead'
    BY <1>0, <1>v, <1>5
    DEF VersionTypes, PublisherAhead, Holding, Cached, Lead, cacheVars, ghostVars
  <2>5. PublishedBelow'
    BY <1>0, <1>v, <1>5
    DEF VersionTypes, PublishedBelow, Published, Cached, Lead, cacheVars, ghostVars
  <2>. QED
    BY <2>1, <2>2, <2>3, <2>4, <2>5 DEF VersionInv
<1>6. ASSUME NEW c \in Callers, LoadSucceeds(c) PROVE VersionInv'
  <2>1. ReturnedBelow'
    BY <1>0, <1>v, <1>6
    DEF VersionTypes, ReturnedBelow, Cached, LoadSucceeds, cacheVars, ghostVars
  <2>2. FloorBelow'
    BY <1>0, <1>v, <1>6
    DEF VersionTypes, FloorBelow, LoadSucceeds, cacheVars, ghostVars
  <2>3. HoldingOK'
    BY <1>0, <1>v, <1>6
    DEF VersionTypes, HoldingOK, Holding, FloorBelow, ReturnedBelow, LoadSucceeds,
        cacheVars, ghostVars
  <2>4. PublisherAhead'
    BY <1>0, <1>v, <1>6
    DEF VersionTypes, PublisherAhead, Holding, Cached, ReturnedBelow, HoldingOK,
        LoadSucceeds, cacheVars, ghostVars
  <2>5. PublishedBelow'
    BY <1>0, <1>v, <1>6
    DEF VersionTypes, PublishedBelow, Published, Cached, LoadSucceeds, cacheVars,
        ghostVars
  <2>. QED
    BY <2>1, <2>2, <2>3, <2>4, <2>5 DEF VersionInv
<1>7. ASSUME NEW c \in Callers, LoadRaises(c) PROVE VersionInv'
  <2>1. ReturnedBelow'
    BY <1>0, <1>v, <1>7
    DEF VersionTypes, ReturnedBelow, Cached, LoadRaises, LoadedOK, cacheVars,
        ghostVars
  <2>2. FloorBelow'
    BY <1>0, <1>v, <1>7
    DEF VersionTypes, FloorBelow, LoadRaises, LoadedOK, cacheVars, ghostVars
  <2>3. HoldingOK'
    BY <1>0, <1>v, <1>7
    DEF VersionTypes, HoldingOK, Holding, LoadRaises, LoadedOK, cacheVars,
        ghostVars
  <2>4. PublisherAhead'
    BY <1>0, <1>v, <1>7
    DEF VersionTypes, PublisherAhead, Holding, Cached, LoadRaises, LoadedOK,
        cacheVars, ghostVars
  <2>5. PublishedBelow'
    BY <1>0, <1>v, <1>7
    DEF VersionTypes, PublishedBelow, Published, Cached, LoadRaises, LoadedOK,
        cacheVars, ghostVars
  <2>. QED
    BY <2>1, <2>2, <2>3, <2>4, <2>5 DEF VersionInv
<1>8. ASSUME NEW c \in Callers, Publish(c) PROVE VersionInv'
  <2>s. \A j \in Keys : data'[j] \in {IF j = key[c] THEN loaded[c] ELSE data[j], None}
    BY <1>0, <1>8 DEF VersionTypes, Publish, Set
  <2>1. ReturnedBelow'
    BY <1>0, <1>v, <1>8, <2>s
    DEF VersionTypes, ReturnedBelow, Cached, PublisherAhead, HoldingOK, Holding,
        Publish, LoadedOK, ghostVars
  <2>2. FloorBelow'
    BY <1>0, <1>v, <1>8, <2>s
    DEF VersionTypes, FloorBelow, Publish, LoadedOK, ghostVars
  <2>3. HoldingOK'
    BY <1>0, <1>v, <1>8, <2>s
    DEF VersionTypes, HoldingOK, Holding, Publish, LoadedOK, ghostVars
  <2>4. PublisherAhead'
    BY <1>0, <1>v, <1>8, <2>s
    DEF VersionTypes, PublisherAhead, Holding, Cached, FlightInv, SingleFlight,
        Leading, Publish, LoadedOK, ghostVars
  <2>5. PublishedBelow'
    BY <1>0, <1>v, <1>8, <2>s
    DEF VersionTypes, PublishedBelow, Published, Cached, PublisherAhead, Holding,
        FlightInv, SingleFlight, Leading, Publish, LoadedOK, ghostVars
  <2>. QED
    BY <2>1, <2>2, <2>3, <2>4, <2>5 DEF VersionInv
<1>9. ASSUME NEW c \in Callers, CountLoad(c) PROVE VersionInv'
  <2>1. ReturnedBelow'
    BY <1>0, <1>v, <1>9
    DEF VersionTypes, ReturnedBelow, Cached, CountLoad, LoadedOK, cacheVars,
        ghostVars
  <2>2. FloorBelow'
    BY <1>0, <1>v, <1>9
    DEF VersionTypes, FloorBelow, CountLoad, LoadedOK, cacheVars, ghostVars
  <2>3. HoldingOK'
    BY <1>0, <1>v, <1>9
    DEF VersionTypes, HoldingOK, Holding, CountLoad, LoadedOK, cacheVars, ghostVars
  <2>4. PublisherAhead'
    BY <1>0, <1>v, <1>9
    DEF VersionTypes, PublisherAhead, Holding, Cached, CountLoad, LoadedOK,
        cacheVars, ghostVars
  <2>5. PublishedBelow'
    BY <1>0, <1>v, <1>9
    DEF VersionTypes, PublishedBelow, Published, Cached, CountLoad, LoadedOK,
        cacheVars, ghostVars
  <2>. QED
    BY <2>1, <2>2, <2>3, <2>4, <2>5 DEF VersionInv
<1>10. ASSUME NEW c \in Callers, RecordError(c) PROVE VersionInv'
  <2>1. ReturnedBelow'
    BY <1>0, <1>v, <1>10
    DEF VersionTypes, ReturnedBelow, Cached, RecordError, LoadedOK, cacheVars
  <2>2. FloorBelow'
    BY <1>0, <1>v, <1>10
    DEF VersionTypes, FloorBelow, RecordError, LoadedOK, cacheVars
  <2>3. HoldingOK'
    BY <1>0, <1>v, <1>10
    DEF VersionTypes, HoldingOK, Holding, RecordError, LoadedOK, cacheVars
  <2>4. PublisherAhead'
    BY <1>0, <1>v, <1>10
    DEF VersionTypes, PublisherAhead, Holding, Cached, RecordError, LoadedOK,
        cacheVars
  <2>5. PublishedBelow'
    BY <1>0, <1>v, <1>10
    DEF VersionTypes, PublishedBelow, Published, Cached, RecordError, LoadedOK,
        cacheVars
  <2>. QED
    BY <2>1, <2>2, <2>3, <2>4, <2>5 DEF VersionInv
<1>11. ASSUME NEW c \in Callers, ClearInFlight(c) PROVE VersionInv'
  <2>1. ReturnedBelow'
    BY <1>0, <1>v, <1>11
    DEF VersionTypes, ReturnedBelow, Cached, ClearInFlight, cacheVars, ghostVars
  <2>2. FloorBelow'
    BY <1>0, <1>v, <1>11
    DEF VersionTypes, FloorBelow, ClearInFlight, cacheVars, ghostVars
  <2>3. HoldingOK'
    BY <1>0, <1>v, <1>11
    DEF VersionTypes, HoldingOK, Holding, ClearInFlight, cacheVars, ghostVars
  <2>4. PublisherAhead'
    BY <1>0, <1>v, <1>11
    DEF VersionTypes, PublisherAhead, Holding, Cached, FlightInv, SingleFlight,
        Leading, ClearInFlight, cacheVars, ghostVars
  <2>5. PublishedBelow'
    BY <1>0, <1>v, <1>11
    DEF VersionTypes, PublishedBelow, Published, Cached, ClearInFlight, cacheVars,
        ghostVars
  <2>. QED
    BY <2>1, <2>2, <2>3, <2>4, <2>5 DEF VersionInv
<1>12. ASSUME NEW c \in Callers, Signal(c) PROVE VersionInv'
  <2>1. ReturnedBelow'
    BY <1>0, <1>v, <1>12
    DEF VersionTypes, ReturnedBelow, Cached, HoldingOK, Holding, PublishedBelow,
        Published, Signal, RT!Newer, cacheVars
  <2>2. FloorBelow'
    BY <1>0, <1>v, <1>12 DEF VersionTypes, FloorBelow, Signal, RT!Newer, cacheVars
  <2>3. HoldingOK'
    BY <1>0, <1>v, <1>12
    DEF VersionTypes, HoldingOK, Holding, Signal, RT!Newer, cacheVars
  <2>4. PublisherAhead'
    BY <1>0, <1>v, <1>12
    DEF VersionTypes, PublisherAhead, Holding, Cached, Signal, RT!Newer, cacheVars
  <2>5. PublishedBelow'
    BY <1>0, <1>v, <1>12
    DEF VersionTypes, PublishedBelow, Published, Cached, Signal, RT!Newer,
        cacheVars
  <2>. QED
    BY <2>1, <2>2, <2>3, <2>4, <2>5 DEF VersionInv
<1>13. ASSUME NEW c \in Callers, WaitTimesOut(c) \/ TakeError(c) PROVE VersionInv'
  <2>1. ReturnedBelow'
    BY <1>0, <1>v, <1>13
    DEF VersionTypes, ReturnedBelow, Cached, WaitTimesOut, TakeError, Raise,
        cacheVars
  <2>2. FloorBelow'
    BY <1>0, <1>v, <1>13
    DEF VersionTypes, FloorBelow, WaitTimesOut, TakeError, Raise, cacheVars
  <2>3. HoldingOK'
    BY <1>0, <1>v, <1>13
    DEF VersionTypes, HoldingOK, Holding, WaitTimesOut, TakeError, Raise, cacheVars
  <2>4. PublisherAhead'
    BY <1>0, <1>v, <1>13
    DEF VersionTypes, PublisherAhead, Holding, Cached, WaitTimesOut, TakeError,
        Raise, cacheVars
  <2>5. PublishedBelow'
    BY <1>0, <1>v, <1>13
    DEF VersionTypes, PublishedBelow, Published, Cached, WaitTimesOut, TakeError,
        Raise, cacheVars
  <2>. QED
    BY <2>1, <2>2, <2>3, <2>4, <2>5 DEF VersionInv
<1>14. ASSUME NEW k \in Keys, Peek(k) \/ Invalidate(k) \/ Expire(k) PROVE VersionInv'
  <2>s. \A j \in Keys : data'[j] \in {data[j], None}
    BY <1>0, <1>14 DEF VersionTypes, Peek, Invalidate, Expire, Delete
  <2>1. ReturnedBelow'
    BY <1>0, <1>v, <1>14, <2>s
    DEF VersionTypes, ReturnedBelow, Cached, Peek, Invalidate, Expire, callVars,
        ghostVars
  <2>2. FloorBelow'
    BY <1>0, <1>v, <1>14, <2>s
    DEF VersionTypes, FloorBelow, Peek, Invalidate, Expire, callVars, ghostVars
  <2>3. HoldingOK'
    BY <1>0, <1>v, <1>14, <2>s
    DEF VersionTypes, HoldingOK, Holding, Peek, Invalidate, Expire, callVars,
        ghostVars
  <2>4. PublisherAhead'
    BY <1>0, <1>v, <1>14, <2>s
    DEF VersionTypes, PublisherAhead, Holding, Cached, Peek, Invalidate, Expire,
        callVars, ghostVars
  <2>5. PublishedBelow'
    BY <1>0, <1>v, <1>14, <2>s
    DEF VersionTypes, PublishedBelow, Published, Cached, Peek, Invalidate, Expire,
        callVars, ghostVars
  <2>. QED
    BY <2>1, <2>2, <2>3, <2>4, <2>5 DEF VersionInv
<1>15. ASSUME InvalidateAll PROVE VersionInv'
  <2>s. \A j \in Keys : data'[j] \in {data[j], None}
    BY <1>0, <1>15 DEF VersionTypes, InvalidateAll
  <2>1. ReturnedBelow'
    BY <1>0, <1>v, <1>15, <2>s
    DEF VersionTypes, ReturnedBelow, Cached, InvalidateAll, callVars, ghostVars
  <2>2. FloorBelow'
    BY <1>0, <1>v, <1>15, <2>s
    DEF VersionTypes, FloorBelow, InvalidateAll, callVars, ghostVars
  <2>3. HoldingOK'
    BY <1>0, <1>v, <1>15, <2>s
    DEF VersionTypes, HoldingOK, Holding, InvalidateAll, callVars, ghostVars
  <2>4. PublisherAhead'
    BY <1>0, <1>v, <1>15, <2>s
    DEF VersionTypes, PublisherAhead, Holding, Cached, InvalidateAll, callVars,
        ghostVars
  <2>5. PublishedBelow'
    BY <1>0, <1>v, <1>15, <2>s
    DEF VersionTypes, PublishedBelow, Published, Cached, InvalidateAll, callVars,
        ghostVars
  <2>. QED
    BY <2>1, <2>2, <2>3, <2>4, <2>5 DEF VersionInv
<1>16. ASSUME NEW k \in Keys, SourceChanges(k) PROVE VersionInv'
  <2>1. ReturnedBelow'
    BY <1>0, <1>v, <1>16
    DEF VersionTypes, ReturnedBelow, Cached, SourceChanges, cacheVars, callVars
  <2>2. FloorBelow'
    BY <1>0, <1>v, <1>16
    DEF VersionTypes, FloorBelow, SourceChanges, cacheVars, callVars
  <2>3. HoldingOK'
    BY <1>0, <1>v, <1>16
    DEF VersionTypes, HoldingOK, Holding, SourceChanges, cacheVars, callVars
  <2>4. PublisherAhead'
    BY <1>0, <1>v, <1>16
    DEF VersionTypes, PublisherAhead, Holding, Cached, SourceChanges, cacheVars,
        callVars
  <2>5. PublishedBelow'
    BY <1>0, <1>v, <1>16
    DEF VersionTypes, PublishedBelow, Published, Cached, SourceChanges, cacheVars,
        callVars
  <2>. QED
    BY <2>1, <2>2, <2>3, <2>4, <2>5 DEF VersionInv
<1>17. ASSUME UNCHANGED vars PROVE VersionInv'
  <2>1. ReturnedBelow'
    BY <1>0, <1>v, <1>17
    DEF VersionTypes, ReturnedBelow, Cached, vars, cacheVars, callVars, ghostVars
  <2>2. FloorBelow'
    BY <1>0, <1>v, <1>17
    DEF VersionTypes, FloorBelow, vars, cacheVars, callVars, ghostVars
  <2>3. HoldingOK'
    BY <1>0, <1>v, <1>17
    DEF VersionTypes, HoldingOK, Holding, vars, cacheVars, callVars, ghostVars
  <2>4. PublisherAhead'
    BY <1>0, <1>v, <1>17
    DEF VersionTypes, PublisherAhead, Holding, Cached, vars, cacheVars, callVars,
        ghostVars
  <2>5. PublishedBelow'
    BY <1>0, <1>v, <1>17
    DEF VersionTypes, PublishedBelow, Published, Cached, vars, cacheVars, callVars,
        ghostVars
  <2>. QED
    BY <2>1, <2>2, <2>3, <2>4, <2>5 DEF VersionInv
<1>. QED
  BY <1>1, <1>2, <1>3, <1>4, <1>5, <1>6, <1>7, <1>8, <1>9, <1>10, <1>11, <1>12,
     <1>13, <1>14, <1>15, <1>16, <1>17
  DEF Next, LeaderStep, FollowerStep, ElectStep

-----------------------------------------------------------------------------
(* Every step of the cache is a step of the read-through specification.    *)

LEMMA InitRefines == Init => RT!Init
<1>. SUFFICES ASSUME Init PROVE RT!Init
  OBVIOUS
<1>1. (CHOOSE k \in Keys : TRUE) \in Keys
  BY Assumptions DEF Assumptions
<1>. QED
  BY <1>1 DEF Init, RT!Init

LEMMA NextRefines ==
  TypeInv /\ VersionInv /\ [Next]_vars => [RT!Next]_(RT!vars)
<1>. SUFFICES ASSUME TypeInv, VersionInv, [Next]_vars
              PROVE  [RT!Next]_(RT!vars)
  OBVIOUS
<1>. DEFINE reading == [c \in Callers |-> pc[c] # "idle"]
<1>. USE DEF Goto
<1>0. VersionTypes /\ LoadedOK
  BY Assumptions
  DEF TypeInv, TypeOK, CacheTypeOK, CallTypeOK, VersionTypes, Assumptions
(* A step that neither begins nor ends a call is invisible.                *)
<1>s. ASSUME reading' = reading, UNCHANGED <<key, answer, source, returned, floor>>
      PROVE  UNCHANGED RT!vars
  BY <1>s DEF RT!vars
<1>f. ASSUME NEW c \in Callers, NEW v \in 0 .. MaxVersion,
             pc[c] # "idle",
             reading' = [reading EXCEPT ![c] = FALSE],
             answer' = [answer EXCEPT ![c] = RT!Value(v)],
             returned' = [returned EXCEPT ![key[c]] = RT!Newer(@, v)],
             floor[c] <= v, v <= source[key[c]],
             UNCHANGED <<key, source, floor>>
      PROVE  RT!Next
  <2>1. v \in floor[c] .. source[key[c]]
    BY <1>0, <1>f DEF VersionTypes
  <2>2. RT!Finish(c, RT!Value(v))
    BY <1>f DEF RT!Finish
  <2>. QED
    BY <1>f, <2>1, <2>2 DEF RT!Next, RT!Return
<1>g. ASSUME NEW c \in Callers, pc[c] # "idle",
             reading' = [reading EXCEPT ![c] = FALSE],
             \E o \in {RT!Error, RT!Timeout} : answer' = [answer EXCEPT ![c] = o],
             UNCHANGED <<key, source, floor, returned>>
      PROVE  RT!Next
  <2>1. \E o \in {RT!Error, RT!Timeout} : RT!Finish(c, o)
    BY <1>g DEF RT!Finish
  <2>. QED
    BY <1>g, <2>1 DEF RT!Next, RT!Fail
<1>1. ASSUME NEW c \in Callers, NEW k \in Keys, Call(c, k) PROVE RT!Next
  <2>1. reading' = [reading EXCEPT ![c] = TRUE]
    BY <1>0, <1>1 DEF VersionTypes, Call
  <2>2. RT!Begin(c, k)
    BY <1>1, <2>1 DEF Call, RT!Begin
  <2>. QED
    BY <2>2 DEF RT!Next
<1>2. ASSUME NEW c \in Callers, GetHit(c) \/ ElectHit(c) PROVE RT!Next
  <2>1. /\ Cached(key[c]) /\ pc[c] # "idle" /\ Return(c, data[key[c]])
        /\ UNCHANGED <<key, source, floor>>
    BY <1>2 DEF GetHit, ElectHit, IsFresh
  <2>2. data[key[c]] \in 0 .. MaxVersion
    BY <1>0, <2>1 DEF VersionTypes, Cached
  <2>3. floor[c] <= data[key[c]] /\ data[key[c]] <= source[key[c]]
    BY <1>0, <2>1, <2>2 DEF VersionTypes, VersionInv, ReturnedBelow, FloorBelow
  <2>4. reading' = [reading EXCEPT ![c] = FALSE]
    BY <1>0, <2>1 DEF VersionTypes, Return
  <2>. QED
    BY <1>f, <2>1, <2>2, <2>3, <2>4 DEF Return
<1>3. ASSUME NEW c \in Callers, Signal(c) PROVE RT!Next
  <2>1. pc[c] = "signal" /\ reading' = [reading EXCEPT ![c] = FALSE]
    BY <1>0, <1>3 DEF VersionTypes, Signal, Outcome, WokenBy, WaitersOf
  <2>2. CASE loaded[c] = None
    BY <1>3, <1>g, <2>1, <2>2 DEF Signal, Outcome, WokenBy, WaitersOf
  <2>3. CASE loaded[c] # None
    <3>1. loaded[c] \in 0 .. MaxVersion
      BY <1>0, <2>3 DEF VersionTypes
    <3>2. floor[c] <= loaded[c] /\ loaded[c] <= source[key[c]]
      BY <2>1, <2>3 DEF VersionInv, HoldingOK, Holding
    <3>. QED
      BY <1>3, <1>f, <2>1, <2>3, <3>1, <3>2 DEF Signal, Outcome, WokenBy, WaitersOf
  <2>. QED
    BY <2>2, <2>3
<1>4. ASSUME NEW c \in Callers, WaitTimesOut(c) \/ TakeError(c) PROVE RT!Next
  <2>1. pc[c] # "idle" /\ reading' = [reading EXCEPT ![c] = FALSE]
    BY <1>0, <1>4 DEF VersionTypes, WaitTimesOut, TakeError, Raise
  <2>. QED
    BY <1>4, <1>g, <2>1 DEF WaitTimesOut, TakeError, Raise
<1>5. ASSUME NEW k \in Keys, SourceChanges(k) PROVE RT!Next
  <2>1. RT!Change(k)
    BY <1>5 DEF SourceChanges, callVars, RT!Change
  <2>. QED
    BY <2>1 DEF RT!Next
<1>6. ASSUME NEW c \in Callers,
             \/ GetMiss(c) \/ Join(c) \/ Lead(c) \/ LoadSucceeds(c) \/ LoadRaises(c)
             \/ Publish(c) \/ CountLoad(c) \/ RecordError(c) \/ ClearInFlight(c)
             \/ Retry(c)
      PROVE  UNCHANGED RT!vars
  <2>1. \E l \in Labels \ {"idle"} : pc[c] # "idle" /\ pc' = [pc EXCEPT ![c] = l]
    BY <1>6
    DEF Labels, GetMiss, Join, Lead, NobodyLoads, LoadSucceeds, LoadRaises,
        Publish, CountLoad, CountOutcome,
                RecordError, CountOutcome, ClearInFlight, Unregister, Retry
  <2>2. reading' = reading
    BY <1>0, <2>1 DEF VersionTypes
  <2>3. UNCHANGED <<key, answer, source, returned, floor>>
    BY <1>6
    DEF GetMiss, Join, Lead, NobodyLoads, LoadSucceeds, LoadRaises, Publish,
        CountLoad, CountOutcome,
                RecordError, CountOutcome, ClearInFlight, Unregister, Retry, ghostVars
  <2>. QED
    BY <1>s, <2>2, <2>3
<1>7. ASSUME UNCHANGED <<callVars, answer, ghostVars>> PROVE UNCHANGED RT!vars
  BY <1>7, <1>s DEF callVars, ghostVars
<1>. QED
  BY <1>1, <1>2, <1>3, <1>4, <1>5, <1>6, <1>7
  DEF Next, LeaderStep, FollowerStep, ElectStep, Peek, Invalidate, InvalidateAll,
      Expire, vars

(* Reads never run backwards: the cache, with its evictions, expiries,     *)
(* invalidations, failures and retries, is a read-through of the source.   *)
THEOREM CacheReadsThrough == Spec => ReadsThrough
<1>1. Spec => [](TypeInv /\ FlightInv /\ VersionInv)
  BY InitTypeInv, NextTypeInv, InitFlightInv, NextFlightInv,
     InitVersionInv, NextVersionInv, PTL DEF Spec
<1>. QED
  BY <1>1, InitRefines, NextRefines, PTL DEF Spec, ReadsThrough, RT!Spec

-----------------------------------------------------------------------------
(* Which calls a recorded error can still reach.                           *)

(* An error recorded while a load is in flight is that load's own, and its *)
(* leader is about to take its event away.                                 *)
ErrorIsOfFlight ==
  \A k \in Keys : k \in inFlightError /\ inFlight[k] # None => FailedLeader(inFlight[k])

(* While a failed leader is still registered, every call in progress for   *)
(* its dataset overlaps the failure.                                       *)
FailureSeen ==
  \A c, d \in Callers :
    FailedLeader(c) /\ pc[d] # "idle" /\ key[d] = key[c] => sawFailure[d]

(* A call that has joined a load can be given only an error it overlapped. *)
FollowersSafe ==
  \A c \in Callers :
    pc[c] \in {"waiting", "woken", "takeError"} /\ key[c] \in inFlightError
      => sawFailure[c]

(* A leader that failed overlapped its own failure.                        *)
LeadersSafe ==
  \A c \in Callers : pc[c] \in {"clear", "signal"} /\ loaded[c] = None => sawFailure[c]

ErrorInv ==
  ErrorIsOfFlight /\ FailureSeen /\ FollowersSafe /\ LeadersSafe /\ ErrorsAreCurrent
LEMMA InitErrorInv == Init => ErrorInv
  BY DEF Init, ErrorInv, ErrorIsOfFlight, FailureSeen, FollowersSafe, LeadersSafe,
         ErrorsAreCurrent, FailedLeader, RT!NoAnswer

LEMMA NextErrorInv == TypeInv /\ FlightInv /\ ErrorInv /\ [Next]_vars => ErrorInv'
<1>. SUFFICES ASSUME TypeInv, FlightInv, ErrorInv, [Next]_vars PROVE ErrorInv'
  OBVIOUS
<1>. USE DEF Goto, FailedLeader
<1>0. /\ inFlight \in [Keys -> Callers \cup {None}]
      /\ inFlightError \in SUBSET Keys
      /\ pc \in [Callers -> Labels]
      /\ key \in [Callers -> Keys]
      /\ loaded \in [Callers -> 0 .. MaxVersion \cup {None}]
      /\ answer \in [Callers -> Answers]
      /\ source \in [Keys -> 0 .. MaxVersion]
      /\ sawFailure \in [Callers -> BOOLEAN]
      /\ None \notin Callers /\ None \notin Nat
      /\ SingleFlight /\ Registered /\ LoadedOK
  BY Assumptions DEF TypeInv, TypeOK, CallTypeOK, FlightInv, Assumptions
<1>e. ErrorIsOfFlight /\ FailureSeen /\ FollowersSafe /\ LeadersSafe /\ ErrorsAreCurrent
  BY DEF ErrorInv
<1>1. ASSUME NEW c \in Callers, NEW k \in Keys, Call(c, k) PROVE ErrorInv'
  <2>1. ErrorIsOfFlight'
    BY <1>0, <1>e, <1>1
    DEF ErrorIsOfFlight, SingleFlight, Registered, Leading, LoadedOK, Call,
        flightVars
  <2>2. FailureSeen'
    BY <1>0, <1>e, <1>1
    DEF FailureSeen, SingleFlight, Registered, Leading, LoadedOK, Call, flightVars
  <2>3. FollowersSafe'
    BY <1>0, <1>e, <1>1
    DEF FollowersSafe, ErrorIsOfFlight, FailureSeen, Call, flightVars
  <2>4. LeadersSafe'
    BY <1>0, <1>e, <1>1 DEF LeadersSafe, LoadedOK, Call, flightVars
  <2>5. ErrorsAreCurrent'
    BY <1>0, <1>e, <1>1
    DEF ErrorsAreCurrent, FollowersSafe, LeadersSafe, RT!NoAnswer, RT!Value,
        RT!Timeout, RT!Error, Call, flightVars
  <2>. QED
    BY <2>1, <2>2, <2>3, <2>4, <2>5 DEF ErrorInv
<1>2. ASSUME NEW c \in Callers, GetHit(c) \/ ElectHit(c) PROVE ErrorInv'
  <2>1. ErrorIsOfFlight'
    BY <1>0, <1>e, <1>2
    DEF ErrorIsOfFlight, SingleFlight, Registered, Leading, LoadedOK, GetHit,
        ElectHit, Return, flightVars
  <2>2. FailureSeen'
    BY <1>0, <1>e, <1>2
    DEF FailureSeen, SingleFlight, Registered, Leading, LoadedOK, GetHit, ElectHit,
        Return, flightVars
  <2>3. FollowersSafe'
    BY <1>0, <1>e, <1>2
    DEF FollowersSafe, ErrorIsOfFlight, FailureSeen, GetHit, ElectHit, Return,
        flightVars
  <2>4. LeadersSafe'
    BY <1>0, <1>e, <1>2
    DEF LeadersSafe, LoadedOK, GetHit, ElectHit, Return, flightVars
  <2>5. ErrorsAreCurrent'
    BY <1>0, <1>e, <1>2
    DEF ErrorsAreCurrent, FollowersSafe, LeadersSafe, RT!NoAnswer, RT!Value,
        RT!Timeout, RT!Error, GetHit, ElectHit, Return, flightVars
  <2>. QED
    BY <2>1, <2>2, <2>3, <2>4, <2>5 DEF ErrorInv
<1>3. ASSUME NEW c \in Callers, GetMiss(c) PROVE ErrorInv'
  <2>1. ErrorIsOfFlight'
    BY <1>0, <1>e, <1>3
    DEF ErrorIsOfFlight, SingleFlight, Registered, Leading, LoadedOK, GetMiss,
        flightVars, ghostVars
  <2>2. FailureSeen'
    BY <1>0, <1>e, <1>3
    DEF FailureSeen, SingleFlight, Registered, Leading, LoadedOK, GetMiss,
        flightVars, ghostVars
  <2>3. FollowersSafe'
    BY <1>0, <1>e, <1>3
    DEF FollowersSafe, ErrorIsOfFlight, FailureSeen, GetMiss, flightVars, ghostVars
  <2>4. LeadersSafe'
    BY <1>0, <1>e, <1>3 DEF LeadersSafe, LoadedOK, GetMiss, flightVars, ghostVars
  <2>5. ErrorsAreCurrent'
    BY <1>0, <1>e, <1>3
    DEF ErrorsAreCurrent, FollowersSafe, LeadersSafe, RT!NoAnswer, RT!Value,
        RT!Timeout, RT!Error, GetMiss, flightVars, ghostVars
  <2>. QED
    BY <2>1, <2>2, <2>3, <2>4, <2>5 DEF ErrorInv
<1>4. ASSUME NEW c \in Callers, Join(c) \/ Retry(c) PROVE ErrorInv'
  <2>1. ErrorIsOfFlight'
    BY <1>0, <1>e, <1>4
    DEF ErrorIsOfFlight, SingleFlight, Registered, Leading, LoadedOK, Join,
        NobodyLoads, Retry, flightVars, ghostVars
  <2>2. FailureSeen'
    BY <1>0, <1>e, <1>4
    DEF FailureSeen, SingleFlight, Registered, Leading, LoadedOK, Join,
        NobodyLoads, Retry, flightVars, ghostVars
  <2>3. FollowersSafe'
    BY <1>0, <1>e, <1>4 DEF FollowersSafe, ErrorIsOfFlight, FailureSeen, Registered,
                            Leading, Join, NobodyLoads, Retry, flightVars, ghostVars
  <2>4. LeadersSafe'
    BY <1>0, <1>e, <1>4
    DEF LeadersSafe, LoadedOK, Join, NobodyLoads, Retry, flightVars, ghostVars
  <2>5. ErrorsAreCurrent'
    BY <1>0, <1>e, <1>4
    DEF ErrorsAreCurrent, FollowersSafe, LeadersSafe, RT!NoAnswer, RT!Value,
        RT!Timeout, RT!Error, Join, NobodyLoads, Retry, flightVars, ghostVars
  <2>. QED
    BY <2>1, <2>2, <2>3, <2>4, <2>5 DEF ErrorInv
<1>5. ASSUME NEW c \in Callers, Lead(c) PROVE ErrorInv'
  <2>1. ErrorIsOfFlight'
    BY <1>0, <1>e, <1>5
    DEF ErrorIsOfFlight, SingleFlight, Registered, Leading, LoadedOK, Lead,
        NobodyLoads, ForgetError, ghostVars
  <2>2. FailureSeen'
    BY <1>0, <1>e, <1>5
    DEF FailureSeen, SingleFlight, Registered, Leading, LoadedOK, Lead,
        NobodyLoads, ForgetError, ghostVars
  <2>3. FollowersSafe'
    BY <1>0, <1>e, <1>5
    DEF FollowersSafe, ErrorIsOfFlight, FailureSeen, Lead, NobodyLoads,
        ForgetError, ghostVars
  <2>4. LeadersSafe'
    BY <1>0, <1>e, <1>5
    DEF LeadersSafe, LoadedOK, Lead, NobodyLoads, ForgetError, ghostVars
  <2>5. ErrorsAreCurrent'
    BY <1>0, <1>e, <1>5
    DEF ErrorsAreCurrent, FollowersSafe, LeadersSafe, RT!NoAnswer, RT!Value,
        RT!Timeout, RT!Error, Lead, NobodyLoads, ForgetError, ghostVars
  <2>. QED
    BY <2>1, <2>2, <2>3, <2>4, <2>5 DEF ErrorInv
<1>6. ASSUME NEW c \in Callers, LoadSucceeds(c) \/ LoadRaises(c) PROVE ErrorInv'
  <2>1. ErrorIsOfFlight'
    BY <1>0, <1>e, <1>6
    DEF ErrorIsOfFlight, SingleFlight, Registered, Leading, LoadedOK, LoadSucceeds,
        LoadRaises, flightVars, ghostVars
  <2>2. FailureSeen'
    BY <1>0, <1>e, <1>6
    DEF FailureSeen, SingleFlight, Registered, Leading, LoadedOK, LoadSucceeds,
        LoadRaises, flightVars, ghostVars
  <2>3. FollowersSafe'
    BY <1>0, <1>e, <1>6
    DEF FollowersSafe, ErrorIsOfFlight, FailureSeen, LoadSucceeds, LoadRaises,
        flightVars, ghostVars
  <2>4. LeadersSafe'
    BY <1>0, <1>e, <1>6
    DEF LeadersSafe, LoadedOK, LoadSucceeds, LoadRaises, flightVars, ghostVars
  <2>5. ErrorsAreCurrent'
    BY <1>0, <1>e, <1>6
    DEF ErrorsAreCurrent, FollowersSafe, LeadersSafe, RT!NoAnswer, RT!Value,
        RT!Timeout, RT!Error, LoadSucceeds, LoadRaises, flightVars, ghostVars
  <2>. QED
    BY <2>1, <2>2, <2>3, <2>4, <2>5 DEF ErrorInv
<1>7. ASSUME NEW c \in Callers, Publish(c) PROVE ErrorInv'
  <2>1. ErrorIsOfFlight'
    BY <1>0, <1>e, <1>7
    DEF ErrorIsOfFlight, SingleFlight, Registered, Leading, LoadedOK, Publish,
        flightVars, ghostVars
  <2>2. FailureSeen'
    BY <1>0, <1>e, <1>7
    DEF FailureSeen, SingleFlight, Registered, Leading, LoadedOK, Publish,
        flightVars, ghostVars
  <2>3. FollowersSafe'
    BY <1>0, <1>e, <1>7
    DEF FollowersSafe, ErrorIsOfFlight, FailureSeen, Publish, flightVars, ghostVars
  <2>4. LeadersSafe'
    BY <1>0, <1>e, <1>7 DEF LeadersSafe, LoadedOK, Publish, flightVars, ghostVars
  <2>5. ErrorsAreCurrent'
    BY <1>0, <1>e, <1>7
    DEF ErrorsAreCurrent, FollowersSafe, LeadersSafe, RT!NoAnswer, RT!Value,
        RT!Timeout, RT!Error, Publish, flightVars, ghostVars
  <2>. QED
    BY <2>1, <2>2, <2>3, <2>4, <2>5 DEF ErrorInv
<1>8. ASSUME NEW c \in Callers, CountLoad(c) PROVE ErrorInv'
  <2>1. ErrorIsOfFlight'
    BY <1>0, <1>e, <1>8
    DEF ErrorIsOfFlight, SingleFlight, Registered, Leading, LoadedOK, CountLoad,
        CountOutcome, ForgetError, ghostVars
  <2>2. FailureSeen'
    BY <1>0, <1>e, <1>8
    DEF FailureSeen, SingleFlight, Registered, Leading, LoadedOK, CountLoad,
        CountOutcome, ForgetError, ghostVars
  <2>3. FollowersSafe'
    BY <1>0, <1>e, <1>8
    DEF FollowersSafe, ErrorIsOfFlight, FailureSeen, CountLoad, CountOutcome,
        ForgetError, ghostVars
  <2>4. LeadersSafe'
    BY <1>0, <1>e, <1>8
    DEF LeadersSafe, LoadedOK, CountLoad, CountOutcome, ForgetError, ghostVars
  <2>5. ErrorsAreCurrent'
    BY <1>0, <1>e, <1>8
    DEF ErrorsAreCurrent, FollowersSafe, LeadersSafe, RT!NoAnswer, RT!Value,
        RT!Timeout, RT!Error, CountLoad, CountOutcome, ForgetError, ghostVars
  <2>. QED
    BY <2>1, <2>2, <2>3, <2>4, <2>5 DEF ErrorInv
<1>9. ASSUME NEW c \in Callers, RecordError(c) PROVE ErrorInv'
  <2>1. ErrorIsOfFlight'
    BY <1>0, <1>e, <1>9
    DEF ErrorIsOfFlight, SingleFlight, Registered, Leading, LoadedOK, RecordError,
        CountOutcome
  <2>2. FailureSeen'
    <3>1. ASSUME NEW a \in Callers, NEW d \in Callers, FailedLeader(a)',
                 (pc[d] # "idle" /\ key[d] = key[a])'
          PROVE  sawFailure'[d]
      <4>1. /\ sawFailure'[d] <=> sawFailure[d] \/ (pc[d] # "idle" /\ key[d] = key[c])
            /\ pc[d] # "idle" /\ key[d] = key[a]
        BY <1>0, <1>9, <3>1 DEF RecordError, CountOutcome
      <4>2. CASE a = c
        BY <4>1, <4>2
      <4>3. CASE a # c
        <5>1. FailedLeader(a)
          BY <1>0, <1>9, <3>1, <4>3 DEF RecordError, CountOutcome
        <5>. QED
          BY <1>e, <4>1, <5>1 DEF FailureSeen
      <4>. QED
        BY <4>2, <4>3
    <3>. QED
      BY <3>1 DEF FailureSeen
  <2>3. FollowersSafe'
    BY <1>0, <1>e, <1>9
    DEF FollowersSafe, ErrorIsOfFlight, FailureSeen, RecordError, CountOutcome
  <2>4. LeadersSafe'
    BY <1>0, <1>e, <1>9 DEF LeadersSafe, LoadedOK, RecordError, CountOutcome
  <2>5. ErrorsAreCurrent'
    BY <1>0, <1>e, <1>9
    DEF ErrorsAreCurrent, FollowersSafe, LeadersSafe, RT!NoAnswer, RT!Value,
        RT!Timeout, RT!Error, RecordError, CountOutcome
  <2>. QED
    BY <2>1, <2>2, <2>3, <2>4, <2>5 DEF ErrorInv
<1>10. ASSUME NEW c \in Callers, ClearInFlight(c) PROVE ErrorInv'
  <2>1. ErrorIsOfFlight'
    BY <1>0, <1>e, <1>10
    DEF ErrorIsOfFlight, SingleFlight, Registered, Leading, LoadedOK,
        ClearInFlight, Unregister, ghostVars
  <2>2. FailureSeen'
    BY <1>0, <1>e, <1>10
    DEF FailureSeen, SingleFlight, Registered, Leading, LoadedOK, ClearInFlight,
        Unregister, ghostVars
  <2>3. FollowersSafe'
    BY <1>0, <1>e, <1>10
    DEF FollowersSafe, ErrorIsOfFlight, FailureSeen, ClearInFlight, Unregister,
        ghostVars
  <2>4. LeadersSafe'
    BY <1>0, <1>e, <1>10
    DEF LeadersSafe, LoadedOK, ClearInFlight, Unregister, ghostVars
  <2>5. ErrorsAreCurrent'
    BY <1>0, <1>e, <1>10
    DEF ErrorsAreCurrent, FollowersSafe, LeadersSafe, RT!NoAnswer, RT!Value,
        RT!Timeout, RT!Error, ClearInFlight, Unregister, ghostVars
  <2>. QED
    BY <2>1, <2>2, <2>3, <2>4, <2>5 DEF ErrorInv
<1>11. ASSUME NEW c \in Callers, Signal(c) PROVE ErrorInv'
  <2>1. ErrorIsOfFlight'
    BY <1>0, <1>e, <1>11
    DEF ErrorIsOfFlight, SingleFlight, Registered, Leading, LoadedOK, Signal,
        Outcome, WokenBy, WaitersOf, flightVars
  <2>2. FailureSeen'
    BY <1>0, <1>e, <1>11
    DEF FailureSeen, SingleFlight, Registered, Leading, LoadedOK, Signal, Outcome,
        WokenBy, WaitersOf, flightVars
  <2>3. FollowersSafe'
    BY <1>0, <1>e, <1>11
    DEF FollowersSafe, ErrorIsOfFlight, FailureSeen, Signal, Outcome, WokenBy,
        WaitersOf, flightVars
  <2>4. LeadersSafe'
    BY <1>0, <1>e, <1>11
    DEF LeadersSafe, LoadedOK, Signal, Outcome, WokenBy, WaitersOf, flightVars
  <2>5. ErrorsAreCurrent'
    BY <1>0, <1>e, <1>11
    DEF ErrorsAreCurrent, FollowersSafe, LeadersSafe, RT!NoAnswer, RT!Value,
        RT!Timeout, RT!Error, Signal, Outcome, WokenBy, WaitersOf, flightVars
  <2>. QED
    BY <2>1, <2>2, <2>3, <2>4, <2>5 DEF ErrorInv
<1>12. ASSUME NEW c \in Callers, WaitTimesOut(c) PROVE ErrorInv'
  <2>1. ErrorIsOfFlight'
    BY <1>0, <1>e, <1>12
    DEF ErrorIsOfFlight, SingleFlight, Registered, Leading, LoadedOK, WaitTimesOut,
        Raise, flightVars
  <2>2. FailureSeen'
    BY <1>0, <1>e, <1>12
    DEF FailureSeen, SingleFlight, Registered, Leading, LoadedOK, WaitTimesOut,
        Raise, flightVars
  <2>3. FollowersSafe'
    BY <1>0, <1>e, <1>12
    DEF FollowersSafe, ErrorIsOfFlight, FailureSeen, WaitTimesOut, Raise,
        flightVars
  <2>4. LeadersSafe'
    BY <1>0, <1>e, <1>12 DEF LeadersSafe, LoadedOK, WaitTimesOut, Raise, flightVars
  <2>5. ErrorsAreCurrent'
    BY <1>0, <1>e, <1>12
    DEF ErrorsAreCurrent, FollowersSafe, LeadersSafe, RT!NoAnswer, RT!Value,
        RT!Timeout, RT!Error, WaitTimesOut, Raise, flightVars
  <2>. QED
    BY <2>1, <2>2, <2>3, <2>4, <2>5 DEF ErrorInv
<1>13. ASSUME NEW c \in Callers, TakeError(c) PROVE ErrorInv'
  <2>1. ErrorIsOfFlight'
    BY <1>0, <1>e, <1>13
    DEF ErrorIsOfFlight, SingleFlight, Registered, Leading, LoadedOK, TakeError,
        ForgetError, Raise
  <2>2. FailureSeen'
    BY <1>0, <1>e, <1>13
    DEF FailureSeen, SingleFlight, Registered, Leading, LoadedOK, TakeError,
        ForgetError, Raise
  <2>3. FollowersSafe'
    BY <1>0, <1>e, <1>13
    DEF FollowersSafe, ErrorIsOfFlight, FailureSeen, TakeError, ForgetError, Raise
  <2>4. LeadersSafe'
    BY <1>0, <1>e, <1>13 DEF LeadersSafe, LoadedOK, TakeError, ForgetError, Raise
  <2>5. ErrorsAreCurrent'
    BY <1>0, <1>e, <1>13
    DEF ErrorsAreCurrent, FollowersSafe, LeadersSafe, RT!NoAnswer, RT!Value,
        RT!Timeout, RT!Error, TakeError, ForgetError, Raise
  <2>. QED
    BY <2>1, <2>2, <2>3, <2>4, <2>5 DEF ErrorInv
<1>14. ASSUME UNCHANGED <<flightVars, callVars, answer, sawFailure>> PROVE ErrorInv'
  BY <1>e, <1>14
  DEF ErrorInv, ErrorIsOfFlight, FailureSeen, FollowersSafe, LeadersSafe,
                    ErrorsAreCurrent, flightVars, callVars
<1>. QED
  BY <1>1, <1>2, <1>3, <1>4, <1>5, <1>6, <1>7, <1>8, <1>9, <1>10, <1>11, <1>12,
     <1>13, <1>14
  DEF Next, LeaderStep, FollowerStep, ElectStep, Peek, Invalidate, InvalidateAll,
      Expire, SourceChanges, vars, ghostVars

(* An error left behind by an earlier load never reaches a later request.  *)
THEOREM ErrorsStayCurrent == Spec => []ErrorsAreCurrent
<1>1. ErrorInv => ErrorsAreCurrent
  BY DEF ErrorInv
<1>. QED
  BY <1>1, InitTypeInv, NextTypeInv, InitFlightInv, NextFlightInv,
     InitErrorInv, NextErrorInv, PTL DEF Spec
==============================================================================
