------------------------------- MODULE Absent -------------------------------
(* What the modules that compute answers share: Python's None, a value     *)
(* named for the rest of a computation, [x for x in s if Test(x)] and the  *)
(* two sorts, of a set and (a stable one) of a list. A rank is the number  *)
(* of members before it.                                                   *)
EXTENDS Integers, SequencesExt
CONSTANT None
Given(x, Op(_)) == Op(x)
Sift(s, Test(_)) == FlattenSeq([i \in DOMAIN s |-> IF Test(s[i]) THEN <<s[i]>> ELSE <<>>])
Ordered(S, Less(_, _)) == [i \in 1..Cardinality(S) |-> CHOOSE x \in S : Cardinality({y \in S : Less(y, x)}) = i - 1]
Sorted(s, Less(_, _)) ==
  LET at == Ordered(DOMAIN s, LAMBDA i, k : Less(s[i], s[k]) \/ (~ Less(s[k], s[i]) /\ i < k))
  IN [i \in DOMAIN s |-> s[at[i]]]
=============================================================================
