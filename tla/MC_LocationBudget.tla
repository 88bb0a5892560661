-------------------------- MODULE MC_LocationBudget --------------------------
(* Three threads; a minute of three ticks and room for two grids of the      *)
(* larger size less one location.                                            *)
EXTENDS LocationBudget, TLC

CONSTANT MaxClock  \* bound: the length of a behaviour

Bounded == clock <= MaxClock
Symmetry == Permutations(Threads)
=============================================================================
