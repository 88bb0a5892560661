--------------------------- MODULE MC_FactLoading ---------------------------
(* Instances of FactLoading for TLC.                                       *)
EXTENDS FactLoading, TLC

(* Batches are interchangeable, and so are datasets.                       *)
BatchSymmetry == Permutations(Batches) \cup Permutations(Datasets)
==============================================================================
