---------------------------- MODULE MC_EdmLinkage ----------------------------
(* Instances of EdmLinkage for TLC.                                        *)
EXTENDS EdmLinkage, TLC

(* Requests that may do the same things are interchangeable.               *)
LinkageSymmetry == Permutations(Editors) \cup Permutations(Edms)
==============================================================================
