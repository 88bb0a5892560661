---------------------------- MODULE MC_FactCache ----------------------------
(* The instance of FactCache for TLC: threads and datasets are model       *)
(* values.  Both properties of liveness and the refinement are checked on  *)
(* it, so threads are not taken to be interchangeable.                     *)
EXTENDS FactCache
==============================================================================
