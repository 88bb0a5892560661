----------------------------- MODULE MC_ErtJobs -----------------------------
(* Instances of ErtJobs for TLC.                                           *)
EXTENDS ErtJobs, TLC

(* Job ids are interchangeable.  So are requests: a registry is named by   *)
(* the request that built it, and nothing else tells requests apart.       *)
JobSymmetry == Permutations(Jobs) \cup Permutations(Requests)
==============================================================================
