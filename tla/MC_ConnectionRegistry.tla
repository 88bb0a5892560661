----------------------- MODULE MC_ConnectionRegistry -----------------------
(* Instances of ConnectionRegistry for TLC.                                *)
EXTENDS ConnectionRegistry, TLC

(* Threads are interchangeable, and so are connections.                    *)
RegistrySymmetry == Permutations(Threads) \cup Permutations(Conns)
==============================================================================
