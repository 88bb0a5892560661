--------------------------- MODULE MC_LiveBundle ---------------------------
(* One request, with the wind map or without; the world takes one step.    *)
EXTENDS LiveBundle

MCOptionSets == {{}, {"wind"}}
=============================================================================
