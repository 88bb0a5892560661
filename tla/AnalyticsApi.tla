---------------------------- MODULE AnalyticsApi ----------------------------
(* The endpoints that compute from data they are given: those of a live     *)
(* storm, of county impacts and industry losses, of the exposures, of the   *)
(* funds, and of fires, floods and the hazard maps.                         *)
EXTENDS StormApi, LossApi, FundApi, ExposuresApi, HazardApi

Next == StormNext \/ LossNext \/ HazardNext \/ ViewNext \/ FundNext \/ Answered

Spec == Init /\ [][Next]_vars
=============================================================================
