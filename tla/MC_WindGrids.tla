---------------------------- MODULE MC_WindGrids ----------------------------
(* Two threads ask for two boxes of one chunk; each cache has room for one.  *)
EXTENDS WindGrids

MCBoxes == [b1 |-> 1, b2 |-> 1]
=============================================================================
