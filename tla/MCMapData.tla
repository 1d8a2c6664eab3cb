------------------------------ MODULE MCMapData ------------------------------
(* Instances of MapData for TLC; the .cfg files choose the constants.        *)
EXTENDS MapData, TLC

CONSTANTS k1, k2, k3, v1

\* One viewer, of the first key.
PlaysK1 == [v \in {v1} |-> k1]
===============================================================================
