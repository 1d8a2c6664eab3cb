------------------------------- MODULE MCEgress -------------------------------
(* Instances of Egress for TLC; the .cfg files choose the constants.         *)
EXTENDS Egress, TLC
===============================================================================
