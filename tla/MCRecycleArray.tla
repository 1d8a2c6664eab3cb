---------------------------- MODULE MCRecycleArray ----------------------------
(* Instances of RecycleArray for TLC; the .cfg files choose the constants.   *)
EXTENDS RecycleArray, TLC

\* Two viewers are interchangeable in every safety property.
Sym == Permutations(Readers)
===============================================================================
