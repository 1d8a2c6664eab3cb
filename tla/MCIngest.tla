-------------------------------- MODULE MCIngest --------------------------------
(* Instances of Ingest for TLC; the .cfg files choose the constants.         *)
EXTENDS Ingest, TLC

\* The ids of the other publishers are interchangeable.
Sym == Permutations(Ids \ {Id})
===============================================================================
