---------------------------- MODULE MCStreamSession ----------------------------
(* Instances of StreamSession for TLC; the .cfg files choose the constants.  *)
EXTENDS StreamSession, TLC

\* Workers, publishers and pullers are interchangeable in the safety
\* properties.
Sym == Permutations(Workers) \cup Permutations(Pubs) \cup Permutations(Pulls)
===============================================================================
