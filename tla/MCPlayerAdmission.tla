--------------------------- MODULE MCPlayerAdmission ---------------------------
(* Instances of PlayerAdmission for TLC; the .cfg files choose the constants. *)
EXTENDS PlayerAdmission, TLC

\* Viewers, keys and addresses are interchangeable.
Sym == Permutations(Conns) \cup Permutations(Keys) \cup Permutations(Ips)
===============================================================================
