------------------------------- MODULE Tallies -------------------------------
(***************************************************************************)
(* What the limiters and the ring map count with: a sum over a set, and a  *)
(* queue of time stamps that is trimmed from its front.                    *)
(*                                                                         *)
(* A queue of ages is oldest first.  The code pops it while its front is   *)
(* too old (CSLSBitrateLimit::cleanup_old_data, the request times of       *)
(* CSLSListener): a prefix goes, up to the first entry that is young       *)
(* enough, whatever stands behind that one.                                *)
(***************************************************************************)
EXTENDS Integers, Sequences, FiniteSetsExt

\* The sum of f over S.
SumOf(f, S) == MapThenSumSet(LAMBDA x : f[x], S)

\* How many entries at the front are older than oldest.
Stale(ages, oldest) ==
    CHOOSE n \in 0 .. Len(ages) :
        /\ \A i \in 1 .. n : ages[i] > oldest
        /\ n < Len(ages) => ages[n + 1] <= oldest

\* The queue q without its n first entries.
DropFirst(q, n) == SubSeq(q, n + 1, Len(q))

\* A queue of ages without the stale ones at its front.
Trim(ages, oldest) == DropFirst(ages, Stale(ages, oldest))

\* Oldest first.
OldestFirst(ages) ==
    \A i, j \in DOMAIN ages : i <= j => ages[i] >= ages[j]
===============================================================================
