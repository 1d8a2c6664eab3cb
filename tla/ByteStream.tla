------------------------------ MODULE ByteStream ------------------------------
(***************************************************************************)
(* What the ring of a live stream promises its viewers, however small the  *)
(* buffer they read it with.  The publisher produces bytes 0, 1, 2, ...; a *)
(* viewer joins at the live edge.  Each call hands it consecutive bytes of *)
(* the last Window, and over its life it gets no byte twice and none       *)
(* before an earlier one.  Bytes are lost in two ways: from a Window       *)
(* behind it may be moved to the live edge, and one that was lapped        *)
(* without notice goes on a whole number of Windows further.               *)
(***************************************************************************)
EXTENDS Integers, Sequences

CONSTANTS Readers,    \* the viewers of the stream
          Window      \* how many of the latest bytes are kept

VARIABLES produced,   \* number of bytes produced so far
          joined,     \* the viewers that have taken a position
          next,       \* next[r]: the byte after the last one r was handed
          handed      \* handed[r]: the bytes handed to r by its last call

svars == <<produced, joined, next, handed>>

Init ==
    /\ produced = 0
    /\ joined = {}
    /\ next = [r \in Readers |-> 0]
    /\ handed = [r \in Readers |-> <<>>]

Produce ==
    /\ \E n \in 1..Window : produced' = produced + n
    /\ UNCHANGED <<joined, next, handed>>

Join(r) ==
    /\ r \notin joined
    /\ joined' = joined \cup {r}
    /\ next' = [next EXCEPT ![r] = produced]
    /\ UNCHANGED <<produced, handed>>

\* Hand over n bytes from the first place that is still in the window, which is
\* the next byte due unless the viewer has been lapped.
Hand(r) ==
    /\ r \in joined
    /\ \E from \in next[r]..produced :
          /\ produced - from <= Window
          /\ (from - next[r]) % Window = 0
          /\ from = next[r] \/ produced - next[r] > Window
          /\ \E n \in 0..(produced - from) :
                /\ handed' = [handed EXCEPT ![r] = [i \in 1..n |-> from + i - 1]]
                /\ next' = [next EXCEPT ![r] = from + n]
    /\ UNCHANGED <<produced, joined>>

\* A viewer a whole window behind is moved to the live edge.
Skip(r) ==
    /\ r \in joined
    /\ produced - next[r] >= Window
    /\ next' = [next EXCEPT ![r] = produced]
    /\ handed' = [handed EXCEPT ![r] = <<>>]
    /\ UNCHANGED <<produced, joined>>

Next == Produce \/ \E r \in Readers : Join(r) \/ Hand(r) \/ Skip(r)

Spec == Init /\ [][Next]_svars
===============================================================================
