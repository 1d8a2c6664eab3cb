------------------------------- MODULE StreamKey -------------------------------
(***************************************************************************)
(* What a stream key promises the sessions that want it: a lock without a  *)
(* queue.  A session that finds the key free opens; it is granted the key  *)
(* if that is still free, or refused; it waits to be adopted, is served,   *)
(* ends, and only then yields the key, which nobody takes from it.  Every  *)
(* session goes this way once.                                             *)
(***************************************************************************)

CONSTANTS Sessions,   \* all who ever want the key
          Nobody

VARIABLES holder,     \* the session that has the key, or Nobody
          phase       \* phase[s]: how far session s is

kvars == <<holder, phase>>

Init ==
    /\ holder = Nobody
    /\ phase = [s \in Sessions |-> "new"]

Enter(s, from, to) ==
    /\ phase[s] \in from
    /\ phase' = [phase EXCEPT ![s] = to]

\* The key is free when a session is made; by the time it asks for the key
\* another one may have it.
Open(s) == holder = Nobody /\ Enter(s, {"new"}, "open") /\ UNCHANGED holder

Grant(s) == holder = Nobody /\ Enter(s, {"open"}, "waiting") /\ holder' = s

\* A session may be refused, or give up, although the key is free.
Refuse(s) == Enter(s, {"open"}, "gone") /\ UNCHANGED holder

Serve(s) == holder = s /\ Enter(s, {"waiting"}, "served") /\ UNCHANGED holder

\* Whatever ends a session, served or still waiting, the key stays its own...
End(s) == holder = s /\ Enter(s, {"waiting", "served"}, "ending") /\ UNCHANGED holder

\* ... until it gives it up itself.
Yield(s) == holder = s /\ Enter(s, {"ending"}, "gone") /\ holder' = Nobody

Next ==
    \E s \in Sessions :
        Open(s) \/ Grant(s) \/ Refuse(s) \/ Serve(s) \/ End(s) \/ Yield(s)

Spec == Init /\ [][Next]_kvars

\* The sessions that have been granted the key and have not yielded it are the
\* holder, so there is one at most.
Exclusive ==
    \A s \in Sessions : phase[s] \in {"waiting", "served", "ending"} <=> holder = s
===============================================================================
