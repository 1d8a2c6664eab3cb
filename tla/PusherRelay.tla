------------------------------- MODULE PusherRelay -------------------------------
(***************************************************************************)
(* The pushers of one publisher session.  The publisher's webhook names    *)
(* upstreams; CSLSPublisher makes a CSLSPusherManager (mode "all") that    *)
(* opens one CSLSPusher per upstream.  A pusher that is lost is reopened   *)
(* through a list of managers that the worker which lost it keeps          *)
(* (CSLSGroup::check_reconnect_relay).  The manager is freed by the        *)
(* publisher's teardown while workers may hold a pointer to it, and the    *)
(* whole set of workers is retired by a hot reload once it serves nobody.  *)
(* Once the publisher is unlisted another one may register the same key;   *)
(* of that one only what it does to these pushers is modelled.             *)
(*                                                                         *)
(* op[w] is where worker w stands inside its loop.  What follows a call of *)
(* a freed manager, or a retirement pass that goes astray, is undefined:   *)
(* nothing is started after it, and the properties say nothing of it.      *)
(***************************************************************************)
EXTENDS Integers, FiniteSets

CONSTANTS
    Workers,    \* worker threads
    Home,       \* the worker that serves the publisher
    Upstreams,  \* how many URLs; numbered in the order of the manager's map
    Pushers,    \* CSLSPusher objects that can exist at a time
    Interval    \* m_reconnect_interval

ASSUME RelayAssumption ==
    /\ Home \in Workers /\ Workers \cap {"none", "handoff"} = {}
    /\ Upstreams \in Nat \ {0} /\ Interval \in Nat \ {0}

Urls == 1 .. Upstreams

VARIABLES
    pub,       \* the publisher: "live", then its uninit(): "detached", "unlisted", "gone"
    other,     \* the worker that serves another publisher of the key, or "none"
    mgr,       \* its m_dynamic_pusher_manager: "none", "live", "freed"
    waiting,   \* m_map_reconnect_relay: the age of a url's entry, or NotWaiting
    pusher,    \* pusher[p]: its url, where it is, m_relay_manager set, dead or kicked
    queued,    \* workers whose m_list_reconnect_relay_manager holds the manager
    op,        \* op[w]: the operation worker w is inside
    reload,    \* m_reload of the workers
    exited,    \* workers that have left their loop
    workers,   \* m_workers: those that check_invalid() has not deleted
    stopped,   \* CSLSManager::stop() is done
    astray,    \* check_invalid() went on with stale iterators and came to grief
    freedUse,  \* a freed manager has been called
    tried,     \* age of the last attempt to open a url
    early      \* a url was retried before its interval was over

lists == <<waiting, queued>>
lifetimes == <<other, reload, exited, workers, stopped, astray>>
ghosts == <<tried, early>>
vars == <<pub, mgr, lists, pusher, op, lifetimes, freedUse, ghosts>>

NotWaiting == -1
Absent == [url |-> 0, at |-> "none", bound |-> FALSE, dead |-> FALSE]
Idle == [pc |-> "idle", next |-> 1, pusher |-> "none", noPub |-> FALSE, ret |-> "err", all |-> "ok"]

Exists(p) == pusher[p].at # "none"
Defined == ~freedUse /\ ~astray
Free(w) == w \notin exited /\ op[w].pc = "idle" /\ Defined
Goto(w, pc) == op' = [op EXCEPT ![w].pc = pc]
CallsManager == freedUse' = (freedUse \/ mgr = "freed")
Return(w) == op' = [op EXCEPT ![w] = Idle]

Init ==
    /\ pub = "live" /\ mgr = "none"
    /\ waiting = [u \in Urls |-> NotWaiting]
    /\ pusher = [p \in Pushers |-> Absent]
    /\ queued = {}
    /\ op = [w \in Workers |-> Idle]
    /\ other = "none" /\ reload = FALSE /\ exited = {} /\ workers = Workers
    /\ stopped = FALSE /\ astray = FALSE /\ freedUse = FALSE
    /\ tried = [u \in Urls |-> Interval] /\ early = FALSE

\* The manager's m_rwclock is held through a whole reconnect_all().
LockFree == \A w \in Workers : op[w].pc # "retry"

\* CSLSRelayManager::connect(): a pusher bound to the manager, in the hand-off
\* list.  It may fail to resolve, to open a socket or to reach the upstream.
Opened(u) ==
    \E p \in Pushers :
        /\ ~Exists(p)
        /\ pusher' = [pusher EXCEPT ![p] =
                        [url |-> u, at |-> "handoff", bound |-> TRUE, dead |-> FALSE]]

-------------------------------------------------------------------------------
(* The publisher starts its pushers: try_spawn_dynamic_pusher().             *)

Spawn ==
    /\ Free(Home) /\ pub = "live" /\ mgr = "none"
    /\ mgr' = "live"
    /\ Goto(Home, "start")
    /\ UNCHANGED <<pub, lists, pusher, lifetimes, freedUse, ghosts>>

\* connect_all(): the next upstream; one that fails is entered for a retry.
ConnectAll ==
    LET u == op[Home].next IN
    /\ op[Home].pc = "start"
    /\ \/ /\ Opened(u)
          /\ UNCHANGED waiting
       \/ /\ LockFree
          /\ waiting' = [waiting EXCEPT ![u] = 0]
          /\ UNCHANGED pusher
    /\ tried' = [tried EXCEPT ![u] = 0]
    /\ IF u = Upstreams THEN Return(Home) ELSE op' = [op EXCEPT ![Home].next = u + 1]
    /\ UNCHANGED <<pub, mgr, queued, lifetimes, freedUse, early>>

-------------------------------------------------------------------------------
(* The publisher's teardown: CSLSPublisher::uninit().                        *)

\* detach_child_relays(): every pusher loses its manager and is kicked.
Detach ==
    /\ Free(Home) /\ pub = "live"
    /\ pub' = "detached"
    /\ pusher' = IF mgr = "none" THEN pusher
                 ELSE [p \in Pushers |-> IF Exists(p)
                            THEN [pusher[p] EXCEPT !.bound = FALSE, !.dead = TRUE]
                            ELSE Absent]
    /\ Goto(Home, "teardown")
    /\ UNCHANGED <<mgr, lists, lifetimes, freedUse, ghosts>>

\* The ring and then the entry in CSLSMapPublisher go.
Unlist ==
    /\ op[Home].pc = "teardown" /\ pub = "detached"
    /\ pub' = "unlisted"
    /\ UNCHANGED <<mgr, lists, pusher, op, lifetimes, freedUse, ghosts>>

FreeManager ==
    /\ op[Home].pc = "teardown" /\ pub = "unlisted"
    /\ pub' = "gone"
    /\ mgr' = IF mgr = "live" THEN "freed" ELSE mgr
    /\ Return(Home)
    /\ UNCHANGED <<lists, pusher, lifetimes, freedUse, ghosts>>

-------------------------------------------------------------------------------
(* A pusher on a worker.                                                     *)

\* check_new_role().
Adopt(w, p) ==
    /\ Free(w) /\ pusher[p].at = "handoff"
    /\ pusher' = [pusher EXCEPT ![p].at = w]
    /\ UNCHANGED <<pub, mgr, lists, op, lifetimes, freedUse, ghosts>>

Uninit(w, p) == op' = [op EXCEPT ![w] = [Idle EXCEPT !.pc = "uninit", !.pusher = p]]

\* An adoption that fails, or one that came too late (reap_unadopted()): the
\* pusher is torn down, and no worker queues its manager.
Discard(w, p) ==
    /\ Free(w) /\ pusher[p].at = "handoff"
    /\ pusher' = [pusher EXCEPT ![p].at = w]
    /\ Uninit(w, p)
    /\ UNCHANGED <<pub, mgr, lists, lifetimes, freedUse, ghosts>>

\* Its upstream is gone, or it has had nothing to send for its idle timeout.
Die(p) ==
    /\ Exists(p) /\ ~pusher[p].dead /\ Defined
    /\ pusher' = [pusher EXCEPT ![p].dead = TRUE]
    /\ UNCHANGED <<pub, mgr, lists, op, lifetimes, freedUse, ghosts>>

\* Mutant: a detached pusher is skipped altogether.
ReapBound(w, p) ==
    /\ Free(w) /\ pusher[p].at = w /\ pusher[p].dead /\ pusher[p].bound
    /\ queued' = queued \cup {w}
    /\ Uninit(w, p)
    /\ UNCHANGED <<pub, mgr, waiting, pusher, lifetimes, freedUse, ghosts>>

\* check_invalid_sock(): the manager of a lost pusher is queued, once; a
\* detached pusher has none.
Reap(w, p) ==
    /\ Free(w) /\ pusher[p].at = w /\ pusher[p].dead
    /\ queued' = IF pusher[p].bound THEN queued \cup {w} ELSE queued
    /\ Uninit(w, p)
    /\ UNCHANGED <<pub, mgr, waiting, pusher, lifetimes, freedUse, ghosts>>

\* CSLSRelay::uninit() loads the pointer again.  A detached pusher is done.
UninitLoad(w) ==
    LET p == op[w].pusher IN
    /\ op[w].pc = "uninit"
    /\ IF pusher[p].bound
       THEN Goto(w, "call") /\ UNCHANGED pusher
       ELSE Return(w) /\ pusher' = [pusher EXCEPT ![p] = Absent]
    /\ UNCHANGED <<pub, mgr, lists, lifetimes, freedUse, ghosts>>

\* Then it calls add_reconnect_stream().
AddReconnectStream(w) ==
    LET p == op[w].pusher IN
    /\ op[w].pc = "call" /\ LockFree
    /\ CallsManager
    /\ waiting' = [waiting EXCEPT ![pusher[p].url] = 0]
    /\ pusher' = [pusher EXCEPT ![p] = Absent]
    /\ Return(w)
    /\ UNCHANGED <<pub, mgr, queued, lifetimes, ghosts>>

-------------------------------------------------------------------------------
(* Retries: check_reconnect_relay() and CSLSPusherManager::reconnect().      *)

\* The manager's call: is a publisher registered for its key, this one or
\* another?
Registered == pub \in {"live", "detached"} \/ other # "none"
Reconnect(w) ==
    /\ Free(w) /\ w \in queued
    /\ CallsManager
    /\ op' = [op EXCEPT ![w] = [Idle EXCEPT !.pc = "looked", !.noPub = ~Registered]]
    /\ UNCHANGED <<pub, mgr, lists, pusher, lifetimes, ghosts>>

\* Mutant: reconnect_all() does not take the manager's lock.
ReconnectUnlocked(w) ==
    /\ op[w].pc = "looked"
    /\ CallsManager
    /\ Goto(w, "retry")
    /\ UNCHANGED <<pub, mgr, lists, pusher, lifetimes, ghosts>>

\* reconnect_all() takes the manager's lock.
ReconnectLocked(w) ==
    /\ op[w].pc = "looked" /\ LockFree
    /\ CallsManager
    /\ Goto(w, "retry")
    /\ UNCHANGED <<pub, mgr, lists, pusher, lifetimes, ghosts>>

\* What the loop goes on with: an entry's result joins the pass's, and stays in
\* the variable the next skipped entry reads.
Next1(w, ret, all) ==
    op' = [op EXCEPT ![w].next = @ + 1, ![w].ret = ret,
                     ![w].all = IF all = "ok" THEN @ ELSE "err"]

At(w) == op[w].pc = "retry" /\ op[w].next \in Urls
Due(w) == waiting[op[w].next] >= Interval

\* An entry that is not due, or none for this url.
RetrySkip(w) ==
    /\ At(w) /\ ~Due(w)
    /\ Next1(w, op[w].ret, IF waiting[op[w].next] = NotWaiting THEN "ok" ELSE op[w].ret)
    /\ CallsManager
    /\ UNCHANGED <<pub, mgr, lists, pusher, lifetimes, ghosts>>

\* A due entry while the publisher is away: it waits for another interval.
RetryNoPublisher(w) ==
    /\ At(w) /\ Due(w) /\ op[w].noPub
    /\ waiting' = [waiting EXCEPT ![op[w].next] = 0]
    /\ Next1(w, op[w].ret, op[w].ret)
    /\ CallsManager
    /\ UNCHANGED <<pub, mgr, queued, pusher, lifetimes, ghosts>>

Attempted(u) ==
    /\ tried' = [tried EXCEPT ![u] = 0]
    /\ early' = (early \/ tried[u] < Interval)

\* Mutant: a failed retry leaves the entry's time as it was.
RetryFailsAtOnce(w) ==
    /\ At(w) /\ Due(w) /\ ~op[w].noPub
    /\ Attempted(op[w].next)
    /\ Next1(w, "err", "err")
    /\ CallsManager
    /\ UNCHANGED <<pub, mgr, lists, pusher, lifetimes>>

RetryFails(w) ==
    /\ At(w) /\ Due(w) /\ ~op[w].noPub
    /\ Attempted(op[w].next)
    /\ waiting' = [waiting EXCEPT ![op[w].next] = 0]
    /\ Next1(w, "err", "err")
    /\ CallsManager
    /\ UNCHANGED <<pub, mgr, queued, pusher, lifetimes>>

\* Mutant: the entry of a url that is open again is kept.
RetrySucceedsKeeps(w) ==
    /\ At(w) /\ Due(w) /\ ~op[w].noPub
    /\ Attempted(op[w].next)
    /\ Opened(op[w].next)
    /\ waiting' = [waiting EXCEPT ![op[w].next] = 0]
    /\ Next1(w, "ok", "ok")
    /\ CallsManager
    /\ UNCHANGED <<pub, mgr, queued, lifetimes>>

RetrySucceeds(w) ==
    /\ At(w) /\ Due(w) /\ ~op[w].noPub
    /\ Attempted(op[w].next)
    /\ Opened(op[w].next)
    /\ waiting' = [waiting EXCEPT ![op[w].next] = NotWaiting]
    /\ Next1(w, "ok", "ok")
    /\ CallsManager
    /\ UNCHANGED <<pub, mgr, queued, lifetimes>>

\* The manager leaves the worker's list when the pass reports success.
RetryDone(w) ==
    /\ op[w].pc = "retry" /\ op[w].next \notin Urls
    /\ queued' = IF op[w].all = "ok" THEN queued \ {w} ELSE queued
    /\ CallsManager
    /\ Return(w)
    /\ UNCHANGED <<pub, mgr, waiting, pusher, lifetimes, ghosts>>

-------------------------------------------------------------------------------
(* Another publisher of the key, served by w.  (The accept of one may be under *)
(* way when a reload closes the listeners.)                                    *)

OtherComes(w) ==
    /\ Free(w) /\ ~Registered
    /\ other' = w
    /\ UNCHANGED <<pub, mgr, lists, pusher, op, reload, exited, workers, stopped, astray,
                   freedUse, ghosts>>

OtherLeaves(w) ==
    /\ Free(w) /\ other = w
    /\ other' = "none"
    /\ UNCHANGED <<pub, mgr, lists, pusher, op, reload, exited, workers, stopped, astray,
                   freedUse, ghosts>>

-------------------------------------------------------------------------------
(* The hot reload: CSLSManager::reload(), check_invalid() and stop().        *)

Reload ==
    /\ ~reload /\ Defined
    /\ reload' = TRUE
    /\ UNCHANGED <<pub, other, mgr, lists, pusher, op, exited, workers, stopped, astray,
                   freedUse, ghosts>>

Serves(w) == (w = Home /\ pub # "gone") \/ other = w \/ \E p \in Pushers : pusher[p].at = w

\* CSLSGroup::handler(): a reloaded worker that serves nobody leaves.
Exit(w) ==
    /\ reload /\ Free(w) /\ ~Serves(w)
    /\ exited' = exited \cup {w}
    /\ UNCHANGED <<pub, other, mgr, lists, pusher, op, reload, workers, stopped, astray,
                   freedUse, ghosts>>

\* A pass of check_invalid() deletes the workers it finds out of their loop.
\* erase() invalidates the iterators the pass goes on with.  In the build it then
\* skips a worker or sees the last one twice, the place behind the vector's end
\* still holding its pointer: harmless, unless it deletes a second worker.  Then
\* the outcome is undefined, be it what was meant or not.
CheckInvalid ==
    /\ reload /\ Defined
    /\ \E found \in SUBSET (exited \cap workers) :
          /\ found # {}
          /\ workers' = workers \ found
          /\ astray' \in IF \E w \in found : found = {w} THEN {FALSE} ELSE BOOLEAN
    /\ UNCHANGED <<pub, other, mgr, lists, pusher, op, reload, exited, stopped, freedUse, ghosts>>

\* No worker is left: stop() releases the pushers nobody has adopted.
Stop ==
    /\ reload /\ workers = {} /\ ~stopped /\ Defined
    /\ stopped' = TRUE
    /\ freedUse' = (mgr = "freed" /\ \E p \in Pushers : Exists(p) /\ pusher[p].bound)
    /\ pusher' = [p \in Pushers |-> Absent]
    /\ UNCHANGED <<pub, other, mgr, lists, op, reload, exited, workers, astray, ghosts>>

Until(n, bound) == IF n < bound THEN n + 1 ELSE n

\* A unit of time passes; what a worker is inside takes far less.
Clock ==
    /\ \A w \in Workers : op[w].pc = "idle"
    /\ Defined
    /\ waiting' = [u \in Urls |-> IF waiting[u] = NotWaiting THEN NotWaiting
                                  ELSE Until(waiting[u], Interval)]
    /\ tried' = [u \in Urls |-> Until(tried[u], Interval)]
    /\ UNCHANGED <<pub, mgr, queued, pusher, op, lifetimes, freedUse, early>>

-------------------------------------------------------------------------------
Retry(w) ==
    RetrySkip(w) \/ RetryNoPublisher(w) \/ RetryFails(w) \/ RetrySucceeds(w) \/ RetryDone(w)

\* What a worker does in the course of its loop.
Work(w) ==
    \/ \E p \in Pushers : Adopt(w, p) \/ Discard(w, p) \/ Reap(w, p)
    \/ UninitLoad(w) \/ AddReconnectStream(w)
    \/ Reconnect(w) \/ ReconnectLocked(w) \/ Retry(w)
    \/ OtherComes(w) \/ OtherLeaves(w) \/ Exit(w)

Next ==
    \/ \E w \in Workers : Work(w)
    \/ Spawn \/ ConnectAll \/ Detach \/ Unlist \/ FreeManager
    \/ \E p \in Pushers : Die(p)
    \/ Reload \/ CheckInvalid \/ Stop \/ Clock

Spec == Init /\ [][Next]_vars

\* Each worker goes on with its loop, through all of it; the main loop keeps
\* checking a retired server.  A pusher that gets nothing to send, the publisher
\* gone and no other one feeding the ring of its key, runs into its idle timeout.
Loop(w) ==
    \/ w = Home /\ (ConnectAll \/ Unlist \/ FreeManager)
    \/ UninitLoad(w) \/ AddReconnectStream(w) \/ ReconnectLocked(w) \/ Retry(w)

Starve(p) == pub = "gone" /\ other = "none" /\ Die(p)

Fairness ==
    /\ \A w \in Workers :
        /\ WF_vars(Loop(w))
        /\ WF_vars(Exit(w))
        /\ \A p \in Pushers : WF_vars(Reap(w, p))
    /\ \A p \in Pushers : WF_vars(Starve(p))
    /\ WF_vars(CheckInvalid) /\ WF_vars(Stop)

FairSpec == Spec /\ Fairness

-------------------------------------------------------------------------------
(* Properties *)

StateOK ==
    /\ pub \in {"live", "detached", "unlisted", "gone"}
    /\ mgr \in {"none", "live", "freed"}
    /\ waiting \in [Urls -> NotWaiting .. Interval]
    /\ pusher \in [Pushers -> [url : 0 .. Upstreams, at : {"none", "handoff"} \cup Workers,
                               bound : BOOLEAN, dead : BOOLEAN]]
    /\ queued \subseteq Workers /\ exited \subseteq Workers /\ workers \subseteq Workers
    /\ other \in Workers \cup {"none"}
    /\ {reload, stopped, astray, freedUse, early} \subseteq BOOLEAN
    /\ tried \in [Urls -> 0 .. Interval]

\* The variables keep their types, and only one worker is inside the manager's
\* retry pass.
TypeOK == StateOK /\ Cardinality({w \in Workers : op[w].pc = "retry"}) <= 1

\* An upstream is pushed to by one pusher at a time, although several workers
\* may hold the manager in their lists and a pusher can be lost while it is
\* being started, adopted or reopened.
OnePusher ==
    ~freedUse => \A u \in Urls :
        Cardinality({p \in Pushers : Exists(p) /\ pusher[p].url = u /\ ~pusher[p].dead}) <= 1

\* An upstream is not retried before its interval is over (reconnect_interval),
\* however many workers retry it.
RetrySpaced == ~freedUse => ~early

\* A retired set of workers ends once the publisher has left, if no other one
\* takes its key: no pusher, retry or list entry keeps a worker alive.  (Unless a
\* freed manager is called or check_invalid() goes astray.)
Retires == reload /\ pub = "gone" ~> stopped \/ other # "none" \/ ~Defined

\* "so we never enqueue (and later deref) a freed manager" (SLSGroup.cpp): no
\* worker and no pusher calls the manager after the publisher freed it.
NoFreedManager == ~freedUse

-------------------------------------------------------------------------------
(* The inductive invariant                                                   *)

OpShape ==
    /\ op \in [Workers -> [pc : {"idle", "start", "teardown", "uninit", "call", "looked", "retry"},
                           next : Nat \ {0}, pusher : Pushers \cup {"none"},
                           noPub : BOOLEAN, ret : {"ok", "err"}, all : {"ok", "err"}]]
    /\ \A w \in Workers :
          /\ op[w].pc = "idle" => op[w] = Idle
          /\ w \in exited => op[w].pc = "idle"
          /\ op[w].pc \in {"uninit", "call"} =>
                op[w].pusher \in Pushers /\ pusher[op[w].pusher].at = w

\* Only a worker that has left its loop is deleted.
DeletedLeft == Workers \ workers \subseteq exited

OneRetry == \A v, w \in Workers : op[v].pc = "retry" /\ op[w].pc = "retry" => v = w

PusherShape ==
    \A p \in Pushers : Exists(p) =>
        pusher[p].url \in Urls /\ (pusher[p].bound \/ pusher[p].dead)

\* For each upstream there is one token: the pusher that will enter it for a
\* retry when it is lost, or the entry itself.
Calls(p) == \E w \in Workers : op[w].pc = "call" /\ op[w].pusher = p
Holds(p) == Exists(p) /\ (pusher[p].bound \/ Calls(p))
OneToken ==
    \A p \in Pushers : Holds(p) =>
        /\ waiting[pusher[p].url] = NotWaiting
        /\ \A q \in Pushers : Holds(q) /\ pusher[q].url = pusher[p].url => q = p

\* An upstream that has not been opened yet has none.
Unopened(u) == waiting[u] = NotWaiting /\ \A p \in Pushers : Holds(p) => pusher[p].url # u
StartShape ==
    /\ mgr = "none" => /\ \A p \in Pushers : ~Exists(p)
                       /\ \A u \in Urls : waiting[u] = NotWaiting
    /\ op[Home].pc = "start" =>
          /\ mgr # "none" /\ op[Home].next \in Urls
          /\ \A u \in Urls : u >= op[Home].next => Unopened(u)

\* An entry is no older than the last attempt.
EntriesAreLater ==
    /\ ~early
    /\ \A u \in Urls : waiting[u] # NotWaiting => waiting[u] <= tried[u]

IInv ==
    /\ StateOK /\ OpShape /\ DeletedLeft /\ OneRetry /\ PusherShape
    /\ OneToken /\ StartShape /\ EntriesAreLater
===============================================================================
