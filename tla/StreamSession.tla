----------------------------- MODULE StreamSession -----------------------------
(***************************************************************************)
(* One stream key and the sessions that compete for it: publishers         *)
(* (encoders connecting) and pullers (this server fetching the stream from *)
(* an upstream).  A session owns the key through its entry in              *)
(* CSLSMapPublisher and writes into the ring that CSLSMapData keeps for    *)
(* the key; the two maps have a lock each and are never changed together.  *)
(*                                                                         *)
(* A worker thread runs its loop (CSLSGroup::handler) over the roles it    *)
(* has adopted, its listeners included, so a connection is accepted,       *)
(* adopted, served and torn down by workers, each in several steps between *)
(* which the other workers run.  op[w] is where worker w stands inside     *)
(* such an operation.  The disconnect endpoint and the peers are the       *)
(* environment.                                                            *)
(***************************************************************************)
EXTENDS Integers, FiniteSets

CONSTANTS
    Workers,     \* worker threads
    Pubs,        \* incoming publisher connections, one CSLSPublisher each
    Pulls,       \* pull attempts, one CSLSPuller each
    Capacity,    \* data roles a worker adopts at most (worker_connections)
    NoRole

Roles == Pubs \cup Pulls

ASSUME RolesAssumption == NoRole \notin Roles /\ Pubs \cap Pulls = {}
ASSUME CapacityAssumption == Capacity \in Nat

VARIABLES
    entry,      \* m_map_push_2_publisher[key]: the registered role, or NoRole
    ring,       \* m_map_array[key]: the role whose add() allocated it, or NoRole
    used,       \* roles that have been constructed
    handoff,    \* CSLSRoleList: accepted, not yet adopted
    map,        \* map[w]: m_map_role of worker w
    op,         \* op[w]: the operation worker w is inside
    sock,       \* sock[r]: "up", "broken" (peer gone, not noticed), "closed"
    kicked,     \* m_kick_requested
    ringAdded,  \* m_ring_added
    recent      \* has_recent_recv_data(): media within the last second

maps == <<entry, ring>>
flags == <<sock, kicked, ringAdded, recent>>
vars == <<maps, used, handoff, map, op, flags>>

Idle == [pc |-> "idle", role |-> NoRole, rest |-> {}]
At(w, pc) == op[w].pc = pc
Goto(w, pc, r) == op' = [op EXCEPT ![w] = [pc |-> pc, role |-> r, rest |-> @.rest]]
Return(w) == op' = [op EXCEPT ![w] = Idle]

Init ==
    /\ entry = NoRole
    /\ ring = NoRole
    /\ used = {}
    /\ handoff = {}
    /\ map = [w \in Workers |-> {}]
    /\ op = [w \in Workers |-> Idle]
    /\ sock = [r \in Roles |-> "up"]
    /\ kicked = [r \in Roles |-> FALSE]
    /\ ringAdded = [r \in Roles |-> FALSE]
    /\ recent = [r \in Roles |-> FALSE]

-------------------------------------------------------------------------------
(* Accepting a publisher: the publisher branch of CSLSListener::handler.     *)

\* Mutant: what get_publisher() found is not compared with null.
AcceptUnchecked(w, r) ==
    /\ At(w, "idle")
    /\ r \in Pubs \ used
    /\ Goto(w, "incumbent", entry)
    /\ UNCHANGED <<maps, used, handoff, map, flags>>

\* get_publisher(key).  Finding none, the publisher object is made; finding
\* one, the listener holds a reference to it from here on.
AcceptLookup(w, r) ==
    /\ At(w, "idle")
    /\ r \in Pubs \ used
    /\ IF entry = NoRole
       THEN Goto(w, "make", r) /\ used' = used \cup {r}
       ELSE Goto(w, "incumbent", entry) /\ UNCHANGED used
    /\ UNCHANGED <<maps, handoff, map, flags>>

\* Mutant: a takeover frees the key at once, before the incumbent is torn down.
IncumbentEvicted(w) ==
    /\ At(w, "incumbent")
    /\ LET e == op[w].role IN
           IF e \in Pubs /\ recent[e]
           THEN UNCHANGED <<kicked, entry>>
           ELSE /\ kicked' = [kicked EXCEPT ![e] = TRUE]
                /\ entry' = IF entry = e THEN NoRole ELSE entry
    /\ Return(w)
    /\ UNCHANGED <<ring, used, handoff, map, sock, ringAdded, recent>>

\* The active-incumbent guard: a publisher that is delivering is protected, a
\* quiet one or a puller is marked for teardown.  The newcomer is refused
\* either way and may come again.
Incumbent(w) ==
    /\ At(w, "incumbent")
    /\ LET e == op[w].role IN
           kicked' = IF e \in Pubs /\ recent[e] THEN kicked
                                                ELSE [kicked EXCEPT ![e] = TRUE]
    /\ Return(w)
    /\ UNCHANGED <<maps, used, handoff, map, sock, ringAdded, recent>>

\* Mutant: the newcomer is registered although the key is taken.
RegisterBlindly(w) ==
    /\ At(w, "make")
    /\ entry' = op[w].role
    /\ Goto(w, "push", op[w].role)
    /\ UNCHANGED <<ring, used, handoff, map, flags>>

\* set_push_2_publisher() refuses a key that is taken; the publisher has no
\* maps set yet, so its uninit() only closes the socket.
Register(w) ==
    /\ At(w, "make")
    /\ IF entry = NoRole
       THEN /\ entry' = op[w].role
            /\ Goto(w, "push", op[w].role)
            /\ UNCHANGED sock
       ELSE /\ sock' = [sock EXCEPT ![op[w].role] = "closed"]
            /\ Return(w)
            /\ UNCHANGED entry
    /\ UNCHANGED <<ring, used, handoff, map, kicked, ringAdded, recent>>

\* m_list_role->push(), the last step of an accept and of a pull.
Push(w) ==
    /\ At(w, "push")
    /\ handoff' = handoff \cup {op[w].role}
    /\ Return(w)
    /\ UNCHANGED <<maps, used, map, flags>>

-------------------------------------------------------------------------------
(* Starting a puller: CSLSPullerManager::start() for a viewer of an offline  *)
(* stream, or reconnect().                                                   *)

\* start() finds no publisher and connects to an upstream.
PullLookup(w, q) ==
    /\ At(w, "idle")
    /\ q \in Pulls \ used
    /\ entry = NoRole
    /\ used' = used \cup {q}
    /\ Goto(w, "connect", q)
    /\ UNCHANGED <<maps, handoff, map, flags>>

\* The upstream is connected; set_relay_param() registers the puller.  When
\* the upstream or the registration fails the relay is uninit()ed.
PullRegister(w) ==
    /\ At(w, "connect")
    /\ \/ /\ entry = NoRole
          /\ entry' = op[w].role
          /\ Goto(w, "ring", op[w].role)
          /\ UNCHANGED sock
       \/ /\ sock' = [sock EXCEPT ![op[w].role] = "closed"]
          /\ Return(w)
          /\ UNCHANGED entry
    /\ UNCHANGED <<ring, used, handoff, map, kicked, ringAdded, recent>>

\* CSLSMapData::add(): idempotent, or a new ring, or refused by a cap.
AddOK(r) == ring' = IF ring = NoRole THEN r ELSE ring
AddRefused == ring = NoRole /\ UNCHANGED ring

\* set_relay_param() gives the puller its ring eagerly, before its maps are
\* set and it is pushed.
PullRing(w) ==
    /\ At(w, "ring")
    /\ \/ AddOK(op[w].role) /\ Goto(w, "push", op[w].role)
       \/ AddRefused /\ Goto(w, "undo", op[w].role)
    /\ UNCHANGED <<entry, used, handoff, map, flags>>

\* Mutant: the refused puller is not taken off CSLSMapPublisher.
PullUndoForgets(w) ==
    /\ At(w, "undo")
    /\ sock' = [sock EXCEPT ![op[w].role] = "closed"]
    /\ Return(w)
    /\ UNCHANGED <<maps, used, handoff, map, kicked, ringAdded, recent>>

\* add() was refused: the puller is taken off CSLSMapPublisher and uninit()ed.
PullUndo(w) ==
    /\ At(w, "undo")
    /\ entry' = IF entry = op[w].role THEN NoRole ELSE entry
    /\ sock' = [sock EXCEPT ![op[w].role] = "closed"]
    /\ Return(w)
    /\ UNCHANGED <<ring, used, handoff, map, kicked, ringAdded, recent>>

-------------------------------------------------------------------------------
(* uninit(): a publisher drops its ring, then its entry; a puller drops its  *)
(* entry, then its ring.                                                     *)

Teardown(r, rest) ==
    [pc |-> IF r \in Pubs THEN "drop_ring" ELSE "drop_entry", role |-> r, rest |-> rest]

DropRing(w) ==
    /\ At(w, "drop_ring")
    /\ ring' = NoRole
    /\ Goto(w, IF op[w].role \in Pubs THEN "drop_entry" ELSE "close", op[w].role)
    /\ UNCHANGED <<entry, used, handoff, map, flags>>

\* CSLSMapPublisher::remove(this) erases the entry only if it is this role's.
DropEntry(w) ==
    /\ At(w, "drop_entry")
    /\ entry' = IF entry = op[w].role THEN NoRole ELSE entry
    /\ Goto(w, IF op[w].role \in Pubs THEN "close" ELSE "drop_ring", op[w].role)
    /\ UNCHANGED <<ring, used, handoff, map, flags>>

\* CSLSRole::uninit() and the erase from m_map_role; the reaper goes on with
\* the next role it collected.
Close(w) ==
    /\ At(w, "close")
    /\ sock' = [sock EXCEPT ![op[w].role] = "closed"]
    /\ map' = [map EXCEPT ![w] = @ \ {op[w].role}]
    /\ \/ op[w].rest = {} /\ Return(w)
       \/ \E r \in op[w].rest :
              op' = [op EXCEPT ![w] = Teardown(r, op[w].rest \ {r})]
    /\ UNCHANGED <<maps, used, handoff, kicked, ringAdded, recent>>

-------------------------------------------------------------------------------
(* The worker's housekeeping: CSLSGroup::idle_check().                       *)

\* Mutant: get_state() does not look at the kick flag.
CheckInvalidUnkicked(w, r) ==
    /\ At(w, "idle")
    /\ r \in map[w]
    /\ sock[r] # "up"
    /\ sock' = [sock EXCEPT ![r] = "closed"]
    /\ op' = [op EXCEPT ![w] = Teardown(r, {})]
    /\ UNCHANGED <<maps, used, handoff, map, kicked, ringAdded, recent>>

\* check_invalid_sock(): get_state() honours a kick and notices a socket that
\* is broken or that a handler has closed.
CheckInvalid(w, r) ==
    /\ At(w, "idle")
    /\ r \in map[w]
    /\ kicked[r] \/ sock[r] # "up"
    /\ sock' = [sock EXCEPT ![r] = "closed"]
    /\ op' = [op EXCEPT ![w] = Teardown(r, {})]
    /\ UNCHANGED <<maps, used, handoff, map, kicked, ringAdded, recent>>

\* check_invalid_sock(): the idle timeout, or first-data probation.
IdleTimeout(w, r) ==
    /\ At(w, "idle")
    /\ r \in map[w]
    /\ ~recent[r]
    /\ sock' = [sock EXCEPT ![r] = "closed"]
    /\ op' = [op EXCEPT ![w] = Teardown(r, {})]
    /\ UNCHANGED <<maps, used, handoff, map, kicked, ringAdded, recent>>

\* Mutant: the reaper collects the roles but leaves them in the list.
ReapKeeps(w) ==
    /\ At(w, "idle")
    /\ \E S \in SUBSET handoff : \E r \in S :
          op' = [op EXCEPT ![w] = Teardown(r, S \ {r})]
    /\ UNCHANGED <<maps, used, handoff, map, flags>>

\* reap_unadopted(): every role that has waited past the admission TTL leaves
\* the list under its lock; they are uninit()ed afterwards, one by one.
Reap(w) ==
    /\ At(w, "idle")
    /\ \E S \in SUBSET handoff : \E r \in S :
          /\ handoff' = handoff \ S
          /\ op' = [op EXCEPT ![w] = Teardown(r, S \ {r})]
    /\ UNCHANGED <<maps, used, map, flags>>

\* Mutant: a role whose add_to_epoll() fails is deleted without uninit().
AdoptForgets(w) ==
    /\ At(w, "idle")
    /\ Cardinality(map[w]) < Capacity
    /\ \E r \in handoff :
          /\ handoff' = handoff \ {r}
          /\ map' \in {map, [map EXCEPT ![w] = @ \cup {r}]}
    /\ UNCHANGED <<maps, used, op, flags>>

\* check_new_role(): one role is popped and adopted, or add_to_epoll() fails.
Adopt(w) ==
    /\ At(w, "idle")
    /\ Cardinality(map[w]) < Capacity
    /\ \E r \in handoff :
          /\ handoff' = handoff \ {r}
          /\ \/ map' = [map EXCEPT ![w] = @ \cup {r}] /\ UNCHANGED op
             \/ op' = [op EXCEPT ![w] = Teardown(r, {})] /\ UNCHANGED map
    /\ UNCHANGED <<maps, used, flags>>

-------------------------------------------------------------------------------
(* The data path: handler_read_data().                                       *)

\* A packet has been read.  The first one allocates the ring; a refusal, a
\* failed read, a misaligned packet or a bitrate violation closes the socket.
Receive(w, r) ==
    /\ At(w, "idle")
    /\ r \in map[w] /\ sock[r] = "up"
    /\ \/ /\ recent' = [recent EXCEPT ![r] = TRUE]
          /\ \/ ringAdded[r] /\ UNCHANGED <<ring, ringAdded>>
             \/ ~ringAdded[r] /\ AddOK(r) /\ ringAdded' = [ringAdded EXCEPT ![r] = TRUE]
          /\ Goto(w, "put", r)
          /\ UNCHANGED sock
       \/ /\ recent' \in {recent, [recent EXCEPT ![r] = TRUE]}
          /\ sock' = [sock EXCEPT ![r] = "closed"]
          /\ UNCHANGED <<ring, ringAdded, op>>
    /\ UNCHANGED <<entry, used, handoff, map, kicked>>

\* CSLSMapData::put(): without a ring it fails and the worker closes the role.
\* A puller also closes itself when nobody has read its ring for a while.
Put(w) ==
    /\ At(w, "put")
    /\ LET r == op[w].role IN
           \/ ring # NoRole /\ UNCHANGED sock
           \/ ring = NoRole /\ sock' = [sock EXCEPT ![r] = "closed"]
           \/ r \in Pulls /\ sock' = [sock EXCEPT ![r] = "closed"]
    /\ Return(w)
    /\ UNCHANGED <<maps, used, handoff, map, kicked, ringAdded, recent>>

-------------------------------------------------------------------------------
(* The environment.                                                          *)

\* The peer goes away; its SHUTDOWN may never arrive.
Break(r) ==
    /\ r \in used /\ sock[r] = "up"
    /\ sock' = [sock EXCEPT ![r] = "broken"]
    /\ UNCHANGED <<maps, used, handoff, map, op, kicked, ringAdded, recent>>

\* A second passes without a packet.
Quiet(r) ==
    /\ recent[r]
    /\ recent' = [recent EXCEPT ![r] = FALSE]
    /\ UNCHANGED <<maps, used, handoff, map, op, sock, kicked, ringAdded>>

\* The disconnect endpoint kicks the registered role.
Disconnect ==
    /\ entry # NoRole
    /\ ~kicked[entry]
    /\ kicked' = [kicked EXCEPT ![entry] = TRUE]
    /\ UNCHANGED <<maps, used, handoff, map, op, sock, ringAdded, recent>>

-------------------------------------------------------------------------------
Continue(w) ==
    \/ Incumbent(w) \/ Register(w) \/ Push(w)
    \/ PullRegister(w) \/ PullRing(w) \/ PullUndo(w)
    \/ DropRing(w) \/ DropEntry(w) \/ Close(w) \/ Put(w)

WorkerStep(w) ==
    \/ Continue(w) \/ Reap(w) \/ Adopt(w)
    \/ \E r \in Roles : AcceptLookup(w, r) \/ PullLookup(w, r) \/ Receive(w, r)
                        \/ CheckInvalid(w, r) \/ IdleTimeout(w, r)

Next ==
    \/ \E w \in Workers : WorkerStep(w)
    \/ \E r \in Roles : Break(r) \/ Quiet(r)
    \/ Disconnect

Spec == Init /\ [][Next]_vars

\* A worker that is inside an operation goes on.  Each pass of its loop runs
\* idle_check(), whatever traffic there is, so a role that stays due is dealt
\* with although the worker keeps being busy in between: strong fairness.
Fairness ==
    \A w \in Workers :
        /\ WF_vars(Continue(w))
        /\ SF_vars(Reap(w))
        /\ \A r \in Roles : SF_vars(CheckInvalid(w, r))
FairSpec == Spec /\ Fairness

-------------------------------------------------------------------------------
(* Properties *)

Pcs == {"idle", "incumbent", "make", "connect", "ring", "undo", "push", "put",
        "drop_ring", "drop_entry", "close"}

StateOK ==
    /\ entry \in Roles \cup {NoRole}
    /\ ring \in Roles \cup {NoRole}
    /\ used \subseteq Roles
    /\ handoff \subseteq Roles
    /\ map \in [Workers -> SUBSET Roles]
    /\ op \in [Workers -> [pc : Pcs, role : Roles \cup {NoRole}, rest : SUBSET Roles]]
    /\ sock \in [Roles -> {"up", "broken", "closed"}]
    /\ kicked \in [Roles -> BOOLEAN]
    /\ ringAdded \in [Roles -> BOOLEAN]
    /\ recent \in [Roles -> BOOLEAN]

\* Inside an operation a worker has a role in its hands, never a null pointer.
TypeOK == StateOK /\ \A w \in Workers : op[w].pc # "idle" => op[w].role \in Roles

TeardownPcs == {"drop_ring", "drop_entry", "close"}

\* The role worker w is tearing down, and the roles whose packets it handles.
Dying(w) == IF op[w].pc \in TeardownPcs THEN {op[w].role} ELSE {}
Serving(w) == map[w] \ Dying(w)

\* ts_info and the gap filler rely on one writer per key (the comment in
\* CSLSMapData::put()): no two roles of the key are ever served at once,
\* through any sequence of takeovers, pulls, failed adoptions and kicks.
SingleWriter ==
    \A v, w \in Workers : \A r \in Serving(v), s \in Serving(w) : r = s /\ v = w

\* The roles worker w has in its hands and that no list or map holds for it.
Carried(w) ==
    op[w].rest \cup
    (IF op[w].pc \in {"make", "connect", "ring", "undo", "push"} \cup TeardownPcs
     THEN {op[w].role} ELSE {})

\* Single-owner teardown (the comment in CSLSRole::invalid_srt()): a role is
\* only ever in one thread's reach, so m_srt is never freed twice nor freed
\* under a handler.
SingleOwner ==
    \A v, w \in Workers :
        /\ handoff \cap (map[v] \cup Carried(v)) = {}
        /\ v # w => (map[v] \cup Carried(v)) \cap (map[w] \cup Carried(w)) = {}

\* The role in the publisher map is one that something will still take out of
\* it; a stale entry would lock every encoder out of the key for good.
WillDropEntry(r) ==
    \/ r \in handoff
    \/ \E w \in Workers :
          \/ r \in Serving(w)
          \/ r \in op[w].rest
          \/ op[w].role = r /\
             op[w].pc \in {"ring", "undo", "push", "drop_entry"}
                         \cup (IF r \in Pubs THEN {"drop_ring"} ELSE {})
NoStaleEntry == entry # NoRole => WillDropEntry(entry)

\* A ring is never left behind: the role that allocated it is still to be torn
\* down, or is being torn down and has not passed the point where it frees it.
WillDropRing(r) ==
    \/ r \in handoff
    \/ \E w \in Workers :
          \/ r \in Serving(w)
          \/ r \in op[w].rest
          \/ op[w].role = r /\
             op[w].pc \in {"push", "drop_ring"} \cup (IF r \in Pulls THEN {"drop_entry"} ELSE {})
NoRingLeak == ring # NoRole => WillDropRing(ring)

\* "If the entry is missing it means add() wasn't called for this key": a
\* served role whose add() has succeeded has a ring to write to.
WriterHasRing ==
    \A w \in Workers : \A r \in Serving(w) : ringAdded[r] => ring # NoRole

\* As long as nothing has been pulled that is so, through any takeover: a
\* publisher frees its ring before it gives up the key, and the next one cannot
\* register until then.
PublishersKeepRing == used \cap Pulls = {} => WriterHasRing

\* A publisher's own media keeps it registered: while it is being served the
\* key is its key, so viewers that look it up find it.
ServedIsRegistered == \A w \in Workers : \A r \in Serving(w) : entry = r

\* The key is always given back: a kicked role, or one whose peer has gone,
\* eventually leaves the publisher map, wherever it was when it happened.
KeyReleased ==
    \A r \in Roles : entry = r /\ (kicked[r] \/ sock[r] # "up") ~> entry # r

-------------------------------------------------------------------------------
(* The key as a lock                                                         *)

Opening == {op[w].role : w \in {v \in Workers : op[v].pc \in {"make", "connect"}}}
Granted == {op[w].role : w \in {v \in Workers : op[v].pc \in {"ring", "push"}}}
Served == UNION {Serving(w) : w \in Workers}

\* How far session r is, seen from the key.
Phase(r) ==
    IF r \notin used THEN "new"
    ELSE IF r \in Opening THEN "open"
    ELSE IF r \in Served THEN "served"
    ELSE IF r \in handoff \cup Granted THEN "waiting"
    ELSE IF entry = r THEN "ending" ELSE "gone"

Key == INSTANCE StreamKey WITH
    Sessions <- Roles, Nobody <- NoRole,
    holder <- entry, phase <- [r \in Roles |-> Phase(r)]

\* Takeovers, pulls, failed adoptions, kicks and reaps over any workers and two
\* maps come to this lock: the key goes to one session at a time, a session is
\* served with the key in hand, and nobody gives the key up for another.
ImplementsStreamKey == Key!Spec
-------------------------------------------------------------------------------
(* The inductive invariant                                                   *)

\* What the position inside an operation says about its role.
OpShape ==
    \A w \in Workers :
        /\ op[w].pc = "idle" => op[w].role = NoRole
        /\ op[w].pc # "idle" => op[w].role \in used
        /\ op[w].pc \notin TeardownPcs => op[w].rest = {}
        /\ op[w].role \notin op[w].rest
        /\ op[w].pc = "make" => op[w].role \in Pubs
        /\ op[w].pc \in {"connect", "ring", "undo"} => op[w].role \in Pulls

\* Roles are in circulation only once they have been made, and a worker does
\* not carry a role it also serves.
Circulation ==
    /\ entry \in used \cup {NoRole}
    /\ ring \in used \cup {NoRole}
    /\ handoff \subseteq used
    /\ \A w \in Workers :
          /\ map[w] \cup op[w].rest \subseteq used
          /\ op[w].pc = "put" => op[w].role \in map[w]
          /\ map[w] \cap Carried(w) \subseteq Dying(w)

\* Every role that still has an entry to drop is the registered one: this is
\* why no two of them can exist, and why remove(this) always finds its entry.
HolderIsRegistered == \A r \in Roles : WillDropEntry(r) => entry = r

\* m_ring_added is set by a served role only, and a role in teardown is never
\* served again.
AddedByServed ==
    \A r \in Roles : ringAdded[r] =>
        /\ r \in used /\ r \notin handoff
        /\ \A w \in Workers :
              op[w].role = r => op[w].pc \notin {"make", "connect", "ring", "undo", "push"}

IInv ==
    /\ StateOK /\ OpShape /\ Circulation /\ SingleOwner
    /\ HolderIsRegistered /\ NoStaleEntry /\ NoRingLeak /\ AddedByServed
===============================================================================
