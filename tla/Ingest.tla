---------------------------------- MODULE Ingest ----------------------------------
(***************************************************************************)
(* A publisher of one stream id from its handshake to its teardown: the    *)
(* handshake gate (the listen callback over AuthRejectCache), the accept   *)
(* and its on_connect webhook (CSLSRole::on_connect), the read path that   *)
(* waits for the answer and then takes media (handler_read_data), the      *)
(* bitrate limiter, the idle reaper and the on_close webhook.              *)
(*                                                                         *)
(* The handshake runs on an SRT thread, the webhook on a pool thread, the  *)
(* rest on the worker that owns the role.  One publisher is registered for *)
(* the id at a time (StreamSession says how).                              *)
(***************************************************************************)
EXTENDS FiniteSets, BitrateLimit

CONSTANTS
    Ids,           \* the stream ids that knock at the listener
    Id,            \* the one of this publisher
    RejectTtl,     \* AuthRejectCache's TTL
    MaxRejects,    \* MAX_AUTH_REJECT_ENTRIES
    FirstData,     \* first-data probation, latency and grace together
    IdleTimeout    \* idle_streams_timeout

ASSUME IngestAssumption ==
    /\ Id \in Ids
    /\ {RejectTtl, MaxRejects, FirstData, IdleTimeout} \subseteq Nat \ {0}

VARIABLES
    blocked,    \* m_blocked of AuthRejectCache: what is left of each id's entry
    knocking,   \* a connection has passed the handshake and is not accepted yet
    st,         \* the role: "none", "open", or "closed" (m_srt gone, not reaped)
    passed,     \* m_http_passed
    future,     \* m_http_future: "none", "sent", or the answer to on_connect
    kicked,     \* a kick is requested, or the socket broke
    silent,     \* time since m_invalid_begin_tm
    received,   \* m_last_recv_data_tm is set
    ringAdded,  \* m_ring_added
    verdict,    \* what the backend said of this session: "unasked", "none", an answer
    closes,     \* on_close webhooks sent for this session
    denial,     \* time since the worker last saw a 401 or 403 for the id
    cut,        \* the limiter has ended this session
    honest,     \* the session has kept within the limit over every span
    abuse       \* time for which every unit has been over the limit

session == <<st, passed, future, kicked, silent, received, ringAdded>>
ghosts == <<verdict, closes, denial, cut, honest, abuse>>
vars == <<limiter, session, blocked, knocking, ghosts>>

Init ==
    /\ LimiterInit
    /\ blocked = [i \in Ids |-> 0] /\ knocking = FALSE
    /\ st = "none" /\ passed = FALSE /\ future = "none" /\ kicked = FALSE
    /\ silent = 0 /\ received = FALSE /\ ringAdded = FALSE
    /\ verdict = "none" /\ closes = 0 /\ denial = RejectTtl
    /\ cut = FALSE /\ honest = TRUE /\ abuse = 0

-------------------------------------------------------------------------------
(* Handshake, accept and the webhook.                                        *)

\* sls_publisher_listen_callback(): is_blocked() is asked once, here.
Handshake ==
    /\ ~knocking /\ blocked[Id] = 0
    /\ knocking' = TRUE
    /\ UNCHANGED <<limiter, session, blocked, ghosts>>

\* on_connect(): when the event URL does not fit its buffer nothing is sent and
\* no answer is awaited.
OnConnect ==
    \/ future' = "sent" /\ verdict' = "none"
    \/ future' = "none" /\ verdict' = "unasked"

\* The accept registers the role and sends on_connect.
AcceptPublisher ==
    /\ knocking /\ st = "none"
    /\ knocking' = FALSE
    /\ st' = "open" /\ passed' = FALSE
    /\ OnConnect
    /\ closes' = 0
    /\ UNCHANGED <<limiter, kicked, silent, received, ringAdded, blocked, denial, cut, honest, abuse>>

\* The id is registered by another session: the newcomer is turned away.
AcceptRefused ==
    /\ knocking /\ st # "none"
    /\ knocking' = FALSE
    /\ UNCHANGED <<limiter, session, blocked, ghosts>>

\* on_connect is answered: 200, 401 or 403, or anything else (another status,
\* a timeout, no connection).
Answer ==
    /\ future = "sent"
    /\ future' \in {"ok", "denied", "failed"}
    /\ verdict' = future'
    /\ UNCHANGED <<limiter, st, passed, kicked, silent, received, ringAdded, blocked, knocking,
                   closes, denial, cut, honest, abuse>>

-------------------------------------------------------------------------------
(* The read path: handler_read_data().                                       *)

\* Mutant: on_close does not look whether the role ever passed.
OnCloseAlways(ok) == closes' = closes + 1

\* on_close() tells the backend of the end of a role that had passed.
OnClose(ok) == closes' = IF ok THEN closes + 1 ELSE closes

\* invalid_srt(), which does nothing once the socket is gone.
InvalidSrt(ok) ==
    /\ st' = "closed"
    /\ OnClose(ok)

\* The ids with an entry; those that have expired are swept before an insertion.
Listed == {i \in Ids : blocked[i] > 0}

\* AuthRejectCache::record_failure(): a new id that finds the cache full takes the
\* place of the entry that is nearest to its expiry.
Block(id) ==
    IF id \in Listed \/ Cardinality(Listed) < MaxRejects
    THEN blocked' = [blocked EXCEPT ![id] = RejectTtl]
    ELSE \E v \in Listed :
            /\ \A i \in Listed : blocked[v] <= blocked[i]
            /\ blocked' = [blocked EXCEPT ![v] = 0, ![id] = RejectTtl]

\* Mutant: every failure blocks the id.
RecordAny(answer) == Block(Id)

\* Only an explicit refusal is recorded.
RecordFailure(answer) == IF answer = "denied" THEN Block(Id) ELSE UNCHANGED blocked

\* A publisher of another id is refused.
OtherDenied(id) ==
    /\ id # Id
    /\ Block(id)
    /\ UNCHANGED <<limiter, session, knocking, ghosts>>

\* check_http_passed() finds a refusal or a failure.
GateRefuses ==
    /\ st = "open" /\ ~passed /\ future \in {"denied", "failed"}
    /\ RecordFailure(future)
    /\ denial' = IF future = "denied" THEN 0 ELSE denial
    /\ future' = "none"
    /\ InvalidSrt(FALSE)
    /\ UNCHANGED <<limiter, passed, kicked, silent, received, ringAdded, knocking,
                   verdict, cut, honest, abuse>>

\* Mutant: the gate only waits for the answer, it does not read it.
GateWaits == passed \/ future # "sent"

\* check_http_passed(): the role has passed, its answer is a 200, or there is
\* no request it could wait for.
GateOpen == passed \/ future \in {"none", "ok"}
NowPassed == passed \/ future = "ok"

\* A read that fails or yields no aligned media: the handler or, on its error,
\* the worker closes the socket.
ReadJunk ==
    /\ st = "open" /\ GateOpen
    /\ passed' = NowPassed /\ future' = "none"
    /\ InvalidSrt(NowPassed)
    /\ UNCHANGED <<limiter, kicked, silent, received, ringAdded, blocked, knocking,
                   verdict, denial, cut, honest, abuse>>

\* A packet has come in this unit, and it is over the limit.
ReadNow == window # <<>> /\ window[Len(window)][1] = 0
OverNow == ReadNow /\ window[Len(window)][2] > Spike

\* Media: the limiter may cut the role; the first packet allocates the ring,
\* then the packet is put.  When the ring is refused or put() fails the socket is
\* closed too.  At most one read per unit (the limiter tells no packets of a unit
\* apart).
ReadMedia(b) ==
    /\ st = "open" /\ GateOpen
    /\ ~ReadNow
    /\ passed' = NowPassed /\ future' = "none"
    /\ silent' = 0 /\ received' = TRUE
    /\ CheckDataBitrate(b)
    /\ honest' = (honest /\ WithinLimit(Append(window, <<0, b>>)))
    /\ abuse' = IF b > Spike THEN abuse ELSE 0
    /\ cut' = Disconnects
    /\ \/ Disconnects /\ InvalidSrt(NowPassed) /\ UNCHANGED ringAdded
       \/ ~Disconnects /\ ringAdded' \in {ringAdded, TRUE} /\ InvalidSrt(NowPassed)
       \/ ~Disconnects /\ ringAdded' = TRUE /\ UNCHANGED <<st, closes>>
    /\ UNCHANGED <<kicked, blocked, knocking, verdict, denial>>

-------------------------------------------------------------------------------
(* Housekeeping and time.                                                    *)

\* sls_should_reap_role(): probation before the first packet, then idleness.
ShouldReap == silent >= (IF received THEN IdleTimeout ELSE FirstData)

Due == st = "closed" \/ (st = "open" /\ (kicked \/ ShouldReap))

\* get_state() finds a kick, a timeout or a dead socket; uninit() drops an
\* answer that is still awaited, and the role is deleted.
CheckInvalid ==
    /\ Due
    /\ st' = "none" /\ future' = "none"
    /\ IF st = "open" THEN OnClose(passed) ELSE UNCHANGED closes
    /\ LimiterReset
    /\ kicked' = FALSE /\ silent' = 0 /\ received' = FALSE /\ ringAdded' = FALSE
    /\ cut' = FALSE /\ honest' = TRUE /\ abuse' = 0
    /\ UNCHANGED <<passed, blocked, knocking, verdict, denial>>

\* The disconnect endpoint, a takeover, or a peer that is gone.
Kick ==
    /\ st = "open" /\ ~kicked
    /\ kicked' = TRUE
    /\ UNCHANGED <<limiter, st, passed, future, silent, received, ringAdded, blocked, knocking, ghosts>>

\* A unit passes.  The reaper runs every few milliseconds, so a role that is
\* due does not see the next unit.
Clock ==
    /\ ~Due
    /\ IF st = "open" THEN LimiterAges ELSE UNCHANGED limiter
    /\ blocked' = [i \in Ids |-> IF blocked[i] > 0 THEN blocked[i] - 1 ELSE 0]
    /\ denial' = Until(denial, RejectTtl)
    /\ silent' = IF st = "open" THEN silent + 1 ELSE silent
    /\ abuse' = IF OverNow THEN Until(abuse, Window + Threshold + 1) ELSE 0
    /\ UNCHANGED <<st, passed, future, kicked, received, ringAdded, knocking, verdict, closes, cut, honest>>

-------------------------------------------------------------------------------
Next ==
    \/ Handshake \/ AcceptPublisher \/ AcceptRefused \/ Answer
    \/ \E id \in Ids : OtherDenied(id)
    \/ GateRefuses \/ ReadJunk \/ \E b \in 1 .. MaxPacket : ReadMedia(b)
    \/ CheckInvalid \/ Kick \/ Clock

Spec == Init /\ [][Next]_vars

-------------------------------------------------------------------------------
(* Properties *)

Answers == {"ok", "denied", "failed"}

SessionOK ==
    /\ denial \in 0 .. RejectTtl
    /\ passed \in BOOLEAN /\ ringAdded \in BOOLEAN
    /\ st \in {"none", "open", "closed"}
    /\ future \in {"none", "sent"} \cup Answers
    /\ verdict \in {"none", "unasked"} \cup Answers
    /\ closes \in Nat

\* The cache of denials never exceeds its cap.
RejectsOK ==
    /\ blocked \in [Ids -> 0 .. RejectTtl]
    /\ IsFiniteSet(Listed) /\ Cardinality(Listed) <= MaxRejects

LimiterOK ==
    /\ window \in Seq(Packets)
    /\ total = Bytes(window)
    /\ cleaned \in 0 .. Gate + 1
    /\ violation \in {NoViolation} \cup 0 .. Threshold

\* The variables keep their types, the reject cache its cap, and the window's sum
\* is the window's.
TypeOK ==
    /\ SessionOK /\ RejectsOK /\ LimiterOK
    /\ {knocking, kicked, received, cut, honest} \subseteq BOOLEAN
    /\ silent \in Nat /\ abuse \in 0 .. Window + Threshold + 1

\* A session whose on_connect is unanswered, refused or failed has no ring, however
\* the read, the answer and a kick interleave, and never gets one later.  (A session
\* for which on_connect() sent nothing is not among them: its gate is open.)
NoRingUnanswered == verdict \in {"none", "denied", "failed"} => ~ringAdded

\* The backend hears of the end of every session it opened the gate for, once,
\* and of no other: by whatever path the socket goes, and also when a handler
\* closed it before the reaper came.
CloseOnce == closes = IF passed /\ st # "open" THEN 1 ELSE 0

\* "A transport failure or a 5xx is the backend faltering, not the key": an id is
\* blocked only by an explicit denial, for the TTL from the last one.  It is let in
\* sooner only when the cache is full of denials of other ids that are as fresh.
BlockedByDenial ==
    /\ blocked[Id] > 0 => blocked[Id] = RejectTtl - denial
    /\ blocked[Id] = 0 /\ denial < RejectTtl =>
          /\ Cardinality(Listed) = MaxRejects
          /\ \A i \in Listed : blocked[i] >= RejectTtl - denial

\* The limiter cuts no session that keeps within the limit over every span it
\* may look at, although it sums packets it has not pruned yet and takes a young
\* window for a shorter one.
HonestNotCut == cut => ~honest

\* A session over the limit in every unit is cut in time.
AbuseIsCut == st = "open" => abuse <= Window + Threshold

-------------------------------------------------------------------------------
(* The inductive invariant                                                   *)

\* What the gate still waits for, what it has let pass, and what the backend
\* said: an answer that is awaited or unread belongs to an open session without
\* a ring, and an open gate without one was never asked for.
GateShape ==
    /\ future # "none" => st = "open" /\ ~passed /\ ~ringAdded
    /\ future \in Answers => verdict = future
    /\ st = "open" /\ passed => verdict = "ok"
    /\ st = "open" /\ ~passed /\ future = "none" => verdict = "unasked"
    /\ st = "none" => ~ringAdded

\* The window is oldest first; what it holds when the limiter has just cleaned
\* up is of this unit, and there is nothing in it without a session.
WindowShape ==
    /\ OldestFirst(Ages(window))
    /\ window # <<>> /\ cleaned = 0 => ReadNow
    /\ st = "none" => window = <<>> /\ abuse = 0

\* The violation of an honest session began after the last cleanup: right after
\* one the limiter sums no more than it divides by.
HonestShape == honest => violation < cleaned \/ cleaned > Gate

\* The units of a streak are in the window as long as it reaches back, and the
\* violation began when the streak filled it, if not before.
AbuseShape ==
    /\ \A n \in 1 .. abuse : n <= Window =>
           \E i \in DOMAIN window : window[i][1] = n /\ window[i][2] > Spike
    /\ st = "open" /\ abuse >= Window => violation > abuse - Window
    /\ st = "open" /\ OverNow =>
           violation < Threshold /\ (abuse >= Window - 1 => violation # NoViolation)

SessionInv ==
    SessionOK /\ BlockedByDenial /\ CloseOnce /\ NoRingUnanswered /\ GateShape
LimiterInv == WindowShape /\ HonestShape /\ HonestNotCut /\ AbuseShape
IInv == TypeOK /\ SessionInv /\ LimiterInv
===============================================================================
