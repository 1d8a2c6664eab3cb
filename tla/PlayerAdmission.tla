----------------------------- MODULE PlayerAdmission -----------------------------
(***************************************************************************)
(* How a player listener (CSLSListener) lets viewers with a player key in. *)
(* The key is validated by a webhook that answers later: the answer goes   *)
(* into a cache, one request per key is in flight, and the accepted socket *)
(* is held until the answer, a refusal or a deadline.  All of it runs on   *)
(* the listener's worker, in handler() (an accept) or on_worker_tick() (a  *)
(* pass); what interleaves is the webhook, the backend's opinion of a key, *)
(* the workers that adopt admitted players, and time.                      *)
(*                                                                         *)
(* Time is counted in units; a lifetime is what is left of it, so an entry *)
(* that has expired is the same as no entry (the sweeps only free memory). *)
(* All keys resolve to one stream.                                         *)
(***************************************************************************)
EXTENDS FiniteSets, Tallies

CONSTANTS
    Conns,        \* viewers; each may come, leave and come again
    Keys,         \* player keys
    Ips,          \* source addresses
    Duration,     \* m_player_key_cache_duration
    NegDuration,  \* a quarter of it, for a refusal
    Hold,         \* m_player_key_auth_timeout + 2 s
    Window,       \* m_player_key_rate_limit_window
    Requests,     \* m_player_key_rate_limit_requests
    CacheCap,     \* MAX_PLAYER_KEY_CACHE_ENTRIES
    PendingCap,   \* MAX_PENDING_PLAYER_KEY_VALIDATIONS
    HeldCap,      \* MAX_PENDING_PLAYER_CONNECTIONS
    IpCap,        \* MAX_RATE_LIMIT_ENTRIES
    AppLimit,     \* the app's max_players_per_stream, 0 for none
    KeyLimit      \* the max_players_per_stream some answers carry

ASSUME TimesAssumption ==
    /\ Duration \in Nat \ {0} /\ NegDuration \in 0 .. Duration
    /\ Hold \in Nat \ {0} /\ Window \in Nat
ASSUME CapsAssumption ==
    /\ {CacheCap, PendingCap, HeldCap, IpCap, Requests} \subseteq Nat \ {0}
    /\ {AppLimit, KeyLimit} \subseteq Nat

VARIABLES
    queue,     \* m_pending_player_connections: the held sockets
    handoff,   \* CSLSRoleList: admitted <<viewer, key>>, not yet adopted
    adopted,   \* players the workers serve
    cache,     \* m_player_key_cache
    request,   \* m_pending_player_key_validations: "none", "sent" or the answer
    rate,      \* m_rate_limit_map: address -> ages of its requests, oldest first
    gcDue,     \* cleanup_expired_rate_limits() has not run in this unit
    limit,     \* m_stream_player_limit_map of the stream
    step,      \* where the worker stands in on_worker_tick()
    ticked,    \* a pass has been completed in this unit
    revoked,   \* the backend: 0 while it accepts a key, then 1 + the units since
    granted,   \* what is left of the last answer for the key with a limit in it
    sent,      \* ages of the requests sent for an address, while they count
    lost       \* keys whose last answer a full cache gave up for another one

listener == <<queue, cache, request, rate, gcDue, limit>>
outside == <<adopted, revoked>>
ghosts == <<granted, sent, lost>>
vars == <<listener, handoff, step, ticked, outside, ghosts>>

Idle == [at |-> "idle", keys |-> {}, next |-> 1]
NoEntry == [answer |-> "no", ttl |-> 0]
Live(k) == cache[k].ttl > 0
Positive(k) == Live(k) /\ cache[k].answer # "no"
Held == {queue[i].conn : i \in DOMAIN queue}
Present == Held \cup {p[1] : p \in handoff} \cup adopted

Init ==
    /\ queue = <<>> /\ handoff = {} /\ adopted = {}
    /\ cache = [k \in Keys |-> NoEntry]
    /\ request = [k \in Keys |-> "none"]
    /\ rate = [i \in {} |-> <<>>]
    /\ gcDue = TRUE
    /\ limit = [cap |-> 0, ttl |-> 0]
    /\ step = Idle
    /\ ticked = FALSE
    /\ revoked = [k \in Keys |-> 0]
    /\ granted = [k \in Keys |-> 0]
    /\ sent = [i \in Ips |-> <<>>]
    /\ lost = {}

-------------------------------------------------------------------------------
(* The rate budget of an address.                                            *)

\* Mutant: the periodic cleanup drops the whole window.
CollectAll(r) == [i \in {} |-> <<>>]

\* The map-wide cleanup keeps requests for twice the window and forgets an
\* address that has none left.
Collect(r) ==
    [i \in {j \in DOMAIN r : Trim(r[j], 2 * Window) # <<>>} |-> Trim(r[i], 2 * Window)]

\* is_rate_limited() first collects, once in a while, then trims its own entry.
Checked(ip) ==
    LET r == IF gcDue THEN Collect(rate) ELSE rate
    IN  [i \in DOMAIN r |-> IF i = ip THEN Trim(r[i], Window) ELSE r[i]]

IsRateLimited(r, ip) == ip \in DOMAIN r /\ Len(r[ip]) >= Requests

\* update_rate_limit(): a new address that finds the map full forces a
\* collection; when that frees nothing it stays untracked.
NoRoom(r, ip) == ip \notin DOMAIN r /\ Cardinality(DOMAIN r) >= IpCap
UpdateRateLimit(r, ip) ==
    LET s == IF NoRoom(r, ip) THEN Collect(r) ELSE r
    IN  IF NoRoom(s, ip) THEN s
        ELSE [i \in DOMAIN s \cup {ip} |->
                IF i # ip THEN s[i] ELSE Append(IF ip \in DOMAIN s THEN s[ip] ELSE <<>>, 0)]

-------------------------------------------------------------------------------
(* Completing an accept: finish_player_accept().                             *)

\* Mutant: the stream's limit lives for a full cache duration from its use.
StreamLimitFresh(k) ==
    IF cache[k].answer = "capped" THEN [cap |-> KeyLimit, ttl |-> Duration] ELSE limit

\* A key whose answer carries a limit sets the stream's, until the answer
\* expires.
StreamLimit(k) ==
    IF cache[k].answer = "capped" THEN [cap |-> KeyLimit, ttl |-> cache[k].ttl] ELSE limit

EffectiveLimit(k) ==
    IF StreamLimit(k).ttl > 0 THEN StreamLimit(k).cap ELSE AppLimit

\* count_players_for_stream() looks at the hand-off list.
LimitReached(k) == EffectiveLimit(k) > 0 /\ Cardinality(handoff) >= EffectiveLimit(k)

\* The player is pushed for adoption, or turned away: its resolved id is
\* malformed, the stream is offline and no upstream has it, the ACL denies the
\* address, the publisher went away meanwhile, or the stream is full.
FinishPlayerAccept(c, k) ==
    /\ limit' = StreamLimit(k)
    /\ \/ ~LimitReached(k) /\ handoff' = handoff \cup {<<c, k>>}
       \/ UNCHANGED handoff

-------------------------------------------------------------------------------
(* An accept: the player branch of handler() and validate_player_key().      *)

\* A viewer turned away at once: its address is over budget, or the key is
\* known to be refused.
AcceptRefused(c, k, ip) ==
    /\ step = Idle /\ c \notin Present
    /\ IsRateLimited(Checked(ip), ip) \/ (Live(k) /\ cache[k].answer = "no")
    /\ rate' = Checked(ip) /\ gcDue' = FALSE
    /\ UNCHANGED <<queue, cache, request, limit, handoff, step, ticked, outside, ghosts>>

\* Mutant: a hit prolongs a cached answer that carries no limit.
AcceptCachedSlides(c, k, ip) ==
    /\ step = Idle /\ c \notin Present
    /\ ~IsRateLimited(Checked(ip), ip)
    /\ Positive(k)
    /\ rate' = Checked(ip) /\ gcDue' = FALSE
    /\ FinishPlayerAccept(c, k)
    /\ cache' = [cache EXCEPT ![k].ttl = IF cache[k].answer = "yes" THEN Duration ELSE @]
    /\ UNCHANGED <<queue, request, step, ticked, outside, ghosts>>

\* A key with a live positive answer: admitted on the spot, or turned away.
AcceptCached(c, k, ip) ==
    /\ step = Idle /\ c \notin Present
    /\ ~IsRateLimited(Checked(ip), ip)
    /\ Positive(k)
    /\ rate' = Checked(ip) /\ gcDue' = FALSE
    /\ FinishPlayerAccept(c, k)
    /\ UNCHANGED <<queue, cache, request, step, ticked, outside, ghosts>>

\* start_player_key_validation() sends a request unless one is in flight or
\* too many are.
InFlight == {k \in Keys : request[k] # "none"}
Sends(k) == k \notin InFlight /\ Cardinality(InFlight) < PendingCap

\* An unknown key: a request, and the socket is held, whether or not the
\* request could be sent.  With too many sockets held this one is closed.
AcceptUnknown(c, k, ip) ==
    /\ step = Idle /\ c \notin Present
    /\ ~IsRateLimited(Checked(ip), ip)
    /\ ~Live(k)
    /\ cache' = [cache EXCEPT ![k] = NoEntry]
    /\ rate' = IF Sends(k) THEN UpdateRateLimit(Checked(ip), ip) ELSE Checked(ip)
    /\ gcDue' = FALSE
    /\ request' = IF Sends(k) THEN [request EXCEPT ![k] = "sent"] ELSE request
    /\ sent' = IF Sends(k) /\ ip \in DOMAIN rate'
               THEN [sent EXCEPT ![ip] = Append(@, 0)] ELSE sent
    /\ queue' = IF Len(queue) >= HeldCap THEN queue
                ELSE Append(queue, [conn |-> c, key |-> k, left |-> Hold,
                                    asked |-> request'[k] # "none"])
    /\ UNCHANGED <<limit, handoff, step, ticked, outside, granted, lost>>

-------------------------------------------------------------------------------
(* A pass of the worker: on_worker_tick().                                   *)

TickStart ==
    /\ step = Idle
    /\ step' = [at |-> "tick", keys |-> InFlight, next |-> 1]
    /\ UNCHANGED <<listener, handoff, ticked, outside, ghosts>>

LiveKeys == {j \in Keys : Live(j)}
LiveOthers(k) == LiveKeys \ {k}

\* Mutant: a full cache of live entries grows.
InsertGrows(k, e) == cache' = [cache EXCEPT ![k] = e]

\* insert_player_key_cache_locked(): a full cache gives up the entry that is
\* nearest to its expiry.
Insert(k, e) ==
    IF Live(k) \/ Cardinality(LiveOthers(k)) < CacheCap
    THEN cache' = [cache EXCEPT ![k] = e]
    ELSE \E v \in LiveOthers(k) :
            /\ \A j \in LiveOthers(k) : cache[v].ttl <= cache[j].ttl
            /\ cache' = [cache EXCEPT ![v] = NoEntry, ![k] = e]

\* Mutant: a refusal or failure is dropped instead of cached.
ProcessPositiveOnly(k, answer) ==
    IF answer = "no" THEN UNCHANGED cache ELSE Insert(k, [answer |-> answer, ttl |-> Duration])

\* process_player_key_response().
Process(k, answer) ==
    Insert(k, [answer |-> answer, ttl |-> IF answer = "no" THEN NegDuration ELSE Duration])

\* drain_player_key_validations(): the completed requests, one after another.
Drain(k) ==
    /\ k \in step.keys
    /\ step' = [step EXCEPT !.keys = @ \ {k}]
    /\ IF request[k] = "sent"
       THEN UNCHANGED <<cache, request, granted, lost>>
       ELSE /\ Process(k, request[k])
            /\ lost' = (lost \ {k}) \cup {j \in LiveOthers(k) : cache'[j] = NoEntry}
            /\ request' = [request EXCEPT ![k] = "none"]
            /\ granted' = IF request[k] = "capped"
                          THEN [granted EXCEPT ![k] = Duration] ELSE granted
    /\ UNCHANGED <<queue, rate, gcDue, limit, handoff, ticked, outside, sent>>

Without(i) == [j \in 1 .. Len(queue) - 1 |-> IF j < i THEN queue[j] ELSE queue[j + 1]]

\* Mutant: the deadline does not apply while the request is in flight.
DriveWaits ==
    /\ step.at = "tick" /\ step.keys = {} /\ step.next <= Len(queue)
    /\ LET h == queue[step.next] IN
           IF Live(h.key) \/ (h.left = 0 /\ request[h.key] = "none")
           THEN /\ queue' = Without(step.next)
                /\ IF Positive(h.key) THEN FinishPlayerAccept(h.conn, h.key)
                                      ELSE UNCHANGED <<limit, handoff>>
                /\ UNCHANGED step
           ELSE /\ step' = [step EXCEPT !.next = @ + 1]
                /\ UNCHANGED <<queue, limit, handoff>>
    /\ UNCHANGED <<cache, request, rate, gcDue, ticked, outside, ghosts>>

\* drive_pending_player_connections(): each held socket, in turn, is admitted
\* on a positive answer, closed on a refusal or at its deadline, or kept.
Drive ==
    /\ step.at = "tick" /\ step.keys = {} /\ step.next <= Len(queue)
    /\ LET h == queue[step.next] IN
           IF Live(h.key) \/ h.left = 0
           THEN /\ queue' = Without(step.next)
                /\ IF Positive(h.key) THEN FinishPlayerAccept(h.conn, h.key)
                                      ELSE UNCHANGED <<limit, handoff>>
                /\ UNCHANGED step
           ELSE /\ step' = [step EXCEPT !.next = @ + 1]
                /\ UNCHANGED <<queue, limit, handoff>>
    /\ UNCHANGED <<cache, request, rate, gcDue, ticked, outside, ghosts>>

DriveDone ==
    /\ step.at = "tick" /\ step.keys = {} /\ step.next > Len(queue)
    /\ step' = Idle
    /\ ticked' = TRUE
    /\ UNCHANGED <<listener, handoff, outside, ghosts>>

-------------------------------------------------------------------------------
(* The webhook, the backend, the workers and time.                           *)

\* The request completes with the backend's opinion, or fails.
Answer(k) ==
    /\ request[k] = "sent"
    /\ \E a \in {"yes", "capped", "no"} :
          /\ a # "no" => revoked[k] = 0
          /\ request' = [request EXCEPT ![k] = a]
    /\ UNCHANGED <<queue, cache, rate, gcDue, limit, handoff, step, ticked, outside, ghosts>>

\* The backend withdraws a key or restores it.
Reconsider(k) ==
    /\ revoked' = [revoked EXCEPT ![k] = IF @ = 0 THEN 1 ELSE 0]
    /\ UNCHANGED <<listener, handoff, step, ticked, adopted, ghosts>>

\* check_new_role() of some worker.
Adopt(c) ==
    /\ \E k \in Keys : <<c, k>> \in handoff
    /\ handoff' = {p \in handoff : p[1] # c}
    /\ adopted' = adopted \cup {c}
    /\ UNCHANGED <<listener, step, ticked, revoked, ghosts>>

Leave(c) ==
    /\ c \in adopted
    /\ adopted' = adopted \ {c}
    /\ UNCHANGED <<listener, handoff, step, ticked, revoked, ghosts>>

Less(n) == IF n > 0 THEN n - 1 ELSE 0
MoreTo(n, bound) == IF n < bound THEN n + 1 ELSE n
Older(ages) == [i \in DOMAIN ages |-> MoreTo(ages[i], 2 * Window + 1)]

\* A unit of time passes.  The worker's loop completes a pass in every unit
\* (they are seconds, its pauses are milliseconds).
Clock ==
    /\ step = Idle /\ ticked
    /\ ticked' = FALSE /\ gcDue' = TRUE
    /\ queue' = [i \in DOMAIN queue |-> [queue[i] EXCEPT !.left = Less(@)]]
    /\ cache' = [k \in Keys |-> IF cache[k].ttl <= 1 THEN NoEntry
                                ELSE [cache[k] EXCEPT !.ttl = @ - 1]]
    /\ limit' = IF limit.ttl <= 1 THEN [cap |-> 0, ttl |-> 0]
                                  ELSE [limit EXCEPT !.ttl = @ - 1]
    /\ rate' = [i \in DOMAIN rate |-> Older(rate[i])]
    /\ sent' = [i \in Ips |-> Trim(Older(sent[i]), Window)]
    /\ revoked' = [k \in Keys |-> IF revoked[k] = 0 THEN 0 ELSE MoreTo(revoked[k], Duration + 2)]
    /\ granted' = [k \in Keys |-> Less(granted[k])]
    /\ UNCHANGED <<request, handoff, step, adopted, lost>>

-------------------------------------------------------------------------------
Pass == TickStart \/ Drive \/ DriveDone \/ \E k \in Keys : Drain(k)

Accept(c, k, ip) ==
    AcceptRefused(c, k, ip) \/ AcceptCached(c, k, ip) \/ AcceptUnknown(c, k, ip)

Next ==
    \/ Pass
    \/ \E c \in Conns, k \in Keys, ip \in Ips : Accept(c, k, ip)
    \/ \E k \in Keys : Answer(k) \/ Reconsider(k)
    \/ \E c \in Conns : Adopt(c) \/ Leave(c)
    \/ Clock

Spec == Init /\ [][Next]_vars

-------------------------------------------------------------------------------
(* Properties *)

Answers == {"yes", "capped", "no"}

StateOK ==
    /\ queue \in Seq([conn : Conns, key : Keys, left : 0 .. Hold, asked : BOOLEAN])
    /\ handoff \subseteq Conns \X Keys
    /\ adopted \subseteq Conns
    /\ cache \in [Keys -> [answer : Answers, ttl : 0 .. Duration]]
    /\ request \in [Keys -> {"none", "sent"} \cup Answers]
    /\ gcDue \in BOOLEAN /\ ticked \in BOOLEAN
    /\ limit \in [cap : Nat, ttl : 0 .. Duration]
    /\ step \in [at : {"idle", "tick"}, keys : SUBSET Keys, next : Nat \ {0}]
    /\ revoked \in [Keys -> 0 .. Duration + 2]
    /\ granted \in [Keys -> 0 .. Duration]
    /\ lost \subseteq Keys

CapsHold ==
    /\ Len(queue) <= HeldCap
    /\ Cardinality(LiveKeys) <= CacheCap
    /\ Cardinality(InFlight) <= PendingCap
    /\ Cardinality(DOMAIN rate) <= IpCap

\* The variables keep their types and the maps their caps.
TypeOK == StateOK /\ CapsHold

\* A withdrawn key stops admitting viewers: nobody is let in on a key the
\* backend has withdrawn more than a cache duration ago, the unit in which the
\* last answer was collected included, whatever sits in the cache, in flight or
\* in the queue.
RevokedKeyLapses ==
    [][\A p \in handoff' \ handoff : revoked[p[2]] <= Duration + 1]_vars

\* The stream's limit lasts no longer than the answer it came with
\* (PLAYER_KEY_IMPLEMENTATION.md: "until it expires"): later accepts on the
\* same key do not prolong it.
OverrideLapses == limit.ttl > 0 => \E k \in Keys : limit.ttl <= granted[k]

\* A tracked address causes no more webhook calls per window than configured,
\* through every cleanup of the map and every eviction of a cached answer.
RateBudget == \A i \in Ips : Len(sent[i]) <= Requests

\* A socket whose key was asked about is held only while the question is open:
\* no pass leaves it waiting for an answer that has come and gone, unless the
\* cache was full and gave that answer up for the one of another key.
HeldIsAsked ==
    step = Idle =>
        \A i \in DOMAIN queue :
            queue[i].asked => request[queue[i].key] # "none" \/ queue[i].key \in lost

\* No viewer is held past its deadline: every pass ends with the expired ones
\* closed, even if the webhook never answers and whatever the pass removed from
\* the queue before it came to them.
HeldBounded == step = Idle /\ ticked => \A i \in DOMAIN queue : queue[i].left > 0

-------------------------------------------------------------------------------
(* The inductive invariant                                                   *)

\* The sets that the caps count are finite, whatever the constants.
Finite == IsFiniteSet(LiveKeys) /\ IsFiniteSet(InFlight) /\ IsFiniteSet(DOMAIN rate)

\* Only requests in flight are collected.
StepShape == (step.at = "idle" => step = Idle) /\ step.keys \subseteq InFlight

\* A positive answer that is collected was given in this unit or the one
\* before; what is left of a cached one and what has passed since the key was
\* withdrawn add up to no more than its lifetime and those units.
AnswersLapse ==
    \A k \in Keys :
        /\ Positive(k) => revoked[k] + cache[k].ttl <= Duration + 2
        /\ request[k] \in {"yes", "capped"} => revoked[k] <= 2
        /\ request[k] \in {"yes", "capped"} /\ revoked[k] = 2 =>
              ~ticked /\ (step.at = "tick" => k \in step.keys)

\* A cached limit is the one last granted, or older.
LimitIsGranted ==
    \A k \in Keys : Live(k) /\ cache[k].answer = "capped" => cache[k].ttl <= granted[k]

\* What the pass has been over is within its deadline.
PassedAreInTime ==
    step.at = "tick" => \A i \in DOMAIN queue : i < step.next => queue[i].left > 0

\* What an address has been sent for is the end of its request times: no trim
\* and no cleanup of the map drops a request that still counts.
EndsWith(q, t) ==
    /\ Len(t) <= Len(q)
    /\ \A j \in 1 .. Len(t) : t[j] = q[Len(q) - Len(t) + j]
RequestTimes(r, ip) == IF ip \in DOMAIN r THEN r[ip] ELSE <<>>
RequestAges == 0 .. 2 * Window + 1
Covers(times, counted) ==
    /\ times \in Seq(RequestAges) /\ OldestFirst(times)
    /\ counted \in Seq(0 .. Window) /\ EndsWith(times, counted)
RateShape ==
    /\ sent \in [Ips -> Seq(0 .. Window)]
    /\ \A i \in Ips : Covers(RequestTimes(rate, i), sent[i])

\* A socket whose question is no longer open lost the answer to a full cache, or
\* belongs to the pass that collected it: the answer is cached and the pass has not
\* come to the socket yet.
AskedShape ==
    /\ step.keys # {} => step.next = 1
    /\ \A i \in DOMAIN queue :
          queue[i].asked /\ request[queue[i].key] = "none" =>
             \/ queue[i].key \in lost
             \/ step.at = "tick" /\ i >= step.next /\ Live(queue[i].key)

IInv ==
    /\ StateOK /\ StepShape /\ CapsHold /\ Finite
    /\ RateShape /\ RateBudget
    /\ AnswersLapse /\ LimitIsGranted /\ OverrideLapses
    /\ PassedAreInTime /\ HeldBounded
===============================================================================
