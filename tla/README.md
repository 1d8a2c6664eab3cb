# A verification project for bbox-receiver

TLA+ models of the receiver's streaming core, TLC runs that check them on small
instances, and TLAPS proofs for every value of the constants. The code is under
`src/`; `PROJECT.json` maps each definition to the lines it models.

## The system

bbox-receiver is one container: an SRT live server in C++ (`src/sls`), a
Node.js stream manager (`src/server`), and the external `srtla_rec`, which
forwards bonded links into the SRT server. The files of `src/sls-patch` that the
Dockerfile lays over `src/sls` are identical to the ones they replace.

The SRT server (`src/sls/src/core`):

| Component | State | Operations | What makes it correct |
|---|---|---|---|
| Stream ring (`SLSRecycleArray`) | byte array, write position, byte count; a cursor per viewer | put, get, resync of a lapped viewer, backlog gauges | viewers are handed the stream in order, and moved to the live edge only from a whole ring behind; no viewer starves |
| Ring map (`SLSMapData`) | rings and ts_infos by key, stream count, total bytes, caps | add (idempotent, capped), remove, clear, put, get | one writer per key; counters equal what is allocated; caps hold |
| Publisher map (`SLSMapPublisher`) | the role registered for each key | look up, register if free, remove if mine | a key has one owner and is always given back |
| Hand-off list (`SLSRoleList`) | roles accepted and not yet adopted | push, pop, reap after a TTL | each role leaves it once, to one thread |
| Worker (`SLSGroup`) | its roles by socket | one loop: wait for sockets, reads, egress pass, housekeeping (reap, adopt, tear down) | teardown only on the owning worker |
| Role (`SLSRole`: publisher, player, puller, pusher, listener) | socket, state, kick flag, staged egress data, timers | read handler, write handler, get_state, uninit | see the properties below |
| Listener (`SLSListenerHandler`, `SLSListenerAuth`) | key-validation cache, rate limits, players waiting for validation | accept a publisher, accept a player, validate a key, complete a waiting player | limits hold, each waiting player is decided once |
| Authorisation (`AsyncHttpClient`, `auth_reject_cache`, `SLSRole`) | outstanding webhook requests, refused stream ids | on_connect, check_http_passed, on_close | no data before authorisation |
| Relays (`SLSRelay*`, `SLSPuller*`, `SLSPusher*`) | upstreams, reconnect queues | pull on demand, push on publish, reconnect | reconnects stay bounded and happen |
| Ingest filters (`SLSBitrateLimit`, `SLSAudioGapFiller`) | a sliding window; continuity counters and PTS per track | check a packet, fill a gap | limit decisions, continuous counters |
| Manager (`SLSManager`, `srt-live-server`) | generations of workers | start, reload, statistics, disconnect | old workers end when empty |

How they interact: a worker thread runs its loop over the roles in its own map,
the listeners among them. A listener accepts a connection, registers a publisher
in the publisher map and pushes the role on the hand-off list; any worker pops
and adopts it. The publisher's read handler allocates the ring on the first
packet and puts packets in it; a player's write handler gets from it with its
own cursor. Shared between threads are the two maps, the list, each with its own
lock, the rings, and a few atomics of a role (the kick flag and the time of the
last packet). The HTTP control plane only sets kick flags and reads statistics.

Hard in this system, and the reason for the choice of what is modelled first:
the two maps are changed in separate critical sections, so accept, pull,
takeover and teardown interleave; a role moves between threads; a viewer's
cursor is compared with a ring that moves, laps it or is replaced; backpressure
interrupts a batch that is finished passes later; allocation counters are kept
beside the maps they count. The list with line numbers is `hazards` in
`PROJECT.json`.

## Modules

| Module | Models |
|---|---|
| `ByteStream` | abstract: what a ring promises its viewers |
| `RecycleArray` | the ring, put() in its two steps and get() |
| `RecycleArray_proofs` | theorems about it, and that it implements `ByteStream` |
| `Egress` | one viewer's write handler on top of `RecycleArray` |
| `Egress_proofs` | theorems about it, on top of those about the ring |
| `StreamKey` | abstract: what a key promises its sessions, a lock |
| `StreamSession` | the sessions that compete for one key, on several workers |
| `StreamSession_proofs` | theorems about it, and that it implements `StreamKey` |
| `MapData` | rings by key, their budget, and cursors that outlive a ring |
| `MapData_proofs` | theorems about it |
| `PlayerAdmission` | a player listener: key cache, rate limit, held viewers, player limits |
| `PlayerAdmission_proofs` | theorems about it |
| `Tallies` | what the limiters and the ring map count with: sums over sets, queues trimmed from the front |
| `Tallies_proofs` | lemmas about these |
| `BitrateLimit` | the limiter of one publisher: window, violation, cut |
| `Ingest` | a publisher from handshake to teardown, on top of `BitrateLimit` |
| `Ingest_proofs` | theorems about it |
| `PusherRelay` | a publisher's pushers, their retries, their manager's life, the reload |
| `PusherRelay_proofs` | theorems about it |
| `MC...` | instances for TLC |

Operators named in a comment `Mutant:` are wrong versions of the definition that
follows them. No specification uses them; each shows that a property fails when
the code has that bug.

### RecycleArray and ByteStream

The k-th byte ever written is the number k, so a read can be compared with what
it should have returned. `PutCopy` is the part of put() under the write lock and
`PutCount` the increment of `m_nDataCount` after it. get() holds the read lock
throughout and is one step with three outcomes: `Anchor` (first call), `Overrun`
(resync), `Read`. `SameWorker` says whether writer and readers are served by one
thread, as with the shipped `worker_threads 1`; then no get() falls between the
two steps of a put(). `at` and `out` are history: the byte a viewer is due, and
its last result. `ByteStream` states what the code keeps with the partial, aligned
reads of its callers (16*1316 bytes from a ring of megabytes): a viewer joins at the
live edge and each call hands it consecutive bytes of the last ring, none twice over
its life. It loses bytes in two ways: from a whole ring behind it may be moved to
the live edge, and one that was lapped unnoticed goes on a whole number of rings
further. The second way is the disagreement that `ring_lapped` shows.

### Egress

`pc` follows `handler_write_data()`: `Pass` enters it, `Fetch` takes a batch from
the ring (the header first), `Accept` is one successful write of a 1316-byte
unit, `Backpressure` the EASYNCSND branch with the stuck timer, `WriteFails` the
other errors, `Resume` a pass that finds units staged. `Park` ends a pass and
arms OUT as `update_egress_arming()` does. The send buffer (`queued`, `Drain`) is
libsrt and external. The unit of the ring is here one 1316-byte packet.

### StreamSession

One key. `op[w]` is where worker w stands in an operation that takes several
critical sections, so that other workers run between them: accept (`AcceptLookup`,
`Incumbent` or `Register`, `Push`), pull (`PullLookup`, `PullRegister`,
`PullRing`, `PullUndo`, `Push`), a read (`Receive`, `Put`), and teardown, in the
order of each role's uninit(): `DropRing`, `DropEntry`, `Close` for a publisher,
`DropEntry`, `DropRing`, `Close` for a puller. `ring` holds the role whose add()
allocated the ring. `handoff` is a set and not a queue, so any order of adoption
is allowed. Time is abstracted: `Quiet` lets a second without packets pass,
`IdleTimeout` and `Reap` may fire whenever the code's condition can hold.
`Receive` may fail for any of the reasons the read handler has.

In `StreamKey` a session opens when the key is free, is granted it if it still is,
or refused, waits, is served, ends, and yields the key. `Phase` finds a session's
phase from where the workers, the list and the map have it: `open` until it is
registered, `waiting` from there to its adoption, `served`, `ending` as long as the
map still has it, `gone`. A kick or a takeover is no step of the lock.

### MapData

Every operation is one critical section under `m_rwclock`. A ring is its size,
write position and byte count; a cursor is `SLSRecycleArrayID`. `same` is history:
the cursor was set on the ring its key has now. `Sizes` stands for the sizes
add() can decide on from bitrate and latency. Only publishers' add() and the
players' get() matter here, so who calls which and when is left open.

### PlayerAdmission

A player listener and the webhook that validates player keys. The listener's
worker either accepts (`AcceptRefused`, `AcceptCached`, `AcceptUnknown`: the
player branch of handler() with validate_player_key()) or is inside a pass of
on_worker_tick(): `TickStart`, one `Drain` per completed request, one `Drive` per
held socket, `DriveDone`. Between the steps of a pass the webhook answers
(`Answer`), the backend changes its mind (`Reconsider`), and workers adopt and lose
players. `Clock` lets a unit of time pass. An entry that has expired is the same
as none, so the sweeps that only free memory are not actions. All keys resolve to
one stream. Whether the stream is live, the ACL lets the address through and the
publisher is still there when the answer comes is the free choice in
`FinishPlayerAccept`. `revoked`, `granted`, `sent` and `lost` are history: for how long
the backend has refused a key, what is left of the last answer that carried a limit,
when requests were sent for an address, and which keys' last answer the full cache
gave up for that of another key.

### BitrateLimit and Ingest

`BitrateLimit` is check_data_bitrate() with its window of <<age, bytes>>; the sum
is kept beside the window as in the code, and the window is pruned only when the
last cleanup is more than `Gate` ago. `Ingest` follows one stream id, `Id`, among those
that knock: `Handshake` asks the reject cache (an SRT thread), `OtherDenied` is the
refusal of another id, which takes a place in that cache and may evict (`Block`), `AcceptPublisher` sends on_connect, `Answer` is
the pool thread, `GateRefuses`, `ReadJunk` and `ReadMedia` are the branches of
handler_read_data() on check_http_passed(), `CheckInvalid` is the reaper with the
role's uninit(), `Kick` the disconnect endpoint, a takeover or a lost peer.
`on_connect` may send nothing at all, when its URL does not fit the buffer; the gate
then opens unasked (`verdict = "unasked"`), as in the code. `NoRingUnanswered` is about
the sessions for which it was sent: no answer and no failure is ever taken for a
pass. At most one read per unit of time. `verdict`, `closes`, `denial`, `honest` and `abuse` are history.

### PusherRelay

One publisher with a CSLSPusherManager of mode "all". `Home` serves the publisher:
`Spawn` and `ConnectAll` start the pushers, `Detach`, `Unlist`, `FreeManager` are its
uninit() in the order the code documents. Every worker adopts pushers, loses
them (`Reap`, then `UninitLoad` and `AddReconnectStream`, which load the manager's
pointer and call it in two steps) and retries them (`Reconnect`,
`ReconnectLocked`, one step per url, `RetryDone`). `queued` is the set of workers
whose own list holds the manager. The manager's lock is held through a whole
pass over its urls; looking the publisher up happens before it, and finds this
publisher or another one that has taken the key since (`other`: `OtherComes`,
`OtherLeaves`). That one's ring feeds the pushers that are left, and it keeps its
worker busy. `Reload`, `Exit`, `CheckInvalid` and `Stop` retire the workers. A pass of
check_invalid() deletes the workers it finds; after an erasure its iterators are
stale, so it may miss one, and from the second erasure on its outcome is open
(`astray`). What follows that, or a call of a freed manager (`freedUse`), is undefined:
nothing is started afterwards, and the properties other than `NoFreedManager` say
nothing of it.

## Runs

| Run | Bounds | Shows |
|---|---|---|
| `ring` | ring of 5, two viewers, 13 bytes, puts of 1, 2, 3 and 5, reads of 2 aligned to 2 | the byte stream is implemented with partial reads, laps that go unnoticed included; a viewer with an aligned unit ready is served |
| `ring_lapped` (violation) | ring of 4, one viewer, 12 bytes, puts of 1 to 3, reads of 1 | after partial reads a lapped viewer is not noticed |
| `egress` | ring of 4, reads of 2, send buffer of 2, 2 batches, 6 units | order, resync only from a ring behind, no loss by backpressure, fair cut-off, bounded burst (in `ETypeOK`), no zombie |
| `session_takeover` | 2 workers of capacity 2, 2 encoders, 1 puller | single writer, single owner, no stale entry, no leaked ring; the lock `StreamKey` is implemented |
| `session_key_released` | 2 workers of capacity 1, 1 encoder, 1 puller | a kicked or broken role gives the key back |
| `session_pull_race` (violation) | 2 workers, 1 encoder, 1 puller | a puller's teardown frees a publisher's ring |
| `map_budget` | 3 keys, rings of 2 and 3, caps of 2 streams and 5 bytes | budget equals allocation, caps hold, own-ring reads are sound |
| `map_replaced` (violation) | 1 key, 1 viewer, one ring size | an old cursor on a new ring yields unwritten cells |
| `admission` | 2 viewers, 2 keys, 2 addresses, answers of 2 units, hold of 2, 2 requests in flight, caps of 1 (queue: 2) | withdrawn keys lapse, limits lapse with their answer, the webhook budget and the deadline hold, only an answer the cache gave up leaves a viewer waiting, caps hold |
| `ingest` | window of 3, gate of 3, threshold of 3, up to 3 bytes a unit over a limit of 2, reject TTL of 2, 3 ids and 2 places in the reject cache | no ring before the answer or after a refusal, on_close is sent once, denials alone block an id and only eviction ends that early, the limiter cuts the abuser and not the honest |
| `relay` | 2 workers, 2 upstreams, 3 pushers, interval of 1 | one pusher per upstream, retries are spaced, retired workers end unless a second publisher stays |
| `relay_freed` (violation) | the same | a worker calls the manager its publisher has freed |

Why the bounds are enough: 13 bytes lap a ring of 5 twice. Reads of 2 leave a rest,
the ring is no multiple of the aligned unit, and puts of odd lengths make the
alignment leave a byte behind; puts of up to the whole ring bring a viewer to a ring
behind exactly, and past it in one call or over several. Two workers
and three roles suffice for every pair of operations to interleave with a third
role waiting; the proofs remove the bound. A send buffer of 2 with 2 batches of 2
lets a pass be cut short at each unit. Two streams' worth of memory with three
keys lets each of the two caps be the one that refuses. In `admission` each cap is
smaller than what competes for it: two keys, both of which may be asked about at once,
for one place in the cache, so that two answers of one pass meet there, two addresses for one place in the rate map, and a queue
that two viewers fill; a lifetime of 2 with a hold of 2 lets an answer expire
before, at and after a deadline. In `ingest` the gate is as long as the window, so
the sum covers more than its span, and a burst may exceed the limit; the two other
ids can fill the reject cache between them. Two workers and three pushers for two upstreams let a pusher be lost while another
for its upstream is being opened. The proofs below remove these bounds where
they reach. The bounds are `MaxTotal` (bytes ever written) and the ages in `Egress`, which stop past the
timeout. Roles are used once each. `CHECK_DEADLOCK FALSE`: the models stop when
the bound is reached or all roles are used up and gone.

Fairness. `RecycleArray`: each pass calls get() for every viewer, and put()
returns (weak fairness). `Egress`: a pass and a put() go on; beyond that either
polling with a clock that advances (the worker passes at least every 10 ms), or
wake-ups by OUT alone with a link that moves, is enough for `NoZombie`; the
specification assumes only the disjunction. `StreamSession`: a worker inside an
operation goes on; each pass runs `idle_check()`, so a role that stays due for
teardown, or for the reaper, is dealt with though the worker is busy in between:
strong fairness of those two. Nothing is assumed of peers, of accepts or of
adoption. `PusherRelay`: each worker goes on with what it is inside, tears down
dead pushers and leaves its loop when it may (weak fairness each; the loop passes
at least every 10 ms); a pusher gets nothing to send once no publisher of its key is
left, this one or another, and only then does its idle timeout surely come
(`Starve`); the main loop keeps calling check_invalid(), and stop() when no worker is
left. That another publisher leaves is not assumed, so `Retires` promises nothing while
one is there. Adoption is not assumed: what nobody adopts is released by stop().
`PlayerAdmission` has no fairness: that a pass is completed in every unit of time, seconds against the
loop's milliseconds, is the guard of `Clock`, and likewise `Ingest` lets no unit pass
while a role is due for the reaper.

## What disagrees

1. `ring_lapped`. get() marks everything as seen after a partial read, so the
   overrun check measures the time since the last call and not the lag. The same
   line makes `get_reader_backlog()` read 0 for a reader that is behind, against
   its description (SLSRecycleArray.hpp:73-80); no property is stated of the gauge.
   What is left of the promise with the reads the code makes is `ByteStream`.
2. `session_pull_race`. `CSLSPuller::uninit()` gives up the key before the ring;
   `CSLSPublisher::uninit()` the other way round, and for it
   `PublishersKeepRing` is proved.
3. `map_replaced`. Nothing resets a viewer's cursor when its stream's ring is
   replaced. When the new ring is smaller the cursor can also end past its end,
   which the asserts of get() exclude.
4. `relay_freed`. CSLSPublisher::uninit() frees its pusher manager last, as its
   comment asks, but a worker that lost a pusher keeps the manager in its own
   list until a retry succeeds and calls it at its next pass. The detachment only
   keeps pushers that die later from being queued. A pusher that had loaded the
   pointer before the detachment calls it late as well.

Also seen, without a run:

- With several workers a get() between the two steps of a put() sees the position
  moved and the count not; when the count arrives, the next call takes equal
  positions for a full ring and replays it. The comment in get() says the read
  lock prevents that pair from tearing. The in-order property is therefore stated
  for `SameWorker`.
- `count_players_for_stream()` counts players in the hand-off list only, which
  adopted players have left; PLAYER_KEY_IMPLEMENTATION.md promises a limit on the
  audience. `LimitReached` models what the code does.
- The comment above the resync in get() speaks of a reader that has been lapped by
  "more than" the ring (SLSRecycleArray.cpp:178-181); the code's `>=` (187) also
  resyncs a reader exactly a ring behind, whose bytes are all still there.
  `ResyncOnlyRingBehind` says what the code does.
- A full validation cache may give up an answer before the held viewers saw it: two
  answers of one pass with one place left, the second evicting the first. The first
  key's viewer then waits out its deadline (`HeldBounded`). It happens in `admission`,
  and `HeldIsAsked` names the keys (`lost`); with the real caps (1024 requests, 50000
  entries) it takes a cache full of entries that live longer.
- A denied id is let in before its TTL when the reject cache is full and the denials
  of other ids push it out, the price of the cap that test_auth_reject_cache.cpp:77-88 tests.
  `BlockedByDenial` allows that and nothing else.
- When the player-key queue's limit of requests in flight is reached, the viewer
  is held although nothing was asked for its key, and waits out its deadline.
- A young bitrate window is divided by at least one second. A sender within its
  limit over the whole window can therefore be cut for bursts a few seconds after
  its start. `HonestNotCut` measures honesty over every span the limiter uses.
- "check_http_passed() above guarantees we only reach here once the publisher is
  authorized, so an unauthenticated or never-sending connection can never pin a
  ring" (SLSRole.cpp:514-517). It does not guarantee it: when the event URL does not
  fit its buffer, on_connect() sends nothing (SLSRole.cpp:820-826), the accept ignores
  its error (SLSListenerHandler.cpp:825), check_http_passed() finds no request and
  lets the role pass. `Ingest` does this; `NoRingUnanswered` is stated for the sessions
  whose on_connect was sent.
- uninit() drops a webhook answer that is still out, so the list of roles that
  wait for one after they are gone is never filled.
- A connection that passed the handshake before its id was denied is accepted and
  asks again; the reject cache is not read a second time.
- Lost retries of pushers: if every upstream fails at the start, or a pusher is
  discarded before adoption, its url is entered for a retry but the manager is in
  no worker's list, though the comment at SLSPublisher.cpp:206 counts on it; in
  reconnect_all() a url that is not due joins the pass's result with the result of
  the url before it, so after a success the manager leaves the list with that url
  waiting; a reloaded worker that serves nobody exits with its list. `PusherRelay`
  does all three, and no property denies them.
- CSLSManager::check_invalid() goes on with iterators it has invalidated
  (SLSManager.cpp:665-688); srt-live-server.cpp:523-526 says of the same pattern that
  it was undefined. With two workers that have both exited the second erasure is
  past the vector's end. `CheckInvalid` does this (`astray`), and `Retires` is stated up
  to there.
- stop() clears the maps before it erases the hand-off list, whose roles still use
  them.
- The HTTP threads read the `sls_manager` pointer that a reload replaces, unlocked.

## Proofs

Proved by TLAPS for all constants that satisfy the named assumptions.

`RecycleArray_proofs`. The invariant `IInv` joins to the properties that each
position is the logical byte number modulo the ring (`PositionsCongruent`) and,
for one worker, that a cursor is never ahead (`CursorsBehind`). Without the
congruence, which byte a cell holds and which cell is read next are unrelated.
From it: `TypeOK`, `RingHoldsTail` on any number of workers, `InOrder` and
`ResyncOnlyRingBehind` on one, and on one worker, whatever the read buffer and the
alignment, that every step is a `ByteStream` step or a stutter. For the last the
place a read begins at is the last one in the ring that is congruent to the byte
the viewer is due, which is that byte itself unless the viewer has been lapped.

`Tallies_proofs`. A sum over a set is a recursion over it, and the provers cannot
instantiate an induction theorem with a predicate. Its induction goes by sets
instead: the library says that < is well founded on the naturals and that each
set of them has a minimal element; the least cardinality of a counterexample is
then none. From it the sum over a set with one element more or less, over a part,
of constants and bounded terms, and over shifted indices. `Stale` is a CHOOSE;
that such a number exists and is unique is the least index that is young enough.

`Egress_proofs`. Every step is a step of the ring or leaves it alone
(`EgressKeepsRing`), so `IInv` holds here too. `BurstShape` counts what a pass has
written by its batches and the staged rest by the present one, which bounds the
burst; `StuckShape` keeps the stuck timer below the silence it stands for.
`WireShape` gives each unit of the wire and of the staged rest its number in the
stream, the joining position added in; a read of a viewer that was not lapped
continues it (`CopiesWhatIsDue`), and an accepted unit only moves from one to the
other. From it `WireIsStream`, for one worker.

`StreamSession_proofs`. The key fact is `HolderIsRegistered`: every role that
has an entry still to drop is the registered one. So two cannot exist, and
`SingleWriter` and `ServedIsRegistered` follow. `OpShape`, `Circulation` and
`AddedByServed` carry what an operation in progress knows of its role. `SingleOwner`,
`NoStaleEntry` and `NoRingLeak` are inductive with those. `PublishersKeepRing`
is inductive on top. That the sessions implement `StreamKey` is shown step by step:
`PhaseTable` says where a session of each phase is and that exactly the waiting,
served and ending have the key, `Apart` that what a worker carries is nowhere
else; so each step moves one session at most, from a phase to the next one of the
lock. A reap, which may take several roles off the list, takes one, as all of them
would be the registered one.

`MapData_proofs`. `RingShape` and `CursorShape` say that until its first lap a
ring's position is its count and a cursor set on it is not past it; at it only
when there is nothing new. From them `OwnRingSound`, and with the library's facts on
cardinality `CountBalanced` and `TsInfoPaired`. The byte counter is the sum of the
sizes of the rings (`TypeOK`), from which both caps hold for what is allocated
(`CapsHold`).

`Ingest_proofs`. `GateShape` ties the gate's state to what the backend said: an
answer that is awaited or unread belongs to an open session without a ring, and a
gate that is open without having passed was never asked. From it
`NoRingUnanswered` and `CloseOnce`; `BlockedByDenial` is inductive, for an eviction takes
the entry nearest to its expiry and leaves the cache full. The limiter's total is
the bytes of its window, and the window is oldest first (`WindowShape`), so a
cleanup takes exactly the expired packets away. `HonestNotCut`: right after a
cleanup all the window holds is within the span it is divided by, and an honest
sender does not exceed that; so an honest sender's violation began after the last
cleanup (`HonestShape`), the next one ends it, and it is younger than the gate,
which the threshold is not. `AbuseIsCut`: each of the last units of a streak has a
packet over the limit in the window (`AbuseShape`), so once the streak fills the
span every packet exceeds the limit, the violation that began no longer ends, and
it has passed the threshold when the streak is a threshold longer than the window.

`PlayerAdmission_proofs`. `AnswersLapse` adds what is left of a positive answer to
the time since its key was withdrawn: the sum never exceeds the lifetime and the
two units in which an answer may wait for its pass, because a pass collects what
is in flight and no unit passes without one. `LimitIsGranted` compares a
cached limit with the grant, which `OverrideLapses` needs. `PassedAreInTime` says
that what a pass has walked over is within its deadline, also when it removes
sockets from the queue it walks; at the end of the pass it is `HeldBounded`. The
caps need the finiteness of what they count (`Finite`), for any set of keys.
`RateBudget`: the requests that still count are the end of the address's request
times (`RateShape`), for the trim and the sweep take from the front what is older
than a window, a sweep that drops the whole entry leaves nothing that counts, and
an address the full map does not take is sent nothing for. `HeldIsAsked`, for any
number of requests in flight and any caps: a socket whose question is closed lost
the answer to a full cache, or has it there, and the pass that collected it has not
come to the socket yet (`AskedShape`). It needs refusals to be cached for a while at all
(`NegDuration > 0`, a hypothesis of the theorem).

`PusherRelay_proofs`. `OneToken`: for each upstream there is one token, held by the
pusher that is bound to the manager (or is just calling it) or by the entry in
the retry map; the lock hands it on. A pusher without a token is dead
(`PusherShape`), and an upstream not opened yet has none (`StartShape`), so
`OnePusher` follows. An entry is no older than the last attempt
(`EntriesAreLater`), so `RetrySpaced` does.

Assumptions on the constants are those the modules name, and the code's: for the
limiter the gate is 1000 ms (SLSBitrateLimit.cpp:104) and the threshold is whole
seconds, one at least (SLSBitrateLimit.cpp:57-67), so `Gate <= Threshold`; `HonestNotCut`
needs it. `SameWorker` is a hypothesis of the theorems on one worker.

Only model-checked: liveness (`Drains`, `NoZombie`, `KeyReleased`, `Retires`), because
fairness and ENABLED are out of the prover's reach. Every other property of a
passing run is a theorem.

## Not modelled

The components of `PROJECT.json` with status `not_modelled` say why. Within the
modelled ones: parsing of stream ids, keys and URLs, ACLs, latency negotiation,
statistics and logging; TS parsing in put() (`check_ts_info`, SEI, audio gaps);
more than one listener's configuration; static relay managers; memory exhaustion;
`worker_threads 0`, where one group runs in the main loop.

## Plan

Done: the ring, egress, the sessions of a key, the ring map, player admission, the
authorisation gate and the bitrate limit, dynamic pushers with the retirement of
workers, and proofs about all of them. Next, in this order:

1. Static relay managers: loop and hash choice of an upstream, pullers that
   reconnect at an interval, the order of stop().
2. The audio gap filler: continuity counters modulo 16 and 33-bit PTS against a
   reference definition.
3. `SingleOwner` extended to viewers.
4. The Node stream manager's store.
