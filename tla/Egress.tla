-------------------------------- MODULE Egress --------------------------------
(***************************************************************************)
(* The egress side of one viewer: CSLSRole::handler_write_data(), run for  *)
(* the viewer by every pass of its worker, on top of the ring of the       *)
(* stream (RecycleArray, with one 1316-byte unit for a byte).              *)
(*                                                                         *)
(* A batch taken from the ring is staged in m_data and written to the SRT  *)
(* socket unit by unit.  When the socket's send buffer is full the rest    *)
(* stays staged, the worker asks to be woken when the buffer drains, and a *)
(* timer starts that any accepted unit stops; a viewer that accepts        *)
(* nothing for longer than the timeout is disconnected.  The SRT library,  *)
(* which drains the send buffer, is external.                              *)
(***************************************************************************)
EXTENDS RecycleArray

CONSTANTS
    Viewer,       \* the one reader of the ring
    Batches,      \* MAX_EGRESS_BATCHES
    SendBuffer,   \* units the SRT send buffer holds
    StuckTimeout  \* backpressure_stuck_timeout_ms(), in ticks

ASSUME ViewerAssumption == Readers = {Viewer}
ASSUME EgressAssumption ==
    /\ Batches \in Nat \ {0} /\ SendBuffer \in Nat \ {0} /\ StuckTimeout \in Nat
    /\ ReadSize > 0

VARIABLES
    pc,       \* "parked": the worker is elsewhere; "fetch", "write": in the pass
    batch,    \* batches done in this pass
    staged,   \* the units of m_data between m_data_pos and m_data_len
    queued,   \* units in the SRT send buffer
    armed,    \* m_epoll_out_armed
    stuck,    \* age of m_backpressure_stuck_since_ms, or NotStuck
    conn,     \* "open", or how the viewer was lost: "stuck", "failed"
    wire,     \* history: units the socket has accepted
    base,     \* history: the unit the viewer joined at
    lapped,   \* history: the writer has lapped the viewer
    quiet,    \* history: ticks since the socket last accepted a unit
    burst     \* history: units accepted in this pass

link == <<queued, armed, stuck, conn>>
history == <<wire, base, lapped, quiet, burst>>
egress == <<pc, batch, staged, link, history>>
evars == <<vars, egress>>

NotStuck == -1
Header == -2      \* the PAT/PMT/SPS/PPS unit a joining viewer is sent first

EInit ==
    /\ Init
    /\ pc = "parked" /\ batch = 0 /\ staged = <<>>
    /\ queued = 0 /\ armed = FALSE /\ stuck = NotStuck /\ conn = "open"
    /\ wire = <<>> /\ base = 0 /\ lapped = FALSE /\ quiet = 0 /\ burst = 0

-------------------------------------------------------------------------------
\* The worker begins its egress pass for the viewer.
Pass ==
    /\ pc = "parked" /\ conn = "open"
    /\ pc' = "fetch"
    /\ batch' = 0
    /\ burst' = 0
    /\ UNCHANGED <<vars, staged, link, wire, base, lapped, quiet>>

\* Mutant: OUT is not armed for the units that are left.
ParkUnarmed(rest) ==
    /\ pc' = "parked"
    /\ armed' = FALSE

\* The pass is over; update_egress_arming() arms OUT if units are left.
Park(rest) ==
    /\ pc' = "parked"
    /\ armed' = (rest # <<>>)

\* Nothing is fetched while units are staged.
Resume ==
    /\ pc = "fetch" /\ staged # <<>>
    /\ pc' = "write"
    /\ UNCHANGED <<vars, batch, staged, link, history>>

\* get(): the first call of a viewer yields the header unit, whatever the ring
\* holds; a later one may yield nothing, and then the pass is over.
Fetch ==
    /\ pc = "fetch" /\ staged = <<>>
    /\ \/ /\ Anchor(Viewer)
          /\ staged' = <<Header>> /\ base' = at'[Viewer]
          /\ pc' = "write" /\ UNCHANGED <<armed, lapped>>
       \/ /\ Read(Viewer)
          /\ staged' = out'[Viewer].data
          /\ lapped' = (lapped \/ Lag(Viewer) > Size)
          /\ IF CopyLen(Viewer) > 0 THEN pc' = "write" /\ UNCHANGED armed ELSE Park(<<>>)
          /\ UNCHANGED base
       \/ /\ Overrun(Viewer) \/ (MayGet /\ ~rd[Viewer].first /\ NoNewData(Viewer) /\ UNCHANGED vars)
          /\ Park(<<>>)
          /\ UNCHANGED <<staged, base, lapped>>
    /\ UNCHANGED <<batch, queued, stuck, conn, wire, quiet, burst>>

\* Mutant: an accepted unit leaves the stuck timer running.
AcceptKeepsTimer ==
    /\ pc = "write" /\ queued < SendBuffer
    /\ queued' = queued + 1
    /\ wire' = Append(wire, Head(staged))
    /\ staged' = Tail(staged)
    /\ quiet' = 0
    /\ burst' = burst + 1
    /\ IF Tail(staged) # <<>>
       THEN UNCHANGED <<pc, batch, armed>>
       ELSE /\ batch' = batch + 1
            /\ IF batch + 1 < Batches THEN pc' = "fetch" /\ UNCHANGED armed ELSE Park(<<>>)
    /\ UNCHANGED <<vars, stuck, conn, base, lapped>>

\* Mutant: the loop runs once more than MAX_EGRESS_BATCHES.
AcceptOneMore ==
    /\ pc = "write" /\ queued < SendBuffer
    /\ queued' = queued + 1
    /\ wire' = Append(wire, Head(staged))
    /\ staged' = Tail(staged)
    /\ stuck' = NotStuck
    /\ quiet' = 0
    /\ burst' = burst + 1
    /\ IF Tail(staged) # <<>>
       THEN UNCHANGED <<pc, batch, armed>>
       ELSE /\ batch' = batch + 1
            /\ IF batch < Batches THEN pc' = "fetch" /\ UNCHANGED armed ELSE Park(<<>>)
    /\ UNCHANGED <<vars, conn, base, lapped>>

\* write(): the socket takes one unit, which ends a stuck streak.  The batch
\* done, the loop goes on to the next one up to MAX_EGRESS_BATCHES.
Accept ==
    /\ pc = "write" /\ queued < SendBuffer
    /\ queued' = queued + 1
    /\ wire' = Append(wire, Head(staged))
    /\ staged' = Tail(staged)
    /\ stuck' = NotStuck
    /\ quiet' = 0
    /\ burst' = burst + 1
    /\ IF Tail(staged) # <<>>
       THEN UNCHANGED <<pc, batch, armed>>
       ELSE /\ batch' = batch + 1
            /\ IF batch + 1 < Batches THEN pc' = "fetch" /\ UNCHANGED armed ELSE Park(<<>>)
    /\ UNCHANGED <<vars, conn, base, lapped>>

\* Mutant: the units the socket had no room for are dropped.
BackpressureDrops ==
    /\ pc = "write" /\ queued = SendBuffer
    /\ stuck' = IF stuck = NotStuck THEN 0 ELSE stuck
    /\ IF stuck > StuckTimeout
       THEN conn' = "stuck" /\ pc' = "parked" /\ UNCHANGED <<armed, staged>>
       ELSE Park(<<>>) /\ staged' = <<>> /\ UNCHANGED conn
    /\ UNCHANGED <<vars, batch, queued, history>>

\* Mutant: each refusal restarts the stuck timer.
BackpressureRestarts ==
    /\ pc = "write" /\ queued = SendBuffer
    /\ stuck' = 0
    /\ IF stuck > StuckTimeout
       THEN conn' = "stuck" /\ pc' = "parked" /\ UNCHANGED armed
       ELSE Park(staged) /\ UNCHANGED conn
    /\ UNCHANGED <<vars, batch, staged, queued, history>>

\* SRT_EASYNCSND: start the timer, or disconnect when it has run out, or leave
\* the units staged for the next pass.
Backpressure ==
    /\ pc = "write" /\ queued = SendBuffer
    /\ stuck' = IF stuck = NotStuck THEN 0 ELSE stuck
    /\ IF stuck > StuckTimeout
       THEN conn' = "stuck" /\ pc' = "parked" /\ UNCHANGED armed
       ELSE Park(staged) /\ UNCHANGED conn
    /\ UNCHANGED <<vars, batch, staged, queued, history>>

\* Any other error of write(): the role is invalidated.
WriteFails ==
    /\ pc = "write"
    /\ conn' = "failed" /\ pc' = "parked"
    /\ UNCHANGED <<vars, batch, staged, queued, armed, stuck, history>>

-------------------------------------------------------------------------------
\* The publisher's put(); on one worker it is not run inside the viewer's pass.
Publish ==
    /\ ~SameWorker \/ pc = "parked"
    /\ (\E len \in Lens : PutCopy(len)) \/ PutCount
    /\ UNCHANGED egress

\* The SRT library sends a unit.
Drain ==
    /\ queued > 0
    /\ queued' = queued - 1
    /\ UNCHANGED <<vars, pc, batch, staged, armed, stuck, conn, history>>

\* Time passes; both ages stop counting once they are past the timeout.
Older(age) == IF age > StuckTimeout THEN age ELSE age + 1
Tick ==
    /\ stuck' = IF stuck = NotStuck THEN stuck ELSE Older(stuck)
    /\ quiet' = Older(quiet)
    /\ <<stuck', quiet'>> # <<stuck, quiet>>
    /\ UNCHANGED <<vars, pc, batch, staged, queued, armed, conn, wire, base, lapped, burst>>

InPass == Resume \/ Fetch \/ Accept \/ Backpressure \/ WriteFails
ENext == Pass \/ InPass \/ Publish \/ Drain \/ Tick
ESpec == EInit /\ [][ENext]_evars

\* The worker is woken by srt_epoll_wait because OUT is armed and ready.
WokenByOut == armed /\ queued < SendBuffer /\ Pass

\* A pass that was begun goes on, and so does a put().  Beyond that either is
\* enough: a worker passes at least every POLLING_TIME and time goes on,
\* whatever the viewer's link does; or nothing but OUT wakes the worker, and
\* the viewer's link moves.
Polled == WF_evars(Pass) /\ WF_evars(Tick)
Driven == WF_evars(WokenByOut) /\ WF_evars(Drain)
FairESpec == ESpec /\ WF_evars(InPass) /\ WF_evars(Publish) /\ (Polled \/ Driven)

-------------------------------------------------------------------------------
(* Properties *)

EStateOK ==
    /\ pc \in {"parked", "fetch", "write"}
    /\ batch \in 0..Batches
    /\ staged \in Seq(Nat \cup {Header, Uninit})
    /\ pc = "write" => staged # <<>>
    /\ queued \in 0..SendBuffer
    /\ armed \in BOOLEAN
    /\ stuck \in NotStuck..(StuckTimeout + 1)
    /\ conn \in {"open", "stuck", "failed"}
    /\ wire \in Seq(Nat \cup {Header, Uninit})
    /\ base \in Nat
    /\ lapped \in BOOLEAN
    /\ quiet \in 0..(StuckTimeout + 1)
    /\ burst \in 0..(Batches * ReadSize)

\* The variables keep their types, and "a LIVE viewer must not catch up by
\* bursting": one pass writes no more than MAX_EGRESS_BATCHES reads (burst), the
\* left-over of an earlier pass included.
ETypeOK == TypeOK /\ EStateOK

\* Backpressure loses and repeats nothing: as long as the viewer was neither
\* lapped nor resynced, what the socket took and what is staged are together
\* the header and every unit since it joined, in order.
WireIsStream ==
    ~lapped /\ overruns = 0 /\ ~rd[Viewer].first =>
        wire \o staged = <<Header>> \o [i \in 1..(at[Viewer] - base) |-> base + i - 1]

\* "A viewer who can drain even slowly is not zombie-stuck": one that is cut
\* off as stuck had no unit accepted for longer than the timeout.
OnlyStuckAreCut == conn = "stuck" => quiet > StuckTimeout

\* A viewer's staged units are sent or the viewer is disconnected; none holds
\* its position in the ring for good.
NoZombie == staged # <<>> /\ conn = "open" ~> staged = <<>> \/ conn # "open"

-------------------------------------------------------------------------------
(* The inductive invariant                                                   *)

\* A batch is at most one read, and what a pass has written is the batches it
\* has done and the part of the present one that is no longer staged.
BurstShape ==
    /\ Len(staged) <= ReadSize
    /\ pc = "fetch" => batch < Batches /\ burst <= batch * ReadSize
    /\ pc = "write" => batch < Batches /\ burst + Len(staged) <= (batch + 1) * ReadSize

\* The stuck timer is never older than the silence it stands for.
StuckShape ==
    /\ stuck # NotStuck => stuck <= quiet
    /\ conn # "open" => pc = "parked"
    /\ OnlyStuckAreCut

\* The i-th unit that a viewer which joined at b and keeps up must get.
Unit(b, i) == IF i = 1 THEN Header ELSE b + i - 2

WireShape ==
    /\ rd[Viewer].first => wire = <<>> /\ staged = <<>>
    /\ ~lapped /\ overruns = 0 /\ ~rd[Viewer].first =>
          /\ base <= at[Viewer]
          /\ Len(wire) + Len(staged) = 1 + at[Viewer] - base
          /\ \A i \in 1..Len(wire) : wire[i] = Unit(base, i)
          /\ \A i \in 1..Len(staged) : staged[i] = Unit(base, Len(wire) + i)

\* What the properties rest on: the ring's invariant, the viewer's own state on
\* any number of workers, and on one worker what its wire holds.
Own == EStateOK /\ BurstShape /\ StuckShape
EIInv == IInv /\ Own /\ (SameWorker => WireShape)
===============================================================================
