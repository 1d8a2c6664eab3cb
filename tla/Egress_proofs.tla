---------------------------- MODULE Egress_proofs ----------------------------
(***************************************************************************)
(* Proofs about Egress, for every ring size, read size, put length, batch  *)
(* bound, send buffer and timeout.                                         *)
(***************************************************************************)
EXTENDS Egress, RecycleArray_proofs, SequenceTheorems, TLAPS

USE SizeAssumption, ReadAssumption, LensAssumption, WorkerAssumption,
    BoundAssumption, ViewerAssumption, EgressAssumption

\* The viewer is one of the ring's readers.
LEMMA ViewerIsReader == Viewer \in Readers
  OBVIOUS

\* What staging and writing do to a sequence.
LEMMA HeadMoved ==
    ASSUME NEW S, NEW s \in Seq(S), s # <<>>, NEW w \in Seq(S)
    PROVE  /\ Len(s) \in Nat \ {0} /\ Len(w) \in Nat
           /\ Tail(s) \in Seq(S) /\ Len(Tail(s)) = Len(s) - 1
           /\ \A i \in 1..(Len(s) - 1) : Tail(s)[i] = s[i + 1]
           /\ Append(w, Head(s)) \in Seq(S) /\ Len(Append(w, Head(s))) = Len(w) + 1
           /\ \A i \in 1..Len(w) : Append(w, Head(s))[i] = w[i]
           /\ Append(w, Head(s))[Len(w) + 1] = s[1]
<1>1. Head(s) \in S /\ Head(s) = s[1]
  BY HeadTailProperties
<1> QED BY <1>1, HeadTailProperties, AppendProperties

\* A batch of n units out of b is no more than the product of the bounds.
LEMMA ProductBound ==
    ASSUME NEW a \in Nat, NEW b \in Nat, NEW c \in Nat, a <= b
    PROVE  a * c \in Nat /\ a * c <= b * c
<1>1. b * c = a * c + (b - a) * c
  BY SMTT(30)
<1>2. (b - a) * c \in Nat /\ a * c \in Nat
  BY SMTT(30)
<1> QED BY <1>1, <1>2

\* One batch more is a batch's units more.
LEMMA NextProduct ==
    ASSUME NEW a \in Nat, NEW c \in Nat
    PROVE  a * c \in Nat /\ (a + 1) * c = a * c + c
  BY SMTT(30)

-------------------------------------------------------------------------------
(* The egress side is a user of the ring *)

\* A packet put into the ring is a step of the ring.
LEMMA PublishIsNext == Publish => Next
  BY DEF Publish, Next

\* So is a batch read from it.
LEMMA FetchIsNext == Fetch => [Next]_vars
  BY ViewerIsReader DEF Fetch, Next, Get

\* Nothing else the write handler, the link or the clock does touches the ring.
LEMMA OthersLeaveRing ==
    Pass \/ Resume \/ Accept \/ Backpressure \/ WriteFails \/ Drain \/ Tick
        \/ UNCHANGED evars => UNCHANGED vars
  BY DEF Pass, Resume, Accept, Backpressure, WriteFails, Drain, Tick, evars

\* Every step is a step of the ring or a stutter of it.
LEMMA EgressStepsRing == [ENext]_evars => [Next]_vars
  BY PublishIsNext, FetchIsNext, OthersLeaveRing DEF ENext, InPass

\* Whatever the viewer's link does, the ring goes through steps of its own
\* specification only: what is proved of the ring holds of it in use.
THEOREM EgressKeepsRing == ESpec => Spec
<1>1. EInit => Init
  BY DEF EInit
<1> QED BY <1>1, EgressStepsRing, PTL DEF ESpec, Spec

-------------------------------------------------------------------------------
(* Types and the bound on a burst *)

Units == Nat \cup {Header, Uninit}

\* A role starts with nothing staged, written or timed.
LEMMA OwnInit == EInit => Own
<1> SUFFICES ASSUME EInit PROVE Own
  OBVIOUS
<1>1. <<>> \in Seq(Units) /\ Len(<<>>) = 0
  OBVIOUS
<1>2. Batches * ReadSize \in Nat
  BY SMTT(30)
<1>3. EStateOK
  <2>1. /\ 0 \in 0..(Batches * ReadSize) /\ 0 \in 0..Batches /\ 0 \in 0..SendBuffer
        /\ 0 \in 0..(StuckTimeout + 1) /\ NotStuck \in NotStuck..(StuckTimeout + 1)
    BY <1>2 DEF NotStuck
  <2>2. /\ pc = "parked" /\ batch = 0 /\ staged = <<>> /\ queued = 0 /\ armed = FALSE
        /\ stuck = NotStuck /\ conn = "open" /\ wire = <<>> /\ base = 0
        /\ lapped = FALSE /\ quiet = 0 /\ burst = 0
    BY DEF EInit
  <2> QED BY <1>1, <2>1, <2>2, Zenon DEF EStateOK, Units
<1>4. BurstShape /\ StuckShape
  BY <1>1 DEF EInit, BurstShape, StuckShape, OnlyStuckAreCut
<1> QED BY <1>3, <1>4 DEF Own

\* What a read hands over fits the buffer it is staged in.
LEMMA ReadFits ==
    ASSUME TypeOK, TypeOK', Read(Viewer)
    PROVE  /\ out'[Viewer].data \in Seq(Units)
           /\ Len(out'[Viewer].data) = CopyLen(Viewer)
           /\ CopyLen(Viewer) \in 0..ReadSize
           /\ CopyLen(Viewer) > 0 => out'[Viewer].data # <<>>
           /\ CopyLen(Viewer) = 0 => out'[Viewer].data = <<>>
<1> DEFINE got == [i \in 1..CopyLen(Viewer) |-> buf[Wrap(rd[Viewer].pos + i - 1)]]
<1>1. CopyLen(Viewer) \in 0..ReadSize
  BY ViewerIsReader, CopyLenBound
<1>2. out'[Viewer].data = got
  BY ViewerIsReader DEF Read, TypeOK
<1>3. Len(got) = CopyLen(Viewer)
  BY <1>1
<1>4. out'[Viewer].data \in Seq(Nat \cup {Uninit})
  BY ViewerIsReader DEF TypeOK
<1>5. out'[Viewer].data \in Seq(Units)
  BY <1>4, SeqMonotonic DEF Units
<1> HIDE DEF got
<1>6. Len(out'[Viewer].data) = CopyLen(Viewer)
  BY <1>2, <1>3
<1>7. CopyLen(Viewer) = 0 <=> out'[Viewer].data = <<>>
  BY <1>5, <1>6, EmptySeq
<1> QED BY <1>1, <1>5, <1>6, <1>7

\* An accepted unit moves from the staged to the written and rewinds the timer.
LEMMA OwnAccept == Own /\ Accept => Own'
<1> SUFFICES ASSUME Own, Accept PROVE Own'
  OBVIOUS
<1>1. /\ pc = "write" /\ staged \in Seq(Units) /\ staged # <<>> /\ wire \in Seq(Units)
      /\ batch \in Nat /\ batch < Batches /\ burst \in Nat /\ queued \in 0..(SendBuffer - 1)
      /\ burst + Len(staged) <= (batch + 1) * ReadSize /\ Len(staged) <= ReadSize
      /\ conn = "open" /\ armed \in BOOLEAN /\ lapped \in BOOLEAN /\ base \in Nat
  BY DEF Own, Accept, EStateOK, BurstShape, StuckShape, Units
<1>2. /\ queued' = queued + 1 /\ wire' = Append(wire, Head(staged)) /\ staged' = Tail(staged)
      /\ stuck' = NotStuck /\ quiet' = 0 /\ burst' = burst + 1 /\ conn' = conn
      /\ base' = base /\ lapped' = lapped
  BY DEF Accept
<1>3. /\ Len(staged) \in Nat \ {0} /\ Tail(staged) \in Seq(Units)
      /\ Len(Tail(staged)) = Len(staged) - 1
      /\ Append(wire, Head(staged)) \in Seq(Units)
  BY <1>1, HeadMoved
<1>4. (batch + 1) * ReadSize \in Nat /\ (batch + 1) * ReadSize <= Batches * ReadSize
      /\ Batches * ReadSize \in Nat
  <2>1. batch + 1 \in Nat /\ batch + 1 <= Batches /\ Batches \in Nat /\ ReadSize \in Nat
    BY <1>1
  <2>2. Batches * ReadSize \in Nat
    BY ProductBound
  <2> QED BY <2>1, <2>2, ProductBound
<1>5. burst' \in 0..(Batches * ReadSize) /\ Len(staged') <= ReadSize
  <2> DEFINE room == (batch + 1) * ReadSize
             limit == Batches * ReadSize
  <2>1. burst + Len(staged) <= room /\ room \in Nat /\ limit \in Nat /\ room <= limit
    BY <1>1, <1>4
  <2> HIDE DEF room, limit
  <2>2. burst' \in 0..limit
    BY <1>1, <1>2, <1>3, <2>1
  <2>3. Len(staged') <= ReadSize
    BY <1>1, <1>2, <1>3
  <2> QED BY <2>2, <2>3 DEF limit
<1>6. CASE Tail(staged) # <<>>
  <2>1. pc' = "write" /\ batch' = batch /\ armed' = armed
    BY <1>1, <1>6 DEF Accept
  <2>2. burst' + Len(staged') <= (batch' + 1) * ReadSize
    BY <1>1, <1>2, <1>3, <1>4, <2>1
  <2> QED
    BY <1>1, <1>2, <1>3, <1>5, <1>6, <2>1, <2>2
    DEF Own, EStateOK, BurstShape, StuckShape, OnlyStuckAreCut, NotStuck, Units
<1>7. CASE Tail(staged) = <<>>
  <2>1. batch' = batch + 1 /\ armed' \in BOOLEAN
        /\ \/ pc' = "fetch" /\ batch + 1 < Batches
           \/ pc' = "parked"
    BY <1>1, <1>7 DEF Accept, Park
  <2>2. burst' <= batch' * ReadSize
    <3>1. burst' <= (batch + 1) * ReadSize
      BY <1>1, <1>2, <1>3, <1>4
    <3> QED BY <2>1, <3>1
  <2> QED
    BY <1>1, <1>2, <1>3, <1>5, <1>7, <2>1, <2>2
    DEF Own, EStateOK, BurstShape, StuckShape, OnlyStuckAreCut, NotStuck, Units
<1> QED BY <1>6, <1>7

\* A batch is staged only when nothing is, and within the bound of a pass.
LEMMA OwnFetch == Own /\ TypeOK /\ TypeOK' /\ Fetch => Own'
<1> SUFFICES ASSUME Own, TypeOK, TypeOK', Fetch PROVE Own'
  OBVIOUS
<1>1. /\ pc = "fetch" /\ staged = <<>> /\ conn = "open"
      /\ batch \in 0..Batches /\ batch < Batches /\ burst \in 0..(Batches * ReadSize)
      /\ burst <= batch * ReadSize
      /\ batch' = batch /\ burst' = burst /\ stuck' = stuck /\ quiet' = quiet /\ conn' = conn
      /\ queued' = queued /\ wire' = wire
  BY DEF Own, Fetch, EStateOK, BurstShape, StuckShape
<1>2. Batches * ReadSize \in Nat /\ batch * ReadSize \in Nat
      /\ (batch + 1) * ReadSize = batch * ReadSize + ReadSize
  BY <1>1, ProductBound, NextProduct
<1>3. \/ pc' = "write" /\ staged' # <<>>
      \/ pc' = "parked"
  <2>1. CASE staged' = <<Header>> /\ pc' = "write"
    <3>1. <<Header>> # <<>>
      OBVIOUS
    <3> QED BY <2>1, <3>1, Zenon
  <2>2. CASE Read(Viewer) /\ staged' = out'[Viewer].data
             /\ IF CopyLen(Viewer) > 0 THEN pc' = "write" ELSE pc' = "parked"
    <3>1. CopyLen(Viewer) > 0 => out'[Viewer].data # <<>>
      BY <2>2, ReadFits, Zenon
    <3> QED BY <2>2, <3>1, Zenon
  <2>3. CASE pc' = "parked"
    BY <2>3
  <2> QED BY <2>1, <2>2, <2>3, Zenon DEF Fetch, Park
<1>4. /\ staged' \in Seq(Units) /\ Len(staged') \in 0..ReadSize
      /\ armed' \in BOOLEAN /\ base' \in Nat /\ lapped' \in BOOLEAN
  <2>1. base \in Nat /\ armed \in BOOLEAN /\ lapped \in BOOLEAN
    BY DEF Own, EStateOK
  <2>2. CASE Anchor(Viewer) /\ staged' = <<Header>> /\ base' = at'[Viewer] /\ armed' = armed
             /\ lapped' = lapped
    <3>1. <<Header>> \in Seq(Units) /\ Len(<<Header>>) = 1
      BY DEF Units
    <3>2. base' \in Nat
      BY <2>2, ViewerIsReader DEF Anchor, Total, TypeOK
    <3> QED BY <2>1, <2>2, <3>1, <3>2
  <2>3. CASE Read(Viewer) /\ staged' = out'[Viewer].data /\ base' = base
             /\ lapped' = (lapped \/ Lag(Viewer) > Size)
             /\ IF CopyLen(Viewer) > 0 THEN pc' = "write" /\ armed' = armed ELSE Park(<<>>)
    <3>1. armed' \in BOOLEAN
      BY <2>1, <2>3 DEF Park
    <3>2. lapped' \in BOOLEAN
      BY <2>1, <2>3
    <3> QED BY <2>1, <2>3, <3>1, <3>2, ReadFits
  <2>4. CASE Park(<<>>) /\ staged' = staged /\ base' = base /\ lapped' = lapped
    <3>1. <<>> \in Seq(Units) /\ Len(<<>>) = 0
      OBVIOUS
    <3> QED BY <1>1, <2>1, <2>4, <3>1 DEF Park
  <2> QED BY <2>2, <2>3, <2>4 DEF Fetch
<1>5. burst' + Len(staged') <= (batch' + 1) * ReadSize
  BY <1>1, <1>2, <1>4
<1> QED
  BY <1>1, <1>3, <1>4, <1>5
  DEF Own, EStateOK, BurstShape, StuckShape, OnlyStuckAreCut, Units

\* The other steps leave the units, and only the clock moves the timer.
LEMMA OwnRest ==
    Own /\ (Pass \/ Resume \/ Backpressure \/ WriteFails \/ Publish \/ Drain \/ Tick
              \/ UNCHANGED evars) => Own'
<1> USE DEF Own, EStateOK, BurstShape, StuckShape, OnlyStuckAreCut
<1>1. ASSUME Own, Pass PROVE Own'
  <2>1. pc' = "fetch" /\ batch' = 0 /\ burst' = 0 /\ conn = "open" /\ UNCHANGED <<staged, link, wire, base, lapped, quiet>>
    BY <1>1 DEF Pass
  <2>2. 0 \in 0..(Batches * ReadSize) /\ 0 <= 0 * ReadSize /\ 0 < Batches
    BY ProductBound
  <2> QED BY <1>1, <2>1, <2>2 DEF link
<1>2. ASSUME Own, Resume PROVE Own'
  <2>1. pc = "fetch" /\ pc' = "write" /\ staged # <<>> /\ UNCHANGED <<batch, staged, link, history>>
    BY <1>2 DEF Resume
  <2>2. (batch + 1) * ReadSize = batch * ReadSize + ReadSize /\ batch * ReadSize \in Nat
    BY <1>2, NextProduct
  <2>3. Len(staged) \in Nat /\ Len(staged) <= ReadSize /\ burst <= batch * ReadSize
        /\ burst \in Nat
    BY <1>2, <2>1, LenProperties
  <2>4. burst + Len(staged) <= (batch + 1) * ReadSize
    BY <2>2, <2>3
  <2> QED BY <1>2, <2>1, <2>4 DEF link, history
<1>3. ASSUME Own, Backpressure PROVE Own'
  <2>1. /\ pc = "write" /\ conn = "open" /\ stuck \in NotStuck..(StuckTimeout + 1)
        /\ quiet \in 0..(StuckTimeout + 1) /\ (stuck # NotStuck => stuck <= quiet)
        /\ stuck' = IF stuck = NotStuck THEN 0 ELSE stuck
        /\ UNCHANGED <<batch, staged, queued, history>>
    BY <1>3 DEF Backpressure
  <2>2. stuck' \in 0..(StuckTimeout + 1) /\ stuck' <= quiet /\ 0 # NotStuck
    BY <2>1 DEF NotStuck
  <2>3. /\ pc' = "parked" /\ armed' \in BOOLEAN
        /\ conn' = conn \/ (conn' = "stuck" /\ quiet > StuckTimeout)
    <3>1. CASE stuck > StuckTimeout
      <4>1. conn' = "stuck" /\ pc' = "parked" /\ armed' = armed /\ armed \in BOOLEAN
        BY <1>3, <3>1 DEF Backpressure
      <4>2. quiet > StuckTimeout
        BY <2>1, <3>1 DEF NotStuck
      <4> QED BY <4>1, <4>2
    <3>2. CASE ~(stuck > StuckTimeout)
      BY <1>3, <3>2 DEF Backpressure, Park
    <3> QED BY <3>1, <3>2
  <2>4. stuck' \in NotStuck..(StuckTimeout + 1)
    BY <2>2 DEF NotStuck
  <2> QED BY <1>3, <2>1, <2>2, <2>3, <2>4 DEF history
<1>4. ASSUME Own, WriteFails PROVE Own'
  BY <1>4 DEF WriteFails, history
<1>5. ASSUME Own, Publish \/ UNCHANGED evars PROVE Own'
  BY <1>5 DEF Publish, evars, egress, link, history
<1>6. ASSUME Own, Drain PROVE Own'
  BY <1>6 DEF Drain, history
<1>7. ASSUME Own, Tick PROVE Own'
  BY <1>7 DEF Tick, Older, NotStuck
<1> QED BY <1>1, <1>2, <1>3, <1>4, <1>5, <1>6, <1>7

-------------------------------------------------------------------------------
(* What the socket took, on one worker thread *)

\* A viewer that keeps up: it has joined, was not lapped and not resynced.
KeepsUp == ~lapped /\ overruns = 0 /\ ~rd[Viewer].first

\* A unit keeps its number when it moves from the staged to the wire.
LEMMA WireAccept ==
    ASSUME WireShape, TypeOK, Own, Accept
    PROVE  WireShape'
<1>1. /\ staged \in Seq(Units) /\ staged # <<>> /\ wire \in Seq(Units) /\ base \in Nat
      /\ at[Viewer] \in Int
      /\ wire' = Append(wire, Head(staged)) /\ staged' = Tail(staged)
      /\ base' = base /\ lapped' = lapped /\ overruns' = overruns /\ rd' = rd /\ at' = at
  BY ViewerIsReader DEF Own, Accept, EStateOK, TypeOK, vars, Units
<1>2. /\ Len(staged) \in Nat \ {0} /\ Len(wire) \in Nat
      /\ Len(Tail(staged)) = Len(staged) - 1
      /\ \A i \in 1..(Len(staged) - 1) : Tail(staged)[i] = staged[i + 1]
      /\ Len(wire') = Len(wire) + 1
      /\ \A i \in 1..Len(wire) : wire'[i] = wire[i]
      /\ wire'[Len(wire) + 1] = staged[1]
  BY <1>1, HeadMoved
<1>3. ~rd[Viewer].first
  BY <1>1 DEF WireShape
<1>4. CASE KeepsUp
  <2>1. /\ base <= at[Viewer] /\ Len(wire) + Len(staged) = 1 + at[Viewer] - base
        /\ \A i \in 1..Len(wire) : wire[i] = Unit(base, i)
        /\ \A i \in 1..Len(staged) : staged[i] = Unit(base, Len(wire) + i)
    BY <1>4 DEF WireShape, KeepsUp
  <2>3. \A i \in 1..Len(wire') : wire'[i] = Unit(base, i)
    <3>1. wire'[Len(wire) + 1] = Unit(base, Len(wire) + 1)
      BY <1>2, <2>1
    <3>2. \A i \in 1..Len(wire) : wire'[i] = Unit(base, i)
      BY <1>2, <2>1
    <3>3. \A i \in 1..Len(wire') : i \in 1..Len(wire) \/ i = Len(wire) + 1
      BY <1>2
    <3> QED BY <3>1, <3>2, <3>3
  <2>4. \A i \in 1..Len(staged') : staged'[i] = Unit(base, Len(wire') + i)
    <3> SUFFICES ASSUME NEW i \in 1..Len(staged')
                 PROVE  staged'[i] = Unit(base, Len(wire') + i)
      OBVIOUS
    <3>1. i \in 1..(Len(staged) - 1) /\ i + 1 \in 1..Len(staged)
      BY <1>1, <1>2
    <3>2. staged'[i] = Unit(base, Len(wire) + (i + 1))
      BY <1>1, <1>2, <2>1, <3>1
    <3>3. Len(wire) + (i + 1) = Len(wire') + i
      BY <1>2, <3>1
    <3> QED BY <3>2, <3>3
  <2>5. Len(wire') + Len(staged') = 1 + at[Viewer] - base
    BY <1>1, <1>2, <2>1
  <2> QED BY <1>1, <1>3, <2>1, <2>3, <2>4, <2>5 DEF WireShape
<1>5. CASE ~KeepsUp
  BY <1>1, <1>3, <1>5 DEF WireShape, KeepsUp
<1> QED BY <1>4, <1>5

\* What a viewer that keeps up is staged continues what it was sent.
LEMMA WireFetch ==
    ASSUME WireShape, Base, SameWorker, Own, Fetch
    PROVE  WireShape'
<1>1. /\ wire \in Seq(Units) /\ Len(wire) \in Nat /\ base \in Nat /\ at[Viewer] \in Nat
      /\ overruns \in Nat /\ staged = <<>> /\ wire' = wire /\ Total \in Nat
  <2>1. wire \in Seq(Units) /\ base \in Nat /\ staged = <<>> /\ wire' = wire
    BY DEF Own, Fetch, EStateOK, Units
  <2>2. at[Viewer] \in Nat /\ overruns \in Nat /\ Total \in Nat
    BY ViewerIsReader DEF Base, TypeOK, CursorsBehind, Total
  <2> QED BY <2>1, <2>2, LenProperties
<1>2. CASE Anchor(Viewer) /\ staged' = <<Header>> /\ base' = at'[Viewer]
  <2>1. rd[Viewer].first /\ at'[Viewer] = Total /\ ~rd'[Viewer].first
    BY <1>2, ViewerIsReader DEF Anchor, Base, TypeOK
  <2>2. wire' = <<>> /\ Len(<<>>) = 0
    BY <1>1, <2>1 DEF WireShape
  <2>3. Len(staged') = 1 /\ staged'[1] = Header
    BY <1>2
  <2>4. Unit(base', 1) = Header
    BY DEF Unit
  <2>5. \A i \in 1..Len(staged') : staged'[i] = Unit(base', Len(wire') + i)
    BY <2>2, <2>3, <2>4
  <2> QED BY <1>1, <1>2, <2>1, <2>2, <2>3, <2>5 DEF WireShape
<1>3. CASE Read(Viewer) /\ staged' = out'[Viewer].data /\ base' = base
           /\ lapped' = (lapped \/ Lag(Viewer) > Size)
  <2>1. /\ pending = 0 /\ ~rd[Viewer].first /\ ~NoNewData(Viewer)
        /\ at'[Viewer] = Total - Ready(Viewer) + CopyLen(Viewer) /\ overruns' = overruns
        /\ ~rd'[Viewer].first
        /\ staged' = [i \in 1..CopyLen(Viewer) |-> buf[Wrap(rd[Viewer].pos + i - 1)]]
    BY <1>3, ViewerIsReader DEF Read, MayGet, Base, TypeOK
  <2>2. CopyLen(Viewer) \in Nat
    BY ViewerIsReader, CopyLenBound DEF Base
  <2>3. Len(staged') = CopyLen(Viewer)
    BY <2>1, <2>2
  <2>4. SUFFICES ASSUME KeepsUp'
                 PROVE  /\ base' <= at'[Viewer]
                        /\ Len(wire') + Len(staged') = 1 + at'[Viewer] - base'
                        /\ \A i \in 1..Len(wire') : wire'[i] = Unit(base', i)
                        /\ \A i \in 1..Len(staged') : staged'[i] = Unit(base', Len(wire') + i)
    BY <2>1 DEF WireShape, KeepsUp
  <2>5. KeepsUp /\ Lag(Viewer) <= Size
    <3>1. Lag(Viewer) \in Int
      BY <1>1 DEF Lag
    <3>2. ~lapped /\ ~(Lag(Viewer) > Size)
      BY <1>3, <2>4 DEF KeepsUp
    <3> QED BY <2>1, <2>4, <3>1, <3>2 DEF KeepsUp
  <2>6. /\ base <= at[Viewer] /\ Len(wire) = 1 + at[Viewer] - base
        /\ \A i \in 1..Len(wire) : wire[i] = Unit(base, i)
    BY <1>1, <2>5 DEF WireShape, KeepsUp
  <2>7. base' = base
    BY <1>3
  <2>8. ASSUME NEW i \in 1..Len(staged')
        PROVE  staged'[i] = Unit(base', Len(wire') + i)
    <3>1. i \in 1..CopyLen(Viewer)
      BY <2>3
    <3>2. staged'[i] = at[Viewer] + i - 1
      BY <2>1, <2>5, <3>1, ViewerIsReader, CopiesWhatIsDue
    <3>3. Len(wire) + i # 1 /\ base + (Len(wire) + i) - 2 = at[Viewer] + i - 1
      <4>1. Len(wire) >= 1 /\ i \in Nat /\ i >= 1 /\ base + Len(wire) = 1 + at[Viewer]
        BY <1>1, <2>2, <2>6, <3>1
      <4> QED BY <1>1, <4>1
    <3>4. Unit(base, Len(wire) + i) = at[Viewer] + i - 1
      BY <3>3 DEF Unit
    <3> QED BY <1>1, <2>7, <3>2, <3>4
  <2>9. at'[Viewer] = at[Viewer] + CopyLen(Viewer)
    <3>1. Ready(Viewer) = Lag(Viewer)
      BY <2>1, <2>5, ViewerIsReader, ReadyIsLag
    <3> QED BY <1>1, <2>1, <2>2, <3>1 DEF Lag
  <2>10. base' <= at'[Viewer] /\ Len(wire') + Len(staged') = 1 + at'[Viewer] - base'
    BY <1>1, <1>3, <2>2, <2>3, <2>6, <2>7, <2>9
  <2>11. \A i \in 1..Len(wire') : wire'[i] = Unit(base', i)
    BY <1>1, <2>6, <2>7
  <2> QED BY <2>8, <2>10, <2>11
<1>4. CASE (Overrun(Viewer) \/ UNCHANGED vars) /\ staged' = staged /\ base' = base
           /\ lapped' = lapped /\ ~rd[Viewer].first
  <2>1. CASE Overrun(Viewer)
    <3>1. overruns' = overruns + 1 /\ ~rd'[Viewer].first
      BY <2>1, ViewerIsReader DEF Overrun, Base, TypeOK
    <3> QED BY <1>1, <3>1 DEF WireShape
  <2>2. CASE UNCHANGED vars
    BY <1>1, <1>4, <2>2 DEF WireShape, vars, Unit
  <2> QED BY <1>4, <2>1, <2>2
<1> QED BY <1>2, <1>3, <1>4 DEF Fetch, Overrun

\* The other steps leave wire, staged and cursor.
LEMMA WireRest ==
    ASSUME WireShape,
           Pass \/ Resume \/ Backpressure \/ WriteFails \/ Publish \/ Drain \/ Tick
             \/ UNCHANGED evars
    PROVE  WireShape'
<1>1. /\ wire' = wire /\ staged' = staged /\ base' = base /\ lapped' = lapped
      /\ rd' = rd /\ at' = at /\ overruns' = overruns
  BY DEF Pass, Resume, Backpressure, WriteFails, Publish, Drain, Tick, evars, egress,
         history, vars, PutCopy, PutCount
<1> QED BY <1>1 DEF WireShape, Unit

\* Read from the header on, the socket and the staging buffer hold the stream.
LEMMA WireShapeIsStream ==
    ASSUME WireShape, TypeOK, Own
    PROVE  WireIsStream
<1> SUFFICES ASSUME KeepsUp
             PROVE  wire \o staged = <<Header>> \o [i \in 1..(at[Viewer] - base) |-> base + i - 1]
  BY DEF WireIsStream, KeepsUp
<1> DEFINE n == at[Viewer] - base
           due == [i \in 1..n |-> base + i - 1]
<1>1. wire \in Seq(Units) /\ staged \in Seq(Units) /\ base \in Nat /\ at[Viewer] \in Int
      /\ Len(wire) \in Nat /\ Len(staged) \in Nat
  <2>1. wire \in Seq(Units) /\ staged \in Seq(Units) /\ base \in Nat
    BY DEF Own, EStateOK, Units
  <2>2. at[Viewer] \in Int
    BY ViewerIsReader DEF TypeOK
  <2> QED BY <2>1, <2>2, LenProperties
<1>2. /\ n \in Nat /\ Len(wire) + Len(staged) = 1 + n
      /\ \A i \in 1..Len(wire) : wire[i] = Unit(base, i)
      /\ \A i \in 1..Len(staged) : staged[i] = Unit(base, Len(wire) + i)
  BY <1>1 DEF WireShape, KeepsUp
<1>3. due \in Seq(Units) /\ Len(due) = n /\ \A i \in 1..n : due[i] = base + i - 1
  <2>1. \A i \in 1..n : base + i - 1 \in Units
    BY <1>1, <1>2 DEF Units
  <2>2. due \in [1..n -> Units]
    BY <2>1
  <2> HIDE DEF n
  <2> QED BY <1>2, <2>2
<1>4. <<Header>> \in Seq(Units) /\ Len(<<Header>>) = 1 /\ <<Header>>[1] = Header
  BY DEF Units
<1> HIDE DEF n, due
<1>5. /\ wire \o staged \in Seq(Units) /\ Len(wire \o staged) = 1 + n
      /\ \A i \in 1..(1 + n) : (wire \o staged)[i] =
              IF i <= Len(wire) THEN wire[i] ELSE staged[i - Len(wire)]
  BY <1>1, <1>2, ConcatProperties
<1>6. /\ <<Header>> \o due \in Seq(Units) /\ Len(<<Header>> \o due) = 1 + n
      /\ \A i \in 1..(1 + n) : (<<Header>> \o due)[i] =
              IF i <= 1 THEN <<Header>>[i] ELSE due[i - 1]
  BY <1>3, <1>4, ConcatProperties
<1>7. ASSUME NEW i \in 1..(1 + n)
      PROVE  (wire \o staged)[i] = (<<Header>> \o due)[i]
  <2>1. (wire \o staged)[i] = Unit(base, i)
    <3>1. CASE i <= Len(wire)
      BY <1>1, <1>2, <1>5, <3>1
    <3>2. CASE ~(i <= Len(wire))
      <4>1. i - Len(wire) \in 1..Len(staged) /\ Len(wire) + (i - Len(wire)) = i
        BY <1>1, <1>2, <3>2
      <4>2. staged[i - Len(wire)] = Unit(base, i)
        BY <1>2, <4>1
      <4> QED BY <1>5, <3>2, <4>2
    <3> QED BY <3>1, <3>2
  <2>2. (<<Header>> \o due)[i] = Unit(base, i)
    <3>1. CASE i = 1
      BY <1>4, <1>6, <3>1 DEF Unit
    <3>2. CASE i # 1
      <4>1. i - 1 \in 1..n /\ ~(i <= 1)
        BY <1>2, <3>2
      <4>2. due[i - 1] = base + (i - 1) - 1
        BY <1>3, <4>1
      <4>3. base + (i - 1) - 1 = base + i - 2
        BY <1>1, <1>2
      <4> QED BY <1>6, <3>2, <4>1, <4>2, <4>3 DEF Unit
    <3> QED BY <3>1, <3>2
  <2> QED BY <2>1, <2>2
<1>8. wire \o staged = <<Header>> \o due
  BY <1>5, <1>6, <1>7, SeqEqual
<1> QED BY <1>8 DEF due, n

-------------------------------------------------------------------------------
(* The theorems *)

\* The invariant of the egress side holds in every reachable state.
LEMMA EIInvHolds == ESpec => []EIInv
<1>1. EInit => EIInv
  <2>1. EInit => IInv
    BY TypeInit, RingInit, ViewInit DEF EInit, IInv
  <2>2. EInit => WireShape
    BY ViewerIsReader DEF EInit, Init, WireShape
  <2> QED BY <2>1, <2>2, OwnInit DEF EIInv
<1>2. EIInv /\ [ENext]_evars => EIInv'
  <2> SUFFICES ASSUME EIInv, [ENext]_evars
               PROVE  EIInv'
    OBVIOUS
  <2>1. IInv'
    BY EgressStepsRing, TypeStep, RingStep, ViewStep DEF EIInv, IInv, Views
  <2>2. Own'
    BY <2>1, OwnAccept, OwnFetch, OwnRest DEF EIInv, ENext, InPass, IInv
  <2>3. ASSUME SameWorker
        PROVE  WireShape'
    <3>1. TypeOK /\ Base /\ Own /\ WireShape
      BY <2>3 DEF EIInv, IInv, Base
    <3>2. CASE Accept
      BY <3>1, <3>2, WireAccept
    <3>3. CASE Fetch
      BY <2>3, <3>1, <3>3, WireFetch
    <3> QED BY <3>1, <3>2, <3>3, WireRest DEF ENext, InPass
  <2> QED BY <2>1, <2>2, <2>3 DEF EIInv
<1> QED BY <1>1, <1>2, PTL DEF ESpec

\* A pass writes at most MAX_EGRESS_BATCHES reads, the left-over of the pass
\* before included, and the variables keep their types.
THEOREM ETypeCorrect == ESpec => []ETypeOK
<1>1. EIInv => ETypeOK
  BY DEF EIInv, IInv, Own, ETypeOK
<1> QED BY <1>1, EIInvHolds, PTL

\* Only a viewer that took nothing for longer than the timeout is cut as stuck.
THEOREM StuckAreCut == ESpec => []OnlyStuckAreCut
<1>1. EIInv => OnlyStuckAreCut
  BY DEF EIInv, Own, StuckShape
<1> QED BY <1>1, EIInvHolds, PTL

\* On one worker thread, whatever the socket refuses and for however long: what
\* a viewer that keeps up was sent and has staged is the header and then every
\* unit since it joined, in order, none lost and none twice.
THEOREM WireInOrder == SameWorker => (ESpec => []WireIsStream)
<1> SUFFICES ASSUME SameWorker
             PROVE  ESpec => []WireIsStream
  OBVIOUS
<1>1. EIInv => WireIsStream
  BY WireShapeIsStream DEF EIInv, IInv
<1> QED BY <1>1, EIInvHolds, PTL

===============================================================================
