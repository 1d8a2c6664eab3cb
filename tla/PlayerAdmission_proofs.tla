-------------------------- MODULE PlayerAdmission_proofs --------------------------
(***************************************************************************)
(* Proofs about PlayerAdmission, for every number of viewers, keys and     *)
(* addresses, every lifetime and every cap: how long an answer and a limit *)
(* last, and how long a socket is held.                                    *)
(***************************************************************************)
EXTENDS PlayerAdmission, Tallies_proofs, SequenceTheorems

HeldSockets == [conn : Conns, key : Keys, left : 0 .. Hold, asked : BOOLEAN]
CacheEntries == [answer : Answers, ttl : 0 .. Duration]

-------------------------------------------------------------------------------
(* What the operators return.                                                *)

\* Taking a socket out of the queue closes the gap.
LEMMA WithoutShifts ==
    ASSUME NEW S, queue \in Seq(S), NEW i \in 1 .. Len(queue)
    PROVE  /\ Without(i) \in Seq(S)
           /\ Len(Without(i)) = Len(queue) - 1
           /\ \A j \in 1 .. Len(queue) - 1 :
                 Without(i)[j] = IF j < i THEN queue[j] ELSE queue[j + 1]
<1>1. Len(queue) \in Nat /\ queue \in [1 .. Len(queue) -> S]
  BY LenProperties
<1> DEFINE n == Len(queue) - 1
<1>2. n \in Nat
  BY <1>1
<1>3. Without(i) \in [1 .. n -> S]
  BY <1>1 DEF Without
<1>4. Without(i) \in Seq(S)
  BY <1>2, <1>3, SeqDef
<1>5. Len(Without(i)) = n
  <2>1. Without(i) \in [1 .. Len(Without(i)) -> S] /\ Len(Without(i)) \in Nat
    BY <1>4, LenProperties
  <2> QED BY <1>2, <1>3, <2>1
<1> QED
  BY <1>1, <1>4, <1>5 DEF Without

\* An answer that is inserted is cached as it is; every other entry stays or
\* is given up.
LEMMA InsertKeeps ==
    ASSUME cache \in [Keys -> CacheEntries], NEW k \in Keys, NEW e \in CacheEntries,
           Insert(k, e)
    PROVE  /\ cache' \in [Keys -> CacheEntries]
           /\ cache'[k] = e
           /\ \A j \in Keys : j # k => cache'[j] \in {cache[j], NoEntry}
<1>1. NoEntry \in CacheEntries
  BY TimesAssumption DEF NoEntry, CacheEntries, Answers
<1>2. CASE cache' = [cache EXCEPT ![k] = e]
  BY <1>2
<1>3. CASE \E v \in LiveOthers(k) : cache' = [cache EXCEPT ![v] = NoEntry, ![k] = e]
  <2>1. PICK v \in LiveOthers(k) : cache' = [cache EXCEPT ![v] = NoEntry, ![k] = e]
    BY <1>3
  <2>2. v \in Keys /\ v # k
    BY DEF LiveOthers, LiveKeys
  <2> QED BY <1>1, <2>1, <2>2
<1> QED
  BY <1>2, <1>3 DEF Insert

\* A full cache makes room, so the live answers stay within the cap.
LEMMA InsertCapped ==
    ASSUME cache \in [Keys -> CacheEntries], NEW k \in Keys, NEW e \in CacheEntries,
           Insert(k, e), IsFiniteSet(LiveKeys), Cardinality(LiveKeys) <= CacheCap
    PROVE  IsFiniteSet(LiveKeys') /\ Cardinality(LiveKeys') <= CacheCap
<1> DEFINE O == LiveOthers(k)
<1>1. IsFiniteSet(O) /\ O \subseteq LiveKeys
  BY FS_Subset DEF LiveOthers
<1>2. Cardinality(O) \in Nat /\ Cardinality(LiveKeys) \in Nat /\ CacheCap \in Nat
  BY <1>1, FS_CardinalityType, CapsAssumption
<1>3. Cardinality(O) <= Cardinality(LiveKeys)
  BY <1>1, FS_Subset
<1>4. CASE cache' = [cache EXCEPT ![k] = e] /\ Live(k)
  <2>1. LiveKeys' \subseteq LiveKeys
    BY <1>4 DEF LiveKeys, Live
  <2>2. IsFiniteSet(LiveKeys') /\ Cardinality(LiveKeys') <= Cardinality(LiveKeys)
    BY <2>1, FS_Subset
  <2>3. Cardinality(LiveKeys') \in Nat
    BY <2>2, FS_CardinalityType
  <2> QED BY <1>2, <2>2, <2>3
<1>5. CASE cache' = [cache EXCEPT ![k] = e] /\ Cardinality(O) < CacheCap
  <2>1. LiveKeys' \subseteq O \cup {k}
    BY <1>5 DEF LiveKeys, Live, LiveOthers
  <2>2. IsFiniteSet(O \cup {k}) /\ Cardinality(O \cup {k}) = Cardinality(O) + 1
    <3>1. k \notin O
      BY DEF LiveOthers
    <3> HIDE DEF O
    <3> QED BY <1>1, <3>1, FS_AddElement
  <2>3. IsFiniteSet(LiveKeys') /\ Cardinality(LiveKeys') <= Cardinality(O \cup {k})
    BY <2>1, <2>2, FS_Subset
  <2>4. Cardinality(LiveKeys') \in Nat /\ Cardinality(O \cup {k}) \in Nat
    BY <2>2, <2>3, FS_CardinalityType
  <2> QED BY <1>2, <1>5, <2>2, <2>3, <2>4
<1>6. CASE ~Live(k) /\ \E v \in O : cache' = [cache EXCEPT ![v] = NoEntry, ![k] = e]
  <2>1. PICK v \in O : cache' = [cache EXCEPT ![v] = NoEntry, ![k] = e]
    BY <1>6
  <2>2. v \in Keys /\ v # k
    BY DEF LiveOthers, LiveKeys
  <2>3. LiveKeys' \subseteq (O \ {v}) \cup {k}
    <3>1. cache'[v] = NoEntry
      BY <2>1, <2>2
    <3>2. ASSUME NEW j \in Keys, j # v, j # k PROVE cache'[j] = cache[j]
      BY <2>1, <3>2
    <3>3. ~(NoEntry.ttl > 0)
      BY DEF NoEntry
    <3> QED BY <3>1, <3>2, <3>3 DEF LiveKeys, Live, LiveOthers
  <2>4. IsFiniteSet(O \ {v}) /\ Cardinality(O \ {v}) = Cardinality(O) - 1
    BY <1>1, <2>1, FS_RemoveElement
  <2>5. /\ IsFiniteSet((O \ {v}) \cup {k})
        /\ Cardinality((O \ {v}) \cup {k}) <= Cardinality(O)
    BY <1>2, <2>4, FS_AddElement
  <2>6. IsFiniteSet(LiveKeys') /\ Cardinality(LiveKeys') <= Cardinality((O \ {v}) \cup {k})
    BY <2>3, <2>5, FS_Subset
  <2>7. Cardinality(LiveKeys') \in Nat /\ Cardinality((O \ {v}) \cup {k}) \in Nat
    BY <2>5, <2>6, FS_CardinalityType
  <2> QED BY <1>2, <1>3, <2>5, <2>6, <2>7
<1> QED
  BY <1>4, <1>5, <1>6 DEF Insert

\* Nothing that counts is left when no request time is.
LEMMA NoneCovers ==
    /\ Covers(<<>>, <<>>)
    /\ \A t : Covers(<<>>, t) => t = <<>>
<1>1. ASSUME NEW t, Covers(<<>>, t)
      PROVE  t = <<>>
  BY <1>1 DEF Covers, EndsWith
<1>2. Covers(<<>>, <<>>)
  BY DEF Covers, EndsWith, OldestFirst
<1> QED BY <1>1, <1>2

-------------------------------------------------------------------------------
(* The invariant holds initially.                                            *)

\* A listener that has just started satisfies the invariant.
LEMMA InitInv == Init => IInv
<1> SUFFICES ASSUME Init PROVE IInv
  OBVIOUS
<1> USE TimesAssumption, CapsAssumption
<1>1. queue = <<>> /\ queue \in Seq(HeldSockets) /\ Len(queue) = 0
  BY EmptySeq DEF Init
<1>2. LiveKeys = {} /\ InFlight = {} /\ DOMAIN rate = {}
  BY DEF Init, LiveKeys, Live, InFlight, NoEntry
<1>3. Finite /\ CapsHold
  <2>1. IsFiniteSet({}) /\ Cardinality({}) = 0
    BY FS_EmptySet
  <2> QED BY <1>1, <1>2, <2>1 DEF Finite, CapsHold
<1>4. StateOK
  <2>1. /\ handoff \subseteq Conns \X Keys /\ adopted \subseteq Conns
        /\ request \in [Keys -> {"none", "sent"} \cup Answers]
        /\ gcDue \in BOOLEAN /\ ticked \in BOOLEAN
    BY DEF Init
  <2>2. cache \in [Keys -> [answer : Answers, ttl : 0 .. Duration]]
    BY DEF Init, NoEntry, Answers
  <2>3. limit \in [cap : Nat, ttl : 0 .. Duration]
    BY DEF Init
  <2>4. step \in [at : {"idle", "tick"}, keys : SUBSET Keys, next : Nat \ {0}]
    BY DEF Init, Idle
  <2>5. /\ revoked \in [Keys -> 0 .. Duration + 2]
        /\ granted \in [Keys -> 0 .. Duration] /\ lost \subseteq Keys
    BY DEF Init
  <2> QED BY <1>1, <2>1, <2>2, <2>3, <2>4, <2>5 DEF StateOK, HeldSockets
<1>5. StepShape /\ PassedAreInTime /\ HeldBounded
  BY DEF Init, StepShape, PassedAreInTime, HeldBounded, Idle
<1>6. AnswersLapse
  BY DEF Init, AnswersLapse, Positive, Live, NoEntry
<1>7. LimitIsGranted /\ OverrideLapses
  BY DEF Init, LimitIsGranted, OverrideLapses, Live, NoEntry
<1>8. RateShape /\ RateBudget
  <2>1. rate = [i \in {} |-> <<>>] /\ sent = [i \in Ips |-> <<>>]
    BY DEF Init
  <2>2. \A i : RequestTimes(rate, i) = <<>>
    BY <2>1 DEF RequestTimes
  <2>3. \A i \in Ips : sent[i] = <<>>
    BY <2>1
  <2>4. \A i \in Ips : Covers(RequestTimes(rate, i), sent[i]) /\ Len(sent[i]) <= Requests
    BY <2>2, <2>3, NoneCovers
  <2> QED BY <2>1, <2>4 DEF RateShape, RateBudget
<1> QED
  BY <1>3, <1>4, <1>5, <1>6, <1>7, <1>8 DEF IInv

-------------------------------------------------------------------------------
(* Every step keeps the types and the shape of a pass.                       *)

\* A completed accept hands off one viewer and leaves a limit that is one.
LEMMA FinishType ==
    ASSUME StateOK, NEW c \in Conns, NEW k \in Keys, FinishPlayerAccept(c, k)
    PROVE  /\ handoff' \subseteq Conns \X Keys
           /\ limit' \in [cap : Nat, ttl : 0 .. Duration]
<1>1. limit' \in [cap : Nat, ttl : 0 .. Duration]
  <2>1. KeyLimit \in Nat /\ cache[k].ttl \in 0 .. Duration
    BY CapsAssumption DEF StateOK
  <2> QED BY <2>1 DEF FinishPlayerAccept, StreamLimit, StateOK
<1>2. handoff' \subseteq Conns \X Keys
  BY DEF FinishPlayerAccept, StateOK
<1> QED
  BY <1>1, <1>2

\* Every step keeps the types and the shape of a pass.
LEMMA TypeStep ==
    ASSUME StateOK, StepShape, [Next]_vars
    PROVE  StateOK' /\ StepShape'
<1> USE DEF StepShape, Idle, InFlight, ghosts
<1>1. ASSUME NEW c \in Conns, NEW k \in Keys, NEW ip \in Ips, AcceptRefused(c, k, ip)
      PROVE  StateOK' /\ StepShape'
  BY <1>1 DEF AcceptRefused, StateOK, outside
<1>2. ASSUME NEW c \in Conns, NEW k \in Keys, NEW ip \in Ips, AcceptCached(c, k, ip)
      PROVE  StateOK' /\ StepShape'
  <2>1. FinishPlayerAccept(c, k)
    BY <1>2 DEF AcceptCached, ghosts
  <2>2. /\ handoff' \subseteq Conns \X Keys
        /\ limit' \in [cap : Nat, ttl : 0 .. Duration]
    BY <2>1, FinishType
  <2> QED BY <1>2, <2>2 DEF AcceptCached, StateOK, outside
<1>3. ASSUME NEW c \in Conns, NEW k \in Keys, NEW ip \in Ips, AcceptUnknown(c, k, ip)
      PROVE  StateOK' /\ StepShape'
  <2>1. request' \in [Keys -> {"none", "sent"} \cup Answers]
    BY <1>3 DEF AcceptUnknown, StateOK
  <2>2. queue' \in Seq(HeldSockets)
    <3> DEFINE h == [conn |-> c, key |-> k, left |-> Hold, asked |-> request'[k] # "none"]
    <3>1. h \in HeldSockets
      BY TimesAssumption DEF HeldSockets
    <3>2. queue \in Seq(HeldSockets)
      BY DEF StateOK, HeldSockets
    <3>3. queue' = queue \/ queue' = Append(queue, h)
      BY <1>3 DEF AcceptUnknown
    <3> HIDE DEF h
    <3> QED BY <3>1, <3>2, <3>3, AppendProperties
  <2>3. cache' \in [Keys -> [answer : Answers, ttl : 0 .. Duration]]
    BY <1>3, TimesAssumption DEF AcceptUnknown, StateOK, NoEntry, Answers
  <2>4. gcDue' = FALSE /\ UNCHANGED <<limit, handoff, step, ticked, outside, granted, lost>>
    BY <1>3 DEF AcceptUnknown
  <2>5. StateOK'
    BY <2>1, <2>2, <2>3, <2>4 DEF StateOK, HeldSockets, outside
  <2>6. StepShape'
    <3>1. step' = Idle
      BY <1>3 DEF AcceptUnknown
    <3> QED BY <3>1
  <2> QED BY <2>5, <2>6
<1>4. CASE TickStart
  BY <1>4 DEF TickStart, StateOK, InFlight, listener, outside
<1>5. ASSUME NEW k \in Keys, Drain(k) PROVE StateOK' /\ StepShape'
  <2>1. /\ step' \in [at : {"idle", "tick"}, keys : SUBSET Keys, next : Nat \ {0}]
        /\ step'.at = step.at /\ step'.keys = step.keys \ {k} /\ k \in step.keys
    BY <1>5 DEF Drain, StateOK
  <2>2. step.at = "tick"
    BY <2>1 DEF StateOK
  <2>3. UNCHANGED <<queue, gcDue, limit, handoff, ticked, adopted, revoked>>
    BY <1>5 DEF Drain, outside
  <2>4. CASE request[k] = "sent"
    <3>1. UNCHANGED <<cache, request, granted, lost>>
      BY <1>5, <2>4 DEF Drain
    <3> QED BY <2>1, <2>2, <2>3, <3>1 DEF StateOK, InFlight
  <2>5. CASE request[k] # "sent"
    <3>1. /\ Process(k, request[k])
          /\ request' = [request EXCEPT ![k] = "none"]
          /\ granted' = IF request[k] = "capped" THEN [granted EXCEPT ![k] = Duration]
                                                 ELSE granted
      BY <1>5, <2>5 DEF Drain
    <3>2. request[k] \in Answers
      BY <2>1, <2>5 DEF InFlight, StateOK
    <3>3. [answer |-> request[k], ttl |-> IF request[k] = "no" THEN NegDuration ELSE Duration]
             \in CacheEntries
      BY <3>2, TimesAssumption DEF CacheEntries
    <3>4. cache' \in [Keys -> [answer : Answers, ttl : 0 .. Duration]]
      <4>1. cache \in [Keys -> CacheEntries]
        BY DEF StateOK, CacheEntries
      <4> QED BY <3>1, <3>3, <4>1, InsertKeeps DEF Process, CacheEntries
    <3>5. /\ request' \in [Keys -> {"none", "sent"} \cup Answers]
          /\ granted' \in [Keys -> 0 .. Duration]
      BY <3>1, TimesAssumption DEF StateOK
    <3>6. step'.keys \subseteq InFlight'
      BY <2>1, <3>1 DEF InFlight, StateOK
    <3>7. lost' \subseteq Keys
      BY <1>5, <2>5 DEF Drain, StateOK, LiveOthers, LiveKeys
    <3> QED BY <2>1, <2>2, <2>3, <3>4, <3>5, <3>6, <3>7 DEF StateOK
  <2> QED BY <2>4, <2>5
<1>6. CASE Drive
  <2> DEFINE h == queue[step.next]
  <2>1. queue \in Seq(HeldSockets) /\ step.next \in Nat \ {0} /\ step.at = "tick"
    BY <1>6 DEF Drive, StateOK, HeldSockets
  <2>2. Len(queue) \in Nat /\ step.next \in 1 .. Len(queue)
    BY <1>6, <2>1, LenProperties DEF Drive
  <2>3. h \in HeldSockets
    BY <2>1, <2>2, ElementOfSeq
  <2>4. h.conn \in Conns /\ h.key \in Keys
    BY <2>3 DEF HeldSockets
  <2>5. queue' \in Seq(HeldSockets)
    <3>1. Without(step.next) \in Seq(HeldSockets)
      BY <2>1, <2>2, WithoutShifts
    <3> QED BY <1>6, <2>1, <3>1 DEF Drive
  <2>6. /\ handoff' \subseteq Conns \X Keys
        /\ limit' \in [cap : Nat, ttl : 0 .. Duration]
    <3>1. FinishPlayerAccept(h.conn, h.key) \/ UNCHANGED <<limit, handoff>>
      BY <1>6 DEF Drive
    <3> HIDE DEF h
    <3> QED BY <2>4, <3>1, FinishType DEF StateOK
  <2>7. /\ step' \in [at : {"idle", "tick"}, keys : SUBSET Keys, next : Nat \ {0}]
        /\ step'.at = step.at /\ step'.keys = step.keys
    <3>1. step' = step \/ step' = [step EXCEPT !.next = @ + 1]
      BY <1>6 DEF Drive
    <3>2. CASE step' = [step EXCEPT !.next = @ + 1]
      <4>1. step \in [at : {"idle", "tick"}, keys : SUBSET Keys, next : Nat \ {0}]
        BY DEF StateOK
      <4>2. step.next + 1 \in Nat \ {0}
        BY <2>1
      <4> QED BY <3>2, <4>1, <4>2
    <3> QED BY <3>1, <3>2 DEF StateOK
  <2>8. UNCHANGED <<cache, request, gcDue, ticked, adopted, revoked, granted, lost>>
    BY <1>6 DEF Drive, outside
  <2> QED BY <2>1, <2>5, <2>6, <2>7, <2>8 DEF StateOK, HeldSockets, InFlight
<1>7. CASE DriveDone
  BY <1>7 DEF DriveDone, StateOK, listener, outside
<1>8. ASSUME NEW k \in Keys, Answer(k) PROVE StateOK' /\ StepShape'
  BY <1>8 DEF Answer, StateOK, outside, InFlight, Answers
<1>9. ASSUME NEW k \in Keys, Reconsider(k) PROVE StateOK' /\ StepShape'
  BY <1>9, TimesAssumption DEF Reconsider, StateOK, listener, InFlight
<1>10. ASSUME NEW c \in Conns, Adopt(c) PROVE StateOK' /\ StepShape'
  BY <1>10 DEF Adopt, StateOK, listener, InFlight
<1>11. ASSUME NEW c \in Conns, Leave(c) PROVE StateOK' /\ StepShape'
  BY <1>11 DEF Leave, StateOK, listener, InFlight
<1>12. CASE Clock
  <2>1. queue' \in Seq(HeldSockets)
    <3>1. queue \in Seq(HeldSockets)
      BY DEF StateOK, HeldSockets
    <3>2. /\ Len(queue) \in Nat /\ DOMAIN queue = 1 .. Len(queue)
          /\ \A i \in 1 .. Len(queue) : queue[i] \in HeldSockets
      BY <3>1, LenProperties, ElementOfSeq
    <3>3. \A n \in 0 .. Hold : Less(n) \in 0 .. Hold
      BY TimesAssumption DEF Less
    <3>4. \A i \in 1 .. Len(queue) :
             [queue[i] EXCEPT !.left = Less(@)] \in HeldSockets
      BY <3>2, <3>3 DEF HeldSockets
    <3>5. queue' = [i \in 1 .. Len(queue) |-> [queue[i] EXCEPT !.left = Less(@)]]
      BY <1>12, <3>2 DEF Clock
    <3>6. queue' \in [1 .. Len(queue) -> HeldSockets]
      BY <3>4, <3>5
    <3> QED BY <3>2, <3>6, SeqDef
  <2>2. cache' \in [Keys -> [answer : Answers, ttl : 0 .. Duration]]
    <3>1. NoEntry \in CacheEntries
      BY TimesAssumption DEF NoEntry, CacheEntries, Answers
    <3>2. ASSUME NEW k \in Keys, ~(cache[k].ttl <= 1)
          PROVE  [cache[k] EXCEPT !.ttl = @ - 1] \in CacheEntries
      <4>1. cache[k] \in CacheEntries
        BY DEF StateOK, CacheEntries
      <4>2. cache[k].ttl - 1 \in 0 .. Duration
        BY <3>2, <4>1, TimesAssumption DEF CacheEntries
      <4> QED BY <4>1, <4>2 DEF CacheEntries
    <3>3. cache' = [k \in Keys |-> IF cache[k].ttl <= 1 THEN NoEntry
                                   ELSE [cache[k] EXCEPT !.ttl = @ - 1]]
      BY <1>12 DEF Clock
    <3> QED BY <3>1, <3>2, <3>3 DEF CacheEntries
  <2>3. limit' \in [cap : Nat, ttl : 0 .. Duration]
    <3>1. CASE limit.ttl <= 1
      BY <1>12, <3>1, TimesAssumption DEF Clock
    <3>2. CASE ~(limit.ttl <= 1)
      <4>1. limit \in [cap : Nat, ttl : 0 .. Duration]
        BY DEF StateOK
      <4>2. limit.ttl - 1 \in 0 .. Duration
        BY <3>2, <4>1, TimesAssumption
      <4>3. limit' = [limit EXCEPT !.ttl = @ - 1]
        BY <1>12, <3>2 DEF Clock
      <4> QED BY <4>1, <4>2, <4>3
    <3> QED BY <3>1, <3>2
  <2>4. revoked' \in [Keys -> 0 .. Duration + 2]
    BY <1>12, TimesAssumption DEF Clock, StateOK, MoreTo
  <2>5. granted' \in [Keys -> 0 .. Duration]
    BY <1>12, TimesAssumption DEF Clock, StateOK, Less
  <2>6. gcDue' = TRUE /\ ticked' = FALSE /\ UNCHANGED <<request, handoff, step, adopted, lost>>
    BY <1>12 DEF Clock
  <2> QED
    BY <2>1, <2>2, <2>3, <2>4, <2>5, <2>6 DEF StateOK, HeldSockets, InFlight
<1>13. CASE UNCHANGED vars
  BY <1>13 DEF vars, listener, outside, StateOK, InFlight
<1> QED
  BY <1>1, <1>2, <1>3, <1>4, <1>5, <1>6, <1>7, <1>8, <1>9, <1>10, <1>11, <1>12, <1>13
     DEF Next, Pass, Accept

-------------------------------------------------------------------------------
(* Every step keeps the rest of the invariant.                               *)

\* The deadlines: the only step that advances along the queue is one that
\* found its socket in time, and no time passes within a pass.
LEMMA DeadlineStep ==
    ASSUME StateOK, StepShape, PassedAreInTime, HeldBounded, [Next]_vars
    PROVE  PassedAreInTime' /\ HeldBounded'
<1> USE DEF PassedAreInTime, HeldBounded, Idle
<1>0. queue \in Seq(HeldSockets) /\ step.next \in Nat \ {0}
  BY DEF StateOK, HeldSockets
<1>1. /\ Len(queue) \in Nat /\ DOMAIN queue = 1 .. Len(queue)
      /\ \A i \in 1 .. Len(queue) : queue[i].left \in Nat
  <2>1. ASSUME NEW i \in 1 .. Len(queue) PROVE queue[i].left \in Nat
    <3>1. queue[i] \in HeldSockets
      BY <1>0, ElementOfSeq
    <3> QED BY <3>1, TimesAssumption DEF HeldSockets
  <2> QED BY <1>0, <2>1, LenProperties
<1>2. ASSUME NEW c \in Conns, NEW k \in Keys, NEW ip \in Ips, Accept(c, k, ip)
      PROVE  PassedAreInTime' /\ HeldBounded'
  <2>1. step = Idle /\ step' = step /\ ticked' = ticked
    BY <1>2 DEF Accept, AcceptRefused, AcceptCached, AcceptUnknown
  <2>2. CASE queue' = queue
    BY <2>1, <2>2
  <2>3. CASE queue' # queue
    <3> DEFINE h == [conn |-> c, key |-> k, left |-> Hold, asked |-> request'[k] # "none"]
    <3>1. queue' = Append(queue, h)
      BY <1>2, <2>3 DEF Accept, AcceptRefused, AcceptCached, AcceptUnknown
    <3>2. h \in HeldSockets
      BY TimesAssumption DEF HeldSockets
    <3>3. h.left > 0
      BY TimesAssumption
    <3> HIDE DEF h
    <3>4. /\ queue' \in Seq(HeldSockets) /\ Len(queue') = Len(queue) + 1
          /\ \A i \in 1 .. Len(queue) : queue'[i] = queue[i]
          /\ queue'[Len(queue) + 1] = h
      BY <1>0, <3>1, <3>2, AppendProperties
    <3>5. DOMAIN queue' = 1 .. Len(queue) + 1
      BY <3>4, LenProperties
    <3>6. ASSUME ticked, NEW i \in DOMAIN queue' PROVE queue'[i].left > 0
      <4>1. CASE i = Len(queue) + 1
        BY <3>3, <3>4, <4>1
      <4>2. CASE i \in 1 .. Len(queue)
        BY <1>1, <2>1, <3>4, <3>6, <4>2
      <4> QED BY <1>1, <3>5, <4>1, <4>2
    <3> QED BY <2>1, <3>6
  <2> QED BY <2>2, <2>3
<1>3. CASE TickStart
  BY <1>1, <1>3 DEF TickStart, listener
<1>4. ASSUME NEW k \in Keys, Drain(k) PROVE PassedAreInTime' /\ HeldBounded'
  <2>1. step'.at = "tick" /\ step.at = "tick" /\ step'.next = step.next
    <3>1. k \in step.keys /\ step'.at = step.at /\ step'.next = step.next
      BY <1>4 DEF Drain, StateOK
    <3> QED BY <3>1 DEF StepShape, StateOK
  <2>2. queue' = queue
    BY <1>4 DEF Drain
  <2> QED BY <2>1, <2>2, <1>1
<1>5. CASE Drive
  <2> DEFINE h == queue[step.next]
  <2>1. /\ step.at = "tick" /\ step.next \in 1 .. Len(queue)
        /\ step'.at = "tick"
    <3>1. step.at = "tick" /\ step.next \in 1 .. Len(queue)
      BY <1>0, <1>1, <1>5 DEF Drive
    <3>2. step' = step \/ step' = [step EXCEPT !.next = @ + 1]
      BY <1>5 DEF Drive
    <3> QED BY <3>1, <3>2 DEF StateOK
  <2>2. HeldBounded'
    BY <2>1
  <2>3. CASE Live(h.key) \/ h.left = 0
    <3>1. queue' = Without(step.next) /\ step' = step
      BY <1>5, <2>3 DEF Drive
    <3>2. /\ queue' \in Seq(HeldSockets) /\ Len(queue') = Len(queue) - 1
          /\ \A j \in 1 .. Len(queue) - 1 :
                queue'[j] = IF j < step.next THEN queue[j] ELSE queue[j + 1]
      BY <1>0, <2>1, <3>1, WithoutShifts
    <3>3. DOMAIN queue' = 1 .. Len(queue) - 1
      BY <3>2, LenProperties
    <3>4. ASSUME NEW i \in DOMAIN queue', i < step'.next PROVE queue'[i].left > 0
      <4>1. queue'[i] = queue[i] /\ i \in DOMAIN queue
        BY <1>1, <3>1, <3>2, <3>3, <3>4
      <4> QED BY <2>1, <3>1, <3>4, <4>1
    <3> QED BY <2>2, <3>4
  <2>4. CASE ~(Live(h.key) \/ h.left = 0)
    <3>1. queue' = queue /\ step'.next = step.next + 1
      BY <1>5, <2>4 DEF Drive, StateOK
    <3>2. h.left > 0
      BY <1>1, <2>1, <2>4
    <3> QED BY <1>0, <1>1, <2>1, <2>2, <3>1, <3>2
  <2> QED BY <2>3, <2>4
<1>6. CASE DriveDone
  <2>1. queue' = queue /\ step' = Idle /\ step.at = "tick" /\ step.next > Len(queue)
    BY <1>6 DEF DriveDone, listener
  <2>2. \A i \in DOMAIN queue : queue[i].left > 0
    BY <1>0, <1>1, <2>1
  <2> QED BY <2>1, <2>2
<1>7. CASE Clock
  <2>1. step' = Idle /\ ticked' = FALSE
    BY <1>7 DEF Clock
  <2> QED BY <2>1
<1>8. CASE UNCHANGED <<queue, step, ticked>>
  BY <1>8
<1> QED
  BY <1>2, <1>3, <1>4, <1>5, <1>6, <1>7, <1>8
     DEF Next, Pass, Answer, Reconsider, Adopt, Leave, vars, listener, outside

\* Nobody is admitted without a live positive answer.
LEMMA AdmittedOnAnswer ==
    ASSUME StateOK, [Next]_vars, NEW p \in handoff', p \notin handoff
    PROVE  p[2] \in Keys /\ Positive(p[2])
<1>1. ASSUME NEW c \in Conns, NEW k \in Keys, NEW ip \in Ips, AcceptCached(c, k, ip)
      PROVE  p[2] \in Keys /\ Positive(p[2])
  BY <1>1 DEF AcceptCached, FinishPlayerAccept
<1>2. CASE Drive
  <2> DEFINE h == queue[step.next]
  <2>1. queue \in Seq(HeldSockets) /\ step.next \in Nat \ {0}
    BY DEF StateOK, HeldSockets
  <2>2. step.next \in 1 .. Len(queue)
    BY <1>2, <2>1, LenProperties DEF Drive
  <2>3. h \in HeldSockets
    BY <2>1, <2>2, ElementOfSeq
  <2>4. h.key \in Keys
    BY <2>3 DEF HeldSockets
  <2>5. Positive(h.key) /\ FinishPlayerAccept(h.conn, h.key)
    BY <1>2 DEF Drive
  <2> HIDE DEF h
  <2>6. p = <<h.conn, h.key>>
    BY <2>5 DEF FinishPlayerAccept
  <2> QED BY <2>4, <2>5, <2>6
<1>3. ASSUME NEW k \in Keys, Drain(k) PROVE FALSE
  BY <1>3 DEF Drain
<1>4. ASSUME NEW c \in Conns, Adopt(c) PROVE FALSE
  BY <1>4 DEF Adopt
<1>5. handoff' # handoff
  OBVIOUS
<1> QED
  BY <1>1, <1>2, <1>3, <1>4, <1>5
     DEF Next, Pass, Accept, AcceptRefused, AcceptUnknown, TickStart, DriveDone,
         Answer, Reconsider, Leave, Clock, vars, listener

\* The answers: what is left of one and what has passed since its key was
\* withdrawn change against one another.
LEMMA AnswerStep ==
    ASSUME StateOK, StepShape, AnswersLapse, [Next]_vars
    PROVE  AnswersLapse'
<1> DEFINE Given(k) == request[k] \in {"yes", "capped"}
<1> USE TimesAssumption
<1>0. /\ cache \in [Keys -> CacheEntries]
      /\ revoked \in [Keys -> 0 .. Duration + 2]
      /\ request \in [Keys -> {"none", "sent"} \cup Answers]
  BY DEF StateOK, CacheEntries
<1>1. ASSUME NEW c \in Conns, NEW k \in Keys, NEW ip \in Ips, Accept(c, k, ip)
      PROVE  AnswersLapse'
  <2>1. UNCHANGED <<step, ticked, revoked>> /\ step.at = "idle"
    BY <1>1 DEF Accept, AcceptRefused, AcceptCached, AcceptUnknown, outside, Idle
  <2>2. \A j \in Keys : cache'[j] \in {cache[j], NoEntry}
    BY <1>0, <1>1 DEF Accept, AcceptRefused, AcceptCached, AcceptUnknown
  <2>3. \A j \in Keys : request'[j] \in {request[j], "sent"}
    BY <1>0, <1>1 DEF Accept, AcceptRefused, AcceptCached, AcceptUnknown
  <2> QED BY <2>1, <2>2, <2>3 DEF AnswersLapse, Positive, Live, NoEntry
<1>2. CASE TickStart
  <2>1. UNCHANGED <<cache, request, ticked, revoked>> /\ step'.keys = InFlight
    BY <1>2 DEF TickStart, listener, outside
  <2>2. \A j \in Keys : Given(j) => j \in InFlight
    BY DEF InFlight
  <2> QED BY <1>2, <2>1, <2>2 DEF AnswersLapse, Positive, Live, TickStart, Idle
<1>3. ASSUME NEW k \in Keys, Drain(k) PROVE AnswersLapse'
  <2>1. /\ step'.at = step.at /\ step'.keys = step.keys \ {k} /\ k \in step.keys
        /\ UNCHANGED <<ticked, revoked>>
    BY <1>3 DEF Drain, StateOK, outside
  <2>2. CASE request[k] = "sent"
    <3>1. UNCHANGED <<cache, request>>
      BY <1>3, <2>2 DEF Drain
    <3> QED BY <2>1, <2>2, <3>1 DEF AnswersLapse, Positive, Live
  <2>3. CASE request[k] # "sent"
    <3> DEFINE e == [answer |-> request[k],
                     ttl |-> IF request[k] = "no" THEN NegDuration ELSE Duration]
    <3>1. Insert(k, e) /\ request' = [request EXCEPT ![k] = "none"]
      BY <1>3, <2>3 DEF Drain, Process
    <3>2. request[k] \in Answers
      BY <1>0, <2>1, <2>3 DEF StepShape, InFlight
    <3>3. e \in CacheEntries
      BY <3>2 DEF CacheEntries
    <3>4. cache'[k] = e /\ \A j \in Keys : j # k => cache'[j] \in {cache[j], NoEntry}
      <4> HIDE DEF e
      <4> QED BY <1>0, <3>1, <3>3, InsertKeeps
    <3>5. ASSUME Positive(k)' PROVE revoked'[k] + cache'[k].ttl <= Duration + 2
      <4>1. Given(k)
        BY <3>2, <3>4, <3>5 DEF Positive, Live, Answers
      <4>2. revoked[k] <= 2 /\ cache'[k].ttl = Duration
        BY <3>4, <4>1 DEF AnswersLapse
      <4> QED BY <1>0, <2>1, <4>2
    <3>6. ASSUME NEW j \in Keys, j # k, Positive(j)'
          PROVE  revoked'[j] + cache'[j].ttl <= Duration + 2
      BY <2>1, <3>4, <3>6 DEF AnswersLapse, Positive, Live, NoEntry
    <3>7. \A j \in Keys : j # k => request'[j] = request[j]
      BY <1>0, <3>1
    <3>8. request'[k] = "none"
      BY <1>0, <3>1
    <3> QED BY <2>1, <3>5, <3>6, <3>7, <3>8 DEF AnswersLapse
  <2> QED BY <2>2, <2>3
<1>4. CASE Drive
  <2>1. /\ step' = step \/ step' = [step EXCEPT !.next = @ + 1]
        /\ UNCHANGED <<cache, request, ticked, revoked>>
    BY <1>4 DEF Drive, outside
  <2>2. step'.at = step.at /\ step'.keys = step.keys
    BY <2>1 DEF StateOK
  <2> QED BY <2>1, <2>2 DEF AnswersLapse, Positive, Live
<1>5. CASE DriveDone
  <2>1. /\ step.at = "tick" /\ step.keys = {} /\ step'.at = "idle"
        /\ UNCHANGED <<cache, request, revoked>>
    BY <1>5 DEF DriveDone, Idle, listener, outside
  <2> QED BY <2>1 DEF AnswersLapse, Positive, Live
<1>6. ASSUME NEW k \in Keys, Answer(k) PROVE AnswersLapse'
  <2>1. UNCHANGED <<cache, step, ticked, revoked>>
    BY <1>6 DEF Answer, outside
  <2>2. PICK a \in {"yes", "capped", "no"} :
           (a # "no" => revoked[k] = 0) /\ request' = [request EXCEPT ![k] = a]
    BY <1>6 DEF Answer
  <2>3. ASSUME NEW j \in Keys
        PROVE  request'[j] = request[j] \/ request'[j] = "no" \/ revoked[j] = 0
    BY <1>0, <2>2
  <2> QED BY <2>1, <2>3 DEF AnswersLapse, Positive, Live
<1>7. ASSUME NEW k \in Keys, Reconsider(k) PROVE AnswersLapse'
  <2>1. UNCHANGED <<cache, request, step, ticked>>
    BY <1>7 DEF Reconsider, listener
  <2>2. \A j \in Keys : revoked'[j] \in {revoked[j], 0, 1}
    BY <1>0, <1>7 DEF Reconsider
  <2>3. \A j \in Keys : Live(j) => cache[j].ttl <= Duration
    BY <1>0 DEF CacheEntries
  <2>4. ASSUME NEW j \in Keys, Positive(j) PROVE revoked'[j] + cache[j].ttl <= Duration + 2
    BY <1>0, <2>2, <2>3, <2>4 DEF AnswersLapse, Positive, Live, CacheEntries
  <2> QED BY <2>1, <2>2, <2>4 DEF AnswersLapse, Positive, Live
<1>8. CASE Clock
  <2>1. /\ step = Idle /\ step' = step /\ ticked /\ ~ticked' /\ request' = request
        /\ cache' = [k \in Keys |-> IF cache[k].ttl <= 1 THEN NoEntry
                                    ELSE [cache[k] EXCEPT !.ttl = @ - 1]]
        /\ revoked' = [k \in Keys |-> IF revoked[k] = 0 THEN 0
                                      ELSE MoreTo(revoked[k], Duration + 2)]
    BY <1>8 DEF Clock
  <2>2. ASSUME NEW j \in Keys, Positive(j)'
        PROVE  revoked'[j] + cache'[j].ttl <= Duration + 2
    <3>1. cache[j] \in CacheEntries /\ revoked[j] \in 0 .. Duration + 2
      BY <1>0
    <3>2. cache[j].ttl > 1
      <4>1. NoEntry.ttl = 0
        BY DEF NoEntry
      <4> QED BY <2>1, <2>2, <3>1, <4>1 DEF Positive, Live, CacheEntries
    <3>3. cache'[j] = [cache[j] EXCEPT !.ttl = @ - 1]
      BY <2>1, <3>1, <3>2 DEF CacheEntries
    <3>4. cache'[j].ttl = cache[j].ttl - 1 /\ cache'[j].answer = cache[j].answer
      BY <3>1, <3>3 DEF CacheEntries
    <3>5. revoked[j] + cache[j].ttl <= Duration + 2
      BY <2>2, <3>1, <3>2, <3>4 DEF AnswersLapse, Positive, Live, CacheEntries
    <3>6. revoked'[j] \in Nat /\ revoked'[j] <= revoked[j] + 1
      BY <2>1, <3>1 DEF MoreTo
    <3> QED BY <3>1, <3>4, <3>5, <3>6 DEF CacheEntries
  <2>3. ASSUME NEW j \in Keys, Given(j) PROVE revoked'[j] <= 2
    <3>1. revoked[j] <= 1
      BY <1>0, <2>1, <2>3 DEF AnswersLapse
    <3> QED BY <1>0, <2>1, <3>1 DEF MoreTo
  <2>4. step'.at = "idle"
    BY <2>1 DEF Idle
  <2> QED BY <2>1, <2>2, <2>3, <2>4 DEF AnswersLapse
<1>9. CASE UNCHANGED <<cache, request, step, ticked, revoked>>
  BY <1>9 DEF AnswersLapse, Positive, Live
<1> QED
  BY <1>1, <1>2, <1>3, <1>4, <1>5, <1>6, <1>7, <1>8, <1>9
     DEF Next, Pass, Adopt, Leave, vars, listener, outside

\* The stream's limit: it is taken from a cached answer, and both age with it.
LEMMA LimitStep ==
    ASSUME StateOK, StepShape, LimitIsGranted, OverrideLapses, [Next]_vars
    PROVE  LimitIsGranted' /\ OverrideLapses'
<1> USE TimesAssumption DEF ghosts
<1>0. /\ cache \in [Keys -> CacheEntries] /\ granted \in [Keys -> 0 .. Duration]
      /\ request \in [Keys -> {"none", "sent"} \cup Answers]
      /\ limit \in [cap : Nat, ttl : 0 .. Duration]
  BY DEF StateOK, CacheEntries
<1>1. ASSUME NEW c, NEW k \in Keys, Positive(k), FinishPlayerAccept(c, k), granted' = granted
      PROVE  OverrideLapses'
  <2>1. CASE cache[k].answer = "capped"
    <3>1. limit'.ttl = cache[k].ttl
      BY <1>1, <2>1 DEF FinishPlayerAccept, StreamLimit
    <3>2. cache[k].ttl <= granted[k]
      BY <1>1, <2>1 DEF LimitIsGranted, Positive
    <3> QED BY <1>1, <3>1, <3>2 DEF OverrideLapses
  <2>2. CASE cache[k].answer # "capped"
    <3>1. limit' = limit
      BY <1>1, <2>2 DEF FinishPlayerAccept, StreamLimit
    <3> QED BY <1>1, <3>1 DEF OverrideLapses
  <2> QED BY <2>1, <2>2
<1>2. ASSUME NEW c \in Conns, NEW k \in Keys, NEW ip \in Ips, AcceptCached(c, k, ip)
      PROVE  LimitIsGranted' /\ OverrideLapses'
  <2>1. Positive(k) /\ FinishPlayerAccept(c, k) /\ UNCHANGED <<cache, granted>>
    BY <1>2 DEF AcceptCached, ghosts
  <2> QED BY <1>1, <2>1 DEF LimitIsGranted, Live
<1>3. ASSUME NEW c \in Conns, NEW k \in Keys, NEW ip \in Ips, AcceptUnknown(c, k, ip)
      PROVE  LimitIsGranted' /\ OverrideLapses'
  <2>1. cache' = [cache EXCEPT ![k] = NoEntry] /\ UNCHANGED <<limit, granted>>
    BY <1>3 DEF AcceptUnknown
  <2> QED BY <1>0, <2>1 DEF LimitIsGranted, OverrideLapses, Live, NoEntry
<1>4. ASSUME NEW k \in Keys, Drain(k) PROVE LimitIsGranted' /\ OverrideLapses'
  <2>1. limit' = limit /\ k \in step.keys
    BY <1>4 DEF Drain
  <2>2. CASE request[k] = "sent"
    BY <1>4, <2>1, <2>2 DEF Drain, LimitIsGranted, OverrideLapses, Live
  <2>3. CASE request[k] # "sent"
    <3> DEFINE e == [answer |-> request[k],
                     ttl |-> IF request[k] = "no" THEN NegDuration ELSE Duration]
    <3>1. /\ Insert(k, e)
          /\ granted' = IF request[k] = "capped" THEN [granted EXCEPT ![k] = Duration]
                                                 ELSE granted
      BY <1>4, <2>3 DEF Drain, Process
    <3>2. request[k] \in Answers
      BY <1>0, <2>1, <2>3 DEF StepShape, InFlight
    <3>3. e \in CacheEntries
      BY <3>2 DEF CacheEntries
    <3>4. cache'[k] = e /\ \A j \in Keys : j # k => cache'[j] \in {cache[j], NoEntry}
      <4> HIDE DEF e
      <4> QED BY <1>0, <3>1, <3>3, InsertKeeps
    <3>5. \A j \in Keys : granted[j] <= granted'[j]
      BY <1>0, <3>1
    <3>6. OverrideLapses'
      <4>1. ASSUME NEW j \in Keys, limit.ttl <= granted[j] PROVE limit.ttl <= granted'[j]
        <5>1. granted'[j] \in 0 .. Duration
          BY <1>0, <3>1
        <5> QED BY <1>0, <3>5, <4>1, <5>1
      <4> QED BY <2>1, <4>1 DEF OverrideLapses
    <3>7. cache'[k].answer = "capped" => cache'[k].ttl <= granted'[k]
      BY <1>0, <3>1, <3>4
    <3>8. ASSUME NEW j \in Keys, j # k, Live(j)', cache'[j].answer = "capped"
          PROVE  cache'[j].ttl <= granted'[j]
      <4>1. cache'[j] = cache[j] /\ granted'[j] = granted[j]
        BY <1>0, <3>1, <3>4, <3>8 DEF Live, NoEntry
      <4> QED BY <3>8, <4>1 DEF LimitIsGranted, Live
    <3> QED BY <3>6, <3>7, <3>8 DEF LimitIsGranted
  <2> QED BY <2>2, <2>3
<1>5. CASE Drive
  <2>1. UNCHANGED <<cache, granted>>
    BY <1>5 DEF Drive
  <2> DEFINE h == queue[step.next]
  <2>2. h.key \in Keys
    <3>1. queue \in Seq(HeldSockets) /\ step.next \in Nat \ {0}
      BY DEF StateOK, HeldSockets
    <3>2. step.next \in 1 .. Len(queue)
      BY <1>5, <3>1, LenProperties DEF Drive
    <3>3. h \in HeldSockets
      BY <3>1, <3>2, ElementOfSeq
    <3> QED BY <3>3 DEF HeldSockets
  <2>3. (Positive(h.key) /\ FinishPlayerAccept(h.conn, h.key)) \/ limit' = limit
    BY <1>5 DEF Drive
  <2> HIDE DEF h
  <2>4. OverrideLapses'
    BY <1>1, <2>1, <2>2, <2>3 DEF OverrideLapses
  <2> QED BY <2>1, <2>4 DEF LimitIsGranted, Live
<1>6. CASE Clock
  <2>1. /\ granted' = [k \in Keys |-> Less(granted[k])]
        /\ cache' = [k \in Keys |-> IF cache[k].ttl <= 1 THEN NoEntry
                                    ELSE [cache[k] EXCEPT !.ttl = @ - 1]]
        /\ limit' = IF limit.ttl <= 1 THEN [cap |-> 0, ttl |-> 0]
                                      ELSE [limit EXCEPT !.ttl = @ - 1]
    BY <1>6 DEF Clock
  <2>2. ASSUME NEW j \in Keys, Live(j)', cache'[j].answer = "capped"
        PROVE  cache'[j].ttl <= granted'[j]
    <3>1. cache[j] \in CacheEntries /\ granted[j] \in 0 .. Duration
      BY <1>0
    <3>2. cache[j].ttl > 1
      <4>1. NoEntry.ttl = 0
        BY DEF NoEntry
      <4> QED BY <2>1, <2>2, <3>1, <4>1 DEF Live, CacheEntries
    <3>3. cache'[j] = [cache[j] EXCEPT !.ttl = @ - 1]
      BY <2>1, <3>1, <3>2 DEF CacheEntries
    <3>4. cache'[j].ttl = cache[j].ttl - 1 /\ cache'[j].answer = cache[j].answer
      BY <3>1, <3>3 DEF CacheEntries
    <3>5. cache[j].ttl <= granted[j]
      BY <2>2, <3>1, <3>2, <3>4 DEF LimitIsGranted, Live, CacheEntries
    <3> QED BY <2>1, <3>1, <3>2, <3>4, <3>5 DEF Less, CacheEntries
  <2>3. ASSUME limit'.ttl > 0 PROVE \E k \in Keys : limit'.ttl <= granted'[k]
    <3>1. limit.ttl > 1 /\ limit'.ttl = limit.ttl - 1
      BY <1>0, <2>1, <2>3
    <3>2. PICK k \in Keys : limit.ttl <= granted[k]
      BY <1>0, <3>1 DEF OverrideLapses
    <3>3. limit'.ttl <= granted'[k]
      BY <1>0, <2>1, <3>1, <3>2 DEF Less
    <3> QED BY <3>3
  <2> QED BY <2>2, <2>3 DEF LimitIsGranted, OverrideLapses
<1>7. CASE UNCHANGED <<cache, limit, granted>>
  BY <1>7 DEF LimitIsGranted, OverrideLapses, Live
<1> QED
  BY <1>2, <1>3, <1>4, <1>5, <1>6, <1>7
     DEF Next, Pass, Accept, AcceptRefused, TickStart, DriveDone, Answer, Reconsider,
         Adopt, Leave, vars, listener, outside

\* The caps: each map and queue checks for room before it grows.
LEMMA QueueCapped ==
    ASSUME StateOK, StepShape, Len(queue) <= HeldCap, [Next]_vars
    PROVE  Len(queue') <= HeldCap
<1>1. queue \in Seq(HeldSockets) /\ Len(queue) \in Nat /\ HeldCap \in Nat
  <2>1. queue \in Seq(HeldSockets)
    BY DEF StateOK, HeldSockets
  <2> QED BY <2>1, LenProperties, CapsAssumption
<1>2. ASSUME NEW c \in Conns, NEW k \in Keys, NEW ip \in Ips, AcceptUnknown(c, k, ip)
      PROVE  Len(queue') <= HeldCap
  <2> DEFINE h == [conn |-> c, key |-> k, left |-> Hold, asked |-> request'[k] # "none"]
  <2>1. h \in HeldSockets
    BY TimesAssumption DEF HeldSockets
  <2>2. queue' = queue \/ (~(Len(queue) >= HeldCap) /\ queue' = Append(queue, h))
    BY <1>2 DEF AcceptUnknown
  <2> HIDE DEF h
  <2>3. Len(Append(queue, h)) = Len(queue) + 1
    BY <1>1, <2>1, AppendProperties
  <2> QED BY <1>1, <2>2, <2>3
<1>3. CASE Drive
  <2>1. step.next \in 1 .. Len(queue)
    BY <1>1, <1>3 DEF Drive, StateOK
  <2>2. Len(Without(step.next)) = Len(queue) - 1
    BY <1>1, <2>1, WithoutShifts
  <2> QED BY <1>1, <1>3, <2>2 DEF Drive
<1>4. CASE Clock
  <2>1. queue' = [i \in 1 .. Len(queue) |-> [queue[i] EXCEPT !.left = Less(@)]]
    BY <1>1, <1>4, LenProperties DEF Clock
  <2>2. DOMAIN queue' = 1 .. Len(queue)
    BY <2>1
  <2>3. Len(queue') = Len(queue)
    <3>1. queue' \in Seq(HeldSockets)
      <4>1. StateOK'
        BY <1>4, TypeStep DEF Next
      <4> QED BY <4>1 DEF StateOK, HeldSockets
    <3> QED BY <1>1, <2>2, <3>1, LenProperties
  <2> QED BY <2>3
<1>5. CASE queue' = queue
  BY <1>5
<1> QED
  BY <1>2, <1>3, <1>4, <1>5
     DEF Next, Pass, Accept, AcceptRefused, AcceptCached, TickStart, DriveDone, Drain,
         Answer, Reconsider, Adopt, Leave, vars, listener

\* An insert into a full cache evicts an entry first.
LEMMA CacheCapped ==
    ASSUME StateOK, StepShape, IsFiniteSet(LiveKeys), Cardinality(LiveKeys) <= CacheCap,
           [Next]_vars
    PROVE  IsFiniteSet(LiveKeys') /\ Cardinality(LiveKeys') <= CacheCap
<1>0. cache \in [Keys -> CacheEntries]
  BY DEF StateOK, CacheEntries
<1>1. ASSUME LiveKeys' \subseteq LiveKeys
      PROVE  IsFiniteSet(LiveKeys') /\ Cardinality(LiveKeys') <= CacheCap
  <2>1. IsFiniteSet(LiveKeys') /\ Cardinality(LiveKeys') <= Cardinality(LiveKeys)
    BY <1>1, FS_Subset
  <2>2. Cardinality(LiveKeys') \in Nat /\ Cardinality(LiveKeys) \in Nat /\ CacheCap \in Nat
    BY <2>1, FS_CardinalityType, CapsAssumption
  <2> QED BY <2>1, <2>2
<1>2. ASSUME NEW k \in Keys, Drain(k)
      PROVE  IsFiniteSet(LiveKeys') /\ Cardinality(LiveKeys') <= CacheCap
  <2>1. k \in step.keys
    BY <1>2 DEF Drain
  <2>2. CASE request[k] = "sent"
    <3>1. cache' = cache
      BY <1>2, <2>2 DEF Drain
    <3> QED BY <1>1, <3>1 DEF LiveKeys, Live
  <2>3. CASE request[k] # "sent"
    <3> DEFINE e == [answer |-> request[k],
                     ttl |-> IF request[k] = "no" THEN NegDuration ELSE Duration]
    <3>1. Insert(k, e)
      BY <1>2, <2>3 DEF Drain, Process
    <3>2. request[k] \in Answers
      BY <2>1, <2>3 DEF StepShape, InFlight, StateOK
    <3>3. e \in CacheEntries
      BY <3>2, TimesAssumption DEF CacheEntries
    <3> HIDE DEF e
    <3> QED BY <1>0, <3>1, <3>3, InsertCapped
  <2> QED BY <2>2, <2>3
<1>3. ASSUME NEW c \in Conns, NEW k \in Keys, NEW ip \in Ips, AcceptUnknown(c, k, ip)
      PROVE  LiveKeys' \subseteq LiveKeys
  <2>1. cache' = [cache EXCEPT ![k] = NoEntry]
    BY <1>3 DEF AcceptUnknown
  <2> QED BY <1>0, <2>1 DEF LiveKeys, Live, NoEntry
<1>4. CASE Clock
  <2>1. ASSUME NEW j \in Keys, ~Live(j) PROVE cache'[j] = NoEntry
    <3>1. cache[j].ttl <= 1
      BY <1>0, <2>1, TimesAssumption DEF Live, CacheEntries
    <3> QED BY <1>4, <3>1 DEF Clock
  <2>2. LiveKeys' \subseteq LiveKeys
    BY <2>1 DEF LiveKeys, Live, NoEntry
  <2> QED BY <1>1, <2>2
<1>5. CASE cache' = cache
  BY <1>1, <1>5 DEF LiveKeys, Live
<1> QED
  BY <1>1, <1>2, <1>3, <1>4, <1>5
     DEF Next, Pass, Accept, AcceptRefused, AcceptCached, TickStart, DriveDone, Drive,
         Answer, Reconsider, Adopt, Leave, vars, listener

\* A request is sent only below the limit on requests in flight.
LEMMA RequestsCapped ==
    ASSUME StateOK, StepShape, IsFiniteSet(InFlight), Cardinality(InFlight) <= PendingCap,
           [Next]_vars
    PROVE  IsFiniteSet(InFlight') /\ Cardinality(InFlight') <= PendingCap
<1>0. Cardinality(InFlight) \in Nat /\ PendingCap \in Nat
  BY FS_CardinalityType, CapsAssumption
<1>1. ASSUME InFlight' \subseteq InFlight
      PROVE  IsFiniteSet(InFlight') /\ Cardinality(InFlight') <= PendingCap
  <2>1. IsFiniteSet(InFlight') /\ Cardinality(InFlight') <= Cardinality(InFlight)
    BY <1>1, FS_Subset
  <2>2. Cardinality(InFlight') \in Nat
    BY <2>1, FS_CardinalityType
  <2> QED BY <1>0, <2>1, <2>2
<1>2. ASSUME NEW c \in Conns, NEW k \in Keys, NEW ip \in Ips, AcceptUnknown(c, k, ip)
      PROVE  IsFiniteSet(InFlight') /\ Cardinality(InFlight') <= PendingCap
  <2>1. CASE Sends(k)
    <3>1. InFlight' = InFlight \cup {k}
      BY <1>2, <2>1 DEF AcceptUnknown, InFlight, StateOK
    <3>2. k \notin InFlight /\ Cardinality(InFlight) < PendingCap
      BY <2>1 DEF Sends
    <3> HIDE DEF InFlight
    <3>3. IsFiniteSet(InFlight \cup {k}) /\ Cardinality(InFlight \cup {k}) = Cardinality(InFlight) + 1
      BY <3>2, FS_AddElement
    <3> QED BY <1>0, <3>1, <3>2, <3>3
  <2>2. CASE ~Sends(k)
    <3>1. request' = request
      BY <1>2, <2>2 DEF AcceptUnknown
    <3> QED BY <1>1, <3>1 DEF InFlight
  <2> QED BY <2>1, <2>2
<1>3. ASSUME NEW k \in Keys, Drain(k) PROVE InFlight' \subseteq InFlight
  BY <1>3 DEF Drain, InFlight, StateOK
<1>4. ASSUME NEW k \in Keys, Answer(k) PROVE InFlight' \subseteq InFlight
  BY <1>4 DEF Answer, InFlight, StateOK
<1>5. CASE request' = request
  BY <1>1, <1>5 DEF InFlight
<1> QED
  BY <1>1, <1>2, <1>3, <1>4, <1>5
     DEF Next, Pass, Accept, AcceptRefused, AcceptCached, TickStart, DriveDone, Drive,
         Reconsider, Adopt, Leave, Clock, vars, listener

\* An address is entered only below the cap on addresses.
LEMMA AddressesCapped ==
    ASSUME IsFiniteSet(DOMAIN rate), Cardinality(DOMAIN rate) <= IpCap, [Next]_vars
    PROVE  IsFiniteSet(DOMAIN rate') /\ Cardinality(DOMAIN rate') <= IpCap
<1>0. Cardinality(DOMAIN rate) \in Nat /\ IpCap \in Nat
  BY FS_CardinalityType, CapsAssumption
<1> DEFINE Capped(r) == IsFiniteSet(DOMAIN r) /\ Cardinality(DOMAIN r) <= IpCap
<1>1. ASSUME NEW r, NEW s, Capped(s), DOMAIN r \subseteq DOMAIN s PROVE Capped(r)
  <2>1. IsFiniteSet(DOMAIN r) /\ Cardinality(DOMAIN r) <= Cardinality(DOMAIN s)
    BY <1>1, FS_Subset
  <2>2. Cardinality(DOMAIN r) \in Nat /\ Cardinality(DOMAIN s) \in Nat
    BY <1>1, <2>1, FS_CardinalityType
  <2> QED BY <1>0, <1>1, <2>1, <2>2
<1>2. ASSUME NEW r, Capped(r) PROVE Capped(Collect(r))
  <2>1. DOMAIN Collect(r) \subseteq DOMAIN r
    BY DEF Collect
  <2> QED BY <1>1, <1>2, <2>1
<1>3. ASSUME NEW ip PROVE Capped(Checked(ip))
  <2>1. DOMAIN Checked(ip) \subseteq DOMAIN rate
    BY DEF Checked, Collect
  <2> QED BY <1>1, <2>1
<1>4. ASSUME NEW r, NEW ip, Capped(r) PROVE Capped(UpdateRateLimit(r, ip))
  <2> DEFINE s == IF NoRoom(r, ip) THEN Collect(r) ELSE r
  <2>1. Capped(s)
    BY <1>2, <1>4
  <2>2. CASE NoRoom(s, ip)
    BY <2>1, <2>2 DEF UpdateRateLimit
  <2>3. CASE ~NoRoom(s, ip)
    <3>1. DOMAIN UpdateRateLimit(r, ip) = DOMAIN s \cup {ip}
      BY <2>3 DEF UpdateRateLimit
    <3> HIDE DEF s
    <3>2. /\ IsFiniteSet(DOMAIN s \cup {ip})
          /\ Cardinality(DOMAIN s \cup {ip}) =
                IF ip \in DOMAIN s THEN Cardinality(DOMAIN s) ELSE Cardinality(DOMAIN s) + 1
      BY <2>1, FS_AddElement
    <3>3. ip \in DOMAIN s \/ ~(Cardinality(DOMAIN s) >= IpCap)
      BY <2>3 DEF NoRoom
    <3>4. Cardinality(DOMAIN s) \in Nat
      BY <2>1, FS_CardinalityType
    <3> QED BY <1>0, <2>1, <3>1, <3>2, <3>3, <3>4
  <2> QED BY <2>2, <2>3
<1>5. ASSUME NEW c \in Conns, NEW k \in Keys, NEW ip \in Ips, Accept(c, k, ip)
      PROVE  Capped(rate')
  <2>1. rate' = Checked(ip) \/ rate' = UpdateRateLimit(Checked(ip), ip)
    BY <1>5 DEF Accept, AcceptRefused, AcceptCached, AcceptUnknown
  <2> HIDE DEF Capped
  <2> QED BY <1>3, <1>4, <2>1
<1>6. CASE DOMAIN rate' = DOMAIN rate
  BY <1>6
<1> QED
  BY <1>5, <1>6
     DEF Next, Pass, TickStart, DriveDone, Drain, Drive, Answer, Reconsider, Adopt,
         Leave, Clock, vars, listener

-------------------------------------------------------------------------------
(* The rate budget of an address.                                            *)

\* A sequence belongs to every set of sequences its elements belong to.
LEMMA SeqOver ==
    ASSUME NEW A, NEW B, NEW q \in Seq(A), \A i \in 1 .. Len(q) : q[i] \in B
    PROVE  q \in Seq(B)
<1>1. Len(q) \in Nat /\ q \in [1 .. Len(q) -> A]
  BY LenProperties
<1>2. q \in [1 .. Len(q) -> B]
  BY <1>1
<1> QED BY <1>1, <1>2, SeqDef

\* What a unit makes of request times.
LEMMA OlderIs ==
    ASSUME NEW q \in Seq(RequestAges)
    PROVE  /\ Older(q) \in Seq(RequestAges) /\ Len(Older(q)) = Len(q)
           /\ \A i \in 1 .. Len(q) : Older(q)[i] = MoreTo(q[i], 2 * Window + 1)
<1> DEFINE p == Older(q)
<1>1. \A a \in RequestAges : MoreTo(a, 2 * Window + 1) \in RequestAges
  BY TimesAssumption DEF MoreTo, RequestAges
<1>2. Len(q) \in Nat /\ DOMAIN q = 1 .. Len(q) /\ \A i \in 1 .. Len(q) : q[i] \in RequestAges
  BY LenProperties, ElementOfSeq
<1>3. p = [i \in 1 .. Len(q) |-> MoreTo(q[i], 2 * Window + 1)]
  BY <1>2 DEF Older
<1> HIDE DEF p
<1>4. p \in [1 .. Len(q) -> RequestAges]
  BY <1>1, <1>2, <1>3
<1>5. p \in Seq(RequestAges)
  BY <1>2, <1>4, SeqDef
<1>6. Len(p) = Len(q)
  BY <1>2, <1>4, <1>5, LenProperties
<1> QED BY <1>3, <1>5, <1>6 DEF p

\* Trimming request times at the window or later drops none that still counts.
LEMMA TrimCovers ==
    ASSUME NEW q, NEW t, Covers(q, t), NEW b \in Nat, b >= Window
    PROVE  Covers(Trim(q, b), t)
<1> DEFINE n == Stale(q, b)
           p == Trim(q, b)
<1>1. Window \in Nat
  BY TimesAssumption
<1>2. /\ q \in Seq(RequestAges) /\ OldestFirst(q) /\ t \in Seq(0 .. Window)
      /\ Len(t) <= Len(q) /\ \A j \in 1 .. Len(t) : t[j] = q[Len(q) - Len(t) + j]
      /\ Len(q) \in Nat /\ Len(t) \in Nat
  BY DEF Covers, EndsWith
<1>3. q \in Seq(Int)
  <2>1. RequestAges \subseteq Int
    BY <1>1 DEF RequestAges
  <2> QED BY <1>2, <2>1, SeqOver, ElementOfSeq
<1>4. n \in 0 .. Len(q) /\ \A i \in 1 .. n : q[i] > b
  BY <1>3, StaleIs
<1>5. /\ p \in Seq(RequestAges) /\ Len(p) = Len(q) - n
      /\ \A i \in 1 .. Len(q) - n : p[i] = q[n + i]
  <2> HIDE DEF n
  <2>1. p = DropFirst(q, n)
    BY DEF Trim, n
  <2> HIDE DEF p
  <2> QED BY <1>2, <1>4, <2>1, DropFirstIs
<1> HIDE DEF n, p
<1>6. n <= Len(q) - Len(t)
  <2> SUFFICES ASSUME n > Len(q) - Len(t)
               PROVE  FALSE
    BY <1>2, <1>4
  <2>1. Len(q) - Len(t) + 1 \in 1 .. n /\ 1 \in 1 .. Len(t)
    BY <1>2, <1>4
  <2>2. t[1] = q[Len(q) - Len(t) + 1] /\ t[1] \in 0 .. Window
    BY <1>2, <2>1, ElementOfSeq
  <2>3. q[Len(q) - Len(t) + 1] > b
    BY <1>4, <2>1
  <2> QED BY <1>1, <2>2, <2>3
<1>7. OldestFirst(p)
  <2> SUFFICES ASSUME NEW i \in 1 .. Len(q) - n, NEW j \in 1 .. Len(q) - n, i <= j
               PROVE  p[i] >= p[j]
    BY <1>5 DEF OldestFirst
  <2>1. n + i \in 1 .. Len(q) /\ n + j \in 1 .. Len(q) /\ n + i <= n + j
    BY <1>2, <1>4
  <2>2. q[n + i] >= q[n + j]
    BY <1>2, <2>1 DEF OldestFirst
  <2> QED BY <1>5, <2>2
<1>8. EndsWith(p, t)
  <2>1. Len(t) <= Len(p)
    BY <1>2, <1>4, <1>5, <1>6
  <2>2. ASSUME NEW j \in 1 .. Len(t)
        PROVE  t[j] = p[Len(p) - Len(t) + j]
    <3>1. Len(p) - Len(t) + j \in 1 .. Len(q) - n
      BY <1>2, <1>4, <1>5, <1>6
    <3>2. p[Len(p) - Len(t) + j] = q[n + (Len(p) - Len(t) + j)]
      BY <1>5, <3>1
    <3>3. n + (Len(p) - Len(t) + j) = Len(q) - Len(t) + j
      BY <1>2, <1>4, <1>5
    <3> QED BY <1>2, <3>2, <3>3
  <2> QED BY <2>1, <2>2 DEF EndsWith
<1> QED BY <1>2, <1>5, <1>7, <1>8 DEF Covers, p

\* A request enters both.
LEMMA PushCovers ==
    ASSUME NEW q, NEW t, Covers(q, t), NEW q2, q2 = Append(q, 0), NEW t2, t2 = Append(t, 0)
    PROVE  Covers(q2, t2)
<1>1. Window \in Nat /\ 0 \in RequestAges /\ 0 \in 0 .. Window
  BY TimesAssumption DEF RequestAges
<1>2. /\ q \in Seq(RequestAges) /\ OldestFirst(q) /\ t \in Seq(0 .. Window)
      /\ Len(t) <= Len(q) /\ \A j \in 1 .. Len(t) : t[j] = q[Len(q) - Len(t) + j]
      /\ Len(q) \in Nat /\ Len(t) \in Nat
  BY DEF Covers, EndsWith
<1>3. /\ q2 \in Seq(RequestAges) /\ Len(q2) = Len(q) + 1 /\ q2[Len(q2)] = 0
      /\ \A i \in 1 .. Len(q) : q2[i] = q[i]
  BY <1>1, <1>2
<1>4. /\ t2 \in Seq(0 .. Window) /\ Len(t2) = Len(t) + 1 /\ t2[Len(t2)] = 0
      /\ \A i \in 1 .. Len(t) : t2[i] = t[i]
  BY <1>1, <1>2
<1>5. OldestFirst(q2)
  <2> SUFFICES ASSUME NEW i \in 1 .. Len(q2), NEW j \in 1 .. Len(q2), i <= j
               PROVE  q2[i] >= q2[j]
    BY <1>3 DEF OldestFirst
  <2>1. CASE j = Len(q2)
    <3>1. q2[i] \in RequestAges
      BY <1>3
    <3>2. q2[i] \in Nat
      BY <1>1, <3>1 DEF RequestAges
    <3> QED BY <1>3, <2>1, <3>2
  <2>2. CASE j # Len(q2)
    <3>1. i \in 1 .. Len(q) /\ j \in 1 .. Len(q)
      BY <1>2, <1>3, <2>2
    <3>2. q[i] >= q[j]
      BY <1>2, <3>1 DEF OldestFirst
    <3> QED BY <1>3, <3>1, <3>2
  <2> QED BY <2>1, <2>2
<1>6. ASSUME NEW j \in 1 .. Len(t2)
      PROVE  t2[j] = q2[Len(q2) - Len(t2) + j]
  <2>1. CASE j = Len(t2)
    <3>1. Len(q2) - Len(t2) + j = Len(q2)
      BY <1>2, <1>3, <1>4, <2>1
    <3> QED BY <1>3, <1>4, <2>1, <3>1
  <2>2. CASE j # Len(t2)
    <3>1. j \in 1 .. Len(t) /\ Len(q2) - Len(t2) + j = Len(q) - Len(t) + j
      BY <1>2, <1>3, <1>4, <2>2
    <3>2. Len(q) - Len(t) + j \in 1 .. Len(q)
      BY <1>2, <3>1
    <3> QED BY <1>2, <1>3, <1>4, <3>1, <3>2
  <2> QED BY <2>1, <2>2
<1>7. EndsWith(q2, t2)
  <2>1. Len(t2) <= Len(q2)
    BY <1>2, <1>3, <1>4
  <2> QED BY <1>6, <2>1 DEF EndsWith
<1> QED BY <1>3, <1>4, <1>5, <1>7 DEF Covers

\* Both age, and what has left the window counts no more.
LEMMA AgeCovers ==
    ASSUME NEW q, NEW t, Covers(q, t)
    PROVE  /\ Covers(Older(q), Trim(Older(t), Window))
           /\ Len(Trim(Older(t), Window)) <= Len(t)
<1>1. Window \in Nat
  BY TimesAssumption
<1>2. /\ q \in Seq(RequestAges) /\ OldestFirst(q) /\ t \in Seq(0 .. Window)
      /\ Len(t) <= Len(q) /\ \A j \in 1 .. Len(t) : t[j] = q[Len(q) - Len(t) + j]
      /\ Len(q) \in Nat /\ Len(t) \in Nat
  BY DEF Covers, EndsWith
<1> DEFINE p == Older(q)
           u == Older(t)
           n == Stale(u, Window)
           v == Trim(u, Window)
<1>3. /\ p \in Seq(RequestAges) /\ Len(p) = Len(q)
      /\ \A i \in 1 .. Len(q) : p[i] = MoreTo(q[i], 2 * Window + 1)
  BY <1>2, OlderIs
<1>4. /\ u \in Seq(RequestAges) /\ Len(u) = Len(t)
      /\ \A i \in 1 .. Len(t) : u[i] = MoreTo(t[i], 2 * Window + 1)
  <2>1. 0 .. Window \subseteq RequestAges
    BY <1>1 DEF RequestAges
  <2>2. t \in Seq(RequestAges)
    BY <1>2, <2>1, SeqOver, ElementOfSeq
  <2> QED BY <2>2, OlderIs
<1> HIDE DEF p, u
<1>5. \A i \in 1 .. Len(t) : u[i] = p[Len(q) - Len(t) + i]
  <2> SUFFICES ASSUME NEW i \in 1 .. Len(t)
               PROVE  u[i] = p[Len(q) - Len(t) + i]
    OBVIOUS
  <2>1. Len(q) - Len(t) + i \in 1 .. Len(q)
    BY <1>2
  <2> QED BY <1>2, <1>3, <1>4, <2>1
<1>6. OldestFirst(p)
  <2> SUFFICES ASSUME NEW i \in 1 .. Len(q), NEW j \in 1 .. Len(q), i <= j
               PROVE  p[i] >= p[j]
    BY <1>3 DEF OldestFirst
  <2>1. q[i] >= q[j]
    BY <1>2 DEF OldestFirst
  <2>2. q[i] \in RequestAges /\ q[j] \in RequestAges
    BY <1>2
  <2>3. p[i] = MoreTo(q[i], 2 * Window + 1) /\ p[j] = MoreTo(q[j], 2 * Window + 1)
    BY <1>3
  <2> QED BY <1>1, <2>1, <2>2, <2>3 DEF MoreTo, RequestAges
<1>7. u \in Seq(Int) /\ OldestFirst(u)
  <2>1. u \in Seq(Int)
    <3>1. RequestAges \subseteq Int
      BY <1>1 DEF RequestAges
    <3> QED BY <1>4, <3>1, SeqOver, ElementOfSeq
  <2>2. ASSUME NEW i \in 1 .. Len(t), NEW j \in 1 .. Len(t), i <= j
        PROVE  u[i] >= u[j]
    <3>1. /\ Len(q) - Len(t) + i \in 1 .. Len(q) /\ Len(q) - Len(t) + j \in 1 .. Len(q)
          /\ Len(q) - Len(t) + i <= Len(q) - Len(t) + j
      BY <1>2, <2>2
    <3>2. p[Len(q) - Len(t) + i] >= p[Len(q) - Len(t) + j]
      BY <1>3, <1>6, <3>1 DEF OldestFirst
    <3> QED BY <1>5, <3>2
  <2>3. OldestFirst(u)
    BY <1>4, <2>2 DEF OldestFirst
  <2> QED BY <2>1, <2>3
<1>8. n \in 0 .. Len(t)
  BY <1>4, <1>7, <1>1, StaleIs
<1>9. /\ v \in Seq(RequestAges) /\ Len(v) = Len(t) - n
       /\ \A i \in 1 .. Len(t) - n : v[i] = u[n + i]
  <2> HIDE DEF n
  <2>1. v = DropFirst(u, n)
    BY DEF Trim, n
  <2> HIDE DEF v
  <2>2. u \in Seq(RequestAges) /\ n \in 0 .. Len(u) /\ Len(u) = Len(t)
    BY <1>4, <1>8
  <2> QED BY ONLY <1>4, <2>1, <2>2, DropFirstIs
<1>10. v \in Seq(0 .. Window)
  <2>1. ASSUME NEW i \in 1 .. Len(t) - n
        PROVE  v[i] \in 0 .. Window
    <3>1. n + i \in 1 .. Len(t) /\ ~(n + i <= n)
      BY <1>2, <1>8
    <3>2. ~(u[n + i] > Window)
      BY <1>1, <1>4, <1>7, <3>1, StaleSplits
    <3>3. u[n + i] \in RequestAges
      BY <1>4, <3>1
    <3> HIDE DEF n, v
    <3>4. v[i] = u[n + i]
      BY <1>9
    <3> QED BY <1>1, <3>2, <3>3, <3>4 DEF RequestAges
  <2> HIDE DEF n, v
  <2> QED BY <1>9, <2>1, SeqOver
<1> HIDE DEF n, v
<1>11. EndsWith(p, v)
  <2>1. Len(v) <= Len(p)
    BY <1>2, <1>3, <1>8, <1>9
  <2>2. ASSUME NEW j \in 1 .. Len(v)
        PROVE  v[j] = p[Len(p) - Len(v) + j]
    <3>0. j \in 1 .. Len(t) - n /\ n \in Nat
      BY <1>8, <1>9, <2>2
    <3>1. n + j \in 1 .. Len(t) /\ v[j] = u[n + j]
      BY <1>2, <1>9, <3>0
    <3>2. u[n + j] = p[Len(q) - Len(t) + (n + j)]
      BY <1>5, <3>1
    <3>3. Len(q) - Len(t) + (n + j) = Len(p) - Len(v) + j
      BY <1>2, <1>3, <1>8, <1>9
    <3> QED BY <3>1, <3>2, <3>3
  <2> QED BY <2>1, <2>2 DEF EndsWith
<1>12. Len(v) <= Len(t)
  BY <1>2, <1>8, <1>9
<1> QED BY <1>3, <1>6, <1>10, <1>11, <1>12 DEF Covers, p, u, v

\* A collection of the map, periodic or forced, keeps what counts.
LEMMA CollectCovers ==
    ASSUME NEW r, NEW i, NEW t, Covers(RequestTimes(r, i), t)
    PROVE  Covers(RequestTimes(Collect(r), i), t)
<1>1. 2 * Window \in Nat /\ 2 * Window >= Window
  BY TimesAssumption
<1>2. CASE i \notin DOMAIN r
  BY <1>2 DEF RequestTimes, Collect
<1>3. CASE i \in DOMAIN r
  <2> DEFINE p == Trim(r[i], 2 * Window)
  <2>1. Covers(p, t)
    BY <1>1, <1>3, TrimCovers DEF RequestTimes
  <2>2. RequestTimes(Collect(r), i) = IF p # <<>> THEN p ELSE <<>>
    BY <1>3 DEF RequestTimes, Collect
  <2> QED BY <2>1, <2>2
<1> QED BY <1>2, <1>3

\* So does the check of an address.
LEMMA CheckedCovers ==
    ASSUME NEW ip, NEW i, NEW t, Covers(RequestTimes(rate, i), t)
    PROVE  Covers(RequestTimes(Checked(ip), i), t)
<1> DEFINE r == IF gcDue THEN Collect(rate) ELSE rate
<1>1. Covers(RequestTimes(r, i), t)
  BY CollectCovers
<1>2. Checked(ip) = [j \in DOMAIN r |-> IF j = ip THEN Trim(r[j], Window) ELSE r[j]]
  BY DEF Checked
<1> HIDE DEF r
<1>3. CASE i \notin DOMAIN r
  BY <1>1, <1>2, <1>3 DEF RequestTimes
<1>4. CASE i \in DOMAIN r
  <2>1. Covers(r[i], t)
    BY <1>1, <1>4 DEF RequestTimes
  <2>2. Covers(Trim(r[i], Window), t)
    BY <2>1, TrimCovers, TimesAssumption
  <2>3. RequestTimes(Checked(ip), i) = IF i = ip THEN Trim(r[i], Window) ELSE r[i]
    BY <1>2, <1>4 DEF RequestTimes
  <2> QED BY <2>1, <2>2, <2>3
<1> QED BY <1>3, <1>4

\* A request that is counted is in both; an address that finds no room has none.
LEMMA UpdateCovers ==
    ASSUME NEW r, NEW ip, NEW i, NEW t, Covers(RequestTimes(r, i), t)
    PROVE  Covers(RequestTimes(UpdateRateLimit(r, ip), i),
                  IF i = ip /\ ip \in DOMAIN UpdateRateLimit(r, ip) THEN Append(t, 0) ELSE t)
<1> DEFINE s == IF NoRoom(r, ip) THEN Collect(r) ELSE r
           w == UpdateRateLimit(r, ip)
<1>1. Covers(RequestTimes(s, i), t)
  BY CollectCovers
<1>2. w = IF NoRoom(s, ip) THEN s
          ELSE [j \in DOMAIN s \cup {ip} |->
                  IF j # ip THEN s[j] ELSE Append(IF ip \in DOMAIN s THEN s[ip] ELSE <<>>, 0)]
  BY DEF UpdateRateLimit
<1> HIDE DEF s, w
<1>3. CASE NoRoom(s, ip)
  <2>1. w = s /\ ip \notin DOMAIN s
    BY <1>2, <1>3 DEF NoRoom
  <2> QED BY <1>1, <2>1 DEF w
<1>4. CASE ~NoRoom(s, ip) /\ i # ip
  <2>1. RequestTimes(w, i) = RequestTimes(s, i)
    BY <1>2, <1>4 DEF RequestTimes
  <2> QED BY <1>1, <1>4, <2>1 DEF w
<1>5. CASE ~NoRoom(s, ip) /\ i = ip
  <2>1. RequestTimes(w, i) = Append(RequestTimes(s, i), 0) /\ ip \in DOMAIN w
    BY <1>2, <1>5 DEF RequestTimes
  <2>2. Covers(RequestTimes(w, i), Append(t, 0))
    BY <1>1, <2>1, PushCovers
  <2> QED BY <1>5, <2>1, <2>2 DEF w
<1> QED BY <1>3, <1>4, <1>5

\* Every step keeps the request times and the budget.
LEMMA RateStep ==
    ASSUME RateShape, RateBudget, [Next]_vars
    PROVE  RateShape' /\ RateBudget'
<1> USE DEF ghosts
<1>0. Requests \in Nat \ {0}
  BY CapsAssumption
<1>1. /\ sent \in [Ips -> Seq(0 .. Window)]
      /\ \A i \in Ips : Covers(RequestTimes(rate, i), sent[i]) /\ Len(sent[i]) <= Requests
  BY DEF RateShape, RateBudget
<1>2. ASSUME sent' = sent, NEW ip \in Ips, rate' = Checked(ip) \/ rate' = rate
      PROVE  RateShape' /\ RateBudget'
  <2>1. \A i \in Ips : Covers(RequestTimes(rate', i), sent[i])
    BY <1>1, <1>2, CheckedCovers
  <2> QED BY <1>1, <1>2, <2>1 DEF RateShape, RateBudget, RequestTimes
<1>3. ASSUME NEW c \in Conns, NEW k \in Keys, NEW ip \in Ips, AcceptUnknown(c, k, ip), Sends(k)
      PROVE  RateShape' /\ RateBudget'
  <2> DEFINE r == Checked(ip)
             w == UpdateRateLimit(r, ip)
  <2>1. /\ rate' = w /\ ~IsRateLimited(r, ip)
        /\ sent' = IF ip \in DOMAIN w THEN [sent EXCEPT ![ip] = Append(@, 0)] ELSE sent
    BY <1>3 DEF AcceptUnknown
  <2>2. \A i \in Ips : Covers(RequestTimes(r, i), sent[i])
    BY <1>1, CheckedCovers
  <2>3. Len(sent[ip]) < Requests
    <3>1. Covers(RequestTimes(r, ip), sent[ip])
      BY <2>2
    <3>2. CASE ip \notin DOMAIN r
      <4>1. sent[ip] = <<>>
        BY <3>1, <3>2, NoneCovers DEF RequestTimes
      <4> QED BY <1>0, <4>1
    <3>3. CASE ip \in DOMAIN r
      <4> HIDE DEF r
      <4>1. Len(r[ip]) \in Nat /\ Len(sent[ip]) \in Nat /\ Len(sent[ip]) <= Len(r[ip])
        BY <3>1, <3>3 DEF RequestTimes, Covers, EndsWith
      <4>2. ~(Len(r[ip]) >= Requests)
        BY <2>1, <3>3 DEF IsRateLimited
      <4> QED BY <1>0, <4>1, <4>2
    <3> QED BY <3>2, <3>3
  <2>4. \A i \in Ips : sent'[i] = IF i = ip /\ ip \in DOMAIN w THEN Append(sent[i], 0) ELSE sent[i]
    BY <1>1, <2>1
  <2>5. \A i \in Ips : Covers(RequestTimes(rate', i), sent'[i])
    <3> SUFFICES ASSUME NEW i \in Ips
                 PROVE  Covers(RequestTimes(rate', i), sent'[i])
      OBVIOUS
    <3>1. Covers(RequestTimes(w, i),
                 IF i = ip /\ ip \in DOMAIN w THEN Append(sent[i], 0) ELSE sent[i])
      <4>1. Covers(RequestTimes(r, i), sent[i])
        BY <2>2
      <4> HIDE DEF r
      <4> QED BY <4>1, UpdateCovers
    <3> HIDE DEF w
    <3> QED BY <2>1, <2>4, <3>1
  <2>6. sent' \in [Ips -> Seq(0 .. Window)]
    <3>1. \A i \in Ips : sent'[i] \in Seq(0 .. Window)
      BY <2>5 DEF Covers
    <3>2. sent' = [i \in Ips |-> sent'[i]]
      BY <1>1, <2>1
    <3> QED BY <3>1, <3>2
  <2>7. \A i \in Ips : Len(sent'[i]) <= Requests
    <3> SUFFICES ASSUME NEW i \in Ips
                 PROVE  Len(sent'[i]) <= Requests
      OBVIOUS
    <3>1. sent[i] \in Seq(0 .. Window) /\ Len(sent[i]) \in Nat
      BY <1>1
    <3>2. CASE sent'[i] = sent[i]
      BY <1>1, <3>2
    <3>3. CASE i = ip /\ sent'[i] = Append(sent[i], 0)
      <4>1. Len(sent'[i]) = Len(sent[i]) + 1
        BY <3>1, <3>3
      <4> QED BY <1>0, <2>3, <3>1, <3>3, <4>1
    <3> QED BY <2>4, <3>2, <3>3
  <2> QED BY <2>5, <2>6, <2>7 DEF RateShape, RateBudget
<1>4. CASE Clock
  <2>1. /\ rate' = [i \in DOMAIN rate |-> Older(rate[i])]
        /\ sent' = [i \in Ips |-> Trim(Older(sent[i]), Window)]
    BY <1>4 DEF Clock
  <2>2. \A i \in Ips : Covers(RequestTimes(rate', i), sent'[i]) /\ Len(sent'[i]) <= Requests
    <3> SUFFICES ASSUME NEW i \in Ips
                 PROVE  Covers(RequestTimes(rate', i), sent'[i]) /\ Len(sent'[i]) <= Requests
      OBVIOUS
    <3>1. Covers(RequestTimes(rate, i), sent[i])
      BY <1>1
    <3>2. RequestTimes(rate', i) = Older(RequestTimes(rate, i))
      <4>1. Older(<<>>) = <<>>
        BY DEF Older
      <4> QED BY <2>1, <4>1 DEF RequestTimes
    <3>3. /\ Covers(Older(RequestTimes(rate, i)), Trim(Older(sent[i]), Window))
          /\ Len(Trim(Older(sent[i]), Window)) <= Len(sent[i])
      BY <3>1, AgeCovers
    <3>4. sent'[i] = Trim(Older(sent[i]), Window)
      BY <2>1
    <3>5. Len(sent[i]) <= Requests /\ Len(sent[i]) \in Nat
      BY <1>1
    <3>6. Len(sent'[i]) \in Nat
      BY <3>3, <3>4 DEF Covers
    <3> QED BY <1>0, <3>2, <3>3, <3>4, <3>5, <3>6
  <2>3. sent' \in [Ips -> Seq(0 .. Window)]
    <3>1. \A i \in Ips : sent'[i] \in Seq(0 .. Window)
      BY <2>2 DEF Covers
    <3> QED BY <2>1, <3>1
  <2> QED BY <2>2, <2>3 DEF RateShape, RateBudget
<1>5. CASE UNCHANGED <<rate, sent>>
  BY <1>5 DEF RateShape, RateBudget, RequestTimes
<1>6. ASSUME NEW c \in Conns, NEW k \in Keys, NEW ip \in Ips, Accept(c, k, ip)
      PROVE  RateShape' /\ RateBudget'
  <2>1. CASE AcceptUnknown(c, k, ip) /\ Sends(k)
    BY <1>3, <2>1
  <2>2. CASE ~(AcceptUnknown(c, k, ip) /\ Sends(k))
    <3>1. rate' = Checked(ip) /\ sent' = sent
      BY <1>6, <2>2 DEF Accept, AcceptRefused, AcceptCached, AcceptUnknown
    <3> QED BY <1>2, <3>1
  <2> QED BY <2>1, <2>2
<1> QED
  BY <1>4, <1>5, <1>6
     DEF Next, Pass, TickStart, DriveDone, Drain, Drive, Answer, Reconsider,
         Adopt, Leave, vars, listener

-------------------------------------------------------------------------------
(* No socket waits for an answer that has come and gone.                     *)

\* Every step keeps what is known of the sockets whose question is closed.
LEMMA AskedStep ==
    ASSUME NegDuration > 0, StateOK, StepShape, AskedShape, [Next]_vars
    PROVE  AskedShape'
<1> DEFINE Gone(i) ==
       queue[i].asked /\ request[queue[i].key] = "none" /\ queue[i].key \notin lost
<1>0. /\ queue \in Seq(HeldSockets) /\ Len(queue) \in Nat /\ DOMAIN queue = 1 .. Len(queue)
      /\ \A i \in 1 .. Len(queue) : queue[i] \in HeldSockets
      /\ cache \in [Keys -> CacheEntries] /\ request \in [Keys -> {"none", "sent"} \cup Answers]
      /\ step \in [at : {"idle", "tick"}, keys : SUBSET Keys, next : Nat \ {0}]
  <2>1. queue \in Seq(HeldSockets)
    BY DEF StateOK, HeldSockets
  <2> QED BY <2>1, LenProperties, ElementOfSeq DEF StateOK, CacheEntries
<1>1. /\ step.keys # {} => step.next = 1
      /\ \A i \in 1 .. Len(queue) :
            Gone(i) => step.at = "tick" /\ i >= step.next /\ Live(queue[i].key)
  BY <1>0 DEF AskedShape
<1>2. ASSUME step = Idle
      PROVE  \A i \in 1 .. Len(queue) : ~Gone(i)
  BY <1>1, <1>2 DEF Idle
<1>3. ASSUME UNCHANGED <<queue, request, cache, step, lost>>
      PROVE  AskedShape'
  BY <1>3 DEF AskedShape, Live
<1>4. ASSUME NEW c \in Conns, NEW k \in Keys, NEW ip \in Ips, AcceptUnknown(c, k, ip)
      PROVE  AskedShape'
  <2> DEFINE h == [conn |-> c, key |-> k, left |-> Hold, asked |-> request'[k] # "none"]
  <2>1. /\ step = Idle /\ step' = Idle /\ lost' = lost
        /\ request' = IF Sends(k) THEN [request EXCEPT ![k] = "sent"] ELSE request
        /\ queue' = queue \/ queue' = Append(queue, h)
    BY <1>4 DEF AcceptUnknown
  <2>2. h \in HeldSockets
    BY TimesAssumption DEF HeldSockets
  <2>3. \A j \in Keys : request'[j] = "none" => request[j] = "none"
    BY <1>0, <2>1
  <2>4. h.key = k /\ (h.asked => request'[k] # "none")
    OBVIOUS
  <2> HIDE DEF h
  <2>5. ASSUME NEW i \in DOMAIN queue'
        PROVE  queue'[i].asked /\ request'[queue'[i].key] = "none" => queue'[i].key \in lost'
    <3>1. CASE i \in 1 .. Len(queue) /\ queue'[i] = queue[i]
      <4>1. queue[i].key \in Keys
        BY <1>0, <3>1 DEF HeldSockets
      <4> QED BY <1>2, <2>1, <2>3, <3>1, <4>1
    <3>2. CASE queue'[i] = h
      BY <2>4, <3>2
    <3>3. (i \in 1 .. Len(queue) /\ queue'[i] = queue[i]) \/ queue'[i] = h
      <4>1. CASE queue' = queue
        BY <1>0, <2>5, <4>1
      <4>2. CASE queue' = Append(queue, h)
        <5>1. /\ Len(queue') = Len(queue) + 1 /\ queue' \in Seq(HeldSockets)
              /\ \A n \in 1 .. Len(queue) : queue'[n] = queue[n]
              /\ queue'[Len(queue) + 1] = h
          BY <1>0, <2>2, <4>2, AppendProperties
        <5>2. i \in 1 .. Len(queue) + 1
          BY <2>5, <5>1, LenProperties
        <5> QED BY <1>0, <5>1, <5>2
      <4> QED BY <2>1, <4>1, <4>2
    <3> QED BY <3>1, <3>2, <3>3
  <2> QED BY <2>1, <2>5 DEF AskedShape, Idle
<1>5. CASE TickStart
  <2>1. /\ step = Idle /\ step'.next = 1
        /\ queue' = queue /\ request' = request /\ lost' = lost
    BY <1>5 DEF TickStart, listener, ghosts
  <2> QED BY <1>0, <1>2, <2>1 DEF AskedShape
<1>6. ASSUME NEW k \in Keys, Drain(k)
      PROVE  AskedShape'
  <2>1. /\ k \in step.keys /\ queue' = queue
        /\ step' = [step EXCEPT !.keys = @ \ {k}]
    BY <1>6 DEF Drain
  <2>2. step'.at = step.at /\ step'.next = step.next /\ step'.keys = step.keys \ {k}
    BY <1>0, <2>1
  <2>3. step.at = "tick" /\ step.next = 1
    BY <1>0, <1>1, <2>1 DEF StepShape, Idle
  <2>4. CASE request[k] = "sent"
    <3>1. cache' = cache /\ request' = request /\ lost' = lost
      BY <1>6, <2>4 DEF Drain
    <3> QED BY <1>1, <1>0, <2>1, <2>2, <3>1 DEF AskedShape, Live
  <2>5. CASE request[k] # "sent"
    <3> DEFINE e == [answer |-> request[k],
                     ttl |-> IF request[k] = "no" THEN NegDuration ELSE Duration]
    <3>1. /\ Insert(k, e) /\ request' = [request EXCEPT ![k] = "none"]
          /\ lost' = (lost \ {k}) \cup {j \in LiveOthers(k) : cache'[j] = NoEntry}
      BY <1>6, <2>5 DEF Drain, Process
    <3>2. request[k] \in Answers
      BY <1>0, <2>1, <2>5 DEF StepShape, InFlight
    <3>3. e \in CacheEntries
      BY <3>2, TimesAssumption DEF CacheEntries
    <3>4. e.ttl > 0
      BY TimesAssumption
    <3> HIDE DEF e
    <3>5. Live(k)'
      <4>1. cache'[k] = e
        BY <1>0, <3>1, <3>3, InsertKeeps
      <4> QED BY <3>4, <4>1 DEF Live
    <3>6. ASSUME NEW i \in 1 .. Len(queue), queue[i].asked,
                 request'[queue[i].key] = "none", queue[i].key \notin lost'
          PROVE  Live(queue[i].key)'
      <4> DEFINE j == queue[i].key
      <4>1. j \in Keys
        BY <1>0 DEF HeldSockets
      <4>2. CASE j = k
        BY <2>1, <3>5, <4>2 DEF Live
      <4>3. CASE j # k
        <5>1. request[j] = "none" /\ j \notin lost
          BY <1>0, <3>1, <3>6, <4>1, <4>3
        <5>2. Live(j)
          BY <1>1, <3>6, <5>1
        <5>3. j \in LiveOthers(k)
          BY <4>1, <4>3, <5>2 DEF LiveOthers, LiveKeys
        <5>4. cache'[j] # NoEntry
          BY <3>1, <3>6, <5>3
        <5>5. cache'[j] = cache[j]
          BY <1>0, <3>1, <3>3, <4>1, <4>3, <5>4, InsertKeeps
        <5> QED BY <2>1, <5>2, <5>5 DEF Live
      <4> QED BY <4>2, <4>3
    <3> QED BY <1>0, <2>1, <2>2, <2>3, <3>6 DEF AskedShape, Live
  <2> QED BY <2>4, <2>5
<1>7. CASE Drive
  <2> DEFINE h == queue[step.next]
  <2>1. /\ step.at = "tick" /\ step.keys = {} /\ step.next \in 1 .. Len(queue)
        /\ cache' = cache /\ request' = request /\ lost' = lost
    BY <1>0, <1>7 DEF Drive, ghosts
  <2>2. CASE Live(h.key) \/ h.left = 0
    <3>1. queue' = Without(step.next) /\ step' = step
      BY <1>7, <2>2 DEF Drive
    <3>2. /\ queue' \in Seq(HeldSockets) /\ Len(queue') = Len(queue) - 1
          /\ \A j \in 1 .. Len(queue) - 1 :
                queue'[j] = IF j < step.next THEN queue[j] ELSE queue[j + 1]
      BY <1>0, <2>1, <3>1, WithoutShifts
    <3>3. ASSUME NEW i \in DOMAIN queue', queue'[i].asked,
                 request'[queue'[i].key] = "none", queue'[i].key \notin lost'
          PROVE  i >= step.next /\ Live(queue'[i].key)
      <4>1. i \in 1 .. Len(queue) - 1
        BY <3>2, LenProperties
      <4>2. CASE i < step.next
        <5>1. i \in 1 .. Len(queue) /\ queue'[i] = queue[i]
          BY <1>0, <3>2, <4>1, <4>2
        <5>2. i >= step.next
          BY <1>1, <2>1, <3>3, <5>1
        <5> QED BY <1>0, <4>1, <4>2, <5>2
      <4>3. CASE ~(i < step.next)
        <5>1. i + 1 \in 1 .. Len(queue) /\ queue'[i] = queue[i + 1] /\ i >= step.next
          BY <1>0, <3>2, <4>1, <4>3
        <5> QED BY <1>1, <2>1, <3>3, <5>1
      <4> QED BY <4>2, <4>3
    <3> QED BY <2>1, <3>1, <3>3 DEF AskedShape, Live
  <2>3. CASE ~(Live(h.key) \/ h.left = 0)
    <3>1. queue' = queue /\ step' = [step EXCEPT !.next = @ + 1]
      BY <1>7, <2>3 DEF Drive
    <3>2. step'.at = "tick" /\ step'.keys = {} /\ step'.next = step.next + 1
      BY <1>0, <2>1, <3>1
    <3>3. ASSUME NEW i \in 1 .. Len(queue), Gone(i)
          PROVE  i >= step'.next /\ Live(queue[i].key)
      <4>1. i >= step.next /\ Live(queue[i].key)
        BY <1>1, <3>3
      <4>2. i # step.next
        BY <2>3, <4>1
      <4> QED BY <1>0, <3>2, <4>1, <4>2
    <3> QED BY <1>0, <2>1, <3>1, <3>2, <3>3 DEF AskedShape, Live
  <2> QED BY <2>2, <2>3
<1>8. CASE DriveDone
  <2>1. /\ step.next > Len(queue) /\ step' = Idle
        /\ queue' = queue /\ request' = request /\ lost' = lost
    BY <1>8 DEF DriveDone, listener, ghosts
  <2>2. \A i \in 1 .. Len(queue) : ~Gone(i)
    BY <1>0, <1>1, <2>1
  <2> QED BY <1>0, <2>1, <2>2 DEF AskedShape, Idle
<1>9. ASSUME NEW k \in Keys, Answer(k)
      PROVE  AskedShape'
  <2>1. /\ UNCHANGED <<queue, cache, step, lost>>
        /\ \E a \in Answers : request' = [request EXCEPT ![k] = a]
    BY <1>9 DEF Answer, Answers, ghosts
  <2>2. \A j \in Keys : request'[j] = "none" => request[j] = "none"
    BY <1>0, <2>1 DEF Answers
  <2>3. \A i \in 1 .. Len(queue) : queue[i].key \in Keys
    BY <1>0 DEF HeldSockets
  <2> QED BY <1>0, <1>1, <2>1, <2>2, <2>3 DEF AskedShape, Live
<1>10. CASE Clock
  <2>1. /\ step = Idle /\ step' = Idle /\ request' = request /\ lost' = lost
        /\ queue' = [i \in DOMAIN queue |-> [queue[i] EXCEPT !.left = Less(@)]]
    BY <1>10 DEF Clock
  <2>2. \A i \in 1 .. Len(queue) :
           queue'[i].asked = queue[i].asked /\ queue'[i].key = queue[i].key
    BY <1>0, <2>1 DEF HeldSockets
  <2>3. DOMAIN queue' = 1 .. Len(queue)
    BY <1>0, <2>1
  <2>4. ASSUME NEW i \in 1 .. Len(queue), queue'[i].asked, request'[queue'[i].key] = "none"
        PROVE  queue'[i].key \in lost'
    <3>1. queue[i].asked /\ request[queue[i].key] = "none"
      BY <2>1, <2>2, <2>4
    <3>2. queue[i].key \in lost
      BY <1>2, <2>1, <3>1
    <3> QED BY <2>1, <2>2, <3>2
  <2> QED BY <2>1, <2>3, <2>4 DEF AskedShape, Idle
<1> QED
  BY <1>3, <1>4, <1>5, <1>6, <1>7, <1>8, <1>9, <1>10
     DEF Next, Pass, Accept, AcceptRefused, AcceptCached, Reconsider, Adopt, Leave, vars,
         listener, outside, ghosts

-------------------------------------------------------------------------------
(* The theorems.                                                             *)

\* IInv holds in every reachable state: the listener's state keeps its shape,
\* and its answers, limits and deadlines keep their relations.
THEOREM Invariance == Spec => []IInv
<1>1. IInv /\ [Next]_vars => IInv'
  <2> SUFFICES ASSUME IInv, [Next]_vars PROVE IInv'
    OBVIOUS
  <2>1. StateOK /\ StepShape /\ CapsHold /\ Finite
    BY DEF IInv
  <2>2. StateOK' /\ StepShape'
    BY <2>1, TypeStep
  <2>3. CapsHold' /\ Finite'
    BY <2>1, QueueCapped, CacheCapped, RequestsCapped, AddressesCapped DEF CapsHold, Finite
  <2>4. AnswersLapse'
    BY <2>1, AnswerStep DEF IInv
  <2>5. LimitIsGranted' /\ OverrideLapses'
    BY <2>1, LimitStep DEF IInv
  <2>6. PassedAreInTime' /\ HeldBounded'
    BY <2>1, DeadlineStep DEF IInv
  <2>7. RateShape' /\ RateBudget'
    BY RateStep DEF IInv
  <2> QED BY <2>2, <2>3, <2>4, <2>5, <2>6, <2>7 DEF IInv
<1> QED
  BY InitInv, <1>1, PTL DEF Spec

\* The cache, the requests in flight, the queue and the rate map keep their
\* types and never exceed their caps.
THEOREM TypeCorrect == Spec => []TypeOK
<1>1. IInv => TypeOK
  BY DEF IInv, TypeOK
<1> QED
  BY Invariance, <1>1, PTL

\* Nobody is admitted on a key withdrawn more than a cache duration ago.
THEOREM WithdrawnKeysLapse == Spec => RevokedKeyLapses
<1>1. IInv /\ [Next]_vars => [\A p \in handoff' \ handoff : revoked[p[2]] <= Duration + 1]_vars
  <2> SUFFICES ASSUME IInv, [Next]_vars, NEW p \in handoff' \ handoff
               PROVE  revoked[p[2]] <= Duration + 1
    OBVIOUS
  <2> DEFINE k == p[2]
  <2>1. k \in Keys /\ Positive(k)
    BY AdmittedOnAnswer DEF IInv
  <2>2. revoked[k] + cache[k].ttl <= Duration + 2 /\ cache[k].ttl > 0
    BY <2>1 DEF IInv, AnswersLapse, Positive, Live
  <2>3. revoked[k] \in 0 .. Duration + 2 /\ cache[k].ttl \in 0 .. Duration
    BY <2>1 DEF IInv, StateOK
  <2> HIDE DEF k
  <2>4. revoked[k] <= Duration + 1
    BY <2>2, <2>3, TimesAssumption
  <2> QED BY <2>4 DEF k
<1> QED
  BY Invariance, <1>1, PTL DEF Spec, RevokedKeyLapses

\* A stream's limit lasts no longer than the answer that carried it.
THEOREM LimitsLapse == Spec => []OverrideLapses
<1>1. IInv => OverrideLapses
  BY DEF IInv
<1> QED
  BY Invariance, <1>1, PTL

\* An address that is tracked causes no more webhook calls in a window than
\* configured, for every window and budget: neither the trims nor the periodic and
\* the forced collection of the map (is_rate_limited, update_rate_limit,
\* cleanup_expired_rate_limits) forget a request that still counts.
THEOREM BudgetKept == Spec => []RateBudget
<1>1. IInv => RateBudget
  BY DEF IInv
<1> QED
  BY Invariance, <1>1, PTL

\* A socket whose key was asked about is held only while the question is open: the
\* pass that collects the answer settles every socket that waits for it
\* (drain_player_key_validations, drive_pending_player_connections), for every number
\* of requests in flight and every cap, except for a key whose answer a full cache
\* gave up (insert_player_key_cache_locked).  A refusal has to last longer than the
\* pass that caches it.
THEOREM AskedAreSettled == NegDuration > 0 => (Spec => []HeldIsAsked)
<1> SUFFICES ASSUME NegDuration > 0 PROVE Spec => []HeldIsAsked
  OBVIOUS
<1>1. Init => AskedShape
  BY DEF Init, AskedShape, Idle
<1>2. IInv /\ AskedShape /\ [Next]_vars => AskedShape'
  BY AskedStep DEF IInv
<1>3. AskedShape => HeldIsAsked
  BY DEF AskedShape, HeldIsAsked, Idle
<1> QED
  BY Invariance, <1>1, <1>2, <1>3, PTL DEF Spec

\* Every pass ends with the sockets past their deadline closed.
THEOREM HeldInTime == Spec => []HeldBounded
<1>1. IInv => HeldBounded
  BY DEF IInv
<1> QED
  BY Invariance, <1>1, PTL
===============================================================================
