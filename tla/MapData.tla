-------------------------------- MODULE MapData --------------------------------
(***************************************************************************)
(* CSLSMapData: the rings of a server by stream key, the budget they are   *)
(* counted against, and the viewers' cursors into them.                    *)
(*                                                                         *)
(* A ring is allocated when a stream's first packet arrives and freed when *)
(* its publisher goes; a viewer keeps its connection, and its cursor, over *)
(* that.  Every operation runs under m_rwclock and is one step; the two    *)
(* steps of a ring's put() are in RecycleArray.  What the bytes are does   *)
(* not matter here, only whether the ring a viewer reads has ever been     *)
(* given them.                                                             *)
(***************************************************************************)
EXTENDS FiniteSets, Tallies

CONSTANTS
    Keys,        \* stream keys
    Viewers,     \* one m_map_data_id each
    KeyOf,       \* KeyOf[v]: the key v plays
    Sizes,       \* ring sizes add() may decide on (default, bitrate * latency)
    Lens,        \* lengths of put()
    ReadSize,    \* get()'s size argument
    Aligned,     \* get()'s aligned argument
    MaxStreams,  \* m_max_streams; 0 is unlimited
    MaxBytes,    \* m_max_total_ring_bytes; 0 is unlimited
    MaxTotal     \* bound of the model: bytes put into one ring

ASSUME KeysAssumption == IsFiniteSet(Keys) /\ KeyOf \in [Viewers -> Keys]
ASSUME SizesAssumption == Sizes \subseteq Nat \ {0} /\ Lens \subseteq Nat \ {0}
ASSUME ReadAssumption == ReadSize \in Nat \ {0} /\ Aligned \in Nat \ {0}
ASSUME CapsAssumption == MaxStreams \in Nat /\ MaxBytes \in Nat

VARIABLES
    rings,       \* m_map_array: the keys that have a ring
    tsInfo,      \* m_map_ts_info: the keys that have a ts_info
    ring,        \* ring[k]: the ring's size, write position and byte count
    streamCount, \* m_stream_count
    totalBytes,  \* m_total_ring_bytes
    cursor,      \* cursor[v]: SLSRecycleArrayID
    same,        \* history: v's cursor was set on the ring its key has now
    written      \* history: v's last get() copied only cells put() has written

budget == <<streamCount, totalBytes>>
readers == <<cursor, same, written>>
vars == <<rings, tsInfo, ring, budget, readers>>

NoRing == [size |-> 0, pos |-> 0, count |-> 0]

Init ==
    /\ rings = {} /\ tsInfo = {}
    /\ ring = [k \in Keys |-> NoRing]
    /\ streamCount = 0 /\ totalBytes = 0
    /\ cursor = [v \in Viewers |-> [first |-> TRUE, pos |-> 0, count |-> 0]]
    /\ same = [v \in Viewers |-> FALSE]
    /\ written = [v \in Viewers |-> TRUE]

-------------------------------------------------------------------------------
\* The bytes allocated for the rings.
RingBytes == SumOf([k \in rings |-> ring[k].size], rings)

\* The two caps of add(), checked before the ring is committed.
StreamCapReached == MaxStreams > 0 /\ streamCount >= MaxStreams
\* Mutant: the cap is compared without the ring about to be made.
MemoryCapPassed(n) == MaxBytes > 0 /\ totalBytes > MaxBytes
MemoryCapExceeded(n) == MaxBytes > 0 /\ totalBytes + n > MaxBytes

\* Mutant: a re-add of a key that has a ring is counted again.
AddCounted(k, n) ==
    /\ ~StreamCapReached /\ ~MemoryCapExceeded(n)
    /\ rings' = rings \cup {k}
    /\ tsInfo' = tsInfo \cup {k}
    /\ ring' = IF k \in rings THEN ring
               ELSE [ring EXCEPT ![k] = [size |-> n, pos |-> 0, count |-> 0]]
    /\ streamCount' = streamCount + 1
    /\ totalBytes' = totalBytes + n
    /\ UNCHANGED readers

\* add() of a key without a ring.  (With a ring it returns at once; a refusal
\* changes nothing either.)
Add(k, n) ==
    /\ k \notin rings
    /\ ~StreamCapReached /\ ~MemoryCapExceeded(n)
    /\ rings' = rings \cup {k}
    /\ tsInfo' = tsInfo \cup {k}
    /\ ring' = [ring EXCEPT ![k] = [size |-> n, pos |-> 0, count |-> 0]]
    /\ streamCount' = streamCount + 1
    /\ totalBytes' = totalBytes + n
    /\ UNCHANGED readers

\* The viewers whose cursor no longer belongs to the ring of its key.
Orphan(S) == same' = [v \in Viewers |-> same[v] /\ KeyOf[v] \notin S]

\* Mutant: the bytes of the ring are not given back.
RemoveStreamOnly(k) ==
    /\ k \in rings
    /\ rings' = rings \ {k}
    /\ tsInfo' = tsInfo \ {k}
    /\ ring' = [ring EXCEPT ![k] = NoRing]
    /\ streamCount' = streamCount - 1
    /\ Orphan({k})
    /\ UNCHANGED <<totalBytes, cursor, written>>

\* Mutant: the ts_info is left behind.
RemoveRingOnly(k) ==
    /\ k \in rings
    /\ rings' = rings \ {k}
    /\ ring' = [ring EXCEPT ![k] = NoRing]
    /\ streamCount' = streamCount - 1
    /\ totalBytes' = totalBytes - ring[k].size
    /\ Orphan({k})
    /\ UNCHANGED <<tsInfo, cursor, written>>

\* remove(): of a key without a ring only a ts_info could be left to erase.
Remove(k) ==
    /\ k \in rings \cup tsInfo
    /\ rings' = rings \ {k}
    /\ tsInfo' = tsInfo \ {k}
    /\ ring' = [ring EXCEPT ![k] = NoRing]
    /\ streamCount' = IF k \in rings THEN streamCount - 1 ELSE streamCount
    /\ totalBytes' = totalBytes - ring[k].size
    /\ Orphan({k})
    /\ UNCHANGED <<cursor, written>>

\* clear(): every ring is subtracted and freed, when the server is torn down.
Clear ==
    /\ rings # {}
    /\ rings' = {} /\ tsInfo' = {}
    /\ ring' = [k \in Keys |-> NoRing]
    /\ streamCount' = streamCount - Cardinality(rings)
    /\ totalBytes' = totalBytes - RingBytes
    /\ Orphan(rings)
    /\ UNCHANGED <<cursor, written>>

\* put(): a key without a ring or a ts_info is an error and nothing changes.
Put(k, len) ==
    /\ k \in rings /\ k \in tsInfo
    /\ len <= ring[k].size /\ ring[k].count + len <= MaxTotal
    /\ ring' = [ring EXCEPT ![k] = [size  |-> @.size,
                                    pos   |-> IF @.pos + len >= @.size
                                              THEN @.pos + len - @.size ELSE @.pos + len,
                                    count |-> @.count + len]]
    /\ UNCHANGED <<rings, tsInfo, budget, readers>>

-------------------------------------------------------------------------------
(* get() of viewer v on the ring its key has now.                            *)

Ring(v) == ring[KeyOf[v]]
Since(v) == Ring(v).count - cursor[v].count
Fresh(v) == [first |-> FALSE, pos |-> Ring(v).pos, count |-> Ring(v).count]

\* Division truncates towards zero, also for a negative length.
Floor(n) == IF n >= 0 THEN (n \div Aligned) * Aligned ELSE -(((-n) \div Aligned) * Aligned)
Ready(v) == IF cursor[v].pos < Ring(v).pos
            THEN Ring(v).pos - cursor[v].pos
            ELSE Ring(v).size - cursor[v].pos + Ring(v).pos
CopyLen(v) == Floor(IF Ready(v) <= ReadSize THEN Ready(v) ELSE ReadSize)
\* Mutant: the copy does not go round the ring's end.
NextPosStraight(v) == IF CopyLen(v) <= 0 THEN cursor[v].pos ELSE cursor[v].pos + CopyLen(v)
NextPos(v) == IF CopyLen(v) <= 0 THEN cursor[v].pos
              ELSE IF Ring(v).size - cursor[v].pos >= CopyLen(v) \/ cursor[v].pos < Ring(v).pos
                   THEN cursor[v].pos + CopyLen(v)
                   ELSE CopyLen(v) - (Ring(v).size - cursor[v].pos)

\* The cells read have all been written since the ring was allocated.
Written(v) == cursor[v].pos < Ring(v).pos \/ Ring(v).count >= Ring(v).size

Anchor(v) ==
    /\ KeyOf[v] \in rings
    /\ cursor[v].first
    /\ cursor' = [cursor EXCEPT ![v] = Fresh(v)]
    /\ same' = [same EXCEPT ![v] = TRUE]
    /\ UNCHANGED <<rings, tsInfo, ring, budget, written>>

HasNew(v) == cursor[v].pos # Ring(v).pos \/ Since(v) # 0

Overrun(v) ==
    /\ KeyOf[v] \in rings
    /\ ~cursor[v].first /\ HasNew(v)
    /\ Since(v) >= Ring(v).size
    /\ cursor' = [cursor EXCEPT ![v] = Fresh(v)]
    /\ same' = [same EXCEPT ![v] = TRUE]
    /\ UNCHANGED <<rings, tsInfo, ring, budget, written>>

\* The copying path, with the clamp at its end.
Read(v) ==
    /\ KeyOf[v] \in rings
    /\ ~cursor[v].first /\ HasNew(v)
    /\ Since(v) < Ring(v).size
    /\ cursor' = [cursor EXCEPT ![v] =
           [first |-> FALSE, pos |-> IF NextPos(v) >= Ring(v).size THEN 0 ELSE NextPos(v),
            count |-> Ring(v).count]]
    /\ written' = [written EXCEPT ![v] = CopyLen(v) > 0 => Written(v)]
    /\ UNCHANGED <<rings, tsInfo, ring, budget, same>>

-------------------------------------------------------------------------------
Next ==
    \/ \E k \in Keys : \/ \E n \in Sizes : Add(k, n)
                       \/ Remove(k)
                       \/ \E len \in Lens : Put(k, len)
    \/ Clear
    \/ \E v \in Viewers : Anchor(v) \/ Overrun(v) \/ Read(v)

Spec == Init /\ [][Next]_vars

-------------------------------------------------------------------------------
(* Properties *)

StateOK ==
    /\ rings \subseteq Keys /\ tsInfo \subseteq Keys
    /\ ring \in [Keys -> [size : Nat, pos : Nat, count : Nat]]
    /\ streamCount \in Int
    /\ cursor \in [Viewers -> [first : BOOLEAN, pos : Int, count : Int]]
    /\ same \in [Viewers -> BOOLEAN]
    /\ written \in [Viewers -> BOOLEAN]

\* The variables keep their types, and the byte counter is the bytes of the
\* rings, through any adds and removes.
TypeOK == StateOK /\ totalBytes = RingBytes

\* "The counters stay alloc-balanced across idempotent re-adds": the stream
\* counter is the number of rings.
CountBalanced == streamCount = Cardinality(rings)

\* The caps hold for what is really allocated, not just for the counters.
StreamCapHolds == MaxStreams > 0 => Cardinality(rings) <= MaxStreams
CapsHold == StreamCapHolds /\ (MaxBytes > 0 => RingBytes <= MaxBytes)

\* A ring always has its ts_info, so put() never has to bail out for one, and
\* no ts_info of an earlier session is met by a later one.
TsInfoPaired == tsInfo = rings

\* A viewer is never handed a cell of the ring nothing has been written to.
HandsWritten == \A v \in Viewers : written[v]

\* So it is for a viewer that took its position on the ring it reads, and its
\* reads stay inside the ring (the asserts at the end of get()).
OwnRingSound ==
    [][\A v \in Viewers : same[v] /\ Read(v) =>
           CopyLen(v) >= 0 /\ NextPos(v) \in 0..Ring(v).size /\ (CopyLen(v) > 0 => Written(v))]_vars
-------------------------------------------------------------------------------
(* The inductive invariant                                                   *)

\* A ring's write position and byte count agree until the first lap.
RingShape ==
    \A k \in rings : LET b == ring[k] IN
        /\ b.size \in Sizes
        /\ b.pos \in 0..(b.size - 1)
        /\ b.count < b.size => b.pos = b.count

\* A cursor set on its key's ring is inside it and, before the first lap, not
\* past the write position; at it only when there is nothing new.
CursorShape ==
    \A v \in Viewers : same[v] => LET b == Ring(v) c == cursor[v] IN
        /\ KeyOf[v] \in rings
        /\ ~c.first
        /\ c.pos \in 0..(b.size - 1)
        /\ c.count <= b.count
        /\ b.count < b.size => c.pos <= b.pos
        /\ b.count < b.size /\ c.pos = b.pos => c.count = b.count

IInv == TypeOK /\ CountBalanced /\ CapsHold /\ TsInfoPaired /\ RingShape /\ CursorShape
===============================================================================
