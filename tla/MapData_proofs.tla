---------------------------- MODULE MapData_proofs ----------------------------
(***************************************************************************)
(* The stream and byte counters of CSLSMapData and their caps, the pairing *)
(* of rings and ts_infos, and the soundness of a read from the ring the    *)
(* cursor was set on, for any keys, viewers, ring sizes and caps.          *)
(***************************************************************************)
EXTENDS MapData, Tallies_proofs

USE KeysAssumption, SizesAssumption, ReadAssumption, CapsAssumption

\* Aligning a length that is not negative neither makes it so nor increases it.
LEMMA FloorBound ==
    ASSUME NEW n \in Nat
    PROVE  Floor(n) \in 0..n
  BY SMTT(30) DEF Floor

\* So it is an integer for a negative length, too.
LEMMA FloorInt ==
    ASSUME NEW n \in Int
    PROVE  Floor(n) \in Int
  BY SMTT(30) DEF Floor

\* There are finitely many rings.
LEMMA RingsFinite ==
    ASSUME StateOK
    PROVE  IsFiniteSet(rings) /\ Cardinality(rings) \in Nat
  BY FS_Subset, FS_CardinalityType DEF StateOK

\* Whatever ring a cursor meets, a read leaves values of the right type.
LEMMA ReadTypes ==
    ASSUME StateOK, NEW v \in Viewers
    PROVE  /\ Ready(v) \in Int
           /\ CopyLen(v) \in Int
           /\ NextPos(v) \in Int
<1>1. Ring(v).size \in Nat /\ Ring(v).pos \in Nat /\ cursor[v].pos \in Int
  BY DEF StateOK, Ring
<1>2. Ready(v) \in Int
  BY <1>1 DEF Ready
<1>3. CopyLen(v) \in Int
  BY <1>2, FloorInt DEF CopyLen
<1> QED BY <1>1, <1>2, <1>3 DEF NextPos

-------------------------------------------------------------------------------
(* Reads from the cursor's own ring *)

\* What a read can do when the cursor was set on the ring its key has now.
LEMMA OwnRead ==
    ASSUME IInv, NEW v \in Viewers, same[v], Read(v)
    PROVE  /\ CopyLen(v) \in 0..Ready(v)
           /\ NextPos(v) \in 0..Ring(v).size
           /\ CopyLen(v) > 0 => Written(v)
           /\ Ring(v).count < Ring(v).size => NextPos(v) <= Ring(v).pos
<1> DEFINE b == Ring(v)
           c == cursor[v]
<1>1. /\ b.size \in Nat \ {0} /\ b.pos \in 0..(b.size - 1) /\ b.count \in Nat
      /\ b.count < b.size => b.pos = b.count
  BY DEF IInv, TypeOK, StateOK, RingShape, CursorShape, Ring
<1>2. /\ c.pos \in 0..(b.size - 1) /\ c.count \in Int
      /\ b.count < b.size => c.pos <= b.pos
      /\ b.count < b.size /\ c.pos = b.pos => c.count = b.count
  BY DEF IInv, TypeOK, StateOK, CursorShape
<1>3. b.count < b.size => c.pos < b.pos
  BY <1>1, <1>2 DEF Read, HasNew, Since
<1>4. Ready(v) \in 0..b.size
  BY <1>1, <1>2 DEF Ready
<1>5. CopyLen(v) \in 0..Ready(v)
  <2> DEFINE m == IF Ready(v) <= ReadSize THEN Ready(v) ELSE ReadSize
  <2>1. m \in Nat /\ m <= Ready(v)
    BY <1>4
  <2>2. Floor(m) \in 0..m
    BY <2>1, FloorBound
  <2> QED BY <1>4, <2>1, <2>2 DEF CopyLen
<1>6. NextPos(v) \in 0..b.size
  BY <1>1, <1>2, <1>4, <1>5 DEF NextPos, Ready
<1>7. CopyLen(v) > 0 => Written(v)
  BY <1>1, <1>2, <1>3 DEF Written
<1>8. b.count < b.size => NextPos(v) <= b.pos
  BY <1>1, <1>2, <1>3, <1>4, <1>5 DEF NextPos, Ready
<1> QED BY <1>5, <1>6, <1>7, <1>8

-------------------------------------------------------------------------------
(* The bytes of the rings *)

\* They are a number, whatever the rings.
LEMMA BytesType ==
    ASSUME StateOK
    PROVE  RingBytes \in Nat
<1> DEFINE size == [k \in rings |-> ring[k].size]
<1>1. \A k \in rings : size[k] \in Nat
  BY DEF StateOK
<1> HIDE DEF size
<1>2. SumOf(size, rings) \in Nat
  BY <1>1, RingsFinite, SumNat
<1> QED BY <1>2 DEF RingBytes, size

\* A new ring adds its own.
LEMMA BytesAdded ==
    ASSUME StateOK, NEW k \in Keys, k \notin rings, NEW now, now[k].size \in Nat,
           \A j \in rings : now[j].size = ring[j].size
    PROVE  SumOf([j \in rings \cup {k} |-> now[j].size], rings \cup {k})
              = RingBytes + now[k].size
<1> DEFINE size == [j \in rings |-> ring[j].size]
           more == [j \in rings \cup {k} |-> now[j].size]
<1>1. \A j \in rings : size[j] \in Nat /\ more[j] = size[j]
  BY DEF StateOK
<1>2. more[k] = now[k].size
  OBVIOUS
<1> HIDE DEF size, more
<1>3. SumOf(more, rings \cup {k}) = more[k] + SumOf(more, rings)
  BY <1>1, <1>2, RingsFinite, SumAdd
<1>4. SumOf(more, rings) = SumOf(size, rings)
  BY <1>1, RingsFinite, SumEqual
<1>5. SumOf(size, rings) = RingBytes /\ RingBytes \in Nat
  BY BytesType DEF RingBytes, size
<1> QED BY <1>2, <1>3, <1>4, <1>5 DEF more

\* A ring that goes takes its own.
LEMMA BytesRemoved ==
    ASSUME StateOK, NEW k \in rings, NEW now,
           \A j \in rings \ {k} : now[j].size = ring[j].size
    PROVE  SumOf([j \in rings \ {k} |-> now[j].size], rings \ {k}) = RingBytes - ring[k].size
<1> DEFINE size == [j \in rings |-> ring[j].size]
           less == [j \in rings \ {k} |-> now[j].size]
<1>1. /\ \A j \in rings : size[j] \in Int
      /\ \A j \in rings \ {k} : less[j] = size[j]
      /\ size[k] = ring[k].size
  BY DEF StateOK
<1>2. IsFiniteSet(rings \ {k})
  BY RingsFinite, FS_Subset
<1> HIDE DEF size, less
<1>3. SumOf(size, rings) = size[k] + SumOf(size, rings \ {k})
  BY <1>1, RingsFinite, SumRemove
<1>4. SumOf(less, rings \ {k}) = SumOf(size, rings \ {k})
  BY <1>1, <1>2, SumEqual
<1>5. SumOf(size, rings \ {k}) \in Int
  BY <1>1, <1>2, SumType
<1>6. SumOf(size, rings) = RingBytes
  BY DEF RingBytes, size
<1> QED BY <1>1, <1>3, <1>4, <1>5, <1>6 DEF less

\* As long as the sizes stay, the sum does.
LEMMA BytesKept ==
    ASSUME StateOK, NEW now, \A k \in rings : now[k].size = ring[k].size
    PROVE  SumOf([k \in rings |-> now[k].size], rings) = RingBytes
  BY DEF RingBytes

-------------------------------------------------------------------------------
(* The inductive invariant *)

\* An empty map satisfies the invariant.
LEMMA InvInit == Init => IInv
<1> SUFFICES ASSUME Init PROVE IInv
  OBVIOUS
<1>1. StateOK
  BY DEF Init, StateOK, NoRing
<1>2. RingBytes = 0
  BY SumEmpty DEF Init, RingBytes
<1>3. TypeOK /\ CapsHold
  BY <1>1, <1>2, FS_EmptySet DEF Init, TypeOK, CapsHold, StreamCapHolds
<1> QED BY <1>3, FS_EmptySet DEF Init, IInv, CountBalanced, TsInfoPaired, RingShape, CursorShape

\* add() counts the ring it makes, within both caps.
LEMMA AddStep ==
    ASSUME IInv, NEW k \in Keys, NEW n \in Sizes, Add(k, n)
    PROVE  IInv'
<1> USE DEF IInv, TypeOK, Add, readers
<1>1. StateOK'
  BY DEF StateOK
<1>2. Cardinality(rings') = Cardinality(rings) + 1 /\ Cardinality(rings) \in Nat
  BY FS_AddElement, RingsFinite
<1>7. RingBytes' = RingBytes + n /\ RingBytes \in Nat
  <2>1. /\ k \notin rings /\ n \in Nat
        /\ \A j \in rings : ring'[j].size = ring[j].size
        /\ ring'[k].size = n
    BY DEF StateOK
  <2>2. RingBytes' = SumOf([j \in rings \cup {k} |-> ring'[j].size], rings \cup {k})
    BY DEF RingBytes
  <2>3. SumOf([j \in rings \cup {k} |-> ring'[j].size], rings \cup {k})
           = RingBytes + ring'[k].size
    BY <2>1, BytesAdded
  <2> QED BY <2>1, <2>2, <2>3, BytesType
<1>8. TypeOK'
  BY <1>1, <1>7
<1>3. CountBalanced' /\ CapsHold'
  BY <1>2, <1>7 DEF CountBalanced, CapsHold, StreamCapHolds, StreamCapReached, MemoryCapExceeded
<1>4. TsInfoPaired'
  BY DEF TsInfoPaired
<1>5. RingShape'
  BY DEF RingShape, StateOK
<1>6. CursorShape'
  BY DEF CursorShape, Ring, StateOK
<1> QED BY <1>3, <1>4, <1>5, <1>6, <1>8

\* remove() takes off what the ring was counted with.
LEMMA RemoveStep ==
    ASSUME IInv, NEW k \in Keys, Remove(k)
    PROVE  IInv'
<1> USE DEF IInv, TypeOK, Remove, Orphan
<1>0. k \in rings
  BY DEF TsInfoPaired
<1>1. StateOK'
  BY DEF StateOK, NoRing
<1>2. Cardinality(rings') = Cardinality(rings) - 1 /\ Cardinality(rings) \in Nat
  BY <1>0, FS_RemoveElement, RingsFinite
<1>7. /\ RingBytes' = RingBytes - ring[k].size
      /\ RingBytes \in Nat /\ ring[k].size \in Nat
  <2>1. \A j \in rings \ {k} : ring'[j].size = ring[j].size
    BY DEF StateOK
  <2>2. RingBytes' = SumOf([j \in rings \ {k} |-> ring'[j].size], rings \ {k})
    BY DEF RingBytes
  <2>3. SumOf([j \in rings \ {k} |-> ring'[j].size], rings \ {k}) = RingBytes - ring[k].size
    BY <1>0, <2>1, BytesRemoved
  <2> QED BY <2>2, <2>3, BytesType DEF StateOK
<1>8. TypeOK'
  BY <1>1, <1>7
<1>3. CountBalanced' /\ CapsHold'
  BY <1>0, <1>2, <1>7 DEF CountBalanced, CapsHold, StreamCapHolds
<1>4. TsInfoPaired'
  BY DEF TsInfoPaired
<1>5. RingShape'
  BY DEF RingShape, StateOK
<1>6. CursorShape'
  BY DEF CursorShape, Ring, StateOK
<1> QED BY <1>3, <1>4, <1>5, <1>6, <1>8

\* clear() takes off everything.
LEMMA ClearStep ==
    ASSUME IInv, Clear
    PROVE  IInv'
<1> USE DEF IInv, TypeOK, Clear, Orphan
<1>1. TypeOK'
  <2>1. StateOK'
    BY RingsFinite DEF StateOK, NoRing
  <2>2. RingBytes' = 0 /\ RingBytes \in Nat
    BY SumEmpty, BytesType DEF RingBytes
  <2> QED BY <2>1, <2>2
<1>2. CountBalanced' /\ CapsHold'
  BY RingsFinite, FS_EmptySet, SumEmpty DEF CountBalanced, CapsHold, StreamCapHolds, RingBytes
<1>3. TsInfoPaired' /\ RingShape'
  BY DEF TsInfoPaired, RingShape
<1>4. CursorShape'
  BY DEF CursorShape, StateOK
<1> QED BY <1>1, <1>2, <1>3, <1>4

\* put() moves a write position and its count together.
LEMMA PutStep ==
    ASSUME IInv, NEW k \in Keys, NEW len \in Lens, Put(k, len)
    PROVE  IInv'
<1> USE DEF IInv, TypeOK, Put, readers, budget
<1>1. /\ ring[k].size \in Nat \ {0} /\ ring[k].pos \in 0..(ring[k].size - 1) /\ ring[k].count \in Nat
      /\ ring[k].count < ring[k].size => ring[k].pos = ring[k].count
      /\ len \in Nat \ {0} /\ len <= ring[k].size
  BY DEF StateOK, RingShape
<1>2. /\ ring'[k].size = ring[k].size
      /\ ring'[k].pos \in 0..(ring[k].size - 1)
      /\ ring'[k].count = ring[k].count + len
      /\ ring'[k].count < ring[k].size => ring'[k].pos = ring[k].pos + len
      /\ \A j \in Keys \ {k} : ring'[j] = ring[j]
  BY <1>1 DEF StateOK
<1>3. StateOK'
  BY <1>1 DEF StateOK
<1>7. RingBytes' = RingBytes
  <2>1. \A j \in rings : ring'[j].size = ring[j].size
    BY <1>2 DEF StateOK
  <2> QED BY <2>1, BytesKept DEF RingBytes
<1>4. TypeOK' /\ CountBalanced' /\ CapsHold' /\ TsInfoPaired'
  BY <1>3, <1>7 DEF CountBalanced, CapsHold, StreamCapHolds, TsInfoPaired
<1>5. RingShape'
  BY <1>1, <1>2 DEF RingShape, StateOK
<1>6. CursorShape'
  BY <1>1, <1>2 DEF CursorShape, Ring, StateOK
<1> QED BY <1>4, <1>5, <1>6

\* A cursor that is set anew is on its key's ring, at the write position.
LEMMA FreshStep ==
    ASSUME IInv, NEW v \in Viewers, Anchor(v) \/ Overrun(v)
    PROVE  IInv'
<1> USE DEF IInv, TypeOK, Anchor, Overrun, Fresh, budget
<1>1. StateOK'
  <2>1. Fresh(v) \in [first : BOOLEAN, pos : Int, count : Int]
    BY DEF StateOK, Ring
  <2>2. cursor' \in [Viewers -> [first : BOOLEAN, pos : Int, count : Int]]
    BY <2>1 DEF StateOK
  <2>3. same' \in [Viewers -> BOOLEAN]
    BY DEF StateOK
  <2> QED BY <2>2, <2>3 DEF StateOK
<1>2. TypeOK' /\ CountBalanced' /\ CapsHold' /\ TsInfoPaired'
  BY <1>1 DEF CountBalanced, CapsHold, StreamCapHolds, TsInfoPaired, RingBytes
<1>3. RingShape'
  BY DEF RingShape
<1>4. CursorShape'
  BY DEF CursorShape, RingShape, Ring, StateOK
<1> QED BY <1>2, <1>3, <1>4

\* A read leaves the cursor in its ring and no further than the writer.
LEMMA ReadStep ==
    ASSUME IInv, NEW v \in Viewers, Read(v)
    PROVE  IInv'
<1> USE DEF IInv, TypeOK, budget
<1>1. StateOK'
  <2>1. CopyLen(v) \in Int /\ NextPos(v) \in Int /\ Ring(v).size \in Nat /\ Ring(v).count \in Nat
    BY ReadTypes DEF StateOK, Ring
  <2> QED BY <2>1 DEF StateOK, Read
<1>2. TypeOK' /\ CountBalanced' /\ CapsHold' /\ TsInfoPaired' /\ RingShape'
  BY <1>1 DEF CountBalanced, CapsHold, StreamCapHolds, TsInfoPaired, RingShape, RingBytes, Read
<1>3. CursorShape'
  <2>1. SUFFICES ASSUME NEW u \in Viewers, same[u]
                 PROVE  /\ KeyOf[u] \in rings
                        /\ ~cursor'[u].first
                        /\ cursor'[u].pos \in 0..(Ring(u).size - 1)
                        /\ cursor'[u].count <= Ring(u).count
                        /\ Ring(u).count < Ring(u).size => cursor'[u].pos <= Ring(u).pos
                        /\ Ring(u).count < Ring(u).size /\ cursor'[u].pos = Ring(u).pos
                              => cursor'[u].count = Ring(u).count
    BY DEF CursorShape, Ring, Read
  <2>2. CASE u # v
    BY <2>1, <2>2 DEF CursorShape, Read, StateOK
  <2>3. CASE u = v
    <3>1. /\ KeyOf[v] \in rings
          /\ Ring(v).size \in Nat \ {0} /\ Ring(v).pos \in Nat /\ Ring(v).count \in Nat
      BY <2>1, <2>3 DEF CursorShape, RingShape, StateOK, Ring
    <3>2. /\ NextPos(v) \in 0..Ring(v).size
          /\ Ring(v).count < Ring(v).size => NextPos(v) <= Ring(v).pos
      BY <2>1, <2>3, OwnRead
    <3>3. cursor'[v] = [first |-> FALSE,
                        pos |-> IF NextPos(v) >= Ring(v).size THEN 0 ELSE NextPos(v),
                        count |-> Ring(v).count]
      BY DEF Read, StateOK
    <3> QED BY <2>3, <3>1, <3>2, <3>3
  <2> QED BY <2>2, <2>3
<1> QED BY <1>2, <1>3

\* Every step keeps the invariant.
LEMMA InvStep == IInv /\ [Next]_vars => IInv'
<1> SUFFICES ASSUME IInv, [Next]_vars PROVE IInv'
  OBVIOUS
<1>1. CASE \E k \in Keys, n \in Sizes : Add(k, n)
  BY <1>1, AddStep
<1>2. CASE \E k \in Keys : Remove(k)
  BY <1>2, RemoveStep
<1>3. CASE \E k \in Keys, len \in Lens : Put(k, len)
  BY <1>3, PutStep
<1>4. CASE Clear
  BY <1>4, ClearStep
<1>5. CASE \E v \in Viewers : Anchor(v) \/ Overrun(v)
  BY <1>5, FreshStep
<1>6. CASE \E v \in Viewers : Read(v)
  BY <1>6, ReadStep
<1>7. CASE UNCHANGED vars
  BY <1>7 DEF vars, budget, readers, IInv, TypeOK, StateOK, CountBalanced, CapsHold, StreamCapHolds,
              TsInfoPaired, RingShape, CursorShape, Ring, RingBytes
<1> QED BY <1>1, <1>2, <1>3, <1>4, <1>5, <1>6, <1>7 DEF Next

-------------------------------------------------------------------------------
(* Theorems *)

\* The inductive invariant holds in every reachable state of CSLSMapData.
THEOREM Invariance == Spec => []IInv
  BY InvInit, InvStep, PTL DEF Spec

\* Every variable keeps its type, and m_total_ring_bytes is the bytes of the
\* rings, through any add(), remove(), clear().
THEOREM BytesCounted == Spec => []TypeOK
<1>1. IInv => TypeOK
  BY DEF IInv
<1> QED BY <1>1, Invariance, PTL

\* m_stream_count is the number of rings, through any add(), remove(), clear().
THEOREM StreamsCounted == Spec => []CountBalanced
<1>1. IInv => CountBalanced
  BY DEF IInv
<1> QED BY <1>1, Invariance, PTL

\* The two caps of add() bound the rings and the bytes really allocated.
THEOREM Capped == Spec => []CapsHold
<1>1. IInv => CapsHold
  BY DEF IInv
<1> QED BY <1>1, Invariance, PTL

\* A key has a ts_info exactly while it has a ring: put() finds both.
THEOREM RingsHaveTsInfo == Spec => []TsInfoPaired
<1>1. IInv => TsInfoPaired
  BY DEF IInv
<1> QED BY <1>1, Invariance, PTL

\* A get() by a viewer whose cursor was set on the ring it reads stays inside
\* the ring and copies only cells that put() has written.
THEOREM OwnRingReads == Spec => OwnRingSound
<1>1. IInv => \A v \in Viewers : same[v] /\ Read(v) =>
         CopyLen(v) >= 0 /\ NextPos(v) \in 0..Ring(v).size /\ (CopyLen(v) > 0 => Written(v))
  <2> SUFFICES ASSUME IInv, NEW v \in Viewers, same[v], Read(v)
               PROVE  CopyLen(v) >= 0 /\ NextPos(v) \in 0..Ring(v).size /\ (CopyLen(v) > 0 => Written(v))
    OBVIOUS
  <2>1. Ready(v) \in Int
    BY ReadTypes DEF IInv, TypeOK
  <2> QED BY <2>1, OwnRead
<1> QED BY <1>1, Invariance, PTL DEF OwnRingSound
===============================================================================
