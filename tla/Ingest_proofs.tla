----------------------------- MODULE Ingest_proofs -----------------------------
(***************************************************************************)
(* Proofs about Ingest, for every limit, window and timeout.  The session  *)
(* and its webhook follow from GateShape.  The limiter needs what its      *)
(* window holds: a sum over the packets, of which a cleanup drops a prefix *)
(* (first section), and how that sum stands to the real rate: within the   *)
(* limit right after a cleanup if the publisher is (KeptLoad, HonestWithin)*)
(* and over it when a streak fills the window (StreakLoad, StreakExceeds). *)
(***************************************************************************)
EXTENDS Ingest, Tallies_proofs

-------------------------------------------------------------------------------
(* The limiter's window                                                      *)

\* A number of units goes into a sum as often as it does.
LEMMA DivAtMost ==
    ASSUME NEW d \in Nat, d > 0, NEW c \in Nat, NEW a \in Nat, a <= c * d
    PROVE  a \div d <= c
  BY SMTT(30)

\* A total more than c times the span exceeds c when divided by it.
LEMMA DivAtLeast ==
    ASSUME NEW d \in Nat, d > 0, NEW c \in Nat, NEW a \in Nat, (c + 1) * d <= a
    PROVE  a \div d > c
  BY SMTT(30)

\* What the packets of a window are, and their ages.
LEMMA PacketIs ==
    ASSUME NEW w \in Seq(Packets)
    PROVE  /\ Ages(w) \in Seq(Int) /\ Len(Ages(w)) = Len(w) /\ DOMAIN Ages(w) = 1 .. Len(w)
           /\ \A i \in 1 .. Len(w) : /\ Ages(w)[i] = w[i][1]
                                     /\ w[i][1] \in 0 .. Window + 1
                                     /\ w[i][2] \in 1 .. MaxPacket
<1>1. \A i \in 1 .. Len(w) : w[i] \in Packets
  OBVIOUS
<1>2. \A i \in 1 .. Len(w) : w[i][1] \in 0 .. Window + 1 /\ w[i][2] \in 1 .. MaxPacket
  BY <1>1 DEF Packets
<1>3. DOMAIN w = 1 .. Len(w) /\ Len(w) \in Nat
  OBVIOUS
<1>4. \A i \in 1 .. Len(w) : Ages(w)[i] = w[i][1]
  BY <1>3 DEF Ages
<1>5. Ages(w) = [i \in 1 .. Len(w) |-> w[i][1]]
  BY <1>3 DEF Ages
<1>6. \A i \in 1 .. Len(w) : w[i][1] \in Int
  BY <1>2, BitrateAssumption
<1>7. [i \in 1 .. Len(w) |-> w[i][1]] \in Seq(Int)
  BY <1>3, <1>6
<1>8. Ages(w) \in Seq(Int) /\ DOMAIN Ages(w) = 1 .. Len(w)
  BY <1>5, <1>7
<1>9. Len(Ages(w)) = Len(w)
  BY <1>3, <1>8
<1> QED BY <1>2, <1>4, <1>8, <1>9

\* The terms of a window's sums.
LEMMA TermIs ==
    ASSUME NEW w \in Seq(Packets)
    PROVE  /\ DOMAIN w = 1 .. Len(w)
           /\ IsFiniteSet(1 .. Len(w))
           /\ \A i \in 1 .. Len(w) : [j \in DOMAIN w |-> w[j][2]][i] = w[i][2] /\ w[i][2] \in Nat
<1>1. DOMAIN w = 1 .. Len(w) /\ Len(w) \in Nat
  OBVIOUS
<1>2. IsFiniteSet(1 .. Len(w))
  BY <1>1, FS_Interval
<1>3. \A i \in 1 .. Len(w) : w[i][2] \in Nat
  BY PacketIs
<1> QED BY <1>1, <1>2, <1>3

\* Bytes are counted in naturals.
LEMMA LoadType ==
    ASSUME NEW w \in Seq(Packets), NEW S \in SUBSET (1 .. Len(w))
    PROVE  Load(w, S) \in Nat
<1> DEFINE f == [j \in DOMAIN w |-> w[j][2]]
<1>1. IsFiniteSet(S) /\ \A i \in S : f[i] \in Nat
  BY TermIs, FS_Subset
<1> HIDE DEF f
<1>2. SumOf(f, S) \in Nat
  BY <1>1, SumNat
<1> QED BY <1>2 DEF Load, f

\* A part of a window is no more than the whole.
LEMMA LoadPart ==
    ASSUME NEW w \in Seq(Packets), NEW S \in SUBSET (1 .. Len(w))
    PROVE  Load(w, S) <= Bytes(w)
<1> DEFINE f == [j \in DOMAIN w |-> w[j][2]]
<1>1. IsFiniteSet(1 .. Len(w)) /\ \A i \in 1 .. Len(w) : f[i] \in Nat
  BY TermIs
<1> HIDE DEF f
<1>2. SumOf(f, S) <= SumOf(f, 1 .. Len(w))
  BY <1>1, SumSubset
<1> QED BY <1>2, TermIs DEF Load, Bytes, f

\* One more packet.
LEMMA LoadMore ==
    ASSUME NEW w \in Seq(Packets), NEW S \in SUBSET (1 .. Len(w)),
           NEW i \in 1 .. Len(w), i \notin S
    PROVE  Load(w, S \cup {i}) = w[i][2] + Load(w, S)
<1> DEFINE f == [j \in DOMAIN w |-> w[j][2]]
<1>1. IsFiniteSet(S) /\ \A j \in S \cup {i} : f[j] \in Int
  <2>1. IsFiniteSet(1 .. Len(w)) /\ \A j \in 1 .. Len(w) : f[j] \in Nat
    BY TermIs
  <2> HIDE DEF f
  <2>2. IsFiniteSet(S)
    BY <2>1, FS_Subset
  <2>3. S \cup {i} \subseteq 1 .. Len(w)
    OBVIOUS
  <2> QED BY <2>1, <2>2, <2>3
<1>2. f[i] = w[i][2]
  BY TermIs
<1> HIDE DEF f
<1>3. SumOf(f, S \cup {i}) = f[i] + SumOf(f, S)
  BY <1>1, SumAdd
<1> QED BY <1>2, <1>3 DEF Load, f

\* Windows with the same bytes have the same sums.
LEMMA LoadSame ==
    ASSUME NEW w \in Seq(Packets), NEW v \in Seq(Packets), NEW S \in SUBSET (1 .. Len(w)),
           S \subseteq 1 .. Len(v), \A i \in S : v[i][2] = w[i][2]
    PROVE  Load(v, S) = Load(w, S)
<1> DEFINE f == [j \in DOMAIN w |-> w[j][2]]
           g == [j \in DOMAIN v |-> v[j][2]]
<1>1. IsFiniteSet(S) /\ \A i \in S : g[i] = f[i]
  BY TermIs, FS_Subset
<1> HIDE DEF f, g
<1>2. SumOf(g, S) = SumOf(f, S)
  BY <1>1, SumEqual
<1> QED BY <1>2 DEF Load, f, g

\* A packet that is pushed adds its bytes.
LEMMA BytesPushed ==
    ASSUME NEW w \in Seq(Packets), NEW p \in Packets
    PROVE  Bytes(Append(w, p)) = Bytes(w) + p[2]
<1> DEFINE v == Append(w, p)
           n == Len(w)
<1>1. /\ v \in Seq(Packets) /\ n \in Nat /\ Len(v) = n + 1
      /\ v[n + 1] = p /\ \A i \in 1 .. n : v[i] = w[i]
  OBVIOUS
<1>2. 1 .. n \in SUBSET (1 .. Len(v)) /\ n + 1 \in 1 .. Len(v) /\ n + 1 \notin 1 .. n
      /\ (1 .. n) \cup {n + 1} = 1 .. Len(v)
  BY <1>1
<1> HIDE DEF v
<1>3. Load(v, (1 .. n) \cup {n + 1}) = v[n + 1][2] + Load(v, 1 .. n)
  BY <1>1, <1>2, LoadMore
<1>4. Load(v, 1 .. n) = Load(w, 1 .. n)
  BY <1>1, <1>2, LoadSame
<1>5. Load(w, 1 .. n) \in Nat /\ p[2] \in Nat
  <2>1. 1 .. n \in SUBSET (1 .. Len(w))
    OBVIOUS
  <2>2. p[2] \in Nat
    BY DEF Packets
  <2> QED BY <2>1, <2>2, LoadType
<1>6. DOMAIN v = 1 .. Len(v) /\ DOMAIN w = 1 .. n
  BY <1>1
<1>7. Load(v, DOMAIN v) = Load(w, DOMAIN w) + p[2]
  <2>1. DOMAIN v = (1 .. n) \cup {n + 1}
    BY <1>2, <1>6, Zenon
  <2>2. Load(v, DOMAIN v) = v[n + 1][2] + Load(v, 1 .. n)
    BY <1>3, <2>1, Zenon
  <2>3. v[n + 1][2] = p[2] /\ Load(v, 1 .. n) = Load(w, DOMAIN w)
    BY <1>1, <1>4, <1>6, Zenon
  <2>4. Load(w, DOMAIN w) \in Nat
    BY <1>5, <1>6, Zenon
  <2> HIDE DEF n
  <2> QED BY <1>5, <2>2, <2>3, <2>4
<1> QED BY <1>7 DEF Bytes, v

\* How many packets a cleanup pops, and what is left.
LEMMA ExpiredIs ==
    ASSUME NEW w \in Seq(Packets)
    PROVE  /\ Expired(w) \in 0 .. Len(w)
           /\ \A i \in 1 .. Expired(w) : w[i][1] > Window
           /\ Expired(w) < Len(w) => w[Expired(w) + 1][1] <= Window
           /\ Kept(w) \in Seq(Packets)
           /\ Len(Kept(w)) = Len(w) - Expired(w)
           /\ \A i \in 1 .. Len(Kept(w)) : Kept(w)[i] = w[Expired(w) + i]
<1> DEFINE n == Expired(w)
<1>1. Window \in Int /\ Ages(w) \in Seq(Int) /\ Len(Ages(w)) = Len(w)
      /\ \A i \in 1 .. Len(w) : Ages(w)[i] = w[i][1]
  BY PacketIs, BitrateAssumption
<1>2. /\ n \in 0 .. Len(w)
      /\ \A i \in 1 .. n : Ages(w)[i] > Window
      /\ n < Len(w) => Ages(w)[n + 1] <= Window
  BY <1>1, StaleIs DEF Expired
<1>3. /\ Kept(w) \in Seq(Packets)
      /\ Len(Kept(w)) = Len(w) - n
      /\ \A i \in 1 .. Len(w) - n : Kept(w)[i] = w[n + i]
  BY <1>2, DropFirstIs DEF Kept
<1> HIDE DEF n
<1>4. \A i \in 1 .. n : w[i][1] > Window
  BY <1>1, <1>2
<1>5. n < Len(w) => w[n + 1][1] <= Window
  BY <1>1, <1>2
<1> QED BY <1>2, <1>3, <1>4, <1>5 DEF n

\* The sums over what is left, in the numbers the packets had.
LEMMA KeptLoad ==
    ASSUME NEW w \in Seq(Packets), NEW S \in SUBSET (Expired(w) + 1 .. Len(w))
    PROVE  Load(Kept(w), {i - Expired(w) : i \in S}) = Load(w, S)
<1> DEFINE n == Expired(w)
           v == Kept(w)
           f == [j \in DOMAIN w |-> w[j][2]]
           g == [j \in DOMAIN v |-> v[j][2]]
<1>1. /\ n \in 0 .. Len(w) /\ v \in Seq(Packets) /\ Len(v) = Len(w) - n
      /\ \A i \in 1 .. Len(v) : v[i] = w[n + i]
  BY ExpiredIs
<1> HIDE DEF n, v
<1>2. \A i \in S : i \in 1 .. Len(w) /\ i - n \in 1 .. Len(v) /\ i \in Int
  BY <1>1 DEF n
<1>3. \A i \in S : v[i - n] = w[i]
  BY <1>1, <1>2
<1>4. \A i \in S : f[i] \in Int /\ g[i - n] = f[i]
  <2>1. /\ \A i \in 1 .. Len(w) : f[i] = w[i][2] /\ w[i][2] \in Nat
        /\ \A i \in 1 .. Len(v) : g[i] = v[i][2]
    BY <1>1, TermIs
  <2> HIDE DEF f, g
  <2> QED BY <1>2, <1>3, <2>1
<1>5. IsFiniteSet(S) /\ S \in SUBSET Int /\ n \in Nat
  <2>1. S \subseteq 1 .. Len(w) /\ IsFiniteSet(1 .. Len(w))
    BY <1>2, TermIs
  <2>2. IsFiniteSet(S)
    BY <2>1, FS_Subset
  <2>3. S \in SUBSET Int /\ n \in Nat
    BY <1>1, <1>2
  <2> QED BY <2>2, <2>3
<1> HIDE DEF f, g
<1>6. SumOf(g, Down(S, n)) = SumOf(f, S)
  BY ONLY <1>4, <1>5, SumShift
<1> QED BY <1>6 DEF Load, Down, f, g, n, v

\* A cleanup takes the bytes of what it pops off the sum.
LEMMA KeptBytes ==
    ASSUME NEW w \in Seq(Packets)
    PROVE  Bytes(Kept(w)) = Bytes(w) - Dropped(w)
<1> DEFINE n == Expired(w)
           S == 1 .. n
           T == n + 1 .. Len(w)
           f == [j \in DOMAIN w |-> w[j][2]]
<1>1. n \in 0 .. Len(w) /\ Len(Kept(w)) = Len(w) - n /\ Kept(w) \in Seq(Packets)
  BY ExpiredIs
<1> HIDE DEF n
<1>2. /\ S \cup T = 1 .. Len(w) /\ S \cap T = {}
      /\ S \subseteq 1 .. Len(w) /\ T \subseteq 1 .. Len(w)
      /\ {i - n : i \in T} = 1 .. Len(w) - n
  <2>1. \A i \in 1 .. Len(w) - n : i + n \in T /\ (i + n) - n = i
    BY <1>1
  <2>2. \A i \in T : i - n \in 1 .. Len(w) - n
    BY <1>1
  <2>3. {i - n : i \in T} = 1 .. Len(w) - n
    <3> HIDE DEF T
    <3>1. \A j \in 1 .. Len(w) - n : \E i \in T : j = i - n
      BY <2>1
    <3> QED BY <2>2, <3>1
  <2> QED BY <1>1, <2>3
<1>3. Load(Kept(w), 1 .. Len(Kept(w))) = Load(w, T)
  BY <1>1, <1>2, KeptLoad DEF n
<1>4. IsFiniteSet(S) /\ IsFiniteSet(T) /\ \A i \in S \cup T : f[i] \in Int
  <2>1. IsFiniteSet(1 .. Len(w)) /\ \A i \in 1 .. Len(w) : f[i] \in Nat
    BY TermIs
  <2> HIDE DEF f, S, T
  <2>2. IsFiniteSet(S) /\ IsFiniteSet(T)
    BY <1>2, <2>1, FS_Subset
  <2> QED BY <1>2, <2>1, <2>2
<1>5. SumOf(f, S \cup T) = SumOf(f, S) + SumOf(f, T)
  <2> HIDE DEF f, S, T
  <2> QED BY <1>2, <1>4, SumUnion
<1>6. Load(w, 1 .. Len(w)) = Load(w, S) + Load(w, T)
  BY <1>2, <1>5 DEF Load
<1>7. Load(w, S) \in Nat /\ Load(w, T) \in Nat
  BY <1>2, LoadType
<1>8. DOMAIN w = 1 .. Len(w) /\ DOMAIN Kept(w) = 1 .. Len(Kept(w))
  BY <1>1
<1> HIDE DEF T
<1> QED BY <1>3, <1>6, <1>7, <1>8 DEF Bytes, Dropped, n

\* Nor does a cleanup change the sum over a span it keeps.
LEMMA KeptSpan ==
    ASSUME NEW w \in Seq(Packets), NEW span \in 0 .. Window
    PROVE  Load(Kept(w), {i \in DOMAIN Kept(w) : Kept(w)[i][1] <= span})
              = Load(w, {i \in DOMAIN w : w[i][1] <= span})
<1> DEFINE n == Expired(w)
           v == Kept(w)
           S == {i \in DOMAIN w : w[i][1] <= span}
           T == {i \in DOMAIN v : v[i][1] <= span}
<1>1. /\ n \in 0 .. Len(w) /\ v \in Seq(Packets) /\ Len(v) = Len(w) - n
      /\ \A i \in 1 .. Len(v) : v[i] = w[n + i]
      /\ \A i \in 1 .. n : w[i][1] > Window
      /\ DOMAIN w = 1 .. Len(w) /\ DOMAIN v = 1 .. Len(v)
  <2>1. v \in Seq(Packets)
    BY ExpiredIs
  <2> HIDE DEF v
  <2>2. DOMAIN w = 1 .. Len(w) /\ DOMAIN v = 1 .. Len(v)
    BY <2>1
  <2> QED BY <2>2, ExpiredIs DEF v
<1>2. \A i \in 1 .. Len(w) : w[i][1] \in Int
  BY PacketIs
<1>3. Window \in Nat
  BY BitrateAssumption
<1> HIDE DEF n, v
<1>4. \A i \in S : i \in n + 1 .. Len(w)
  <2> SUFFICES ASSUME NEW i \in 1 .. Len(w), w[i][1] <= span, i <= n
               PROVE  FALSE
    BY <1>1
  <2>1. i \in 1 .. n
    BY <1>1
  <2>2. w[i][1] > Window
    BY <1>1, <2>1
  <2> QED BY <1>2, <1>3, <2>2
<1>5. S \in SUBSET (n + 1 .. Len(w))
  BY <1>4
<1>6. T = {i - n : i \in S}
  <2>1. ASSUME NEW i \in T
        PROVE  \E j \in S : i = j - n
    <3>1. i \in 1 .. Len(v) /\ n + i \in 1 .. Len(w) /\ v[i] = w[n + i] /\ (n + i) - n = i
      BY <1>1
    <3>2. n + i \in S
      BY <1>1, <3>1
    <3> HIDE DEF S, T
    <3> QED BY <3>1, <3>2
  <2>2. ASSUME NEW j \in S
        PROVE  j - n \in T
    <3>1. j \in n + 1 .. Len(w)
      BY <1>4
    <3>2. j - n \in 1 .. Len(v) /\ n + (j - n) = j
      BY <1>1, <3>1
    <3>3. v[j - n] = w[j]
      BY <1>1, <3>2
    <3>4. w[j][1] <= span
      OBVIOUS
    <3>5. v[j - n][1] <= span
      BY <3>3, <3>4
    <3> QED BY <1>1, <3>2, <3>5
  <2> HIDE DEF S, T
  <2> QED BY <2>1, <2>2
<1> HIDE DEF S, T
<1>7. Load(v, T) = Load(w, S)
  BY <1>5, <1>6, KeptLoad DEF n, v
<1> QED BY <1>7 DEF S, T, v

\* The time a window is taken to span is one of the spans of the limit, and
\* after a cleanup all of its packets are within it.
LEMMA SpanIs ==
    ASSUME NEW w \in Seq(Packets), w # <<>>
    PROVE  /\ Span(w) \in MinWindow .. Window /\ Span(w) \in Nat /\ Span(w) > 0
           /\ OldestFirst(Ages(w)) /\ w[1][1] <= Window =>
                 \A i \in 1 .. Len(w) : w[i][1] <= Span(w)
<1>1. /\ Window \in Nat \ {0} /\ MinWindow \in Nat \ {0} /\ MinWindow <= Window
      /\ 1 \in 1 .. Len(w) /\ Len(w) \in Nat
  BY BitrateAssumption
<1>2. w[1][1] \in Nat
  BY <1>1, PacketIs
<1>3. Span(w) \in MinWindow .. Window /\ (w[1][1] <= Window => w[1][1] <= Span(w))
  BY <1>1, <1>2 DEF Span
<1>4. ASSUME OldestFirst(Ages(w)), NEW i \in 1 .. Len(w)
      PROVE  w[i][1] <= w[1][1]
  <2>1. DOMAIN Ages(w) = 1 .. Len(w) /\ Ages(w)[i] = w[i][1] /\ Ages(w)[1] = w[1][1]
        /\ w[i][1] \in Nat
    BY <1>1, PacketIs
  <2>2. Ages(w)[1] >= Ages(w)[i]
    BY <1>1, <1>4, <2>1 DEF OldestFirst
  <2> QED BY <1>2, <2>1, <2>2
<1>5. \A i \in 1 .. Len(w) : w[i][1] \in Nat
  BY PacketIs
<1> QED BY <1>1, <1>2, <1>3, <1>4, <1>5

\* A window that was cleaned up and keeps within the limit does not exceed it.
LEMMA HonestWithin ==
    ASSUME NEW w \in Seq(Packets), w # <<>>, OldestFirst(Ages(w)), w[1][1] <= Window,
           WithinLimit(w)
    PROVE  ~(Bytes(w) \div Span(w) > Spike)
<1> DEFINE s == Span(w)
           B == Bytes(w)
<1>1. s \in MinWindow .. Window /\ s \in Nat /\ s > 0 /\ \A i \in 1 .. Len(w) : w[i][1] <= s
  BY SpanIs
<1>2. DOMAIN w = 1 .. Len(w) /\ Spike \in Nat
  BY BitrateAssumption
<1> HIDE DEF s
<1>3. {i \in DOMAIN w : w[i][1] <= s} = DOMAIN w
  BY <1>1, <1>2
<1>4. Load(w, {i \in DOMAIN w : w[i][1] <= s}) <= Spike * s
  BY <1>1 DEF WithinLimit
<1>5. B <= Spike * s
  BY <1>3, <1>4 DEF Bytes
<1>6. B \in Nat
  BY <1>2, LoadType DEF Bytes
<1> HIDE DEF B
<1>7. B \div s <= Spike
  BY <1>1, <1>2, <1>5, <1>6, DivAtMost
<1>8. B \div s \in Int
  BY <1>1, <1>6
<1> QED BY <1>2, <1>7, <1>8 DEF B, s

\* The packets of w younger than n.
Young(w, n) == {i \in 1 .. Len(w) : w[i][1] < n}

\* Packets over the limit in so many of the last units hold that many times more.
LEMMA StreakLoad ==
    ASSUME NEW w \in Seq(Packets), NEW m \in Nat,
           \A n \in 0 .. m - 1 : \E i \in 1 .. Len(w) : w[i][1] = n /\ w[i][2] > Spike
    PROVE  m * (Spike + 1) <= Bytes(w)
<1> DEFINE F == {n \in Nat : n <= m => n * (Spike + 1) <= Load(w, Young(w, n))}
<1>1. Spike \in Nat
  BY BitrateAssumption
<1>2. \A i \in 1 .. Len(w) : w[i][1] \in Nat /\ w[i][2] \in Nat
  BY PacketIs
<1>3. \A n : Young(w, n) \in SUBSET (1 .. Len(w))
  BY DEF Young
<1>4. \A n \in Nat : Load(w, Young(w, n)) \in Nat
  BY <1>3, LoadType
<1>5. 0 \in F
  <2>1. 0 * (Spike + 1) = 0
    BY <1>1
  <2> QED BY <1>4, <2>1
<1>6. ASSUME NEW n \in Nat, n \in F
      PROVE  n + 1 \in F
  <2> SUFFICES ASSUME n + 1 <= m
               PROVE  (n + 1) * (Spike + 1) <= Load(w, Young(w, n + 1))
    OBVIOUS
  <2>1. PICK i \in 1 .. Len(w) : w[i][1] = n /\ w[i][2] > Spike
    <3>1. n \in 0 .. m - 1
      OBVIOUS
    <3> QED BY <3>1
  <2> DEFINE S == Young(w, n)
             T == S \cup {i}
  <2>2. i \notin S /\ S \in SUBSET (1 .. Len(w)) /\ T \subseteq Young(w, n + 1)
    BY <1>2, <1>3, <2>1 DEF Young
  <2>3. Load(w, T) = w[i][2] + Load(w, S)
    <3> HIDE DEF S
    <3> QED BY <2>2, LoadMore
  <2>4. Load(w, T) <= Load(w, Young(w, n + 1))
    <3> DEFINE f == [j \in DOMAIN w |-> w[j][2]]
               U == Young(w, n + 1)
    <3>1. U \in SUBSET (1 .. Len(w)) /\ T \in SUBSET U
      BY <1>3, <2>2
    <3>2. IsFiniteSet(1 .. Len(w)) /\ \A j \in 1 .. Len(w) : f[j] \in Nat
      BY TermIs
    <3> HIDE DEF f, T, U
    <3>3. IsFiniteSet(U) /\ \A j \in U : f[j] \in Nat
      BY <3>1, <3>2, FS_Subset
    <3>4. SumOf(f, T) <= SumOf(f, U)
      BY <3>1, <3>3, SumSubset
    <3> QED BY <3>4 DEF Load, f, U
  <2>5. n * (Spike + 1) <= Load(w, S)
    BY <1>6
  <2> DEFINE L == Load(w, S)
             M == Load(w, Young(w, n + 1))
  <2>6. L \in Nat /\ M \in Nat /\ w[i][2] \in Nat
    <3>1. Load(w, Young(w, n)) \in Nat /\ Load(w, Young(w, n + 1)) \in Nat
      <4>1. n \in Nat /\ n + 1 \in Nat
        OBVIOUS
      <4> QED BY <1>4, <4>1
    <3> QED BY <1>2, <3>1
  <2>7. w[i][2] + L <= M /\ n * (Spike + 1) <= L
    BY <2>3, <2>4, <2>5
  <2> DEFINE X == n * (Spike + 1)
             Y == (n + 1) * (Spike + 1)
  <2>8. Y = X + (Spike + 1) /\ X \in Nat /\ Y \in Nat
    BY <1>1
  <2>9. w[i][2] >= Spike + 1
    BY <1>1, <2>1, <2>6
  <2> HIDE DEF L, M, X, Y
  <2>10. Y <= M
    BY ONLY <1>1, <2>6, <2>7, <2>8, <2>9 DEF X
  <2> QED BY <2>10 DEF M, Y
<1> HIDE DEF F
<1>7. m \in F
  BY <1>5, <1>6, NatSet
<1>8. m * (Spike + 1) <= Load(w, Young(w, m)) /\ Young(w, m) \in SUBSET (1 .. Len(w))
  BY <1>3, <1>7 DEF F
<1>9. Load(w, Young(w, m)) <= Bytes(w)
  BY <1>8, LoadPart
<1>10. Load(w, Young(w, m)) \in Nat /\ Bytes(w) \in Nat /\ m * (Spike + 1) \in Nat
  <2>1. DOMAIN w = 1 .. Len(w)
    OBVIOUS
  <2>2. Load(w, 1 .. Len(w)) \in Nat
    BY LoadType
  <2> QED BY <1>1, <1>4, <2>1, <2>2 DEF Bytes
<1> QED BY <1>8, <1>9, <1>10

\* A streak that fills the window exceeds the limit.
LEMMA StreakExceeds ==
    ASSUME NEW w \in Seq(Packets), w # <<>>,
           \A n \in 0 .. Window - 1 : \E i \in 1 .. Len(w) : w[i][1] = n /\ w[i][2] > Spike
    PROVE  Bytes(w) \div Span(w) > Spike
<1> DEFINE s == Span(w)
           B == Bytes(w)
<1>1. Window \in Nat /\ MinWindow \in Nat /\ Spike \in Nat
  BY BitrateAssumption
<1>2. s \in Nat /\ s > 0 /\ s <= Window
  BY <1>1, SpanIs
<1>3. Window * (Spike + 1) <= B
  BY <1>1, StreakLoad
<1>4. B \in Nat
  <2>1. DOMAIN w = 1 .. Len(w)
    OBVIOUS
  <2>2. Load(w, 1 .. Len(w)) \in Nat
    BY LoadType
  <2> QED BY <2>1, <2>2 DEF Bytes
<1> HIDE DEF s, B
<1>5. (Spike + 1) * s <= Window * (Spike + 1)
  BY <1>1, <1>2
<1>6. (Spike + 1) * s <= B
  BY <1>1, <1>2, <1>3, <1>4, <1>5
<1>7. B \div s > Spike
  BY <1>1, <1>2, <1>4, <1>6, DivAtLeast
<1> QED BY <1>7 DEF s, B

-------------------------------------------------------------------------------
(* How the window changes                                                    *)

\* A packet of this unit is pushed.
LEMMA Pushed ==
    ASSUME NEW w \in Seq(Packets), OldestFirst(Ages(w)), NEW b \in 1 .. MaxPacket,
           NEW v, v = Append(w, <<0, b>>)
    PROVE  /\ v \in Seq(Packets) /\ v # <<>> /\ Len(v) = Len(w) + 1
           /\ v[Len(v)] = <<0, b>> /\ OldestFirst(Ages(v))
           /\ \A i \in 1 .. Len(w) : v[i] = w[i]
<1>1. <<0, b>> \in Packets
  BY BitrateAssumption DEF Packets
<1>2. /\ v \in Seq(Packets) /\ v # <<>> /\ Len(v) = Len(w) + 1 /\ Len(w) \in Nat
      /\ v[Len(v)] = <<0, b>>
      /\ \A i \in 1 .. Len(w) : v[i] = w[i]
  BY <1>1
<1>3. OldestFirst(Ages(v))
  <2> SUFFICES ASSUME NEW i \in DOMAIN Ages(v), NEW j \in DOMAIN Ages(v), i <= j
               PROVE  Ages(v)[i] >= Ages(v)[j]
    BY DEF OldestFirst
  <2>1. /\ i \in 1 .. Len(v) /\ j \in 1 .. Len(v)
        /\ Ages(v)[i] = v[i][1] /\ Ages(v)[j] = v[j][1]
        /\ v[i][1] \in Nat /\ v[j][1] \in Nat
    <3>1. /\ DOMAIN Ages(v) = 1 .. Len(v)
          /\ \A k \in 1 .. Len(v) : Ages(v)[k] = v[k][1] /\ v[k][1] \in 0 .. Window + 1
      BY <1>2, PacketIs
    <3>2. i \in 1 .. Len(v) /\ j \in 1 .. Len(v)
      BY <3>1
    <3>3. /\ Ages(v)[i] = v[i][1] /\ v[i][1] \in 0 .. Window + 1
          /\ Ages(v)[j] = v[j][1] /\ v[j][1] \in 0 .. Window + 1
      BY <3>1, <3>2
    <3>4. Window \in Nat
      BY BitrateAssumption
    <3>5. v[i][1] \in Nat /\ v[j][1] \in Nat
      BY ONLY <3>3, <3>4
    <3> QED BY <3>2, <3>3, <3>5
  <2>2. CASE j = Len(v)
    <3>1. v[j][1] = 0
      BY <1>2, <2>2
    <3> QED BY <2>1, <3>1
  <2>3. CASE j # Len(v)
    <3>1. i \in 1 .. Len(w) /\ j \in 1 .. Len(w)
      BY <1>2, <2>1, <2>3
    <3>2. DOMAIN Ages(w) = 1 .. Len(w) /\ Ages(w)[i] = w[i][1] /\ Ages(w)[j] = w[j][1]
      BY <3>1, PacketIs
    <3>3. Ages(w)[i] >= Ages(w)[j]
      BY <3>1, <3>2 DEF OldestFirst
    <3>4. v[i] = w[i] /\ v[j] = w[j]
      BY <1>2, <3>1
    <3> QED BY <2>1, <3>2, <3>3, <3>4
  <2> QED BY <2>2, <2>3
<1> QED BY <1>2, <1>3

\* A cleanup when the last packet is of this unit leaves what the limit looks at.
LEMMA CleanedUp ==
    ASSUME NEW w \in Seq(Packets), w # <<>>, OldestFirst(Ages(w)), w[Len(w)][1] = 0,
           NEW v, v = Kept(w)
    PROVE  /\ v \in Seq(Packets) /\ v # <<>> /\ v[Len(v)] = w[Len(w)]
           /\ OldestFirst(Ages(v)) /\ v[1][1] <= Window
           /\ \A i \in 1 .. Len(w) : w[i][1] <= Window => \E j \in 1 .. Len(v) : v[j] = w[i]
           /\ WithinLimit(w) => WithinLimit(v)
<1> DEFINE n == Expired(w)
<1>1. /\ n \in 0 .. Len(w) /\ Len(w) \in Nat /\ Len(w) \in 1 .. Len(w)
      /\ \A i \in 1 .. n : w[i][1] > Window
      /\ n < Len(w) => w[n + 1][1] <= Window
      /\ v \in Seq(Packets) /\ Len(v) = Len(w) - n
      /\ \A i \in 1 .. Len(v) : v[i] = w[n + i]
  <2>1. Len(w) \in Nat /\ Len(w) \in 1 .. Len(w)
    OBVIOUS
  <2> QED BY <2>1, ExpiredIs
<1>2. Window \in Nat /\ MinWindow \in Nat
  BY BitrateAssumption
<1>3. \A i \in 1 .. Len(w) : w[i][1] \in Nat
  BY PacketIs
<1> HIDE DEF n
<1>4. \A i \in 1 .. Len(w) : w[i][1] <= Window => i \in n + 1 .. Len(w)
  <2> SUFFICES ASSUME NEW i \in 1 .. Len(w), w[i][1] <= Window, i <= n
               PROVE  FALSE
    BY <1>1
  <2>1. i \in 1 .. n
    BY <1>1
  <2> QED BY <1>1, <1>2, <1>3, <2>1
<1>5. n < Len(w)
  BY <1>1, <1>2, <1>4
<1>6. 1 \in 1 .. Len(v) /\ Len(v) \in 1 .. Len(v) /\ n + Len(v) = Len(w) /\ v # <<>>
  BY <1>1, <1>5
<1>7. v[1] = w[n + 1] /\ v[Len(v)] = w[Len(w)]
  BY <1>1, <1>6
<1>8. v[1][1] <= Window
  BY <1>1, <1>5, <1>7
<1>9. \A i \in 1 .. Len(w) : w[i][1] <= Window => \E j \in 1 .. Len(v) : v[j] = w[i]
  <2> SUFFICES ASSUME NEW i \in n + 1 .. Len(w)
               PROVE  \E j \in 1 .. Len(v) : v[j] = w[i]
    BY <1>4
  <2>1. i - n \in 1 .. Len(v) /\ n + (i - n) = i
    BY <1>1
  <2> QED BY <1>1, <2>1
<1>10. OldestFirst(Ages(v))
  <2> SUFFICES ASSUME NEW i \in DOMAIN Ages(v), NEW j \in DOMAIN Ages(v), i <= j
               PROVE  Ages(v)[i] >= Ages(v)[j]
    BY DEF OldestFirst
  <2>1. /\ i \in 1 .. Len(v) /\ j \in 1 .. Len(v)
        /\ Ages(v)[i] = v[i][1] /\ Ages(v)[j] = v[j][1]
    BY <1>1, PacketIs
  <2>2. n + i \in 1 .. Len(w) /\ n + j \in 1 .. Len(w) /\ n + i <= n + j
    BY <1>1, <2>1
  <2>3. /\ DOMAIN Ages(w) = 1 .. Len(w)
        /\ Ages(w)[n + i] = w[n + i][1] /\ Ages(w)[n + j] = w[n + j][1]
    BY <2>2, PacketIs
  <2>4. Ages(w)[n + i] >= Ages(w)[n + j]
    BY <2>2, <2>3 DEF OldestFirst
  <2>5. v[i] = w[n + i] /\ v[j] = w[n + j]
    BY <1>1, <2>1
  <2> QED BY <2>1, <2>3, <2>4, <2>5
<1>11. ASSUME WithinLimit(w)
       PROVE  WithinLimit(v)
  <2> SUFFICES ASSUME NEW span \in MinWindow .. Window
               PROVE  Load(v, {i \in DOMAIN v : v[i][1] <= span}) <= Spike * span
    BY DEF WithinLimit
  <2>1. Load(w, {i \in DOMAIN w : w[i][1] <= span}) <= Spike * span
    BY <1>11 DEF WithinLimit
  <2>2. span \in 0 .. Window
    BY <1>2
  <2>3. Load(v, {i \in DOMAIN v : v[i][1] <= span}) = Load(w, {i \in DOMAIN w : w[i][1] <= span})
    BY <2>2, KeptSpan
  <2> QED BY <2>1, <2>3
<1> QED BY <1>1, <1>6, <1>7, <1>8, <1>9, <1>10, <1>11

\* A unit passes.
LEMMA Aged ==
    ASSUME NEW w \in Seq(Packets), OldestFirst(Ages(w)),
           NEW v, v = [i \in DOMAIN w |-> <<Until(w[i][1], Window + 1), w[i][2]>>]
    PROVE  /\ v \in Seq(Packets) /\ Len(v) = Len(w) /\ OldestFirst(Ages(v))
           /\ Bytes(v) = Bytes(w)
           /\ \A i \in 1 .. Len(w) : v[i] = <<Until(w[i][1], Window + 1), w[i][2]>>
<1>1. DOMAIN w = 1 .. Len(w) /\ Len(w) \in Nat /\ Window \in Nat
  BY BitrateAssumption
<1>2. \A i \in 1 .. Len(w) : w[i][1] \in 0 .. Window + 1 /\ w[i][2] \in 1 .. MaxPacket
  BY PacketIs
<1>3. \A i \in 1 .. Len(w) : Until(w[i][1], Window + 1) \in 0 .. Window + 1
  BY <1>1, <1>2 DEF Until
<1>4. v = [i \in 1 .. Len(w) |-> <<Until(w[i][1], Window + 1), w[i][2]>>]
  BY <1>1
<1>5. \A i \in 1 .. Len(w) : v[i] = <<Until(w[i][1], Window + 1), w[i][2]>> /\ v[i] \in Packets
  BY <1>2, <1>3, <1>4 DEF Packets
<1>6. v \in Seq(Packets)
  <2>1. v \in [1 .. Len(w) -> Packets]
    BY <1>4, <1>5
  <2> QED BY <1>1, <2>1
<1>7. Len(v) = Len(w)
  BY <1>1, <1>4
<1>8. OldestFirst(Ages(v))
  <2> SUFFICES ASSUME NEW i \in DOMAIN Ages(v), NEW j \in DOMAIN Ages(v), i <= j
               PROVE  Ages(v)[i] >= Ages(v)[j]
    BY DEF OldestFirst
  <2>1. /\ i \in 1 .. Len(w) /\ j \in 1 .. Len(w)
        /\ Ages(v)[i] = v[i][1] /\ Ages(v)[j] = v[j][1]
    BY <1>6, <1>7, PacketIs
  <2>2. DOMAIN Ages(w) = 1 .. Len(w) /\ Ages(w)[i] = w[i][1] /\ Ages(w)[j] = w[j][1]
    BY <2>1, PacketIs
  <2>3. w[i][1] >= w[j][1] /\ w[i][1] \in Nat /\ w[j][1] \in Nat
    BY <1>2, <2>1, <2>2 DEF OldestFirst
  <2>4. v[i][1] = Until(w[i][1], Window + 1) /\ v[j][1] = Until(w[j][1], Window + 1)
    BY <1>5, <2>1
  <2> QED BY <1>1, <1>2, <2>1, <2>3, <2>4 DEF Until
<1>9. Bytes(v) = Bytes(w)
  <2>1. DOMAIN v = 1 .. Len(w) /\ \A i \in 1 .. Len(w) : v[i][2] = w[i][2]
    BY <1>4, <1>5
  <2>2. 1 .. Len(w) \in SUBSET (1 .. Len(w)) /\ 1 .. Len(w) \subseteq 1 .. Len(v)
    BY <1>7
  <2>3. Load(v, 1 .. Len(w)) = Load(w, 1 .. Len(w))
    BY <1>6, <2>1, <2>2, LoadSame
  <2> QED BY <1>1, <2>1, <2>3 DEF Bytes
<1> QED BY <1>5, <1>6, <1>7, <1>8, <1>9

\* What a read leaves of the window, and what the limiter makes of it.
LEMMA ReadWindow ==
    ASSUME LimiterOK, OldestFirst(Ages(window)), NEW b \in 1 .. MaxPacket, CheckDataBitrate(b)
    PROVE  \E v \in Seq(Packets) :
           /\ window' = v /\ v # <<>> /\ v[Len(v)] = <<0, b>> /\ OldestFirst(Ages(v))
           /\ total' = Bytes(v)
           /\ \A i \in 1 .. Len(window) : window[i][1] <= Window =>
                 \E j \in 1 .. Len(v) : v[j] = window[i]
           /\ Violation(Bytes(v) \div Span(v) > Spike)
           /\ WithinLimit(Append(window, <<0, b>>)) /\ (cleaned > Gate \/ window = <<>>) =>
                 ~(Bytes(v) \div Span(v) > Spike)
<1> DEFINE w == Append(window, <<0, b>>)
<1>1. /\ window \in Seq(Packets) /\ total = Bytes(window) /\ cleaned \in Int /\ Gate \in Int
  BY BitrateAssumption DEF LimiterOK
<1>2. /\ w \in Seq(Packets) /\ w # <<>> /\ Len(w) = Len(window) + 1
      /\ w[Len(w)] = <<0, b>> /\ OldestFirst(Ages(w))
      /\ \A i \in 1 .. Len(window) : w[i] = window[i] /\ i \in 1 .. Len(w)
  <2>1. /\ w \in Seq(Packets) /\ w # <<>> /\ Len(w) = Len(window) + 1
        /\ w[Len(w)] = <<0, b>> /\ OldestFirst(Ages(w))
        /\ \A i \in 1 .. Len(window) : w[i] = window[i]
    <3>1. w = Append(window, <<0, b>>)
      OBVIOUS
    <3> HIDE DEF w
    <3> QED BY <1>1, <3>1, Pushed
  <2> QED BY <1>1, <2>1
<1>3. Bytes(w) = Bytes(window) + b
  <2>1. <<0, b>> \in Packets /\ <<0, b>>[2] = b
    BY BitrateAssumption DEF Packets
  <2> QED BY <1>1, <2>1, BytesPushed
<1>4. /\ Cleanup(w)
      /\ total' = total + b - (IF cleaned > Gate THEN Dropped(w) ELSE 0)
      /\ Violation(total' \div Span(window') > Spike)
  BY DEF CheckDataBitrate
<1>5. Bytes(window) \in Nat /\ b \in Nat
  <2>1. DOMAIN window = 1 .. Len(window)
    BY <1>1
  <2>2. Load(window, 1 .. Len(window)) \in Nat
    BY <1>1, LoadType
  <2> QED BY <2>1, <2>2, BitrateAssumption DEF Bytes
<1> HIDE DEF w
<1>6. CASE cleaned > Gate
  <2> DEFINE v == Kept(w)
  <2>1. /\ v \in Seq(Packets) /\ v # <<>> /\ v[Len(v)] = w[Len(w)]
        /\ OldestFirst(Ages(v)) /\ v[1][1] <= Window
        /\ \A i \in 1 .. Len(w) : w[i][1] <= Window => \E j \in 1 .. Len(v) : v[j] = w[i]
        /\ WithinLimit(w) => WithinLimit(v)
    <3>1. w[Len(w)][1] = 0
      BY <1>2
    <3> QED BY <1>2, <3>1, CleanedUp
  <2>2. Bytes(v) = Bytes(w) - Dropped(w)
    BY <1>2, KeptBytes
  <2>3. window' = v
    BY <1>4, <1>6 DEF Cleanup
  <2>4. total' = Bytes(v)
    <3>1. Dropped(w) \in Nat
      <4>1. 1 .. Expired(w) \in SUBSET (1 .. Len(w))
        BY <1>2, ExpiredIs
      <4> QED BY <1>2, <4>1, LoadType DEF Dropped
    <3>2. total' = total + b - Dropped(w)
      BY <1>4, <1>6
    <3>3. total + b = Bytes(w)
      BY <1>1, <1>3
    <3> QED BY <1>1, <1>5, <2>2, <3>1, <3>2, <3>3
  <2> HIDE DEF v
  <2>5. WithinLimit(w) => ~(Bytes(v) \div Span(v) > Spike)
    BY <2>1, HonestWithin
  <2>6. Violation(Bytes(v) \div Span(v) > Spike)
    BY <1>4, <2>3, <2>4
  <2>7. \A i \in 1 .. Len(window) : window[i][1] <= Window =>
           \E j \in 1 .. Len(v) : v[j] = window[i]
    BY <1>2, <2>1
  <2>8. v[Len(v)] = <<0, b>>
    BY <1>2, <2>1
  <2> QED BY <2>1, <2>3, <2>4, <2>5, <2>6, <2>7, <2>8 DEF w
<1>7. CASE ~(cleaned > Gate)
  <2>1. window' = w
    BY <1>4, <1>7 DEF Cleanup
  <2>2. total' = Bytes(w)
    BY <1>1, <1>3, <1>4, <1>5, <1>7
  <2>3. Violation(Bytes(w) \div Span(w) > Spike)
    BY <1>4, <2>1, <2>2
  <2>4. WithinLimit(w) /\ window = <<>> => ~(Bytes(w) \div Span(w) > Spike)
    <3>1. window = <<>> => w[1][1] <= Window
      BY <1>2, BitrateAssumption
    <3> QED BY <1>2, <3>1, HonestWithin
  <2>5. \A i \in 1 .. Len(window) : \E j \in 1 .. Len(w) : w[j] = window[i]
    BY <1>2
  <2> QED BY <1>2, <1>7, <2>1, <2>2, <2>3, <2>4, <2>5 DEF w
<1> QED BY <1>6, <1>7

-------------------------------------------------------------------------------
\* An empty window sums to nothing.
LEMMA EmptyWindow ==
    /\ <<>> \in Seq(Packets)
    /\ Bytes(<<>>) = 0
    /\ OldestFirst(Ages(<<>>))
<1>1. DOMAIN <<>> = {}
  OBVIOUS
<1> QED BY <1>1, SumEmpty DEF Bytes, Load, OldestFirst, Ages

\* An empty window without a violation or a streak satisfies the limiter's part.
LEMMA NoStreak ==
    ASSUME window = <<>>, violation = NoViolation, cleaned \in 0 .. Gate + 1,
           abuse = 0, ~cut
    PROVE  LimiterInv
<1>1. WindowShape
  BY EmptyWindow DEF WindowShape
<1>2. HonestShape /\ HonestNotCut
  BY BitrateAssumption DEF HonestShape, HonestNotCut, NoViolation
<1>3. AbuseShape
  BY BitrateAssumption DEF AbuseShape, OverNow, ReadNow
<1> QED BY <1>1, <1>2, <1>3 DEF LimiterInv

\* The initial state satisfies the invariant.
LEMMA InitInv == Init => IInv
<1> SUFFICES ASSUME Init PROVE IInv
  OBVIOUS
<1>1. RejectTtl \in Nat \ {0}
  BY IngestAssumption
<1>2. SessionOK
  <2>1. denial \in 0 .. RejectTtl /\ closes \in Nat
    BY <1>1 DEF Init
  <2>2. passed \in BOOLEAN /\ ringAdded \in BOOLEAN
    BY DEF Init
  <2>3. /\ st \in {"none", "open", "closed"}
        /\ future \in {"none", "sent"} \cup Answers
        /\ verdict \in {"none", "unasked"} \cup Answers
    BY DEF Init
  <2> QED BY <2>1, <2>2, <2>3 DEF SessionOK
<1>3. RejectsOK /\ BlockedByDenial
  <2>1. blocked = [i \in Ids |-> 0] /\ denial = RejectTtl
    BY DEF Init
  <2>2. Listed = {}
    BY <2>1 DEF Listed
  <2>3. IsFiniteSet(Listed) /\ Cardinality(Listed) <= MaxRejects
    BY <2>2, FS_EmptySet, IngestAssumption
  <2>4. blocked[Id] = 0
    BY <2>1, IngestAssumption
  <2> QED BY <1>1, <2>1, <2>3, <2>4 DEF RejectsOK, BlockedByDenial
<1>4. CloseOnce /\ NoRingUnanswered /\ GateShape
  BY DEF Init, CloseOnce, NoRingUnanswered, GateShape, Answers
<1>5. window = <<>> /\ total = 0 /\ cleaned = 0 /\ violation = NoViolation
  BY DEF Init, LimiterInit
<1>6. LimiterOK
  BY <1>5, EmptyWindow, BitrateAssumption DEF LimiterOK
<1>7. TypeOK
  <2>1. knocking \in BOOLEAN /\ kicked \in BOOLEAN /\ received \in BOOLEAN
        /\ cut \in BOOLEAN /\ honest \in BOOLEAN
    BY DEF Init
  <2>2. silent \in Nat /\ abuse \in 0 .. Window + Threshold + 1
    BY BitrateAssumption DEF Init
  <2> QED BY <1>2, <1>3, <1>6, <2>1, <2>2 DEF TypeOK
<1>8. LimiterInv
  <2>1. abuse = 0 /\ ~cut
    BY DEF Init
  <2>2. cleaned \in 0 .. Gate + 1
    BY <1>6 DEF LimiterOK
  <2> QED BY <1>5, <2>1, <2>2, NoStreak
<1> QED
  BY <1>2, <1>3, <1>4, <1>7, <1>8 DEF IInv, SessionInv

\* Every step keeps the types of the session.
LEMMA TypeStep ==
    ASSUME SessionOK, [Next]_vars
    PROVE  SessionOK'
<1> USE IngestAssumption DEF SessionOK, Answers, session, ghosts
<1>1. CASE Handshake
  BY <1>1 DEF Handshake
<1>2. CASE AcceptPublisher
  BY <1>2 DEF AcceptPublisher, OnConnect
<1>3. CASE AcceptRefused
  BY <1>3 DEF AcceptRefused
<1>4. CASE Answer
  BY <1>4 DEF Answer
<1>5. CASE GateRefuses
  BY <1>5 DEF GateRefuses, InvalidSrt, OnClose
<1>6. CASE ReadJunk
  BY <1>6 DEF ReadJunk, NowPassed, InvalidSrt, OnClose
<1>7. ASSUME NEW b \in 1 .. MaxPacket, ReadMedia(b) PROVE SessionOK'
  <2>1. closes' \in Nat /\ st' \in {"open", "closed"}
    <3>1. st = "open" /\ (InvalidSrt(NowPassed) \/ UNCHANGED <<st, closes>>)
      BY <1>7 DEF ReadMedia
    <3> QED BY <3>1 DEF InvalidSrt, OnClose
  <2>2. passed' \in BOOLEAN /\ ringAdded' \in BOOLEAN
    BY <1>7 DEF ReadMedia, NowPassed
  <2> QED BY <1>7, <2>1, <2>2 DEF ReadMedia
<1>8. CASE CheckInvalid
  <2>1. closes' \in Nat
    <3>1. CASE st = "open"
      BY <1>8, <3>1 DEF CheckInvalid, OnClose
    <3>2. CASE st # "open"
      BY <1>8, <3>2 DEF CheckInvalid
    <3> QED BY <3>1, <3>2
  <2> QED BY <1>8, <2>1 DEF CheckInvalid
<1>9. CASE Kick
  BY <1>9 DEF Kick
<1>10. CASE Clock
  BY <1>10 DEF Clock, Until
<1>11. CASE UNCHANGED vars \/ \E id \in Ids : OtherDenied(id)
  BY <1>11 DEF vars, OtherDenied
<1> QED
  BY <1>1, <1>2, <1>3, <1>4, <1>5, <1>6, <1>7, <1>8, <1>9, <1>10, <1>11 DEF Next

\* Blocking an id changes no other entry but the one a full cache gives up, which is
\* the nearest to its expiry; the cache stays within its cap.
LEMMA BlockIs ==
    ASSUME RejectsOK, NEW id \in Ids, Block(id)
    PROVE  /\ RejectsOK' /\ blocked'[id] = RejectTtl
           /\ \A i \in Listed' : i = id \/ (i \in Listed /\ blocked'[i] = blocked[i])
           /\ \/ \A i \in Ids \ {id} : blocked'[i] = blocked[i]
              \/ /\ Cardinality(Listed) = MaxRejects
                 /\ \E v \in Listed \ {id} :
                       /\ \A i \in Listed : blocked[v] <= blocked[i]
                       /\ \A i \in Ids \ {id, v} : blocked'[i] = blocked[i]
           /\ Cardinality(Listed) = MaxRejects => Cardinality(Listed') = MaxRejects
<1>1. /\ RejectTtl \in Nat \ {0} /\ MaxRejects \in Nat \ {0}
      /\ blocked \in [Ids -> 0 .. RejectTtl] /\ IsFiniteSet(Listed)
      /\ Cardinality(Listed) <= MaxRejects
  BY IngestAssumption DEF RejectsOK
<1>2. Cardinality(Listed) \in Nat
  BY <1>1, FS_CardinalityType
<1>3. CASE id \in Listed /\ blocked' = [blocked EXCEPT ![id] = RejectTtl]
  <2>1. Listed' = Listed
    BY <1>1, <1>3 DEF Listed
  <2> QED BY <1>1, <1>3, <2>1 DEF RejectsOK, Listed
<1>4. CASE /\ id \notin Listed /\ Cardinality(Listed) < MaxRejects
           /\ blocked' = [blocked EXCEPT ![id] = RejectTtl]
  <2>1. Listed' = Listed \cup {id}
    BY <1>1, <1>4 DEF Listed
  <2>2. IsFiniteSet(Listed') /\ Cardinality(Listed') = Cardinality(Listed) + 1
    BY <1>1, <1>4, <2>1, FS_AddElement
  <2>3. blocked' \in [Ids -> 0 .. RejectTtl]
    BY <1>1, <1>4
  <2>4. RejectsOK'
    BY <1>1, <1>2, <1>4, <2>2, <2>3 DEF RejectsOK
  <2>5. blocked'[id] = RejectTtl /\ \A i \in Ids \ {id} : blocked'[i] = blocked[i]
    BY <1>1, <1>4
  <2> QED BY <1>1, <1>2, <1>4, <2>1, <2>4, <2>5 DEF Listed
<1>5. CASE /\ id \notin Listed /\ ~(Cardinality(Listed) < MaxRejects)
           /\ \E v \in Listed :
                 /\ \A i \in Listed : blocked[v] <= blocked[i]
                 /\ blocked' = [blocked EXCEPT ![v] = 0, ![id] = RejectTtl]
  <2>1. PICK v \in Listed :
           /\ \A i \in Listed : blocked[v] <= blocked[i]
           /\ blocked' = [blocked EXCEPT ![v] = 0, ![id] = RejectTtl]
    BY <1>5
  <2>2. v \in Ids /\ v # id /\ Cardinality(Listed) = MaxRejects
    BY <1>1, <1>2, <1>5 DEF Listed
  <2>3. /\ blocked' \in [Ids -> 0 .. RejectTtl]
        /\ blocked'[id] = RejectTtl /\ blocked'[v] = 0
        /\ \A i \in Ids \ {id, v} : blocked'[i] = blocked[i]
    BY <1>1, <2>1, <2>2
  <2>4. Listed' = (Listed \ {v}) \cup {id}
    BY <1>1, <2>2, <2>3 DEF Listed
  <2>5. IsFiniteSet(Listed \ {v}) /\ Cardinality(Listed \ {v}) = Cardinality(Listed) - 1
    BY <1>1, <2>1, FS_RemoveElement
  <2>6. IsFiniteSet(Listed') /\ Cardinality(Listed') = Cardinality(Listed)
    <3>1. id \notin Listed \ {v}
      BY <1>5
    <3>2. /\ IsFiniteSet((Listed \ {v}) \cup {id})
          /\ Cardinality((Listed \ {v}) \cup {id}) = Cardinality(Listed \ {v}) + 1
      BY <2>5, <3>1, FS_AddElement
    <3> QED BY <1>2, <2>4, <2>5, <3>2
  <2>7. RejectsOK'
    BY <1>1, <2>3, <2>6 DEF RejectsOK
  <2>8. \A i \in Listed' : i = id \/ (i \in Listed /\ blocked'[i] = blocked[i])
    BY <2>3, <2>4 DEF Listed
  <2> QED BY <2>1, <2>2, <2>3, <2>6, <2>7, <2>8
<1> QED
  BY <1>3, <1>4, <1>5 DEF Block

\* Time empties the cache.
LEMMA CacheAges ==
    ASSUME RejectsOK, Clock
    PROVE  /\ RejectsOK'
           /\ \A i \in Ids : blocked'[i] = IF blocked[i] > 0 THEN blocked[i] - 1 ELSE 0
<1>1. /\ RejectTtl \in Nat \ {0} /\ MaxRejects \in Nat
      /\ blocked \in [Ids -> 0 .. RejectTtl] /\ IsFiniteSet(Listed)
      /\ Cardinality(Listed) <= MaxRejects
  BY IngestAssumption DEF RejectsOK
<1>2. blocked' = [i \in Ids |-> IF blocked[i] > 0 THEN blocked[i] - 1 ELSE 0]
  BY DEF Clock
<1>3. blocked' \in [Ids -> 0 .. RejectTtl]
  BY <1>1, <1>2
<1>4. Listed' \subseteq Listed
  BY <1>2 DEF Listed
<1>5. IsFiniteSet(Listed') /\ Cardinality(Listed') <= Cardinality(Listed)
  BY <1>1, <1>4, FS_Subset
<1>6. Cardinality(Listed') \in Nat /\ Cardinality(Listed) \in Nat
  BY <1>1, <1>5, FS_CardinalityType
<1> QED
  BY <1>1, <1>2, <1>3, <1>5, <1>6 DEF RejectsOK

\* Every step keeps the cache within its cap.
LEMMA RejectsStep ==
    ASSUME RejectsOK, [Next]_vars
    PROVE  RejectsOK'
<1>1. CASE GateRefuses
  <2>1. Block(Id) \/ blocked' = blocked
    BY <1>1 DEF GateRefuses, RecordFailure
  <2> QED BY <2>1, BlockIs, IngestAssumption DEF RejectsOK, Listed
<1>2. ASSUME NEW id \in Ids, OtherDenied(id) PROVE RejectsOK'
  BY <1>2, BlockIs DEF OtherDenied
<1>3. CASE Clock
  BY <1>3, CacheAges
<1>4. CASE blocked' = blocked
  BY <1>4 DEF RejectsOK, Listed
<1> QED
  BY <1>1, <1>2, <1>3, <1>4
     DEF Next, vars, Handshake, AcceptPublisher, AcceptRefused, Answer, ReadJunk,
         ReadMedia, CheckInvalid, Kick

\* Every step keeps the bond between the reject cache and the last denial.
LEMMA BlockedStep ==
    ASSUME SessionOK, RejectsOK, BlockedByDenial, [Next]_vars
    PROVE  BlockedByDenial'
<1>0. /\ RejectTtl \in Nat \ {0} /\ Id \in Ids /\ denial \in 0 .. RejectTtl
      /\ \A i \in Ids : blocked[i] \in 0 .. RejectTtl
  BY IngestAssumption DEF SessionOK, RejectsOK
<1>a. /\ blocked[Id] > 0 => blocked[Id] = RejectTtl - denial
      /\ blocked[Id] = 0 /\ denial < RejectTtl =>
            /\ Cardinality(Listed) = MaxRejects
            /\ \A i \in Listed : blocked[i] >= RejectTtl - denial
  BY DEF BlockedByDenial
<1>1. CASE GateRefuses
  <2>1. CASE future = "denied"
    <3>1. Block(Id) /\ denial' = 0
      BY <1>1, <2>1 DEF GateRefuses, RecordFailure
    <3>2. blocked'[Id] = RejectTtl
      BY <1>0, <3>1, BlockIs
    <3> QED BY <1>0, <3>1, <3>2 DEF BlockedByDenial
  <2>2. CASE future # "denied"
    <3>1. blocked' = blocked /\ denial' = denial
      BY <1>1, <2>2 DEF GateRefuses, RecordFailure
    <3> QED BY <3>1 DEF BlockedByDenial, Listed
  <2> QED BY <2>1, <2>2
<1>2. ASSUME NEW id \in Ids, OtherDenied(id) PROVE BlockedByDenial'
  <2>1. id # Id /\ Block(id) /\ denial' = denial
    BY <1>2 DEF OtherDenied, ghosts
  <2>2. /\ RejectsOK' /\ blocked'[id] = RejectTtl
        /\ \A i \in Listed' : i = id \/ (i \in Listed /\ blocked'[i] = blocked[i])
        /\ \/ \A i \in Ids \ {id} : blocked'[i] = blocked[i]
           \/ /\ Cardinality(Listed) = MaxRejects
              /\ \E v \in Listed \ {id} :
                    /\ \A i \in Listed : blocked[v] <= blocked[i]
                    /\ \A i \in Ids \ {id, v} : blocked'[i] = blocked[i]
        /\ Cardinality(Listed) = MaxRejects => Cardinality(Listed') = MaxRejects
    BY <2>1, BlockIs
  <2>3. /\ \A i \in Ids : blocked'[i] \in 0 .. RejectTtl
        /\ \A i \in Listed' : i \in Ids
    BY <2>2 DEF RejectsOK, Listed
  <2>4. CASE blocked'[Id] = blocked[Id]
    <3>1. ASSUME blocked[Id] = 0, denial < RejectTtl, NEW i \in Listed'
          PROVE  blocked'[i] >= RejectTtl - denial
      <4>1. CASE i = id
        BY <1>0, <2>2, <4>1
      <4>2. CASE i \in Listed /\ blocked'[i] = blocked[i]
        BY <1>a, <3>1, <4>2
      <4> QED BY <2>2, <4>1, <4>2
    <3> QED BY <1>a, <2>1, <2>2, <2>4, <3>1 DEF BlockedByDenial
  <2>5. CASE blocked'[Id] # blocked[Id]
    <3>1. /\ Cardinality(Listed') = MaxRejects /\ Id \in Listed
          /\ \A i \in Listed : blocked[Id] <= blocked[i]
      BY <1>0, <2>1, <2>2, <2>5
    <3>2. blocked[Id] = RejectTtl - denial
      BY <1>a, <3>1 DEF Listed
    <3>3. ASSUME NEW i \in Listed' PROVE blocked'[i] >= RejectTtl - denial
      <4>1. CASE i = id
        BY <1>0, <2>2, <4>1
      <4>2. CASE i \in Listed /\ blocked'[i] = blocked[i]
        BY <3>1, <3>2, <4>2
      <4> QED BY <2>2, <4>1, <4>2
    <3>4. ~(blocked'[Id] > 0)
      <4>1. CASE Id \in Listed'
        BY <2>1, <2>2, <2>5, <4>1
      <4>2. CASE Id \notin Listed'
        BY <1>0, <4>2 DEF Listed
      <4> QED BY <4>1, <4>2
    <3> QED BY <2>1, <3>1, <3>3, <3>4 DEF BlockedByDenial
  <2> QED BY <2>4, <2>5
<1>3. CASE Clock
  <2>1. /\ \A i \in Ids : blocked'[i] = IF blocked[i] > 0 THEN blocked[i] - 1 ELSE 0
        /\ denial' = Until(denial, RejectTtl)
    BY <1>3, CacheAges DEF Clock
  <2>2. CASE blocked[Id] > 0
    BY <1>0, <1>a, <2>1, <2>2 DEF BlockedByDenial, Until
  <2>3. CASE ~(blocked[Id] > 0)
    <3>1. blocked[Id] = 0 /\ blocked'[Id] = 0
      BY <1>0, <2>1, <2>3
    <3>2. CASE denial' < RejectTtl
      <4>1. denial < RejectTtl /\ denial' = denial + 1
        BY <1>0, <2>1, <3>2 DEF Until
      <4>2. \A i \in Listed : blocked[i] >= RejectTtl - denial /\ blocked[i] \in 0 .. RejectTtl
        BY <1>0, <1>a, <3>1, <4>1 DEF Listed
      <4>3. \A i \in Listed : blocked'[i] >= RejectTtl - denial' /\ blocked'[i] > 0
        BY <1>0, <2>1, <3>2, <4>1, <4>2 DEF Listed
      <4>4. Listed' = Listed
        BY <1>0, <2>1, <4>3 DEF Listed
      <4> QED BY <1>a, <3>1, <4>1, <4>3, <4>4 DEF BlockedByDenial
    <3> QED BY <3>1, <3>2 DEF BlockedByDenial
  <2> QED BY <2>2, <2>3
<1>4. CASE UNCHANGED <<blocked, denial>>
  BY <1>4 DEF BlockedByDenial, Listed
<1> QED
  BY <1>1, <1>2, <1>3, <1>4
     DEF Next, vars, ghosts, Handshake, AcceptPublisher, AcceptRefused, Answer, ReadJunk,
         ReadMedia, CheckInvalid, Kick

\* Every step keeps the count of on_close webhooks.
LEMMA CloseStep ==
    ASSUME SessionOK, CloseOnce, [Next]_vars
    PROVE  CloseOnce'
<1> USE DEF SessionOK, CloseOnce, session, ghosts
<1>1. CASE AcceptPublisher
  BY <1>1 DEF AcceptPublisher
<1>2. CASE GateRefuses
  BY <1>2 DEF GateRefuses, InvalidSrt, OnClose
<1>3. CASE ReadJunk
  <2>1. CASE NowPassed
    BY <1>3, <2>1 DEF ReadJunk, InvalidSrt, OnClose
  <2>2. CASE ~NowPassed
    BY <1>3, <2>2 DEF ReadJunk, InvalidSrt, OnClose
  <2> QED BY <2>1, <2>2
<1>4. ASSUME NEW b \in 1 .. MaxPacket, ReadMedia(b) PROVE CloseOnce'
  <2>1. /\ st = "open" /\ passed' = NowPassed
        /\ InvalidSrt(NowPassed) \/ UNCHANGED <<st, closes>>
    BY <1>4 DEF ReadMedia
  <2>2. CASE NowPassed
    BY <2>1, <2>2 DEF InvalidSrt, OnClose
  <2>3. CASE ~NowPassed
    BY <2>1, <2>3 DEF InvalidSrt, OnClose
  <2> QED BY <2>2, <2>3
<1>5. CASE CheckInvalid
  BY <1>5 DEF CheckInvalid, Due, OnClose
<1>6. CASE UNCHANGED <<st, passed, closes>>
  BY <1>6
<1> QED
  BY <1>1, <1>2, <1>3, <1>4, <1>5, <1>6
     DEF Next, vars, Handshake, AcceptRefused, OtherDenied, Answer, Kick, Clock

\* Every step keeps the gate shut until the backend has accepted the session.
LEMMA GateStep ==
    ASSUME SessionOK, GateShape, NoRingUnanswered, [Next]_vars
    PROVE  GateShape' /\ NoRingUnanswered'
<1> USE DEF SessionOK, GateShape, NoRingUnanswered, Answers, session, ghosts
<1>1. CASE AcceptPublisher
  BY <1>1 DEF AcceptPublisher, OnConnect
<1>2. CASE Answer
  BY <1>2 DEF Answer
<1>3. CASE GateRefuses
  BY <1>3 DEF GateRefuses, InvalidSrt
<1>4. CASE ReadJunk
  BY <1>4 DEF ReadJunk, GateOpen, NowPassed, InvalidSrt
<1>5. ASSUME NEW b \in 1 .. MaxPacket, ReadMedia(b) PROVE GateShape' /\ NoRingUnanswered'
  BY <1>5 DEF ReadMedia, GateOpen, NowPassed, InvalidSrt
<1>6. CASE CheckInvalid
  BY <1>6 DEF CheckInvalid
<1>7. CASE UNCHANGED <<st, passed, future, ringAdded, verdict>>
  BY <1>7
<1> QED
  BY <1>1, <1>2, <1>3, <1>4, <1>5, <1>6, <1>7
     DEF Next, vars, Handshake, AcceptRefused, OtherDenied, Kick, Clock

-------------------------------------------------------------------------------
(* The limiter's invariant                                                   *)

\* A read of media: the window takes the packet, and the violation follows.
LEMMA ReadStep ==
    ASSUME TypeOK, LimiterInv, NEW b \in 1 .. MaxPacket, ReadMedia(b)
    PROVE  TypeOK' /\ LimiterInv'
<1>1. PICK v \in Seq(Packets) :
         /\ window' = v /\ v # <<>> /\ v[Len(v)] = <<0, b>> /\ OldestFirst(Ages(v))
         /\ total' = Bytes(v)
         /\ \A i \in 1 .. Len(window) : window[i][1] <= Window =>
               \E j \in 1 .. Len(v) : v[j] = window[i]
         /\ Violation(Bytes(v) \div Span(v) > Spike)
         /\ WithinLimit(Append(window, <<0, b>>)) /\ (cleaned > Gate \/ window = <<>>) =>
               ~(Bytes(v) \div Span(v) > Spike)
  BY ReadWindow DEF TypeOK, LimiterInv, WindowShape, ReadMedia
<1> DEFINE exceeds == Bytes(v) \div Span(v) > Spike
           within == WithinLimit(Append(window, <<0, b>>))
<1>2. /\ Window \in Nat \ {0} /\ Gate \in Nat /\ Threshold \in Nat \ {0} /\ Gate <= Threshold
      /\ Spike \in Nat
  BY BitrateAssumption
<1>3. /\ SessionOK /\ RejectsOK /\ cleaned \in 0 .. Gate + 1 /\ violation \in {NoViolation} \cup 0 .. Threshold
      /\ honest \in BOOLEAN /\ cut \in BOOLEAN /\ window \in Seq(Packets)
      /\ abuse \in 0 .. Window + Threshold + 1
  BY DEF TypeOK, LimiterOK
<1>4. /\ st = "open" /\ ~ReadNow /\ st' \in {"open", "closed"}
      /\ honest' = (honest /\ within)
      /\ abuse' = IF b > Spike THEN abuse ELSE 0
      /\ cut' = (violation' >= Threshold)
      /\ st' = "open" => ~(violation' >= Threshold)
  BY DEF ReadMedia, InvalidSrt, Disconnects
<1>5. /\ violation' = IF ~exceeds THEN NoViolation
                      ELSE IF violation = NoViolation THEN 0 ELSE violation
      /\ within /\ (cleaned > Gate \/ window = <<>>) => ~exceeds
  BY <1>1 DEF Violation
<1>6. cleaned' = IF cleaned > Gate THEN 0 ELSE cleaned
  BY DEF ReadMedia, CheckDataBitrate, Cleanup
<1>7. DOMAIN v = 1 .. Len(v) /\ DOMAIN window = 1 .. Len(window) /\ Len(v) \in 1 .. Len(v)
  BY <1>1, <1>3
<1>8. ASSUME b > Spike, abuse >= Window - 1
      PROVE  exceeds
  <2>1. ASSUME NEW n \in 0 .. Window - 1
        PROVE  \E i \in 1 .. Len(v) : v[i][1] = n /\ v[i][2] > Spike
    <3>1. CASE n = 0
      <4>1. v[Len(v)][1] = 0 /\ v[Len(v)][2] = b
        BY <1>1
      <4> QED BY <1>7, <1>8, <3>1, <4>1
    <3>2. CASE n # 0
      <4>1. n \in 1 .. abuse /\ n <= Window
        BY <1>2, <1>3, <1>8, <3>2
      <4>2. PICK i \in 1 .. Len(window) : window[i][1] = n /\ window[i][2] > Spike
        BY <1>7, <4>1 DEF LimiterInv, AbuseShape
      <4>3. window[i][1] <= Window
        BY <4>1, <4>2
      <4>4. PICK j \in 1 .. Len(v) : v[j] = window[i]
        BY <1>1, <4>3
      <4> QED BY <4>2, <4>4
    <3> QED BY <3>1, <3>2
  <2> QED BY <1>1, <2>1, StreakExceeds
<1> HIDE DEF exceeds, within
<1>9. violation' \in {NoViolation} \cup 0 .. Threshold
  BY <1>2, <1>3, <1>5 DEF NoViolation
<1>10. TypeOK'
  <2>1. SessionOK' /\ RejectsOK'
    BY <1>3, TypeStep, RejectsStep DEF Next
  <2>2. window' \in Seq(Packets) /\ total' = Bytes(window')
    BY <1>1
  <2>3. cleaned' \in 0 .. Gate + 1
    BY <1>2, <1>3, <1>6
  <2>4. LimiterOK'
    BY <1>9, <2>2, <2>3 DEF LimiterOK
  <2>5. /\ knocking' \in BOOLEAN /\ kicked' \in BOOLEAN /\ received' \in BOOLEAN
        /\ cut' \in BOOLEAN /\ honest' \in BOOLEAN /\ silent' \in Nat
    <3>1. knocking' = knocking /\ kicked' = kicked /\ received' = TRUE /\ silent' = 0
      BY DEF ReadMedia
    <3>2. knocking \in BOOLEAN /\ kicked \in BOOLEAN
      BY DEF TypeOK
    <3>3. cut' \in BOOLEAN
      BY <1>4
    <3>4. honest' \in BOOLEAN
      BY <1>4
    <3> QED BY <3>1, <3>2, <3>3, <3>4
  <2>6. abuse' \in 0 .. Window + Threshold + 1
    BY <1>2, <1>3, <1>4
  <2> QED BY <2>1, <2>4, <2>5, <2>6 DEF TypeOK
<1>11. WindowShape'
  <2>1. OldestFirst(Ages(window'))
    BY <1>1
  <2>2. window'[Len(window')][1] = 0 /\ window' # <<>>
    BY <1>1
  <2>3. ReadNow'
    BY <2>2 DEF ReadNow
  <2>4. st' # "none"
    BY <1>4
  <2> QED BY <2>1, <2>3, <2>4 DEF WindowShape
<1>12. cleaned = 0 => window = <<>>
  BY <1>4 DEF LimiterInv, WindowShape
<1>13. honest' => violation' < cleaned' /\ violation' < Threshold
  <2> SUFFICES ASSUME honest, within
               PROVE  violation' < cleaned' /\ violation' < Threshold
    BY <1>4
  <2>1. violation < cleaned \/ cleaned > Gate
    BY DEF LimiterInv, HonestShape
  <2>2. CASE cleaned > Gate \/ cleaned = 0
    <3>1. violation' = -1 /\ cleaned' = 0
      BY <1>2, <1>5, <1>6, <1>12, <2>2 DEF NoViolation
    <3> QED BY <1>2, <3>1
  <2>3. CASE ~(cleaned > Gate) /\ cleaned # 0
    <3>1. cleaned' = cleaned /\ cleaned \in 1 .. Gate /\ violation < cleaned
      BY <1>2, <1>3, <1>6, <2>1, <2>3
    <3>2. violation' \in {-1, 0, violation}
      BY <1>5 DEF NoViolation
    <3> QED BY <1>2, <1>3, <3>1, <3>2 DEF NoViolation
  <2> QED BY <2>2, <2>3
<1>14. HonestShape' /\ HonestNotCut'
  <2>1. honest' => ~cut'
    <3> SUFFICES ASSUME honest'
                 PROVE  ~(violation' >= Threshold)
      BY <1>4
    <3> QED BY <1>2, <1>9, <1>13 DEF NoViolation
  <2> QED BY <1>13, <2>1 DEF HonestShape, HonestNotCut
<1>15. AbuseShape'
  <2>1. ASSUME NEW n \in 1 .. abuse', n <= Window
        PROVE  \E i \in DOMAIN window' : window'[i][1] = n /\ window'[i][2] > Spike
    <3>1. n \in 1 .. abuse
      BY <1>3, <1>4
    <3>2. PICK i \in 1 .. Len(window) : window[i][1] = n /\ window[i][2] > Spike
      BY <1>7, <2>1, <3>1 DEF LimiterInv, AbuseShape
    <3>3. PICK j \in 1 .. Len(v) : v[j] = window[i]
      BY <1>1, <2>1, <3>2
    <3> QED BY <1>1, <1>7, <3>2, <3>3
  <2>2. ASSUME st' = "open", abuse' >= Window
        PROVE  violation' > abuse' - Window
    <3>1. b > Spike /\ abuse' = abuse /\ abuse >= Window
      BY <1>2, <1>4, <2>2
    <3>2. exceeds
      BY <1>2, <1>3, <1>8, <3>1
    <3>3. violation > abuse - Window
      BY <1>4, <3>1 DEF LimiterInv, AbuseShape
    <3>4. violation' = violation
      BY <1>2, <1>3, <1>5, <3>1, <3>2, <3>3 DEF NoViolation
    <3> QED BY <3>1, <3>3, <3>4
  <2>3. ASSUME st' = "open", OverNow'
        PROVE  violation' < Threshold /\ (abuse' >= Window - 1 => violation' # NoViolation)
    <3>1. b > Spike
      <4>1. window'[Len(window')][2] > Spike /\ window'[Len(window')] = <<0, b>>
        BY <1>1, <2>3 DEF OverNow
      <4> QED BY <4>1
    <3>2. abuse' = abuse
      BY <1>4, <3>1
    <3>3. violation' < Threshold
      BY <1>2, <1>4, <1>9, <2>3 DEF NoViolation
    <3>4. abuse >= Window - 1 => violation' # NoViolation
      BY <1>3, <1>5, <1>8, <3>1 DEF NoViolation
    <3> QED BY <3>2, <3>3, <3>4
  <2> QED BY <2>1, <2>2, <2>3 DEF AbuseShape
<1> QED BY <1>10, <1>11, <1>14, <1>15 DEF LimiterInv

\* A violation that runs ahead of a streak still does when a unit has passed.
LEMMA Shifted ==
    ASSUME NEW a \in Int, NEW a2 \in Int, NEW w \in Int, NEW v \in Int, NEW v2 \in Int,
           a2 <= a + 1, v2 = v + 1, v >= 0, a >= w => v > a - w
    PROVE  v2 > a2 - w
<1>1. CASE a >= w
  BY <1>1
<1>2. CASE a < w
  BY <1>2
<1> QED BY <1>1, <1>2

\* A unit passes: the window ages with the violation, and a streak grows with it.
LEMMA ClockStep ==
    ASSUME TypeOK, LimiterInv, Clock
    PROVE  TypeOK' /\ LimiterInv'
<1>1. /\ Window \in Nat \ {0} /\ Gate \in Nat /\ Threshold \in Nat \ {0}
  BY BitrateAssumption
<1>2. /\ SessionOK /\ RejectsOK /\ cleaned \in 0 .. Gate + 1 /\ violation \in {NoViolation} \cup 0 .. Threshold
      /\ honest \in BOOLEAN /\ window \in Seq(Packets) /\ total = Bytes(window)
      /\ abuse \in 0 .. Window + Threshold + 1
  BY DEF TypeOK, LimiterOK
<1>3. /\ st' = st /\ honest' = honest /\ cut' = cut
      /\ knocking' = knocking /\ kicked' = kicked /\ received' = received
      /\ silent' = (IF st = "open" THEN silent + 1 ELSE silent)
      /\ abuse' = IF OverNow THEN Until(abuse, Window + Threshold + 1) ELSE 0
  BY DEF Clock
<1>4. SessionOK' /\ RejectsOK'
  BY <1>2, TypeStep, RejectsStep DEF Next
<1>5. /\ {knocking', kicked', received', cut', honest'} \subseteq BOOLEAN
      /\ silent' \in Nat /\ abuse' \in 0 .. Window + Threshold + 1
  BY <1>1, <1>2, <1>3 DEF TypeOK, Until
<1>6. CASE st # "open"
  <2>1. st = "none" /\ window = <<>>
    BY <1>2, <1>6 DEF SessionOK, Clock, Due, LimiterInv, WindowShape
  <2>2. UNCHANGED limiter /\ abuse' = 0
    BY <1>3, <1>6, <2>1 DEF Clock, OverNow, ReadNow
  <2>3. TypeOK'
    BY <1>4, <1>5, <2>2 DEF TypeOK, LimiterOK, limiter
  <2>4. LimiterInv'
    BY <1>1, <1>3, <2>1, <2>2 DEF LimiterInv, limiter, WindowShape, HonestShape, HonestNotCut, AbuseShape,
       ReadNow, OverNow
  <2> QED BY <2>3, <2>4
<1>7. CASE st = "open"
  <2>1. /\ cleaned' = Until(cleaned, Gate + 1)
        /\ violation' = IF violation = NoViolation THEN NoViolation ELSE Until(violation, Threshold)
        /\ total' = total
    BY <1>7 DEF Clock, LimiterAges
  <2>2. PICK v : window' = v /\ v = [i \in DOMAIN window |-> <<Until(window[i][1], Window + 1), window[i][2]>>]
    BY <1>7 DEF Clock, LimiterAges
  <2>3. OldestFirst(Ages(window))
    BY DEF LimiterInv, WindowShape
  <2>4. /\ v \in Seq(Packets) /\ Len(v) = Len(window) /\ OldestFirst(Ages(v))
        /\ Bytes(v) = Bytes(window)
        /\ \A i \in 1 .. Len(window) : v[i] = <<Until(window[i][1], Window + 1), window[i][2]>>
    BY <1>2, <2>2, <2>3, Aged
  <2>5. cleaned' \in 1 .. Gate + 1 /\ violation' \in {NoViolation} \cup 0 .. Threshold
    BY <1>1, <1>2, <2>1 DEF Until, NoViolation
  <2>6. LimiterOK'
    <3>1. window' \in Seq(Packets) /\ total' = Bytes(window')
      BY <1>2, <2>1, <2>2, <2>4
    <3>2. cleaned' \in 0 .. Gate + 1
      BY <1>1, <2>5
    <3> QED BY <2>5, <3>1, <3>2 DEF LimiterOK
  <2>7. TypeOK'
    BY <1>4, <1>5, <2>6 DEF TypeOK
  <2>8. WindowShape'
    <3>1. OldestFirst(Ages(window'))
      BY <2>2, <2>4
    <3>2. cleaned' # 0 /\ st' # "none"
      BY <1>1, <1>3, <1>7, <2>5
    <3> QED BY <3>1, <3>2 DEF WindowShape
  <2>9. HonestShape'
    <3> SUFFICES ASSUME honest
                 PROVE  violation' < cleaned' \/ cleaned' > Gate
      BY <1>3 DEF HonestShape
    <3>1. violation < cleaned \/ cleaned > Gate
      BY DEF LimiterInv, HonestShape
    <3> QED BY <1>1, <1>2, <2>1, <3>1 DEF Until, NoViolation
  <2>10. HonestNotCut'
    BY <1>3 DEF LimiterInv, HonestNotCut
  <2>11. DOMAIN window = 1 .. Len(window) /\ DOMAIN v = 1 .. Len(window)
    BY <1>2, <2>4
  <2>12. ASSUME NEW n \in 1 .. abuse', n <= Window
         PROVE  \E i \in DOMAIN window' : window'[i][1] = n /\ window'[i][2] > Spike
    <3>1. OverNow /\ n \in 1 .. abuse + 1
      BY <1>1, <1>2, <1>3 DEF Until
    <3>2. \E i \in 1 .. Len(window) : window[i][1] = n - 1 /\ window[i][2] > Spike
      <4>1. CASE n = 1
        <5>1. Len(window) \in 1 .. Len(window)
          BY <1>2, <3>1 DEF OverNow, ReadNow
        <5> QED BY <3>1, <4>1, <5>1 DEF OverNow, ReadNow
      <4>2. CASE n # 1
        <5>1. n - 1 \in 1 .. abuse /\ n - 1 <= Window
          BY <1>1, <1>2, <2>12, <3>1, <4>2
        <5> QED BY <2>11, <5>1 DEF LimiterInv, AbuseShape
      <4> QED BY <4>1, <4>2
    <3>3. PICK i \in 1 .. Len(window) : window[i][1] = n - 1 /\ window[i][2] > Spike
      BY <3>2
    <3>4. v[i] = <<Until(n - 1, Window + 1), window[i][2]>>
      BY <2>4, <3>3
    <3>5. Until(n - 1, Window + 1) = n
      BY <1>1, <2>12, <3>1, <1>2 DEF Until
    <3>6. v[i][1] = n /\ v[i][2] > Spike
      BY <3>3, <3>4, <3>5
    <3> QED BY <2>2, <2>11, <3>6
  <2>13. ASSUME abuse' >= Window
         PROVE  violation' > abuse' - Window
    <3>1. OverNow /\ abuse' = Until(abuse, Window + Threshold + 1)
      BY <1>1, <1>3, <2>13
    <3>2. abuse' <= abuse + 1 /\ abuse >= Window - 1
      BY <1>1, <1>2, <2>13, <3>1 DEF Until
    <3>3. violation < Threshold /\ violation # NoViolation
      BY <1>7, <3>1, <3>2 DEF LimiterInv, AbuseShape
    <3>4. violation' = violation + 1 /\ violation \in Nat
      BY <1>1, <1>2, <2>1, <3>3 DEF Until, NoViolation
    <3>5. abuse >= Window => violation > abuse - Window
      BY <1>7 DEF LimiterInv, AbuseShape
    <3>6. abuse \in Int /\ abuse' \in Int /\ Window \in Int
      BY <1>1, <1>2, <1>5
    <3>7. violation' = violation + 1 /\ violation >= 0 /\ violation \in Int /\ violation' \in Int
      BY <3>4
    <3>8. abuse' <= abuse + 1
      BY <3>2
    <3> QED BY ONLY <3>5, <3>6, <3>7, <3>8, Shifted
  <2>14. ~OverNow'
    <3>1. ASSUME window' # <<>>
          PROVE  window'[Len(window')][1] # 0
      <4>1. Len(window) \in 1 .. Len(window) /\ Len(window') = Len(window)
        BY <1>2, <2>2, <2>4, <3>1
      <4>2. window'[Len(window')] = <<Until(window[Len(window)][1], Window + 1), window[Len(window)][2]>>
        BY <2>2, <2>4, <4>1
      <4>3. window[Len(window)][1] \in 0 .. Window + 1
        BY <1>2, <4>1, PacketIs
      <4> QED BY <1>1, <4>2, <4>3 DEF Until
    <3> QED BY <3>1 DEF OverNow, ReadNow
  <2>15. AbuseShape'
    BY <2>12, <2>13, <2>14 DEF AbuseShape
  <2> QED BY <2>7, <2>8, <2>9, <2>10, <2>15 DEF LimiterInv
<1> QED BY <1>6, <1>7

\* The steps that leave the window alone.
LEMMA OtherStep ==
    ASSUME TypeOK, LimiterInv, GateShape, [Next]_vars,
           ~Clock, ~(\E b \in 1 .. MaxPacket : ReadMedia(b))
    PROVE  TypeOK' /\ LimiterInv'
<1>1. SessionOK' /\ RejectsOK'
  BY TypeStep, RejectsStep DEF TypeOK
<1>2. CASE CheckInvalid
  <2>1. /\ window' = <<>> /\ total' = 0 /\ cleaned' = 0 /\ violation' = NoViolation
        /\ kicked' = FALSE /\ silent' = 0 /\ received' = FALSE /\ knocking' = knocking
        /\ cut' = FALSE /\ honest' = TRUE /\ abuse' = 0
    BY <1>2 DEF CheckInvalid, LimiterReset
  <2>2. LimiterOK'
    BY <2>1, EmptyWindow, BitrateAssumption DEF LimiterOK
  <2>3. TypeOK'
    <3>1. knocking' \in BOOLEAN /\ kicked' \in BOOLEAN /\ received' \in BOOLEAN
          /\ cut' \in BOOLEAN /\ honest' \in BOOLEAN
      BY <2>1 DEF TypeOK
    <3>2. silent' \in Nat /\ abuse' \in 0 .. Window + Threshold + 1
      BY <2>1, BitrateAssumption
    <3> QED BY <1>1, <2>2, <3>1, <3>2 DEF TypeOK
  <2>4. WindowShape'
    BY <2>1, EmptyWindow DEF WindowShape
  <2>5. HonestShape' /\ HonestNotCut'
    BY <2>1, BitrateAssumption DEF HonestShape, HonestNotCut, NoViolation
  <2>6. AbuseShape'
    BY <2>1, BitrateAssumption DEF AbuseShape, OverNow, ReadNow
  <2> QED BY <2>3, <2>4, <2>5, <2>6 DEF LimiterInv
<1>3. CASE ~CheckInvalid
  <2>1. /\ UNCHANGED <<limiter, cut, honest, abuse, silent, received>>
        /\ knocking' \in BOOLEAN /\ kicked' \in BOOLEAN
        /\ st' # st => (st = "open" /\ st' = "closed") \/ (st = "none" /\ st' = "open")
    <3> USE <1>3 DEF TypeOK, session, ghosts
    <3>1. CASE Handshake \/ AcceptRefused \/ UNCHANGED vars \/ \E id \in Ids : OtherDenied(id)
      BY <3>1 DEF Handshake, AcceptRefused, OtherDenied, vars
    <3>2. CASE AcceptPublisher
      BY <3>2 DEF AcceptPublisher
    <3>3. CASE Answer \/ Kick
      BY <3>3 DEF Answer, Kick
    <3>4. CASE GateRefuses \/ ReadJunk
      BY <3>4 DEF GateRefuses, ReadJunk, InvalidSrt
    <3> QED BY <3>1, <3>2, <3>3, <3>4 DEF Next
  <2>2. /\ window' = window /\ total' = total /\ cleaned' = cleaned /\ violation' = violation
        /\ cut' = cut /\ honest' = honest /\ abuse' = abuse
        /\ silent' = silent /\ received' = received
    BY <2>1 DEF limiter
  <2>3. TypeOK'
    BY <1>1, <2>1, <2>2 DEF TypeOK, LimiterOK
  <2>4. WindowShape' /\ HonestShape' /\ HonestNotCut'
    BY <2>1, <2>2 DEF LimiterInv, WindowShape, HonestShape, HonestNotCut, ReadNow
  <2>5. CASE st = "none"
    <3>1. window = <<>> /\ abuse = 0
      BY <2>5 DEF LimiterInv, WindowShape
    <3>2. AbuseShape'
      BY <2>2, <3>1, BitrateAssumption DEF AbuseShape, OverNow, ReadNow
    <3> QED BY <2>3, <2>4, <3>2 DEF LimiterInv
  <2>6. CASE st # "none"
    <3>1. st' = "open" => st = "open"
      BY <2>1, <2>6
    <3>2. AbuseShape'
      BY <2>2, <3>1 DEF LimiterInv, AbuseShape, OverNow, ReadNow
    <3> QED BY <2>3, <2>4, <3>2 DEF LimiterInv
  <2> QED BY <2>5, <2>6
<1> QED BY <1>2, <1>3

-------------------------------------------------------------------------------
(* Theorems                                                                  *)

\* The inductive invariant: the session and its webhook, and the limiter with
\* what it knows of the rate.
THEOREM Invariance == Spec => []IInv
<1>1. Init => IInv
  BY InitInv
<1>2. ASSUME IInv, [Next]_vars PROVE IInv'
  <2>1. TypeOK /\ SessionOK /\ RejectsOK /\ BlockedByDenial /\ CloseOnce /\ NoRingUnanswered /\ GateShape
        /\ LimiterInv
    BY <1>2 DEF IInv, SessionInv, TypeOK
  <2>2. SessionInv'
    BY <1>2, <2>1, TypeStep, BlockedStep, CloseStep, GateStep DEF SessionInv
  <2>3. TypeOK' /\ LimiterInv'
    BY <1>2, <2>1, ReadStep, ClockStep, OtherStep
  <2> QED BY <2>2, <2>3 DEF IInv
<1>3. IInv /\ [Next]_vars => IInv'
  BY <1>2
<1> QED
  BY <1>1, <1>3, PTL DEF Spec

\* The variables keep their types and m_total_bytes_in_window is the sum of
\* m_data_window, whatever the cleanups popped.
THEOREM TypeCorrect == Spec => []TypeOK
  BY Invariance, PTL DEF IInv

\* A session whose on_connect is unanswered, refused or failed has no ring: the gate
\* is read before every packet (CSLSRole::check_http_passed).  Nothing is said of a
\* session for which on_connect() sent no request; its gate is open.
THEOREM UnansweredNoRing == Spec => []NoRingUnanswered
  BY Invariance, PTL DEF IInv, SessionInv

\* on_close is sent once for every session whose gate was opened, and for no
\* other (CSLSRole::invalid_srt, on_close).
THEOREM ClosedOnce == Spec => []CloseOnce
  BY Invariance, PTL DEF IInv, SessionInv

\* Only an explicit denial blocks an id, for the TTL from the last one, unless the
\* cache is full of denials at least as fresh (AuthRejectCache::record_failure), for
\* every cap and any number of ids.
THEOREM BlockedOnlyByDenial == Spec => []BlockedByDenial
  BY Invariance, PTL DEF IInv, SessionInv

\* The limiter cuts no publisher that keeps within the limit over every span it
\* may divide by, for every window, gate, threshold and limit
\* (CSLSBitrateLimit::check_data_bitrate, cleanup_old_data).
THEOREM HonestKept == Spec => []HonestNotCut
  BY Invariance, PTL DEF IInv, LimiterInv

\* A publisher over the limit in every unit is cut when the window has filled and
\* the threshold has passed (CSLSBitrateLimit::handle_violation).
THEOREM AbuserCut == Spec => []AbuseIsCut
<1>1. IInv => AbuseIsCut
  <2> SUFFICES ASSUME IInv, st = "open"
               PROVE  abuse <= Window + Threshold
    BY DEF AbuseIsCut
  <2>1. /\ abuse \in Int /\ Window \in Int /\ Threshold \in Nat
        /\ violation \in {NoViolation} \cup 0 .. Threshold
    BY BitrateAssumption DEF IInv, TypeOK, LimiterOK
  <2>2. abuse >= Window => violation > abuse - Window
    BY DEF IInv, LimiterInv, AbuseShape
  <2> QED BY <2>1, <2>2 DEF NoViolation
<1> QED
  BY <1>1, Invariance, PTL
===============================================================================
