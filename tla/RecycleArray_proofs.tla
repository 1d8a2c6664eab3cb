------------------------- MODULE RecycleArray_proofs -------------------------
(***************************************************************************)
(* Proofs about RecycleArray, for every ring size, set of readers, read    *)
(* size, alignment and put length.                                         *)
(***************************************************************************)
EXTENDS RecycleArray, TLAPS

USE SizeAssumption, ReadAssumption, LensAssumption, WorkerAssumption,
    BoundAssumption

-------------------------------------------------------------------------------
(* Arithmetic modulo the ring *)

\* Division by a positive number, as a quotient and a remainder.
LEMMA DivMod ==
    ASSUME NEW S \in Nat, S > 0, NEW a \in Int
    PROVE  a % S \in 0..(S - 1) /\ a = (a \div S) * S + (a % S) /\ a \div S \in Int
  BY SMTT(30)

\* The remainder is the only number below the divisor that differs from the
\* dividend by a multiple of it.
LEMMA ModUnique ==
    ASSUME NEW S \in Nat, S > 0, NEW q \in Int, NEW r \in 0..(S - 1)
    PROVE  (q * S + r) % S = r
  BY SMTT(30)

\* Moving on by at most one lap wraps the position at most once.
LEMMA ModAdd ==
    ASSUME NEW S \in Nat, S > 0, NEW a \in Int, NEW b \in 0..S
    PROVE  (a + b) % S = IF (a % S) + b >= S THEN (a % S) + b - S ELSE (a % S) + b
<1>1. PICK q \in Int, r \in 0..(S - 1) : a = q * S + r /\ a % S = r
  BY DivMod
<1>2. CASE r + b < S
  <2>1. a + b = q * S + (r + b)
    BY <1>1
  <2>2. r + b \in 0..(S - 1)
    BY <1>2
  <2>3. (q * S + (r + b)) % S = r + b
    BY <2>2, ModUnique, Zenon
  <2> QED BY <1>1, <1>2, <2>1, <2>3
<1>3. CASE r + b >= S
  <2>1. a + b = (q + 1) * S + (r + b - S)
    BY <1>1
  <2>2. r + b - S \in 0..(S - 1) /\ q + 1 \in Int
    BY <1>1, <1>3
  <2>3. ((q + 1) * S + (r + b - S)) % S = r + b - S
    BY <2>2, ModUnique, Zenon
  <2> QED BY <1>1, <1>3, <2>1, <2>3
<1> QED BY <1>1, <1>2, <1>3

\* The same with the ring's Wrap.
LEMMA WrapAdd ==
    ASSUME NEW a \in Int, NEW b \in 0..Size
    PROVE  (a + b) % Size = Wrap((a % Size) + b)
<1>1. Size \in Nat /\ Size > 0
  OBVIOUS
<1>2. (a + b) % Size = IF (a % Size) + b >= Size THEN (a % Size) + b - Size ELSE (a % Size) + b
  BY <1>1, ModAdd, Zenon
<1> QED BY <1>2 DEF Wrap

\* Aligning a length down neither makes it negative nor increases it.
LEMMA FloorToBound ==
    ASSUME NEW n \in Nat
    PROVE  FloorTo(n) \in 0..n
<1>1. CASE Aligned > 0
  BY <1>1, SMTT(30) DEF FloorTo
<1>2. CASE ~(Aligned > 0)
  BY <1>2 DEF FloorTo
<1> QED BY <1>1, <1>2

\* What a get() copies is at most what is ready, and that is at most a ring.
LEMMA CopyLenBound ==
    ASSUME TypeOK, NEW r \in Readers
    PROVE  /\ Ready(r) \in 0..Size
           /\ CopyLen(r) \in 0..Ready(r)
           /\ CopyLen(r) <= ReadSize
<1>1. rd[r].pos \in Cells /\ writePos \in Cells
  BY DEF TypeOK
<1>2. Ready(r) \in 0..Size
  BY <1>1 DEF Ready, Cells
<1> DEFINE m == IF Ready(r) <= ReadSize THEN Ready(r) ELSE ReadSize
<1>3. m \in Nat /\ m <= Ready(r) /\ m <= ReadSize
  BY <1>2
<1>4. FloorTo(m) \in 0..m
  BY <1>3, FloorToBound
<1>5. CopyLen(r) = FloorTo(m)
  BY DEF CopyLen
<1> QED BY <1>2, <1>3, <1>4, <1>5

-------------------------------------------------------------------------------
(* Type correctness *)

\* An empty ring has the right type.
LEMMA TypeInit == Init => TypeOK
  BY DEF Init, TypeOK, Cells, Uninit

\* Every step keeps the types.
LEMMA TypeStep == TypeOK /\ [Next]_vars => TypeOK'
<1> SUFFICES ASSUME TypeOK, [Next]_vars
             PROVE  TypeOK'
  OBVIOUS
<1>1. ASSUME NEW len \in Lens, PutCopy(len)
      PROVE  TypeOK'
  <2>1. len \in 1..Size /\ Total \in Nat
    BY <1>1 DEF PutCopy, TypeOK, Total
  <2>2. buf' \in [Cells -> Nat \cup {Uninit}]
    <3>1. \A c \in Cells : Offset(c) \in Nat
      BY DEF Offset, Cells, TypeOK
    <3> QED BY <1>1, <2>1, <3>1 DEF PutCopy, TypeOK
  <2>3. writePos' \in Cells
    BY <1>1, <2>1 DEF PutCopy, TypeOK, Wrap, Cells
  <2> QED BY <1>1, <2>1, <2>2, <2>3 DEF PutCopy, TypeOK
<1>2. CASE PutCount
  BY <1>2 DEF PutCount, TypeOK
<1>3. ASSUME NEW r \in Readers, Anchor(r)
      PROVE  TypeOK'
  BY <1>3 DEF Anchor, ring, TypeOK, Total
<1>4. ASSUME NEW r \in Readers, Overrun(r)
      PROVE  TypeOK'
  <2>1. [start |-> at[r], lag |-> Lag(r), resync |-> TRUE, data |-> <<>>]
          \in [start : Int, lag : Int, resync : BOOLEAN, data : Seq(Nat \cup {Uninit})]
    BY DEF TypeOK, Lag, Total
  <2>2. out' \in [Readers -> [start : Int, lag : Int, resync : BOOLEAN,
                             data : Seq(Nat \cup {Uninit})]]
    BY <1>4, <2>1 DEF Overrun, TypeOK
  <2> QED BY <1>4, <2>2 DEF Overrun, ring, TypeOK, Total
<1>5. ASSUME NEW r \in Readers, Read(r)
      PROVE  TypeOK'
  <2>1. /\ Ready(r) \in 0..Size
        /\ CopyLen(r) \in 0..Ready(r)
    BY CopyLenBound
  <2>2. rd[r].pos \in Cells /\ writePos \in Cells /\ Since(r) \in Int
    BY DEF TypeOK, Since
  <2>3. Wrap(rd[r].pos + CopyLen(r)) \in Cells
    BY <2>1, <2>2 DEF Ready, Cells, Wrap
  <2>4. rd' \in [Readers -> [pos : Cells, count : Nat, first : BOOLEAN]]
    BY <1>5, <2>3 DEF Read, TypeOK
  <2>5. at' \in [Readers -> Int]
    BY <1>5, <2>1 DEF Read, TypeOK, Total
  <2>6. maxBacklog' \in 0..(Size - 1)
    BY <1>5, <2>2 DEF Read, TypeOK
  <2> DEFINE got == [i \in 1..CopyLen(r) |-> buf[Wrap(rd[r].pos + i - 1)]]
  <2>7. got \in Seq(Nat \cup {Uninit})
    <3>1. \A i \in 1..CopyLen(r) : Wrap(rd[r].pos + i - 1) \in Cells
      BY <2>1, <2>2 DEF Wrap, Cells
    <3>2. \A i \in 1..CopyLen(r) : got[i] \in Nat \cup {Uninit}
      BY <3>1 DEF TypeOK
    <3> QED BY <2>1, <3>2
  <2>8. out' \in [Readers -> [start : Int, lag : Int, resync : BOOLEAN,
                             data : Seq(Nat \cup {Uninit})]]
    <3> HIDE DEF got
    <3>1. [start |-> at[r], lag |-> Lag(r), resync |-> FALSE, data |-> got]
            \in [start : Int, lag : Int, resync : BOOLEAN, data : Seq(Nat \cup {Uninit})]
      BY <2>7 DEF TypeOK, Lag, Total
    <3>2. out' = [out EXCEPT ![r] =
                     [start |-> at[r], lag |-> Lag(r), resync |-> FALSE, data |-> got]]
      BY <1>5 DEF Read, got
    <3> QED BY <3>1, <3>2 DEF TypeOK
  <2> QED BY <1>5, <2>4, <2>5, <2>6, <2>8 DEF Read, ring, TypeOK
<1>6. CASE ClearMaxBacklog
  BY <1>6 DEF ClearMaxBacklog, ring, TypeOK
<1>7. CASE UNCHANGED vars
  BY <1>7 DEF vars, ring, TypeOK
<1> QED
  BY <1>1, <1>2, <1>3, <1>4, <1>5, <1>6, <1>7 DEF Next, Get

\* The ring's state stays in range: no position outside the ring, no put longer
\* than it, no cursor outside it (the assertions after the wrap in get()).
THEOREM TypeCorrect == Spec => []TypeOK
<1>1. Init => TypeOK
  BY TypeInit
<1>2. TypeOK /\ [Next]_vars => TypeOK'
  BY TypeStep
<1> QED BY <1>1, <1>2, PTL DEF Spec

-------------------------------------------------------------------------------
(* The contents of the ring, and the congruence of its positions *)

\* The cell that holds the k-th last byte written.
CellBack(k) == IF k <= writePos THEN writePos - k ELSE writePos - k + Size

\* An empty ring holds nothing, and position 0 is byte 0.
LEMMA RingInit == Init => RingHoldsTail /\ PositionsCongruent
<1> SUFFICES ASSUME Init
             PROVE  RingHoldsTail /\ PositionsCongruent
  OBVIOUS
<1>1. 0 % Size = 0
  BY ModUnique, 0 * Size + 0 = 0
<1>2. PositionsCongruent
  BY <1>1 DEF Init, PositionsCongruent, Total
<1>3. RingHoldsTail
  BY DEF Init, RingHoldsTail, Total, Cells
<1> QED BY <1>2, <1>3

\* A put() writes len bytes after the last one and leaves the others alone: the
\* last Size bytes are still in their cells, seen from the new write position.
LEMMA PutCopyKeepsTail ==
    ASSUME TypeOK, RingHoldsTail, NEW len \in Lens, PutCopy(len)
    PROVE  RingHoldsTail'
<1>1. /\ len \in 1..Size
      /\ Total \in Nat
      /\ writePos \in 0..(Size - 1)
      /\ Total' = Total + len
      /\ writePos' = IF writePos + len >= Size THEN writePos + len - Size
                                               ELSE writePos + len
  BY DEF PutCopy, TypeOK, Total, Wrap, Cells
<1>2. SUFFICES ASSUME NEW k \in 1..Size
               PROVE  buf'[IF k <= writePos' THEN writePos' - k ELSE writePos' - k + Size] =
                        IF k <= Total' THEN Total' - k ELSE Uninit
  BY DEF RingHoldsTail
<1> DEFINE c == IF k <= writePos' THEN writePos' - k ELSE writePos' - k + Size
<1>3. c \in 0..(Size - 1)
  BY <1>1
<1>4. buf'[c] = IF Offset(c) < len THEN Total + Offset(c) ELSE buf[c]
  BY <1>3 DEF PutCopy, Cells
<1>5. CASE k <= len
  <2>1. Offset(c) = len - k
    BY <1>1, <1>3, <1>5 DEF Offset
  <2>2. buf'[c] = Total + (len - k)
    BY <1>1, <1>4, <1>5, <2>1
  <2>3. k <= Total' /\ Total' - k = Total + (len - k)
    BY <1>1, <1>5
  <2> QED BY <2>2, <2>3
<1>6. CASE k > len
  <2> DEFINE j == k - len
  <2>1. j \in 1..Size
    BY <1>1, <1>6
  <2>2. c = CellBack(j) /\ Offset(c) = Size - j
    BY <1>1, <1>3, <1>6 DEF Offset, CellBack
  <2>3. buf'[c] = buf[CellBack(j)]
    BY <1>1, <1>4, <1>6, <2>2
  <2>4. buf[CellBack(j)] = IF j <= Total THEN Total - j ELSE Uninit
    BY <2>1 DEF RingHoldsTail, CellBack
  <2> QED BY <1>1, <1>6, <2>1, <2>3, <2>4
<1> QED BY <1>1, <1>5, <1>6

\* What a read copies is the latest Ready(r) bytes written: a cursor stands at a
\* byte of the last ring, whatever lap it was left on.
LEMMA ReadyCongruent ==
    ASSUME TypeOK, PositionsCongruent, NEW r \in Readers
    PROVE  /\ Ready(r) \in 1..Size
           /\ (Total - Ready(r)) % Size = rd[r].pos
<1> DEFINE q == Total \div Size
<1>1. Total \in Nat /\ rd[r].pos \in 0..(Size - 1) /\ writePos \in 0..(Size - 1)
  BY DEF TypeOK, Total, Cells
<1>0. Size \in Nat /\ Size > 0
  OBVIOUS
<1>2. Total = q * Size + writePos /\ q \in Int /\ q - 1 \in Int
  BY <1>1, DivMod DEF PositionsCongruent
<1> HIDE DEF q
<1>3. CASE rd[r].pos < writePos
  <2>1. Ready(r) = writePos - rd[r].pos /\ Total - Ready(r) = q * Size + rd[r].pos
    BY <1>1, <1>2, <1>3 DEF Ready
  <2>2. (q * Size + rd[r].pos) % Size = rd[r].pos
    BY <1>0, <1>1, <1>2, ModUnique, Zenon
  <2> QED BY <1>1, <1>3, <2>1, <2>2
<1>4. CASE ~(rd[r].pos < writePos)
  <2>1. /\ Ready(r) = Size - rd[r].pos + writePos
        /\ Total - Ready(r) = (q - 1) * Size + rd[r].pos
    BY <1>1, <1>2, <1>4 DEF Ready
  <2>2. ((q - 1) * Size + rd[r].pos) % Size = rd[r].pos
    BY <1>0, <1>1, <1>2, ModUnique, Zenon
  <2> QED BY <1>1, <1>4, <2>1, <2>2
<1> QED BY <1>3, <1>4

\* Every step keeps the ring's content and the congruence of its positions.
LEMMA RingStep ==
    TypeOK /\ RingHoldsTail /\ PositionsCongruent /\ [Next]_vars
        => RingHoldsTail' /\ PositionsCongruent'
<1> SUFFICES ASSUME TypeOK, RingHoldsTail, PositionsCongruent, [Next]_vars
             PROVE  RingHoldsTail' /\ PositionsCongruent'
  OBVIOUS
<1>1. ASSUME NEW len \in Lens, PutCopy(len)
      PROVE  RingHoldsTail' /\ PositionsCongruent'
  <2>1. RingHoldsTail'
    BY <1>1, PutCopyKeepsTail
  <2>2. len \in 0..Size /\ Total \in Int /\ Total' = Total + len
    BY <1>1 DEF PutCopy, TypeOK, Total
  <2>3. (Total + len) % Size = Wrap((Total % Size) + len)
    BY <2>2, WrapAdd, Zenon
  <2>4. PositionsCongruent'
    BY <1>1, <2>2, <2>3 DEF PutCopy, PositionsCongruent
  <2> QED BY <2>1, <2>4
<1>2. CASE PutCount
  <2>1. Total' = Total
    BY <1>2 DEF PutCount, TypeOK, Total
  <2>2. buf' = buf /\ writePos' = writePos /\ rd' = rd /\ at' = at
    BY <1>2 DEF PutCount
  <2>3. RingHoldsTail'
    BY <2>1, <2>2 DEF RingHoldsTail
  <2> QED BY <2>1, <2>2, <2>3 DEF PositionsCongruent
<1>3. ASSUME NEW r \in Readers, Anchor(r) \/ Overrun(r)
      PROVE  RingHoldsTail' /\ PositionsCongruent'
  <2>1. /\ Total' = Total /\ buf' = buf /\ writePos' = writePos
        /\ rd'[r].pos = writePos /\ at'[r] = Total
        /\ \A s \in Readers \ {r} : rd'[s] = rd[s] /\ at'[s] = at[s]
    BY <1>3 DEF Anchor, Overrun, ring, Total, TypeOK
  <2> QED BY <2>1 DEF RingHoldsTail, PositionsCongruent
<1>4. ASSUME NEW r \in Readers, Read(r)
      PROVE  RingHoldsTail' /\ PositionsCongruent'
  <2>1. /\ Total' = Total /\ buf' = buf /\ writePos' = writePos
        /\ rd'[r].pos = Wrap(rd[r].pos + CopyLen(r))
        /\ at'[r] = Total - Ready(r) + CopyLen(r)
        /\ \A s \in Readers \ {r} : rd'[s] = rd[s] /\ at'[s] = at[s]
    BY <1>4 DEF Read, ring, Total, TypeOK
  <2>2. CopyLen(r) \in 0..Size /\ Total - Ready(r) \in Int
    <3>1. CopyLen(r) \in 0..Ready(r) /\ Ready(r) \in 1..Size
      BY CopyLenBound, ReadyCongruent, Zenon
    <3>2. Total \in Int
      BY DEF TypeOK, Total
    <3> QED BY <3>1, <3>2
  <2>3. (Total - Ready(r) + CopyLen(r)) % Size = Wrap(rd[r].pos + CopyLen(r))
    <3>1. (Total - Ready(r) + CopyLen(r)) % Size
             = Wrap(((Total - Ready(r)) % Size) + CopyLen(r))
      BY <2>2, WrapAdd, Zenon
    <3> QED BY <3>1, ReadyCongruent
  <2>4. RingHoldsTail'
    BY <2>1 DEF RingHoldsTail
  <2>5. rd'[r].pos = at'[r] % Size
    BY <2>1, <2>3 DEF PositionsCongruent
  <2>6. PositionsCongruent'
    BY <2>1, <2>5 DEF PositionsCongruent
  <2> QED BY <2>4, <2>6
<1>5. CASE ClearMaxBacklog \/ UNCHANGED vars
  BY <1>5 DEF ClearMaxBacklog, vars, ring, Total, RingHoldsTail, PositionsCongruent
<1> QED
  BY <1>1, <1>2, <1>3, <1>4, <1>5 DEF Next, Get

\* Whatever the interleaving of put() and get(), and between the two steps of a
\* put(), the ring holds the last Size bytes written, in order.
THEOREM RingCorrect == Spec => []RingHoldsTail
<1> DEFINE Inv == TypeOK /\ RingHoldsTail /\ PositionsCongruent
<1>1. Init => Inv
  BY TypeInit, RingInit
<1>2. Inv /\ [Next]_vars => Inv'
  BY TypeStep, RingStep
<1>3. Inv => RingHoldsTail
  OBVIOUS
<1> QED BY <1>1, <1>2, <1>3, PTL DEF Spec

-------------------------------------------------------------------------------
(* What viewers are handed, on one worker thread *)

\* The parts of the inductive invariant that a read relies on.
Base == TypeOK /\ RingHoldsTail /\ PositionsCongruent /\ CursorsBehind

\* With no put() in progress and a viewer that has not been lapped, what get()
\* takes for ready is exactly what the viewer is due.
LEMMA ReadyIsLag ==
    ASSUME Base, NEW r \in Readers, pending = 0, ~rd[r].first, ~NoNewData(r),
           Lag(r) <= Size
    PROVE  /\ Lag(r) \in 1..Size
           /\ Ready(r) = Lag(r)
           /\ writePos = Wrap(rd[r].pos + Lag(r))
<1>1. /\ at[r] \in Nat /\ dataCount \in Nat /\ Total = dataCount
      /\ rd[r].count \in Nat
      /\ rd[r].pos \in 0..(Size - 1) /\ writePos \in 0..(Size - 1)
  BY DEF Base, TypeOK, CursorsBehind, Total, Cells
<1>2. /\ Lag(r) \in 0..Size
      /\ at[r] + Lag(r) = Total
      /\ at[r] <= rd[r].count /\ rd[r].count <= dataCount
  BY <1>1 DEF Base, CursorsBehind, Lag
<1>3. (at[r] + Lag(r)) % Size = Wrap((at[r] % Size) + Lag(r))
  <2>1. at[r] \in Int
    BY <1>1
  <2> QED BY <1>2, <2>1, WrapAdd, Zenon
<1>4. writePos = Wrap(rd[r].pos + Lag(r))
  BY <1>2, <1>3 DEF Base, PositionsCongruent
<1>5. Lag(r) # 0
  <2>1. SUFFICES ASSUME Lag(r) = 0
                 PROVE  FALSE
    OBVIOUS
  <2>2. writePos = rd[r].pos
    BY <1>1, <1>4, <2>1 DEF Wrap
  <2>3. Since(r) = 0
    BY <1>1, <1>2, <2>1 DEF Since
  <2> QED BY <2>2, <2>3 DEF NoNewData
<1>6. Ready(r) = Lag(r)
  BY <1>1, <1>2, <1>4, <1>5 DEF Ready, Wrap
<1> QED BY <1>2, <1>4, <1>5, <1>6

\* A viewer that has been lapped reads from a byte that is a whole number of
\* rings after the one it was due, never from one before it.
LEMMA ReadyWithinLag ==
    ASSUME Base, NEW r \in Readers, pending = 0, ~rd[r].first, ~NoNewData(r)
    PROVE  /\ Ready(r) <= Lag(r)
           /\ (Total - Ready(r) - at[r]) % Size = 0
           /\ Total - Ready(r) = at[r] \/ Lag(r) > Size
<1>1. /\ at[r] \in Nat /\ Total \in Nat /\ Lag(r) = Total - at[r]
      /\ Ready(r) \in 1..Size
      /\ (Total - Ready(r)) % Size = rd[r].pos /\ at[r] % Size = rd[r].pos
  BY ReadyCongruent DEF Base, TypeOK, CursorsBehind, PositionsCongruent, Total, Lag
<1>2. Lag(r) <= Size => Ready(r) = Lag(r)
  BY ReadyIsLag
<1>3. (Total - Ready(r) - at[r]) % Size = 0
  <2>1. Total - Ready(r) \in Int /\ at[r] \in Int /\ Size \in Nat /\ Size > 0
    BY <1>1
  <2>2. PICK m \in Int : Total - Ready(r) = m * Size + ((Total - Ready(r)) % Size)
    BY <2>1, DivMod, Zenon
  <2>3. PICK n \in Int : at[r] = n * Size + (at[r] % Size)
    BY <2>1, DivMod, Zenon
  <2>4. Total - Ready(r) - at[r] = (m - n) * Size + 0
    <3>1. rd[r].pos \in Int
      BY DEF Base, TypeOK, Cells
    <3> QED BY <1>1, <2>2, <2>3, <3>1
  <2>5. m - n \in Int /\ 0 \in 0..(Size - 1)
    BY <2>1
  <2>6. ((m - n) * Size + 0) % Size = 0
    BY <2>1, <2>5, ModUnique, Zenon
  <2> QED BY <2>4, <2>6
<1> QED BY <1>1, <1>2, <1>3

\* The bytes a read copies are consecutive, from the one the cursor stands at.
LEMMA CopiesConsecutive ==
    ASSUME Base, NEW r \in Readers, pending = 0, ~rd[r].first, ~NoNewData(r),
           NEW i \in 1..CopyLen(r)
    PROVE  buf[Wrap(rd[r].pos + i - 1)] = Total - Ready(r) + i - 1
<1>1. /\ Ready(r) \in 1..Size
      /\ CopyLen(r) \in 0..Ready(r)
      /\ Ready(r) <= Lag(r)
  BY ReadyCongruent, CopyLenBound, ReadyWithinLag DEF Base
<1>2. /\ at[r] \in Nat /\ Total \in Nat /\ Lag(r) = Total - at[r]
      /\ rd[r].pos \in 0..(Size - 1) /\ writePos \in 0..(Size - 1)
  BY DEF Base, TypeOK, CursorsBehind, Total, Cells, Lag
<1> DEFINE k == Ready(r) - (i - 1)
<1>3. k \in 1..Size /\ k <= Total /\ Total - k = Total - Ready(r) + i - 1
  BY <1>1, <1>2
<1>4. CellBack(k) = Wrap(rd[r].pos + i - 1)
  BY <1>1, <1>2 DEF CellBack, Wrap, Ready
<1>5. buf[CellBack(k)] = Total - k
  BY <1>3 DEF Base, RingHoldsTail, CellBack
<1> QED BY <1>3, <1>4, <1>5

\* For a viewer that has not been lapped they are the ones it is due.
LEMMA CopiesWhatIsDue ==
    ASSUME Base, NEW r \in Readers, pending = 0, ~rd[r].first, ~NoNewData(r),
           Lag(r) <= Size, NEW i \in 1..CopyLen(r)
    PROVE  buf[Wrap(rd[r].pos + i - 1)] = at[r] + i - 1
<1>1. Ready(r) = Lag(r) /\ at[r] \in Int /\ Total \in Int
  BY ReadyIsLag DEF Base, TypeOK, Total
<1>2. Total - Ready(r) = at[r]
  BY <1>1 DEF Lag
<1> QED BY <1>2, CopiesConsecutive

\* A viewer that has not joined is owed nothing.
LEMMA ViewInit == Init => CursorsBehind /\ InOrder /\ ResyncOnlyRingBehind
  BY DEF Init, CursorsBehind, InOrder, ResyncOnlyRingBehind, Total

\* A ring of bytes counted since the last get() puts the viewer a ring behind.
LEMMA OverrunIsLapped ==
    ASSUME Base, NEW r \in Readers, pending = 0, ~rd[r].first, Since(r) >= Size
    PROVE  Lag(r) >= Size
  BY DEF Base, TypeOK, CursorsBehind, Lag, Since, Total

\* One viewer's part of the properties, and the steps that leave it alone.
ViewOK(r) ==
    /\ at[r] \in 0..Total
    /\ rd[r].count <= dataCount
    /\ ~rd[r].first => at[r] <= rd[r].count
    /\ out[r].lag <= Size =>
          /\ Len(out[r].data) <= out[r].lag
          /\ \A i \in 1..Len(out[r].data) : out[r].data[i] = out[r].start + i - 1
    /\ out[r].resync => out[r].lag >= Size

Views == CursorsBehind /\ InOrder /\ ResyncOnlyRingBehind

\* The viewers' part of the invariant, viewer by viewer.
LEMMA ViewsAreEach == Views <=> \A r \in Readers : ViewOK(r)
  BY DEF Views, ViewOK, CursorsBehind, InOrder, ResyncOnlyRingBehind

\* A resync leaves the viewer at the write head.
LEMMA OverrunView ==
    ASSUME Base, NEW r \in Readers, pending = 0, Overrun(r)
    PROVE  ViewOK(r)'
<1>1. /\ ~rd[r].first /\ Since(r) >= Size
      /\ rd'[r] = [pos |-> writePos, count |-> dataCount, first |-> FALSE]
      /\ at'[r] = Total /\ dataCount' = dataCount /\ pending' = pending
      /\ out'[r] = [start |-> at[r], lag |-> Lag(r), resync |-> TRUE, data |-> <<>>]
  BY DEF Overrun, ring, Base, TypeOK
<1>2. Lag(r) >= Size /\ Lag(r) \in Int
  BY <1>1, OverrunIsLapped DEF Lag, Total, Base, TypeOK
<1>3. Len(<<>>) = 0
  OBVIOUS
<1>4. Total' = Total /\ Total = dataCount /\ Total \in Nat
  BY <1>1 DEF Total, Base, TypeOK
<1> QED BY <1>1, <1>2, <1>3, <1>4 DEF ViewOK

\* A read hands out what was due and moves the cursor over it.
LEMMA ReadView ==
    ASSUME Base, NEW r \in Readers, pending = 0, Read(r)
    PROVE  ViewOK(r)'
<1> DEFINE got == [i \in 1..CopyLen(r) |-> buf[Wrap(rd[r].pos + i - 1)]]
<1>1. /\ ~rd[r].first /\ ~NoNewData(r)
      /\ rd'[r] = [pos |-> Wrap(rd[r].pos + CopyLen(r)), count |-> dataCount, first |-> FALSE]
      /\ at'[r] = Total - Ready(r) + CopyLen(r)
      /\ dataCount' = dataCount /\ pending' = pending
      /\ out'[r] = [start |-> at[r], lag |-> Lag(r), resync |-> FALSE, data |-> got]
  BY DEF Read, ring, Base, TypeOK
<1>2. CopyLen(r) \in 0..Size /\ CopyLen(r) \in 0..Ready(r)
  BY CopyLenBound DEF Base
<1>3. Len(got) = CopyLen(r)
  BY <1>2
<1>4. /\ at[r] \in Nat /\ Total \in Nat /\ Total' = Total /\ Total = dataCount
      /\ Lag(r) \in Nat /\ at[r] + Lag(r) = Total
  BY <1>1 DEF Base, TypeOK, CursorsBehind, Lag, Total
<1>7. Ready(r) \in 1..Size /\ at'[r] \in 0..Total
  <2>1. Ready(r) \in 1..Size
    BY ReadyCongruent DEF Base
  <2>2. Ready(r) <= Lag(r)
    BY <1>1, ReadyWithinLag
  <2> QED BY <1>1, <1>2, <1>4, <2>1, <2>2
<1>5. CASE Lag(r) <= Size
  <2>1. CopyLen(r) <= Lag(r)
    BY <1>1, <1>2, <1>5, ReadyIsLag
  <2>2. \A i \in 1..CopyLen(r) : got[i] = at[r] + i - 1
    BY <1>1, <1>5, CopiesWhatIsDue
  <2> HIDE DEF got
  <2> QED BY <1>1, <1>3, <1>4, <1>7, <2>1, <2>2 DEF ViewOK
<1>6. CASE Lag(r) > Size
  <2> HIDE DEF got
  <2> QED BY <1>1, <1>2, <1>4, <1>6, <1>7 DEF ViewOK
<1> QED BY <1>4, <1>5, <1>6

\* Every step keeps every viewer's part.
LEMMA ViewStep ==
    SameWorker /\ TypeOK /\ RingHoldsTail /\ PositionsCongruent /\ Views /\ [Next]_vars
        => Views'
<1> SUFFICES ASSUME SameWorker, Base, Views, [Next]_vars,
                    NEW r \in Readers
             PROVE  ViewOK(r)'
  BY DEF Base, Views, ViewOK, CursorsBehind, InOrder, ResyncOnlyRingBehind
<1>1. ViewOK(r)
  BY ViewsAreEach
<1>2. /\ at[r] \in Nat /\ dataCount \in Nat /\ pending \in Nat /\ rd[r].count \in Nat
      /\ Total = dataCount + pending
  BY DEF Base, TypeOK, CursorsBehind, Total
<1>3. ASSUME NEW len \in Lens, PutCopy(len)
      PROVE  ViewOK(r)'
  BY <1>1, <1>2, <1>3 DEF PutCopy, ViewOK, Total
<1>4. CASE PutCount
  BY <1>1, <1>2, <1>4 DEF PutCount, ViewOK, Total
<1>5. ASSUME NEW s \in Readers, Get(s)
      PROVE  ViewOK(r)'
  <2>1. pending = 0
    BY <1>5, <1>2 DEF Get, Anchor, Overrun, Read, MayGet
  <2>2. CASE s # r
    <3>1. /\ rd'[r] = rd[r] /\ at'[r] = at[r] /\ out'[r] = out[r]
          /\ dataCount' = dataCount /\ Total' = Total
      BY <1>5, <2>2 DEF Get, Anchor, Overrun, Read, ring, Total, Base, TypeOK
    <3> QED BY <1>1, <3>1 DEF ViewOK
  <2>3. CASE s = r /\ Anchor(r)
    <3>1. /\ rd'[r] = [pos |-> writePos, count |-> dataCount, first |-> FALSE]
          /\ at'[r] = Total /\ out'[r] = out[r]
          /\ dataCount' = dataCount /\ Total' = Total
      BY <2>3 DEF Anchor, ring, Total, Base, TypeOK
    <3> QED BY <1>1, <1>2, <2>1, <3>1 DEF ViewOK
  <2>4. CASE s = r /\ Overrun(r)
    BY <2>1, <2>4, OverrunView
  <2>5. CASE s = r /\ Read(r)
    BY <2>1, <2>5, ReadView
  <2> QED BY <1>5, <2>2, <2>3, <2>4, <2>5 DEF Get
<1>6. CASE ClearMaxBacklog \/ UNCHANGED vars
  BY <1>1, <1>6 DEF ClearMaxBacklog, vars, ring, ViewOK, Total
<1> QED BY <1>3, <1>4, <1>5, <1>6 DEF Next

\* The invariant with all its parts is inductive.
LEMMA IInvHolds == Spec => []IInv
<1>1. Init => IInv
  BY TypeInit, RingInit, ViewInit DEF IInv
<1>2. IInv /\ [Next]_vars => IInv'
  BY TypeStep, RingStep, ViewStep DEF IInv, Views
<1> QED BY <1>1, <1>2, PTL DEF Spec

\* On one worker thread, for every ring size, read size and alignment: a viewer
\* that has not been lapped is handed exactly the bytes it is due, in order.
THEOREM DeliveryInOrder == SameWorker => (Spec => []InOrder)
<1> SUFFICES ASSUME SameWorker
             PROVE  Spec => []InOrder
  OBVIOUS
<1>1. IInv => InOrder
  BY DEF IInv
<1> QED BY <1>1, IInvHolds, PTL

\* Only a viewer a whole ring behind is resynced: get() gives up the bytes that
\* are still in the ring in one case, at exactly a ring (its >=).
THEOREM ResyncFromRingBehind == SameWorker => (Spec => []ResyncOnlyRingBehind)
<1> SUFFICES ASSUME SameWorker
             PROVE  Spec => []ResyncOnlyRingBehind
  OBVIOUS
<1>1. IInv => ResyncOnlyRingBehind
  BY DEF IInv
<1> QED BY <1>1, IInvHolds, PTL

-------------------------------------------------------------------------------
(* Refinement: on one worker, the ring is the byte stream                    *)

\* An empty ring is the stream before its first byte.
LEMMA StreamInit == Init => Stream!Init
  BY DEF Init, Stream!Init, Total

\* Every step of the ring is a step of the stream or a stutter of it.
LEMMA StreamStep ==
    ASSUME SameWorker, Base, [Next]_vars
    PROVE  [Stream!Next]_Stream!svars
<1> USE DEF Stream!svars
<1>1. ASSUME NEW len \in Lens, PutCopy(len)
      PROVE  Stream!Next
  <2>1. len \in 1..Size /\ Total' = Total + len /\ rd' = rd /\ at' = at /\ out' = out
    BY <1>1 DEF PutCopy, Total, Base, TypeOK
  <2>2. Stream!Produce
    BY <2>1 DEF Stream!Produce
  <2> QED BY <2>2 DEF Stream!Next
<1>2. CASE PutCount \/ ClearMaxBacklog \/ UNCHANGED vars
  BY <1>2 DEF PutCount, ClearMaxBacklog, vars, ring, Total, Base, TypeOK
<1>3. ASSUME NEW r \in Readers, Anchor(r)
      PROVE  Stream!Next
  <2>1. /\ Total' = Total /\ out' = out /\ rd[r].first
        /\ rd' = [rd EXCEPT ![r] = [pos |-> writePos, count |-> dataCount, first |-> FALSE]]
        /\ at' = [at EXCEPT ![r] = Total]
    BY <1>3 DEF Anchor, ring, Total
  <2>2. {s \in Readers : ~rd'[s].first} = {s \in Readers : ~rd[s].first} \cup {r}
    BY <2>1 DEF Base, TypeOK
  <2>3. Stream!Join(r)
    BY <2>1, <2>2 DEF Stream!Join
  <2> QED BY <2>3 DEF Stream!Next
<1>4. ASSUME NEW r \in Readers, Overrun(r) \/ Read(r)
      PROVE  /\ Total' = Total
             /\ {s \in Readers : ~rd'[s].first} = {s \in Readers : ~rd[s].first}
             /\ r \in {s \in Readers : ~rd[s].first}
             /\ \A s \in Readers \ {r} : out'[s] = out[s]
  <2>1. /\ ~rd[r].first
        /\ \A s \in Readers \ {r} : rd'[s] = rd[s] /\ out'[s] = out[s]
    BY <1>4 DEF Overrun, Read, Base, TypeOK
  <2>2. ~rd'[r].first
    BY <1>4 DEF Overrun, Read, Base, TypeOK
  <2>3. Total' = Total
    BY <1>4 DEF Overrun, Read, ring, Total
  <2>4. \A s \in Readers : ~rd'[s].first <=> ~rd[s].first
    BY <2>1, <2>2
  <2> QED BY <2>1, <2>3, <2>4
<1>5. ASSUME NEW r \in Readers, Overrun(r)
      PROVE  Stream!Next
  <2>1. Lag(r) >= Size
    BY <1>5, OverrunIsLapped DEF Overrun, MayGet, Base, TypeOK
  <2>2. at' = [at EXCEPT ![r] = Total] /\ out'[r].data = <<>>
    BY <1>5 DEF Overrun, Base, TypeOK
  <2>3. [s \in Readers |-> out'[s].data] =
          [[s \in Readers |-> out[s].data] EXCEPT ![r] = <<>>]
    BY <1>4, <1>5, <2>2
  <2>4. Stream!Skip(r)
    BY <1>4, <1>5, <2>1, <2>2, <2>3 DEF Stream!Skip, Lag
  <2> QED BY <2>4 DEF Stream!Next
<1>6. ASSUME NEW r \in Readers, Read(r)
      PROVE  Stream!Next
  <2>1. pending = 0 /\ ~rd[r].first /\ ~NoNewData(r)
    BY <1>6 DEF Read, MayGet, Base, TypeOK
  <2>2. PICK n \in Nat : n = CopyLen(r) /\ n <= Ready(r)
    BY CopyLenBound DEF Base
  <2>3. PICK from \in Int : from = Total - Ready(r)
    <3>1. TypeOK /\ PositionsCongruent
      BY Zenon DEF Base
    <3>2. Ready(r) \in 1..Size
      BY <3>1, ReadyCongruent, Zenon
    <3>3. Total \in Nat
      BY <3>1 DEF TypeOK, Total
    <3>4. Total - Ready(r) \in Int
      BY <3>2, <3>3
    <3> QED BY <3>4, Zenon
  <2>4. /\ from \in at[r]..Total /\ Total - from <= Size
        /\ (from - at[r]) % Size = 0
        /\ from = at[r] \/ Total - at[r] > Size
        /\ n \in 0..(Total - from)
    <3>1. /\ Ready(r) \in 1..Size /\ Ready(r) <= Lag(r)
          /\ (Total - Ready(r) - at[r]) % Size = 0
          /\ Total - Ready(r) = at[r] \/ Lag(r) > Size
      BY <2>1, ReadyCongruent, ReadyWithinLag DEF Base
    <3>2. at[r] \in Nat /\ Total \in Nat
      BY DEF Base, TypeOK, CursorsBehind, Total
    <3> QED BY <2>2, <2>3, <3>1, <3>2 DEF Lag
  <2>5. at' = [at EXCEPT ![r] = from + n]
    BY <1>6, <2>2, <2>3 DEF Read
  <2>6. out'[r].data = [i \in 1..n |-> from + i - 1]
    <3>1. out'[r].data = [i \in 1..n |-> buf[Wrap(rd[r].pos + i - 1)]]
      BY <1>6, <2>2 DEF Read, Base, TypeOK
    <3>2. \A i \in 1..n : buf[Wrap(rd[r].pos + i - 1)] = from + i - 1
      BY <2>1, <2>2, <2>3, CopiesConsecutive
    <3> QED BY <3>1, <3>2
  <2>7. [s \in Readers |-> out'[s].data] =
          [[s \in Readers |-> out[s].data] EXCEPT ![r] = [i \in 1..n |-> from + i - 1]]
    BY <1>4, <1>6, <2>6
  <2>8. Stream!Hand(r)
    <3>1. r \in {s \in Readers : ~rd[s].first} /\ Total' = Total
          /\ {s \in Readers : ~rd'[s].first} = {s \in Readers : ~rd[s].first}
      BY <1>4, <1>6
    <3> QED BY <2>4, <2>5, <2>7, <3>1 DEF Stream!Hand
  <2> QED BY <2>8 DEF Stream!Next
<1> QED
  BY <1>1, <1>2, <1>3, <1>5, <1>6 DEF Next, Get

\* On one worker the ring gives its viewers the abstract stream, for every ring
\* size, buffer and alignment: nothing twice, nothing out of order, nothing from
\* outside the last ring of bytes, and losses of the two kinds it names only.
THEOREM RingImplementsStream == SameWorker => (Spec => ImplementsByteStream)
<1> SUFFICES ASSUME SameWorker
             PROVE  Spec => Stream!Spec
  BY DEF ImplementsByteStream
<1>1. Init => Stream!Init
  BY StreamInit
<1>2. IInv => Base
  BY DEF IInv, Base
<1>3. IInv /\ [Next]_vars => [Stream!Next]_Stream!svars
  BY <1>2, StreamStep
<1> QED BY <1>1, <1>3, IInvHolds, PTL DEF Spec, Stream!Spec

===============================================================================
