----------------------------- MODULE RecycleArray -----------------------------
(***************************************************************************)
(* CSLSRecycleArray (SLSRecycleArray.cpp): the byte ring between the one   *)
(* publisher of a stream and its viewers.                                  *)
(*                                                                         *)
(* The k-th byte written is represented by the number k, so that what a    *)
(* reader is handed can be compared with what it should have been handed.  *)
(* put() is two steps, as in the code: the copy under the write lock, and  *)
(* the increment of m_nDataCount after the lock is released.  get() holds  *)
(* the read lock throughout and is one step.                               *)
(*                                                                         *)
(* SameWorker says whether writer and readers run on one worker thread     *)
(* (worker_threads 1, the shipped configuration) or on several; on one     *)
(* thread no get() can fall between the two steps of a put().              *)
(***************************************************************************)
EXTENDS Integers, Sequences

CONSTANTS
    Size,        \* m_nDataSize, fixed by setSize() before the first put()
    Readers,     \* one SLSRecycleArrayID each
    ReadSize,    \* get()'s size argument (DATA_BUFF_SIZE)
    Aligned,     \* get()'s aligned argument; 0 is no alignment
    Lens,        \* the lengths put() is called with
    SameWorker,  \* TRUE: one worker thread serves writer and readers
    MaxTotal     \* bound of the model: bytes ever written

ASSUME SizeAssumption == Size \in Nat \ {0}
ASSUME ReadAssumption == ReadSize \in Nat /\ Aligned \in Nat
ASSUME LensAssumption == Lens \subseteq Int
ASSUME WorkerAssumption == SameWorker \in BOOLEAN
ASSUME BoundAssumption == MaxTotal \in Nat

VARIABLES
    buf,         \* m_arrayData: which byte each cell holds
    writePos,    \* m_nWritePos
    dataCount,   \* m_nDataCount
    pending,     \* bytes copied by a put() that has not yet counted them
    rd,          \* rd[r]: the reader's SLSRecycleArrayID
    overruns,    \* m_overrun_count
    maxBacklog,  \* m_max_reader_backlog
    at,          \* history: the byte after the last one r was handed
    out          \* history: out[r] describes r's last get()

ring == <<buf, writePos, dataCount, pending>>
vars == <<ring, rd, overruns, maxBacklog, at, out>>

Uninit == -1     \* what new char[] leaves in a cell
Cells == 0..(Size - 1)

\* Bytes copied into the ring so far, and how far r is behind them.
Total == dataCount + pending
Lag(r) == Total - at[r]

\* Mutant: the end of the ring is noticed one cell late.
WrapLate(p) == IF p > Size THEN p - Size ELSE p
Wrap(p) == IF p >= Size THEN p - Size ELSE p

Init ==
    /\ buf = [c \in Cells |-> Uninit]
    /\ writePos = 0
    /\ dataCount = 0
    /\ pending = 0
    /\ rd = [r \in Readers |-> [pos |-> 0, count |-> 0, first |-> TRUE]]
    /\ overruns = 0
    /\ maxBacklog = 0
    /\ at = [r \in Readers |-> 0]
    /\ out = [r \in Readers |-> [start |-> 0, lag |-> 0, resync |-> FALSE, data |-> <<>>]]

-------------------------------------------------------------------------------
(* put() *)

\* Where the j-th byte of a put lands, seen from the cell: the offset of cell
\* c from the write position, going round the ring.
Offset(c) == IF c >= writePos THEN c - writePos ELSE c - writePos + Size

\* Mutant: the part of a packet that goes round the ring's end is not copied.
PutCopyNoWrap(len) ==
    /\ pending = 0
    /\ len > 0 /\ len <= Size
    /\ Total + len <= MaxTotal
    /\ buf' = [c \in Cells |-> IF c >= writePos /\ Offset(c) < len
                               THEN Total + Offset(c) ELSE buf[c]]
    /\ writePos' = Wrap(writePos + len)
    /\ pending' = len
    /\ UNCHANGED <<dataCount, rd, overruns, maxBacklog, at, out>>

\* The part of put() under the write lock: copy, with wrap, and advance.
PutCopy(len) ==
    /\ pending = 0
    /\ len > 0 /\ len <= Size
    /\ Total + len <= MaxTotal
    /\ buf' = [c \in Cells |-> IF Offset(c) < len THEN Total + Offset(c) ELSE buf[c]]
    /\ writePos' = Wrap(writePos + len)
    /\ pending' = len
    /\ UNCHANGED <<dataCount, rd, overruns, maxBacklog, at, out>>

\* The fetch_add after the lock has been released.
PutCount ==
    /\ pending > 0
    /\ dataCount' = dataCount + pending
    /\ pending' = 0
    /\ UNCHANGED <<buf, writePos, rd, overruns, maxBacklog, at, out>>

-------------------------------------------------------------------------------
(* get() *)

MayGet == ~SameWorker \/ pending = 0

Since(r) == dataCount - rd[r].count
\* Mutant: the early return for a reader with nothing new is gone.
NoNewDataNever(r) == FALSE
\* Mutant: only the count is looked at, not what a partial read has left.
NoNewDataByCount(r) == Since(r) = 0
NoNewData(r) == rd[r].pos = writePos /\ Since(r) = 0
Ready(r) == IF rd[r].pos < writePos THEN writePos - rd[r].pos
                                    ELSE Size - rd[r].pos + writePos
FloorTo(n) == IF Aligned > 0 THEN (n \div Aligned) * Aligned ELSE n
CopyLen(r) == FloorTo(IF Ready(r) <= ReadSize THEN Ready(r) ELSE ReadSize)

\* The first call of a viewer takes its position and returns nothing.
Anchor(r) ==
    /\ MayGet
    /\ rd[r].first
    /\ rd' = [rd EXCEPT ![r] = [pos |-> writePos, count |-> dataCount, first |-> FALSE]]
    /\ at' = [at EXCEPT ![r] = Total]
    /\ UNCHANGED <<ring, overruns, maxBacklog, out>>

\* Mutant: a resync samples the count but leaves the read position.
OverrunKeepsPosition(r) ==
    /\ MayGet
    /\ ~rd[r].first /\ ~NoNewData(r)
    /\ Since(r) >= Size
    /\ overruns' = overruns + 1
    /\ rd' = [rd EXCEPT ![r] = [pos |-> @.pos, count |-> dataCount, first |-> FALSE]]
    /\ out' = [out EXCEPT ![r] =
                 [start |-> at[r], lag |-> Lag(r), resync |-> TRUE, data |-> <<>>]]
    /\ UNCHANGED <<ring, at, maxBacklog>>

\* Mutant: a reader is resynced when more than its own buffer is waiting.
OverrunEarly(r) ==
    /\ MayGet
    /\ ~rd[r].first /\ ~NoNewData(r)
    /\ Since(r) > ReadSize
    /\ overruns' = overruns + 1
    /\ rd' = [rd EXCEPT ![r] = [pos |-> writePos, count |-> dataCount, first |-> FALSE]]
    /\ at' = [at EXCEPT ![r] = Total]
    /\ out' = [out EXCEPT ![r] =
                 [start |-> at[r], lag |-> Lag(r), resync |-> TRUE, data |-> <<>>]]
    /\ UNCHANGED <<ring, maxBacklog>>

\* The writer has advanced a ring or more since the last call: resync.
Overrun(r) ==
    /\ MayGet
    /\ ~rd[r].first /\ ~NoNewData(r)
    /\ Since(r) >= Size
    /\ overruns' = overruns + 1
    /\ rd' = [rd EXCEPT ![r] = [pos |-> writePos, count |-> dataCount, first |-> FALSE]]
    /\ at' = [at EXCEPT ![r] = Total]
    /\ out' = [out EXCEPT ![r] =
                 [start |-> at[r], lag |-> Lag(r), resync |-> TRUE, data |-> <<>>]]
    /\ UNCHANGED <<ring, maxBacklog>>

\* The copying path: what is copied is what the cells hold, the latest Ready(r)
\* bytes written.  The cursor's count becomes the writer's count whatever the
\* number of bytes copied.
Read(r) ==
    /\ MayGet
    /\ ~rd[r].first /\ ~NoNewData(r)
    /\ Since(r) < Size
    /\ maxBacklog' = IF Since(r) > maxBacklog THEN Since(r) ELSE maxBacklog
    /\ rd' = [rd EXCEPT ![r] = [pos |-> Wrap(rd[r].pos + CopyLen(r)),
                                 count |-> dataCount, first |-> FALSE]]
    /\ at' = [at EXCEPT ![r] = Total - Ready(r) + CopyLen(r)]
    /\ out' = [out EXCEPT ![r] =
                 [start |-> at[r], lag |-> Lag(r), resync |-> FALSE,
                  data |-> [i \in 1..CopyLen(r) |-> buf[Wrap(rd[r].pos + i - 1)]]]]
    /\ UNCHANGED <<ring, overruns>>

\* The stats endpoint reads the high-water mark and clears it.
ClearMaxBacklog ==
    /\ maxBacklog # 0
    /\ maxBacklog' = 0
    /\ UNCHANGED <<ring, rd, overruns, at, out>>

-------------------------------------------------------------------------------
Get(r) == Anchor(r) \/ Overrun(r) \/ Read(r)

Next ==
    \/ \E len \in Lens : PutCopy(len)
    \/ PutCount
    \/ \E r \in Readers : Get(r)
    \/ ClearMaxBacklog

Spec == Init /\ [][Next]_vars

\* Each worker pass calls get() for every viewer it serves, and a put() that
\* was begun returns.
Fairness == WF_vars(PutCount) /\ \A r \in Readers : WF_vars(Get(r))
FairSpec == Spec /\ Fairness

-------------------------------------------------------------------------------
(* Properties *)

TypeOK ==
    /\ buf \in [Cells -> Nat \cup {Uninit}]
    /\ writePos \in Cells
    /\ dataCount \in Nat
    /\ pending \in 0..Size
    /\ rd \in [Readers -> [pos : Cells, count : Nat, first : BOOLEAN]]
    /\ overruns \in Nat
    /\ maxBacklog \in 0..(Size - 1)
    /\ at \in [Readers -> Int]
    /\ out \in [Readers -> [start : Int, lag : Int, resync : BOOLEAN,
                            data : Seq(Nat \cup {Uninit})]]

\* The ring always holds exactly the last Size bytes written, each in the cell
\* the write position says, also while a put() has copied but not counted.
RingHoldsTail ==
    \A k \in 1..Size :
        buf[IF k <= writePos THEN writePos - k ELSE writePos - k + Size] =
            IF k <= Total THEN Total - k ELSE Uninit

\* A viewer that has not been lapped is handed the bytes it is due: no gap, no
\* repetition, no byte of another lap, and never more bytes than were written.
InOrder ==
    \A r \in Readers : out[r].lag <= Size =>
        /\ Len(out[r].data) <= out[r].lag
        /\ \A i \in 1..Len(out[r].data) : out[r].data[i] = out[r].start + i - 1

\* A viewer is thrown forward to the live edge only from a whole ring behind.  At
\* exactly a ring the bytes it was due are all still there and are given up (the
\* code's >= where the comment above it says "more than"); nearer than that
\* get() never discards what it could still deliver.
ResyncOnlyRingBehind ==
    \A r \in Readers : out[r].resync => out[r].lag >= Size

\* The overrun check works: a viewer that has been lapped is handed nothing
\* and resynced (the comment on the overrun check in get()).
OverrunDetected ==
    \A r \in Readers : out[r].lag > Size => out[r].resync

\* Liveness: a viewer that is behind is served, call after call, until what is
\* left is less than one aligned unit; it does not stall with data ready.
Unserved(r) ==
    LET behind == (writePos - rd[r].pos + Size) % Size IN
        ~rd[r].first /\ behind > 0 /\ behind >= Aligned
Drains == \A r \in Readers : []<>~Unserved(r)

-------------------------------------------------------------------------------
(* The inductive invariant                                                   *)

\* Both positions are logical stream positions taken modulo the ring.
PositionsCongruent ==
    /\ writePos = Total % Size
    /\ \A r \in Readers : rd[r].pos = at[r] % Size

\* On one worker a viewer is never ahead of the writer, and what its cursor's
\* count has been set to covers at least what it has been handed.
CursorsBehind ==
    \A r \in Readers :
        /\ at[r] \in 0..Total
        /\ rd[r].count <= dataCount
        /\ ~rd[r].first => at[r] <= rd[r].count

\* RingHoldsTail and InOrder are not inductive alone: which byte a cell holds
\* and which cell a viewer reads next are tied together by the congruence.
IInv ==
    /\ TypeOK
    /\ RingHoldsTail
    /\ PositionsCongruent
    /\ SameWorker => CursorsBehind /\ InOrder /\ ResyncOnlyRingBehind

-------------------------------------------------------------------------------
(* On one worker the ring implements the byte stream, whatever the buffer.  *)

Stream == INSTANCE ByteStream WITH
              Window <- Size,
              produced <- Total,
              joined <- {r \in Readers : ~rd[r].first},
              next <- at,
              handed <- [r \in Readers |-> out[r].data]

\* Every behaviour of the ring is one of the byte stream.
ImplementsByteStream == Stream!Spec
===============================================================================
