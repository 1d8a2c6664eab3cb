------------------------------ MODULE BitrateLimit ------------------------------
(***************************************************************************)
(* CSLSBitrateLimit: the sliding window over the packets of one publisher, *)
(* the violation it starts and ends, and the cut when a violation lasts.   *)
(* The window keeps <<age, bytes>> per packet, oldest first; it is pruned  *)
(* only when the last cleanup is more than Gate ago, so in between it sums *)
(* more than its span.  Times are in units; at most one packet per unit    *)
(* (all packets of a unit share a timestamp and are pruned together).      *)
(***************************************************************************)
EXTENDS Tallies

CONSTANTS
    Window,     \* m_window_ms
    MinWindow,  \* the span a young window is taken to have at least: 1000 ms
    Gate,       \* a cleanup runs when the last one is more than this ago: 1000 ms
    Threshold,  \* m_violation_threshold_ms: whole seconds, one at least
    Spike,      \* m_max_bitrate_kbps * m_spike_tolerance, per unit
    MaxPacket   \* bytes in a unit, at most

ASSUME BitrateAssumption ==
    /\ {Window, MinWindow, Gate, Threshold} \subseteq Nat \ {0}
    /\ MinWindow <= Window /\ Gate <= Threshold
    /\ Spike \in Nat /\ MaxPacket \in Nat \ {0}

VARIABLES
    window,     \* m_data_window
    total,      \* m_total_bytes_in_window
    cleaned,    \* time since m_last_cleanup_time
    violation   \* time since m_violation_start_time, or NoViolation

limiter == <<window, total, cleaned, violation>>

NoViolation == -1

LimiterInit ==
    /\ window = <<>> /\ total = 0 /\ cleaned = 0 /\ violation = NoViolation

LimiterReset ==
    /\ window' = <<>> /\ total' = 0 /\ cleaned' = 0 /\ violation' = NoViolation

\* The data points, and the ages of those of w.
Packets == (0 .. Window + 1) \X (1 .. MaxPacket)
Ages(w) == [i \in DOMAIN w |-> w[i][1]]

\* The bytes of the packets of w whose numbers are in S.
Load(w, S) == SumOf([i \in DOMAIN w |-> w[i][2]], S)
Bytes(w) == Load(w, DOMAIN w)

\* How many packets a cleanup pops off the front, what they take off the total,
\* and what is left.
Expired(w) == Stale(Ages(w), Window)
Kept(w) == DropFirst(w, Expired(w))

\* Mutant: the bytes of a pruned packet stay in the total.
DroppedNone(w) == 0
Dropped(w) == Load(w, 1 .. Expired(w))

\* cleanup_old_data().
Cleanup(w) ==
    IF cleaned > Gate
    THEN /\ window' = Kept(w)
         /\ cleaned' = 0
    ELSE /\ window' = w
         /\ UNCHANGED cleaned

\* The time the window is taken to span.
Span(w) ==
    LET age == w[1][1] IN
    IF age >= Window THEN Window ELSE IF age > MinWindow THEN age ELSE MinWindow

\* Mutant: a packet within the limit does not end the violation.
ViolationSticks(exceeds) ==
    violation' = IF exceeds /\ violation = NoViolation THEN 0 ELSE violation

\* Mutant: every packet over the limit starts a violation anew.
ViolationRestarts(exceeds) == violation' = IF exceeds THEN 0 ELSE NoViolation

\* A packet over the limit starts a violation, one within it ends it.
Violation(exceeds) ==
    violation' = IF ~exceeds THEN NoViolation
                 ELSE IF violation = NoViolation THEN 0 ELSE violation

\* check_data_bitrate(): the window takes the packet whatever the verdict.
CheckDataBitrate(b) ==
    LET pushed == Append(window, <<0, b>>) IN
    /\ Cleanup(pushed)
    /\ total' = total + b - (IF cleaned > Gate THEN Dropped(pushed) ELSE 0)
    /\ Violation(total' \div Span(window') > Spike)

\* BITRATE_DISCONNECT.
Disconnects == violation' >= Threshold

Until(n, bound) == IF n < bound THEN n + 1 ELSE n

\* Time passes for the limiter.  An age beyond every comparison stays put.
LimiterAges ==
    /\ window' = [i \in DOMAIN window |-> <<Until(window[i][1], Window + 1), window[i][2]>>]
    /\ cleaned' = Until(cleaned, Gate + 1)
    /\ violation' = IF violation = NoViolation THEN NoViolation ELSE Until(violation, Threshold)
    /\ UNCHANGED total

-------------------------------------------------------------------------------
(* The real rate, for the properties. *)

\* Over every span of time the limiter divides by, the packets stay within the
\* limit.
WithinLimit(w) ==
    \A span \in MinWindow .. Window :
        Load(w, {i \in DOMAIN w : w[i][1] <= span}) <= Spike * span
===============================================================================
