--------------------------- MODULE PusherRelay_proofs ---------------------------
(***************************************************************************)
(* Proofs about PusherRelay, for every number of workers, upstreams and    *)
(* pushers and every interval.  Each upstream has one token, held by the   *)
(* pusher that is bound to the manager or by the entry in the manager's    *)
(* retry map; the manager's lock passes it from one to the other.          *)
(***************************************************************************)
EXTENDS PusherRelay, FiniteSetTheorems, TLAPS

Records == [url : 0 .. Upstreams, at : {"none", "handoff"} \cup Workers,
            bound : BOOLEAN, dead : BOOLEAN]
Ops == [pc : {"idle", "start", "teardown", "uninit", "call", "looked", "retry"},
        next : Nat \ {0}, pusher : Pushers \cup {"none"},
        noPub : BOOLEAN, ret : {"ok", "err"}, all : {"ok", "err"}]

\* The parts of the invariant that say where a pusher and a worker can be.
Shape == StateOK /\ OpShape /\ DeletedLeft /\ PusherShape

-------------------------------------------------------------------------------
\* The initial state satisfies the invariant.
LEMMA InitInv == Init => IInv
<1> SUFFICES ASSUME Init PROVE IInv
  OBVIOUS
<1> USE RelayAssumption
<1>1. StateOK
  <2>1. waiting \in [Urls -> NotWaiting .. Interval] /\ tried \in [Urls -> 0 .. Interval]
    BY DEF Init, NotWaiting
  <2>2. pusher \in [Pushers -> Records]
    BY DEF Init, Records, Absent
  <2> QED BY <2>1, <2>2 DEF Init, StateOK, Records
<1>2. OpShape /\ DeletedLeft
  <2>1. Idle \in Ops
    BY DEF Ops, Idle
  <2>2. op \in [Workers -> Ops] /\ \A w \in Workers : op[w] = Idle
    BY <2>1 DEF Init
  <2>3. DeletedLeft
    BY DEF Init, DeletedLeft
  <2> QED BY <2>2, <2>3 DEF OpShape, Ops, Idle
<1>3. \A p \in Pushers : ~Exists(p)
  BY DEF Init, Exists, Absent
<1>4. PusherShape /\ OneToken
  BY <1>3 DEF PusherShape, OneToken, Holds
<1>5. OneRetry /\ StartShape /\ EntriesAreLater
  BY <1>3 DEF Init, OneRetry, StartShape, EntriesAreLater, Idle
<1> QED
  BY <1>1, <1>2, <1>4, <1>5 DEF IInv

-------------------------------------------------------------------------------
\* Every step keeps the types.
LEMMA TypeStep ==
    ASSUME Shape, StartShape, [Next]_vars
    PROVE  StateOK'
<1> USE RelayAssumption DEF StateOK, Shape, Records
<1>1. ASSUME NEW u \in Urls, Opened(u) PROVE pusher' \in [Pushers -> Records]
  BY <1>1 DEF Opened, Urls
<1>2. Absent \in Records
  BY DEF Absent
<1>3. CASE Spawn
  BY <1>3 DEF Spawn, lists, lifetimes, ghosts
<1>4. CASE ConnectAll
  <2> DEFINE u == op[Home].next
  <2>1. u \in Urls /\ (Opened(u) \/ pusher' = pusher)
    BY <1>4 DEF ConnectAll, StartShape
  <2>2. pusher' \in [Pushers -> Records]
    BY <1>1, <2>1
  <2>3. /\ waiting' = waiting \/ waiting' = [waiting EXCEPT ![u] = 0]
        /\ tried' = [tried EXCEPT ![u] = 0]
        /\ UNCHANGED <<pub, mgr, queued, lifetimes, freedUse, early>>
    BY <1>4 DEF ConnectAll
  <2>4. waiting' \in [Urls -> NotWaiting .. Interval] /\ tried' \in [Urls -> 0 .. Interval]
    <3>1. tried' \in [Urls -> 0 .. Interval]
      <4>1. tried \in [Urls -> 0 .. Interval] /\ 0 \in 0 .. Interval
        OBVIOUS
      <4> HIDE DEF u, StateOK, Shape
      <4> QED BY <2>3, <4>1
    <3>2. waiting' \in [Urls -> NotWaiting .. Interval]
      BY <2>3 DEF NotWaiting
    <3> QED BY <3>1, <3>2
  <2> QED BY <2>2, <2>3, <2>4 DEF lifetimes
<1>5. CASE Detach
  BY <1>2, <1>5 DEF Detach, lists, lifetimes, ghosts
<1>6. CASE Unlist \/ FreeManager
  BY <1>6 DEF Unlist, FreeManager, lists, lifetimes, ghosts
<1>7. ASSUME NEW w \in Workers, NEW p \in Pushers, Adopt(w, p) \/ Discard(w, p) \/ Reap(w, p)
      PROVE  StateOK'
  BY <1>7 DEF Adopt, Discard, Reap, lists, lifetimes, ghosts
<1>8. ASSUME NEW w \in Workers, UninitLoad(w) PROVE StateOK'
  BY <1>2, <1>8 DEF UninitLoad, lists, lifetimes, ghosts
<1>9. ASSUME NEW w \in Workers, AddReconnectStream(w) PROVE StateOK'
  <2> DEFINE p == op[w].pusher
  <2>1. /\ waiting' = [waiting EXCEPT ![pusher[p].url] = 0]
        /\ pusher' = [pusher EXCEPT ![p] = Absent]
        /\ freedUse' \in BOOLEAN /\ UNCHANGED <<pub, mgr, queued, lifetimes, ghosts>>
    BY <1>9 DEF AddReconnectStream, CallsManager
  <2>2. waiting' \in [Urls -> NotWaiting .. Interval]
    <3>1. waiting \in [Urls -> NotWaiting .. Interval] /\ 0 \in NotWaiting .. Interval
      BY DEF NotWaiting
    <3> DEFINE v == pusher[p].url
    <3> HIDE DEF v, StateOK, Shape
    <3> QED BY <2>1, <3>1 DEF v
  <2>3. pusher' \in [Pushers -> Records]
    BY <1>2, <2>1
  <2> QED BY <2>1, <2>2, <2>3 DEF lifetimes, ghosts
<1>10. ASSUME NEW w \in Workers, Reconnect(w) \/ ReconnectLocked(w) PROVE StateOK'
  BY <1>10 DEF Reconnect, ReconnectLocked, lists, lifetimes, ghosts, CallsManager
<1>11. ASSUME NEW w \in Workers, Retry(w) PROVE StateOK'
  <2> DEFINE u == op[w].next
  <2>1. /\ (u \in Urls /\ Opened(u)) \/ pusher' = pusher
        /\ waiting' = waiting \/ waiting' = [waiting EXCEPT ![u] = 0]
                              \/ waiting' = [waiting EXCEPT ![u] = NotWaiting]
        /\ tried' = tried \/ tried' = [tried EXCEPT ![u] = 0]
        /\ early' \in BOOLEAN
    BY <1>11 DEF Retry, RetrySkip, RetryNoPublisher, RetryFails, RetrySucceeds, RetryDone,
                 At, Attempted, lists, ghosts
  <2>2. queued' \subseteq Workers /\ freedUse' \in BOOLEAN /\ UNCHANGED <<pub, mgr, lifetimes>>
    BY <1>11 DEF Retry, RetrySkip, RetryNoPublisher, RetryFails, RetrySucceeds, RetryDone,
                 CallsManager, lists
  <2>3. pusher' \in [Pushers -> Records]
    BY <1>1, <2>1
  <2>4. waiting' \in [Urls -> NotWaiting .. Interval] /\ tried' \in [Urls -> 0 .. Interval]
    BY <2>1 DEF NotWaiting
  <2> QED BY <2>1, <2>2, <2>3, <2>4 DEF lifetimes
<1>12. ASSUME NEW w \in Workers, Exit(w) PROVE StateOK'
  BY <1>12 DEF Exit, lists, ghosts
<1>13. ASSUME NEW p \in Pushers, Die(p) PROVE StateOK'
  BY <1>13 DEF Die, lists, lifetimes, ghosts
<1>14. CASE Reload \/ CheckInvalid
  <2>1. /\ other' = other /\ workers' \subseteq Workers
        /\ reload' \in BOOLEAN /\ astray' \in BOOLEAN
    BY <1>14 DEF Reload, CheckInvalid
  <2>2. UNCHANGED <<pub, mgr, lists, pusher, exited, stopped, freedUse, ghosts>>
    BY <1>14 DEF Reload, CheckInvalid
  <2> QED BY <2>1, <2>2 DEF lists, ghosts
<1>15. CASE Stop
  BY <1>2, <1>15 DEF Stop, lists, ghosts
<1>18. ASSUME NEW w \in Workers, OtherComes(w) \/ OtherLeaves(w) PROVE StateOK'
  BY <1>18 DEF OtherComes, OtherLeaves, lists, ghosts
<1>16. CASE Clock
  BY <1>16 DEF Clock, lifetimes, Until, NotWaiting
<1>17. CASE UNCHANGED vars
  BY <1>17 DEF vars, lists, lifetimes, ghosts
<1> QED
  BY <1>3, <1>4, <1>5, <1>6, <1>7, <1>8, <1>9, <1>10, <1>11, <1>12, <1>13, <1>14, <1>15,
     <1>16, <1>17, <1>18 DEF Next, Work

\* A worker that is deleted has left its loop, and none comes back.
LEMMA DeletedStep ==
    ASSUME DeletedLeft, [Next]_vars
    PROVE  DeletedLeft'
<1>1. CASE CheckInvalid
  BY <1>1 DEF CheckInvalid, DeletedLeft
<1>2. ASSUME NEW w \in Workers, Exit(w) PROVE DeletedLeft'
  BY <1>2 DEF Exit, DeletedLeft
<1>3. CASE workers' = workers /\ exited' = exited
  BY <1>3 DEF DeletedLeft
<1> QED
  BY <1>1, <1>2, <1>3
     DEF Next, Work, Spawn, ConnectAll, Detach, Unlist, FreeManager, Adopt, Discard, Reap,
         UninitLoad, AddReconnectStream, Reconnect, ReconnectLocked, Retry, RetrySkip,
         RetryNoPublisher, RetryFails, RetrySucceeds, RetryDone, Die, OtherComes, OtherLeaves,
         Reload, Stop, Clock, vars, lifetimes

\* One worker moves on; the pushers of the others stay where they are.
LEMMA OpMoves ==
    ASSUME OpShape, NEW w \in Workers, NEW o \in Ops, w \notin exited,
           op' = [op EXCEPT ![w] = o], exited' = exited,
           o.pc = "idle" => o = Idle,
           o.pc \in {"uninit", "call"} => o.pusher \in Pushers /\ pusher'[o.pusher].at = w,
           \A p \in Pushers : pusher[p].at \in Workers \ {w} => pusher'[p].at = pusher[p].at
    PROVE  OpShape'
<1>1. op \in [Workers -> Ops]
  BY DEF OpShape, Ops
<1>2. op' \in [Workers -> Ops] /\ op'[w] = o /\ \A v \in Workers : v # w => op'[v] = op[v]
  BY <1>1
<1>3. ASSUME NEW v \in Workers
      PROVE  /\ op'[v].pc = "idle" => op'[v] = Idle
             /\ v \in exited' => op'[v].pc = "idle"
             /\ op'[v].pc \in {"uninit", "call"} =>
                  op'[v].pusher \in Pushers /\ pusher'[op'[v].pusher].at = v
  <2>1. CASE v = w
    BY <1>2, <2>1
  <2>2. CASE v # w
    BY <1>2, <2>2 DEF OpShape
  <2> QED BY <2>1, <2>2
<1> QED
  BY <1>2, <1>3 DEF OpShape, Ops

\* No worker moves, and adopted pushers stay where they are.
LEMMA OpStays ==
    ASSUME OpShape, op' = op, exited' = exited,
           \A p \in Pushers : pusher[p].at \in Workers => pusher'[p].at = pusher[p].at
    PROVE  OpShape'
<1>1. ASSUME NEW v \in Workers, op[v].pc \in {"uninit", "call"}
      PROVE  op[v].pusher \in Pushers /\ pusher'[op[v].pusher].at = v
  BY <1>1 DEF OpShape
<1> QED
  BY <1>1 DEF OpShape

\* Every step keeps what a worker is inside in order.
LEMMA OpStep ==
    ASSUME Shape, StartShape, [Next]_vars
    PROVE  OpShape'
<1> USE RelayAssumption DEF Shape
<1>0. /\ op \in [Workers -> Ops] /\ pusher \in [Pushers -> Records]
      /\ \A o \in Ops : o.next \in Nat \ {0}
  BY DEF OpShape, StateOK, Ops, Records
<1>a. Idle \in Ops
  BY DEF Ops, Idle
<1>b. ASSUME NEW u \in Urls, Opened(u), NEW p \in Pushers, pusher[p].at \in Workers
      PROVE  pusher'[p].at = pusher[p].at
  BY <1>0, <1>b DEF Opened, Exists
<1>1. CASE Spawn
  <2>1. op' = [op EXCEPT ![Home] = [Idle EXCEPT !.pc = "start"]]
    BY <1>0, <1>1 DEF Spawn, Free, Goto, OpShape
  <2>2. [Idle EXCEPT !.pc = "start"] \in Ops /\ [Idle EXCEPT !.pc = "start"].pc = "start"
    BY <1>a DEF Ops
  <2> QED BY <1>1, <2>1, <2>2, OpMoves DEF Spawn, Free, lifetimes
<1>2. CASE ConnectAll
  <2> DEFINE u == op[Home].next
  <2>1. u \in Urls
    BY <1>2 DEF ConnectAll, StartShape
  <2>2. \A p \in Pushers : pusher[p].at \in Workers => pusher'[p].at = pusher[p].at
    <3>1. Opened(u) \/ pusher' = pusher
      BY <1>2 DEF ConnectAll
    <3> HIDE DEF u
    <3> QED BY <1>b, <2>1, <3>1
  <2>3. Home \notin exited /\ exited' = exited
    BY <1>2 DEF ConnectAll, OpShape, lifetimes
  <2>4. CASE u = Upstreams
    <3>1. op' = [op EXCEPT ![Home] = Idle]
      BY <1>2, <2>4 DEF ConnectAll, Return
    <3> QED BY <1>a, <2>2, <2>3, <3>1, OpMoves DEF Idle
  <2>5. CASE u # Upstreams
    <3> DEFINE o == [op[Home] EXCEPT !.next = u + 1]
    <3>1. op' = [op EXCEPT ![Home] = o]
      BY <1>0, <1>2, <2>5 DEF ConnectAll
    <3>2. o \in Ops /\ o.pc = "start"
      BY <1>0, <1>2, <2>1 DEF ConnectAll, Ops, Urls
    <3> HIDE DEF o
    <3> QED BY <2>2, <2>3, <3>1, <3>2, OpMoves
  <2> QED BY <2>4, <2>5
<1>3. CASE Detach
  <2>1. op' = [op EXCEPT ![Home] = [Idle EXCEPT !.pc = "teardown"]]
    BY <1>0, <1>3 DEF Detach, Free, Goto, OpShape
  <2>2. [Idle EXCEPT !.pc = "teardown"] \in Ops /\ [Idle EXCEPT !.pc = "teardown"].pc = "teardown"
    BY <1>a DEF Ops
  <2>3. ASSUME NEW p \in Pushers, pusher[p].at \in Workers PROVE pusher'[p].at = pusher[p].at
    BY <1>0, <1>3, <2>3 DEF Detach, Exists, Records
  <2> QED BY <1>3, <2>1, <2>2, <2>3, OpMoves DEF Detach, Free, lifetimes
<1>4. CASE Unlist
  BY <1>4, OpStays DEF Unlist, lifetimes
<1>5. CASE FreeManager
  <2>1. Home \notin exited /\ op' = [op EXCEPT ![Home] = Idle]
    BY <1>5 DEF FreeManager, Return, OpShape
  <2> QED BY <1>a, <1>5, <2>1, OpMoves DEF FreeManager, lifetimes, Idle
<1>6. ASSUME NEW w \in Workers, NEW p \in Pushers, Adopt(w, p) PROVE OpShape'
  <2>1. ASSUME NEW q \in Pushers, pusher[q].at \in Workers PROVE pusher'[q].at = pusher[q].at
    BY <1>0, <1>6, <2>1 DEF Adopt
  <2> QED BY <1>6, <2>1, OpStays DEF Adopt, lifetimes
<1>7. ASSUME NEW w \in Workers, NEW p \in Pushers, Discard(w, p) \/ Reap(w, p) PROVE OpShape'
  <2> DEFINE o == [Idle EXCEPT !.pc = "uninit", !.pusher = p]
  <2>1. o \in Ops /\ o.pc = "uninit" /\ o.pusher = p
    BY <1>a DEF Ops
  <2>2. op' = [op EXCEPT ![w] = o] /\ w \notin exited /\ exited' = exited
    BY <1>7 DEF Discard, Reap, Uninit, Free, lifetimes
  <2>3. pusher'[p].at = w
    BY <1>0, <1>7 DEF Discard, Reap, Records
  <2>4. ASSUME NEW q \in Pushers, pusher[q].at \in Workers \ {w} PROVE pusher'[q].at = pusher[q].at
    BY <1>0, <1>7, <2>4 DEF Discard, Reap
  <2> HIDE DEF o
  <2> QED BY <2>1, <2>2, <2>3, <2>4, OpMoves
<1>8. ASSUME NEW w \in Workers, UninitLoad(w) PROVE OpShape'
  <2> DEFINE p == op[w].pusher
  <2>1. w \notin exited /\ exited' = exited /\ p \in Pushers /\ pusher[p].at = w
    BY <1>8 DEF UninitLoad, OpShape, lifetimes
  <2>2. CASE pusher[p].bound
    <3> DEFINE o == [op[w] EXCEPT !.pc = "call"]
    <3>1. op' = [op EXCEPT ![w] = o] /\ pusher' = pusher
      BY <1>0, <1>8, <2>2 DEF UninitLoad, Goto
    <3>2. o \in Ops /\ o.pc = "call" /\ o.pusher = p
      BY <1>0 DEF Ops
    <3> HIDE DEF o
    <3> QED BY <2>1, <3>1, <3>2, OpMoves
  <2>3. CASE ~pusher[p].bound
    <3>1. op' = [op EXCEPT ![w] = Idle] /\ pusher' = [pusher EXCEPT ![p] = Absent]
      BY <1>8, <2>3 DEF UninitLoad, Return
    <3>2. \A q \in Pushers : pusher[q].at \in Workers \ {w} => pusher'[q].at = pusher[q].at
      BY <1>0, <2>1, <3>1
    <3> QED BY <1>a, <2>1, <3>1, <3>2, OpMoves DEF Idle
  <2> QED BY <2>2, <2>3
<1>9. ASSUME NEW w \in Workers, AddReconnectStream(w) PROVE OpShape'
  <2> DEFINE p == op[w].pusher
  <2>1. w \notin exited /\ exited' = exited /\ p \in Pushers /\ pusher[p].at = w
    BY <1>9 DEF AddReconnectStream, OpShape, lifetimes
  <2>2. op' = [op EXCEPT ![w] = Idle] /\ pusher' = [pusher EXCEPT ![p] = Absent]
    BY <1>9 DEF AddReconnectStream, Return
  <2>3. \A q \in Pushers : pusher[q].at \in Workers \ {w} => pusher'[q].at = pusher[q].at
    BY <1>0, <2>1, <2>2
  <2> QED BY <1>a, <2>1, <2>2, <2>3, OpMoves DEF Idle
<1>10. ASSUME NEW w \in Workers, Reconnect(w) PROVE OpShape'
  <2> DEFINE o == [Idle EXCEPT !.pc = "looked", !.noPub = ~Registered]
  <2>1. op' = [op EXCEPT ![w] = o]
    BY <1>10 DEF Reconnect
  <2>2. o \in Ops /\ o.pc = "looked"
    BY <1>a DEF Ops, Registered
  <2> HIDE DEF o
  <2> QED BY <1>10, <2>1, <2>2, OpMoves DEF o, Reconnect, Free, lifetimes
<1>11. ASSUME NEW w \in Workers, ReconnectLocked(w) PROVE OpShape'
  <2> DEFINE o == [op[w] EXCEPT !.pc = "retry"]
  <2>1. op' = [op EXCEPT ![w] = o] /\ pusher' = pusher
    BY <1>0, <1>11 DEF ReconnectLocked, Goto
  <2>2. o \in Ops /\ o.pc = "retry"
    BY <1>0 DEF Ops
  <2>3. w \notin exited /\ exited' = exited
    BY <1>11 DEF ReconnectLocked, OpShape, lifetimes
  <2> HIDE DEF o
  <2> QED BY <2>1, <2>2, <2>3, OpMoves
<1>12. ASSUME NEW w \in Workers, Retry(w) PROVE OpShape'
  <2>1. op[w].pc = "retry" /\ exited' = exited
    BY <1>12 DEF Retry, RetrySkip, RetryNoPublisher, RetryFails, RetrySucceeds, RetryDone,
                 At, lifetimes
  <2>2. w \notin exited
    BY <2>1 DEF OpShape
  <2>3. CASE RetryDone(w)
    <3>1. op' = [op EXCEPT ![w] = Idle] /\ pusher' = pusher
      BY <2>3 DEF RetryDone, Return
    <3> QED BY <1>a, <2>1, <2>2, <3>1, OpMoves DEF Idle
  <2>4. CASE ~RetryDone(w)
    <3>1. \E ret, all \in {"ok", "err"} : Next1(w, ret, all)
      <4>1. op[w].ret \in {"ok", "err"}
        BY <1>0 DEF Ops
      <4>2. RetrySkip(w) \/ RetryNoPublisher(w) \/ RetryFails(w) \/ RetrySucceeds(w)
        BY <1>12, <2>4 DEF Retry
      <4> QED BY <4>1, <4>2 DEF RetrySkip, RetryNoPublisher, RetryFails, RetrySucceeds
    <3>2. PICK ret \in {"ok", "err"}, all \in {"ok", "err"} : Next1(w, ret, all)
      BY <3>1
    <3> DEFINE o == [op[w] EXCEPT !.next = @ + 1, !.ret = ret,
                                  !.all = IF all = "ok" THEN @ ELSE "err"]
    <3>3. op' = [op EXCEPT ![w] = o]
      BY <1>0, <3>2 DEF Next1
    <3>4. o \in Ops /\ o.pc = "retry"
      <4>1. /\ op[w] \in Ops /\ op[w].next + 1 \in Nat \ {0}
            /\ (IF all = "ok" THEN op[w].all ELSE "err") \in {"ok", "err"}
        BY <1>0 DEF Ops
      <4> QED BY <2>1, <4>1 DEF Ops
    <3>5. \A p \in Pushers : pusher[p].at \in Workers => pusher'[p].at = pusher[p].at
      <4>1. (op[w].next \in Urls /\ Opened(op[w].next)) \/ pusher' = pusher
        BY <1>12, <2>4 DEF Retry, RetrySkip, RetryNoPublisher, RetryFails, RetrySucceeds, At
      <4> QED BY <1>b, <4>1
    <3> HIDE DEF o
    <3> QED BY <2>1, <2>2, <3>3, <3>4, <3>5, OpMoves
  <2> QED BY <2>3, <2>4
<1>13. ASSUME NEW w \in Workers, Exit(w) PROVE OpShape'
  BY <1>13 DEF Exit, Free, OpShape
<1>14. ASSUME NEW p \in Pushers, Die(p) PROVE OpShape'
  <2>1. ASSUME NEW q \in Pushers PROVE pusher'[q].at = pusher[q].at
    BY <1>0, <1>14 DEF Die, Records
  <2> QED BY <1>14, <2>1, OpStays DEF Die, lifetimes
<1>15. CASE Stop
  <2>1. \A w \in Workers : op[w].pc = "idle"
    BY <1>15 DEF Stop, OpShape, DeletedLeft
  <2> QED BY <1>15, <2>1 DEF Stop, OpShape
<1>16. CASE Reload \/ CheckInvalid \/ Clock \/ UNCHANGED vars
  BY <1>16, OpStays DEF Reload, CheckInvalid, Clock, vars, lifetimes
<1>17. ASSUME NEW w \in Workers, OtherComes(w) \/ OtherLeaves(w) PROVE OpShape'
  BY <1>17, OpStays DEF OtherComes, OtherLeaves
<1> QED
  BY <1>1, <1>2, <1>3, <1>4, <1>5, <1>6, <1>7, <1>8, <1>9, <1>10, <1>11, <1>12, <1>13,
     <1>14, <1>15, <1>16, <1>17 DEF Next, Work

\* Every step keeps the pushers in order.
LEMMA PusherStep ==
    ASSUME Shape, StartShape, [Next]_vars
    PROVE  PusherShape'
<1> USE RelayAssumption DEF Shape, PusherShape
<1>0. pusher \in [Pushers -> Records] /\ ~(Absent.at # "none")
  BY DEF StateOK, Records, Absent
<1>1. ASSUME NEW u \in Urls, Opened(u) PROVE PusherShape'
  BY <1>0, <1>1 DEF Opened, Exists
<1>2. CASE ConnectAll
  <2>1. op[Home].next \in Urls
    BY <1>2 DEF ConnectAll, StartShape
  <2>2. Opened(op[Home].next) \/ pusher' = pusher
    BY <1>2 DEF ConnectAll
  <2> QED BY <1>1, <2>1, <2>2 DEF Exists
<1>3. ASSUME NEW w \in Workers, Retry(w) PROVE PusherShape'
  <2>1. (op[w].next \in Urls /\ Opened(op[w].next)) \/ pusher' = pusher
    BY <1>3 DEF Retry, RetrySkip, RetryNoPublisher, RetryFails, RetrySucceeds, RetryDone, At
  <2> QED BY <1>1, <2>1 DEF Exists
<1>4. CASE Detach
  <2>1. ASSUME NEW q \in Pushers, pusher'[q].at # "none"
        PROVE  /\ pusher[q].at # "none" /\ pusher'[q].url = pusher[q].url
               /\ pusher[q].bound => pusher'[q].bound \/ pusher'[q].dead
               /\ pusher[q].dead => pusher'[q].dead
    BY <1>0, <1>4, <2>1 DEF Detach, Exists, Records
  <2> QED BY <2>1 DEF Exists
<1>5. ASSUME NEW w \in Workers, NEW p \in Pushers, Adopt(w, p) \/ Discard(w, p) \/ Reap(w, p)
      PROVE  PusherShape'
  <2>1. pusher[p].at # "none"
    BY <1>5 DEF Adopt, Discard, Reap
  <2>2. ASSUME NEW q \in Pushers
        PROVE  /\ pusher'[q].url = pusher[q].url /\ pusher'[q].bound = pusher[q].bound
               /\ pusher'[q].dead = pusher[q].dead
               /\ q # p => pusher'[q].at = pusher[q].at
    BY <1>0, <1>5 DEF Adopt, Discard, Reap, Records
  <2> QED BY <2>1, <2>2 DEF Exists
<1>6. ASSUME NEW w \in Workers, UninitLoad(w) \/ AddReconnectStream(w) PROVE PusherShape'
  BY <1>0, <1>6 DEF UninitLoad, AddReconnectStream, Exists
<1>7. ASSUME NEW p \in Pushers, Die(p) PROVE PusherShape'
  BY <1>0, <1>7 DEF Die, Exists
<1>8. CASE Stop
  BY <1>0, <1>8 DEF Stop, Exists
<1>9. CASE pusher' = pusher
  BY <1>9 DEF Exists
<1> QED
  BY <1>2, <1>3, <1>4, <1>5, <1>6, <1>7, <1>8, <1>9
     DEF Next, Work, Spawn, Unlist, FreeManager, Reconnect, ReconnectLocked, Exit, OtherComes,
         OtherLeaves, Reload, CheckInvalid, Clock, vars

\* The manager's lock lets one worker into the retry pass.
LEMMA RetryStep ==
    ASSUME Shape, OneRetry, [Next]_vars
    PROVE  OneRetry'
<1> USE DEF Shape, OneRetry
<1>0. op \in [Workers -> Ops]
  BY DEF OpShape, Ops
<1>1. ASSUME NEW w \in Workers, ReconnectLocked(w) PROVE OneRetry'
  BY <1>0, <1>1 DEF ReconnectLocked, LockFree, Goto
<1>2. CASE \A v \in Workers : op'[v].pc = "retry" => op[v].pc = "retry"
  BY <1>2
<1>3. ASSUME NEW w \in Workers, NEW o, op' = [op EXCEPT ![w] = o],
             o.pc = "retry" => op[w].pc = "retry"
      PROVE  OneRetry'
  BY <1>0, <1>2, <1>3
<1>4. ASSUME NEW w \in Workers, NEW pc \in {"start", "teardown", "call"}, Goto(w, pc)
      PROVE  OneRetry'
  BY <1>0, <1>2, <1>4 DEF Goto, Ops
<1>5. ASSUME NEW w \in Workers, Return(w) PROVE OneRetry'
  BY <1>3, <1>5 DEF Return, Idle
<1>6. ASSUME NEW w \in Workers, NEW p \in Pushers, Uninit(w, p) PROVE OneRetry'
  BY <1>3, <1>6 DEF Uninit, Idle
<1>7. ASSUME NEW w \in Workers, Reconnect(w) PROVE OneRetry'
  <2>1. op' = [op EXCEPT ![w] = [Idle EXCEPT !.pc = "looked", !.noPub = ~Registered]]
    BY <1>7 DEF Reconnect
  <2> QED BY <1>3, <2>1 DEF Idle
<1>8. ASSUME NEW w \in Workers, NEW ret, NEW all, Next1(w, ret, all) PROVE OneRetry'
  BY <1>0, <1>2, <1>8 DEF Next1, Ops
<1>9. CASE ConnectAll
  <2>1. CASE op' = [op EXCEPT ![Home].next = op[Home].next + 1]
    BY <1>0, <1>2, <2>1 DEF Ops
  <2> QED BY <1>5, <1>9, <2>1, RelayAssumption DEF ConnectAll
<1>10. CASE op' = op
  BY <1>10
<1>11. ASSUME NEW w \in Workers, Retry(w) PROVE OneRetry'
  BY <1>5, <1>8, <1>11
     DEF Retry, RetrySkip, RetryNoPublisher, RetryFails, RetrySucceeds, RetryDone
<1> QED
  BY <1>1, <1>4, <1>5, <1>6, <1>7, <1>9, <1>10, <1>11, RelayAssumption
     DEF Next, Work, Spawn, Detach, Unlist, FreeManager, Adopt, Discard, Reap, UninitLoad,
         AddReconnectStream, Exit, OtherComes, OtherLeaves, Die, Reload, CheckInvalid, Stop,
         Clock, vars

-------------------------------------------------------------------------------
(* The token of an upstream.                                                 *)

\* Home is inside connect_all() only if it was, at the same upstream.
SameStart == op'[Home].pc = "start" => op[Home].pc = "start" /\ op'[Home].next = op[Home].next

\* It goes nowhere as long as no pusher is opened and no entry is made.
LEMMA TokensShrink ==
    ASSUME PusherShape, OneToken, StartShape, SameStart, mgr' = "none" <=> mgr = "none",
           \A p \in Pushers : Exists(p)' => Exists(p),
           \A p \in Pushers : Holds(p)' => Holds(p) /\ pusher'[p].url = pusher[p].url,
           \A u \in Urls : waiting[u] = NotWaiting => waiting'[u] = NotWaiting
    PROVE  OneToken' /\ StartShape'
<1>1. OneToken'
  BY DEF OneToken, PusherShape, Holds
<1>2. ASSUME NEW u \in Urls, Unopened(u) PROVE Unopened(u)'
  BY <1>2 DEF Unopened
<1> QED
  BY <1>1, <1>2 DEF StartShape, SameStart

\* It becomes the entry of its upstream.
LEMMA TokenEntered ==
    ASSUME PusherShape, OneToken, NEW u \in Urls, waiting \in [Urls -> NotWaiting .. Interval],
           waiting' = [waiting EXCEPT ![u] = 0],
           \A p \in Pushers : Holds(p)' =>
              Holds(p) /\ pusher'[p].url = pusher[p].url /\ pusher[p].url # u
    PROVE  OneToken' /\ \A v \in Urls : v # u /\ Unopened(v) => Unopened(v)'
<1>1. OneToken'
  BY DEF OneToken, PusherShape, Holds
<1>2. ASSUME NEW v \in Urls, v # u, Unopened(v) PROVE Unopened(v)'
  BY <1>2 DEF Unopened
<1> QED
  BY <1>1, <1>2

\* It is taken by a pusher that is opened.
LEMMA TokenOpened ==
    ASSUME Shape, OneToken, NEW u \in Urls, Opened(u),
           \A p \in Pushers : Holds(p) => pusher[p].url # u,
           \A p \in Pushers : Calls(p)' => Calls(p),
           waiting'[u] = NotWaiting, \A v \in Urls : v # u => waiting'[v] = waiting[v]
    PROVE  OneToken' /\ \A v \in Urls : v # u /\ Unopened(v) => Unopened(v)'
<1> USE DEF Shape
<1>1. PICK p \in Pushers :
         /\ ~Exists(p)
         /\ pusher' = [pusher EXCEPT ![p] =
                         [url |-> u, at |-> "handoff", bound |-> TRUE, dead |-> FALSE]]
  BY DEF Opened
<1>2. pusher \in [Pushers -> Records]
  BY DEF StateOK, Records
<1>3. ASSUME NEW q \in Pushers, q # p, Holds(q)'
      PROVE  Holds(q) /\ pusher'[q].url = pusher[q].url /\ pusher[q].url # u
  <2>1. pusher'[q] = pusher[q]
    BY <1>1, <1>2, <1>3
  <2>2. Holds(q)
    BY <1>3, <2>1 DEF Holds, Exists
  <2> QED BY <2>1, <2>2
<1>4. pusher'[p].url = u
  BY <1>1, <1>2
<1>5. OneToken'
  <2>1. ASSUME NEW q \in Pushers, Holds(q)' PROVE waiting'[pusher'[q].url] = NotWaiting
    BY <1>3, <1>4, <2>1 DEF OneToken, PusherShape, Holds
  <2>2. ASSUME NEW q \in Pushers, NEW r \in Pushers, Holds(q)', Holds(r)',
               pusher'[q].url = pusher'[r].url
        PROVE  q = r
    BY <1>3, <1>4, <2>2 DEF OneToken
  <2> QED BY <2>1, <2>2 DEF OneToken
<1>6. ASSUME NEW v \in Urls, v # u, Unopened(v) PROVE Unopened(v)'
  BY <1>3, <1>4, <1>6 DEF Unopened
<1> QED
  BY <1>5, <1>6

\* Every step keeps each upstream's token, or hands it on.
LEMMA TokenStep ==
    ASSUME Shape, OneToken, StartShape, [Next]_vars
    PROVE  OneToken' /\ StartShape'
<1> USE RelayAssumption DEF Shape
<1>0. /\ op \in [Workers -> Ops] /\ pusher \in [Pushers -> Records]
      /\ waiting \in [Urls -> NotWaiting .. Interval]
      /\ ~(Absent.at # "none")
  BY DEF OpShape, StateOK, Ops, Records, Absent
<1>a. ASSUME NEW w \in Workers, NEW o, op' = [op EXCEPT ![w] = o], o.pc # "call"
      PROVE  \A p \in Pushers : Calls(p)' => Calls(p)
  BY <1>0, <1>a DEF Calls
<1>b. ASSUME NEW w \in Workers, NEW o, op' = [op EXCEPT ![w] = o], o.pc # "start"
      PROVE  SameStart
  BY <1>0, <1>b DEF SameStart
<1>c. /\ Idle.pc = "idle"
      /\ \A p \in Pushers : [Idle EXCEPT !.pc = "uninit", !.pusher = p].pc = "uninit"
      /\ \A none \in BOOLEAN : [Idle EXCEPT !.pc = "looked", !.noPub = none].pc = "looked"
  BY DEF Idle
<1>d. ASSUME mgr = "none" PROVE \A p \in Pushers : ~Exists(p)
  BY <1>d DEF StartShape
<1>1. CASE Spawn
  <2>1. /\ op' = [op EXCEPT ![Home].pc = "start"] /\ mgr = "none" /\ mgr' = "live"
        /\ pusher' = pusher /\ waiting' = waiting /\ op[Home] = Idle
    BY <1>1 DEF Spawn, Goto, Free, OpShape, lists
  <2>2. op'[Home].next = 1
    BY <1>0, <2>1 DEF Idle, Ops
  <2>3. \A p \in Pushers : ~Holds(p)'
    BY <1>d, <2>1 DEF Holds, Exists
  <2>4. \A u \in Urls : Unopened(u)'
    BY <2>1, <2>3 DEF Unopened, StartShape
  <2>5. 1 \in Urls
    BY DEF Urls
  <2> QED BY <2>1, <2>2, <2>3, <2>4, <2>5 DEF StartShape, OneToken
<1>2. CASE ConnectAll
  <2> DEFINE u == op[Home].next
  <2>1. /\ u \in Urls /\ Unopened(u) /\ mgr # "none" /\ mgr' = mgr
        /\ \A v \in Urls : v >= u => Unopened(v)
    BY <1>2 DEF ConnectAll, StartShape, Urls
  <2>2. \A p \in Pushers : Calls(p)' => Calls(p)
    <3>1. op[Home].pc = "start"
      BY <1>2 DEF ConnectAll
    <3>2. CASE Return(Home)
      BY <1>a, <1>c, <3>2 DEF Return
    <3>3. CASE op' = [op EXCEPT ![Home].next = u + 1]
      BY <1>0, <3>1, <3>3 DEF Calls, Ops
    <3> QED BY <1>2, <3>2, <3>3 DEF ConnectAll
  <2>3. OneToken' /\ \A v \in Urls : v # u /\ Unopened(v) => Unopened(v)'
    <3>1. CASE Opened(u) /\ waiting' = waiting
      <4> HIDE DEF u
      <4> QED BY <2>1, <2>2, <3>1, TokenOpened DEF Unopened
    <3>2. CASE waiting' = [waiting EXCEPT ![u] = 0] /\ pusher' = pusher
      <4>1. ASSUME NEW p \in Pushers, Holds(p)'
            PROVE  Holds(p) /\ pusher'[p].url = pusher[p].url /\ pusher[p].url # u
        BY <2>1, <2>2, <3>2, <4>1 DEF Holds, Exists, Unopened
      <4> HIDE DEF u
      <4> QED BY <1>0, <2>1, <3>2, <4>1, TokenEntered
    <3> QED BY <1>2, <3>1, <3>2 DEF ConnectAll
  <2>4. CASE u = Upstreams
    <3>1. op'[Home].pc = "idle"
      BY <1>0, <1>2, <2>4 DEF ConnectAll, Return, Idle
    <3> QED BY <2>1, <2>3, <3>1 DEF StartShape
  <2>5. CASE u # Upstreams
    <3>1. op'[Home].next = u + 1
      BY <1>0, <1>2, <2>5 DEF ConnectAll, Ops
    <3>2. u + 1 \in Urls
      BY <2>1, <2>5 DEF Urls
    <3>3. \A v \in Urls : v >= u + 1 => v >= u /\ v # u
      BY <2>1 DEF Urls
    <3> QED BY <2>1, <2>3, <3>1, <3>2, <3>3 DEF StartShape
  <2> QED BY <2>4, <2>5
<1>3. CASE Detach
  <2>1. /\ op' = [op EXCEPT ![Home].pc = "teardown"] /\ mgr' = mgr /\ waiting' = waiting
        /\ op[Home] = Idle
    BY <1>3 DEF Detach, Goto, Free, OpShape, lists
  <2>2. /\ SameStart /\ \A p \in Pushers : Calls(p)' => Calls(p)
    BY <1>0, <2>1 DEF SameStart, Calls, Ops, Idle
  <2>3. ASSUME NEW p \in Pushers
        PROVE  /\ Exists(p)' => Exists(p) /\ pusher'[p].url = pusher[p].url
               /\ pusher'[p].bound => pusher[p].bound \/ ~Exists(p)'
    BY <1>0, <1>3, <2>3 DEF Detach, Exists, Records
  <2>4. \A p \in Pushers : Holds(p)' => Holds(p) /\ pusher'[p].url = pusher[p].url
    BY <2>2, <2>3 DEF Holds
  <2> QED BY <2>1, <2>2, <2>3, <2>4, TokensShrink
<1>4. CASE Unlist
  BY <1>4, TokensShrink DEF Unlist, SameStart, Holds, Exists, Calls, lists
<1>5. CASE FreeManager
  <2>1. op' = [op EXCEPT ![Home] = Idle] /\ UNCHANGED <<pusher, waiting>>
    BY <1>5 DEF FreeManager, Return, lists
  <2>2. SameStart /\ \A p \in Pushers : Calls(p)' => Calls(p)
    BY <1>a, <1>b, <1>c, <2>1
  <2>3. mgr' = "none" <=> mgr = "none"
    BY <1>5 DEF FreeManager
  <2> QED BY <2>1, <2>2, <2>3, TokensShrink DEF Holds, Exists
<1>6. ASSUME NEW w \in Workers, NEW p \in Pushers, Adopt(w, p) \/ Discard(w, p) \/ Reap(w, p)
      PROVE  OneToken' /\ StartShape'
  <2>1. SameStart /\ \A q \in Pushers : Calls(q)' => Calls(q)
    <3>1. CASE op' = op
      BY <3>1 DEF SameStart, Calls
    <3>2. CASE op' = [op EXCEPT ![w] = [Idle EXCEPT !.pc = "uninit", !.pusher = p]]
      BY <1>a, <1>b, <1>c, <3>2
    <3> QED BY <1>6, <3>1, <3>2 DEF Adopt, Discard, Reap, Uninit
  <2>2. pusher[p].at # "none"
    BY <1>6 DEF Adopt, Discard, Reap
  <2>3. ASSUME NEW q \in Pushers
        PROVE  /\ pusher'[q].url = pusher[q].url /\ pusher'[q].bound = pusher[q].bound
               /\ q # p => pusher'[q].at = pusher[q].at
    BY <1>0, <1>6 DEF Adopt, Discard, Reap, Records
  <2>4. \A q \in Pushers : Exists(q)' => Exists(q)
    BY <2>2, <2>3 DEF Exists
  <2>5. \A q \in Pushers : Holds(q)' => Holds(q)
    BY <2>1, <2>3, <2>4 DEF Holds
  <2>6. mgr' = mgr /\ waiting' = waiting
    BY <1>6 DEF Adopt, Discard, Reap, lists
  <2> QED BY <2>1, <2>3, <2>4, <2>5, <2>6, TokensShrink
<1>7. ASSUME NEW w \in Workers, UninitLoad(w) PROVE OneToken' /\ StartShape'
  <2> DEFINE p == op[w].pusher
  <2>1. op[w].pc = "uninit" /\ p \in Pushers /\ pusher[p].at = w /\ Exists(p)
    BY <1>7 DEF UninitLoad, OpShape, Exists
  <2>2. mgr' = mgr /\ waiting' = waiting
    BY <1>7 DEF UninitLoad, lists
  <2>3. CASE pusher[p].bound
    <3>1. op' = [op EXCEPT ![w].pc = "call"] /\ pusher' = pusher
      BY <1>7, <2>3 DEF UninitLoad, Goto
    <3>2. SameStart
      BY <1>0, <2>1, <3>1 DEF SameStart, Ops
    <3>3. \A q \in Pushers : Calls(q)' => Calls(q) \/ q = p
      BY <1>0, <3>1 DEF Calls, Ops
    <3>4. \A q \in Pushers : Holds(q)' => Holds(q)
      BY <2>1, <2>3, <3>1, <3>3 DEF Holds, Exists
    <3> QED BY <2>2, <3>1, <3>2, <3>4, TokensShrink DEF Exists
  <2>4. CASE ~pusher[p].bound
    <3>1. op' = [op EXCEPT ![w] = Idle] /\ pusher' = [pusher EXCEPT ![p] = Absent]
      BY <1>7, <2>4 DEF UninitLoad, Return
    <3>2. SameStart /\ \A q \in Pushers : Calls(q)' => Calls(q)
      BY <1>a, <1>b, <1>c, <3>1
    <3>3. \A q \in Pushers : Exists(q)' => pusher'[q] = pusher[q] /\ Exists(q)
      BY <1>0, <3>1 DEF Exists
    <3>4. \A q \in Pushers : Holds(q)' => Holds(q) /\ pusher'[q].url = pusher[q].url
      BY <3>2, <3>3 DEF Holds
    <3> QED BY <2>2, <3>2, <3>3, <3>4, TokensShrink
  <2> QED BY <2>3, <2>4
<1>8. ASSUME NEW w \in Workers, AddReconnectStream(w) PROVE OneToken' /\ StartShape'
  <2> DEFINE p == op[w].pusher
             u == pusher[p].url
  <2>1. /\ op[w].pc = "call" /\ p \in Pushers /\ Exists(p) /\ u \in Urls
        /\ op' = [op EXCEPT ![w] = Idle] /\ pusher' = [pusher EXCEPT ![p] = Absent]
        /\ waiting' = [waiting EXCEPT ![u] = 0] /\ mgr' = mgr
    BY <1>8 DEF AddReconnectStream, Return, OpShape, PusherShape, Exists
  <2>2. Holds(p)
    BY <2>1 DEF Holds, Calls
  <2>3. SameStart /\ \A q \in Pushers : Calls(q)' => Calls(q)
    BY <1>a, <1>b, <1>c, <2>1
  <2>4. ASSUME NEW q \in Pushers, Holds(q)'
        PROVE  Holds(q) /\ pusher'[q].url = pusher[q].url /\ pusher[q].url # u
    <3>1. q # p /\ pusher'[q] = pusher[q]
      BY <1>0, <2>1, <2>4 DEF Holds, Exists
    <3>2. Holds(q)
      BY <2>3, <2>4, <3>1 DEF Holds, Exists
    <3>3. pusher[q].url # u
      BY <2>1, <2>2, <3>1, <3>2 DEF OneToken
    <3> QED BY <3>1, <3>2, <3>3
  <2>5. OneToken' /\ \A v \in Urls : v # u /\ Unopened(v) => Unopened(v)'
    <3> HIDE DEF u, p
    <3> QED BY <1>0, <2>1, <2>4, TokenEntered
  <2>6. ~Unopened(u)
    BY <2>1, <2>2 DEF Unopened
  <2>7. mgr # "none"
    BY <1>d, <2>1
  <2> QED BY <2>1, <2>3, <2>5, <2>6, <2>7 DEF StartShape, SameStart
<1>9. ASSUME NEW w \in Workers, Reconnect(w) \/ ReconnectLocked(w) \/ RetryDone(w) \/ RetrySkip(w)
      PROVE  OneToken' /\ StartShape'
  <2>1. UNCHANGED <<mgr, waiting, pusher>>
    BY <1>9 DEF Reconnect, ReconnectLocked, RetryDone, RetrySkip, lists
  <2>2. SameStart /\ \A p \in Pushers : Calls(p)' => Calls(p)
    <3>1. CASE Reconnect(w)
      <4>1. PICK none \in BOOLEAN :
               op' = [op EXCEPT ![w] = [Idle EXCEPT !.pc = "looked", !.noPub = none]]
        BY <3>1 DEF Reconnect
      <4> QED BY <1>a, <1>b, <1>c, <4>1
    <3>2. CASE ReconnectLocked(w)
      BY <1>0, <3>2 DEF ReconnectLocked, Goto, SameStart, Calls, Ops
    <3>3. CASE RetryDone(w)
      BY <1>a, <1>b, <1>c, <3>3 DEF RetryDone, Return
    <3>4. CASE RetrySkip(w)
      BY <1>0, <3>4 DEF RetrySkip, At, Next1, SameStart, Calls, Ops
    <3> QED BY <1>9, <3>1, <3>2, <3>3, <3>4
  <2> QED BY <2>1, <2>2, TokensShrink DEF Holds, Exists
<1>10. ASSUME NEW w \in Workers, RetryNoPublisher(w) \/ RetryFails(w) \/ RetrySucceeds(w)
       PROVE  OneToken' /\ StartShape'
  <2> DEFINE u == op[w].next
  <2>1. op[w].pc = "retry" /\ u \in Urls /\ waiting[u] >= Interval /\ mgr' = mgr
    BY <1>10 DEF RetryNoPublisher, RetryFails, RetrySucceeds, At, Due
  <2>2. waiting[u] # NotWaiting
    BY <2>1 DEF NotWaiting
  <2>3. ~Unopened(u) /\ mgr # "none" /\ \A p \in Pushers : Holds(p) => pusher[p].url # u
    BY <2>1, <2>2 DEF Unopened, StartShape, OneToken
  <2>4. SameStart /\ \A p \in Pushers : Calls(p)' => Calls(p)
    <3>1. PICK ret \in {"ok", "err", op[w].ret}, all \in {"ok", "err", op[w].ret} :
             Next1(w, ret, all)
      BY <1>10 DEF RetryNoPublisher, RetryFails, RetrySucceeds
    <3>2. op'[w].pc = "retry" /\ \A v \in Workers : v # w => op'[v] = op[v]
      BY <1>0, <2>1, <3>1 DEF Next1, Ops
    <3> QED BY <2>1, <3>2 DEF SameStart, Calls
  <2>5. OneToken' /\ \A v \in Urls : v # u /\ Unopened(v) => Unopened(v)'
    <3>1. CASE RetrySucceeds(w)
      <4>1. Opened(u) /\ waiting' = [waiting EXCEPT ![u] = NotWaiting]
        BY <3>1 DEF RetrySucceeds
      <4> HIDE DEF u
      <4>2. waiting'[u] = NotWaiting /\ \A v \in Urls : v # u => waiting'[v] = waiting[v]
        BY <1>0, <2>1, <4>1
      <4> QED BY <2>1, <2>3, <2>4, <4>1, <4>2, TokenOpened
    <3>2. CASE ~RetrySucceeds(w)
      <4>1. waiting' = [waiting EXCEPT ![u] = 0] /\ pusher' = pusher
        BY <1>10, <3>2 DEF RetryNoPublisher, RetryFails
      <4>2. ASSUME NEW p \in Pushers, Holds(p)'
            PROVE  Holds(p) /\ pusher'[p].url = pusher[p].url /\ pusher[p].url # u
        BY <2>3, <2>4, <4>1, <4>2 DEF Holds, Exists
      <4> HIDE DEF u
      <4> QED BY <1>0, <2>1, <4>1, <4>2, TokenEntered
    <3> QED BY <3>1, <3>2
  <2> QED BY <2>1, <2>3, <2>4, <2>5 DEF StartShape, SameStart
<1>11. ASSUME NEW w \in Workers, Exit(w) PROVE OneToken' /\ StartShape'
  BY <1>11, TokensShrink DEF Exit, SameStart, Holds, Exists, Calls, lists
<1>12. ASSUME NEW p \in Pushers, Die(p) PROVE OneToken' /\ StartShape'
  <2>1. ASSUME NEW q \in Pushers
        PROVE  /\ pusher'[q].url = pusher[q].url /\ pusher'[q].bound = pusher[q].bound
               /\ pusher'[q].at = pusher[q].at
    BY <1>0, <1>12 DEF Die, Records
  <2>2. UNCHANGED <<op, mgr, waiting>>
    BY <1>12 DEF Die, lists
  <2> QED BY <2>1, <2>2, TokensShrink DEF SameStart, Holds, Exists, Calls
<1>13. CASE Stop
  <2>1. \A q \in Pushers : ~Exists(q)'
    BY <1>0, <1>13 DEF Stop, Exists
  <2>2. UNCHANGED <<op, mgr, waiting>>
    BY <1>13 DEF Stop, lists
  <2> QED BY <2>1, <2>2, TokensShrink DEF SameStart, Holds
<1>14. CASE Reload \/ CheckInvalid
  BY <1>14, TokensShrink DEF Reload, CheckInvalid, SameStart, Holds, Exists, Calls, lists
<1>15. CASE Clock
  BY <1>15, TokensShrink DEF Clock, SameStart, Holds, Exists, Calls
<1>16. CASE UNCHANGED vars
  BY <1>16, TokensShrink DEF vars, SameStart, Holds, Exists, Calls, lists
<1>17. ASSUME NEW w \in Workers, OtherComes(w) \/ OtherLeaves(w)
       PROVE  OneToken' /\ StartShape'
  BY <1>17, TokensShrink DEF OtherComes, OtherLeaves, SameStart, Holds, Exists, Calls, lists
<1> QED
  BY <1>1, <1>2, <1>3, <1>4, <1>5, <1>6, <1>7, <1>8, <1>9, <1>10, <1>11, <1>12, <1>13,
     <1>14, <1>15, <1>16, <1>17 DEF Next, Work, Retry

\* An entry that is due has not been tried for as long.
LEMMA LaterStep ==
    ASSUME Shape, StartShape, EntriesAreLater, [Next]_vars
    PROVE  EntriesAreLater'
<1> USE RelayAssumption DEF Shape, EntriesAreLater
<1>0. waiting \in [Urls -> NotWaiting .. Interval] /\ tried \in [Urls -> 0 .. Interval]
  BY DEF StateOK
<1>1. CASE ConnectAll
  <2> DEFINE u == op[Home].next
  <2>1. u \in Urls /\ waiting[u] = NotWaiting
    BY <1>1 DEF ConnectAll, StartShape, Unopened, Urls
  <2>2. /\ waiting' = waiting \/ waiting' = [waiting EXCEPT ![u] = 0]
        /\ tried' = [tried EXCEPT ![u] = 0] /\ early' = early
    BY <1>1 DEF ConnectAll
  <2> HIDE DEF u
  <2> QED BY <1>0, <2>1, <2>2 DEF NotWaiting
<1>2. ASSUME NEW w \in Workers, AddReconnectStream(w) PROVE EntriesAreLater'
  <2> DEFINE u == pusher[op[w].pusher].url
  <2>1. waiting' = [waiting EXCEPT ![u] = 0] /\ UNCHANGED ghosts
    BY <1>2 DEF AddReconnectStream
  <2> HIDE DEF u
  <2> QED BY <1>0, <2>1 DEF ghosts, NotWaiting
<1>3. ASSUME NEW w \in Workers, RetryFails(w) \/ RetrySucceeds(w) PROVE EntriesAreLater'
  <2> DEFINE u == op[w].next
  <2>1. /\ u \in Urls /\ waiting[u] >= Interval /\ Attempted(u)
        /\ \/ waiting' = [waiting EXCEPT ![u] = 0]
           \/ waiting' = [waiting EXCEPT ![u] = NotWaiting]
    BY <1>3 DEF RetryFails, RetrySucceeds, At, Due
  <2> HIDE DEF u
  <2>2. tried[u] >= Interval
    BY <1>0, <2>1 DEF NotWaiting
  <2>3. ~early' /\ tried' = [tried EXCEPT ![u] = 0]
    <3>1. tried[u] \in 0 .. Interval
      BY <1>0, <2>1
    <3>2. ~(tried[u] < Interval)
      BY <2>2, <3>1
    <3> QED BY <2>1, <3>2 DEF Attempted
  <2> QED BY <1>0, <2>1, <2>3 DEF NotWaiting
<1>4. ASSUME NEW w \in Workers, RetryNoPublisher(w) PROVE EntriesAreLater'
  <2> DEFINE u == op[w].next
  <2>1. waiting' = [waiting EXCEPT ![u] = 0] /\ UNCHANGED ghosts
    BY <1>4 DEF RetryNoPublisher
  <2> HIDE DEF u
  <2> QED BY <1>0, <2>1 DEF ghosts, NotWaiting
<1>5. CASE Clock
  BY <1>0, <1>5 DEF Clock, Until, NotWaiting
<1>6. CASE UNCHANGED <<waiting, ghosts>>
  BY <1>6 DEF ghosts
<1> QED
  BY <1>1, <1>2, <1>3, <1>4, <1>5, <1>6
     DEF Next, Work, Spawn, Detach, Unlist, FreeManager, Adopt, Discard, Reap, UninitLoad,
         Reconnect, ReconnectLocked, Retry, RetrySkip, RetryDone, Exit, OtherComes,
         OtherLeaves, Die, Reload, CheckInvalid, Stop, vars, lists

-------------------------------------------------------------------------------
(* The theorems.                                                             *)

\* A set with no two elements has at most one.
LEMMA AtMostOne ==
    ASSUME NEW S, \A x, y \in S : x = y
    PROVE  Cardinality(S) <= 1
<1>1. CASE S = {}
  BY <1>1, FS_EmptySet
<1>2. CASE S # {}
  <2>1. PICK x : S = {x}
    BY <1>2
  <2> QED BY <2>1, FS_Singleton
<1> QED
  BY <1>1, <1>2

\* IInv holds in every reachable state: each upstream has one token.
THEOREM Invariance == Spec => []IInv
<1>1. IInv /\ [Next]_vars => IInv'
  BY TypeStep, OpStep, DeletedStep, PusherStep, RetryStep, TokenStep, LaterStep DEF IInv, Shape
<1> QED
  BY InitInv, <1>1, PTL DEF Spec

\* The variables keep their types, and one worker at a time is inside the
\* manager's retry pass.
THEOREM TypeCorrect == Spec => []TypeOK
<1>1. IInv => TypeOK
  BY AtMostOne DEF IInv, TypeOK, OneRetry
<1> QED
  BY Invariance, <1>1, PTL

\* An upstream is pushed to by one pusher at a time.
THEOREM OnePusherEach == Spec => []OnePusher
<1>1. IInv => OnePusher
  <2> SUFFICES ASSUME IInv, NEW u \in Urls
               PROVE  Cardinality({p \in Pushers :
                         Exists(p) /\ pusher[p].url = u /\ ~pusher[p].dead}) <= 1
    BY DEF OnePusher
  <2>1. \A p \in Pushers : Exists(p) /\ ~pusher[p].dead => Holds(p)
    BY DEF IInv, PusherShape, Holds
  <2>2. \A p, q \in {p \in Pushers : Exists(p) /\ pusher[p].url = u /\ ~pusher[p].dead} : p = q
    BY <2>1 DEF IInv, OneToken
  <2> QED BY <2>2, AtMostOne
<1> QED
  BY Invariance, <1>1, PTL

\* No upstream is retried before its interval is over.
THEOREM RetriesSpaced == Spec => []RetrySpaced
<1>1. IInv => RetrySpaced
  BY DEF IInv, EntriesAreLater, RetrySpaced
<1> QED
  BY Invariance, <1>1, PTL
===============================================================================
