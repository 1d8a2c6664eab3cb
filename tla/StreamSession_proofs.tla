-------------------------- MODULE StreamSession_proofs --------------------------
(***************************************************************************)
(* Proofs about StreamSession, for any number of workers, publishers and   *)
(* pullers.  Each part of IInv has a lemma with one step per action.       *)
(***************************************************************************)
EXTENDS StreamSession, TLAPS

-------------------------------------------------------------------------------
\* Every step keeps the types.
LEMMA TypeStep ==
    ASSUME StateOK, OpShape, [Next]_vars
    PROVE  StateOK'
<1> USE RolesAssumption DEF
    At, Goto, Return, Idle, Teardown, AddOK, AddRefused, maps, flags,
    StateOK, OpShape, Pcs, Roles, TeardownPcs
<1>1. ASSUME NEW w \in Workers, NEW r \in Roles, AcceptLookup(w, r) PROVE StateOK'
  BY <1>1 DEF AcceptLookup
<1>2. ASSUME NEW w \in Workers, Incumbent(w) PROVE StateOK'
  BY <1>2 DEF Incumbent
<1>3. ASSUME NEW w \in Workers, Register(w) PROVE StateOK'
  <2>1. op[w].role \in Roles
    BY <1>3 DEF Register
  <2>2. CASE entry = NoRole
    BY <1>3, <2>1, <2>2 DEF Register
  <2>3. CASE entry # NoRole
    BY <1>3, <2>1, <2>3, SMTT(40) DEF Register
  <2> QED BY <2>2, <2>3
<1>4. ASSUME NEW w \in Workers, Push(w) PROVE StateOK'
  BY <1>4 DEF Push
<1>5. ASSUME NEW w \in Workers, NEW r \in Roles, PullLookup(w, r) PROVE StateOK'
  BY <1>5 DEF PullLookup
<1>6. ASSUME NEW w \in Workers, PullRegister(w) PROVE StateOK'
  BY <1>6 DEF PullRegister
<1>7. ASSUME NEW w \in Workers, PullRing(w) PROVE StateOK'
  BY <1>7 DEF PullRing
<1>8. ASSUME NEW w \in Workers, PullUndo(w) PROVE StateOK'
  BY <1>8 DEF PullUndo
<1>9. ASSUME NEW w \in Workers, DropRing(w) PROVE StateOK'
  BY <1>9 DEF DropRing
<1>10. ASSUME NEW w \in Workers, DropEntry(w) PROVE StateOK'
  BY <1>10 DEF DropEntry
<1>11. ASSUME NEW w \in Workers, Close(w) PROVE StateOK'
  BY <1>11 DEF Close
<1>12. ASSUME NEW w \in Workers, NEW r \in Roles, CheckInvalid(w, r) PROVE StateOK'
  BY <1>12 DEF CheckInvalid
<1>13. ASSUME NEW w \in Workers, NEW r \in Roles, IdleTimeout(w, r) PROVE StateOK'
  BY <1>13 DEF IdleTimeout
<1>14. ASSUME NEW w \in Workers, Reap(w) PROVE StateOK'
  BY <1>14 DEF Reap
<1>15. ASSUME NEW w \in Workers, Adopt(w) PROVE StateOK'
  <2>1. handoff' \subseteq Roles
    BY <1>15 DEF Adopt
  <2>2. map' \in [Workers -> SUBSET Roles]
    BY <1>15 DEF Adopt
  <2>3. op' \in [Workers -> [pc : Pcs, role : Roles \cup {NoRole}, rest : SUBSET Roles]]
    BY <1>15 DEF Adopt
  <2> QED BY <1>15, <2>1, <2>2, <2>3 DEF Adopt
<1>16. ASSUME NEW w \in Workers, NEW r \in Roles, Receive(w, r) PROVE StateOK'
  <2>1. recent' \in [Roles -> BOOLEAN]
    BY <1>16 DEF Receive
  <2>2. ringAdded' \in [Roles -> BOOLEAN]
    BY <1>16 DEF Receive
  <2>3. ring' \in Roles \cup {NoRole}
    BY <1>16 DEF Receive
  <2>4. op' \in [Workers -> [pc : Pcs, role : Roles \cup {NoRole}, rest : SUBSET Roles]]
    BY <1>16 DEF Receive
  <2> QED BY <1>16, <2>1, <2>2, <2>3, <2>4 DEF Receive
<1>17. ASSUME NEW w \in Workers, Put(w) PROVE StateOK'
  BY <1>17 DEF Put
<1>18. ASSUME NEW r \in Roles, Break(r) PROVE StateOK'
  BY <1>18 DEF Break
<1>19. ASSUME NEW r \in Roles, Quiet(r) PROVE StateOK'
  BY <1>19 DEF Quiet
<1>20. CASE Disconnect
  BY <1>20 DEF Disconnect
<1>21. CASE UNCHANGED vars
  BY <1>21 DEF vars
<1> QED
  BY <1>1, <1>2, <1>3, <1>4, <1>5, <1>6, <1>7, <1>8, <1>9, <1>10,
     <1>11, <1>12, <1>13, <1>14, <1>15, <1>16, <1>17, <1>18, <1>19, <1>20, <1>21
  DEF Next, WorkerStep, Continue

\* Every step keeps the shape of the operations workers are inside.
LEMMA ShapeStep ==
    ASSUME StateOK, OpShape, Circulation, [Next]_vars
    PROVE  OpShape'
<1> USE RolesAssumption DEF
    At, Goto, Return, Idle, Teardown, AddOK, AddRefused, maps, flags,
    StateOK, OpShape, Circulation, Roles, Pcs, TeardownPcs
<1>1. ASSUME NEW w \in Workers, NEW r \in Roles, AcceptLookup(w, r) PROVE OpShape'
  BY <1>1 DEF AcceptLookup
<1>2. ASSUME NEW w \in Workers, Incumbent(w) PROVE OpShape'
  BY <1>2 DEF Incumbent
<1>3. ASSUME NEW w \in Workers, Register(w) PROVE OpShape'
  BY <1>3 DEF Register
<1>4. ASSUME NEW w \in Workers, Push(w) PROVE OpShape'
  BY <1>4 DEF Push
<1>5. ASSUME NEW w \in Workers, NEW r \in Roles, PullLookup(w, r) PROVE OpShape'
  BY <1>5 DEF PullLookup
<1>6. ASSUME NEW w \in Workers, PullRegister(w) PROVE OpShape'
  BY <1>6 DEF PullRegister
<1>7. ASSUME NEW w \in Workers, PullRing(w) PROVE OpShape'
  BY <1>7 DEF PullRing
<1>8. ASSUME NEW w \in Workers, PullUndo(w) PROVE OpShape'
  BY <1>8 DEF PullUndo
<1>9. ASSUME NEW w \in Workers, DropRing(w) PROVE OpShape'
  BY <1>9 DEF DropRing
<1>10. ASSUME NEW w \in Workers, DropEntry(w) PROVE OpShape'
  BY <1>10 DEF DropEntry
<1>11. ASSUME NEW w \in Workers, Close(w) PROVE OpShape'
  BY <1>11 DEF Close
<1>12. ASSUME NEW w \in Workers, NEW r \in Roles, CheckInvalid(w, r) PROVE OpShape'
  BY <1>12 DEF CheckInvalid
<1>13. ASSUME NEW w \in Workers, NEW r \in Roles, IdleTimeout(w, r) PROVE OpShape'
  BY <1>13 DEF IdleTimeout
<1>14. ASSUME NEW w \in Workers, Reap(w) PROVE OpShape'
  BY <1>14 DEF Reap
<1>15. ASSUME NEW w \in Workers, Adopt(w) PROVE OpShape'
  BY <1>15 DEF Adopt
<1>16. ASSUME NEW w \in Workers, NEW r \in Roles, Receive(w, r) PROVE OpShape'
  BY <1>16 DEF Receive
<1>17. ASSUME NEW w \in Workers, Put(w) PROVE OpShape'
  BY <1>17 DEF Put
<1>18. ASSUME NEW r \in Roles, Break(r) PROVE OpShape'
  BY <1>18 DEF Break
<1>19. ASSUME NEW r \in Roles, Quiet(r) PROVE OpShape'
  BY <1>19 DEF Quiet
<1>20. CASE Disconnect
  BY <1>20 DEF Disconnect
<1>21. CASE UNCHANGED vars
  BY <1>21 DEF vars
<1> QED
  BY <1>1, <1>2, <1>3, <1>4, <1>5, <1>6, <1>7, <1>8, <1>9, <1>10,
     <1>11, <1>12, <1>13, <1>14, <1>15, <1>16, <1>17, <1>18, <1>19, <1>20, <1>21
  DEF Next, WorkerStep, Continue

\* Roles enter circulation only when they have been made.
LEMMA CirculationStep ==
    ASSUME StateOK, OpShape, Circulation, SingleOwner, [Next]_vars
    PROVE  Circulation'
<1> USE RolesAssumption DEF
    At, Goto, Return, Idle, Teardown, AddOK, AddRefused, maps, flags,
    StateOK, OpShape, Circulation, SingleOwner, Carried, Dying, Roles, Pcs,
    TeardownPcs
<1>1. ASSUME NEW w \in Workers, NEW r \in Roles, AcceptLookup(w, r) PROVE Circulation'
  BY <1>1, SMTT(40) DEF AcceptLookup
<1>2. ASSUME NEW w \in Workers, Incumbent(w) PROVE Circulation'
  BY <1>2 DEF Incumbent
<1>3. ASSUME NEW w \in Workers, Register(w) PROVE Circulation'
  BY <1>3 DEF Register
<1>4. ASSUME NEW w \in Workers, Push(w) PROVE Circulation'
  BY <1>4 DEF Push
<1>5. ASSUME NEW w \in Workers, NEW r \in Roles, PullLookup(w, r) PROVE Circulation'
  BY <1>5 DEF PullLookup
<1>6. ASSUME NEW w \in Workers, PullRegister(w) PROVE Circulation'
  BY <1>6 DEF PullRegister
<1>7. ASSUME NEW w \in Workers, PullRing(w) PROVE Circulation'
  BY <1>7 DEF PullRing
<1>8. ASSUME NEW w \in Workers, PullUndo(w) PROVE Circulation'
  BY <1>8 DEF PullUndo
<1>9. ASSUME NEW w \in Workers, DropRing(w) PROVE Circulation'
  BY <1>9 DEF DropRing
<1>10. ASSUME NEW w \in Workers, DropEntry(w) PROVE Circulation'
  BY <1>10 DEF DropEntry
<1>11. ASSUME NEW w \in Workers, Close(w) PROVE Circulation'
  BY <1>11 DEF Close
<1>12. ASSUME NEW w \in Workers, NEW r \in Roles, CheckInvalid(w, r) PROVE Circulation'
  BY <1>12 DEF CheckInvalid
<1>13. ASSUME NEW w \in Workers, NEW r \in Roles, IdleTimeout(w, r) PROVE Circulation'
  BY <1>13 DEF IdleTimeout
<1>14. ASSUME NEW w \in Workers, Reap(w) PROVE Circulation'
  BY <1>14 DEF Reap
<1>15. ASSUME NEW w \in Workers, Adopt(w) PROVE Circulation'
  BY <1>15 DEF Adopt
<1>16. ASSUME NEW w \in Workers, NEW r \in Roles, Receive(w, r) PROVE Circulation'
  <2>1. UNCHANGED <<entry, used, handoff, map>> /\ ring' \in used \cup {NoRole}
    BY <1>16 DEF Receive
  <2>2. CASE UNCHANGED op
    BY <1>16, <2>1, <2>2
  <2>3. CASE op' = [op EXCEPT ![w] = [pc |-> "put", role |-> r, rest |-> 16.rest]]
    BY <1>16, <2>1, <2>3 DEF Receive
  <2> QED BY <1>16, <2>2, <2>3 DEF Receive
<1>17. ASSUME NEW w \in Workers, Put(w) PROVE Circulation'
  BY <1>17 DEF Put
<1>18. ASSUME NEW r \in Roles, Break(r) PROVE Circulation'
  BY <1>18 DEF Break
<1>19. ASSUME NEW r \in Roles, Quiet(r) PROVE Circulation'
  BY <1>19 DEF Quiet
<1>20. CASE Disconnect
  BY <1>20 DEF Disconnect
<1>21. CASE UNCHANGED vars
  BY <1>21 DEF vars
<1>22. ASSUME NEW w \in Workers, WorkerStep(w) PROVE Circulation'
  BY <1>22, <1>1, <1>2, <1>3, <1>4, <1>5, <1>6, <1>7, <1>8, <1>9, <1>10, <1>11,
     <1>12, <1>13, <1>14, <1>15, <1>16, <1>17, ZenonT(40)
  DEF WorkerStep, Continue
<1> QED
  BY <1>18, <1>19, <1>20, <1>21, <1>22, Zenon DEF Next

\* A role moves from hand to hand: out of one place in the step it enters another.
LEMMA OwnerStep ==
    ASSUME StateOK, OpShape, Circulation, SingleOwner, [Next]_vars
    PROVE  SingleOwner'
<1> USE RolesAssumption DEF
    At, Goto, Return, Idle, Teardown, AddOK, AddRefused, maps, flags,
    StateOK, OpShape, Circulation, SingleOwner, Carried, Dying, Roles, Pcs,
    TeardownPcs
<1>1. ASSUME NEW w \in Workers, NEW r \in Roles, AcceptLookup(w, r) PROVE SingleOwner'
  BY <1>1 DEF AcceptLookup
<1>2. ASSUME NEW w \in Workers, Incumbent(w) PROVE SingleOwner'
  BY <1>2 DEF Incumbent
<1>3. ASSUME NEW w \in Workers, Register(w) PROVE SingleOwner'
  BY <1>3 DEF Register
<1>4. ASSUME NEW w \in Workers, Push(w) PROVE SingleOwner'
  BY <1>4 DEF Push
<1>5. ASSUME NEW w \in Workers, NEW r \in Roles, PullLookup(w, r) PROVE SingleOwner'
  BY <1>5 DEF PullLookup
<1>6. ASSUME NEW w \in Workers, PullRegister(w) PROVE SingleOwner'
  BY <1>6, SMTT(40) DEF PullRegister
<1>7. ASSUME NEW w \in Workers, PullRing(w) PROVE SingleOwner'
  BY <1>7 DEF PullRing
<1>8. ASSUME NEW w \in Workers, PullUndo(w) PROVE SingleOwner'
  BY <1>8 DEF PullUndo
<1>9. ASSUME NEW w \in Workers, DropRing(w) PROVE SingleOwner'
  BY <1>9 DEF DropRing
<1>10. ASSUME NEW w \in Workers, DropEntry(w) PROVE SingleOwner'
  BY <1>10 DEF DropEntry
<1>11. ASSUME NEW w \in Workers, Close(w) PROVE SingleOwner'
  BY <1>11 DEF Close
<1>12. ASSUME NEW w \in Workers, NEW r \in Roles, CheckInvalid(w, r) PROVE SingleOwner'
  BY <1>12 DEF CheckInvalid
<1>13. ASSUME NEW w \in Workers, NEW r \in Roles, IdleTimeout(w, r) PROVE SingleOwner'
  BY <1>13 DEF IdleTimeout
<1>14. ASSUME NEW w \in Workers, Reap(w) PROVE SingleOwner'
  BY <1>14 DEF Reap
<1>15. ASSUME NEW w \in Workers, Adopt(w) PROVE SingleOwner'
  BY <1>15 DEF Adopt
<1>16. ASSUME NEW w \in Workers, NEW r \in Roles, Receive(w, r) PROVE SingleOwner'
  BY <1>16 DEF Receive
<1>17. ASSUME NEW w \in Workers, Put(w) PROVE SingleOwner'
  BY <1>17 DEF Put
<1>18. ASSUME NEW r \in Roles, Break(r) PROVE SingleOwner'
  BY <1>18 DEF Break
<1>19. ASSUME NEW r \in Roles, Quiet(r) PROVE SingleOwner'
  BY <1>19 DEF Quiet
<1>20. CASE Disconnect
  BY <1>20 DEF Disconnect
<1>21. CASE UNCHANGED vars
  BY <1>21 DEF vars
<1> QED
  BY <1>1, <1>2, <1>3, <1>4, <1>5, <1>6, <1>7, <1>8, <1>9, <1>10,
     <1>11, <1>12, <1>13, <1>14, <1>15, <1>16, <1>17, <1>18, <1>19, <1>20, <1>21
  DEF Next, WorkerStep, Continue

\* A role that has an entry to drop is the registered one: registration needs a
\* free key, and only the registered role frees it.
LEMMA HolderStep ==
    ASSUME StateOK, OpShape, Circulation, SingleOwner, HolderIsRegistered, [Next]_vars
    PROVE  HolderIsRegistered'
<1> USE RolesAssumption DEF
    At, Goto, Return, Idle, Teardown, AddOK, AddRefused, maps, flags,
    StateOK, OpShape, Circulation, SingleOwner, HolderIsRegistered,
    WillDropEntry, Serving, Carried, Dying, Roles, Pcs, TeardownPcs
<1>1. ASSUME NEW w \in Workers, NEW r \in Roles, AcceptLookup(w, r) PROVE HolderIsRegistered'
  <2>1. CASE entry = NoRole
    <3>1. UNCHANGED <<entry, handoff, map>> /\ op[w].pc = "idle" /\ op[w].rest = {}
      BY <1>1 DEF AcceptLookup
    <3>2. op' = [op EXCEPT ![w] = [pc |-> "make", role |-> r, rest |-> {}]]
      BY <1>1, <2>1, <3>1 DEF AcceptLookup
    <3>3. \A s \in Roles : WillDropEntry(s)' => WillDropEntry(s)
      BY <3>1, <3>2
    <3> QED BY <3>1, <3>3, Zenon
  <2>2. CASE entry # NoRole
    BY <1>1, <2>2, SMTT(40) DEF AcceptLookup
  <2> QED BY <2>1, <2>2
<1>2. ASSUME NEW w \in Workers, Incumbent(w) PROVE HolderIsRegistered'
  BY <1>2 DEF Incumbent
<1>3. ASSUME NEW w \in Workers, Register(w) PROVE HolderIsRegistered'
  BY <1>3 DEF Register
<1>4. ASSUME NEW w \in Workers, Push(w) PROVE HolderIsRegistered'
  BY <1>4 DEF Push
<1>5. ASSUME NEW w \in Workers, NEW r \in Roles, PullLookup(w, r) PROVE HolderIsRegistered'
  BY <1>5 DEF PullLookup
<1>6. ASSUME NEW w \in Workers, PullRegister(w) PROVE HolderIsRegistered'
  BY <1>6 DEF PullRegister
<1>7. ASSUME NEW w \in Workers, PullRing(w) PROVE HolderIsRegistered'
  BY <1>7 DEF PullRing
<1>8. ASSUME NEW w \in Workers, PullUndo(w) PROVE HolderIsRegistered'
  BY <1>8 DEF PullUndo
<1>9. ASSUME NEW w \in Workers, DropRing(w) PROVE HolderIsRegistered'
  BY <1>9 DEF DropRing
<1>10. ASSUME NEW w \in Workers, DropEntry(w) PROVE HolderIsRegistered'
  BY <1>10 DEF DropEntry
<1>11. ASSUME NEW w \in Workers, Close(w) PROVE HolderIsRegistered'
  BY <1>11 DEF Close
<1>12. ASSUME NEW w \in Workers, NEW r \in Roles, CheckInvalid(w, r) PROVE HolderIsRegistered'
  BY <1>12 DEF CheckInvalid
<1>13. ASSUME NEW w \in Workers, NEW r \in Roles, IdleTimeout(w, r) PROVE HolderIsRegistered'
  BY <1>13 DEF IdleTimeout
<1>14. ASSUME NEW w \in Workers, Reap(w) PROVE HolderIsRegistered'
  BY <1>14 DEF Reap
<1>15. ASSUME NEW w \in Workers, Adopt(w) PROVE HolderIsRegistered'
  BY <1>15, SMTT(40) DEF Adopt
<1>16. ASSUME NEW w \in Workers, NEW r \in Roles, Receive(w, r) PROVE HolderIsRegistered'
  <2>1. UNCHANGED <<entry, used, handoff, map>>
    BY <1>16 DEF Receive
  <2>2. CASE UNCHANGED op
    BY <1>16, <2>1, <2>2
  <2>3. CASE op' = [op EXCEPT ![w] = [pc |-> "put", role |-> r, rest |-> 16.rest]]
    BY <1>16, <2>1, <2>3 DEF Receive
  <2> QED BY <1>16, <2>2, <2>3 DEF Receive
<1>17. ASSUME NEW w \in Workers, Put(w) PROVE HolderIsRegistered'
  BY <1>17 DEF Put
<1>18. ASSUME NEW r \in Roles, Break(r) PROVE HolderIsRegistered'
  BY <1>18 DEF Break
<1>19. ASSUME NEW r \in Roles, Quiet(r) PROVE HolderIsRegistered'
  BY <1>19 DEF Quiet
<1>20. CASE Disconnect
  BY <1>20 DEF Disconnect
<1>21. CASE UNCHANGED vars
  BY <1>21 DEF vars
<1>22. ASSUME NEW w \in Workers, WorkerStep(w) PROVE HolderIsRegistered'
  BY <1>22, <1>1, <1>2, <1>3, <1>4, <1>5, <1>6, <1>7, <1>8, <1>9, <1>10, <1>11,
     <1>12, <1>13, <1>14, <1>15, <1>16, <1>17, Zenon
  DEF WorkerStep, Continue
<1> QED
  BY <1>18, <1>19, <1>20, <1>21, <1>22, Zenon DEF Next

\* The registered role always has a place from which its entry gets dropped.
LEMMA EntryStep ==
    ASSUME StateOK, OpShape, Circulation, NoStaleEntry, [Next]_vars
    PROVE  NoStaleEntry'
<1> USE RolesAssumption DEF
    At, Goto, Return, Idle, Teardown, AddOK, AddRefused, maps, flags,
    StateOK, OpShape, Circulation, NoStaleEntry, WillDropEntry, Serving,
    Dying, Roles, Pcs, TeardownPcs
<1>1. ASSUME NEW w \in Workers, NEW r \in Roles, AcceptLookup(w, r) PROVE NoStaleEntry'
  BY <1>1 DEF AcceptLookup
<1>2. ASSUME NEW w \in Workers, Incumbent(w) PROVE NoStaleEntry'
  BY <1>2 DEF Incumbent
<1>3. ASSUME NEW w \in Workers, Register(w) PROVE NoStaleEntry'
  BY <1>3 DEF Register
<1>4. ASSUME NEW w \in Workers, Push(w) PROVE NoStaleEntry'
  BY <1>4 DEF Push
<1>5. ASSUME NEW w \in Workers, NEW r \in Roles, PullLookup(w, r) PROVE NoStaleEntry'
  BY <1>5 DEF PullLookup
<1>6. ASSUME NEW w \in Workers, PullRegister(w) PROVE NoStaleEntry'
  BY <1>6 DEF PullRegister
<1>7. ASSUME NEW w \in Workers, PullRing(w) PROVE NoStaleEntry'
  <2>1. UNCHANGED <<entry, used, handoff, map>>
    BY <1>7 DEF PullRing
  <2>2. CASE Goto(w, "push", op[w].role)
    BY <1>7, <2>1, <2>2 DEF PullRing
  <2>3. CASE Goto(w, "undo", op[w].role)
    BY <1>7, <2>1, <2>3 DEF PullRing
  <2> QED BY <1>7, <2>2, <2>3 DEF PullRing
<1>8. ASSUME NEW w \in Workers, PullUndo(w) PROVE NoStaleEntry'
  BY <1>8 DEF PullUndo
<1>9. ASSUME NEW w \in Workers, DropRing(w) PROVE NoStaleEntry'
  BY <1>9 DEF DropRing
<1>10. ASSUME NEW w \in Workers, DropEntry(w) PROVE NoStaleEntry'
  BY <1>10 DEF DropEntry
<1>11. ASSUME NEW w \in Workers, Close(w) PROVE NoStaleEntry'
  BY <1>11 DEF Close
<1>12. ASSUME NEW w \in Workers, NEW r \in Roles, CheckInvalid(w, r) PROVE NoStaleEntry'
  BY <1>12 DEF CheckInvalid
<1>13. ASSUME NEW w \in Workers, NEW r \in Roles, IdleTimeout(w, r) PROVE NoStaleEntry'
  BY <1>13 DEF IdleTimeout
<1>14. ASSUME NEW w \in Workers, Reap(w) PROVE NoStaleEntry'
  BY <1>14 DEF Reap
<1>15. ASSUME NEW w \in Workers, Adopt(w) PROVE NoStaleEntry'
  BY <1>15, SMTT(40) DEF Adopt
<1>16. ASSUME NEW w \in Workers, NEW r \in Roles, Receive(w, r) PROVE NoStaleEntry'
  BY <1>16 DEF Receive
<1>17. ASSUME NEW w \in Workers, Put(w) PROVE NoStaleEntry'
  BY <1>17 DEF Put
<1>18. ASSUME NEW r \in Roles, Break(r) PROVE NoStaleEntry'
  BY <1>18 DEF Break
<1>19. ASSUME NEW r \in Roles, Quiet(r) PROVE NoStaleEntry'
  BY <1>19 DEF Quiet
<1>20. CASE Disconnect
  BY <1>20 DEF Disconnect
<1>21. CASE UNCHANGED vars
  BY <1>21 DEF vars
<1> QED
  BY <1>1, <1>2, <1>3, <1>4, <1>5, <1>6, <1>7, <1>8, <1>9, <1>10,
     <1>11, <1>12, <1>13, <1>14, <1>15, <1>16, <1>17, <1>18, <1>19, <1>20, <1>21
  DEF Next, WorkerStep, Continue

\* The role that allocated the ring always has a place from which it is freed.
LEMMA RingStep ==
    ASSUME StateOK, OpShape, Circulation, NoRingLeak, [Next]_vars
    PROVE  NoRingLeak'
<1> USE RolesAssumption DEF
    At, Goto, Return, Idle, Teardown, AddOK, AddRefused, maps, flags,
    StateOK, OpShape, Circulation, NoRingLeak, WillDropRing, Serving, Dying,
    Roles, Pcs, TeardownPcs
<1>1. ASSUME NEW w \in Workers, NEW r \in Roles, AcceptLookup(w, r) PROVE NoRingLeak'
  BY <1>1 DEF AcceptLookup
<1>2. ASSUME NEW w \in Workers, Incumbent(w) PROVE NoRingLeak'
  BY <1>2 DEF Incumbent
<1>3. ASSUME NEW w \in Workers, Register(w) PROVE NoRingLeak'
  BY <1>3 DEF Register
<1>4. ASSUME NEW w \in Workers, Push(w) PROVE NoRingLeak'
  BY <1>4 DEF Push
<1>5. ASSUME NEW w \in Workers, NEW r \in Roles, PullLookup(w, r) PROVE NoRingLeak'
  BY <1>5 DEF PullLookup
<1>6. ASSUME NEW w \in Workers, PullRegister(w) PROVE NoRingLeak'
  BY <1>6, SMTT(40) DEF PullRegister
<1>7. ASSUME NEW w \in Workers, PullRing(w) PROVE NoRingLeak'
  BY <1>7 DEF PullRing
<1>8. ASSUME NEW w \in Workers, PullUndo(w) PROVE NoRingLeak'
  BY <1>8 DEF PullUndo
<1>9. ASSUME NEW w \in Workers, DropRing(w) PROVE NoRingLeak'
  BY <1>9 DEF DropRing
<1>10. ASSUME NEW w \in Workers, DropEntry(w) PROVE NoRingLeak'
  BY <1>10 DEF DropEntry
<1>11. ASSUME NEW w \in Workers, Close(w) PROVE NoRingLeak'
  BY <1>11 DEF Close
<1>12. ASSUME NEW w \in Workers, NEW r \in Roles, CheckInvalid(w, r) PROVE NoRingLeak'
  BY <1>12 DEF CheckInvalid
<1>13. ASSUME NEW w \in Workers, NEW r \in Roles, IdleTimeout(w, r) PROVE NoRingLeak'
  BY <1>13 DEF IdleTimeout
<1>14. ASSUME NEW w \in Workers, Reap(w) PROVE NoRingLeak'
  BY <1>14 DEF Reap
<1>15. ASSUME NEW w \in Workers, Adopt(w) PROVE NoRingLeak'
  BY <1>15, SMTT(40) DEF Adopt
<1>16. ASSUME NEW w \in Workers, NEW r \in Roles, Receive(w, r) PROVE NoRingLeak'
  BY <1>16, SMTT(40) DEF Receive
<1>17. ASSUME NEW w \in Workers, Put(w) PROVE NoRingLeak'
  BY <1>17 DEF Put
<1>18. ASSUME NEW r \in Roles, Break(r) PROVE NoRingLeak'
  BY <1>18 DEF Break
<1>19. ASSUME NEW r \in Roles, Quiet(r) PROVE NoRingLeak'
  BY <1>19 DEF Quiet
<1>20. CASE Disconnect
  BY <1>20 DEF Disconnect
<1>21. CASE UNCHANGED vars
  BY <1>21 DEF vars
<1> QED
  BY <1>1, <1>2, <1>3, <1>4, <1>5, <1>6, <1>7, <1>8, <1>9, <1>10,
     <1>11, <1>12, <1>13, <1>14, <1>15, <1>16, <1>17, <1>18, <1>19, <1>20, <1>21
  DEF Next, WorkerStep, Continue

\* Only a served role has called add() on the data path.
LEMMA AddedStep ==
    ASSUME StateOK, OpShape, Circulation, SingleOwner, AddedByServed, [Next]_vars
    PROVE  AddedByServed'
<1> USE RolesAssumption DEF
    At, Goto, Return, Idle, Teardown, AddOK, AddRefused, maps, flags,
    StateOK, OpShape, Circulation, SingleOwner, AddedByServed, Carried,
    Dying, Roles, Pcs, TeardownPcs
<1>1. ASSUME NEW w \in Workers, NEW r \in Roles, AcceptLookup(w, r) PROVE AddedByServed'
  BY <1>1 DEF AcceptLookup
<1>2. ASSUME NEW w \in Workers, Incumbent(w) PROVE AddedByServed'
  BY <1>2 DEF Incumbent
<1>3. ASSUME NEW w \in Workers, Register(w) PROVE AddedByServed'
  BY <1>3 DEF Register
<1>4. ASSUME NEW w \in Workers, Push(w) PROVE AddedByServed'
  BY <1>4 DEF Push
<1>5. ASSUME NEW w \in Workers, NEW r \in Roles, PullLookup(w, r) PROVE AddedByServed'
  BY <1>5 DEF PullLookup
<1>6. ASSUME NEW w \in Workers, PullRegister(w) PROVE AddedByServed'
  BY <1>6 DEF PullRegister
<1>7. ASSUME NEW w \in Workers, PullRing(w) PROVE AddedByServed'
  BY <1>7 DEF PullRing
<1>8. ASSUME NEW w \in Workers, PullUndo(w) PROVE AddedByServed'
  BY <1>8 DEF PullUndo
<1>9. ASSUME NEW w \in Workers, DropRing(w) PROVE AddedByServed'
  BY <1>9 DEF DropRing
<1>10. ASSUME NEW w \in Workers, DropEntry(w) PROVE AddedByServed'
  BY <1>10 DEF DropEntry
<1>11. ASSUME NEW w \in Workers, Close(w) PROVE AddedByServed'
  BY <1>11 DEF Close
<1>12. ASSUME NEW w \in Workers, NEW r \in Roles, CheckInvalid(w, r) PROVE AddedByServed'
  BY <1>12 DEF CheckInvalid
<1>13. ASSUME NEW w \in Workers, NEW r \in Roles, IdleTimeout(w, r) PROVE AddedByServed'
  BY <1>13 DEF IdleTimeout
<1>14. ASSUME NEW w \in Workers, Reap(w) PROVE AddedByServed'
  BY <1>14 DEF Reap
<1>15. ASSUME NEW w \in Workers, Adopt(w) PROVE AddedByServed'
  BY <1>15 DEF Adopt
<1>16. ASSUME NEW w \in Workers, NEW r \in Roles, Receive(w, r) PROVE AddedByServed'
  BY <1>16 DEF Receive
<1>17. ASSUME NEW w \in Workers, Put(w) PROVE AddedByServed'
  BY <1>17 DEF Put
<1>18. ASSUME NEW r \in Roles, Break(r) PROVE AddedByServed'
  BY <1>18 DEF Break
<1>19. ASSUME NEW r \in Roles, Quiet(r) PROVE AddedByServed'
  BY <1>19 DEF Quiet
<1>20. CASE Disconnect
  BY <1>20 DEF Disconnect
<1>21. CASE UNCHANGED vars
  BY <1>21 DEF vars
<1> QED
  BY <1>1, <1>2, <1>3, <1>4, <1>5, <1>6, <1>7, <1>8, <1>9, <1>10,
     <1>11, <1>12, <1>13, <1>14, <1>15, <1>16, <1>17, <1>18, <1>19, <1>20, <1>21
  DEF Next, WorkerStep, Continue

\* A role that has been made stays made.
LEMMA UsedGrows ==
    ASSUME [Next]_vars
    PROVE  used \subseteq used'
<1>1. ASSUME NEW w \in Workers, Continue(w) PROVE used \subseteq used'
  BY <1>1 DEF Continue, Incumbent, Register, Push, PullRegister, PullRing, PullUndo,
              DropRing, DropEntry, Close, Put, maps, flags
<1>2. ASSUME NEW w \in Workers, WorkerStep(w) PROVE used \subseteq used'
  BY <1>1, <1>2 DEF WorkerStep, Reap, Adopt, AcceptLookup, PullLookup, Receive,
                    CheckInvalid, IdleTimeout, maps, flags
<1>3. ASSUME NEW r \in Roles, Break(r) \/ Quiet(r) PROVE used \subseteq used'
  BY <1>3 DEF Break, Quiet
<1>4. CASE Disconnect
  BY <1>4 DEF Disconnect
<1>5. CASE UNCHANGED vars
  BY <1>5 DEF vars
<1> QED BY <1>2, <1>3, <1>4, <1>5 DEF Next

\* Without pullers a ring is freed by the registered role only, so no other
\* role that is being served can lose it.
LEMMA WriterStep ==
    ASSUME StateOK, OpShape, Circulation, SingleOwner, HolderIsRegistered,
           AddedByServed, PublishersKeepRing, [Next]_vars, used' \cap Pulls = {}
    PROVE  WriterHasRing'
<1>0. used \cap Pulls = {} /\ WriterHasRing
  BY UsedGrows DEF PublishersKeepRing
<1> USE RolesAssumption DEF
    At, Goto, Return, Idle, Teardown, AddOK, AddRefused, maps, flags,
    StateOK, OpShape, Circulation, SingleOwner, HolderIsRegistered,
    WillDropEntry, AddedByServed, WriterHasRing, Serving, Carried, Dying,
    Roles, Pcs, TeardownPcs
<1>1. ASSUME NEW w \in Workers, NEW r \in Roles, AcceptLookup(w, r) PROVE WriterHasRing'
  BY <1>0, <1>1 DEF AcceptLookup
<1>2. ASSUME NEW w \in Workers, Incumbent(w) PROVE WriterHasRing'
  BY <1>0, <1>2 DEF Incumbent
<1>3. ASSUME NEW w \in Workers, Register(w) PROVE WriterHasRing'
  BY <1>0, <1>3 DEF Register
<1>4. ASSUME NEW w \in Workers, Push(w) PROVE WriterHasRing'
  BY <1>0, <1>4 DEF Push
<1>5. ASSUME NEW w \in Workers, NEW r \in Roles, PullLookup(w, r) PROVE WriterHasRing'
  BY <1>0, <1>5 DEF PullLookup
<1>6. ASSUME NEW w \in Workers, PullRegister(w) PROVE WriterHasRing'
  BY <1>0, <1>6 DEF PullRegister
<1>7. ASSUME NEW w \in Workers, PullRing(w) PROVE WriterHasRing'
  BY <1>0, <1>7 DEF PullRing
<1>8. ASSUME NEW w \in Workers, PullUndo(w) PROVE WriterHasRing'
  BY <1>0, <1>8 DEF PullUndo
<1>9. ASSUME NEW w \in Workers, DropRing(w) PROVE WriterHasRing'
  BY <1>0, <1>9 DEF DropRing
<1>10. ASSUME NEW w \in Workers, DropEntry(w) PROVE WriterHasRing'
  BY <1>0, <1>10 DEF DropEntry
<1>11. ASSUME NEW w \in Workers, Close(w) PROVE WriterHasRing'
  BY <1>0, <1>11 DEF Close
<1>12. ASSUME NEW w \in Workers, NEW r \in Roles, CheckInvalid(w, r) PROVE WriterHasRing'
  BY <1>0, <1>12 DEF CheckInvalid
<1>13. ASSUME NEW w \in Workers, NEW r \in Roles, IdleTimeout(w, r) PROVE WriterHasRing'
  BY <1>0, <1>13 DEF IdleTimeout
<1>14. ASSUME NEW w \in Workers, Reap(w) PROVE WriterHasRing'
  BY <1>0, <1>14 DEF Reap
<1>15. ASSUME NEW w \in Workers, Adopt(w) PROVE WriterHasRing'
  BY <1>0, <1>15 DEF Adopt
<1>16. ASSUME NEW w \in Workers, NEW r \in Roles, Receive(w, r) PROVE WriterHasRing'
  BY <1>0, <1>16 DEF Receive
<1>17. ASSUME NEW w \in Workers, Put(w) PROVE WriterHasRing'
  BY <1>0, <1>17 DEF Put
<1>18. ASSUME NEW r \in Roles, Break(r) PROVE WriterHasRing'
  BY <1>0, <1>18 DEF Break
<1>19. ASSUME NEW r \in Roles, Quiet(r) PROVE WriterHasRing'
  BY <1>0, <1>19 DEF Quiet
<1>20. CASE Disconnect
  BY <1>0, <1>20 DEF Disconnect
<1>21. CASE UNCHANGED vars
  BY <1>0, <1>21 DEF vars
<1> QED
  BY <1>1, <1>2, <1>3, <1>4, <1>5, <1>6, <1>7, <1>8, <1>9, <1>10,
     <1>11, <1>12, <1>13, <1>14, <1>15, <1>16, <1>17, <1>18, <1>19, <1>20, <1>21
  DEF Next, WorkerStep, Continue

-------------------------------------------------------------------------------
(* Initially *)

\* The initial state satisfies the invariant.
LEMMA InitHolds == Init => IInv /\ WriterHasRing
  BY RolesAssumption
  DEF Init, Idle, IInv, StateOK, OpShape, Circulation, SingleOwner,
      HolderIsRegistered, NoStaleEntry, NoRingLeak, AddedByServed, WillDropEntry,
      WillDropRing, WriterHasRing, Serving, Dying, Carried, Roles, Pcs, TeardownPcs

\* Every step keeps it.
LEMMA InvStep ==
    ASSUME IInv, [Next]_vars
    PROVE  IInv'
<1>1. StateOK' /\ OpShape'
  BY TypeStep, ShapeStep DEF IInv
<1>2. Circulation' /\ SingleOwner'
  BY CirculationStep, OwnerStep DEF IInv
<1>3. HolderIsRegistered' /\ AddedByServed'
  BY HolderStep, AddedStep DEF IInv
<1>4. NoStaleEntry' /\ NoRingLeak'
  BY EntryStep, RingStep DEF IInv
<1> QED BY <1>1, <1>2, <1>3, <1>4 DEF IInv

\* The inductive invariant holds in every reachable state.
THEOREM Invariance == Spec => []IInv
<1>1. Init => IInv
  BY InitHolds
<1>2. IInv /\ [Next]_vars => IInv'
  BY InvStep
<1> QED BY <1>1, <1>2, PTL DEF Spec

-------------------------------------------------------------------------------
(* The theorems *)

\* Every variable keeps its type.
THEOREM TypeCorrect == Spec => []TypeOK
<1>1. IInv => TypeOK
  BY DEF IInv, StateOK, OpShape, TypeOK
<1> QED BY <1>1, Invariance, PTL

\* A role is within the reach of one thread only: the handoff list, one worker's
\* map, or one worker's hands (the single-owner teardown of invalid_srt()).
THEOREM OneOwner == Spec => []SingleOwner
<1>1. IInv => SingleOwner
  BY DEF IInv
<1> QED BY <1>1, Invariance, PTL

\* A role whose packets are handled is the one registered for the key
\* (CSLSMapPublisher against m_map_role).
THEOREM ServedKeepsKey == Spec => []ServedIsRegistered
<1>1. IInv => ServedIsRegistered
  BY DEF IInv, StateOK, HolderIsRegistered, WillDropEntry, ServedIsRegistered, Serving
<1> QED BY <1>1, Invariance, PTL

\* No two roles ever write one key's ring, however takeovers, pulls, kicks and
\* failed adoptions interleave (the single-writer rule of CSLSMapData::put()).
THEOREM OneWriter == Spec => []SingleWriter
<1>1. IInv => SingleWriter
  <2> SUFFICES ASSUME IInv, NEW v \in Workers, NEW w \in Workers,
                      NEW r \in Serving(v), NEW s \in Serving(w)
               PROVE  r = s /\ v = w
    BY DEF SingleWriter
  <2>1. r \in map[v] /\ s \in map[w] /\ r \in Roles /\ s \in Roles
    BY DEF Serving, IInv, StateOK
  <2>2. r = s
    BY <2>1 DEF IInv, HolderIsRegistered, WillDropEntry
  <2> QED BY <2>1, <2>2 DEF IInv, SingleOwner
<1> QED BY <1>1, Invariance, PTL

\* The registered role is always one whose uninit() is still to come: no key is
\* locked by a role nobody will tear down.
THEOREM EntryNotStale == Spec => []NoStaleEntry
<1>1. IInv => NoStaleEntry
  BY DEF IInv
<1> QED BY <1>1, Invariance, PTL

\* A ring is always that of a role that will still free it: no ring outlives the
\* sessions of its key.
THEOREM RingNotLeaked == Spec => []NoRingLeak
<1>1. IInv => NoRingLeak
  BY DEF IInv
<1> QED BY <1>1, Invariance, PTL

\* As long as a server has pulled nothing for the key, no takeover takes the
\* ring from under a publisher that is being served (publisher uninit() frees
\* ring, then key).
THEOREM PublishersKeepTheirRing == Spec => []PublishersKeepRing
<1>1. Init => PublishersKeepRing
  BY InitHolds DEF PublishersKeepRing
<1>2. IInv /\ PublishersKeepRing /\ [Next]_vars => PublishersKeepRing'
  BY WriterStep DEF IInv, PublishersKeepRing
<1> QED BY <1>1, <1>2, Invariance, PTL DEF Spec

-------------------------------------------------------------------------------
(* The key is a lock                                                         *)

\* The phases by where a session is found, and who holds the key in each.
PhaseTable ==
    \A r \in Roles :
        /\ r \notin used => Phase(r) = "new" /\ entry # r
        /\ r \in Opening => Phase(r) = "open" /\ entry # r
        /\ r \in Served => Phase(r) = "served" /\ entry = r
        /\ r \in handoff \cup Granted => Phase(r) = "waiting" /\ entry = r
        /\ entry = r /\ r \notin Served \cup handoff \cup Granted => Phase(r) = "ending"
        /\ r \in used \ Opening /\ entry # r => Phase(r) = "gone"

\* A session that is being made has no entry, and no list or map has it.
LEMMA OpeningApart ==
    ASSUME IInv, NEW r \in Roles, r \in Opening
    PROVE  r \in used /\ entry # r /\ r \notin Served \cup handoff \cup Granted
<1>1. PICK w \in Workers : op[w].role = r /\ op[w].pc \in {"make", "connect"}
  BY DEF Opening
<1>2. r \in Carried(w) /\ r \in used /\ op[w].rest = {}
  BY <1>1 DEF Carried, IInv, OpShape, TeardownPcs
<1>3. r \notin handoff /\ \A v \in Workers : v # w => r \notin map[v] \cup Carried(v)
  BY <1>2 DEF IInv, SingleOwner
<1>4. r \notin map[w]
  BY <1>1, <1>2 DEF IInv, Circulation, Dying, TeardownPcs
<1>5. r \notin Served
  BY <1>3, <1>4 DEF Served, Serving
<1>6. r \notin Granted
  BY <1>1, <1>3 DEF Granted, Carried
<1>7. ~WillDropEntry(r)
  BY <1>1, <1>2, <1>3, <1>4 DEF WillDropEntry, Serving, Carried, TeardownPcs
<1>8. entry # r
  BY <1>7, RolesAssumption DEF IInv, NoStaleEntry
<1> QED BY <1>2, <1>3, <1>5, <1>6, <1>8

\* A session that is served or waits to be adopted is the registered one, and
\* served or waiting but not both.
LEMMA HeldIsRegistered ==
    ASSUME IInv, NEW r \in Roles
    PROVE  /\ r \in Served \cup handoff \cup Granted => entry = r /\ r \in used
           /\ r \in Served => r \notin handoff \cup Granted
<1>1. ASSUME r \in Served
      PROVE  entry = r /\ r \in used /\ r \notin handoff \cup Granted
  <2>1. PICK w \in Workers : r \in Serving(w)
    BY <1>1 DEF Served
  <2>2. r \in map[w] /\ r \notin Dying(w)
    BY <2>1 DEF Serving
  <2>3. r \notin Carried(w)
    BY <2>2 DEF IInv, Circulation
  <2>4. r \notin handoff /\ \A v \in Workers : v # w => r \notin Carried(v)
    BY <2>2 DEF IInv, SingleOwner
  <2>5. r \notin Granted
    BY <2>3, <2>4 DEF Granted, Carried
  <2>6. WillDropEntry(r)
    BY <2>1 DEF WillDropEntry
  <2> QED BY <2>2, <2>4, <2>5, <2>6 DEF IInv, HolderIsRegistered, Circulation
<1>2. ASSUME r \in handoff \cup Granted
      PROVE  entry = r /\ r \in used
  <2>1. WillDropEntry(r)
    BY <1>2 DEF Granted, WillDropEntry
  <2>2. entry = r
    BY <2>1 DEF IInv, HolderIsRegistered
  <2> QED BY <2>2, RolesAssumption DEF IInv, Circulation
<1> QED BY <1>1, <1>2

\* The table holds where the invariant does.
LEMMA TableHolds == IInv => PhaseTable
<1> SUFFICES ASSUME IInv, NEW r \in Roles
             PROVE  /\ r \notin used => Phase(r) = "new" /\ entry # r
                    /\ r \in Opening => Phase(r) = "open" /\ entry # r
                    /\ r \in Served => Phase(r) = "served" /\ entry = r
                    /\ r \in handoff \cup Granted => Phase(r) = "waiting" /\ entry = r
                    /\ entry = r /\ r \notin Served \cup handoff \cup Granted =>
                          Phase(r) = "ending"
                    /\ r \in used \ Opening /\ entry # r => Phase(r) = "gone"
  BY DEF PhaseTable
<1>1. entry = r => r \in used
  BY RolesAssumption DEF IInv, Circulation
<1>2. r \in Opening => r \in used /\ entry # r
  BY OpeningApart
<1>3. r \in Served \cup handoff \cup Granted => entry = r /\ r \in used
  BY HeldIsRegistered
<1>4. r \in Served => r \notin handoff \cup Granted
  BY HeldIsRegistered
<1> QED BY <1>1, <1>2, <1>3, <1>4 DEF Phase

\* The phases, as the abstract lock sees them.
PhaseOf == [r \in Roles |-> Phase(r)]

\* Session r stands where it stood.
Same(r) ==
    /\ r \in used' <=> r \in used
    /\ r \in Opening' <=> r \in Opening
    /\ r \in Served' <=> r \in Served
    /\ r \in handoff' \cup Granted' <=> r \in handoff \cup Granted
    /\ entry' = r <=> entry = r

\* A session that stands where it stood is in the phase it was in.
LEMMA SamePhase ==
    ASSUME NEW r \in Roles, Same(r)
    PROVE  Phase(r)' = Phase(r)
  BY DEF Same, Phase

\* A step that moves no session is a stutter of the lock.
LEMMA NoneMoves ==
    ASSUME \A r \in Roles : Same(r), entry' = entry
    PROVE  UNCHANGED <<entry, PhaseOf>>
  BY SamePhase DEF PhaseOf

\* A step that moves one session enters it into its new phase.
LEMMA OneMoves ==
    ASSUME NEW s \in Roles, \A r \in Roles \ {s} : Same(r)
    PROVE  PhaseOf' = [PhaseOf EXCEPT ![s] = Phase(s)']
<1>1. \A r \in Roles \ {s} : Phase(r)' = Phase(r)
  BY SamePhase
<1> QED BY <1>1 DEF PhaseOf

\* How worker w holds session r inside an operation.
Opens(w, r) == op[w].role = r /\ op[w].pc \in {"make", "connect"}
Grants(w, r) == op[w].role = r /\ op[w].pc \in {"ring", "push"}

\* Only worker w has moved.
Only(w) == \A v \in Workers \ {w} : op'[v] = op[v] /\ map'[v] = map[v]

\* What a session's place depends on when only w has moved.
LEMMA Local ==
    ASSUME NEW w \in Workers, NEW r \in Roles, Only(w),
           Opens(w, r)' <=> Opens(w, r), Grants(w, r)' <=> Grants(w, r),
           r \in Serving(w)' <=> r \in Serving(w)
    PROVE  /\ r \in Opening' <=> r \in Opening
           /\ r \in Granted' <=> r \in Granted
           /\ r \in Served' <=> r \in Served
<1>1. r \in Opening <=> \E v \in Workers : Opens(v, r)
  BY DEF Opening, Opens
<1>2. r \in Opening' <=> \E v \in Workers : Opens(v, r)'
  BY DEF Opening, Opens
<1>3. r \in Granted <=> \E v \in Workers : Grants(v, r)
  BY DEF Granted, Grants
<1>4. r \in Granted' <=> \E v \in Workers : Grants(v, r)'
  BY DEF Granted, Grants
<1>5. r \in Served <=> \E v \in Workers : r \in Serving(v)
  BY DEF Served
<1>6. r \in Served' <=> \E v \in Workers : r \in Serving(v)'
  BY DEF Served
<1>7. \A v \in Workers \ {w} :
          /\ Opens(v, r)' <=> Opens(v, r)
          /\ Grants(v, r)' <=> Grants(v, r)
          /\ r \in Serving(v)' <=> r \in Serving(v)
  BY DEF Only, Opens, Grants, Serving, Dying
<1> QED BY <1>1, <1>2, <1>3, <1>4, <1>5, <1>6, <1>7

\* What worker w has in its hands is nowhere else.
Apart ==
    \A w \in Workers : \A r \in Carried(w) :
        /\ r \notin Served \cup handoff
        /\ r \in Opening => Opens(w, r)
        /\ r \in Granted => Grants(w, r)
        /\ \A v \in Workers \ {w} : r \notin map[v] \cup Carried(v)

\* The single owner, put this way.
LEMMA ApartHolds == IInv => Apart
<1> SUFFICES ASSUME IInv, NEW w \in Workers, NEW r \in Carried(w)
             PROVE  /\ r \notin Served \cup handoff
                    /\ r \in Opening => Opens(w, r)
                    /\ r \in Granted => Grants(w, r)
                    /\ \A v \in Workers \ {w} : r \notin map[v] \cup Carried(v)
  BY DEF Apart
<1>1. r \notin handoff /\ \A v \in Workers \ {w} : r \notin map[v] \cup Carried(v)
  BY DEF IInv, SingleOwner
<1>2. r \notin Serving(w)
  BY DEF IInv, Circulation, Serving
<1>3. r \notin Served
  BY <1>1, <1>2 DEF Served, Serving
<1>4. r \in Opening => Opens(w, r)
  BY <1>1 DEF Opening, Opens, Carried
<1>5. r \in Granted => Grants(w, r)
  BY <1>1 DEF Granted, Grants, Carried
<1> QED BY <1>1, <1>3, <1>4, <1>5

\* A step of worker w that has session s in hand, or nobody, moves no other.
LEMMA OthersStand ==
    ASSUME NEW w \in Workers, NEW s \in Roles, Only(w),
           op[w].role \in {s, NoRole}, op'[w].role \in {s, NoRole},
           map'[w] \ {s} = map[w] \ {s}, used' \ {s} = used \ {s},
           handoff' \ {s} = handoff \ {s},
           \A r \in Roles \ {s} : entry' = r <=> entry = r
    PROVE  \A r \in Roles \ {s} : Same(r)
<1> SUFFICES ASSUME NEW r \in Roles, r # s
             PROVE  Same(r)
  OBVIOUS
<1>1. r # op[w].role /\ r # op'[w].role
  BY RolesAssumption
<1>2. (Opens(w, r)' <=> Opens(w, r)) /\ (Grants(w, r)' <=> Grants(w, r))
  BY <1>1 DEF Opens, Grants
<1>3. r \in Serving(w)' <=> r \in Serving(w)
  BY <1>1 DEF Serving, Dying
<1>4. /\ r \in Opening' <=> r \in Opening
      /\ r \in Granted' <=> r \in Granted
      /\ r \in Served' <=> r \in Served
  BY <1>2, <1>3, Local
<1>5. (r \in used' <=> r \in used) /\ (r \in handoff' <=> r \in handoff)
  OBVIOUS
<1> QED BY <1>4, <1>5 DEF Same

\* What a step may rely on, before it and after it.
KeyFacts == IInv /\ PhaseTable /\ Apart

\* A session that stays in its phase has not moved.
LEMMA Stays ==
    ASSUME NEW s \in Roles, \A r \in Roles \ {s} : Same(r), Phase(s)' = Phase(s)
    PROVE  UNCHANGED PhaseOf
<1>1. PhaseOf' = [PhaseOf EXCEPT ![s] = Phase(s)]
  BY OneMoves
<1> QED BY <1>1 DEF PhaseOf

(* One lemma for each step of the lock: what must be seen of the one session *)
(* that moves.                                                               *)

\* A session opens.
LEMMA OpenStep ==
    ASSUME NEW s \in Roles, \A r \in Roles \ {s} : Same(r),
           Phase(s) \in {"new"}, Phase(s)' = "open", entry = NoRole, entry' = entry
    PROVE  Key!Next
<1>1. PhaseOf[s] \in {"new"} /\ PhaseOf' = [PhaseOf EXCEPT ![s] = "open"]
  BY OneMoves DEF PhaseOf
<1>2. Key!Open(s)
  BY <1>1 DEF Key!Open, Key!Enter, PhaseOf
<1> QED BY <1>2 DEF Key!Next

\* A grant.
LEMMA GrantStep ==
    ASSUME NEW s \in Roles, \A r \in Roles \ {s} : Same(r),
           Phase(s) \in {"open"}, Phase(s)' = "waiting", entry = NoRole, entry' = s
    PROVE  Key!Next
<1>1. PhaseOf[s] \in {"open"} /\ PhaseOf' = [PhaseOf EXCEPT ![s] = "waiting"]
  BY OneMoves DEF PhaseOf
<1>2. Key!Grant(s)
  BY <1>1 DEF Key!Grant, Key!Enter, PhaseOf
<1> QED BY <1>2 DEF Key!Next

\* A refusal.
LEMMA RefuseStep ==
    ASSUME NEW s \in Roles, \A r \in Roles \ {s} : Same(r),
           Phase(s) \in {"open"}, Phase(s)' = "gone", entry' = entry
    PROVE  Key!Next
<1>1. PhaseOf[s] \in {"open"} /\ PhaseOf' = [PhaseOf EXCEPT ![s] = "gone"]
  BY OneMoves DEF PhaseOf
<1>2. Key!Refuse(s)
  BY <1>1 DEF Key!Refuse, Key!Enter, PhaseOf
<1> QED BY <1>2 DEF Key!Next

\* An adoption.
LEMMA ServeStep ==
    ASSUME NEW s \in Roles, \A r \in Roles \ {s} : Same(r),
           Phase(s) \in {"waiting"}, Phase(s)' = "served", entry = s, entry' = entry
    PROVE  Key!Next
<1>1. PhaseOf[s] \in {"waiting"} /\ PhaseOf' = [PhaseOf EXCEPT ![s] = "served"]
  BY OneMoves DEF PhaseOf
<1>2. Key!Serve(s)
  BY <1>1 DEF Key!Serve, Key!Enter, PhaseOf
<1> QED BY <1>2 DEF Key!Next

\* The end of a session.
LEMMA EndStep ==
    ASSUME NEW s \in Roles, \A r \in Roles \ {s} : Same(r),
           Phase(s) \in {"waiting", "served"}, Phase(s)' = "ending", entry = s, entry' = entry
    PROVE  Key!Next
<1>1. PhaseOf[s] \in {"waiting", "served"} /\ PhaseOf' = [PhaseOf EXCEPT ![s] = "ending"]
  BY OneMoves DEF PhaseOf
<1>2. Key!End(s)
  BY <1>1 DEF Key!End, Key!Enter, PhaseOf
<1> QED BY <1>2 DEF Key!Next

\* The key given back.
LEMMA YieldStep ==
    ASSUME NEW s \in Roles, \A r \in Roles \ {s} : Same(r),
           Phase(s) \in {"ending"}, Phase(s)' = "gone", entry = s, entry' = NoRole
    PROVE  Key!Next
<1>1. PhaseOf[s] \in {"ending"} /\ PhaseOf' = [PhaseOf EXCEPT ![s] = "gone"]
  BY OneMoves DEF PhaseOf
<1>2. Key!Yield(s)
  BY <1>1 DEF Key!Yield, Key!Enter, PhaseOf
<1> QED BY <1>2 DEF Key!Next

\* A step that moves nobody.
LEMMA Stutter ==
    ASSUME NEW s \in Roles, \A r \in Roles \ {s} : Same(r),
           Phase(s)' = Phase(s), entry' = entry
    PROVE  UNCHANGED Key!kvars
<1>1. UNCHANGED PhaseOf
  BY Stays
<1> QED BY <1>1 DEF Key!kvars, PhaseOf


\* Worker w hands its operation on and touches no map of a worker.
LEMMA OnlyOp ==
    ASSUME KeyFacts, NEW w \in Workers, NEW x, op' = [op EXCEPT ![w] = x], map' = map
    PROVE  Only(w) /\ op'[w] = x
  BY DEF Only, KeyFacts, IInv, StateOK

\* get_publisher() opens a session when it finds none, and otherwise only looks.
LEMMA AcceptLookupKey ==
    ASSUME KeyFacts, KeyFacts', NEW w \in Workers, NEW r \in Roles, AcceptLookup(w, r)
    PROVE  Key!Next \/ UNCHANGED Key!kvars
<1> USE DEF KeyFacts
<1>1. op[w].role = NoRole /\ r \notin used /\ map' = map /\ handoff' = handoff /\ entry' = entry
  BY DEF AcceptLookup, At, IInv, OpShape, maps
<1>2. CASE entry = NoRole
  <2>1. Only(w) /\ op'[w] = [pc |-> "make", role |-> r, rest |-> op[w].rest]
    BY <1>1, <1>2, OnlyOp DEF AcceptLookup, Goto
  <2>2. used' = used \cup {r}
    BY <1>2 DEF AcceptLookup
  <2>3. \A q \in Roles \ {r} : Same(q)
    BY <1>1, <2>1, <2>2, OthersStand
  <2>4. r \in Opening'
    BY <2>1 DEF Opening
  <2>5. Phase(r) = "new" /\ Phase(r)' = "open"
    BY <1>1, <2>4 DEF PhaseTable
  <2> QED BY <1>1, <1>2, <2>3, <2>5, OpenStep
<1>3. CASE entry # NoRole
  <2>1. Only(w) /\ op'[w] = [pc |-> "incumbent", role |-> entry, rest |-> op[w].rest]
    BY <1>1, <1>3, OnlyOp DEF AcceptLookup, Goto
  <2>2. used' = used /\ entry \in Roles
    BY <1>3 DEF AcceptLookup, IInv, StateOK
  <2>3. \A q \in Roles \ {entry} : Same(q)
    BY <1>1, <2>1, <2>2, OthersStand
  <2>4. Same(entry)
    <3>1. (Opens(w, entry)' <=> Opens(w, entry)) /\ (Grants(w, entry)' <=> Grants(w, entry))
      BY <1>1, <2>1, RolesAssumption, <2>2 DEF Opens, Grants, AcceptLookup, At
    <3>2. entry \in Serving(w)' <=> entry \in Serving(w)
      BY <1>1, <2>1 DEF Serving, Dying, AcceptLookup, At, TeardownPcs
    <3> QED BY <1>1, <2>1, <2>2, <3>1, <3>2, Local DEF Same
  <2> QED BY <1>1, <2>3, <2>4, NoneMoves DEF Key!kvars, PhaseOf
<1> QED BY <1>2, <1>3

\* start() opens a session when it finds no publisher.
LEMMA PullLookupKey ==
    ASSUME KeyFacts, KeyFacts', NEW w \in Workers, NEW r \in Roles, PullLookup(w, r)
    PROVE  Key!Next
<1> USE DEF KeyFacts
<1>1. /\ op[w].role = NoRole /\ r \notin used /\ entry = NoRole
      /\ map' = map /\ handoff' = handoff /\ entry' = entry /\ used' = used \cup {r}
  BY DEF PullLookup, At, IInv, OpShape, maps
<1>2. Only(w) /\ op'[w] = [pc |-> "connect", role |-> r, rest |-> op[w].rest]
  BY <1>1, OnlyOp DEF PullLookup, Goto
<1>3. \A q \in Roles \ {r} : Same(q)
  BY <1>1, <1>2, OthersStand
<1>4. r \in Opening'
  BY <1>2 DEF Opening
<1>5. Phase(r) = "new" /\ Phase(r)' = "open"
  BY <1>1, <1>4 DEF PhaseTable
<1> QED BY <1>1, <1>3, <1>5, OpenStep

\* A registration is granted when the key is free; the session is refused when it
\* is not, or when its upstream fails.
LEMMA RegisterKey ==
    ASSUME KeyFacts, KeyFacts', NEW w \in Workers, Register(w) \/ PullRegister(w)
    PROVE  Key!Next
<1> USE DEF KeyFacts
<1>0. PICK s \in Roles : s = op[w].role
  BY DEF Register, PullRegister, At, IInv, OpShape, StateOK
<1>1. /\ op[w].pc \in {"make", "connect"} /\ s \in used
      /\ map' = map /\ handoff' = handoff /\ used' = used
  BY <1>0 DEF Register, PullRegister, At, IInv, OpShape, StateOK
<1>2. s \in Opening /\ Phase(s) = "open" /\ entry # s
  BY <1>0, <1>1 DEF Opening, PhaseTable
<1>3. ASSUME NEW pc \in {"push", "ring"}, entry = NoRole, entry' = s, Goto(w, pc, s)
      PROVE  Key!Next
  <2>1. Only(w) /\ op'[w] = [pc |-> pc, role |-> s, rest |-> op[w].rest]
    BY <1>1, <1>3, OnlyOp DEF Goto
  <2>2. \A q \in Roles \ {s} : Same(q)
    BY <1>0, <1>1, <1>3, <2>1, OthersStand, RolesAssumption
  <2>3. s \in Granted'
    BY <1>3, <2>1 DEF Granted
  <2>4. Phase(s)' = "waiting"
    BY <1>1, <2>3 DEF PhaseTable
  <2> QED BY <1>1, <1>2, <1>3, <2>2, <2>4, GrantStep
<1>4. ASSUME entry' = entry, Return(w)
      PROVE  Key!Next
  <2>1. Only(w) /\ op'[w] = Idle
    BY <1>1, <1>4, OnlyOp DEF Return
  <2>2. \A q \in Roles \ {s} : Same(q)
    BY <1>0, <1>1, <1>4, <2>1, OthersStand DEF Idle
  <2>3. s \notin Opening'
    <3>1. s \in Carried(w)
      BY <1>0, <1>1 DEF Carried
    <3>2. \A v \in Workers \ {w} : ~Opens(v, s)
      BY <3>1 DEF Apart, Opens, Carried
    <3>3. \A v \in Workers \ {w} : ~Opens(v, s)'
      BY <2>1, <3>2 DEF Only, Opens
    <3>4. ~Opens(w, s)'
      BY <2>1, RolesAssumption DEF Idle, Opens
    <3> QED BY <3>3, <3>4 DEF Opening, Opens
  <2>4. Phase(s)' = "gone"
    BY <1>1, <1>2, <1>4, <2>3 DEF PhaseTable
  <2> QED BY <1>1, <1>2, <1>4, <2>2, <2>4, RefuseStep
<1>5. \/ entry = NoRole /\ entry' = s /\ (Goto(w, "push", s) \/ Goto(w, "ring", s))
      \/ entry' = entry /\ Return(w)
  BY <1>0 DEF Register, PullRegister
<1> QED BY <1>3, <1>4, <1>5

\* push() and add() leave a session waiting; a refused puller's session ends.
LEMMA GrantedKey ==
    ASSUME KeyFacts, KeyFacts', NEW w \in Workers, Push(w) \/ PullRing(w)
    PROVE  Key!Next \/ UNCHANGED Key!kvars
<1> USE DEF KeyFacts
<1>0. PICK s \in Roles : s = op[w].role
  BY DEF Push, PullRing, At, IInv, OpShape, StateOK
<1>1. /\ op[w].pc \in {"push", "ring"}
      /\ map' = map /\ entry' = entry /\ used' = used
  BY DEF Push, PullRing, At, maps
<1>2. s \in Granted /\ Phase(s) = "waiting" /\ entry = s
  BY <1>0, <1>1 DEF Granted, PhaseTable
<1>3. CASE Push(w)
  <2>1. Only(w) /\ op'[w] = Idle /\ handoff' = handoff \cup {s}
    BY <1>0, <1>1, <1>3, OnlyOp DEF Push, Return
  <2>2. \A q \in Roles \ {s} : Same(q)
    BY <1>0, <1>1, <2>1, OthersStand DEF Idle
  <2>3. Phase(s)' = "waiting"
    BY <2>1 DEF PhaseTable
  <2> QED BY <1>1, <1>2, <2>2, <2>3, Stutter
<1>4. ASSUME Goto(w, "push", s), handoff' = handoff
      PROVE  UNCHANGED Key!kvars
  <2>1. Only(w) /\ op'[w] = [pc |-> "push", role |-> s, rest |-> op[w].rest]
    BY <1>1, <1>4, OnlyOp DEF Goto
  <2>2. \A q \in Roles \ {s} : Same(q)
    BY <1>0, <1>1, <1>4, <2>1, OthersStand
  <2>3. s \in Granted'
    BY <2>1 DEF Granted
  <2>4. Phase(s)' = "waiting"
    BY <2>3 DEF PhaseTable
  <2> QED BY <1>1, <1>2, <2>2, <2>4, Stutter
<1>5. ASSUME Goto(w, "undo", s), handoff' = handoff
      PROVE  Key!Next
  <2>1. Only(w) /\ op'[w] = [pc |-> "undo", role |-> s, rest |-> op[w].rest]
    BY <1>1, <1>5, OnlyOp DEF Goto
  <2>2. \A q \in Roles \ {s} : Same(q)
    BY <1>0, <1>1, <1>5, <2>1, OthersStand
  <2>3. s \in Carried(w)' /\ ~Grants(w, s)'
    BY <2>1 DEF Carried, Grants
  <2>4. s \notin Served' \cup handoff' \cup Granted'
    BY <2>3 DEF Apart
  <2>5. Phase(s)' = "ending"
    BY <1>1, <1>2, <2>4 DEF PhaseTable
  <2> QED BY <1>1, <1>2, <2>2, <2>5, EndStep
<1>6. CASE PullRing(w)
  BY <1>0, <1>4, <1>5, <1>6 DEF PullRing
<1> QED BY <1>3, <1>6

\* uninit() of a refused puller, and remove(this) of any role, give the key back.
LEMMA DropEntryKey ==
    ASSUME KeyFacts, KeyFacts', NEW w \in Workers, PullUndo(w) \/ DropEntry(w)
    PROVE  Key!Next
<1> USE DEF KeyFacts
<1>0. PICK s \in Roles : s = op[w].role
  BY DEF PullUndo, DropEntry, At, IInv, OpShape, StateOK
<1>1. /\ op[w].pc \in {"undo", "drop_entry"} /\ s \in used
      /\ map' = map /\ used' = used /\ handoff' = handoff
  BY <1>0 DEF PullUndo, DropEntry, At, IInv, OpShape, Circulation
<1>2. entry = s
  BY <1>0, <1>1 DEF WillDropEntry, IInv, HolderIsRegistered
<1>3. entry' = NoRole
  BY <1>0, <1>2 DEF PullUndo, DropEntry
<1>4. s \in Carried(w) /\ ~Grants(w, s)
  BY <1>0, <1>1 DEF Carried, Grants, TeardownPcs
<1>5. Phase(s) = "ending"
  BY <1>2, <1>4 DEF Apart, PhaseTable
<1>6. PICK pc \in {"close", "drop_ring", "idle"} :
          Only(w) /\ op'[w].role \in {s, NoRole} /\ op'[w].pc = pc
  <2>1. CASE PullUndo(w)
    <3>1. Only(w) /\ op'[w] = Idle
      BY <1>1, <2>1, OnlyOp DEF PullUndo, Return
    <3> QED BY <3>1 DEF Idle
  <2>2. CASE DropEntry(w)
    <3> DEFINE pc == IF s \in Pubs THEN "close" ELSE "drop_ring"
    <3>1. op' = [op EXCEPT ![w] = [pc |-> pc, role |-> s, rest |-> op[w].rest]]
      BY <1>0, <2>2 DEF DropEntry, Goto, IInv, StateOK
    <3>2. Only(w) /\ op'[w] = [pc |-> pc, role |-> s, rest |-> op[w].rest]
      BY <1>1, <3>1, OnlyOp
    <3> QED BY <3>2
  <2> QED BY <2>1, <2>2
<1>7. \A q \in Roles \ {s} : Same(q)
  BY <1>0, <1>1, <1>2, <1>3, <1>6, OthersStand, RolesAssumption
<1>8. s \notin Opening'
  <2>1. \A v \in Workers \ {w} : ~Opens(v, s)
    BY <1>4 DEF Apart, Opens, Carried
  <2>2. \A v \in Workers : ~Opens(v, s)'
    BY <1>6, <2>1 DEF Only, Opens
  <2> QED BY <2>2 DEF Opening, Opens
<1>9. Phase(s)' = "gone"
  BY <1>1, <1>3, <1>8, RolesAssumption DEF PhaseTable
<1> QED BY <1>2, <1>3, <1>5, <1>7, <1>9, YieldStep

\* A session in nobody's reach but w's hands, before and after, has not moved.
LEMMA CarriedStands ==
    ASSUME KeyFacts, KeyFacts', NEW w \in Workers, NEW s \in Roles,
           s \in Carried(w), ~Opens(w, s), ~Grants(w, s), Only(w),
           s \in Carried(w)' \/ (s \notin map'[w] /\ s \notin handoff'),
           ~Opens(w, s)', ~Grants(w, s)', s \in used' <=> s \in used,
           entry' = entry
    PROVE  Same(s)
<1> USE DEF KeyFacts
<1>1. /\ s \notin Served \cup handoff /\ s \notin Opening /\ s \notin Granted
      /\ \A v \in Workers \ {w} : s \notin map[v] \cup Carried(v)
  BY DEF Apart
<1>2. \A v \in Workers \ {w} : ~Opens(v, s) /\ ~Grants(v, s)
  BY <1>1 DEF Opens, Grants, Carried
<1>3. \A v \in Workers : ~Opens(v, s)' /\ ~Grants(v, s)'
  BY <1>2 DEF Only, Opens, Grants
<1>4. s \notin Opening' /\ s \notin Granted'
  BY <1>3 DEF Opening, Granted, Opens, Grants
<1>5. s \notin Served' \cup handoff'
  <2>1. CASE s \in Carried(w)'
    BY <2>1 DEF Apart
  <2>2. CASE s \notin map'[w] /\ s \notin handoff'
    <3>1. \A v \in Workers : s \notin map'[v]
      BY <1>1, <2>2 DEF Only
    <3> QED BY <2>2, <3>1 DEF Served, Serving
  <2> QED BY <2>1, <2>2
<1> QED BY <1>1, <1>4, <1>5 DEF Same

\* Freeing the ring is nothing to the key.
LEMMA DropRingKey ==
    ASSUME KeyFacts, KeyFacts', NEW w \in Workers, DropRing(w)
    PROVE  UNCHANGED Key!kvars
<1> USE DEF KeyFacts
<1>0. PICK s \in Roles : s = op[w].role
  BY DEF DropRing, At, IInv, OpShape, StateOK
<1>1. /\ op[w].pc = "drop_ring" /\ entry' = entry
      /\ map' = map /\ used' = used /\ handoff' = handoff
  BY DEF DropRing, At
<1>2. PICK pc \in {"close", "drop_entry"} :
          Only(w) /\ op'[w] = [pc |-> pc, role |-> s, rest |-> op[w].rest]
  <2> DEFINE pc == IF s \in Pubs THEN "drop_entry" ELSE "close"
  <2>1. op' = [op EXCEPT ![w] = [pc |-> pc, role |-> s, rest |-> op[w].rest]]
    BY <1>0 DEF DropRing, Goto, IInv, StateOK
  <2>2. Only(w) /\ op'[w] = [pc |-> pc, role |-> s, rest |-> op[w].rest]
    BY <1>1, <2>1, OnlyOp
  <2> QED BY <2>2
<1>3. \A q \in Roles \ {s} : Same(q)
  BY <1>0, <1>1, <1>2, OthersStand
<1>4. /\ s \in Carried(w) /\ ~Opens(w, s) /\ ~Grants(w, s)
      /\ s \in Carried(w)' /\ ~Opens(w, s)' /\ ~Grants(w, s)'
  BY <1>0, <1>1, <1>2 DEF Carried, Opens, Grants, TeardownPcs
<1>5. Same(s)
  BY <1>1, <1>2, <1>4, CarriedStands
<1> QED BY <1>1, <1>3, <1>5, NoneMoves DEF Key!kvars, PhaseOf

\* Nor is closing the socket of a session that has yielded, and going on with the
\* next one the reaper has collected.
LEMMA CloseKey ==
    ASSUME KeyFacts, KeyFacts', NEW w \in Workers, Close(w)
    PROVE  UNCHANGED Key!kvars
<1> USE DEF KeyFacts
<1>0. PICK s \in Roles : s = op[w].role
  BY DEF Close, At, IInv, OpShape, StateOK
<1>1. /\ op[w].pc = "close" /\ entry' = entry /\ used' = used /\ handoff' = handoff
      /\ map' = [map EXCEPT ![w] = @ \ {s}]
  BY <1>0 DEF Close, At, maps
<1>2. /\ op \in [Workers -> [pc : Pcs, role : Roles \cup {NoRole}, rest : SUBSET Roles]]
      /\ map \in [Workers -> SUBSET Roles] /\ s \notin op[w].rest
  BY <1>0 DEF IInv, StateOK, OpShape
<1> HIDE DEF KeyFacts
<1> DEFINE Onward ==
          /\ op'[w].pc \in {"idle"} \cup TeardownPcs
          /\ op'[w].role \in op[w].rest \cup {NoRole}
          /\ op[w].rest # {} => op'[w].pc \in TeardownPcs
          /\ op[w].rest \subseteq op'[w].rest \cup {op'[w].role}
<1>3. Only(w) /\ map'[w] = map[w] \ {s} /\ Onward
  <2>1. CASE op[w].rest = {} /\ Return(w)
    BY <1>1, <1>2, <2>1 DEF Only, Return, Idle
  <2>2. ASSUME NEW r \in op[w].rest, op' = [op EXCEPT ![w] = Teardown(r, op[w].rest \ {r})]
        PROVE  Only(w) /\ map'[w] = map[w] \ {s} /\ Onward
    <3>1. op'[w] = Teardown(r, op[w].rest \ {r})
      BY <1>2, <2>2
    <3>2. op'[w].pc \in TeardownPcs /\ op'[w].role = r /\ op'[w].rest = op[w].rest \ {r}
      BY <3>1 DEF Teardown, TeardownPcs
    <3>3. Only(w) /\ map'[w] = map[w] \ {s}
      BY <1>1, <1>2, <2>2 DEF Only
    <3> QED BY <3>2, <3>3
  <2> QED BY <2>1, <2>2 DEF Close
<1>4. /\ s \in Carried(w) /\ op[w].rest \subseteq Carried(w) /\ s \notin op[w].rest
      /\ op[w].rest \subseteq Carried(w)'
  BY <1>0, <1>1, <1>2, <1>3 DEF Carried, TeardownPcs
<1>5. \A q \in Roles : /\ ~Opens(w, q) /\ ~Grants(w, q)
                       /\ ~Opens(w, q)' /\ ~Grants(w, q)'
  BY <1>1, <1>3 DEF Opens, Grants, TeardownPcs
<1>6. Same(s)
  <2>1. s \notin map'[w] /\ s \notin handoff'
    BY <1>1, <1>3, <1>4 DEF KeyFacts, Apart
  <2> QED BY <1>1, <1>3, <1>4, <1>5, <2>1, CarriedStands
<1>7. ASSUME NEW q \in Roles, q \in op[w].rest
      PROVE  Same(q)
  BY <1>1, <1>3, <1>4, <1>5, <1>7, CarriedStands
<1>8. ASSUME NEW q \in Roles, q # s, q \notin op[w].rest
      PROVE  Same(q)
  <2>1. q # op[w].role /\ q # op'[w].role
    BY <1>0, <1>3, <1>8, RolesAssumption
  <2>2. q \in Serving(w)' <=> q \in Serving(w)
    BY <1>3, <1>8, <2>1 DEF Serving, Dying
  <2> QED BY <1>1, <1>3, <1>5, <2>2, Local DEF Same
<1> QED BY <1>1, <1>6, <1>7, <1>8, NoneMoves DEF Key!kvars, PhaseOf

\* Whatever begins a teardown of the one session an idle worker deals with, the
\* session ends with the key in hand.
LEMMA TeardownKey ==
    ASSUME KeyFacts, KeyFacts', NEW w \in Workers, NEW s \in Roles, NEW rest,
           op[w].pc = "idle", op' = [op EXCEPT ![w] = Teardown(s, rest)],
           map' = map, used' = used, entry' = entry, handoff' \ {s} = handoff \ {s},
           s \in Served \cup handoff
    PROVE  Key!Next
<1> USE DEF KeyFacts
<1>1. op[w].role = NoRole
  BY DEF IInv, OpShape
<1>2. Only(w) /\ op'[w] = Teardown(s, rest)
  BY OnlyOp
<1>3. \A q \in Roles \ {s} : Same(q)
  BY <1>1, <1>2, OthersStand DEF Teardown
<1>4. Phase(s) \in {"waiting", "served"} /\ entry = s
  BY DEF PhaseTable
<1>5. s \in Carried(w)' /\ ~Grants(w, s)'
  BY <1>2 DEF Carried, Grants, Teardown, TeardownPcs
<1>6. Phase(s)' = "ending"
  BY <1>4, <1>5 DEF Apart, PhaseTable
<1> QED BY <1>3, <1>4, <1>6, EndStep

\* check_invalid_sock() ends a session that is served.
LEMMA CheckInvalidKey ==
    ASSUME KeyFacts, KeyFacts', NEW w \in Workers, NEW r \in Roles,
           CheckInvalid(w, r) \/ IdleTimeout(w, r)
    PROVE  Key!Next
<1>1. /\ op[w].pc = "idle" /\ r \in map[w] /\ op' = [op EXCEPT ![w] = Teardown(r, {})]
      /\ map' = map /\ used' = used /\ entry' = entry /\ handoff' = handoff
  BY DEF CheckInvalid, IdleTimeout, At, maps
<1>2. r \in Served
  BY <1>1 DEF Served, Serving, Dying, TeardownPcs
<1> QED BY <1>1, <1>2, TeardownKey

\* reap_unadopted() finds one session at most, the registered one, and ends it.
LEMMA ReapKey ==
    ASSUME KeyFacts, KeyFacts', NEW w \in Workers, Reap(w)
    PROVE  Key!Next
<1> USE DEF KeyFacts
<1>0. PICK S \in SUBSET handoff : \E r \in S :
          handoff' = handoff \ S /\ op' = [op EXCEPT ![w] = Teardown(r, S \ {r})]
  BY DEF Reap
<1>1. PICK r \in S :
          handoff' = handoff \ S /\ op' = [op EXCEPT ![w] = Teardown(r, S \ {r})]
  BY <1>0
<1>2. \A q \in S : q \in Roles /\ q = entry
  BY DEF PhaseTable, IInv, StateOK
<1>3. handoff' \ {r} = handoff \ {r}
  BY <1>1, <1>2
<1>4. op[w].pc = "idle" /\ map' = map /\ used' = used /\ entry' = entry
  BY DEF Reap, At, maps
<1> QED BY <1>1, <1>2, <1>3, <1>4, TeardownKey

\* check_new_role() serves the session it pops, or ends it.
LEMMA AdoptKey ==
    ASSUME KeyFacts, KeyFacts', NEW w \in Workers, Adopt(w)
    PROVE  Key!Next
<1> USE DEF KeyFacts
<1>1. op[w].pc = "idle" /\ used' = used /\ entry' = entry
  BY DEF Adopt, At, maps
<1>2. PICK r \in handoff :
          /\ handoff' = handoff \ {r}
          /\ \/ map' = [map EXCEPT ![w] = @ \cup {r}] /\ op' = op
             \/ op' = [op EXCEPT ![w] = Teardown(r, {})] /\ map' = map
  BY DEF Adopt
<1>3. r \in Roles /\ Phase(r) = "waiting" /\ entry = r
  BY DEF PhaseTable, IInv, StateOK
<1>4. CASE map' = [map EXCEPT ![w] = @ \cup {r}] /\ op' = op
  <2>1. Only(w) /\ map'[w] = map[w] \cup {r} /\ op'[w] = op[w] /\ op[w].role = NoRole
    BY <1>1, <1>4 DEF Only, IInv, StateOK, OpShape
  <2>2. \A q \in Roles \ {r} : Same(q)
    BY <1>1, <1>2, <1>3, <2>1, OthersStand
  <2>3. r \in Served'
    BY <1>1, <2>1 DEF Served, Serving, Dying, TeardownPcs
  <2>4. Phase(r)' = "served"
    BY <1>3, <2>3 DEF PhaseTable
  <2> QED BY <1>1, <1>3, <2>2, <2>4, ServeStep
<1>5. CASE op' = [op EXCEPT ![w] = Teardown(r, {})] /\ map' = map
  BY <1>1, <1>2, <1>3, <1>5, TeardownKey
<1> QED BY <1>2, <1>4, <1>5

\* What goes on in w's hands without any session being made, granted or torn down
\* is nothing to the key.
LEMMA ServingKey ==
    ASSUME KeyFacts, NEW w \in Workers,
           op[w].pc \in {"idle", "incumbent", "put"},
           op' = op \/ \E x \in [pc : {"idle", "put"}, role : Roles \cup {NoRole}, rest : SUBSET Roles] :
                           op' = [op EXCEPT ![w] = x],
           map' = map, used' = used, entry' = entry, handoff' = handoff
    PROVE  UNCHANGED Key!kvars
<1>1. Only(w) /\ op'[w].pc \in {"idle", "incumbent", "put"}
  BY DEF Only, KeyFacts, IInv, StateOK
<1>2. ASSUME NEW q \in Roles
      PROVE  Same(q)
  <2>1. (Opens(w, q)' <=> Opens(w, q)) /\ (Grants(w, q)' <=> Grants(w, q))
    BY <1>1 DEF Opens, Grants
  <2>2. q \in Serving(w)' <=> q \in Serving(w)
    BY <1>1 DEF Serving, Dying, TeardownPcs
  <2> QED BY <1>1, <2>1, <2>2, Local DEF Same
<1> QED BY <1>2, NoneMoves DEF Key!kvars, PhaseOf

\* A takeover only kicks, and the data path only reads and writes.
LEMMA DataKey ==
    ASSUME KeyFacts, NEW w \in Workers,
           Incumbent(w) \/ Put(w) \/ \E r \in Roles : Receive(w, r)
    PROVE  UNCHANGED Key!kvars
<1> DEFINE Onward ==
        op' = op \/ \E x \in [pc : {"idle", "put"}, role : Roles \cup {NoRole}, rest : SUBSET Roles] :
                       op' = [op EXCEPT ![w] = x]
<1>1. /\ op[w].pc \in {"idle", "incumbent", "put"}
      /\ map' = map /\ used' = used /\ entry' = entry /\ handoff' = handoff
  BY DEF Incumbent, Put, Receive, At, maps
<1>2. ASSUME Incumbent(w) \/ Put(w)
      PROVE  Onward
  BY <1>2 DEF Incumbent, Put, Return, Idle
<1>3. ASSUME NEW r \in Roles, Receive(w, r)
      PROVE  Onward
  <2>1. op[w].rest \in SUBSET Roles
    BY DEF KeyFacts, IInv, StateOK
  <2> QED BY <1>3, <2>1 DEF Receive, Goto
<1>4. Onward
  BY <1>2, <1>3
<1> HIDE DEF Onward
<1> QED BY <1>1, <1>4, ServingKey DEF Onward

\* Every step over the two maps, the list and the workers is a step of the lock or
\* nothing to it.
LEMMA KeyStep ==
    ASSUME KeyFacts, KeyFacts', [Next]_vars
    PROVE  Key!Next \/ UNCHANGED Key!kvars
<1>1. ASSUME NEW w \in Workers, Continue(w)
      PROVE  Key!Next \/ UNCHANGED Key!kvars
  BY <1>1, DataKey, RegisterKey, GrantedKey, DropEntryKey, DropRingKey, CloseKey DEF Continue
<1>2. ASSUME NEW w \in Workers, WorkerStep(w)
      PROVE  Key!Next \/ UNCHANGED Key!kvars
  BY <1>1, <1>2, ReapKey, AdoptKey, AcceptLookupKey, PullLookupKey, DataKey, CheckInvalidKey
  DEF WorkerStep
<1>3. ASSUME UNCHANGED <<entry, used, handoff, map, op>>
      PROVE  UNCHANGED Key!kvars
  <2>1. \A r \in Roles : Same(r)
    BY <1>3 DEF Same, Opening, Granted, Served, Serving, Dying
  <2> QED BY <1>3, <2>1, NoneMoves DEF Key!kvars, PhaseOf
<1>4. (\E r \in Roles : Break(r) \/ Quiet(r)) \/ Disconnect \/ UNCHANGED vars =>
          UNCHANGED <<entry, used, handoff, map, op>>
  BY DEF Break, Quiet, Disconnect, vars, maps
<1> QED BY <1>2, <1>3, <1>4 DEF Next

\* The sessions of a key, however many encoders, pullers and workers there are,
\* implement the lock: accept, takeover, pull, hand-off, adoption, kick and
\* teardown never give the key to two, nor take it from a session before its
\* uninit() yields it.
THEOREM SessionsImplementKey == Spec => ImplementsStreamKey
<1>1. Init => Key!Init
  BY DEF Init, Key!Init, Phase
<1>2. IInv => KeyFacts
  BY TableHolds, ApartHolds DEF KeyFacts
<1>3. KeyFacts /\ KeyFacts' /\ [Next]_vars => [Key!Next]_Key!kvars
  BY KeyStep
<1> QED BY <1>1, <1>2, <1>3, Invariance, PTL DEF Spec, Key!Spec, ImplementsStreamKey

\* From its registration to the remove(this) of its uninit() a session has the key,
\* whichever list, map or worker it is with, and no other session is on that way.
THEOREM KeyIsExclusive == Spec => []Key!Exclusive
<1>1. IInv => Key!Exclusive
  <2> SUFFICES ASSUME IInv, NEW r \in Roles
               PROVE  Phase(r) \in {"waiting", "served", "ending"} <=> entry = r
    BY DEF Key!Exclusive
  <2>1. PhaseTable
    BY TableHolds
  <2> QED BY <2>1 DEF PhaseTable
<1> QED BY <1>1, Invariance, PTL
===============================================================================
