----------------------------- MODULE StoreProofs -----------------------------
(***************************************************************************)
(* The slot counter is right, for any number of workers, ids and slots.    *)
(***************************************************************************)
EXTENDS Store, FiniteSetTheorems, TLAPS

\* A worker that releases has seen the slot it holds, so release_slot never
\* gives up with the slot still counted (store.rs:139).
ReleaseSeesSlot == \A w \in Workers : pc[w] = "release_cas" => current[w] > 0

SlotInv == StoreTypeOK /\ SlotAccounting /\ ReleaseSeesSlot

Holds(w) == pc[w] \in {"insert", "release", "release_cas"}

\* Both cardinalities of the accounting are natural numbers.
LEMMA CountsAreNumbers ==
  ASSUME StoreTypeOK
  PROVE  /\ IsFiniteSet(sessions) /\ Cardinality(sessions) \in Nat
         /\ IsFiniteSet(SlotHolders) /\ Cardinality(SlotHolders) \in Nat
<1>1. IsFiniteSet(sessions)
  BY StoreAssumption, FS_Subset DEF StoreAssumption, StoreTypeOK
<1>2. IsFiniteSet(SlotHolders)
  <2>1. SlotHolders \subseteq Workers
    BY DEF SlotHolders
  <2> QED
    BY <2>1, StoreAssumption, FS_Subset DEF StoreAssumption
<1> QED
  BY <1>1, <1>2, FS_CardinalityType

\* A worker that holds a slot is counted.
LEMMA HolderIsCounted ==
  ASSUME StoreTypeOK, SlotAccounting, NEW w \in Workers, Holds(w)
  PROVE  active_sessions > 0
<1>1. w \in SlotHolders
  BY DEF Holds, SlotHolders
<1>2. Cardinality(SlotHolders) # 0
  BY <1>1, CountsAreNumbers, FS_EmptySet
<1> QED
  BY <1>2, CountsAreNumbers DEF SlotAccounting

\* How the number of slot holders changes when one worker moves.
LEMMA HoldersChange ==
  ASSUME StoreTypeOK, NEW w \in Workers, NEW phase, Goto(w, phase)
  PROVE  /\ Holds(w) /\ phase \in {"insert", "release", "release_cas"}
              => Cardinality(SlotHolders') = Cardinality(SlotHolders)
         /\ ~Holds(w) /\ phase \in {"insert", "release", "release_cas"}
              => Cardinality(SlotHolders') = Cardinality(SlotHolders) + 1
         /\ Holds(w) /\ phase \notin {"insert", "release", "release_cas"}
              => Cardinality(SlotHolders') = Cardinality(SlotHolders) - 1
         /\ ~Holds(w) /\ phase \notin {"insert", "release", "release_cas"}
              => Cardinality(SlotHolders') = Cardinality(SlotHolders)
<1> DEFINE held == {"insert", "release", "release_cas"}
<1>1. pc \in [Workers -> Phases] /\ pc' = [pc EXCEPT ![w] = phase]
  BY DEF StoreTypeOK, Goto
<1>2. pc'[w] = phase /\ \A v \in Workers \ {w} : pc'[v] = pc[v]
  BY <1>1
<1>3. w \in SlotHolders <=> Holds(w)
  BY DEF SlotHolders, Holds
<1>4. CASE phase \in held
  <2>1. SlotHolders' = SlotHolders \cup {w}
    BY <1>2, <1>4 DEF SlotHolders
  <2>2. Holds(w) => SlotHolders' = SlotHolders
    BY <1>3, <2>1
  <2> QED
    BY <1>3, <1>4, <2>1, <2>2, CountsAreNumbers, FS_AddElement
<1>5. CASE phase \notin held
  <2>1. SlotHolders' = SlotHolders \ {w}
    BY <1>2, <1>5 DEF SlotHolders
  <2>2. ~Holds(w) => SlotHolders' = SlotHolders
    BY <1>3, <2>1
  <2> QED
    BY <1>3, <1>5, <2>1, <2>2, CountsAreNumbers, FS_RemoveElement
<1> QED
  BY <1>4, <1>5

-----------------------------------------------------------------------------
(* Each step keeps the books.                                              *)

\* Steps that move between phases without a slot, and change nothing else.
LEMMA WithoutSlot ==
  ASSUME SlotInv, NEW w \in Workers,
         \/ StartCreate(w)
         \/ \E id \in Ids : StartGetOrCreate(w, id)
         \/ LoadToReserve(w)
         \/ Refuse(w)
  PROVE  SlotInv'
<1>1. StoreTypeOK /\ SlotAccounting /\ ReleaseSeesSlot
  BY DEF SlotInv
<1>2. StoreTypeOK'
  BY <1>1, StoreAssumption
     DEF StoreTypeOK, StartCreate, StartGetOrCreate, LoadToReserve, Refuse, Goto, Read, Forget,
         Phases, Operations, StoreAssumption
<1>3. PICK phase : Goto(w, phase) /\ phase \in {"idle", "reserve", "reserve_cas"}
  BY DEF StartCreate, StartGetOrCreate, LoadToReserve, Refuse
<1>4. /\ ~Holds(w) /\ sessions' = sessions /\ active_sessions' = active_sessions
      /\ \A v \in Workers \ {w} : current'[v] = current[v]
  BY <1>1 DEF StartCreate, StartGetOrCreate, LoadToReserve, Refuse, Holds, Read, Forget,
     StoreTypeOK
<1>5. SlotAccounting'
  BY <1>1, <1>3, <1>4, HoldersChange DEF SlotAccounting
<1>6. ReleaseSeesSlot'
  BY <1>1, <1>3, <1>4 DEF ReleaseSeesSlot, Goto, StoreTypeOK
<1> QED
  BY <1>2, <1>5, <1>6 DEF SlotInv

\* A removed session becomes a slot in hand (store.rs:103).
LEMMA RemoveKeepsBooks ==
  ASSUME SlotInv, NEW w \in Workers, NEW id \in Ids, Remove(w, id)
  PROVE  SlotInv'
<1>1. StoreTypeOK /\ SlotAccounting /\ ReleaseSeesSlot
  BY DEF SlotInv
<1>2. StoreTypeOK'
  BY <1>1 DEF StoreTypeOK, Remove, Goto, Phases, Operations
<1>3. Cardinality(sessions') = Cardinality(sessions) - 1
  BY <1>1, CountsAreNumbers, FS_RemoveElement DEF Remove
<1>4. Cardinality(SlotHolders') = Cardinality(SlotHolders) + 1
  BY <1>1, HoldersChange DEF Remove, Holds
<1>5. SlotAccounting'
  BY <1>1, <1>3, <1>4, CountsAreNumbers DEF SlotAccounting, Remove
<1>6. ReleaseSeesSlot'
  BY <1>1 DEF ReleaseSeesSlot, Remove, Goto, StoreTypeOK
<1> QED
  BY <1>2, <1>5, <1>6 DEF SlotInv

\* A won compare_exchange is a slot in hand (store.rs:125).
LEMMA ReserveKeepsBooks ==
  ASSUME SlotInv, NEW w \in Workers, ReserveCas(w)
  PROVE  SlotInv'
<1>1. StoreTypeOK /\ SlotAccounting /\ ReleaseSeesSlot
  BY DEF SlotInv
<1>2. CASE active_sessions = current[w]
  <2>1. /\ active_sessions' = active_sessions + 1 /\ active_sessions < max_sessions
        /\ Goto(w, "insert") /\ Forget(w) /\ sessions' = sessions
        /\ op' = op /\ target' = target /\ ~Holds(w)
    BY <1>2 DEF ReserveCas, Holds
  <2>2. StoreTypeOK'
    BY <1>1, <2>1, StoreAssumption DEF StoreTypeOK, Goto, Forget, Phases, StoreAssumption
  <2>3. SlotAccounting'
    BY <1>1, <2>1, HoldersChange, CountsAreNumbers DEF SlotAccounting
  <2>4. ReleaseSeesSlot'
    BY <1>1, <2>1 DEF ReleaseSeesSlot, Goto, Forget, StoreTypeOK
  <2> QED
    BY <2>2, <2>3, <2>4 DEF SlotInv
<1>3. CASE active_sessions # current[w]
  <2>1. /\ Read(w) /\ pc' = pc /\ pc[w] = "reserve_cas" /\ active_sessions' = active_sessions
        /\ sessions' = sessions /\ op' = op /\ target' = target
    BY <1>3 DEF ReserveCas
  <2>2. StoreTypeOK' /\ SlotAccounting'
    BY <1>1, <2>1 DEF StoreTypeOK, Read, SlotAccounting, SlotHolders
  <2>3. ReleaseSeesSlot'
    BY <1>1, <2>1 DEF ReleaseSeesSlot, Read, StoreTypeOK
  <2> QED
    BY <2>2, <2>3 DEF SlotInv
<1> QED
  BY <1>2, <1>3

\* An inserted session takes the slot, an occupied entry leaves it (store.rs:89).
LEMMA InsertKeepsBooks ==
  ASSUME SlotInv, NEW w \in Workers, NEW id \in Ids, Insert(w, id)
  PROVE  SlotInv'
<1>1. StoreTypeOK /\ SlotAccounting /\ ReleaseSeesSlot
  BY DEF SlotInv
<1>2. StoreTypeOK'
  BY <1>1 DEF StoreTypeOK, Insert, Goto, Phases
<1>3. SlotAccounting'
  <2>1. CASE id \in sessions
    <3>1. sessions' = sessions /\ Goto(w, "release") /\ Holds(w)
      BY <2>1 DEF Insert, Holds
    <3> QED
      BY <1>1, <3>1, HoldersChange DEF SlotAccounting, Insert
  <2>2. CASE id \notin sessions
    <3>1. Goto(w, "idle") /\ Holds(w)
      BY <2>2 DEF Insert, Holds
    <3>2. Cardinality(sessions') = Cardinality(sessions) + 1
      BY <1>1, <2>2, CountsAreNumbers, FS_AddElement DEF Insert
    <3> QED
      BY <1>1, <3>1, <3>2, HoldersChange, CountsAreNumbers DEF SlotAccounting, Insert
  <2> QED
    BY <2>1, <2>2
<1>4. ReleaseSeesSlot'
  BY <1>1 DEF ReleaseSeesSlot, Insert, Goto, StoreTypeOK
<1> QED
  BY <1>2, <1>3, <1>4 DEF SlotInv

\* A holder that reads the counter reads more than zero (store.rs:138).
LEMMA LoadToReleaseKeepsBooks ==
  ASSUME SlotInv, NEW w \in Workers, LoadToRelease(w)
  PROVE  SlotInv'
<1>1. StoreTypeOK /\ SlotAccounting /\ ReleaseSeesSlot
  BY DEF SlotInv
<1>2. StoreTypeOK'
  BY <1>1 DEF StoreTypeOK, LoadToRelease, Goto, Read, Phases
<1>3. SlotAccounting'
  BY <1>1, HoldersChange DEF SlotAccounting, LoadToRelease, Holds
<1>4. active_sessions > 0
  BY <1>1, HolderIsCounted DEF LoadToRelease, Holds
<1>5. ReleaseSeesSlot'
  BY <1>1, <1>4 DEF ReleaseSeesSlot, LoadToRelease, Goto, Read, StoreTypeOK
<1> QED
  BY <1>2, <1>3, <1>5 DEF SlotInv

\* A won compare_exchange gives the slot back (store.rs:140).
LEMMA ReleaseKeepsBooks ==
  ASSUME SlotInv, NEW w \in Workers, ReleaseCas(w)
  PROVE  SlotInv'
<1>1. StoreTypeOK /\ SlotAccounting /\ ReleaseSeesSlot
  BY DEF SlotInv
<1>2. /\ pc[w] = "release_cas" /\ Holds(w) /\ current[w] > 0 /\ active_sessions > 0
      /\ sessions' = sessions /\ op' = op /\ target' = target
  BY <1>1, HolderIsCounted DEF ReleaseCas, Holds, ReleaseSeesSlot
<1>3. CASE active_sessions = current[w]
  <2>1. active_sessions' = active_sessions - 1 /\ Released(w) /\ Forget(w)
    BY <1>2, <1>3 DEF ReleaseCas
  <2>2. PICK phase \in {"reserve", "idle"} : Goto(w, phase)
    BY <2>1 DEF Released
  <2>3. StoreTypeOK'
    BY <1>1, <1>2, <2>1, <2>2, StoreAssumption
       DEF StoreTypeOK, Goto, Forget, Phases, StoreAssumption
  <2>4. SlotAccounting'
    BY <1>1, <1>2, <2>1, <2>2, HoldersChange, CountsAreNumbers DEF SlotAccounting
  <2>5. ReleaseSeesSlot'
    BY <1>1, <2>1, <2>2 DEF ReleaseSeesSlot, Goto, Forget, StoreTypeOK
  <2> QED
    BY <2>3, <2>4, <2>5 DEF SlotInv
<1>4. CASE active_sessions # current[w]
  <2>1. Read(w) /\ pc' = pc /\ active_sessions' = active_sessions
    BY <1>2, <1>4 DEF ReleaseCas
  <2>2. StoreTypeOK' /\ SlotAccounting'
    BY <1>1, <1>2, <2>1 DEF StoreTypeOK, Read, SlotAccounting, SlotHolders
  <2>3. ReleaseSeesSlot'
    BY <1>1, <1>2, <2>1 DEF ReleaseSeesSlot, Read, StoreTypeOK
  <2> QED
    BY <2>2, <2>3 DEF SlotInv
<1> QED
  BY <1>3, <1>4

\* No slot is taken at the start.
LEMMA InitKeepsBooks == Init => SlotInv
<1> SUFFICES ASSUME Init PROVE SlotInv
  OBVIOUS
<1>1. StoreTypeOK
  BY StoreAssumption DEF Init, StoreTypeOK, StoreAssumption, Phases, Operations
<1>2. SlotHolders = {}
  BY DEF Init, SlotHolders
<1>3. SlotAccounting
  BY <1>2, FS_EmptySet DEF Init, SlotAccounting
<1>4. ReleaseSeesSlot
  BY DEF Init, ReleaseSeesSlot
<1> QED
  BY <1>1, <1>3, <1>4 DEF SlotInv

\* SlotInv is inductive: one lemma per group of actions.
LEMMA StepKeepsBooks == SlotInv /\ [Next]_vars => SlotInv'
<1> SUFFICES ASSUME SlotInv, [Next]_vars PROVE SlotInv'
  OBVIOUS
<1>1. CASE Next
  <2>1. PICK w \in Workers : Start(w) \/ Advance(w)
    BY <1>1 DEF Next
  <2> QED
    BY <2>1, WithoutSlot, RemoveKeepsBooks, ReserveKeepsBooks, InsertKeepsBooks,
       LoadToReleaseKeepsBooks, ReleaseKeepsBooks DEF Start, Advance
<1>2. CASE UNCHANGED vars
  BY <1>2 DEF SlotInv, StoreTypeOK, SlotAccounting, SlotHolders, ReleaseSeesSlot, vars
<1> QED
  BY <1>1, <1>2

LEMMA BooksKept == Spec => []SlotInv
BY InitKeepsBooks, StepKeepsBooks, PTL DEF Spec

\* The counter, and every value read from it, stays within 0 .. max_sessions.
THEOREM StoreTypesHold == Spec => []StoreTypeOK
<1>1. SlotInv => StoreTypeOK
  BY DEF SlotInv
<1> QED
  BY <1>1, BooksKept, PTL

\* The counter is the number of sessions and of the slots held for one.
THEOREM SlotAccountingHolds == Spec => []SlotAccounting
<1>1. SlotInv => SlotAccounting
  BY DEF SlotInv
<1> QED
  BY <1>1, BooksKept, PTL

\* The map never holds more than max_sessions, slots in hand included.
THEOREM CapacityHolds == Spec => []CapacityRespected
<1>1. SlotInv => CapacityRespected
  BY DEF SlotInv, StoreTypeOK, SlotAccounting, CapacityRespected
<1> QED
  BY <1>1, BooksKept, PTL

\* No worker ever leaves release_slot with its slot still counted.
THEOREM NoSlotLeaks == Spec => []ReleaseSeesSlot
<1>1. SlotInv => ReleaseSeesSlot
  BY DEF SlotInv
<1> QED
  BY <1>1, BooksKept, PTL

-----------------------------------------------------------------------------
(* The counter acts as one atomic decision.                                *)

\* What the abstract table knows of the workers.
Standings == [w \in Workers |-> Standing(w)]

\* The phases of a worker, as the abstract table sees them.
LEMMA StandingOfPhase ==
  ASSUME StoreTypeOK, NEW w \in Workers
  PROVE  /\ pc[w] = "idle" => Standing(w) = "out"
         /\ pc[w] = "reserve" => Standing(w) = "asking"
         /\ pc[w] = "reserve_cas" /\ current[w] < max_sessions => Standing(w) = "asking"
         /\ pc[w] = "reserve_cas" /\ current[w] >= max_sessions => Standing(w) = "denied"
         /\ Holds(w) <=> Standing(w) = "holding"
<1>1. current[w] \in Nat /\ max_sessions \in Nat /\ pc[w] \in Phases
  BY StoreAssumption DEF StoreTypeOK, StoreAssumption
<1> QED
  BY <1>1 DEF Standing, Holds, Phases

\* The slots the abstract table counts are those of the counter.
LEMMA UsedIsCounted ==
  ASSUME StoreTypeOK, SlotAccounting
  PROVE  Atomic!Used = active_sessions
<1>1. Atomic!Used = Cardinality(sessions) + Cardinality({w \in Workers : Standings[w] = "holding"})
  <2>1. \A S : Atomic!Cardinality(S) = Cardinality(S)
    BY DEF Atomic!Cardinality, Cardinality
  <2> QED
    BY <2>1 DEF Atomic!Used, Standings
<1>2. {w \in Workers : Standings[w] = "holding"} = SlotHolders
  BY StandingOfPhase DEF Standings, SlotHolders, Holds
<1> QED
  BY <1>1, <1>2 DEF SlotAccounting

\* A worker that moves alone moves alone there.
LEMMA StandingMoves ==
  ASSUME NEW w \in Workers, NEW to, Standing(w)' = to,
         \A v \in Workers \ {w} : pc'[v] = pc[v] /\ current'[v] = current[v]
  PROVE  /\ Standings' = [Standings EXCEPT ![w] = to]
         /\ Standing(w) = to => Standings' = Standings
         /\ Atomic!Turn(w, Standing(w), to)
<1>1. \A v \in Workers \ {w} : Standing(v)' = Standing(v)
  BY DEF Standing
<1>2. Standings' = [Standings EXCEPT ![w] = to]
  BY <1>1 DEF Standings
<1>3. Standing(w) = to => Standings' = Standings
  BY <1>1 DEF Standings
<1> QED
  BY <1>2, <1>3 DEF Atomic!Turn, Standings

\* Each step is one of the abstract table, or unseen there.
LEMMA StepActsAtomically ==
  ASSUME SlotInv, [Next]_vars
  PROVE  [Atomic!Next]_(Atomic!vars)
<1>0. StoreTypeOK /\ StoreTypeOK' /\ Atomic!Used = active_sessions
  <2>1. SlotInv'
    BY StepKeepsBooks
  <2> QED
    BY <2>1, UsedIsCounted DEF SlotInv
<1>1. CASE UNCHANGED vars
  <2>1. \A w \in Workers : Standing(w)' = Standing(w)
    BY <1>1 DEF vars, Standing
  <2>2. Standings' = Standings
    BY <2>1 DEF Standings
  <2> QED
    BY <1>1, <2>2 DEF vars, Standings, Atomic!vars
<1>2. ASSUME NEW w \in Workers, Start(w) \/ Advance(w)
      PROVE  [Atomic!Next]_(Atomic!vars)
  <2> DEFINE to == Standing(w)'
  <2>1. /\ \A v \in Workers \ {w} : pc'[v] = pc[v] /\ current'[v] = current[v]
        /\ current'[w] \in Nat /\ max_sessions \in Nat /\ pc'[w] \in Phases
        /\ current[w] \in Nat
    <3>1. \A v \in Workers \ {w} : pc'[v] = pc[v] /\ current'[v] = current[v]
      BY <1>0, <1>2 DEF StoreTypeOK, Start, Advance, StartCreate, StartGetOrCreate, Remove,
         LoadToReserve, Refuse, ReserveCas, Insert, LoadToRelease, ReleaseCas, Released,
         Goto, Read, Forget
    <3> QED
      BY <1>0, <3>1, StoreAssumption DEF StoreTypeOK, StoreAssumption
  <2>2. /\ pc'[w] = "idle" => to = "out"
        /\ pc'[w] = "reserve" => to = "asking"
        /\ pc'[w] = "reserve_cas" /\ current'[w] < max_sessions => to = "asking"
        /\ pc'[w] = "reserve_cas" /\ current'[w] >= max_sessions => to = "denied"
        /\ pc'[w] \in {"insert", "release", "release_cas"} => to = "holding"
    BY <2>1 DEF Standing, Phases
  <2>3. Atomic!Turn(w, Standing(w), to)
    BY <2>1, StandingMoves
  <2>4. ASSUME sessions' = sessions, Standing(w) = to
        PROVE  [Atomic!Next]_(Atomic!vars)
    <3>1. Standings' = Standings
      BY <2>1, <2>4, StandingMoves
    <3> QED
      BY <2>4, <3>1 DEF Atomic!vars, Standings
  <2>5. /\ pc[w] = "idle" => Standing(w) = "out"
        /\ pc[w] = "reserve" => Standing(w) = "asking"
        /\ pc[w] = "reserve_cas" /\ current[w] < max_sessions => Standing(w) = "asking"
        /\ pc[w] = "reserve_cas" /\ current[w] >= max_sessions => Standing(w) = "denied"
        /\ pc[w] \in {"insert", "release", "release_cas"} => Standing(w) = "holding"
    BY <1>0, StandingOfPhase DEF Holds
  <2>6. pc[w] \in Phases /\ pc \in [Workers -> Phases] /\ current \in [Workers -> 0 .. max_sessions]
        /\ active_sessions \in Nat
    BY <1>0, <2>1 DEF StoreTypeOK
  <2> HIDE DEF to
  <2>7. CASE StartCreate(w) \/ \E id \in Ids : StartGetOrCreate(w, id)
    <3>1. sessions' = sessions /\ pc[w] = "idle" /\ pc'[w] = "reserve"
      BY <2>6, <2>7 DEF StartCreate, StartGetOrCreate, Goto
    <3>2. Atomic!Ask(w)
      BY <2>2, <2>3, <2>5, <3>1 DEF Atomic!Ask
    <3> QED
      BY <3>2 DEF Atomic!Next
  <2>8. ASSUME NEW id \in Ids, Remove(w, id)
        PROVE  [Atomic!Next]_(Atomic!vars)
    <3>1. /\ id \in sessions /\ sessions' = sessions \ {id}
          /\ pc[w] = "idle" /\ pc'[w] = "release"
      BY <2>6, <2>8 DEF Remove, Goto
    <3>2. Atomic!Take(w, id)
      BY <2>2, <2>3, <2>5, <3>1 DEF Atomic!Take
    <3> QED
      BY <3>2 DEF Atomic!Next
  <2>9. ASSUME sessions' = sessions, Standing(w) = "asking", pc'[w] = "reserve_cas",
               current'[w] = active_sessions
        PROVE  [Atomic!Next]_(Atomic!vars)
    <3>1. CASE active_sessions < max_sessions
      BY <2>2, <2>4, <2>9, <3>1
    <3>2. CASE active_sessions >= max_sessions
      <4>1. Atomic!Deny(w)
        BY <1>0, <2>2, <2>3, <2>9, <3>2 DEF Atomic!Deny
      <4> QED
        BY <4>1 DEF Atomic!Next
    <3> QED
      BY <2>1, <2>6, <3>1, <3>2
  <2>10. CASE LoadToReserve(w)
    <3>1. /\ sessions' = sessions /\ pc[w] = "reserve" /\ pc'[w] = "reserve_cas"
          /\ current'[w] = active_sessions
      BY <2>6, <2>10 DEF LoadToReserve, Goto, Read
    <3> QED
      BY <2>5, <2>9, <3>1
  <2>11. CASE Refuse(w)
    <3>1. /\ sessions' = sessions /\ pc[w] = "reserve_cas" /\ current[w] >= max_sessions
          /\ pc'[w] = "idle"
      BY <2>6, <2>11 DEF Refuse, Goto
    <3>2. Atomic!Return(w)
      BY <2>2, <2>3, <2>5, <3>1 DEF Atomic!Return
    <3> QED
      BY <3>2 DEF Atomic!Next
  <2>12. CASE ReserveCas(w)
    <3>1. /\ sessions' = sessions /\ pc[w] = "reserve_cas" /\ current[w] < max_sessions
      BY <2>12 DEF ReserveCas
    <3>2. CASE active_sessions = current[w]
      <4>1. pc'[w] = "insert"
        BY <2>6, <2>12, <3>2 DEF ReserveCas, Goto
      <4>2. Atomic!Grant(w)
        BY <1>0, <2>2, <2>3, <2>5, <3>1, <3>2, <4>1 DEF Atomic!Grant
      <4> QED
        BY <4>2 DEF Atomic!Next
    <3>3. CASE active_sessions # current[w]
      <4>1. pc'[w] = "reserve_cas" /\ current'[w] = active_sessions
        BY <2>6, <2>12, <3>1, <3>3 DEF ReserveCas, Read
      <4> QED
        BY <2>5, <2>9, <3>1, <4>1
    <3> QED
      BY <3>2, <3>3
  <2>13. ASSUME NEW id \in Ids, Insert(w, id)
         PROVE  [Atomic!Next]_(Atomic!vars)
    <3>1. /\ pc[w] = "insert" /\ sessions' = sessions \cup {id}
          /\ pc'[w] = IF id \in sessions THEN "release" ELSE "idle"
      BY <2>6, <2>13 DEF Insert, Goto
    <3>2. CASE id \in sessions
      BY <2>2, <2>4, <2>5, <3>1, <3>2
    <3>3. CASE id \notin sessions
      <4>1. Atomic!Put(w, id)
        BY <2>2, <2>3, <2>5, <3>1, <3>3 DEF Atomic!Put
      <4> QED
        BY <4>1 DEF Atomic!Next
    <3> QED
      BY <3>2, <3>3
  <2>14. CASE LoadToRelease(w)
    <3>1. sessions' = sessions /\ pc[w] = "release" /\ pc'[w] = "release_cas"
      BY <2>6, <2>14 DEF LoadToRelease, Goto
    <3> QED
      BY <2>2, <2>4, <2>5, <3>1
  <2>15. CASE ReleaseCas(w)
    <3>1. /\ sessions' = sessions /\ pc[w] = "release_cas"
          /\ pc'[w] \in {"release_cas", "reserve", "idle"}
      BY <2>6, <2>15 DEF ReleaseCas, Released, Goto
    <3>2. CASE pc'[w] = "release_cas"
      BY <2>2, <2>4, <2>5, <3>1, <3>2
    <3>3. CASE pc'[w] \in {"reserve", "idle"}
      <4>1. Atomic!GiveBack(w)
        BY <2>2, <2>3, <2>5, <3>1, <3>3 DEF Atomic!GiveBack
      <4> QED
        BY <4>1 DEF Atomic!Next
    <3> QED
      BY <3>1, <3>2, <3>3
  <2> QED
    BY <1>2, <2>7, <2>8, <2>10, <2>11, <2>12, <2>13, <2>14, <2>15 DEF Start, Advance
<1> QED
  BY <1>1, <1>2 DEF Next

\* The loads and exchanges of try_reserve_slot and release_slot act as one atomic
\* decision, for any number of threads, ids and slots: a slot is granted only
\* when one is free, and whoever gets TooManySessions asked while none was
\* (store.rs:118-150).
THEOREM ActsAtomicallyHolds == Spec => ActsAtomically
<1>1. Init => Atomic!Init
  <2>1. Init => \A w \in Workers : Standing(w) = "out"
    BY DEF Init, Standing
  <2> QED
    BY <2>1 DEF Init, Atomic!Init
<1>2. SlotInv /\ [Next]_vars => [Atomic!Next]_(Atomic!vars)
  BY StepActsAtomically
<1> QED
  BY <1>1, <1>2, BooksKept, PTL DEF Spec, ActsAtomically, Atomic!Spec
=============================================================================
