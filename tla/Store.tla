-------------------------------- MODULE Store --------------------------------
(***************************************************************************)
(* The session table and its slot counter (src/session/store.rs), used by  *)
(* request handlers and the TTL worker on several threads with no common   *)
(* lock: a step is one operation on the concurrent map, or one load or     *)
(* compare_exchange of the counter.  A slot is reserved before a session   *)
(* is inserted and released after one is removed.                          *)
(***************************************************************************)
EXTENDS Integers, FiniteSets

CONSTANTS
  Ids,           \* The session ids in use.
  UuidIds,       \* Those create_session may draw; it may draw one in use.
  Workers,       \* The threads that run store operations.
  max_sessions

ASSUME StoreAssumption ==
  /\ IsFiniteSet(Ids)
  /\ UuidIds \subseteq Ids
  /\ IsFiniteSet(Workers)
  /\ max_sessions \in Nat

VARIABLES
  sessions,          \* The ids in the map.
  active_sessions,   \* The slot counter.
  pc,                \* Where each worker is in its operation.
  op,                \* The operation each worker runs or last ran.
  target,            \* The id that operation is about.
  current            \* The value each worker last read, while it is in a loop.

vars == <<sessions, active_sessions, pc, op, target, current>>

Phases == {"idle", "reserve", "reserve_cas", "insert", "release", "release_cas"}

Operations == {"create", "get_or_create", "remove"}

Init ==
  /\ sessions = {}
  /\ active_sessions = 0
  /\ pc = [w \in Workers |-> "idle"]
  /\ op \in [Workers -> {"create"}]
  /\ target \in [Workers -> Ids]
  /\ current = [w \in Workers |-> 0]

Goto(w, phase) == pc' = [pc EXCEPT ![w] = phase]

Read(w) == current' = [current EXCEPT ![w] = active_sessions]

\* The loop is over, and what it read with it.
Forget(w) == current' = [current EXCEPT ![w] = 0]

-----------------------------------------------------------------------------
(* The operations.                                                         *)

\* create_session: a slot first, an id later.
StartCreate(w) ==
  /\ pc[w] = "idle"
  /\ op' = [op EXCEPT ![w] = "create"]
  /\ Goto(w, "reserve")
  /\ UNCHANGED <<sessions, active_sessions, target, current>>

\* get_or_create_with_id of an id the map does not hold; for one it holds it
\* returns at once and changes nothing.
StartGetOrCreate(w, id) ==
  /\ pc[w] = "idle"
  /\ id \notin sessions
  /\ op' = [op EXCEPT ![w] = "get_or_create"]
  /\ target' = [target EXCEPT ![w] = id]
  /\ Goto(w, "reserve")
  /\ UNCHANGED <<sessions, active_sessions, current>>

\* delete, or the removal of an expired session, of an id the map holds; of
\* another it changes nothing.
Remove(w, id) ==
  /\ pc[w] = "idle"
  /\ id \in sessions
  /\ sessions' = sessions \ {id}
  /\ op' = [op EXCEPT ![w] = "remove"]
  /\ target' = [target EXCEPT ![w] = id]
  /\ Goto(w, "release")
  /\ UNCHANGED <<active_sessions, current>>

-----------------------------------------------------------------------------
(* try_reserve_slot.                                                       *)

LoadToReserve(w) ==
  /\ pc[w] = "reserve"
  /\ Read(w)
  /\ Goto(w, "reserve_cas")
  /\ UNCHANGED <<sessions, active_sessions, op, target>>

\* TooManySessions.
Refuse(w) ==
  /\ pc[w] = "reserve_cas"
  /\ current[w] >= max_sessions
  /\ Goto(w, "idle")
  /\ Forget(w)
  /\ UNCHANGED <<sessions, active_sessions, op, target>>

\* Faults: the counter is stored without comparing, or without its limit.
ReserveOverLimit(w) ==
  /\ pc[w] = "reserve_cas"
  /\ current[w] <= max_sessions
  /\ active_sessions' = active_sessions + 1
  /\ Goto(w, "insert")
  /\ Forget(w)
  /\ UNCHANGED <<sessions, op, target>>

StoreReserved(w) ==
  /\ pc[w] = "reserve_cas"
  /\ current[w] < max_sessions
  /\ active_sessions' = current[w] + 1
  /\ Goto(w, "insert")
  /\ Forget(w)
  /\ UNCHANGED <<sessions, op, target>>

\* Fault: a failed exchange is tried again with the value that failed.
ReserveStale(w) ==
  /\ pc[w] = "reserve_cas"
  /\ current[w] < max_sessions
  /\ IF active_sessions = current[w]
     THEN /\ active_sessions' = active_sessions + 1
          /\ Goto(w, "insert")
          /\ Forget(w)
     ELSE UNCHANGED <<active_sessions, pc, current>>
  /\ UNCHANGED <<sessions, op, target>>

ReserveCas(w) ==
  /\ pc[w] = "reserve_cas"
  /\ current[w] < max_sessions
  /\ IF active_sessions = current[w]
     THEN /\ active_sessions' = active_sessions + 1
          /\ Goto(w, "insert")
          /\ Forget(w)
     ELSE /\ Read(w)
          /\ UNCHANGED <<active_sessions, pc>>
  /\ UNCHANGED <<sessions, op, target>>

-----------------------------------------------------------------------------
(* The entry of the map, occupied or vacant.                               *)

\* Fault: an occupied entry is returned with the slot still reserved.
InsertKeepingSlot(w, id) ==
  /\ pc[w] = "insert"
  /\ id \in IF op[w] = "create" THEN UuidIds ELSE {target[w]}
  /\ target' = [target EXCEPT ![w] = id]
  /\ sessions' = sessions \cup {id}
  /\ Goto(w, "idle")
  /\ UNCHANGED <<active_sessions, op, current>>

Insert(w, id) ==
  /\ pc[w] = "insert"
  /\ id \in IF op[w] = "create" THEN UuidIds ELSE {target[w]}
  /\ target' = [target EXCEPT ![w] = id]
  /\ sessions' = sessions \cup {id}
  /\ Goto(w, IF id \in sessions THEN "release" ELSE "idle")
  /\ UNCHANGED <<active_sessions, op, current>>

-----------------------------------------------------------------------------
(* release_slot; create_session then tries again with another id.          *)

LoadToRelease(w) ==
  /\ pc[w] = "release"
  /\ Read(w)
  /\ Goto(w, "release_cas")
  /\ UNCHANGED <<sessions, active_sessions, op, target>>

Released(w) == Goto(w, IF op[w] = "create" THEN "reserve" ELSE "idle")

ReleaseCas(w) ==
  /\ pc[w] = "release_cas"
  /\ IF current[w] = 0
     THEN /\ Released(w)
          /\ UNCHANGED <<active_sessions, current>>
     ELSE IF active_sessions = current[w]
     THEN /\ active_sessions' = active_sessions - 1
          /\ Released(w)
          /\ Forget(w)
     ELSE /\ Read(w)
          /\ UNCHANGED <<active_sessions, pc>>
  /\ UNCHANGED <<sessions, op, target>>

-----------------------------------------------------------------------------
Start(w) ==
  \/ StartCreate(w)
  \/ \E id \in Ids : StartGetOrCreate(w, id)
  \/ \E id \in Ids : Remove(w, id)

\* What a thread does of itself once its operation has begun.
Advance(w) ==
  \/ LoadToReserve(w)
  \/ Refuse(w)
  \/ ReserveCas(w)
  \/ \E id \in Ids : Insert(w, id)
  \/ LoadToRelease(w)
  \/ ReleaseCas(w)

Next == \E w \in Workers : Start(w) \/ Advance(w)

\* The operations await nothing: a thread in one is scheduled until it is done.
Fairness == \A w \in Workers : WF_vars(Advance(w))

Spec == Init /\ [][Next]_vars /\ Fairness

-----------------------------------------------------------------------------
(* Properties.                                                             *)

\* The counter never leaves 0 .. max_sessions, nor does a value read from it,
\* and every worker is in a phase of its operation (store.rs:121,139).
StoreTypeOK ==
  /\ sessions \subseteq Ids
  /\ active_sessions \in 0 .. max_sessions
  /\ pc \in [Workers -> Phases]
  /\ op \in [Workers -> Operations]
  /\ target \in [Workers -> Ids]
  /\ current \in [Workers -> 0 .. max_sessions]

\* The workers that own a slot no session in the map stands for.
SlotHolders == {w \in Workers : pc[w] \in {"insert", "release", "release_cas"}}

\* No slot is lost, counted twice or released twice, however the operations
\* interleave; at rest the counter is the size of the map (store.rs:118-150).
SlotAccounting == active_sessions = Cardinality(sessions) + Cardinality(SlotHolders)

\* A map never over its limit, whatever is reserved or being released
\* (store.rs:121).
CapacityRespected == Cardinality(sessions) + Cardinality(SlotHolders) <= max_sessions

\* How a worker stands to a slot: one that has read a full counter is denied,
\* though it has yet to return that.
Standing(w) ==
  CASE pc[w] = "idle" -> "out"
    [] pc[w] = "reserve" -> "asking"
    [] pc[w] = "reserve_cas" -> IF current[w] < max_sessions THEN "asking" ELSE "denied"
    [] OTHER -> "holding"

Atomic == INSTANCE BoundedTable WITH standing <- [w \in Workers |-> Standing(w)]

\* The loads and exchanges of the counter act as one atomic decision: a slot is
\* granted only when one is free, and whoever gets TooManySessions asked while
\* none was, sessions and slots in hand together (store.rs:118-150).
ActsAtomically == Atomic!Spec

\* "New session creation is rejected when exceeded": what is refused is a new
\* session, not an append to one the map holds (store.rs:77-81).
RefusedOnlyWhenNew ==
  [][\A w \in Workers :
       Refuse(w) /\ op[w] = "get_or_create" => target[w] \notin sessions]_vars

\* The slot counter is lock-free: a thread is kept in a compare-and-exchange
\* loop for ever only by others whose exchanges go on succeeding; one alone, or
\* among threads that are refused, gets out (store.rs:118-150).
LockFree ==
  \A w \in Workers :
    \/ []<>(pc[w] \notin {"reserve_cas", "release_cas"})
    \/ []<><<active_sessions' # active_sessions>>_vars
=============================================================================
