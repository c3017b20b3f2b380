------------------------------- MODULE Expiry -------------------------------
(***************************************************************************)
(* How sessions live and go: handlers that look a session up and only then *)
(* wait for its lock, deletes, and the worker that removes sessions nobody *)
(* has used for the TTL.  The worker copies the table, looks at each       *)
(* session in turn and removes the expired afterwards, while all the rest  *)
(* goes on; a handle keeps a session alive that the table has lost.        *)
(*                                                                         *)
(* A session is a number, as an Arc is an address: an id that is removed   *)
(* and used again stands for another one.  Slots are in Store, messages in *)
(* Session.                                                                *)
(***************************************************************************)
EXTENDS Integers, FiniteSets

CONSTANTS
  Ids,            \* The session ids in use.
  Handlers,       \* The requests in progress.
  None,
  ttl_seconds,
  MaxSessions,    \* Bound on the sessions ever created.
  MaxScan         \* Bound on the seconds one scan of the worker takes.

ASSUME ExpiryAssumption ==
  /\ None \notin Nat
  /\ ttl_seconds \in Nat \ {0}
  /\ MaxSessions \in Nat
  /\ MaxScan \in Nat

VARIABLES
  table,         \* SessionStore::sessions
  created,       \* The sessions created are 1 .. created.
  idle,          \* Seconds since last_accessed, counted up to MaxIdle.
  compressing,   \* The sessions whose is_compressing is up.
  pc,            \* Where each handler is.
  id_of,         \* The id each handler was asked for.
  handle,        \* The session each handler holds.
  unseen,        \* The ids the worker has still to copy.
  snapshot,      \* The copied entries it has still to look at.
  expired,       \* The ids it has still to remove.
  age,           \* Seconds since the worker read the clock.
  watched,       \* History: the sessions in use when it did.
  removed        \* History: the sessions deleted or expired.

worker   == <<unseen, snapshot, expired, age, watched>>
handlers == <<pc, id_of, handle>>
vars     == <<table, created, idle, compressing, handlers, worker, removed>>

Sessions == 1 .. MaxSessions

MaxIdle == ttl_seconds + MaxScan

Init ==
  /\ table = [id \in Ids |-> None]
  /\ created = 0
  /\ idle = [s \in Sessions |-> 0]
  /\ compressing = {}
  /\ pc = [h \in Handlers |-> "idle"]
  /\ id_of \in [Handlers -> Ids]
  /\ handle = [h \in Handlers |-> None]
  /\ unseen = {} /\ snapshot = {} /\ expired = {}
  /\ age = 0
  /\ watched = {}
  /\ removed = {}

Scanning == unseen # {} \/ snapshot # {} \/ expired # {}

Touch(s) == idle' = [idle EXCEPT ![s] = 0]

\* Session::new put into a vacant entry.
StoreNew(id) ==
  /\ created < MaxSessions
  /\ created' = created + 1
  /\ table' = [table EXCEPT ![id] = created + 1]

\* Removed from the table; whoever holds the session keeps it.
RemoveEntry(id) ==
  /\ table' = [table EXCEPT ![id] = None]
  /\ removed' = removed \cup ({table[id]} \ {None})

-----------------------------------------------------------------------------
(* The handlers.                                                           *)

\* POST /sessions, with an id no session has.
CreateSession(id) ==
  /\ table[id] = None
  /\ StoreNew(id)
  /\ UNCHANGED <<idle, compressing, handlers, worker, removed>>

DeleteSession(id) ==
  /\ table[id] # None
  /\ RemoveEntry(id)
  /\ UNCHANGED <<created, idle, compressing, handlers, worker>>

Hold(h, id, s) ==
  /\ pc' = [pc EXCEPT ![h] = "holding"]
  /\ id_of' = [id_of EXCEPT ![h] = id]
  /\ handle' = [handle EXCEPT ![h] = s]

\* SessionStore::get, or the first look of get_or_create_with_id.
LookUp(h, id) ==
  /\ pc[h] = "idle"
  /\ table[id] # None
  /\ Hold(h, id, table[id])
  /\ UNCHANGED <<table, created, idle, compressing, worker, removed>>

\* That first look finds nothing: a slot is reserved, a candidate built.
Miss(h, id) ==
  /\ pc[h] = "idle"
  /\ table[id] = None
  /\ pc' = [pc EXCEPT ![h] = "inserting"]
  /\ id_of' = [id_of EXCEPT ![h] = id]
  /\ UNCHANGED <<table, created, idle, compressing, handle, worker, removed>>

\* Fault: the candidate replaces a session inserted in the meantime.
InsertOver(h) ==
  /\ pc[h] = "inserting"
  /\ StoreNew(id_of[h])
  /\ Hold(h, id_of[h], created + 1)
  /\ UNCHANGED <<idle, compressing, worker, removed>>

\* The entry of get_or_create_with_id: vacant, or occupied by now.
Insert(h) ==
  /\ pc[h] = "inserting"
  /\ IF table[id_of[h]] = None
     THEN /\ StoreNew(id_of[h])
          /\ Hold(h, id_of[h], created + 1)
     ELSE /\ Hold(h, id_of[h], table[id_of[h]])
          /\ UNCHANGED <<table, created>>
  /\ UNCHANGED <<idle, compressing, worker, removed>>

\* Refused a slot, or dropped with its connection while it waits for the lock.
GiveUp(h) ==
  /\ pc[h] # "idle"
  /\ pc' = [pc EXCEPT ![h] = "idle"]
  /\ handle' = [handle EXCEPT ![h] = None]
  /\ UNCHANGED <<table, created, idle, compressing, id_of, worker, removed>>

\* Under the lock every handler touches the session first; the append that
\* completes a turn may raise the flag.
Access(h) ==
  /\ pc[h] = "holding"
  /\ Touch(handle[h])
  /\ compressing' \in {compressing, compressing \cup {handle[h]}}
  /\ pc' = [pc EXCEPT ![h] = "idle"]
  /\ handle' = [handle EXCEPT ![h] = None]
  /\ UNCHANGED <<table, created, id_of, worker, removed>>

\* The merge at the end of a compression.
EndCompression(s) ==
  /\ s \in compressing
  /\ compressing' = compressing \ {s}
  /\ Touch(s)
  /\ UNCHANGED <<table, created, handlers, worker, removed>>

-----------------------------------------------------------------------------
(* Time.                                                                   *)

Older(n) == IF n < MaxIdle THEN n + 1 ELSE MaxIdle

Second ==
  /\ Scanning => age < MaxScan
  /\ idle' = [s \in Sessions |-> IF s <= created THEN Older(idle[s]) ELSE 0]
  /\ age' = IF Scanning THEN age + 1 ELSE 0
  /\ UNCHANGED <<table, created, compressing, handlers,
                 unseen, snapshot, expired, watched, removed>>

-----------------------------------------------------------------------------
(* The worker.                                                             *)

InUse(s) == s \in compressing \/ idle[s] < ttl_seconds

\* Fault: a tick does not wait for the scan before it.
WakeAgain ==
  /\ unseen' = Ids
  /\ age' = 0
  /\ watched' = {s \in 1 .. created : InUse(s)}
  /\ UNCHANGED <<table, created, idle, compressing, handlers, snapshot, expired, removed>>

\* A tick of its interval: the clock is read once, for the whole scan.
Wake ==
  /\ ~Scanning
  /\ unseen' = Ids
  /\ age' = 0
  /\ watched' = {s \in 1 .. created : InUse(s)}
  /\ UNCHANGED <<table, created, idle, compressing, handlers, snapshot, expired, removed>>

\* The iteration over the map, which is not one step.
Copy(id) ==
  /\ id \in unseen
  /\ unseen' = unseen \ {id}
  /\ snapshot' = snapshot \cup ({<<id, table[id]>>} \ {<<id, None>>})
  /\ UNCHANGED <<table, created, idle, compressing, handlers, expired, age, watched, removed>>

\* Fault: the flag is not looked at.
IsIdle(s) == idle[s] - age >= ttl_seconds

\* What the worker sees, measured from the time it woke.
IsExpired(s) == s \notin compressing /\ idle[s] - age >= ttl_seconds

\* Fault: a session that is compressing ends the look, not only its own.
LookOrStop(id, s) ==
  /\ unseen = {}
  /\ <<id, s>> \in snapshot
  /\ snapshot' = IF s \in compressing THEN {} ELSE snapshot \ {<<id, s>>}
  /\ expired' = IF IsExpired(s) THEN expired \cup {id} ELSE expired
  /\ UNCHANGED <<table, created, idle, compressing, handlers, unseen, age, watched, removed>>

Look(id, s) ==
  /\ unseen = {}
  /\ <<id, s>> \in snapshot
  /\ snapshot' = snapshot \ {<<id, s>>}
  /\ expired' = IF IsExpired(s) THEN expired \cup {id} ELSE expired
  /\ UNCHANGED <<table, created, idle, compressing, handlers, unseen, age, watched, removed>>

\* Whatever the id stands for by now.
Expire(id) ==
  /\ unseen = {} /\ snapshot = {}
  /\ id \in expired
  /\ expired' = expired \ {id}
  /\ RemoveEntry(id)
  /\ UNCHANGED <<created, idle, compressing, handlers, unseen, snapshot, age, watched>>

WorkerStep ==
  \/ \E id \in Ids : Copy(id)
  \/ \E id \in Ids, s \in Sessions : Look(id, s)
  \/ \E id \in Ids : Expire(id)

-----------------------------------------------------------------------------
Next ==
  \/ \E id \in Ids : CreateSession(id)
  \/ \E id \in Ids : DeleteSession(id)
  \/ \E h \in Handlers, id \in Ids : LookUp(h, id)
  \/ \E h \in Handlers, id \in Ids : Miss(h, id)
  \/ \E h \in Handlers : Insert(h)
  \/ \E h \in Handlers : GiveUp(h)
  \/ \E h \in Handlers : Access(h)
  \/ \E s \in Sessions : EndCompression(s)
  \/ Second
  \/ Wake
  \/ WorkerStep

\* Time passes, the interval of the worker fires and every compression ends;
\* nothing is assumed of the handlers.
Fairness ==
  /\ WF_vars(Second)
  /\ WF_vars(Wake)
  /\ WF_vars(WorkerStep)
  /\ \A s \in Sessions : WF_vars(EndCompression(s))

Spec == Init /\ [][Next]_vars /\ Fairness

-----------------------------------------------------------------------------
(* Properties.                                                             *)

\* A handler holds a session exactly while it waits for its lock, ages stay
\* within their bounds, and the worker looks only once it has copied.
ExpiryTypeOK ==
  /\ table \in [Ids -> (1 .. created) \cup {None}]
  /\ created \in 0 .. MaxSessions
  /\ idle \in [Sessions -> 0 .. MaxIdle]
  /\ compressing \subseteq 1 .. created
  /\ pc \in [Handlers -> {"idle", "inserting", "holding"}]
  /\ id_of \in [Handlers -> Ids]
  /\ handle \in [Handlers -> (1 .. created) \cup {None}]
  /\ \A h \in Handlers : pc[h] = "holding" <=> handle[h] # None
  /\ unseen \subseteq Ids
  /\ snapshot \subseteq Ids \X (1 .. created)
  /\ expired \subseteq Ids
  /\ unseen # {} => expired = {}
  /\ age \in 0 .. MaxScan
  /\ watched \subseteq 1 .. created
  /\ removed \subseteq 1 .. created

\* What the worker is about to remove is no session that was in use when it
\* woke, though it looks later, one at a time, and removes later still, by
\* the id (store.rs:165-190).
InUseKept == \A id \in expired : table[id] \notin watched

\* Every session ever created is in the table until it is deleted or expires:
\* of two first appends to one id none is put in another's place, so an
\* accepted append is lost only to a removal (store.rs:89, append.rs:31).
NoSessionLost == 1 .. created \subseteq removed \cup {table[id] : id \in Ids}

\* "TTL cleanup must not remove a session while compression is in progress",
\* nor one whose idle time is less than the TTL (store.rs:186).
RemovesOnlyIdle ==
  [][\A id \in Ids : Expire(id) /\ table[id] # None => ~InUse(table[id])]_vars

\* A session that stays in the table for ever is used again and again: one
\* that nobody uses is removed, whatever the others do (store.rs:160-191).
AbandonedExpires ==
  \A id \in Ids, s \in Sessions : <>[](table[id] = s) => []<>(idle[s] = 0)
=============================================================================
