---------------------------- MODULE ExpiryProofs ----------------------------
(***************************************************************************)
(* Theorems about Expiry, for any ids, handlers and TTL: the worker leaves *)
(* alone what was in use when it woke, and no session is lost but by a     *)
(* removal.                                                                *)
(***************************************************************************)
EXTENDS Expiry, TLAPS

\* What the assumption says of the constants.
LEMMA ConstantTypes ==
  /\ None \notin Nat
  /\ ttl_seconds \in Nat \ {0} /\ MaxScan \in Nat /\ MaxSessions \in Nat
  /\ MaxIdle \in Nat \ {0}
BY ExpiryAssumption DEF ExpiryAssumption, MaxIdle

-----------------------------------------------------------------------------
(* Types.                                                                  *)

\* A stored session has the next number, and the table stays a table.
LEMMA StoreTypes ==
  ASSUME ExpiryTypeOK, NEW id \in Ids, StoreNew(id)
  PROVE  /\ created' \in 1 .. MaxSessions /\ created' = created + 1
         /\ table' \in [Ids -> (1 .. created + 1) \cup {None}]
BY ConstantTypes DEF ExpiryTypeOK, StoreNew

\* A handler that takes up one of the first n sessions holds it.
LEMMA HandlerTypes ==
  ASSUME ExpiryTypeOK, NEW h \in Handlers, NEW id \in Ids,
         NEW n \in Nat, created <= n, NEW s \in 1 .. n, Hold(h, id, s)
  PROVE  /\ pc' \in [Handlers -> {"idle", "inserting", "holding"}]
         /\ id_of' \in [Handlers -> Ids]
         /\ handle' \in [Handlers -> (1 .. n) \cup {None}]
         /\ \A g \in Handlers : pc'[g] = "holding" <=> handle'[g] # None
BY ConstantTypes DEF ExpiryTypeOK, Hold

\* A removal leaves a table, and adds at most a session that was created.
LEMMA RemoveTypes ==
  ASSUME ExpiryTypeOK, NEW id \in Ids, RemoveEntry(id)
  PROVE  table' \in [Ids -> (1 .. created) \cup {None}] /\ removed' \subseteq 1 .. created
<1>1. table[id] \in (1 .. created) \cup {None}
  BY DEF ExpiryTypeOK
<1>2. table' \in [Ids -> (1 .. created) \cup {None}]
  BY DEF ExpiryTypeOK, RemoveEntry
<1>3. removed' \subseteq 1 .. created
  BY <1>1 DEF ExpiryTypeOK, RemoveEntry
<1> QED
  BY <1>2, <1>3

\* One lemma per group of steps that change the same variables.
LEMMA TableTypes ==
  ASSUME ExpiryTypeOK, NEW id \in Ids, CreateSession(id) \/ DeleteSession(id)
  PROVE  ExpiryTypeOK'
<1>1. CASE CreateSession(id)
  <2>1. /\ created' \in 1 .. MaxSessions /\ created' = created + 1
        /\ table' \in [Ids -> (1 .. created + 1) \cup {None}]
    BY <1>1, StoreTypes DEF CreateSession
  <2> QED
    BY <1>1, <2>1, ConstantTypes DEF ExpiryTypeOK, CreateSession, handlers, worker
<1>2. CASE DeleteSession(id)
  <2>1. table' \in [Ids -> (1 .. created) \cup {None}] /\ removed' \subseteq 1 .. created
    BY <1>2, RemoveTypes DEF DeleteSession
  <2> QED
    BY <1>2, <2>1 DEF ExpiryTypeOK, DeleteSession, handlers, worker
<1> QED
  BY <1>1, <1>2

\* A first look at the table, found or not, keeps the types.
LEMMA LookUpTypes ==
  ASSUME ExpiryTypeOK, NEW h \in Handlers, NEW id \in Ids, LookUp(h, id) \/ Miss(h, id)
  PROVE  ExpiryTypeOK'
<1>1. CASE LookUp(h, id)
  <2>1. created \in Nat /\ table[id] \in 1 .. created /\ Hold(h, id, table[id])
    BY <1>1, ConstantTypes DEF ExpiryTypeOK, LookUp
  <2>2. /\ pc' \in [Handlers -> {"idle", "inserting", "holding"}]
        /\ id_of' \in [Handlers -> Ids]
        /\ handle' \in [Handlers -> (1 .. created) \cup {None}]
        /\ \A g \in Handlers : pc'[g] = "holding" <=> handle'[g] # None
    BY <2>1, HandlerTypes
  <2> QED
    BY <1>1, <2>2, ConstantTypes DEF ExpiryTypeOK, LookUp, worker
<1>2. CASE Miss(h, id)
  BY <1>2, ConstantTypes DEF ExpiryTypeOK, Miss, worker
<1> QED
  BY <1>1, <1>2

\* The later steps of a handler keep the types.
LEMMA HolderTypes ==
  ASSUME ExpiryTypeOK, NEW h \in Handlers, Insert(h) \/ GiveUp(h) \/ Access(h)
  PROVE  ExpiryTypeOK'
<1>1. CASE Insert(h)
  <2> DEFINE id == id_of[h]
  <2>1. id \in Ids /\ created \in Nat
    BY DEF ExpiryTypeOK
  <2>2. CASE table[id] = None
    <3>1. StoreNew(id) /\ Hold(h, id, created + 1)
      BY <1>1, <2>2 DEF Insert
    <3>2. /\ created' \in 1 .. MaxSessions /\ created' = created + 1
          /\ table' \in [Ids -> (1 .. created + 1) \cup {None}]
      BY <2>1, <3>1, StoreTypes
    <3>3. /\ pc' \in [Handlers -> {"idle", "inserting", "holding"}]
          /\ id_of' \in [Handlers -> Ids]
          /\ handle' \in [Handlers -> (1 .. created + 1) \cup {None}]
          /\ \A g \in Handlers : pc'[g] = "holding" <=> handle'[g] # None
      <4>1. created + 1 \in Nat /\ created <= created + 1 /\ created + 1 \in 1 .. created + 1
        BY <2>1
      <4> QED
        BY <2>1, <3>1, <4>1, HandlerTypes
    <3> QED
      BY <1>1, <3>2, <3>3, ConstantTypes DEF ExpiryTypeOK, Insert, worker
  <2>3. CASE table[id] # None
    <3>1. table[id] \in 1 .. created /\ Hold(h, id, table[id]) /\ UNCHANGED <<table, created>>
      BY <1>1, <2>1, <2>3 DEF ExpiryTypeOK, Insert
    <3>2. /\ pc' \in [Handlers -> {"idle", "inserting", "holding"}]
          /\ id_of' \in [Handlers -> Ids]
          /\ handle' \in [Handlers -> (1 .. created) \cup {None}]
          /\ \A g \in Handlers : pc'[g] = "holding" <=> handle'[g] # None
      BY <2>1, <3>1, HandlerTypes
    <3> QED
      BY <1>1, <3>1, <3>2, ConstantTypes DEF ExpiryTypeOK, Insert, worker
  <2> QED
    BY <2>2, <2>3
<1>2. CASE GiveUp(h)
  BY <1>2, ConstantTypes DEF ExpiryTypeOK, GiveUp, worker
<1>3. CASE Access(h)
  <2>1. handle[h] \in 1 .. created /\ handle[h] \in Sessions
    BY <1>3, ConstantTypes DEF ExpiryTypeOK, Access, Sessions
  <2>2. idle' \in [Sessions -> 0 .. MaxIdle] /\ compressing' \subseteq 1 .. created
    BY <1>3, <2>1, ConstantTypes DEF ExpiryTypeOK, Access, Touch
  <2>3. /\ pc' \in [Handlers -> {"idle", "inserting", "holding"}]
        /\ handle' \in [Handlers -> (1 .. created) \cup {None}]
        /\ \A g \in Handlers : pc'[g] = "holding" <=> handle'[g] # None
    BY <1>3 DEF ExpiryTypeOK, Access
  <2> QED
    BY <1>3, <2>2, <2>3 DEF ExpiryTypeOK, Access, worker
<1> QED
  BY <1>1, <1>2, <1>3

\* Time, the worker and the end of a compression keep the types.
LEMMA WorkerTypes ==
  ASSUME ExpiryTypeOK, Second \/ Wake \/ WorkerStep \/ \E s \in Sessions : EndCompression(s)
  PROVE  ExpiryTypeOK'
<1>1. CASE Second
  <2>1. idle' \in [Sessions -> 0 .. MaxIdle]
    BY <1>1, ConstantTypes DEF ExpiryTypeOK, Second, Older
  <2> QED
    BY <1>1, <2>1, ConstantTypes DEF ExpiryTypeOK, Second, handlers, Scanning
<1>2. CASE Wake
  BY <1>2, ConstantTypes DEF ExpiryTypeOK, Wake, Scanning, handlers
<1>3. CASE \E id \in Ids : Copy(id)
  BY <1>3, ConstantTypes DEF ExpiryTypeOK, Copy, handlers
<1>4. CASE \E id \in Ids, s \in Sessions : Look(id, s)
  BY <1>4, ConstantTypes DEF ExpiryTypeOK, Look, handlers
<1>5. CASE \E id \in Ids : Expire(id)
  <2>1. PICK id \in Ids : Expire(id)
    BY <1>5
  <2>2. table' \in [Ids -> (1 .. created) \cup {None}] /\ removed' \subseteq 1 .. created
    BY <2>1, RemoveTypes DEF Expire
  <2>3. expired' \subseteq Ids /\ unseen' = {}
    BY <2>1 DEF ExpiryTypeOK, Expire
  <2> QED
    BY <2>1, <2>2, <2>3 DEF ExpiryTypeOK, Expire, handlers
<1>6. CASE \E s \in Sessions : EndCompression(s)
  BY <1>6, ConstantTypes DEF ExpiryTypeOK, EndCompression, Touch, handlers, worker
<1> QED
  BY <1>1, <1>2, <1>3, <1>4, <1>5, <1>6 DEF WorkerStep

\* The types hold at the start.
LEMMA InitTypes == Init => ExpiryTypeOK
BY ConstantTypes DEF Init, ExpiryTypeOK

\* The types are kept by every step.
LEMMA StepTypes == ExpiryTypeOK /\ [Next]_vars => ExpiryTypeOK'
<1> SUFFICES ASSUME ExpiryTypeOK, [Next]_vars PROVE ExpiryTypeOK'
  OBVIOUS
<1>1. CASE UNCHANGED vars
  BY <1>1 DEF vars, handlers, worker, ExpiryTypeOK
<1>2. CASE Next
  BY <1>2, TableTypes, LookUpTypes, HolderTypes, WorkerTypes DEF Next
<1> QED
  BY <1>1, <1>2

\* Every variable of Expiry keeps its type (store.rs:156-193).
THEOREM ExpiryTypesHold == Spec => []ExpiryTypeOK
BY InitTypes, StepTypes, PTL DEF Spec

-----------------------------------------------------------------------------
(* What was in use when the worker woke is not removed in this scan.       *)

\* While the worker scans, a watched session is compressing, or was accessed
\* too late to be expired at the time of its clock.
WatchedInUse ==
  Scanning => \A s \in watched : s \in compressing \/ idle[s] - age < ttl_seconds

\* An id still stands for the session copied with it, or for one that was
\* created since and is not watched, or for none.
CopiesUnwatched == \A e \in snapshot : table[e[1]] = e[2] \/ table[e[1]] \notin watched

ScanInv == ExpiryTypeOK /\ WatchedInUse /\ CopiesUnwatched /\ InUseKept

\* Nothing is copied, expired or watched at the start.
LEMMA InitScan == Init => ScanInv
BY InitTypes DEF Init, ScanInv, WatchedInUse, CopiesUnwatched, InUseKept, Scanning

\* A new session has a number no watched session has.
LEMMA StoredIsUnwatched ==
  ASSUME ScanInv, NEW id \in Ids, StoreNew(id),
         UNCHANGED <<snapshot, expired, watched>>
  PROVE  CopiesUnwatched' /\ InUseKept'
<1>1. created + 1 \notin watched /\ table' = [table EXCEPT ![id] = created + 1]
  BY DEF ScanInv, ExpiryTypeOK, StoreNew
<1>2. \A i \in Ids : table'[i] = table[i] \/ table'[i] \notin watched
  BY <1>1 DEF ScanInv, ExpiryTypeOK
<1>3. snapshot \subseteq Ids \X (1 .. created) /\ expired \subseteq Ids
  BY DEF ScanInv, ExpiryTypeOK
<1> QED
  BY <1>2, <1>3 DEF ScanInv, CopiesUnwatched, InUseKept

\* A removal leaves an id standing for no session at all.
LEMMA RemovedIsUnwatched ==
  ASSUME ScanInv, NEW id \in Ids, RemoveEntry(id), watched' = watched,
         snapshot' \subseteq snapshot, expired' \subseteq expired
  PROVE  CopiesUnwatched' /\ InUseKept'
<1>1. None \notin watched /\ table' = [table EXCEPT ![id] = None]
  <2>1. watched \subseteq 1 .. created /\ created \in Nat
    BY DEF ScanInv, ExpiryTypeOK
  <2>2. \A s \in watched : s \in Nat
    BY <2>1
  <2> QED
    BY <2>2, ConstantTypes DEF RemoveEntry
<1>2. \A i \in Ids : table'[i] = table[i] \/ table'[i] \notin watched
  BY <1>1 DEF ScanInv, ExpiryTypeOK
<1>3. snapshot \subseteq Ids \X (1 .. created) /\ expired \subseteq Ids
  BY DEF ScanInv, ExpiryTypeOK
<1>4. CopiesUnwatched'
  <2> SUFFICES ASSUME NEW e \in snapshot
               PROVE  table'[e[1]] = e[2] \/ table'[e[1]] \notin watched
    BY DEF CopiesUnwatched
  <2> QED
    BY <1>2, <1>3 DEF ScanInv, CopiesUnwatched
<1>5. InUseKept'
  BY <1>2, <1>3 DEF ScanInv, InUseKept
<1> QED
  BY <1>4, <1>5

-----------------------------------------------------------------------------
\* ScanInv is inductive: one case per action of Expiry.
LEMMA StepScan == ScanInv /\ [Next]_vars => ScanInv'
<1> SUFFICES ASSUME ScanInv, [Next]_vars
             PROVE  WatchedInUse' /\ CopiesUnwatched' /\ InUseKept'
  BY StepTypes DEF ScanInv
<1> USE DEF ScanInv
<1>1. CASE \E id \in Ids : CreateSession(id)
  <2>1. CopiesUnwatched' /\ InUseKept'
    BY <1>1, StoredIsUnwatched DEF CreateSession, worker
  <2>2. WatchedInUse'
    BY <1>1 DEF CreateSession, worker, WatchedInUse, Scanning
  <2> QED
    BY <2>1, <2>2
<1>2. CASE \E id \in Ids : DeleteSession(id)
  <2>1. CopiesUnwatched' /\ InUseKept'
    BY <1>2, RemovedIsUnwatched DEF DeleteSession, worker
  <2>2. WatchedInUse'
    BY <1>2 DEF DeleteSession, worker, WatchedInUse, Scanning
  <2> QED
    BY <2>1, <2>2
<1>3. CASE \E h \in Handlers, id \in Ids : LookUp(h, id) \/ Miss(h, id)
  BY <1>3 DEF LookUp, Miss, worker, WatchedInUse, CopiesUnwatched, InUseKept, Scanning
<1>4. CASE \E h \in Handlers : Insert(h)
  <2>1. PICK h \in Handlers : Insert(h)
    BY <1>4
  <2>2. WatchedInUse'
    BY <2>1 DEF Insert, worker, WatchedInUse, Scanning
  <2>3. CASE StoreNew(id_of[h])
    BY <2>1, <2>2, <2>3, StoredIsUnwatched DEF Insert, worker, ExpiryTypeOK
  <2>4. CASE UNCHANGED table
    BY <2>1, <2>2, <2>4 DEF Insert, worker, CopiesUnwatched, InUseKept
  <2> QED
    BY <2>1, <2>3, <2>4 DEF Insert
<1>5. CASE \E h \in Handlers : GiveUp(h)
  BY <1>5 DEF GiveUp, worker, WatchedInUse, CopiesUnwatched, InUseKept, Scanning
<1>6. CASE \E h \in Handlers : Access(h)
  <2>1. PICK h \in Handlers : Access(h)
    BY <1>6
  <2>2. WatchedInUse'
    <3>1. \A s \in watched : idle'[s] = idle[s] \/ idle'[s] = 0
      BY <2>1, ConstantTypes DEF Access, Touch, ExpiryTypeOK, Sessions
    <3>2. age \in Nat /\ 0 - age < ttl_seconds
      BY ConstantTypes DEF ExpiryTypeOK
    <3>3. compressing \subseteq compressing' /\ UNCHANGED worker
      BY <2>1 DEF Access
    <3> QED
      BY <3>1, <3>2, <3>3 DEF worker, WatchedInUse, Scanning
  <2> QED
    BY <2>1, <2>2 DEF Access, worker, CopiesUnwatched, InUseKept
<1>7. CASE \E s \in Sessions : EndCompression(s)
  <2>1. PICK s \in Sessions : EndCompression(s)
    BY <1>7
  <2>2. WatchedInUse'
    <3>1. idle'[s] = 0 /\ \A r \in watched \ {s} : idle'[r] = idle[r] /\ (r \in compressing => r \in compressing')
      BY <2>1, ConstantTypes DEF EndCompression, Touch, ExpiryTypeOK, Sessions
    <3>2. age \in Nat /\ 0 - age < ttl_seconds
      BY ConstantTypes DEF ExpiryTypeOK
    <3>3. UNCHANGED worker
      BY <2>1 DEF EndCompression
    <3> QED
      BY <3>1, <3>2, <3>3 DEF worker, WatchedInUse, Scanning
  <2> QED
    BY <2>1, <2>2 DEF EndCompression, worker, CopiesUnwatched, InUseKept
<1>8. CASE Second
  <2>1. WatchedInUse'
    <3> SUFFICES ASSUME Scanning, NEW s \in watched
                 PROVE  s \in compressing \/ idle'[s] - age' < ttl_seconds
      BY <1>8 DEF Second, WatchedInUse, Scanning
    <3>1. s \in Sessions /\ s <= created /\ idle[s] \in 0 .. MaxIdle /\ age \in Nat
      BY ConstantTypes DEF ExpiryTypeOK, Sessions
    <3>2. idle'[s] = Older(idle[s]) /\ age' = age + 1
      BY <1>8, <3>1 DEF Second
    <3>3. idle'[s] <= idle[s] + 1 /\ idle'[s] \in Nat
      BY <3>1, <3>2, ConstantTypes DEF Older
    <3>4. s \in compressing \/ idle[s] - age < ttl_seconds
      BY DEF WatchedInUse
    <3> QED
      BY <3>1, <3>2, <3>3, <3>4, ConstantTypes
  <2> QED
    BY <1>8, <2>1 DEF Second, CopiesUnwatched, InUseKept
<1>9. CASE Wake
  <2>1. snapshot' = {} /\ expired' = {}
    BY <1>9 DEF Wake, Scanning
  <2>2. WatchedInUse'
    <3> SUFFICES ASSUME NEW s \in watched' PROVE s \in compressing' \/ idle'[s] - age' < ttl_seconds
      BY DEF WatchedInUse
    <3>1. s \in Sessions /\ idle[s] \in Nat
      BY <1>9, ConstantTypes DEF Wake, ExpiryTypeOK, Sessions
    <3> QED
      BY <1>9, <3>1 DEF Wake, InUse
  <2> QED
    BY <2>1, <2>2 DEF CopiesUnwatched, InUseKept
<1>10. CASE \E id \in Ids : Copy(id)
  <2>1. PICK id \in Ids : Copy(id)
    BY <1>10
  <2>2. CopiesUnwatched'
    <3>1. \A e \in snapshot' : e \in snapshot \/ e = <<id, table[id]>>
      BY <2>1 DEF Copy
    <3> QED
      BY <2>1, <3>1 DEF Copy, CopiesUnwatched
  <2>3. WatchedInUse'
    BY <2>1 DEF Copy, WatchedInUse, Scanning
  <2> QED
    BY <2>1, <2>2, <2>3 DEF Copy, InUseKept
<1>11. CASE \E id \in Ids, s \in Sessions : Look(id, s)
  <2>1. PICK id \in Ids, s \in Sessions : Look(id, s)
    BY <1>11
  <2>2. IsExpired(s) => table[id] \notin watched
    <3>1. Scanning /\ <<id, s>> \in snapshot
      BY <2>1 DEF Look, Scanning
    <3>2. IsExpired(s) => s \notin watched
      BY <3>1, ConstantTypes DEF IsExpired, WatchedInUse, ExpiryTypeOK
    <3>3. table[id] = s \/ table[id] \notin watched
      BY <3>1 DEF CopiesUnwatched
    <3> QED
      BY <3>2, <3>3
  <2>3. InUseKept'
    BY <2>1, <2>2 DEF Look, InUseKept
  <2>4. WatchedInUse'
    <3>1. Scanning
      BY <2>1 DEF Look, Scanning
    <3> QED
      BY <2>1, <3>1 DEF Look, WatchedInUse
  <2> QED
    BY <2>1, <2>3, <2>4 DEF Look, CopiesUnwatched
<1>12. CASE \E id \in Ids : Expire(id)
  <2>1. PICK id \in Ids : Expire(id)
    BY <1>12
  <2>2. CopiesUnwatched' /\ InUseKept'
    BY <2>1, RemovedIsUnwatched DEF Expire
  <2>3. WatchedInUse'
    <3>1. Scanning
      BY <2>1 DEF Expire, Scanning
    <3> QED
      BY <2>1, <3>1 DEF Expire, WatchedInUse
  <2> QED
    BY <2>2, <2>3
<1>13. CASE UNCHANGED vars
  BY <1>13 DEF vars, worker, WatchedInUse, CopiesUnwatched, InUseKept, Scanning
<1> QED
  BY <1>1, <1>2, <1>3, <1>4, <1>5, <1>6, <1>7, <1>8, <1>9, <1>10, <1>11, <1>12, <1>13
  DEF Next, WorkerStep

\* The worker removes no session that was in use when it read its clock.
THEOREM InUseKeptHolds == Spec => []InUseKept
<1>1. ScanInv => InUseKept
  BY DEF ScanInv
<1> QED
  BY <1>1, InitScan, StepScan, PTL DEF Spec

-----------------------------------------------------------------------------
\* Two handlers that miss the same id end with the same session: the table
\* loses one only to a delete or to the worker.
THEOREM NoSessionLostHolds == Spec => []NoSessionLost
<1>1. Init => NoSessionLost
  BY DEF Init, NoSessionLost
<1>2. ExpiryTypeOK /\ NoSessionLost /\ [Next]_vars => NoSessionLost'
  <2> SUFFICES ASSUME ExpiryTypeOK, NoSessionLost, [Next]_vars PROVE NoSessionLost'
    OBVIOUS
  <2> DEFINE Stored(id) == /\ StoreNew(id) /\ table[id] = None /\ removed' = removed
             Taken(id)  == RemoveEntry(id) /\ created' = created
  <2>1. CASE \E id \in Ids : Stored(id)
    <3>1. PICK id \in Ids : Stored(id)
      BY <2>1
    <3>2. /\ table'[id] = created + 1 /\ created' = created + 1
          /\ \A i \in Ids \ {id} : table'[i] = table[i]
      BY <3>1 DEF StoreNew, ExpiryTypeOK
    <3> SUFFICES ASSUME NEW s \in 1 .. created', s \notin removed
                 PROVE  \E i \in Ids : table'[i] = s
      BY <3>1 DEF NoSessionLost
    <3>3. CASE s = created + 1
      BY <3>2, <3>3
    <3>4. CASE s \in 1 .. created
      <4>1. s # None
        BY <3>4, ConstantTypes
      <4>2. PICK i \in Ids : table[i] = s
        BY <3>4 DEF NoSessionLost
      <4> QED
        BY <3>1, <3>2, <4>1, <4>2
    <3> QED
      BY <3>2, <3>3, <3>4 DEF ExpiryTypeOK
  <2>2. CASE \E id \in Ids : Taken(id)
    <3>1. PICK id \in Ids : Taken(id)
      BY <2>2
    <3>2. \A i \in Ids \ {id} : table'[i] = table[i]
      BY <3>1 DEF RemoveEntry, ExpiryTypeOK
    <3>3. /\ created' = created /\ removed \subseteq removed'
          /\ table[id] # None => table[id] \in removed'
      BY <3>1 DEF RemoveEntry
    <3> SUFFICES ASSUME NEW s \in 1 .. created, s \notin removed'
                 PROVE  \E i \in Ids : table'[i] = s
      BY <3>3 DEF NoSessionLost
    <3>4. s # None /\ s \notin removed
      <4>1. s \in Nat
        BY DEF ExpiryTypeOK
      <4> QED
        BY <3>3, <4>1, ConstantTypes
    <3>5. PICK i \in Ids : table[i] = s
      BY <3>4 DEF NoSessionLost
    <3>6. i # id
      BY <3>3, <3>4, <3>5
    <3> QED
      BY <3>2, <3>5, <3>6
  <2>3. CASE UNCHANGED <<table, created, removed>>
    BY <2>3 DEF NoSessionLost
  <2>4. \/ \E id \in Ids : Stored(id)
        \/ \E id \in Ids : Taken(id)
        \/ UNCHANGED <<table, created, removed>>
    <3>1. CASE \E id \in Ids : CreateSession(id)
      BY <3>1 DEF CreateSession
    <3>2. CASE \E id \in Ids : DeleteSession(id)
      BY <3>2 DEF DeleteSession
    <3>3. CASE \E h \in Handlers : Insert(h)
      BY <3>3 DEF Insert, ExpiryTypeOK
    <3>4. CASE \E id \in Ids : Expire(id)
      BY <3>4 DEF Expire
    <3>5. CASE \/ \E h \in Handlers, id \in Ids : LookUp(h, id) \/ Miss(h, id)
               \/ \E h \in Handlers : GiveUp(h) \/ Access(h)
               \/ \E s \in Sessions : EndCompression(s)
               \/ Second \/ Wake \/ UNCHANGED vars
               \/ \E id \in Ids : Copy(id)
               \/ \E id \in Ids, s \in Sessions : Look(id, s)
      BY <3>5 DEF LookUp, Miss, GiveUp, Access, EndCompression, Second, Wake, Copy, Look, vars
    <3> QED
      BY <3>1, <3>2, <3>3, <3>4, <3>5 DEF Next, WorkerStep
  <2> QED
    BY <2>1, <2>2, <2>3, <2>4
<1> QED
  BY <1>1, <1>2, ExpiryTypesHold, PTL DEF Spec
=============================================================================
