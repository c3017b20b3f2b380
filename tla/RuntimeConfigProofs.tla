------------------------- MODULE RuntimeConfigProofs -------------------------
(***************************************************************************)
(* No update of the runtime settings is lost or torn, for any requests,    *)
(* settings and updates.  The inductive invariant says who holds the lock, *)
(* and how far the request that writes has got.                            *)
(***************************************************************************)
EXTENDS RuntimeConfig, TLAPS

Writing == Fields \cup {"release"}

\* The lock is held by one writer or by readers, each at work.
LockHeld ==
  /\ \A r \in Requests : r \in writer <=> at[r] \in Writing
  /\ \A r \in Requests : r \in readers <=> at[r] = "reading"
  /\ \A r, other \in writer : r = other
  /\ writer # {} => readers = {}

\* The fields a writer has behind it.
Written(phase) ==
  CASE phase = "base_url" -> {}
    [] phase = "api_key"  -> {"base_url"}
    [] phase = "model"    -> {"base_url", "api_key"}
    [] phase = "release"  -> Fields

PartlyUpdated(phase, u) == [f \in Fields |->
  IF f \in Written(phase) THEN Updated(Current, u)[f] ELSE Current[f]]

WriteInProgress ==
  \A r \in writer : conversation_llm = PartlyUpdated(at[r], payload[r])

ConfigInv ==
  /\ ConfigTypeOK
  /\ LockHeld
  /\ WriteInProgress
  /\ NoUpdateLost
  /\ CopyWholeAndCurrent

\* The history always has a last configuration.
LEMMA CurrentType ==
  ASSUME ConfigTypeOK
  PROVE  Current \in Configs /\ Len(versions) \in Nat \ {0}
<1>1. versions \in Seq(Configs) /\ versions # <<>>
  BY DEF ConfigTypeOK
<1> QED
  BY <1>1 DEF Current

\* An update of settings gives settings.
LEMMA UpdatedType ==
  ASSUME NEW c \in Configs, NEW u \in Updates \cup {NoUpdate}
  PROVE  Updated(c, u) \in Configs
<1>1. u \in [Fields -> Settings \cup {Absent, Blank}]
  BY SettingsAssumption DEF SettingsAssumption, NoUpdate
<1> QED
  BY <1>1 DEF Updated, Configs

\* While the history and who is answered stay, so do the answers' versions.
LEMMA CopiesStay ==
  ASSUME CopyWholeAndCurrent, UNCHANGED <<versions, since, copy>>,
         \A r \in Requests : at'[r] = "answered" => at[r] = "answered"
  PROVE  CopyWholeAndCurrent'
BY DEF CopyWholeAndCurrent

\* A request that arrives changes nothing but what is its own.
LEMMA ArrivalPreserves ==
  ASSUME ConfigInv, NEW r \in Requests,
         ReadOnly(r) \/ \E u \in Updates : Update(r, u)
  PROVE  ConfigInv'
<1> USE DEF ConfigInv
<1>1. PICK phase \in {"await_write", "await_read"} : AwaitLock(r, phase)
  BY DEF ReadOnly, Update
<1>2. /\ at[r] = "new"
      /\ since' = [since EXCEPT ![r] = Len(versions)]
      /\ UNCHANGED <<conversation_llm, writer, readers, copy, versions>>
  BY DEF ReadOnly, Update
<1>3. /\ at' = [at EXCEPT ![r] = phase]
      /\ waiting' = Append(waiting, r)
  BY <1>1 DEF AwaitLock, Goto
<1>4. payload' \in [Requests -> Updates \cup {NoUpdate}]
      /\ \A other \in Requests \ {r} : payload'[other] = payload[other]
  BY DEF ReadOnly, Update, ConfigTypeOK
<1>5. at \in [Requests -> Phases] /\ r \notin writer
  BY <1>2 DEF ConfigTypeOK, LockHeld, Writing, Fields
<1>6. ConfigTypeOK'
  <2>1. at' \in [Requests -> Phases] /\ waiting' \in Seq(Requests)
    BY <1>3, <1>5 DEF ConfigTypeOK, Phases
  <2>2. Len(versions) \in 1 .. Len(versions)
    BY CurrentType
  <2>3. since' \in [Requests -> 1 .. Len(versions')]
    BY <1>2, <2>2 DEF ConfigTypeOK
  <2> QED
    BY <1>2, <1>4, <2>1, <2>3 DEF ConfigTypeOK
<1>7. LockHeld'
  BY <1>2, <1>3, <1>5 DEF LockHeld, Writing, Fields
<1>8. WriteInProgress'
  BY <1>2, <1>3, <1>4, <1>5
  DEF WriteInProgress, PartlyUpdated, Current, ConfigTypeOK
<1>9. NoUpdateLost'
  BY <1>2 DEF NoUpdateLost, Current
<1>10. CopyWholeAndCurrent'
  BY <1>2, <1>3, <1>5 DEF CopyWholeAndCurrent, ConfigTypeOK
<1> QED
  BY <1>6, <1>7, <1>8, <1>9, <1>10

\* Whoever gets the lock finds nothing half written.
LEMMA GrantPreserves ==
  ASSUME ConfigInv, NEW r \in Requests, Grant(r)
  PROVE  ConfigInv'
<1> USE DEF ConfigInv
<1>1. waiting' \in Seq(Requests)
  BY DEF Grant, ConfigTypeOK
<1>2. UNCHANGED <<conversation_llm, payload, copy, versions, since>>
  BY DEF Grant, history
<1>3. at \in [Requests -> Phases] /\ writer = {} /\ conversation_llm = Current
  BY DEF Grant, MayWrite, MayRead, ConfigTypeOK, NoUpdateLost
<1>4. CASE /\ at[r] = "await_write" /\ MayWrite
           /\ writer' = writer \cup {r}
           /\ Goto(r, "base_url")
           /\ UNCHANGED readers
  <2>1. at' = [at EXCEPT ![r] = "base_url"] /\ writer' = {r} /\ readers = {}
    BY <1>3, <1>4 DEF Goto, MayWrite
  <2>2. ConfigTypeOK'
    BY <1>1, <1>2, <1>4, <2>1 DEF ConfigTypeOK, Phases, Fields
  <2>3. LockHeld'
    BY <1>3, <1>4, <2>1 DEF LockHeld, Writing, Fields
  <2>4. WriteInProgress'
    <3>1. PartlyUpdated("base_url", payload[r]) = [f \in Fields |-> Current[f]]
      BY DEF PartlyUpdated, Written
    <3>2. Current = [f \in Fields |-> Current[f]]
      BY CurrentType DEF Configs
    <3>3. at'[r] = "base_url"
      BY <1>3, <2>1
    <3> QED
      BY <1>2, <1>3, <2>1, <3>1, <3>2, <3>3
      DEF WriteInProgress, PartlyUpdated, Current
  <2>5. NoUpdateLost'
    BY <2>1 DEF NoUpdateLost
  <2>6. CopyWholeAndCurrent'
    BY <1>2, <1>3, <2>1, CopiesStay
  <2> QED
    BY <2>2, <2>3, <2>4, <2>5, <2>6
<1>5. CASE /\ at[r] = "await_read" /\ MayRead
           /\ readers' = readers \cup {r}
           /\ Goto(r, "reading")
           /\ UNCHANGED writer
  <2>1. at' = [at EXCEPT ![r] = "reading"] /\ writer' = {}
    BY <1>3, <1>5 DEF Goto
  <2>2. ConfigTypeOK'
    BY <1>1, <1>2, <1>5, <2>1 DEF ConfigTypeOK, Phases
  <2>3. LockHeld'
    BY <1>3, <1>5, <2>1 DEF LockHeld, Writing, Fields
  <2>4. WriteInProgress'
    BY <2>1 DEF WriteInProgress
  <2>5. NoUpdateLost'
    BY <1>2, <1>3 DEF NoUpdateLost, Current
  <2>6. CopyWholeAndCurrent'
    BY <1>2, <1>3, <2>1, CopiesStay
  <2> QED
    BY <2>2, <2>3, <2>4, <2>5, <2>6
<1> QED
  BY <1>4, <1>5 DEF Grant

\* One more field is as the update is to make it.
LEMMA SetFieldPreserves ==
  ASSUME ConfigInv, NEW r \in Requests, NEW f \in Fields, SetField(r, f)
  PROVE  ConfigInv'
<1> USE DEF ConfigInv
<1>1. UNCHANGED <<writer, readers, waiting, payload, copy, versions, since>>
  BY DEF SetField, lock, history
<1>2. at' = [at EXCEPT ![r] = After(f)] /\ at[r] = f
  BY DEF SetField, Goto
<1>3. After(f) \in Writing
  BY DEF After, Writing, Fields
<1>4. at \in [Requests -> Phases] /\ r \in writer /\ writer = {r}
  BY <1>2 DEF ConfigTypeOK, LockHeld, Writing
<1>5. /\ conversation_llm = PartlyUpdated(f, payload[r])
      /\ conversation_llm \in Configs
      /\ Current \in Configs
      /\ payload[r] \in [Fields -> Settings \cup {Absent, Blank}]
  BY <1>2, <1>4, CurrentType, SettingsAssumption
  DEF WriteInProgress, ConfigTypeOK, SettingsAssumption, NoUpdate
<1>6. conversation_llm'[f] = Updated(Current, payload[r])[f]
      /\ conversation_llm' \in Configs
      /\ \A g \in Fields \ {f} : conversation_llm'[g] = conversation_llm[g]
  <2>1. conversation_llm[f] = Current[f]
    BY <1>5 DEF PartlyUpdated, Written, Fields
  <2>2. CASE Given(payload[r], f)
    BY <1>5, <2>2 DEF SetField, Given, Updated, Configs
  <2>3. CASE ~Given(payload[r], f)
    BY <1>5, <2>1, <2>3 DEF SetField, Given, Updated, Configs
  <2> QED
    BY <2>2, <2>3
<1>7. ConfigTypeOK'
  BY <1>1, <1>2, <1>3, <1>6 DEF ConfigTypeOK, Phases, Writing
<1>8. LockHeld'
  BY <1>1, <1>2, <1>3, <1>4 DEF LockHeld, Writing, Fields
<1>9. WriteInProgress'
  <2>1. conversation_llm' = PartlyUpdated(After(f), payload[r])
    <3>1. Written(After(f)) = Written(f) \cup {f} /\ f \notin Written(f)
      BY DEF Written, After, Fields
    <3>2. \A g \in Fields :
            conversation_llm'[g] = PartlyUpdated(After(f), payload[r])[g]
      BY <1>5, <1>6, <3>1 DEF PartlyUpdated
    <3> QED
      BY <1>6, <3>2 DEF PartlyUpdated, Configs
  <2> QED
    BY <1>1, <1>2, <1>4, <2>1 DEF WriteInProgress, PartlyUpdated, Current
<1>10. NoUpdateLost'
  BY <1>1, <1>4 DEF NoUpdateLost
<1>11. CopyWholeAndCurrent'
  BY <1>1, <1>2, <1>3, <1>4, CopiesStay DEF Writing, Fields
<1> QED
  BY <1>7, <1>8, <1>9, <1>10, <1>11

\* The update is finished, and the next version is what was written.
LEMMA ReleasePreserves ==
  ASSUME ConfigInv, NEW r \in Requests, Release(r)
  PROVE  ConfigInv'
<1> USE DEF ConfigInv
<1> DEFINE updated == Updated(Current, payload[r])
<1>1. /\ versions' = Append(versions, updated)
      /\ since' = [since EXCEPT ![r] = Len(versions')]
      /\ at[r] = "release"
      /\ at' = [at EXCEPT ![r] = "await_read"]
      /\ waiting' = Append(waiting, r)
      /\ writer' = writer \ {r}
      /\ UNCHANGED <<conversation_llm, readers, payload, copy>>
  BY DEF Release, Finished, AwaitLock, Goto
<1>2. at \in [Requests -> Phases] /\ writer = {r}
  BY <1>1 DEF ConfigTypeOK, LockHeld, Writing
<1>3. updated \in Configs /\ Len(versions) \in Nat \ {0}
  BY CurrentType, UpdatedType DEF ConfigTypeOK
<1>4. /\ Len(versions') = Len(versions) + 1
      /\ versions' \in Seq(Configs) /\ versions' # <<>>
      /\ \A n \in 1 .. Len(versions) : versions'[n] = versions[n]
      /\ versions'[Len(versions')] = updated
  BY <1>1, <1>3 DEF ConfigTypeOK
<1>5. conversation_llm = updated
  <2>1. conversation_llm = PartlyUpdated("release", payload[r])
    BY <1>1, <1>2 DEF WriteInProgress
  <2>2. PartlyUpdated("release", payload[r]) = [f \in Fields |-> updated[f]]
    BY DEF PartlyUpdated, Written
  <2> QED
    BY <1>3, <2>1, <2>2 DEF Configs
<1>6. ConfigTypeOK'
  BY <1>1, <1>3, <1>4 DEF ConfigTypeOK, Phases
<1>7. LockHeld'
  BY <1>1, <1>2 DEF LockHeld, Writing, Fields
<1>8. WriteInProgress'
  BY <1>1, <1>2 DEF WriteInProgress
<1>9. NoUpdateLost'
  BY <1>1, <1>4, <1>5 DEF NoUpdateLost, Current
<1>10. CopyWholeAndCurrent'
  BY <1>1, <1>2, <1>3, <1>4 DEF CopyWholeAndCurrent, ConfigTypeOK
<1> QED
  BY <1>6, <1>7, <1>8, <1>9, <1>10

\* A reader copies the last version.
LEMMA ReadPreserves ==
  ASSUME ConfigInv, NEW r \in Requests, Read(r)
  PROVE  ConfigInv'
<1> USE DEF ConfigInv
<1>1. /\ at[r] = "reading"
      /\ copy' = [copy EXCEPT ![r] = conversation_llm]
      /\ readers' = readers \ {r}
      /\ at' = [at EXCEPT ![r] = "answered"]
      /\ UNCHANGED <<conversation_llm, writer, waiting, payload, versions, since>>
  BY DEF Read, Goto, history
<1>2. at \in [Requests -> Phases] /\ writer = {} /\ conversation_llm = Current
  BY <1>1 DEF ConfigTypeOK, LockHeld, NoUpdateLost
<1>3. ConfigTypeOK'
  BY <1>1 DEF ConfigTypeOK, Phases
<1>4. LockHeld'
  BY <1>1, <1>2 DEF LockHeld, Writing, Fields
<1>5. WriteInProgress' /\ NoUpdateLost'
  BY <1>1, <1>2 DEF WriteInProgress, NoUpdateLost, Current
<1>6. CopyWholeAndCurrent'
  BY <1>1, <1>2, CurrentType DEF CopyWholeAndCurrent, Current, ConfigTypeOK
<1> QED
  BY <1>3, <1>4, <1>5, <1>6

\* A dropped request leaves the queue, or gives back the lock, with nothing
\* written yet and nothing copied.
LEMMA DropPreserves ==
  ASSUME ConfigInv, NEW r \in Requests, Drop(r)
  PROVE  ConfigInv'
<1> USE DEF ConfigInv
<1>1. /\ at' = [at EXCEPT ![r] = "dropped"]
      /\ at[r] \in {"await_write", "await_read", "base_url", "reading"}
      /\ UNCHANGED <<conversation_llm, payload, copy, versions, since>>
  BY DEF Drop, Goto, history
<1>2. at \in [Requests -> Phases] /\ waiting \in Seq(Requests)
  BY DEF ConfigTypeOK
<1>3. writer' = writer \ {r} /\ readers' = readers \ {r}
  <2>1. CASE /\ at[r] \in {"await_write", "await_read"}
             /\ UNCHANGED <<writer, readers>>
    BY <2>1 DEF LockHeld, Writing, Fields
  <2> QED
    BY <2>1 DEF Drop
<1>4. waiting' \in Seq(Requests)
  <2>1. ASSUME NEW i \in DOMAIN waiting, waiting' = RemoveAt(waiting, i)
        PROVE  waiting' \in Seq(Requests)
    BY <1>2, <2>1 DEF RemoveAt
  <2> QED
    BY <1>2, <2>1 DEF Drop
<1>5. ConfigTypeOK'
  BY <1>1, <1>3, <1>4 DEF ConfigTypeOK, Phases
<1>6. LockHeld'
  BY <1>1, <1>2, <1>3 DEF LockHeld, Writing, Fields
<1>7. WriteInProgress'
  <2>1. \A other \in writer' : other # r /\ other \in Requests /\ at'[other] = at[other]
    BY <1>1, <1>2, <1>3 DEF ConfigTypeOK
  <2> QED
    BY <1>1, <1>3, <2>1 DEF WriteInProgress, PartlyUpdated, Current
<1>8. NoUpdateLost'
  <2>1. CASE r \in writer
    <3>1. at[r] = "base_url"
      BY <1>1, <2>1 DEF LockHeld, Writing, Fields
    <3>2. PartlyUpdated("base_url", payload[r]) = [f \in Fields |-> Current[f]]
      BY DEF PartlyUpdated, Written
    <3>3. Current = [f \in Fields |-> Current[f]]
      BY CurrentType DEF Configs
    <3>4. conversation_llm = Current
      BY <2>1, <3>1, <3>2, <3>3 DEF WriteInProgress
    <3> QED
      BY <1>1, <3>4 DEF NoUpdateLost, Current
  <2>2. CASE r \notin writer
    BY <1>1, <1>3, <2>2 DEF NoUpdateLost, Current
  <2> QED
    BY <2>1, <2>2
<1>9. CopyWholeAndCurrent'
  BY <1>1, <1>2, CopiesStay
<1> QED
  BY <1>5, <1>6, <1>7, <1>8, <1>9

\* Nothing is held, copied or written when the service starts.
THEOREM ConfigInvInitially == Init => ConfigInv
<1> SUFFICES ASSUME Init PROVE ConfigInv
  OBVIOUS
<1>1. StartUp \in Configs
  BY SettingsAssumption DEF SettingsAssumption
<1>2. ConfigTypeOK
  BY <1>1 DEF Init, ConfigTypeOK, Phases
<1>3. LockHeld /\ WriteInProgress
  BY DEF Init, LockHeld, WriteInProgress, Writing, Fields
<1>4. NoUpdateLost /\ CopyWholeAndCurrent
  BY DEF Init, NoUpdateLost, CopyWholeAndCurrent, Current
<1> QED
  BY <1>2, <1>3, <1>4 DEF ConfigInv

\* Every step keeps the lock's discipline and what follows from it.
THEOREM ConfigInvStep == ConfigInv /\ [Next]_vars => ConfigInv'
<1> SUFFICES ASSUME ConfigInv, [Next]_vars PROVE ConfigInv'
  OBVIOUS
<1>1. ASSUME NEW r \in Requests, ReadOnly(r) \/ \E u \in Updates : Update(r, u)
      PROVE  ConfigInv'
  BY <1>1, ArrivalPreserves
<1>2. ASSUME NEW r \in Requests, Advance(r)
      PROVE  ConfigInv'
  BY <1>2, GrantPreserves, SetFieldPreserves, ReleasePreserves, ReadPreserves
  DEF Advance
<1>3. ASSUME NEW r \in Requests, Drop(r)
      PROVE  ConfigInv'
  BY <1>3, DropPreserves
<1>4. CASE UNCHANGED vars
  BY <1>4
  DEF vars, lock, history, ConfigInv, ConfigTypeOK, LockHeld, WriteInProgress,
      PartlyUpdated, NoUpdateLost, CopyWholeAndCurrent, Current
<1> QED
  BY <1>1, <1>2, <1>3, <1>4 DEF Next

\* The inductive invariant holds always.
THEOREM ConfigInvHolds == Spec => []ConfigInv
BY ConfigInvInitially, ConfigInvStep, PTL DEF Spec

\* Types, and every field of the settings has a value (demo.rs:38-59).
THEOREM ConfigTypesHold == Spec => []ConfigTypeOK
<1>1. ConfigInv => ConfigTypeOK
  BY DEF ConfigInv
<1> QED
  BY <1>1, ConfigInvHolds, PTL

\* No update is lost or mixed with another, whatever requests race (demo.rs:36).
THEOREM NoUpdateLostHolds == Spec => []NoUpdateLost
<1>1. ConfigInv => NoUpdateLost
  BY DEF ConfigInv
<1> QED
  BY <1>1, ConfigInvHolds, PTL

\* Every answer and every call of the model uses one whole configuration, with
\* the request's own update in it and all finished before it came (demo.rs:62).
THEOREM CopyWholeAndCurrentHolds == Spec => []CopyWholeAndCurrent
<1>1. ConfigInv => CopyWholeAndCurrent
  BY DEF ConfigInv
<1> QED
  BY <1>1, ConfigInvHolds, PTL
=============================================================================
