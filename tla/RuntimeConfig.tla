---------------------------- MODULE RuntimeConfig ----------------------------
(***************************************************************************)
(* The settings of the demo's model (src/runtime.rs), changed by           *)
(* PATCH /demo/config one field after another and copied by GET, by the    *)
(* answer to a PATCH, and by every call of the model: requests on several  *)
(* threads around one lock.  The copy is all a request uses, so an update  *)
(* reaches the calls that start after it and no call that runs.            *)
(*                                                                         *)
(* The lock is tokio's RwLock, which serves those waiting in their order.  *)
(* A request may be dropped with its connection, or by the time limit of a *)
(* call of the model, while it waits for the lock: its place in the queue, *)
(* or the lock it was just given, goes with it.                            *)
(***************************************************************************)
EXTENDS Naturals, SequencesExt

CONSTANTS
  Requests,     \* Each updates or reads once.
  Settings,     \* The values of a field, trimmed.
  Absent,       \* The update does not name the field.
  Blank,        \* The update names it with nothing but white space.
  Updates,      \* The updates requests may bring.
  StartUp       \* The settings of the configuration file (config.llm).

Fields == {"base_url", "api_key", "model"}

Configs == [Fields -> Settings]

ASSUME SettingsAssumption ==
  /\ Updates \subseteq [Fields -> Settings \cup {Absent, Blank}]
  /\ StartUp \in Configs
  /\ Absent \notin Settings /\ Blank \notin Settings
  /\ Absent # Blank

VARIABLES
  conversation_llm,   \* The settings behind the lock.
  writer,             \* The requests that hold the lock to write: at most one,
  readers,            \* and those that hold it to read.
  waiting,            \* The requests waiting for it, the first first.
  at,                 \* Where each request is.
  payload,            \* The update each brings.
  copy,               \* The settings each works with.
  versions,           \* History: the settings after each finished update,
  since               \* and how many there were when a request last changed
                      \* the settings or, if it only reads them, arrived.

lock == <<writer, readers, waiting>>
history == <<versions, since>>
vars == <<conversation_llm, lock, at, payload, copy, history>>

Phases == Fields \cup
  {"new", "await_write", "release", "await_read", "reading", "answered", "dropped"}

NoUpdate == [f \in Fields |-> Absent]

Init ==
  /\ conversation_llm = StartUp
  /\ writer = {} /\ readers = {} /\ waiting = <<>>
  /\ at = [r \in Requests |-> "new"]
  /\ payload = [r \in Requests |-> NoUpdate]
  /\ copy = [r \in Requests |-> StartUp]
  /\ versions = <<StartUp>>
  /\ since = [r \in Requests |-> 1]

Goto(r, phase) == at' = [at EXCEPT ![r] = phase]

\* Fault: a blank value is a value.
GivenOrBlank(u, f) == u[f] # Absent

Given(u, f) == u[f] \notin {Absent, Blank}

\* What an update is to make of the settings.
Updated(c, u) == [f \in Fields |->
  IF u[f] \in {Absent, Blank} THEN c[f] ELSE u[f]]

Current == versions[Len(versions)]

-----------------------------------------------------------------------------
(* The lock.                                                               *)

AwaitLock(r, phase) ==
  /\ Goto(r, phase)
  /\ waiting' = Append(waiting, r)

\* Fault: writers share the lock with each other.
MayWriteShared == readers = {}

MayRead == writer = {}
MayWrite == writer = {} /\ readers = {}

\* The first in the queue gets the lock as soon as its holders allow.
Grant(r) ==
  /\ waiting # <<>> /\ r = Head(waiting)
  /\ waiting' = Tail(waiting)
  /\ \/ /\ at[r] = "await_write" /\ MayWrite
        /\ writer' = writer \cup {r}
        /\ Goto(r, "base_url")
        /\ UNCHANGED readers
     \/ /\ at[r] = "await_read" /\ MayRead
        /\ readers' = readers \cup {r}
        /\ Goto(r, "reading")
        /\ UNCHANGED writer
  /\ UNCHANGED <<conversation_llm, payload, copy, history>>

-----------------------------------------------------------------------------
(* Requests.                                                               *)

\* update_demo_config
Update(r, u) ==
  /\ at[r] = "new"
  /\ AwaitLock(r, "await_write")
  /\ payload' = [payload EXCEPT ![r] = u]
  /\ since' = [since EXCEPT ![r] = Len(versions)]
  /\ UNCHANGED <<conversation_llm, writer, readers, copy, versions>>

\* demo_config, and each call of RuntimeLlmClient.
ReadOnly(r) ==
  /\ at[r] = "new"
  /\ AwaitLock(r, "await_read")
  /\ since' = [since EXCEPT ![r] = Len(versions)]
  /\ UNCHANGED <<conversation_llm, writer, readers, payload, copy, versions>>

After(f) == CASE f = "base_url" -> "api_key"
              [] f = "api_key"  -> "model"
              [] f = "model"    -> "release"

\* The value of one field, if the update gives one.
SetField(r, f) ==
  /\ at[r] = f
  /\ conversation_llm' = IF Given(payload[r], f)
       THEN [conversation_llm EXCEPT ![f] = payload[r][f]]
       ELSE conversation_llm
  /\ Goto(r, After(f))
  /\ UNCHANGED <<lock, payload, copy, history>>

Finished(r) ==
  /\ versions' = Append(versions, Updated(Current, payload[r]))
  /\ since' = [since EXCEPT ![r] = Len(versions')]

\* Faults: the guard lives on to the end of the handler; the answer is the copy
\* of a reader that does not wait.
ReleaseLate(r) ==
  /\ at[r] = "release"
  /\ Finished(r)
  /\ AwaitLock(r, "await_read")
  /\ UNCHANGED <<conversation_llm, writer, readers, payload, copy>>

ReadUnlocked(r) ==
  /\ at[r] = "await_read"
  /\ copy' = [copy EXCEPT ![r] = conversation_llm]
  /\ Goto(r, "answered")
  /\ UNCHANGED <<conversation_llm, lock, payload, history>>

\* The guard goes out of scope, and the settings are read again for the answer.
Release(r) ==
  /\ at[r] = "release"
  /\ Finished(r)
  /\ writer' = writer \ {r}
  /\ AwaitLock(r, "await_read")
  /\ UNCHANGED <<conversation_llm, readers, payload, copy>>

\* The clone, after which the lock is given back; what follows, an answer or a
\* call of the model, uses the clone.
Read(r) ==
  /\ at[r] = "reading"
  /\ copy' = [copy EXCEPT ![r] = conversation_llm]
  /\ readers' = readers \ {r}
  /\ Goto(r, "answered")
  /\ UNCHANGED <<conversation_llm, writer, waiting, payload, history>>

\* The handler is dropped while it waits, or before it runs on with the lock it
\* was given; once it does, it comes to no await until it has given it back.
Drop(r) ==
  /\ \/ /\ at[r] \in {"await_write", "await_read"}
        /\ \E i \in DOMAIN waiting : waiting[i] = r /\ waiting' = RemoveAt(waiting, i)
        /\ UNCHANGED <<writer, readers>>
     \/ /\ at[r] \in {"base_url", "reading"}
        /\ writer' = writer \ {r}
        /\ readers' = readers \ {r}
        /\ UNCHANGED waiting
  /\ Goto(r, "dropped")
  /\ UNCHANGED <<conversation_llm, payload, copy, history>>

Advance(r) ==
  \/ Grant(r)
  \/ \E f \in Fields : SetField(r, f)
  \/ Release(r)
  \/ Read(r)

Next == \E r \in Requests :
  \/ \E u \in Updates : Update(r, u)
  \/ ReadOnly(r)
  \/ Drop(r)
  \/ Advance(r)

\* tokio polls the task of a request that has the lock, and gives the lock on in
\* the order of the queue; nothing is assumed of arrivals and drops.
Fairness == \A r \in Requests : WF_vars(Advance(r))

Spec == Init /\ [][Next]_vars /\ Fairness

-----------------------------------------------------------------------------
(* Properties.                                                             *)

\* Types, and a configuration every field of which has a value (demo.rs:38-59).
ConfigTypeOK ==
  /\ conversation_llm \in Configs
  /\ writer \subseteq Requests
  /\ readers \subseteq Requests
  /\ waiting \in Seq(Requests)
  /\ at \in [Requests -> Phases]
  /\ payload \in [Requests -> Updates \cup {NoUpdate}]
  /\ copy \in [Requests -> Configs]
  /\ versions \in Seq(Configs) /\ versions # <<>>
  /\ since \in [Requests -> 1 .. Len(versions)]

\* Unless an update is being written, the settings are the start-up ones with
\* every finished update made as a whole, in one order: no field of a racing
\* update is lost or mixed with another's, and an update whose request was
\* dropped before it got the lock is not made at all (demo.rs:36).
NoUpdateLost == writer = {} => conversation_llm = Current

\* What a request answers, and what a call of the model uses, is no mixture of
\* two configurations - a key never goes with another's address - and is no
\* older than the updates that were finished when the request arrived; the
\* answer to an update has that update in it (demo.rs:25, 62, runtime_client.rs:33).
CopyWholeAndCurrent ==
  \A r \in Requests : at[r] = "answered" =>
    \E n \in since[r] .. Len(versions) : copy[r] = versions[n]

\* Every request that came is answered unless it was dropped, though readers and
\* writers keep coming and those before it in the queue may be dropped (demo.rs:60).
RequestsEnd ==
  \A r \in Requests : (at[r] # "new") ~> (at[r] \in {"answered", "dropped"})
=============================================================================
