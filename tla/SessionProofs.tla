---------------------------- MODULE SessionProofs ----------------------------
(***************************************************************************)
(* Theorems about one session, for every configuration, every set of       *)
(* requests and every number of messages.                                  *)
(***************************************************************************)
EXTENDS Session, ConversationLemmas

\* What the assumption says of the constants.
LEMMA ConstantTypes ==
  /\ MaxU32 \in Nat /\ KeepRecent \in Nat /\ MaxTraceEvents \in Nat \ {0}
  /\ EveryN \in 0 .. MaxU32
  /\ TotalAttempts \in Nat
<1>1. /\ MaxU32 \in Nat \ {0} /\ KeepRecent \in Nat /\ MaxTraceEvents \in Nat \ {0}
      /\ every_n_turns \in 0 .. MaxU32 /\ max_retries \in 0 .. MaxU32
  BY ConfigAssumption DEF ConfigAssumption
<1>2. EveryN \in 0 .. MaxU32
  BY <1>1 DEF EveryN
<1>3. (max_retries + 1) % (MaxU32 + 1) \in 0 .. MaxU32
  <2> DEFINE a == max_retries + 1
             b == MaxU32 + 1
  <2>1. a \in Int /\ b \in Int /\ b > 0
    BY <1>1
  <2> HIDE DEF a, b
  <2>2. a % b \in 0 .. b - 1
    BY <2>1
  <2> QED
    BY <2>2, <1>1 DEF a, b
<1> QED
  BY <1>1, <1>2, <1>3 DEF TotalAttempts

\* Saturating addition stays within u32.
LEMMA SaturatingAddType ==
  ASSUME NEW a \in 0 .. MaxU32, NEW b \in Nat
  PROVE  SaturatingAdd(a, b) \in 0 .. MaxU32
BY ConstantTypes DEF SaturatingAdd

\* The trace window holds at most MaxTraceEvents kinds (types.rs:265).
LEMMA TracedType ==
  ASSUME traces \in Seq(TraceKinds), NEW kinds \in Seq(TraceKinds)
  PROVE  Traced(kinds) \in Seq(TraceKinds) /\ Len(Traced(kinds)) <= MaxTraceEvents
<1> DEFINE all  == traces \o kinds
           from == IF Len(all) > MaxTraceEvents THEN Len(all) - MaxTraceEvents + 1 ELSE 1
<1>1. all \in Seq(TraceKinds) /\ Len(all) \in Nat
  BY ConcatProperties, LenProperties
<1>2. from \in Nat \ {0}
  BY <1>1, ConstantTypes
<1>3. SubSeq(all, from, Len(all)) \in Seq(TraceKinds)
  BY <1>1, <1>2
<1>4. Len(SubSeq(all, from, Len(all))) <= MaxTraceEvents
  BY <1>1, <1>2, ConstantTypes
<1> QED
  BY <1>3, <1>4 DEF Traced

\* A request that arrives is a message of its role.
LEMMA ArrivedIsMessage ==
  ASSUME log \in Seq(Message), NEW r \in Requests
  PROVE  Arrived(r) \in Message /\ Arrived(r).role \in TraceKinds
<1>1. r \in Message
  BY ConfigAssumption DEF ConfigAssumption
<1>2. Len(log) + 1 \in Texts
  BY LenProperties DEF Texts
<1>3. Arrived(r) \in Message
  BY <1>1, <1>2 DEF Arrived, Message
<1> QED
  BY <1>3 DEF Message, Roles, TraceKinds

-----------------------------------------------------------------------------
(* Type correctness.                                                       *)

\* An accepted append keeps the types (append.rs:36-108).
LEMMA AppendMessageTypes ==
  ASSUME TypeOK, NEW r \in Requests, AppendMessage(r)
  PROVE  TypeOK'
<1> DEFINE m == Arrived(r)
<1>1. m \in Message /\ m.role \in TraceKinds
  BY ArrivedIsMessage DEF TypeOK
<1>2. log' \in Seq(Message)
  BY <1>1 DEF AppendMessage, TypeOK
<1>3. stable' \in Seq(Message) /\ pending' \in Seq(Message) /\ stable_revision' \in Nat
  <2>1. StoreMessage(m)
    BY DEF AppendMessage
  <2>2. stable \in Seq(Message) /\ pending \in Seq(Message) /\ stable_revision \in Nat
    BY DEF TypeOK
  <2>3. Append(stable, m) \in Seq(Message) /\ Append(pending, m) \in Seq(Message)
    BY <1>1, <2>2, AppendProperties
  <2>4. CASE is_compressing
    <3>1. pending' = Append(pending, m) /\ stable' = stable /\ stable_revision' = stable_revision
      BY <2>1, <2>4 DEF StoreMessage
    <3> QED
      BY <2>2, <2>3, <3>1
  <2>5. CASE ~is_compressing
    <3>1. stable' = Append(stable, m) /\ pending' = pending /\ stable_revision' = stable_revision + 1
      BY <2>1, <2>5 DEF StoreMessage
    <3> QED
      BY <2>2, <2>3, <3>1
  <2> QED
    BY <2>4, <2>5
<1>4. turn_count' \in 0 .. MaxU32
  BY SaturatingAddType DEF AppendMessage, CountTurn, TypeOK
<1>5. /\ is_compressing' \in BOOLEAN
      /\ traces' \in Seq(TraceKinds) /\ Len(traces') <= MaxTraceEvents
      /\ tasks' \subseteq Task
  <2>1. CASE Triggers(m)
    <3>1. NewTask \in Task
      BY <1>3, <1>4, ConstantTypes DEF NewTask, Task
    <3>2. <<m.role, "triggered">> \in Seq(TraceKinds)
      BY <1>1 DEF TraceKinds
    <3> QED
      BY <2>1, <3>1, <3>2, TracedType DEF AppendMessage, TriggerCompression, TypeOK
  <2>2. CASE ~Triggers(m)
    <3>1. traces' = Traced(<<m.role>>) /\ is_compressing' = is_compressing /\ tasks' = tasks
      BY <2>2 DEF AppendMessage, TriggerCompression
    <3>2. <<m.role>> \in Seq(TraceKinds)
      BY <1>1
    <3> QED
      BY <3>1, <3>2, TracedType DEF TypeOK
  <2> QED
    BY <2>1, <2>2
<1> QED
  BY <1>2, <1>3, <1>4, <1>5 DEF AppendMessage, TypeOK

\* Setting the system prompt keeps the types (demo.rs:481-522).
LEMMA SyncSystemPromptTypes ==
  ASSUME TypeOK, NEW p \in Prompts, SyncSystemPrompt(p)
  PROVE  TypeOK'
<1>1. stable' \in Seq(Message) /\ log' \in Seq(Message)
  BY WithPromptIsConversation DEF SyncSystemPrompt, TypeOK
<1>2. traces' \in Seq(TraceKinds) /\ Len(traces') <= MaxTraceEvents
  <2>1. <<"system">> \in Seq(TraceKinds)
    BY DEF TraceKinds
  <2> QED
    BY <2>1, TracedType DEF SyncSystemPrompt, TypeOK
<1> QED
  BY <1>1, <1>2 DEF SyncSystemPrompt, TypeOK

\* An attempt of a task keeps the types (scheduler.rs:65-90).
LEMMA AttemptTypes ==
  ASSUME TypeOK, NEW t \in tasks, AttemptSucceeds(t) \/ AttemptFails(t)
  PROVE  TypeOK'
<1>1. t \in Task
  BY DEF TypeOK
<1>2. /\ t.attempt + 1 \in 0 .. TotalAttempts
  BY <1>1, ConstantTypes DEF Task, AttemptSucceeds, AttemptFails, Calling
<1>3. /\ [t EXCEPT !.attempt = @ + 1, !.success = TRUE] \in Task
      /\ [t EXCEPT !.attempt = @ + 1] \in Task
  BY <1>1, <1>2 DEF Task
<1>4. tasks' \subseteq Task
  BY <1>3 DEF AttemptSucceeds, AttemptFails, UpdateTask, TypeOK
<1> QED
  BY <1>4 DEF AttemptSucceeds, AttemptFails, SessionUnchanged, TypeOK

\* Each of the three ends of a task keeps the types (scheduler.rs:92-168).
LEMMA MergeTypes ==
  ASSUME TypeOK, NEW t \in tasks, MergeStale(t) \/ MergeFresh(t) \/ MergeFailed(t)
  PROVE  TypeOK'
<1>1. t \in Task
  BY DEF TypeOK
<1>2. <<"failed">> \in Seq(TraceKinds) /\ <<"succeeded">> \in Seq(TraceKinds)
  BY DEF TraceKinds
<1>3. traces' \in Seq(TraceKinds) /\ Len(traces') <= MaxTraceEvents
  BY <1>2, TracedType DEF MergeStale, MergeFresh, MergeFailed, TypeOK
<1>4. /\ next_compress_at' \in 0 .. MaxU32
      /\ is_compressing' \in BOOLEAN
      /\ tasks' \subseteq Task
      /\ turn_count' = turn_count /\ log' = log
  <2>1. EndCompression(t)
    BY DEF MergeStale, MergeFresh, MergeFailed
  <2>2. is_compressing' \in BOOLEAN /\ turn_count' = turn_count /\ log' = log
    BY <2>1 DEF EndCompression
  <2>3. next_compress_at' \in 0 .. MaxU32
    BY <2>1, ConstantTypes, SaturatingAddType DEF EndCompression, TypeOK
  <2>4. tasks' \subseteq Task
    BY <2>1 DEF EndCompression, TypeOK
  <2> QED
    BY <2>2, <2>3, <2>4
<1>5. /\ stable' \in Seq(Message)
      /\ pending' \in Seq(Message)
      /\ stable_revision' \in Nat
      /\ compressed_turns' \in 0 .. MaxU32
      /\ last_compression_evaluation' \in EvaluationType \cup {None}
  <2>1. CASE MergeStale(t) \/ MergeFailed(t)
    <3>1. KeepStable
      BY <2>1 DEF MergeStale, MergeFailed
    <3> QED
      BY <3>1 DEF KeepStable, DrainInto, TypeOK
  <2>2. CASE MergeFresh(t)
    <3>1. t.messages \in Seq(Message) /\ KeepRecent \in Nat
      BY <1>1, ConstantTypes DEF Task
    <3>2. /\ NewStable(t.messages, KeepRecent) \in Seq(Message)
          /\ CompressedTurnsDelta(t.messages, KeepRecent) \in Nat
          /\ Evaluation(t.messages, KeepRecent) \in EvaluationType
      BY <3>1, OutcomeTypes DEF EvaluationType
    <3>3. NewStable(t.messages, KeepRecent) \o pending \in Seq(Message)
      BY <3>2 DEF TypeOK
    <3> QED
      BY <2>2, <3>2, <3>3, SaturatingAddType DEF MergeFresh, DrainInto, TypeOK
  <2> QED
    BY <2>1, <2>2
<1> QED
  BY <1>3, <1>4, <1>5 DEF TypeOK

\* The types hold in a new session (types.rs:214-239).
LEMMA InitTypes == Init => TypeOK
<1> SUFFICES ASSUME Init PROVE TypeOK
  OBVIOUS
<1>1. \A p \in Prompts : SystemText(p) \in Message
  BY DEF SystemText, Message, Roles, Texts
<1>2. stable \in Seq(Message)
  <2>1. CASE stable = <<>>
    BY <2>1
  <2>2. CASE \E p \in Prompts : stable = <<SystemText(p)>>
    BY <1>1, <2>2
  <2> QED
    BY <2>1, <2>2 DEF Init
<1>3. traces \in Seq(TraceKinds) /\ Len(traces) <= MaxTraceEvents
  BY ConstantTypes DEF Init, TraceKinds
<1>4. pending = <<>> /\ log = stable /\ tasks = {}
  BY DEF Init
<1>5. is_compressing \in BOOLEAN
  BY DEF Init
<1>6. /\ stable_revision = 0 /\ turn_count = 0 /\ compressed_turns = 0
      /\ next_compress_at = EveryN /\ last_compression_evaluation = None
  BY DEF Init
<1> QED
  BY <1>2, <1>3, <1>4, <1>5, <1>6, ConstantTypes DEF TypeOK

\* The types are kept by every step.
LEMMA StepTypes == TypeOK /\ [Next]_vars => TypeOK'
<1> SUFFICES ASSUME TypeOK, [Next]_vars PROVE TypeOK'
  OBVIOUS
<1>1. CASE \E r \in Requests : AppendMessage(r)
  BY <1>1, AppendMessageTypes
<1>2. CASE \E p \in Prompts : SyncSystemPrompt(p)
  BY <1>2, SyncSystemPromptTypes
<1>3. CASE \E t \in tasks : TaskStep(t)
  BY <1>3, AttemptTypes, MergeTypes DEF TaskStep
<1>4. CASE \E r \in Requests : AppendRejected(r)
  BY <1>4 DEF AppendRejected, TypeOK, vars
<1>5. CASE UNCHANGED vars
  BY <1>5 DEF TypeOK, vars
<1> QED
  BY <1>1, <1>2, <1>3, <1>4, <1>5 DEF Next

\* Every variable of a session stays in its type; counters stay within u32,
\* the trace window and the attempts of a task within their limits.
THEOREM TypesHold == Spec => []TypeOK
BY InitTypes, StepTypes, PTL DEF Spec

-----------------------------------------------------------------------------
(* One compression at a time, on whole turns, never merged over a change.  *)

FlightInv == TypeOK /\ SingleFlight /\ SnapshotFresh /\ SnapshotCompressible

\* No compression runs in a new session.
LEMMA InitFlight == Init => FlightInv
BY InitTypes DEF Init, FlightInv, SingleFlight, SnapshotFresh, SnapshotCompressible

\* An append while a task runs only touches pending and starts no task; an
\* append while none runs may start one, on the buffer it leaves.
LEMMA AppendMessageFlight ==
  ASSUME FlightInv, NEW r \in Requests, AppendMessage(r)
  PROVE  SingleFlight' /\ SnapshotFresh' /\ SnapshotCompressible'
<1> DEFINE m == Arrived(r)
<1>1. TypeOK /\ SingleFlight /\ SnapshotFresh /\ SnapshotCompressible
  BY DEF FlightInv
<1>2. StoreMessage(m) /\ TriggerCompression(m)
  BY DEF AppendMessage
<1>3. CASE is_compressing
  <2>1. ~Triggers(m)
    BY <1>3 DEF Triggers
  <2>2. tasks' = tasks /\ (is_compressing' <=> is_compressing)
    BY <1>2, <2>1 DEF TriggerCompression
  <2>3. stable' = stable /\ stable_revision' = stable_revision
    BY <1>2, <1>3 DEF StoreMessage
  <2> QED
    BY <1>1, <1>3, <2>2, <2>3 DEF SingleFlight, SnapshotFresh, SnapshotCompressible
<1>4. CASE ~is_compressing
  <2>1. tasks = {} /\ pending = <<>>
    BY <1>1, <1>4 DEF SingleFlight
  <2>2. pending' = <<>>
    BY <1>2, <1>4, <2>1 DEF StoreMessage
  <2>3. CASE Triggers(m)
    <3>1. is_compressing' /\ tasks' = {NewTask}
      BY <1>2, <2>1, <2>3 DEF TriggerCompression
    <3>2. NewTask.messages = stable' /\ NewTask.stable_revision = stable_revision'
      BY DEF NewTask
    <3>3. IsAtTurnBoundary(stable') /\ HasPlan(stable', KeepRecent)
      <4>1. stable' \in Seq(Message)
        BY <1>1, AppendMessageTypes DEF TypeOK
      <4>2. View' = stable'
        BY <2>2, <4>1, ConcatEmptySeq DEF View
      <4> QED
        BY <2>3, <4>2 DEF Triggers, TurnCompleted
    <3>4. stable_revision' \in Nat
      BY <1>1, AppendMessageTypes DEF TypeOK
    <3> QED
      BY <2>2, <3>1, <3>2, <3>3, <3>4 DEF SingleFlight, SnapshotFresh, SnapshotCompressible
  <2>4. CASE ~Triggers(m)
    <3>1. tasks' = {} /\ ~is_compressing'
      BY <1>2, <1>4, <2>1, <2>4 DEF TriggerCompression
    <3> QED
      BY <2>2, <3>1 DEF SingleFlight, SnapshotFresh, SnapshotCompressible
  <2> QED
    BY <2>3, <2>4
<1> QED
  BY <1>3, <1>4

\* The one writer that ignores the flag moves the revision past the task's.
LEMMA SyncSystemPromptFlight ==
  ASSUME FlightInv, NEW p \in Prompts, SyncSystemPrompt(p)
  PROVE  SingleFlight' /\ SnapshotFresh' /\ SnapshotCompressible'
<1>1. TypeOK /\ SingleFlight /\ SnapshotFresh /\ SnapshotCompressible
  BY DEF FlightInv
<1>2. /\ tasks' = tasks /\ pending' = pending /\ (is_compressing' <=> is_compressing)
      /\ stable_revision' = stable_revision + 1
  BY DEF SyncSystemPrompt
<1>3. \A t \in tasks : t.stable_revision \in Nat /\ stable_revision \in Nat
  BY <1>1 DEF TypeOK, Task
<1>4. SingleFlight' /\ SnapshotCompressible'
  BY <1>1, <1>2 DEF SingleFlight, SnapshotCompressible
<1>5. SnapshotFresh'
  BY <1>1, <1>2, <1>3 DEF SnapshotFresh
<1> QED
  BY <1>4, <1>5

\* An attempt leaves the session alone, and the task its snapshot.
LEMMA AttemptFlight ==
  ASSUME FlightInv, NEW t \in tasks, AttemptSucceeds(t) \/ AttemptFails(t)
  PROVE  SingleFlight' /\ SnapshotFresh' /\ SnapshotCompressible'
<1>1. TypeOK /\ SingleFlight /\ SnapshotFresh /\ SnapshotCompressible
  BY DEF FlightInv
<1>2. PICK u : /\ UpdateTask(t, u)
               /\ u.messages = t.messages
               /\ u.stable_revision = t.stable_revision
  <2>1. t \in Task
    BY <1>1 DEF TypeOK
  <2>2. CASE AttemptSucceeds(t)
    <3> DEFINE u == [t EXCEPT !.attempt = @ + 1, !.success = TRUE]
    <3>1. u.messages = t.messages /\ u.stable_revision = t.stable_revision
      BY <2>1 DEF Task
    <3>2. UpdateTask(t, u)
      BY <2>2 DEF AttemptSucceeds
    <3> HIDE DEF u
    <3> QED
      BY <3>1, <3>2
  <2>3. CASE AttemptFails(t)
    <3> DEFINE u == [t EXCEPT !.attempt = @ + 1]
    <3>1. u.messages = t.messages /\ u.stable_revision = t.stable_revision
      BY <2>1 DEF Task
    <3>2. UpdateTask(t, u)
      BY <2>3 DEF AttemptFails
    <3> HIDE DEF u
    <3> QED
      BY <3>1, <3>2
  <2> QED
    BY <2>2, <2>3
<1>3. tasks = {t} /\ tasks' = {u}
  BY <1>1, <1>2 DEF SingleFlight, UpdateTask
<1>4. SessionUnchanged
  BY DEF AttemptSucceeds, AttemptFails
<1>5. /\ stable' = stable /\ stable_revision' = stable_revision /\ pending' = pending
      /\ (is_compressing' <=> is_compressing)
  BY <1>4 DEF SessionUnchanged
<1> QED
  BY <1>1, <1>2, <1>3, <1>5 DEF SingleFlight, SnapshotFresh, SnapshotCompressible

\* A merge, whatever its outcome, ends the only task and empties pending.
LEMMA MergeFlight ==
  ASSUME FlightInv, NEW t \in tasks, MergeStale(t) \/ MergeFresh(t) \/ MergeFailed(t)
  PROVE  SingleFlight' /\ SnapshotFresh' /\ SnapshotCompressible'
<1>1. SingleFlight
  BY DEF FlightInv
<1>2. EndCompression(t)
  BY DEF MergeStale, MergeFresh, MergeFailed
<1>3. tasks' = {} /\ ~is_compressing'
  BY <1>1, <1>2 DEF SingleFlight, EndCompression
<1>4. pending' = <<>>
  BY DEF MergeStale, MergeFresh, MergeFailed, KeepStable, DrainInto
<1> QED
  BY <1>3, <1>4 DEF SingleFlight, SnapshotFresh, SnapshotCompressible

\* FlightInv is inductive: one lemma per group of actions.
LEMMA StepFlight == FlightInv /\ [Next]_vars => FlightInv'
<1> SUFFICES ASSUME FlightInv, [Next]_vars
             PROVE  SingleFlight' /\ SnapshotFresh' /\ SnapshotCompressible'
  BY StepTypes DEF FlightInv
<1>1. CASE \E r \in Requests : AppendMessage(r)
  BY <1>1, AppendMessageFlight
<1>2. CASE \E p \in Prompts : SyncSystemPrompt(p)
  BY <1>2, SyncSystemPromptFlight
<1>3. CASE \E t \in tasks : TaskStep(t)
  BY <1>3, AttemptFlight, MergeFlight DEF TaskStep
<1>4. CASE UNCHANGED vars
  <2>1. /\ stable' = stable /\ stable_revision' = stable_revision /\ pending' = pending
        /\ tasks' = tasks /\ (is_compressing' <=> is_compressing)
    BY <1>4 DEF vars
  <2> QED
    BY <2>1 DEF FlightInv, SingleFlight, SnapshotFresh, SnapshotCompressible
<1>5. CASE \E r \in Requests : AppendRejected(r)
  BY <1>4, <1>5 DEF AppendRejected
<1> QED
  BY <1>1, <1>2, <1>3, <1>4, <1>5 DEF Next

\* The conjunction the theorems below are read off.
LEMMA FlightHolds == Spec => []FlightInv
BY InitFlight, StepFlight, PTL DEF Spec

\* At most one compression runs, exactly while the flag is up, and only then
\* does pending hold messages.
THEOREM SingleFlightHolds == Spec => []SingleFlight
<1>1. FlightInv => SingleFlight
  BY DEF FlightInv
<1> QED
  BY <1>1, FlightHolds, PTL

\* A task whose revision is current was given the current stable buffer, so
\* what MergeFresh replaces is what was compressed.
THEOREM SnapshotFreshHolds == Spec => []SnapshotFresh
<1>1. FlightInv => SnapshotFresh
  BY DEF FlightInv
<1> QED
  BY <1>1, FlightHolds, PTL

\* Compression only runs on completed turns and always has a plan.
THEOREM SnapshotCompressibleHolds == Spec => []SnapshotCompressible
<1>1. FlightInv => SnapshotCompressible
  BY DEF FlightInv
<1> QED
  BY <1>1, FlightHolds, PTL

-----------------------------------------------------------------------------
(* The revision moves with the stable buffer.                              *)

\* What RevisionMoves asks of a step, from the types before it.
LEMMA StepRevision ==
  ASSUME TypeOK, [Next]_vars
  PROVE  /\ stable' # stable => stable_revision' > stable_revision
         /\ stable_revision' >= stable_revision
<1>1. stable \in Seq(Message) /\ stable_revision \in Nat
  BY DEF TypeOK
<1>2. CASE \E r \in Requests : AppendMessage(r)
  <2>1. PICK r \in Requests : StoreMessage(Arrived(r))
    BY <1>2 DEF AppendMessage
  <2>2. \/ stable' = stable /\ stable_revision' = stable_revision
        \/ stable_revision' = stable_revision + 1
    BY <2>1 DEF StoreMessage
  <2> QED
    BY <1>1, <2>2
<1>3. CASE \E p \in Prompts : SyncSystemPrompt(p)
  BY <1>1, <1>3 DEF SyncSystemPrompt
<1>4. CASE \E t \in tasks : AttemptSucceeds(t) \/ AttemptFails(t)
  BY <1>1, <1>4 DEF AttemptSucceeds, AttemptFails, SessionUnchanged
<1>5. CASE \E t \in tasks : MergeStale(t) \/ MergeFailed(t)
  <2>1. KeepStable
    BY <1>5 DEF MergeStale, MergeFailed
  <2>2. CASE pending = <<>>
    <3>1. stable' = stable
      BY <1>1, <2>1, <2>2, ConcatEmptySeq DEF KeepStable, DrainInto
    <3> QED
      BY <1>1, <2>1, <2>2, <3>1 DEF KeepStable
  <2>3. CASE pending # <<>>
    BY <1>1, <2>1, <2>3 DEF KeepStable
  <2> QED
    BY <2>2, <2>3
<1>6. CASE \E t \in tasks : MergeFresh(t)
  BY <1>1, <1>6 DEF MergeFresh
<1>7. CASE UNCHANGED vars
  BY <1>1, <1>7 DEF vars
<1>8. CASE \E r \in Requests : AppendRejected(r)
  BY <1>7, <1>8 DEF AppendRejected
<1> QED
  BY <1>2, <1>3, <1>4, <1>5, <1>6, <1>7, <1>8 DEF Next, TaskStep

\* The stable buffer never changes under an unchanged revision, which never
\* goes back.
THEOREM RevisionMovesHolds == Spec => RevisionMoves
<1>1. TypeOK /\ [Next]_vars =>
        [/\ stable' # stable => stable_revision' > stable_revision
         /\ stable_revision' >= stable_revision]_vars
  BY StepRevision
<1> QED
  BY <1>1, TypesHold, PTL DEF Spec, RevisionMoves

-----------------------------------------------------------------------------
(* What is traced.                                                         *)

\* The configuration of finding 1 excluded: at least one call is made.
AttemptsAreMade == max_retries < MaxU32

LEMMA SomeAttempt == AttemptsAreMade => TotalAttempts \in Nat \ {0}
<1>1. max_retries \in 0 .. MaxU32 /\ MaxU32 \in Nat
  BY ConfigAssumption DEF ConfigAssumption
<1> SUFFICES ASSUME AttemptsAreMade PROVE TotalAttempts \in Nat \ {0}
  OBVIOUS
<1> DEFINE a == max_retries + 1
           b == MaxU32 + 1
<1>2. a \in 1 .. b - 1 /\ b \in Nat \ {0}
  BY <1>1 DEF AttemptsAreMade
<1> HIDE DEF a, b
<1>3. a % b = a
  BY <1>2
<1> QED
  BY <1>2, <1>3 DEF TotalAttempts, a, b

CompressionKinds == {"triggered", "succeeded", "failed"}

EndsIn(s) == {i \in DOMAIN s : s[i] \in CompressionKinds}

\* Triggers and finishes take turns in s, and the last tells whether one runs.
TakeTurns(s, running) ==
  /\ \A i, j \in EndsIn(s) :
       i < j /\ (\A k \in EndsIn(s) : k <= i \/ k >= j)
         => (s[i] = "triggered") # (s[j] = "triggered")
  /\ \A i \in EndsIn(s) :
       (\A k \in EndsIn(s) : k <= i) => (running <=> s[i] = "triggered")

\* Dropping the oldest events leaves the turns they take (types.rs:265).
LEMMA TurnsInWindow ==
  ASSUME NEW s \in Seq(TraceKinds), NEW w \in Seq(TraceKinds), NEW d \in Nat,
         Len(s) = d + Len(w), \A i \in 1 .. Len(w) : w[i] = s[d + i],
         NEW running, TakeTurns(s, running)
  PROVE  TakeTurns(w, running)
<1>1. /\ DOMAIN s = 1 .. Len(s) /\ DOMAIN w = 1 .. Len(w)
      /\ Len(s) \in Nat /\ Len(w) \in Nat
  BY LenProperties
<1>2. ASSUME NEW i \in EndsIn(w)
      PROVE  i \in 1 .. Len(w) /\ d + i \in EndsIn(s) /\ s[d + i] = w[i]
  BY <1>1, <1>2 DEF EndsIn
<1>3. ASSUME NEW k \in EndsIn(s), k > d
      PROVE  k - d \in EndsIn(w)
  <2>1. k - d \in 1 .. Len(w) /\ d + (k - d) = k
    BY <1>1, <1>3 DEF EndsIn
  <2>2. w[k - d] = s[k]
    BY <2>1
  <2> QED
    BY <1>1, <2>1, <2>2 DEF EndsIn
<1>4. ASSUME NEW i \in EndsIn(w), NEW j \in EndsIn(w), i < j,
             \A k \in EndsIn(w) : k <= i \/ k >= j
      PROVE  (w[i] = "triggered") # (w[j] = "triggered")
  <2>1. i \in Int /\ j \in Int /\ EndsIn(s) \subseteq Int
    BY <1>1, <1>2 DEF EndsIn
  <2>2. d + i < d + j /\ \A k \in EndsIn(s) : k <= d + i \/ k >= d + j
    <3>1. ASSUME NEW k \in EndsIn(s)
          PROVE  k <= d + i \/ k >= d + j
      <4>1. CASE k > d
        <5>1. k - d <= i \/ k - d >= j
          BY <1>3, <1>4, <4>1
        <5> QED
          BY <2>1, <5>1
      <4>2. CASE ~(k > d)
        BY <1>1, <1>2, <2>1, <4>2
      <4> QED
        BY <4>1, <4>2
    <3> QED
      BY <1>4, <2>1, <3>1
  <2>3. d + i \in EndsIn(s) /\ d + j \in EndsIn(s) /\ s[d + i] = w[i] /\ s[d + j] = w[j]
    BY <1>2
  <2> DEFINE a == d + i
             b == d + j
  <2> HIDE DEF a, b
  <2>4. (s[a] = "triggered") # (s[b] = "triggered")
    BY <2>2, <2>3 DEF TakeTurns, a, b
  <2> QED
    BY <2>3, <2>4 DEF a, b
<1>5. ASSUME NEW i \in EndsIn(w), \A k \in EndsIn(w) : k <= i
      PROVE  running <=> w[i] = "triggered"
  <2>1. i \in 1 .. Len(w) /\ EndsIn(s) \subseteq Int
    BY <1>1, <1>2 DEF EndsIn
  <2>2. ASSUME NEW k \in EndsIn(s)
        PROVE  k <= d + i
    <3>1. CASE k > d
      <4>1. k - d <= i
        BY <1>3, <1>5, <3>1
      <4> QED
        BY <2>1, <4>1
    <3>2. CASE ~(k > d)
      BY <2>1, <3>2
    <3> QED
      BY <3>1, <3>2
  <2>3. d + i \in EndsIn(s) /\ s[d + i] = w[i]
    BY <1>2
  <2> DEFINE a == d + i
  <2>4. running <=> s[a] = "triggered"
    BY <2>2, <2>3 DEF TakeTurns
  <2> QED
    BY <2>3, <2>4
<1> QED
  BY <1>4, <1>5 DEF TakeTurns

\* A trigger follows while none runs, a finish while one does.
LEMMA TurnTaken ==
  ASSUME NEW s \in Seq(TraceKinds), NEW e \in TraceKinds,
         NEW running, NEW then, TakeTurns(s, running),
         e = "triggered" => ~running /\ then,
         e \in {"succeeded", "failed"} => running /\ ~then,
         e \notin CompressionKinds => then = running
  PROVE  TakeTurns(Append(s, e), then)
<1> DEFINE w == Append(s, e)
           n == Len(s) + 1
<1>1. /\ Len(s) \in Nat /\ DOMAIN s = 1 .. Len(s) /\ DOMAIN w = 1 .. n
      /\ w[n] = e /\ \A i \in 1 .. Len(s) : w[i] = s[i]
  BY LenProperties, AppendProperties
<1> HIDE DEF w
<1>2. \A i \in EndsIn(s) : i \in EndsIn(w) /\ w[i] = s[i] /\ i < n /\ i \in Nat
  BY <1>1 DEF EndsIn
<1>3. \A i \in EndsIn(w) : i \in Nat /\ i <= n /\ (i # n => i \in EndsIn(s))
  BY <1>1 DEF EndsIn
<1>4. n \in EndsIn(w) <=> e \in CompressionKinds
  BY <1>1 DEF EndsIn
<1>5. n \in Nat
  BY <1>1
<1> HIDE DEF n
<1>6. ASSUME NEW i \in EndsIn(w), NEW j \in EndsIn(w), i < j,
             \A k \in EndsIn(w) : k <= i \/ k >= j
      PROVE  (w[i] = "triggered") # (w[j] = "triggered")
  <2>1. i \in EndsIn(s) /\ w[i] = s[i]
    BY <1>2, <1>3, <1>5, <1>6
  <2>2. CASE j # n
    <3>1. j \in EndsIn(s) /\ w[j] = s[j]
      BY <1>2, <1>3, <2>2
    <3>2. \A k \in EndsIn(s) : k <= i \/ k >= j
      BY <1>2, <1>6
    <3> QED
      BY <1>6, <2>1, <3>1, <3>2 DEF TakeTurns
  <2>3. CASE j = n
    <3>1. \A k \in EndsIn(s) : k <= i
      BY <1>2, <1>3, <1>5, <1>6, <2>3
    <3>2. running <=> s[i] = "triggered"
      BY <2>1, <3>1 DEF TakeTurns
    <3>3. w[j] = e /\ e \in CompressionKinds
      BY <1>1, <1>4, <2>3
    <3> QED
      BY <2>1, <3>2, <3>3 DEF CompressionKinds
  <2> QED
    BY <2>2, <2>3
<1>7. ASSUME NEW i \in EndsIn(w), \A k \in EndsIn(w) : k <= i
      PROVE  then <=> w[i] = "triggered"
  <2>1. CASE i = n
    <3>1. w[i] = e /\ e \in CompressionKinds
      BY <1>1, <1>4, <2>1
    <3> QED
      BY <3>1 DEF CompressionKinds
  <2>2. CASE i # n
    <3>1. i \in EndsIn(s) /\ w[i] = s[i] /\ \A k \in EndsIn(s) : k <= i
      BY <1>2, <1>3, <1>7, <2>2
    <3>2. e \notin CompressionKinds
      BY <1>2, <1>4, <1>5, <1>7, <3>1
    <3>3. running <=> s[i] = "triggered"
      BY <3>1 DEF TakeTurns
    <3> QED
      BY <3>1, <3>2, <3>3
  <2> QED
    BY <2>1, <2>2
<1> QED
  BY <1>6, <1>7 DEF TakeTurns, w

\* The window after some events is a suffix of all events, with the last of them
\* at its end.
LEMMA WindowIsSuffix ==
  ASSUME traces \in Seq(TraceKinds), NEW kinds \in Seq(TraceKinds)
  PROVE  LET all == traces \o kinds
             w   == Traced(kinds)
         IN  /\ all \in Seq(TraceKinds) /\ w \in Seq(TraceKinds)
             /\ \E d \in Nat : /\ Len(all) = d + Len(w)
                               /\ \A i \in 1 .. Len(w) : w[i] = all[d + i]
             /\ kinds # <<>> => w # <<>> /\ w[Len(w)] = kinds[Len(kinds)]
<1> DEFINE all == traces \o kinds
           d   == IF Len(all) > MaxTraceEvents THEN Len(all) - MaxTraceEvents ELSE 0
           w   == SubSeq(all, d + 1, Len(all))
<1>1. /\ all \in Seq(TraceKinds) /\ Len(all) = Len(traces) + Len(kinds)
      /\ Len(traces) \in Nat /\ Len(kinds) \in Nat
      /\ \A i \in 1 .. Len(kinds) : all[Len(traces) + i] = kinds[i]
  BY ConcatProperties, LenProperties
<1>2. Traced(kinds) = w
  <2>1. MaxTraceEvents \in Nat \ {0} /\ Len(all) \in Nat
    BY <1>1, ConstantTypes
  <2>2. d + 1 = IF Len(all) > MaxTraceEvents THEN Len(all) - MaxTraceEvents + 1 ELSE 1
    BY <2>1
  <2> QED
    BY <2>2 DEF Traced
<1> HIDE DEF all
<1>3. d \in 0 .. Len(all) /\ (Len(all) > 0 => d < Len(all))
  BY <1>1, ConstantTypes
<1> HIDE DEF d
<1>4. /\ w \in Seq(TraceKinds) /\ Len(w) = Len(all) - d
      /\ \A i \in 1 .. Len(w) : w[i] = all[d + i]
  <2>1. Len(all) \in Nat /\ d + 1 \in Int /\ \A i \in d + 1 .. Len(all) : all[i] \in TraceKinds
    BY <1>1, <1>3, LenProperties, ElementOfSeq
  <2>2. /\ w \in Seq(TraceKinds)
        /\ Len(w) = IF d + 1 <= Len(all) THEN Len(all) - (d + 1) + 1 ELSE 0
        /\ \A i \in 1 .. Len(all) - (d + 1) + 1 : w[i] = all[d + 1 + i - 1]
    BY <2>1, SubSeqProperties
  <2> HIDE DEF w
  <2>3. Len(w) = Len(all) - d
    BY <1>3, <2>1, <2>2
  <2>4. ASSUME NEW i \in 1 .. Len(w)
        PROVE  w[i] = all[d + i]
    <3>1. i \in 1 .. Len(all) - (d + 1) + 1 /\ d + 1 + i - 1 = d + i
      BY <1>3, <2>1, <2>3
    <3> QED
      BY <2>2, <3>1
  <2> QED
    BY <2>2, <2>3, <2>4
<1> HIDE DEF w
<1>5. kinds # <<>> => w # <<>> /\ w[Len(w)] = kinds[Len(kinds)]
  <2> SUFFICES ASSUME kinds # <<>> PROVE w # <<>> /\ w[Len(w)] = kinds[Len(kinds)]
    OBVIOUS
  <2>1. Len(kinds) \in Nat \ {0}
    BY EmptySeq
  <2>2. Len(w) \in 1 .. Len(w) /\ d + Len(w) = Len(traces) + Len(kinds) /\ Len(w) # 0
    BY <1>1, <1>3, <1>4, <2>1
  <2>3. w[Len(w)] = all[Len(traces) + Len(kinds)]
    BY <1>4, <2>2
  <2>4. all[Len(traces) + Len(kinds)] = kinds[Len(kinds)]
    BY <1>1, <2>1
  <2> QED
    BY <2>2, <2>3, <2>4, EmptySeq
<1>6. d \in Nat /\ Len(all) = d + Len(w)
  BY <1>1, <1>3, <1>4
<1> QED
  BY <1>1, <1>2, <1>4, <1>5, <1>6 DEF all

\* What a step traces: nothing, a message or a prompt, a message that starts a
\* compression, or the end of one.
LEMMA StepOfTraces ==
  ASSUME AttemptsAreMade, FlightInv, [Next]_vars
  PROVE  \/ traces' = traces /\ is_compressing' = is_compressing
         \/ \E e \in Roles : traces' = Traced(<<e>>) /\ is_compressing' = is_compressing
         \/ \E e \in Roles : /\ traces' = Traced(<<e, "triggered">>)
                             /\ ~is_compressing /\ is_compressing' = TRUE
         \/ \E e \in {"succeeded", "failed"} : /\ traces' = Traced(<<e>>)
                                               /\ is_compressing /\ is_compressing' = FALSE
<1>1. TypeOK /\ SingleFlight
  BY DEF FlightInv
<1>2. ASSUME NEW r \in Requests, AppendMessage(r)
      PROVE  \/ \E e \in Roles : traces' = Traced(<<e>>) /\ is_compressing' = is_compressing
             \/ \E e \in Roles : /\ traces' = Traced(<<e, "triggered">>)
                                 /\ ~is_compressing /\ is_compressing' = TRUE
  <2> DEFINE m == Arrived(r)
  <2>1. TriggerCompression(m)
    BY <1>2 DEF AppendMessage
  <2>2. m.role \in Roles
    <3>1. m \in Message
      BY <1>1, ArrivedIsMessage DEF TypeOK
    <3> QED
      BY <3>1 DEF Message
  <2> HIDE DEF m
  <2>3. CASE Triggers(m)
    BY <2>1, <2>2, <2>3 DEF TriggerCompression, Triggers
  <2>4. CASE ~Triggers(m)
    BY <2>1, <2>2, <2>4 DEF TriggerCompression
  <2> QED
    BY <2>3, <2>4
<1>3. ASSUME NEW p \in Prompts, SyncSystemPrompt(p)
      PROVE  \E e \in Roles : traces' = Traced(<<e>>) /\ is_compressing' = is_compressing
  BY <1>3 DEF SyncSystemPrompt, Roles
<1>4. ASSUME NEW t \in tasks, AttemptSucceeds(t) \/ AttemptFails(t)
      PROVE  traces' = traces /\ is_compressing' = is_compressing
  BY <1>4 DEF AttemptSucceeds, AttemptFails, SessionUnchanged
<1>5. ASSUME NEW t \in tasks, MergeStale(t) \/ MergeFresh(t) \/ MergeFailed(t)
      PROVE  \E e \in {"succeeded", "failed"} : /\ traces' = Traced(<<e>>)
                                                /\ is_compressing /\ is_compressing' = FALSE
  <2>1. is_compressing /\ is_compressing' = FALSE
    BY <1>1, <1>5
       DEF SingleFlight, MergeStale, MergeFresh, MergeFailed, EndCompression
  <2>2. CASE MergeStale(t)
    BY <2>1, <2>2 DEF MergeStale
  <2>3. CASE MergeFresh(t)
    BY <2>1, <2>3 DEF MergeFresh
  <2>4. CASE MergeFailed(t)
    <3>1. t.attempt \in Nat /\ ~(t.attempt < TotalAttempts)
      BY <1>1, <2>4, ConstantTypes DEF TypeOK, Task, MergeFailed, Calling
    <3>2. t.attempt > 0
      BY <3>1, SomeAttempt
    <3> QED
      BY <2>1, <2>4, <3>2 DEF MergeFailed
  <2> QED
    BY <1>5, <2>2, <2>3, <2>4
<1>6. ASSUME UNCHANGED vars
      PROVE  traces' = traces /\ is_compressing' = is_compressing
  BY <1>6 DEF vars
<1> QED
  BY <1>2, <1>3, <1>4, <1>5, <1>6 DEF Next, TaskStep, AppendRejected

TracesInv == FlightInv /\ TakeTurns(traces, is_compressing)

LEMMA StepTraces == AttemptsAreMade /\ TracesInv /\ [Next]_vars => TracesInv'
<1> SUFFICES ASSUME AttemptsAreMade, TracesInv, [Next]_vars
             PROVE  TakeTurns(traces', is_compressing')
  BY StepFlight DEF TracesInv
<1>1. FlightInv /\ traces \in Seq(TraceKinds) /\ TakeTurns(traces, is_compressing)
  BY DEF TracesInv, FlightInv, TypeOK
<1>2. ASSUME NEW kinds \in Seq(TraceKinds), traces' = Traced(kinds),
             TakeTurns(traces \o kinds, is_compressing')
      PROVE  TakeTurns(traces', is_compressing')
  <2> DEFINE all == traces \o kinds
             w   == Traced(kinds)
             c   == is_compressing'
  <2>1. /\ all \in Seq(TraceKinds) /\ w \in Seq(TraceKinds)
        /\ \E d \in Nat : Len(all) = d + Len(w) /\ \A i \in 1 .. Len(w) : w[i] = all[d + i]
    BY <1>1, WindowIsSuffix
  <2>2. TakeTurns(all, c)
    BY <1>2
  <2> HIDE DEF all, w, c
  <2>3. TakeTurns(w, c)
    BY <2>1, <2>2, TurnsInWindow
  <2> QED
    BY <1>2, <2>3 DEF w, c
<1>3. \A e \in TraceKinds : /\ <<e>> \in Seq(TraceKinds) /\ Append(traces, e) \in Seq(TraceKinds)
                            /\ traces \o <<e>> = Append(traces, e)
  BY <1>1
<1>4. Roles \subseteq TraceKinds /\ Roles \cap CompressionKinds = {}
  BY DEF Roles, TraceKinds, CompressionKinds
<1>5. CompressionKinds \subseteq TraceKinds
  BY DEF TraceKinds, CompressionKinds
<1>6. ASSUME NEW e \in Roles, traces' = Traced(<<e>>), is_compressing' = is_compressing
      PROVE  TakeTurns(traces', is_compressing')
  <2>1. e \in TraceKinds /\ e \notin CompressionKinds
    BY <1>4
  <2>2. TakeTurns(Append(traces, e), is_compressing)
    BY <1>1, <2>1, TurnTaken DEF CompressionKinds
  <2> QED
    BY <1>2, <1>3, <1>6, <2>1, <2>2
<1>7. ASSUME NEW e \in Roles, traces' = Traced(<<e, "triggered">>),
             ~is_compressing, is_compressing' = TRUE
      PROVE  TakeTurns(traces', is_compressing')
  <2> DEFINE s == Append(traces, e)
             both == <<e, "triggered">>
  <2>1. e \in TraceKinds /\ e \notin CompressionKinds /\ "triggered" \in TraceKinds
    BY <1>4 DEF TraceKinds
  <2>2. TakeTurns(s, is_compressing) /\ s \in Seq(TraceKinds)
    BY <1>1, <1>3, <2>1, TurnTaken DEF CompressionKinds
  <2> HIDE DEF s
  <2>3. TakeTurns(Append(s, "triggered"), TRUE)
    BY <1>7, <2>1, <2>2, TurnTaken DEF CompressionKinds
  <2>4. both \in Seq(TraceKinds) /\ traces \o both = Append(s, "triggered")
    BY <1>1, <2>1 DEF s
  <2> HIDE DEF both
  <2>5. TakeTurns(traces \o both, is_compressing')
    BY <1>7, <2>3, <2>4
  <2>6. traces' = Traced(both)
    BY <1>7 DEF both
  <2> QED
    BY <1>2, <2>4, <2>5, <2>6
<1>8. ASSUME NEW e \in {"succeeded", "failed"}, traces' = Traced(<<e>>),
             is_compressing, is_compressing' = FALSE
      PROVE  TakeTurns(traces', is_compressing')
  <2>1. e \in TraceKinds
    BY DEF TraceKinds
  <2>2. TakeTurns(Append(traces, e), FALSE)
    BY <1>1, <1>8, <2>1, TurnTaken DEF CompressionKinds
  <2> QED
    BY <1>2, <1>3, <1>8, <2>1, <2>2
<1>9. CASE traces' = traces /\ is_compressing' = is_compressing
  BY <1>1, <1>9
<1> QED
  BY <1>1, <1>6, <1>7, <1>8, <1>9, StepOfTraces

LEMMA InitTraces == Init => TracesInv
<1> SUFFICES ASSUME Init PROVE TakeTurns(traces, is_compressing)
  BY InitFlight DEF TracesInv
<1>1. traces = <<"session_created">>
  BY DEF Init
<1>2. EndsIn(traces) = {}
  BY <1>1 DEF EndsIn, CompressionKinds
<1> QED
  BY <1>2 DEF TakeTurns

\* A fetch reads the last trigger and the last finish off the window; the later of
\* the two tells whether a task runs (fetch.rs:63-78).
LEMMA TurnsAreFetched == TracesInv => TracesAlternate
<1> SUFFICES ASSUME TracesInv PROVE TracesAlternate
  OBVIOUS
<1>1. /\ traces \in Seq(TraceKinds) /\ TakeTurns(traces, is_compressing)
      /\ DOMAIN traces = 1 .. Len(traces) /\ Len(traces) \in Nat
  BY LenProperties DEF TracesInv, FlightInv, TypeOK
<1>2. CompressionTraces = EndsIn(traces)
  BY DEF CompressionTraces, EndsIn, CompressionKinds
<1>3. ASSUME NEW kinds
      PROVE  LET at == {i \in DOMAIN traces : traces[i] \in kinds}
             IN  /\ at = {} => LastTrace(kinds) = 0
                 /\ at # {} => LastTrace(kinds) \in at /\ \A j \in at : j <= LastTrace(kinds)
  <2> DEFINE at == {i \in DOMAIN traces : traces[i] \in kinds}
  <2>1. ASSUME at # {}
        PROVE  \E i \in at : \A j \in at : j <= i
    <3>1. at \in SUBSET Nat /\ \A j \in at : j <= Len(traces)
      BY <1>1
    <3> HIDE DEF at
    <3> QED
      BY <1>1, <2>1, <3>1, GreatestElement
  <2> QED
    BY <2>1 DEF LastTrace
<1>4. ASSUME CompressionTraces # {}
      PROVE  is_compressing <=> FetchContext.last_compression_triggered_at
                                  > FetchContext.last_compression_finished_at
  <2> DEFINE n == Cardinality({i \in DOMAIN View : View[i].summary})
             a == LastTrace({"triggered"})
             e == LastTrace({"succeeded", "failed"})
             d == IF next_compress_at > turn_count THEN next_compress_at - turn_count ELSE 0
             A == {i \in DOMAIN traces : traces[i] \in {"triggered"}}
             E == {i \in DOMAIN traces : traces[i] \in {"succeeded", "failed"}}
  <2>1. FetchContext =
          [turns_until_compression |-> d, summary_message_count |-> n,
           last_compression_triggered_at |-> a, last_compression_finished_at |-> e]
    BY DEF FetchContext
  <2>2. /\ A = {} => a = 0
        /\ A # {} => a \in A /\ \A j \in A : j <= a
    BY <1>3
  <2>3. /\ E = {} => e = 0
        /\ E # {} => e \in E /\ \A j \in E : j <= e
    BY <1>3
  <2>4. EndsIn(traces) = A \cup E /\ A \cap E = {} /\ A \subseteq Nat \ {0} /\ E \subseteq Nat \ {0}
    BY <1>1 DEF EndsIn, CompressionKinds
  <2>5. \A i \in A : traces[i] = "triggered"
    OBVIOUS
  <2>6. \A i \in E : traces[i] # "triggered"
    OBVIOUS
  <2> HIDE DEF n, a, e, d, A, E
  <2>7. is_compressing <=> a > e
    <3>1. A \cup E # {}
      BY <1>2, <1>4, <2>4
    <3>2. /\ a \in Nat /\ (A # {} => a > 0)
          /\ e \in Nat /\ (E # {} => e > 0)
      <4>1. \A i \in Nat \ {0} : i \in Nat /\ i > 0
        OBVIOUS
      <4>2. A # {} => a \in Nat \ {0}
        BY <2>2, <2>4
      <4>3. E # {} => e \in Nat \ {0}
        BY <2>3, <2>4
      <4> QED
        BY <2>2, <2>3, <4>1, <4>2, <4>3
    <3>3. \A k \in EndsIn(traces) : k \in Nat /\ (k <= a \/ k <= e)
      BY <2>2, <2>3, <2>4
    <3>4. CASE a > e
      <4>1. a \in A
        BY <2>2, <3>4, <3>2
      <4>2. \A k \in EndsIn(traces) : k <= a
        BY <3>4, <3>2, <3>3
      <4> QED
        BY <1>1, <2>4, <2>5, <3>4, <4>1, <4>2 DEF TakeTurns
    <3>5. CASE ~(a > e)
      <4>1. e \in E
        BY <2>2, <2>3, <3>1, <3>5, <3>2
      <4>2. \A k \in EndsIn(traces) : k <= e
        BY <3>5, <3>2, <3>3
      <4> QED
        BY <1>1, <2>4, <2>6, <3>5, <4>1, <4>2 DEF TakeTurns
    <3> QED
      BY <3>4, <3>5
  <2> QED
    BY <2>1, <2>7
<1> QED
  BY <1>1, <1>2, <1>4 DEF TracesAlternate, TakeTurns

\* If a compression makes a call at all, triggers and finishes alternate in every
\* window of the traces, and a fetch tells from them whether one runs.
THEOREM TracesAlternateHolds == AttemptsAreMade => (Spec => []TracesAlternate)
<1> SUFFICES ASSUME AttemptsAreMade PROVE Spec => []TracesAlternate
  OBVIOUS
<1>1. TracesInv /\ [Next]_vars => TracesInv'
  BY StepTraces
<1> QED
  BY <1>1, InitTraces, TurnsAreFetched, PTL DEF Spec

\* The promise of the docs that finding 1 refutes for one value of max_retries
\* holds for every other: a compression leaves its outcome as the last trace.
THEOREM FinishTracedHolds == AttemptsAreMade => (Spec => FinishTraced)
<1> SUFFICES ASSUME AttemptsAreMade PROVE Spec => FinishTraced
  OBVIOUS
<1>1. FlightInv /\ [Next]_vars =>
        [is_compressing /\ ~is_compressing'
           => traces' # <<>> /\ traces'[Len(traces')] \in {"succeeded", "failed"}]_vars
  <2> SUFFICES ASSUME FlightInv, [Next]_vars, is_compressing, ~is_compressing'
               PROVE  traces' # <<>> /\ traces'[Len(traces')] \in {"succeeded", "failed"}
    OBVIOUS
  <2>1. PICK e \in {"succeeded", "failed"} : traces' = Traced(<<e>>)
    BY StepOfTraces
  <2>2. traces \in Seq(TraceKinds) /\ <<e>> \in Seq(TraceKinds) /\ <<e>> # <<>>
        /\ Len(<<e>>) = 1 /\ <<e>>[1] = e
    BY DEF FlightInv, TypeOK, TraceKinds
  <2>3. Traced(<<e>>) # <<>> /\ Traced(<<e>>)[Len(Traced(<<e>>))] = <<e>>[Len(<<e>>)]
    BY <2>2, WindowIsSuffix
  <2> QED
    BY <2>1, <2>2, <2>3
<1> QED
  BY <1>1, FlightHolds, PTL DEF Spec, FinishTraced
=============================================================================
