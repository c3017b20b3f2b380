------------------------------- MODULE Session -------------------------------
(***************************************************************************)
(* One session: its two message buffers, its turn counters and its         *)
(* background compressions.  Every action that touches the session runs    *)
(* under its write lock and is one step; a compression task works on its   *)
(* own copy of the stable buffer, and its LLM calls, which may fail, time  *)
(* out or answer late, interleave with everything else.                    *)
(*                                                                         *)
(* Left to other modules: the session table, last_accessed and the TTL     *)
(* worker; the demo handlers that compose several appends.                 *)
(***************************************************************************)
EXTENDS Conversation

CONSTANTS
  every_n_turns,    \* compression.every_n_turns, as configured.
  KeepRecent,       \* compression.keep_recent_turns
  max_retries,      \* compression.max_retries
  MaxU32,           \* u32::MAX
  MaxTraceEvents,   \* MAX_TRACE_EVENTS
  Requests,         \* The messages clients send, their texts left open.
  MaxLog,           \* Bound on the length of a log that is appended to.
  MaxRevision       \* Bound on the revision at which a prompt is changed.

ASSUME ConfigAssumption ==
  /\ MaxU32 \in Nat \ {0}
  /\ {every_n_turns, KeepRecent, max_retries} \subseteq 0 .. MaxU32
  /\ MaxTraceEvents \in Nat \ {0}
  /\ Requests \subseteq Message
  /\ MaxLog \in Nat
  /\ MaxRevision \in Nat

VARIABLES
  stable,            \* The confirmed messages.
  pending,           \* The messages appended while a compression runs.
  stable_revision,
  is_compressing,
  turn_count,
  compressed_turns,
  next_compress_at,
  last_compression_evaluation,
  traces,            \* The kinds of the retained trace events.
  tasks,             \* The compression tasks that have not ended.
  log                \* History: the conversation as if never compressed.

vars == <<stable, pending, stable_revision, is_compressing, turn_count,
          compressed_turns, next_compress_at, last_compression_evaluation,
          traces, tasks, log>>

EveryN == IF every_n_turns > 1 THEN every_n_turns ELSE 1

SaturatingAdd(a, b) == IF a + b > MaxU32 THEN MaxU32 ELSE a + b

\* max_retries + 1 in a release build, where u32 addition wraps.
TotalAttempts == (max_retries + 1) % (MaxU32 + 1)

TraceKinds == {"session_created", "system", "user", "assistant", "tool",
               "triggered", "succeeded", "failed"}

\* Session::full_messages
View == stable \o pending

\* Fault: the oldest events are not dropped.
TracedAll(kinds) == traces \o kinds

\* Session::push_trace, for the events of one critical section.
Traced(kinds) ==
  LET all == traces \o kinds
      from == IF Len(all) > MaxTraceEvents THEN Len(all) - MaxTraceEvents + 1 ELSE 1
  IN  SubSeq(all, from, Len(all))

\* Session::new, with or without a system prompt.
Init ==
  /\ stable \in {<<>>} \cup {<<SystemText(p)>> : p \in Prompts}
  /\ pending = <<>>
  /\ stable_revision = 0
  /\ is_compressing = FALSE
  /\ turn_count = 0
  /\ compressed_turns = 0
  /\ next_compress_at = EveryN
  /\ last_compression_evaluation = None
  /\ traces = <<"session_created">>
  /\ tasks = {}
  /\ log = stable

-----------------------------------------------------------------------------
(* POST /sessions/{id}/messages: append_message_to_session.                *)

\* The request, with the text no other message of this session says.
Arrived(r) == [r EXCEPT !.content = {Len(log) + 1}]

\* Fault: a running compression is not looked at, nor the revision moved.
StoreInStable(m) ==
  /\ stable' = Append(stable, m)
  /\ UNCHANGED <<pending, stable_revision>>

StoreMessage(m) ==
  IF is_compressing
  THEN /\ pending' = Append(pending, m)
       /\ UNCHANGED <<stable, stable_revision>>
  ELSE /\ stable' = Append(stable, m)
       /\ stable_revision' = stable_revision + 1
       /\ UNCHANGED pending

TurnCompleted(m) == IsAssistantFinal(m) /\ IsAtTurnBoundary(View')

CountTurn(m) ==
  turn_count' = IF TurnCompleted(m) THEN SaturatingAdd(turn_count, 1) ELSE turn_count

\* Faults: the flag, the plan or the exact threshold is not respected.
TriggersTwice(m) ==
  /\ TurnCompleted(m)
  /\ turn_count' >= next_compress_at
  /\ HasPlan(stable', KeepRecent)

TriggersWithoutPlan(m) ==
  /\ TurnCompleted(m)
  /\ turn_count' >= next_compress_at
  /\ ~is_compressing

TriggersLate(m) ==
  /\ TurnCompleted(m)
  /\ turn_count' > next_compress_at
  /\ HasPlan(stable', KeepRecent)
  /\ ~is_compressing

\* should_trigger_compression, a plan, and the compare_exchange of the flag.
Triggers(m) ==
  /\ TurnCompleted(m)
  /\ turn_count' >= next_compress_at
  /\ HasPlan(stable', KeepRecent)
  /\ ~is_compressing

\* The snapshot a task is given, and how far the task is; "turn", the turn that
\* started it, only tells one task from another.
NewTask ==
  [turn            |-> turn_count',
   messages        |-> stable',
   stable_revision |-> stable_revision',
   attempt         |-> 0,
   success         |-> FALSE]

TriggerCompression(m) ==
  IF Triggers(m)
  THEN /\ is_compressing' = TRUE
       /\ tasks' = tasks \cup {NewTask}
       /\ traces' = Traced(<<m.role, "triggered">>)
  ELSE /\ traces' = Traced(<<m.role>>)
       /\ UNCHANGED <<is_compressing, tasks>>

AppendMessage(r) ==
  /\ Len(log) < MaxLog
  /\ ValidateAppend(View, Arrived(r))
  /\ log' = Append(log, Arrived(r))
  /\ StoreMessage(Arrived(r))
  /\ CountTurn(Arrived(r))
  /\ TriggerCompression(Arrived(r))
  /\ UNCHANGED <<compressed_turns, next_compress_at, last_compression_evaluation>>

\* A refused append changes nothing but last_accessed.
AppendRejected(r) ==
  /\ ~ValidateAppend(View, Arrived(r))
  /\ UNCHANGED vars

-----------------------------------------------------------------------------
(* sync_demo_session_system_prompt: the one writer of the stable buffer    *)
(* that does not look at is_compressing.                                   *)

AlreadySynced(p) == HasHead(stable) /\ stable[1].content = {p}

SyncSystemPrompt(p) ==
  /\ stable_revision < MaxRevision
  /\ ~AlreadySynced(p)
  /\ stable' = WithPrompt(stable, p)
  /\ stable_revision' = stable_revision + 1
  /\ traces' = Traced(<<"system">>)
  /\ log' = WithPrompt(log, p)
  /\ UNCHANGED <<pending, is_compressing, turn_count, compressed_turns,
                 next_compress_at, last_compression_evaluation, tasks>>

-----------------------------------------------------------------------------
(* CompressionScheduler::compress_task.                                    *)

Calling(t) == ~t.success /\ t.attempt < TotalAttempts

UpdateTask(t, u) == tasks' = (tasks \ {t}) \cup {u}

SessionUnchanged ==
  UNCHANGED <<stable, pending, stable_revision, is_compressing, turn_count,
              compressed_turns, next_compress_at, last_compression_evaluation,
              traces, log>>

\* compress_snapshot returns an outcome before the timeout.
AttemptSucceeds(t) ==
  /\ Calling(t)
  /\ HasPlan(t.messages, KeepRecent)
  /\ UpdateTask(t, [t EXCEPT !.attempt = @ + 1, !.success = TRUE])
  /\ SessionUnchanged

\* No plan, an upstream error, a summary refused for its size, or a timeout.
AttemptFails(t) ==
  /\ Calling(t)
  /\ UpdateTask(t, [t EXCEPT !.attempt = @ + 1])
  /\ SessionUnchanged

\* Faults: pending is put first, or dropped.
DrainBefore(base) ==
  /\ stable' = pending \o base
  /\ pending' = <<>>

DrainAway(base) ==
  /\ stable' = base
  /\ pending' = <<>>

\* pending drained after "base"; the revision moves when something changed.
DrainInto(base) ==
  /\ stable' = base \o pending
  /\ pending' = <<>>

\* Fault: pending is drained under the same revision.
KeepStableQuietly ==
  /\ DrainInto(stable)
  /\ UNCHANGED <<stable_revision, compressed_turns, last_compression_evaluation>>

KeepStable ==
  /\ DrainInto(stable)
  /\ stable_revision' = IF pending = <<>> THEN stable_revision ELSE stable_revision + 1
  /\ UNCHANGED <<compressed_turns, last_compression_evaluation>>

\* Faults: the threshold is moved on by the turns there are; the flag stays up.
EndPushingThreshold(t) ==
  /\ next_compress_at' = SaturatingAdd(next_compress_at, turn_count)
  /\ is_compressing' = FALSE
  /\ tasks' = tasks \ {t}
  /\ UNCHANGED <<turn_count, log>>

EndWithFlagUp(t) ==
  /\ next_compress_at' = SaturatingAdd(turn_count, EveryN)
  /\ tasks' = tasks \ {t}
  /\ UNCHANGED <<is_compressing, turn_count, log>>

EndCompression(t) ==
  /\ next_compress_at' = SaturatingAdd(turn_count, EveryN)
  /\ is_compressing' = FALSE
  /\ tasks' = tasks \ {t}
  /\ UNCHANGED <<turn_count, log>>

\* Fault: the early return of a stale result leaves the session as it is.
DropStale(t) ==
  /\ t.success
  /\ t.stable_revision # stable_revision
  /\ tasks' = tasks \ {t}
  /\ SessionUnchanged

MergeStale(t) ==
  /\ t.success
  /\ t.stable_revision # stable_revision
  /\ KeepStable
  /\ EndCompression(t)
  /\ traces' = Traced(<<"failed">>)

MergeFresh(t) ==
  /\ t.success
  /\ t.stable_revision = stable_revision
  /\ DrainInto(NewStable(t.messages, KeepRecent))
  /\ stable_revision' = stable_revision + 1
  /\ compressed_turns' =
       SaturatingAdd(compressed_turns, CompressedTurnsDelta(t.messages, KeepRecent))
  /\ last_compression_evaluation' = Evaluation(t.messages, KeepRecent)
  /\ EndCompression(t)
  /\ traces' = Traced(<<"succeeded">>)

\* Fault: the error of the last attempt is not kept.
MergeFailedQuietly(t) ==
  /\ ~t.success /\ ~Calling(t)
  /\ KeepStable
  /\ EndCompression(t)
  /\ traces' = IF t.attempt < TotalAttempts THEN Traced(<<"failed">>) ELSE traces

\* last_error is None when no attempt was made, and then nothing is traced.
MergeFailed(t) ==
  /\ ~t.success /\ ~Calling(t)
  /\ KeepStable
  /\ EndCompression(t)
  /\ traces' = IF t.attempt > 0 THEN Traced(<<"failed">>) ELSE traces

TaskStep(t) ==
  \/ AttemptSucceeds(t)
  \/ AttemptFails(t)
  \/ MergeStale(t)
  \/ MergeFresh(t)
  \/ MergeFailed(t)

-----------------------------------------------------------------------------
(* GET /sessions/{id}/context: what is derived from one look at the        *)
(* session.  But for last_accessed it changes nothing.                     *)

\* When the last retained event of these kinds was traced; 0 for none.
LastTrace(kinds) ==
  LET at == {i \in DOMAIN traces : traces[i] \in kinds}
  IN  IF at = {} THEN 0 ELSE CHOOSE i \in at : \A j \in at : j <= i

\* Any message that starts with the prefix counts as a summary, whoever wrote it.
FetchContext ==
  [turns_until_compression |->
     IF next_compress_at > turn_count THEN next_compress_at - turn_count ELSE 0,
   summary_message_count |-> Cardinality({i \in DOMAIN View : View[i].summary}),
   last_compression_triggered_at |-> LastTrace({"triggered"}),
   last_compression_finished_at  |-> LastTrace({"succeeded", "failed"})]

-----------------------------------------------------------------------------
Next ==
  \/ \E r \in Requests : AppendMessage(r)
  \/ \E r \in Requests : AppendRejected(r)
  \/ \E p \in Prompts : SyncSystemPrompt(p)
  \/ \E t \in tasks : TaskStep(t)

\* tokio polls a spawned task that is ready, its timer ends a call that is
\* not answered, and the lock is granted in the order it was asked for.
Fairness == WF_vars(\E t \in tasks : TaskStep(t))

Spec == Init /\ [][Next]_vars /\ Fairness

-----------------------------------------------------------------------------
(* Properties.                                                             *)

Task ==
  [turn            : 0 .. MaxU32,
   messages        : Seq(Message),
   stable_revision : Nat,
   attempt         : 0 .. TotalAttempts,
   success         : BOOLEAN]

EvaluationType ==
  [prompt_input : Nat, region : Nat, stable_output : Nat, retained : Nat,
   previous_summary_included : BOOLEAN]

\* Every variable stays in its type; the trace window and the attempts of a
\* task stay within their limits (types.rs:265, scheduler.rs:65).
TypeOK ==
  /\ stable \in Seq(Message)
  /\ pending \in Seq(Message)
  /\ stable_revision \in Nat
  /\ is_compressing \in BOOLEAN
  /\ turn_count \in 0 .. MaxU32
  /\ compressed_turns \in 0 .. MaxU32
  /\ next_compress_at \in 0 .. MaxU32
  /\ last_compression_evaluation \in EvaluationType \cup {None}
  /\ traces \in Seq(TraceKinds) /\ Len(traces) <= MaxTraceEvents
  /\ tasks \subseteq Task
  /\ log \in Seq(Message)

\* At most one compression of a session runs, the flag is up exactly while it
\* does, and only then are messages diverted to pending (append.rs:56,78).
SingleFlight ==
  /\ \A t, u \in tasks : t = u
  /\ is_compressing <=> tasks # {}
  /\ pending # <<>> => is_compressing

\* The revision tells whether the stable buffer is still the one a running
\* task was given: a result is never merged over a change (scheduler.rs:95).
SnapshotFresh ==
  \A t \in tasks : /\ t.stable_revision <= stable_revision
                   /\ t.stable_revision = stable_revision => t.messages = stable

\* A task only ever works on whole turns, and on something to compress: the
\* Conflict of compress_snapshot cannot occur (append.rs:71, compressor.rs:116).
SnapshotCompressible ==
  \A t \in tasks : IsAtTurnBoundary(t.messages) /\ HasPlan(t.messages, KeepRecent)

\* The turns a session reports are the compressed ones and those still in
\* view, across every merge, discard and failure (scheduler.rs:122).
TurnAccounting == turn_count = compressed_turns + CountCompletedTurns(View)

\* What is in view stays a conversation a model accepts: every tool result
\* follows the call it answers, and no answer leaves a call open (turn.rs:62).
ToolCallsPaired ==
  /\ \A i \in DOMAIN View :
       View[i].role = "tool" => View[i].tool_call_id \in IssuedIds(SubSeq(View, 1, i - 1))
  /\ \A i \in FinalIndices(View) :
       IssuedIds(SubSeq(View, 1, i)) = ResolvedIds(SubSeq(View, 1, i))

\* No two messages issue the same call.
UniqueCallIds(messages) ==
  \A i, j \in DOMAIN messages : i # j => CallSet(messages[i]) \cap CallSet(messages[j]) = {}

\* Compression is invisible to the validator: a next message is accepted after
\* the compressed view exactly when it is accepted after the whole log, as
\* long as no tool call id is used twice (append.rs:40, validator.rs:80,110).
CompressionTransparent ==
  \A r \in Requests :
    UniqueCallIds(Append(log, r)) => (ValidateAppend(View, r) <=> ValidateAppend(log, r))

\* "full context = stable + pending": the view is the log itself, or the log
\* with its first messages replaced by one summary of all of them, the rest
\* in order, nothing lost and nothing twice (scheduler.rs:118, 147).
NothingLost ==
  View = log \/ \E k \in 1 .. Len(Body(log)) : View = Summarized(log, k)

\* The last keep_recent_turns turns, and what came after them, are in view
\* word for word, at their place from the end (turn.rs:62).
RecentTurnsKept ==
  \A i \in DOMAIN log :
    Cardinality({j \in FinalIndices(log) : j >= i}) <= KeepRecent
      => /\ Len(log) - i < Len(View)
         /\ View[Len(View) - (Len(log) - i)] = log[i]

\* In the retained traces every trigger is followed by one finish before the
\* next trigger, and a fetch shows a trigger later than the last finish exactly
\* while a task runs, as far as the window reaches (fetch.rs:63-78).
CompressionTraces ==
  {i \in DOMAIN traces : traces[i] \in {"triggered", "succeeded", "failed"}}

TracesAlternate ==
  /\ \A i, j \in CompressionTraces :
       i < j /\ (\A k \in CompressionTraces : k <= i \/ k >= j)
         => (traces[i] = "triggered") # (traces[j] = "triggered")
  /\ CompressionTraces # {} =>
       (is_compressing <=> FetchContext.last_compression_triggered_at
                             > FetchContext.last_compression_finished_at)

\* A fetch reports one summary from the first compacted turn on, rolled forward
\* and never repeated, and none before; a client's own message that starts with
\* the prefix would be counted with it (fetch.rs:53-59, compressor.rs:148).
SummaryReported ==
  (\A i \in DOMAIN log : ~log[i].summary) =>
    FetchContext.summary_message_count = (IF compressed_turns > 0 THEN 1 ELSE 0)

\* "on failure or timeout: emit compression_failed": the step that ends a
\* compression leaves its outcome as the last trace (scheduler.rs:156).
FinishTraced ==
  [][is_compressing /\ ~is_compressing'
       => traces' # <<>> /\ traces'[Len(traces')] \in {"succeeded", "failed"}]_vars

\* The next compression is never further off than every_n_turns turns, however
\* many ended late, failed or were discarded, and one that is due, and possible,
\* at the end of a turn has been started: a session that reports no turn left
\* until the next compression is compressing, or has nothing to compress
\* (trigger.rs:11, scheduler.rs:152, fetch.rs:86); at the end of its counter it is
\* due again as soon as one has failed.
DueCompressionStarted ==
  /\ FetchContext.turns_until_compression <= EveryN
  /\ (/\ ~is_compressing /\ IsAtTurnBoundary(View)
      /\ turn_count < MaxU32 /\ FetchContext.turns_until_compression = 0)
       => ~HasPlan(stable, KeepRecent)

FromClient(role, id) ==
  [role |-> role, summary |-> FALSE, content |-> {Len(log) + 1},
   tool_calls |-> None, tool_call_id |-> id, named |-> role = "tool"]

\* A conversation is never stuck: whatever was accepted, compacted, or put at
\* its head, a question, an answer or the result of some call is accepted next,
\* as long as clients put tool fields only where their role has them; a user
\* message with tool_calls would end it for good (validator.rs:49, 65, 129).
CanGoOn ==
  \/ \E role \in {"user", "assistant"} : ValidateAppend(View, FromClient(role, None))
  \/ \E c \in CallIds : ValidateAppend(View, FromClient("tool", c))

\* The stable buffer never changes under an unchanged revision, and the
\* revision never goes back: stale results can be told (append.rs:60).
RevisionMoves ==
  [][/\ stable' # stable => stable_revision' > stable_revision
     /\ stable_revision' >= stable_revision]_vars

\* A compression ends, whatever its calls do, and appends go to the stable
\* buffer again (scheduler.rs:65-90).
CompressionEnds == is_compressing ~> ~is_compressing

\* The session keeps the promise of ContextLog: every step appends to both,
\* sets the prompt of both, compacts whole old turns of the view or is unseen.
Promise == INSTANCE ContextLog WITH view <- View

KeepsPromise == Promise!Spec
=============================================================================
