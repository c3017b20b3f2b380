# ctx-cache-compressor in TLA+

A verification development of the context cache of this repository: TLA+
modules translated from the Rust source, configurations that model-check them
with TLC, and theorems checked by the TLA+ proof system.  Paths below are
relative to the repository; `scheduler.rs:95` names a file of `src/` and a line.

## The system

A service keeps conversations ("sessions") for clients that talk to a language
model.  Clients append messages and fetch the whole context.  After every
`every_n_turns` turns the service summarizes the old turns with a model call
that runs in the background, while appends go on.

| component | state | operations | interacts with |
|---|---|---|---|
| messages, append validator, turn detector (`session/types.rs`, `validator.rs`, `turn.rs`) | none | `validate_append`, `is_at_turn_boundary`, `count_completed_turns`, `split_index_for_keep_recent_turns` | called by the append handler and the compressor |
| session (`session/types.rs`), append handler (`api/handlers/append.rs`), `compression/trigger.rs` | `stable`, `pending`, `stable_revision`, `is_compressing`, `turn_count`, `compressed_turns`, `next_compress_at`, evaluation, traces, `last_accessed` | append, under the session's write lock | finds the session in the store, starts a compression |
| compression scheduler (`compression/scheduler.rs`) | per task: the snapshot, attempts, outcome, last error | attempts with a timeout, then one of three merges under the write lock | compressor, session |
| compressor (`compression/compressor.rs`, `prompt.rs`) | none | `plan`, `compress_snapshot` | turn detector, LLM client |
| session store (`session/store.rs`) | a concurrent map, a lock-free slot counter | create, get, get or create, delete | every handler |
| TTL worker (`session/store.rs:156`) | a snapshot of the map, the list of the expired | look at every session, remove the expired | store, sessions |
| fetch and list (`handlers/fetch.rs`, `session.rs`) | none | read a session, touch it (fetch only) | store, session |
| demo handlers (`handlers/demo.rs`) | none | set the system prompt, a chat turn, a completion, a tool call: several locked steps with a model call between | store, append handler, chat client |
| runtime configuration of the demo (`runtime.rs`, `llm/runtime_client.rs`) | address, key and model of the demo's model, behind a lock | update field by field, copy | demo handlers, chat client |
| LLM client, routing, DTOs, errors, start-up configuration, pages, scripts | - | - | see "Not modelled" |

What is hard in it:

* **Concurrency.** A compression works for seconds on a copy of `stable`
  while appends arrive (they are diverted to `pending`), the system prompt is
  replaced (it is not diverted, it changes `stable`), and the session expires.
* **Failure and time.** A call fails, times out, is retried, or answers after
  the messages it summarized have changed.
* **Compaction.** The view loses its old messages; the validator, the turn
  detector, the counters and the next compaction all work on what is left.
* **Lock-free counting.** Slots are counted beside the map, not with it.
* **Look-ups repeated.** A demo request finds its session by id again and again;
  in between it may be deleted or expire, and an append creates it anew.
* **Sizes.** A summary is judged by its length against one rendering of the
  turns it replaces, and reported and shown by others.

What makes each part correct:

* session: no message is lost, repeated or reordered by a compaction; recent
  turns stay word for word; a tool result never stands without its call; a
  client cannot tell from what is accepted that a compaction happened; turns
  are counted once; one compression at a time, begun when due, ended always,
  and merged only over the messages it was given;
* store: no slot lost or invented, the limit never exceeded, nothing refused
  that needs no slot; a session in use is not removed;
* demo requests: an answer follows its own question and was written from what
  comes before it; a request reports what was stored, and ends; it puts no
  session where none was lost;
* compressor: a stored summary is shorter than what it replaced, and refusing
  summaries for their size does not let the turns pile up for good;
* runtime settings: no update is lost or mixed with another, what a call uses is
  one configuration and a current one, and everyone is answered.

`PROJECT.json` lists each hazard at its line with the properties that cover it.

## Modules

| module | what it is |
|---|---|
| `Conversation` | messages, and the pure functions on sequences of them: validator, turn detector, compression plan, summary.  No state. |
| `ContextLog` | the abstract specification: a log, and a view that is the log with whole old turns compacted. |
| `Session` | one session: appends, prompt changes, compression tasks.  Implements `ContextLog`. |
| `MCSession` | instances of `Session` for TLC. |
| `BoundedTable` | the abstract specification of the store: a table with a limit, slots granted or denied in one step. |
| `Store` | the map and its slot counter, one atomic operation per step.  Implements `BoundedTable`. |
| `MCStore` | instances of `Store` for TLC. |
| `Expiry` | handles, `last_accessed`, deletes and the TTL worker. |
| `MCExpiry` | instances of `Expiry` for TLC. |
| `DemoChat` | the three demo handlers, step by step around their model call, over the validator of `Conversation`. |
| `MCDemoChat` | the instance of `DemoChat` for TLC. |
| `SummarySize` | the sizes by which a summary is accepted, stored and reported, over the turns of one session. |
| `MCSummarySize` | the instance of `SummarySize` for TLC. |
| `RuntimeConfig` | the settings of the demo's model behind their lock, with the requests that change and copy them. |
| `MCRuntimeConfig` | the instance of `RuntimeConfig` for TLC. |
| `ConversationLemmas` | what the operators of `Conversation` return, and what a compaction, an append and a new prompt do to a conversation: pairing of calls and results, summaries of summaries, places of messages. |
| `SessionProofs`, `PromiseProofs` | theorems about `Session`; the second those about its view, the implementation of `ContextLog` among them. |
| `StoreProofs`, `ExpiryProofs`, `DemoChatProofs`, `SummarySizeProofs`, `RuntimeConfigProofs` | theorems about `Store`, `Expiry`, `DemoChat`, `SummarySize` and `RuntimeConfig`. |

Operators named as "Fault" are the code with a plausible bug put in.  They are
used by no specification; they are what each property has been shown to catch.

### Conversation

A message is a record of the role, whether its text starts with
`[CONTEXT SUMMARY]`, the tool calls (`None` and the empty list are told apart,
as the validator does), the `tool_call_id`, and whether a name is present.  The
text itself is a *set of texts conveyed*: one element for a client's message,
and for a summary the union over the messages the compression model was shown.
So a summary written from the wrong messages differs from the right one, and
nothing is said about how well a model summarizes.

### Session and ContextLog

Every handler takes the session's write lock once and holds it to its end
without awaiting, so an append, a prompt change, and the merge of a
compression are one step each.  `AppendMessage` is the whole of
`append_message_to_session`: validation, the buffer, the revision, the turn
counter, the trigger, the plan, the flag, the traces and the spawned task.

A task is a record in `tasks` with the snapshot it was given.  Each attempt is
a step: `AttemptSucceeds`, or `AttemptFails` for an error, a refused summary
and a timeout, which the code treats alike.  When attempts are over one of
`MergeStale`, `MergeFresh` and `MergeFailed` ends it.  The set `tasks` may
hold several: that it never does is a property, not the shape of the model.

`log` is a history variable: every accepted message, never compacted.  The
abstract `ContextLog` has only `log` and the view; its `Compact(k)` replaces
the first k messages after the head by their summary, when they are whole turns
and at least `KeepRecent` turns stay.  `KeepsPromise` says that each step of
`Session`, whatever buffers, revisions and tasks do, is a step of `ContextLog`
or invisible in it, with `view <- stable \o pending`.

`FetchContext` is what `GET /sessions/{id}/context` derives from the session: the
turns until the next compression, the count of summaries, and the last trigger and
the last finish it reads off the trace window.

### SummarySize

A turn is two sizes, what a client sees and what the compression prompt shows;
an answer is a length.  `CompleteTurn` is the append that ends a turn and starts
a compression that is due; `Compact` and `Refuse` are the ends of the
compression by `validate_summary_quality`, with the counts of the evaluation.
`MinRendered` is the JSON of the shortest turn, and `PreservedHead` the system
message no compaction takes, which counts only in what is reported.  Sizes are apart from `Session`
because there a text is the set of messages it conveys, which has no length.

### RuntimeConfig

The lock is tokio's `RwLock`, which is external: a queue served in its order,
many readers or one writer.  `Update` is a PATCH that waits for the lock; it then
sets one field per step (`SetField`), gives the lock back (`Release`) and waits
for it again to read the settings for its answer (demo.rs:60).  `ReadOnly` is a
GET, or a call of the chat model.  One request updates or reads once.  `Drop` is a
request dropped with its connection, or a call of the model by its time limit, while
it waits: it leaves the queue, or gives back the lock it was just given.  Past
that there is no await until the lock is released, so an update is made as a whole
or not at all.

Compressions never see these settings: the service gives the scheduler a client
made from the start-up configuration (service.rs:45-48), so `RuntimeLlmClient`'s
own `CompressionLlm` has no caller there.

### Store and BoundedTable

The map's operations are atomic (one shard lock each); the counter is read,
then compared and swapped.  A worker is a thread inside a store operation.
`create_session` may draw an id in use (in reality with negligible chance) and
then releases its slot and tries again.  In `Insert` the code releases the slot
of an occupied entry under the shard's lock; the model releases it afterwards,
which allows more interleavings than the code has.  What a thread has read lives
as long as the loop it is in, as the code's local variable does.

`BoundedTable` has neither counter nor loops: a worker asks, is granted a slot
exactly when one is free, or is denied one exactly when none is, and returns
later.  `ActsAtomically` says that `Store` implements it, where a worker that has
read a full counter is denied from that step on.  So a thread that is told
`TooManySessions` asked, at some moment, while sessions and slots in hand were at the
limit; finding 2 is about what such a denial is good for.

### Expiry

A session is a number, as an `Arc` is an address; `table` maps ids to sessions.
A handler looks a session up (`LookUp`, or `Miss` and `Insert` for an append to
an unknown id), waits for its lock, and touches it in `Access`; in between the
table may lose the session.  `GiveUp` is a refused slot, or a request dropped
with its connection at the one await of the handler.  An `Access` may raise
`is_compressing`, as an append may; which one does is `Session`'s matter.

The worker reads the clock in `Wake`, copies the table entry by entry (the map
is not locked as a whole), looks at each copied session under its read lock and
removes the expired by id.  Time is kept as ages: `idle` of each session and
`age` of the worker's clock reading, so `idle - age` is the idle time the code
computes, and time itself is unbounded.  `last_accessed` is taken to be
monotonic, sub-second truncation is left out, and a TTL of 0 is excluded: with it
every scan removes everything that is not compressing.

### DemoChat

A request is at a step of its handler; `Path` is the order of the steps of each
endpoint, and each step is one critical section of the session, or the model's
call, or the return.  `AppendUser` and `AppendAssistant` are
`append_message_to_session` as far as the conversation goes; what it does to
buffers, turns and compressions is `Session`.  The model answers with a text,
with tool calls or both, with an error, or not at all; `ReplyCalls` has the lists of
calls it may make, which the client takes as they are, an id used twice included; `/demo/chat` and
`/demo/complete` take an answer without text for an error *after* the call, and
trace nothing (demo.rs:188), and so does a refused append of `/demo/tool-call`
(demo.rs:450).  `Drop` is the handler dropped with its connection at an await.
Other clients append the messages of `Requests`.

`shown` is the copy of the conversation the model is given, without the messages
that have neither text nor calls, as in the code; most of what can go wrong is that it
is a copy, or that it is filtered.  Four variables are history: `question`, where
in the body (the conversation without its head, which a prompt change does not
move) a request's user message is; `answered`, whether its answer was stored;
`removals`, and how many of them a request has not seen (`arrived`).

All requests name one session, by its id, and look it up again at each step.
`RemoveSession` is a delete or an expiry between two steps.  What follows then
depends on the step: a read or a prompt change answers 404 (`SessionGone`), a
trace event is left out, and an append creates the session anew (`Store` of
`DemoChat`), empty but for its message, unless its slot has been taken
(`SlotRefused`).  The look-up and the locked access are one step, because what is
done to a session after the table lost it is unseen, as if done just before.

The checks of the payload are left out, and so is a request that names no
session: it begins with `create_session`, which is in `Store`, and no other
request knows of that session.

## Runs

| run | instance | what it shows |
|---|---|---|
| `tools` | two call ids, all shapes of tool messages, one prompt, `keep_recent_turns` 1, one retry, logs of up to 11 messages, revisions of up to 14 | the main safety properties, that each compression traces how it ended, that a conversation can always go on, and the implementation of `ContextLog`.  Eleven messages make four plain turns or two tool turns and more: two compactions, the second over a summary, with a prompt change or appends in between. |
| `prompts` | two prompts, clients' own system messages (one with the summary prefix), user messages with stray tool fields (one call id), `keep_recent_turns` 0, `every_n_turns` 0 (taken as 1), one retry, a trace window of 4, logs of up to 8, prompts changed up to revision 5 (also while the second compression runs) | prompt changes against running compressions: stale results, revisions; the sliding window of traces, and what a fetch reads off it; every compression ends.  With the stray fields, turns may stay uncounted and calls open, and still whole turns are compacted and the validator does not see it. |
| `wrap` | `max_retries` = `u32::MAX` (scaled to 3) | a compression that ends with no attempt and no trace (finding 1). |
| `slots` | three threads, two ids, two slots | the slot counter, that it acts as one atomic decision, and that no thread stays in a compare-exchange loop unless others go on succeeding. |
| `refused` | one slot, `get_or_create_with_id` only | an append refused though its session exists (finding 2). |
| `expiry` | two ids, two handlers, a TTL of two seconds, two sessions ever created, scans of up to one second | what was in use when the worker woke is kept; no first append displaces another's session; a session nobody uses expires.  Two sessions and two ids let an id be removed and used again during a scan, and a second in the scan lets a session pass the TTL during it. |
| `expiry_race` | as `expiry` with one handler | a session accessed between the look and the removal is removed (finding 3). |
| `demo` | one chat, one tool call, one completion, two call ids, answers with one call, two calls or one id twice, one prompt, results from another client, one with and one without text, three arrivals and removals together | turns stay apart while no completion runs and the session stays, requests report what was stored, a session is put only where one was lost, each request ends.  Two questions compete for the session, two answers for one question, and a removal falls between any two steps of two requests. |
| `demo_stale` | as `demo`, one call id, one call per answer, results with text | an answer written without a tool result is stored after it (finding 4). |
| `demo_blank` | as `demo_stale`, results without text | an answered call refused as pending (finding 5). |
| `sizes` | turns of 61 and 103 characters, answers at and about the limits, `every_n_turns` 2, `keep_recent_turns` 1, twelve turns | a stored summary is shorter than what it replaced; the backlog is bounded, and the bound is reached. |
| `config` | three requests, two values of each field, updates with absent and blank fields | racing updates and copies, any of them dropped while it waits: nothing lost, nothing mixed, nothing stale, everyone else answered.  Each request comes once: one that comes again is another request. |

Bounds: `MaxLog` bounds the log that is appended to and `MaxRevision` the
revision at which a prompt is changed; both stand in guards of client actions
only, so a compression is never cut off by them.  In `Expiry`, `MaxSessions` bounds
the sessions ever created and `MaxScan` the time a scan takes.  In `DemoChat`
`MaxMessages` stops other clients only, and `MaxEvents` bounds the requests that
arrive and the removals, together; what has arrived always goes on to its end.  In
`SummarySize`, `MaxTurns` bounds the session and `MaxWaiting` the turns that are
completed while one compression runs; the property names the second.
`CHECK_DEADLOCK` is on but for the demo runs and `config`, where every request
may have been answered, and `sizes`, where the last turn may have been.
Symmetry is used nowhere.  The defects the faults put in are each found within these
bounds, as is every kind of end of a task.

Fairness: `Session` assumes weak fairness of the tasks' steps together.  The
code justifies it: tokio runs a spawned task that is ready, each call is under
`tokio::time::timeout` so an attempt ends (scheduler.rs:68), and tokio's lock
is granted in the order asked for, so the final `write().await` is reached; no
holder awaits while holding it.  Nothing is assumed of clients.  `Store` assumes
that the system runs each thread that is inside an operation (`Advance`), not
that one begins: `LockFree` says that the loops around `compare_exchange` cannot
all go round for ever, which holds because a failed exchange means another's
success.  `Expiry` assumes that time passes, that the
worker's interval fires, that it takes its steps (every lock it waits for is
released without an await) and that each compression ends, which is what
`CompressionEnds` shows of `Session`.  `DemoChat` assumes weak fairness of what
the runtime does for each request: it polls the handler, grants it the lock and
fires its timer (demo.rs:160); the answers and errors of the model are not among
it, nor are arrivals, removals and other clients' appends.  `RuntimeConfig`
assumes weak fairness of the steps of each request that came, which tokio polls when
it has the lock; the lock's queue does the rest, and no request is assumed to be
dropped, or not to be.

## Findings

1. `scheduler.rs:60` computes `max_retries + 1` in `u32`; a release build wraps
   to 0 for 4294967295, no call is ever made, and the compression ends with
   neither `compression_succeeded` nor `compression_failed`, against
   docs/api-observability-map.md:447-451.  (A debug build panics in the task and
   leaves `is_compressing` up.)
2. `store.rs:81` reserves a slot for an id that another request may have
   inserted since the look-up: at the limit the append is refused with
   `TooManySessions` although it needs no new session (config.example.toml:9).

3. `store.rs:186` removes the sessions found expired some awaits earlier
   without looking again: one that was accessed, or began to compress, in between
   goes, with the messages just accepted (against tests/integration.rs:1072 and
   config.example.toml:11).  `InUseKept` shows what does hold: a session in use
   when the scan began is safe.

4. `demo.rs:257` copies the conversation for the model and holds no lock over the
   call: an answer is appended to what the conversation has become.  A completion
   asked for before the tool result is there is stored after it, though README.md:154
   says that `/demo/complete` continues after the result.  In the same way, of two answers
   to one question the later may become the answer to the next question, which is why
   `AnswersOwnQuestion` ends where a completion arrives.
5. `demo.rs:392` looks for unanswered tool calls in the chat view, which leaves
   messages without text out.  A tool result with an empty content is
   accepted and resolves its call for the validator, but every `/demo/tool-call` is
   refused as long as it is in the session, and a second result cannot be appended.

Seen on the way, without a run:

* docs/api-observability-map.md:635 says that a fetch does not refresh
  `last_accessed`; fetch.rs:36 does, and a test says it should
  (tests/integration.rs:1077).
* A session removed while a demo request runs is created anew by the request's
  next append, without the question (demo.rs:141), although
  docs/api-observability-map.md:623 tells `/demo/chat` apart from an append by its
  404 for an unknown session.
* An answer without text, and a refused append of `/demo/tool-call`, end a request
  whose start was traced with no event for its end (demo.rs:188, 450), though
  docs/api-observability-map.md:353 names two.
* `summary_message_count` counts any message that begins with the summary
  prefix, whatever its role (fetch.rs:53-59).
* A user message with `tool_calls` is accepted (validator.rs:129) and ends the
  conversation: only an assistant message may follow it, and none does before the
  call has its result.  A `tool_call_id` on a user or system message counts as a
  result of no call (turn.rs:62): no turn ends after it, and the session is not
  compressed any more.
* `PATCH /demo/config` changes the demo's calls, not the compressions.
* A compaction may lengthen what a client sees: the region is measured by its
  rendering in the prompt.

## Theorems

All are for arbitrary values of the constants, from the assumptions
`NoneAssumption` (`None` is no call id and no list), `ConfigAssumption` (the numbers
of the configuration fit a u32, requests are messages), `StoreAssumption`
(finitely many ids and threads), `ExpiryAssumption` (a TTL of at least one second),
`DemoAssumption` (a request has one endpoint), `SizeAssumption` (turns render to
`MinRendered` characters or more, answers are not empty and have a longest, a
period of at least one turn) and `SettingsAssumption` (an absent and a
blank field are no settings).  Two hypotheses beyond them stand in the theorems that
need them: `FieldsInPlace` and `AttemptsAreMade`, below.

* `TypesHold`: by induction; the work is that the compression plan yields
  conversations again, which the lemmas of `ConversationLemmas` establish from
  the range of `SplitIndex`.
* `SingleFlightHolds`, `SnapshotFreshHolds`, `SnapshotCompressibleHolds`,
  `RevisionMovesHolds`: from one inductive invariant, `FlightInv`, their
  conjunction with the types.  None is inductive alone: that a merge finds the
  messages it was given needs that appends were diverted while it ran, which
  needs the flag to be up whenever a task exists, which needs that there is only
  one task to lower it.
* `KeepsPromiseHolds`, `ToolCallsPairedHolds`: under the hypothesis `FieldsInPlace`,
  that clients put tool fields only where the role has them, which the validator
  does not ask (validator.rs:129).  A merge is `Compact(k)` of `ContextLog` with k the
  previous summary, if there is one, and the split index; that the k messages have no
  call open is not what the code looks at when it merges, and follows from
  `PromiseInv`: in the view each call id is issued once, resolved once and later, and
  everything issued before a final answer is resolved before it (`Paired`).
  That pairing outlives compactions is where the cut must fall between turns.  The
  operators of `ContextLog`, which are instances of the same text over another state,
  are first shown equal to those of `Session`.
* `NothingLostHolds`, `RecentTurnsKeptHolds`: for any clients, from `LogInv`: the view
  is the log, or the log compacted at a final answer that at least
  `KeepRecent` turns follow.  The step is that a summary of a summary and the
  turns after it is the summary of all of them (`SummarizedTwice`), and
  `RecentTurnsKept` then counts: a message with at most `KeepRecent` turns from it on
  cannot be among those compacted.
* `SummaryReportedHolds`: for any clients, from `LogInv` too, in which the view is
  the compacted log exactly when turns have been counted as compressed.  A merge
  counts at least one (`PlanCountsTurns`), and the messages a compacted view is made of
  are one summary and messages of the log (`OneSummary`).
* `TracesAlternateHolds`, `FinishTracedHolds`: under `AttemptsAreMade`, that `max_retries`
  is not the greatest u32.  That is exactly the configuration of finding 1, and the run
  `wrap` refutes `FinishTraced` in it.  From `TracesInv`, which adds to the
  window of traces that the last compression event in it is a trigger exactly while a
  task runs: what is pushed then takes its turn (`TurnTaken`), and what the window
  drops at its front leaves a suffix of what was there (`WindowIsSuffix`).  That a
  failure has an attempt to report is `SomeAttempt`.
* `CompressionTransparentHolds`, under `FieldsInPlace`: `SettledInv` says of the log,
  below its head, what pairing says of the view, but for the single use of ids, which
  a log may break after a compaction and the property excludes.  So what was
  compacted had its calls settled, and the validator, which looks at the ids issued,
  those resolved and the last message, finds the same open calls
  (`IdsAfterCompaction`, `LastAfterCompaction`).
* `DueCompressionStartedHolds`, under `FieldsInPlace`: each end of a compression counts
  from the turns there are, which only grow (`StepNear`); the end of a turn triggers; a
  merge puts the next compression off, if the counter is below its limit; another prompt changes neither the plan nor
  whether a turn has ended, which needs a head without tool fields.
* `TurnAccountingHolds`, under `FieldsInPlace` and `MaxLog <= MaxU32`: turns add up over
  concatenation (`TurnsAddUp`), neither a head nor a summary is one (`TurnsOfPlan`), every
  final answer ends one by pairing, and the counter, never beyond the log, does not
  saturate.
* `CanGoOnHolds`, under `FieldsInPlace`: calls are open only after a message with calls
  or after a result (`OpenAfterCalls`), across every compaction.
* `StoreTypesHold`, `SlotAccountingHolds`, `CapacityHolds`, `NoSlotLeaks`: from `SlotInv`, the
  accounting equation with the types, where a worker holding an uninserted or
  unreleased slot counts as one.  `NoSlotLeaks` is why the counter is never found
  at zero by a release, so the `while current > 0` never ends without releasing.
* `ActsAtomicallyHolds`, the implementation of `BoundedTable`: by the accounting the
  counter is what the abstract table counts (`UsedIsCounted`), so a won exchange is a
  `Grant`, and the load or the lost exchange that reads a full counter a `Deny`; the other
  steps of the loops are unseen.
* `ExpiryTypesHold`, `InUseKeptHolds`, `NoSessionLostHolds`: `InUseKept` is about
  ids and the table, so the inductive `ScanInv` adds that a copied entry is
  still current or its id stands for a session created since (`CopiesUnwatched`),
  and that a session in use at the wake-up either is compressing or has been
  idle for less than the TTL by the worker's clock (`WatchedInUse`): the end of a
  compression touches the session, so neither is lost while the scan goes on.
* `AnswersOwnQuestionHolds`: an action property, about steps before the first
  removal and the first completion.  From `TurnsInv`.  A request that has stored its
  question and not its answer is *waiting*; the invariant says that the body then
  ends in its question and that no other request waits.  A second question, or a
  tool result, finds a conversation that ends in a question, and the validator
  refuses it (`QuestionBlocks`); another system prompt leaves the body alone
  (`BodyOfPrompt`).  So the waiting request's answer is the next message.
* `ReportsTrueHolds`: from `ReportsInv`, which ties what a request has traced,
  returned and stored to the step it is at.
* `DemoTypesHold`: the conversation and the steps from `ReportsInv`; that what is shown to
  the model is a conversation again from the recursion of the chat view
  (`ChatViewIsConversation`), and that it is not empty from the check before the call.
* `RecreatesOnlyRemovedHolds`: a request goes past its arrival only in a session, so
  if there is none at one of its appends a removal has happened since.
* `ConfigTypesHold`, `NoUpdateLostHolds`, `CopyWholeAndCurrentHolds`: from `ConfigInv`.
  Its lock discipline says who holds the lock by where each request is, so
  that there is at most one writer and no reader beside it; its `WriteInProgress` says
  that the settings are then the last version with the writer's update made up to
  its present field.

* `SizeTypesHold`, `SummaryShorterHolds`: a region is at least one turn, so it renders to at
  least 96 characters (`RenderedBound`), and the quarter that an accepted summary saves
  is more than the prefix (`AcceptedWithPrefix`).
* `BacklogBoundedHolds`, from `BacklogInv`: while no compression runs, the turns are at most
  those the last one left and those counted since, and a compression that is due
  is not put off; while one runs, what it was given is bounded, and so is what
  arrives.  A refused region is shorter than `Enough` turns
  (`RefusedIsShort`), because what is accepted of an answer is accepted of a longer
  region (`AcceptedMonotone`).

Rendering and the chat view are folds of the community modules, that is recursive
functions on sets of places.  The induction theorems of the library take an operator, which
the installed provers do not instantiate, so induction is done by the least
counterexample: the numbers are well founded (`LeastElement`), and of the sizes at
which a claim fails there is a least.  The same argument gives that the recursive
function exists (`AccumulationExists`, `SelectionExists`), without which nothing
follows from its equation.

Only model-checked: liveness (`CompressionEnds`, `LockFree`, `AbandonedExpires`,
`DemoEnds`, `RequestsEnd`), because the prover does not treat fairness, and the
disagreements under "Findings", which are counterexamples.  Every invariant and every action
property that a passing run checks is a theorem.

## Plan

Done: `Conversation`, `Session`, `ContextLog`, `Store`, `BoundedTable`, `Expiry`, `DemoChat` with
sessions that go, `SummarySize`, `RuntimeConfig`, their runs, and the proofs above.

Left, in this order:

1. `Session` with stray tool fields on system messages.  A `tool_call_id` at the head
   is outside `KeepsPromise`: what follows the head is whole turns, and the view with
   its head is not.  User messages with stray fields are in `prompts`.
2. An abstract specification of the table (an id is open from its first append
   to its deletion or expiry) that `Expiry` implements, and the join of `Store`
   and `Expiry` in the slots a scan gives back.
3. Proofs: what of `KeepsPromise`, `ToolCallsPaired` and the others that suppose
   `FieldsInPlace` holds for clients with stray tool fields on user messages, as
   the run `prompts` has them.

## Not modelled

* u64 overflow of `stable_revision`: a natural number in the model.
* A prompt that itself starts with the summary prefix set by the demo handlers.
* Wording of prompts, traces and errors, and the language detection of the
  prompts: text building without state.  Character counts are in `SummarySize`;
  in `Session` a refusal for size is one of the reasons of `AttemptFails`.  Token
  estimates, and whether a summary is a good one, are left out.
* `reasoning_content`, call names and arguments, the parts of a content: no rule
  of the code depends on them, but the character counts do.
* Fetching and a prompt that is already set change only `last_accessed`, which
  `Session` leaves out and `Expiry` has; the session list only reads.
* The key preview of `/demo/config`, and the checks of payloads.
* The LLM client's HTTP: its outcomes are choices.  Routing, DTOs, health and error
  mapping have no state; the configuration is read once at the start and gives
  the constants; static pages and scripts are clients.
