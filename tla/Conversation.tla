---------------------------- MODULE Conversation ----------------------------
(***************************************************************************)
(* Messages, and the pure functions of src/session and src/compression on  *)
(* sequences of messages: the append validator, the turn detector and the  *)
(* split of a conversation into the part a compression replaces and the    *)
(* parts it keeps.  No state: Session and ContextLog are built from these. *)
(***************************************************************************)
EXTENDS Integers, Sequences, FiniteSets

CONSTANTS
  CallIds,   \* The ids a tool call can carry.
  Prompts,   \* The system prompts; none starts with the summary prefix.
  None       \* Rust's None, and JSON's absent field.

ASSUME NoneAssumption == None \notin CallIds /\ None # <<>>

\* What a message can say: a prompt, or whatever the n-th message says.
Texts == Nat \cup Prompts

Roles == {"system", "user", "assistant", "tool"}

(***************************************************************************)
(* A message.  "summary" is TRUE when the text starts with the prefix      *)
(* [CONTEXT SUMMARY]; "content" is the set of texts the message conveys:   *)
(* one for a message a client sent, and for a summary every text the       *)
(* compression model was shown; "named" tells whether "name" is present.   *)
(***************************************************************************)
Message ==
  [role         : Roles,
   summary      : BOOLEAN,
   content      : SUBSET Texts,
   tool_calls   : Seq(CallIds) \cup {None},
   tool_call_id : CallIds \cup {None},
   named        : BOOLEAN]

SystemText(text) ==
  [role |-> "system", summary |-> FALSE, content |-> {text},
   tool_calls |-> None, tool_call_id |-> None, named |-> FALSE]

Calls(m) == IF m.tool_calls = None THEN <<>> ELSE m.tool_calls

HasToolCalls(m)     == Calls(m) # <<>>
IsAssistantFinal(m) == m.role = "assistant" /\ ~HasToolCalls(m)
IsContextSummary(m) == m.role = "system" /\ m.summary

-----------------------------------------------------------------------------
(* The append validator (src/session/validator.rs).                        *)

Classify(m) ==
  CASE m.role = "system"                        -> "System"
    [] m.role = "user"                          -> "User"
    [] m.role = "assistant" /\ HasToolCalls(m)  -> "AssistantToolCalls"
    [] m.role = "assistant" /\ ~HasToolCalls(m) -> "AssistantFinal"
    [] m.role = "tool"                          -> "Tool"

LastState(messages) ==
  IF messages = <<>> THEN "Start" ELSE Classify(messages[Len(messages)])

\* Fault: the results of parallel calls may not follow one another.
OneResultTransitions ==
  { <<"Start", "User">>, <<"Start", "System">>, <<"System", "User">>,
    <<"User", "AssistantToolCalls">>, <<"User", "AssistantFinal">>,
    <<"AssistantToolCalls", "Tool">>,
    <<"Tool", "AssistantToolCalls">>, <<"Tool", "AssistantFinal">>,
    <<"AssistantFinal", "User">> }

AllowedTransitions ==
  { <<"Start", "User">>, <<"Start", "System">>, <<"System", "User">>,
    <<"User", "AssistantToolCalls">>, <<"User", "AssistantFinal">>,
    <<"AssistantToolCalls", "Tool">>,
    <<"Tool", "Tool">>, <<"Tool", "AssistantToolCalls">>,
    <<"Tool", "AssistantFinal">>,
    <<"AssistantFinal", "User">> }

CallSet(m) == {Calls(m)[j] : j \in DOMAIN Calls(m)}

IssuedIds(messages) == UNION {CallSet(messages[i]) : i \in DOMAIN messages}

ResolvedIds(messages) == {messages[i].tool_call_id : i \in DOMAIN messages} \ {None}

ValidToolResult(messages, m) ==
  /\ m.tool_call_id # None
  /\ m.named
  /\ m.tool_call_id \in IssuedIds(messages) \ ResolvedIds(messages)

ValidAssistant(messages, m) ==
  /\ IssuedIds(messages) \subseteq ResolvedIds(messages)
  /\ m.tool_calls # <<>>
  /\ \A i, j \in DOMAIN Calls(m) : Calls(m)[i] = Calls(m)[j] => i = j
  /\ CallSet(m) \cap IssuedIds(messages) = {}

ValidToolFields(messages, m) ==
  /\ m.role = "tool"      => ValidToolResult(messages, m)
  /\ m.role = "assistant" => ValidAssistant(messages, m)

ValidateAppend(messages, m) ==
  /\ <<LastState(messages), Classify(m)>> \in AllowedTransitions
  /\ ValidToolFields(messages, m)

-----------------------------------------------------------------------------
(* The turn detector (src/session/turn.rs).                                *)

IssuedCount(messages, c) ==
  Cardinality(UNION {{i} \X {j \in DOMAIN Calls(messages[i]) : Calls(messages[i])[j] = c} :
                       i \in DOMAIN messages})

ResolvedCount(messages, c) ==
  Cardinality({i \in DOMAIN messages : messages[i].tool_call_id = c})

AllToolCallsResolved(messages) ==
  \A c \in CallIds : IssuedCount(messages, c) = ResolvedCount(messages, c)

IsAtTurnBoundary(messages) ==
  /\ messages # <<>>
  /\ IsAssistantFinal(messages[Len(messages)])
  /\ AllToolCallsResolved(messages)

FinalIndices(messages) == {i \in 1 .. Len(messages) : IsAssistantFinal(messages[i])}

CountCompletedTurns(messages) == Cardinality(FinalIndices(messages))

TurnsAfter(messages, i) == Cardinality({j \in FinalIndices(messages) : j > i})

\* Faults: every assistant message ends a turn; a turn less is kept.
SplitAtAnyAssistant(messages, keep) ==
  LET ends  == {i \in 1 .. Len(messages) : messages[i].role = "assistant"}
      at(i) == Cardinality({j \in ends : j > i}) = keep
  IN  IF keep = 0 THEN Len(messages)
      ELSE IF \E i \in ends : at(i) THEN CHOOSE i \in ends : at(i) ELSE 0

SplitKeepingOneLess(messages, keep) ==
  IF \E i \in FinalIndices(messages) : TurnsAfter(messages, i) = keep - 1
  THEN CHOOSE i \in FinalIndices(messages) : TurnsAfter(messages, i) = keep - 1
  ELSE 0

\* How many messages precede the last "keep" turns: all of them when none is
\* kept, none of them when there are no more than "keep" turns.
SplitIndex(messages, keep) ==
  IF keep = 0 THEN Len(messages)
  ELSE IF \E i \in FinalIndices(messages) : TurnsAfter(messages, i) = keep
       THEN CHOOSE i \in FinalIndices(messages) : TurnsAfter(messages, i) = keep
       ELSE 0

-----------------------------------------------------------------------------
(* The compression plan (src/compression/compressor.rs).  A conversation   *)
(* is head \o previous summary \o compressible \o tail, where the head and *)
(* the previous summary hold at most one message each.                     *)

HasHead(messages) ==
  messages # <<>> /\ messages[1].role = "system" /\ ~IsContextSummary(messages[1])

PreserveHead(messages) == IF HasHead(messages) THEN <<messages[1]>> ELSE <<>>

Body(messages) == IF HasHead(messages) THEN Tail(messages) ELSE messages

\* The conversation with "prompt" in the place of its head, or before it all.
WithPrompt(messages, prompt) == <<SystemText(prompt)>> \o Body(messages)

HasPreviousSummary(messages) ==
  Body(messages) # <<>> /\ IsContextSummary(Body(messages)[1])

PreviousSummary(messages) ==
  IF HasPreviousSummary(messages) THEN <<Body(messages)[1]>> ELSE <<>>

DeltaBody(messages) ==
  IF HasPreviousSummary(messages) THEN Tail(Body(messages)) ELSE Body(messages)

Compressible(messages, keep) ==
  SubSeq(DeltaBody(messages), 1, SplitIndex(DeltaBody(messages), keep))

PreserveTail(messages, keep) ==
  SubSeq(DeltaBody(messages), SplitIndex(DeltaBody(messages), keep) + 1, Len(DeltaBody(messages)))

\* Compressor::plan returns Some(..).
HasPlan(messages, keep) == Compressible(messages, keep) # <<>>

\* Fault: the summary of what was compressed before is not summarized again.
PromptWithoutSummary(messages, keep) == Compressible(messages, keep)

PromptMessages(messages, keep) == PreviousSummary(messages) \o Compressible(messages, keep)

\* Fault: the summary speaks as the user.
SummaryAsUser(messages) ==
  [role |-> "user", summary |-> TRUE,
   content |-> UNION {messages[i].content : i \in DOMAIN messages},
   tool_calls |-> None, tool_call_id |-> None, named |-> FALSE]

SummaryOf(messages) ==
  [role |-> "system", summary |-> TRUE,
   content |-> UNION {messages[i].content : i \in DOMAIN messages},
   tool_calls |-> None, tool_call_id |-> None, named |-> FALSE]

\* Fault: the previous summary stays beside the new one.
NewStableWithBoth(messages, keep) ==
  PreserveHead(messages) \o PreviousSummary(messages)
    \o <<SummaryOf(PromptMessages(messages, keep))>>
    \o PreserveTail(messages, keep)

NewStable(messages, keep) ==
  PreserveHead(messages)
    \o <<SummaryOf(PromptMessages(messages, keep))>>
    \o PreserveTail(messages, keep)

\* Fault: the retained turns are counted as compressed.
DeltaOfAllTurns(messages, keep) == CountCompletedTurns(DeltaBody(messages))

CompressedTurnsDelta(messages, keep) == CountCompletedTurns(Compressible(messages, keep))

\* The first k messages after the head replaced by their summary.
Summarized(messages, k) ==
  PreserveHead(messages)
    \o <<SummaryOf(SubSeq(Body(messages), 1, k))>>
    \o SubSeq(Body(messages), k + 1, Len(Body(messages)))

\* The counts of a CompressionEvaluation; its character counts are left out.
Evaluation(messages, keep) ==
  [prompt_input  |-> Len(PromptMessages(messages, keep)),
   region        |-> Len(Compressible(messages, keep)),
   stable_output |-> Len(NewStable(messages, keep)),
   retained      |-> Len(PreserveTail(messages, keep)),
   previous_summary_included |-> PreviousSummary(messages) # <<>>]
=============================================================================
