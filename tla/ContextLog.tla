----------------------------- MODULE ContextLog -----------------------------
(***************************************************************************)
(* What a session promises its clients, without buffers, revisions, turn   *)
(* counters or background tasks: the view a client fetches is the log of   *)
(* everything it appended, in order, except that whole old turns may at    *)
(* any moment be replaced, in one step, by one summary of them.            *)
(***************************************************************************)
EXTENDS Conversation

CONSTANTS
  KeepRecent,  \* compression.keep_recent_turns
  Requests,    \* The messages a client sends, their texts left open.
  MaxLog       \* Bound on the length of a log to which a client appends.

VARIABLES
  log,   \* Every message of the session, never compressed.
  view   \* What GET /sessions/{id}/context returns.

vars == <<log, view>>

\* The request as the message that comes after "messages".
Arrived(messages, r) == [r EXCEPT !.content = {Len(messages) + 1}]

Init ==
  /\ log \in {<<>>} \cup {<<SystemText(p)>> : p \in Prompts}
  /\ view = log

\* An append is accepted, and seen, when it is valid after what is seen.
Accept(r) ==
  /\ Len(log) < MaxLog
  /\ ValidateAppend(view, Arrived(log, r))
  /\ log'  = Append(log, Arrived(log, r))
  /\ view' = Append(view, Arrived(log, r))

SetPrompt(p) ==
  /\ log'  = WithPrompt(log, p)
  /\ view' = WithPrompt(view, p)

\* Whole turns are summarized, with the tool calls and results they are made
\* of, and at least KeepRecent turns stay as they were said.
Compact(k) ==
  /\ IsAssistantFinal(Body(view)[k])
  /\ AllToolCallsResolved(SubSeq(Body(view), 1, k))
  /\ TurnsAfter(Body(view), k) >= KeepRecent
  /\ view' = Summarized(view, k)
  /\ UNCHANGED log

Next ==
  \/ \E r \in Requests : Accept(r)
  \/ \E p \in Prompts : SetPrompt(p)
  \/ \E k \in 1 .. Len(Body(view)) : Compact(k)

Spec == Init /\ [][Next]_vars
=============================================================================
