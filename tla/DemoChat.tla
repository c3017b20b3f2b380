------------------------------ MODULE DemoChat ------------------------------
(***************************************************************************)
(* The demo handlers: /demo/chat, /demo/tool-call and /demo/complete, each *)
(* a sequence of steps that lock one session again and again, with a call  *)
(* of the chat model in between that may answer, fail or never end.  Other *)
(* clients append to the same session between any two steps, and a request *)
(* may be dropped with its connection at any of its awaits.                *)
(*                                                                         *)
(* All of them name the session by its id and look it up anew at each      *)
(* step: the session may be deleted, or expire, between two steps, and an  *)
(* append puts an empty one in its place.  The look-up and the locked      *)
(* access that follows are one step here: what is done to a session after  *)
(* the table lost it is unseen, as if done just before.                    *)
(*                                                                         *)
(* "messages" are Session's View; Session tells why a compaction does not  *)
(* change what is appended, Expiry why and when a session goes.            *)
(***************************************************************************)
EXTENDS Conversation, SequencesExt

CONSTANTS
  Chats,       \* The requests of POST /demo/chat.
  ToolChats,   \* The requests of POST /demo/tool-call.
  Completes,   \* The requests of POST /demo/complete.
  ReplyCalls,  \* The lists of tool calls the model may answer with.
  Requests,    \* The messages other clients append.
  MaxMessages, \* Bound on the conversation to which other clients append.
  MaxEvents    \* Bound on the requests that arrive and the removals, together.

ASSUME DemoAssumption ==
  /\ Chats \cap ToolChats = {}
  /\ Completes \cap (Chats \cup ToolChats) = {}
  /\ \A calls \in ReplyCalls : calls \in Seq(CallIds) /\ calls # <<>>
  /\ Requests \subseteq Message
  /\ MaxMessages \in Nat
  /\ MaxEvents \in Nat
  /\ None \notin Nat

Demos == Chats \cup ToolChats \cup Completes

VARIABLES
  open,       \* Whether the table has a session under the id.
  messages,   \* Its conversation; none if there is no session.
  at,         \* The next step of each request.
  shown,      \* The messages each request shows to the model.
  reply,      \* The assistant message the model gave each request.
  traced,     \* The demo trace events of each request.
  result,     \* What each request has come to.
  removals,   \* History: how many sessions of that id were removed.
  arrived,    \* History: how many of them before each request arrived.
  question,   \* History: where its user message is, until it is answered.
  answered    \* History: whether its assistant message was stored.

session == <<open, messages, removals>>
work    == <<shown, reply, arrived, question>>
vars    == <<session, at, work, traced, result, answered>>

\* What follows each step of a handler that goes well: the steps take the
\* session's lock, but for "call", which awaits the model.
Path(r) ==
  CASE r \in Chats ->
         [idle |-> "prompt", prompt |-> "ask", ask |-> "start", start |-> "read",
          read |-> "call", call |-> "append", append |-> "complete", complete |-> "fetch"]
    [] r \in ToolChats ->
         [idle |-> "prompt", prompt |-> "start", start |-> "pending", pending |-> "ask",
          ask |-> "read", read |-> "call", call |-> "append", append |-> "complete",
          complete |-> "fetch"]
    [] r \in Completes ->
         [idle |-> "start", start |-> "read", read |-> "call", call |-> "append",
          append |-> "complete", complete |-> "fetch"]

Init ==
  /\ open \in BOOLEAN
  /\ messages \in {<<>>} \cup {<<SystemText(p)>> : p \in Prompts}
  /\ ~open => messages = <<>>
  /\ removals = 0
  /\ at = [r \in Demos |-> "idle"]
  /\ shown = [r \in Demos |-> <<>>]
  /\ reply = [r \in Demos |-> None]
  /\ traced = [r \in Demos |-> {}]
  /\ result = [r \in Demos |-> "none"]
  /\ arrived = [r \in Demos |-> 0]
  /\ question = [r \in Demos |-> None]
  /\ answered = [r \in Demos |-> FALSE]

-----------------------------------------------------------------------------
(* Helpers.                                                                *)

GoTo(r, step) == at' = [at EXCEPT ![r] = step]

GoOn(r) == GoTo(r, Path(r)[at[r]])

\* What was shown and what came back have served.
Forget(r) ==
  /\ shown' = [shown EXCEPT ![r] = <<>>]
  /\ reply' = [reply EXCEPT ![r] = None]
  /\ arrived' = [arrived EXCEPT ![r] = 0]
  /\ question' = [question EXCEPT ![r] = None]

Return(r, outcome) ==
  /\ GoTo(r, "ended")
  /\ result' = [result EXCEPT ![r] = outcome]
  /\ Forget(r)

\* The handler traces demo_chat_failed, then returns the error.
FailWith(r, error) ==
  /\ GoTo(r, "fail")
  /\ result' = [result EXCEPT ![r] = error]
  /\ Forget(r)

\* push_trace; without a session the event is left out and nothing said.
PushTrace(r, kind) ==
  traced' = IF open THEN [traced EXCEPT ![r] = @ \cup {kind}] ELSE traced

\* append_message_to_session once its message is valid: get_or_create, and push.
Store(m) ==
  /\ open' = TRUE
  /\ messages' = Append(messages, m)
  /\ UNCHANGED removals

\* Where the next message goes in the conversation that follows the prompt.
NextPosition == Len(Body(messages)) + 1

\* A text that is not blank; which text it is tells nothing apart.
Said == {0}

FromDemo(role, content, calls) ==
  [role |-> role, summary |-> FALSE, content |-> content,
   tool_calls |-> calls, tool_call_id |-> None, named |-> FALSE]

UserMessage == FromDemo("user", Said, None)

HasText(m) == m.content # {}

\* What the model is shown: a message with neither a text nor a call is left out.
ChatView(all) ==
  FoldLeft(LAMBDA view, m : IF HasText(m) \/ HasToolCalls(m) THEN Append(view, m) ELSE view,
           <<>>, all)

PendingToolCallIds(all) ==
  UNION {CallSet(all[i]) : i \in {j \in DOMAIN all : all[j].role = "assistant"}}
    \ {all[i].tool_call_id : i \in {j \in DOMAIN all : all[j].role = "tool"}}

-----------------------------------------------------------------------------
(* The steps of a request.                                                 *)

Events == Cardinality({r \in Demos : at[r] # "idle"}) + removals

\* Fault: whether there is a session is left to the append.
ArriveUnchecked(r) ==
  /\ at[r] = "idle"
  /\ Events < MaxEvents
  /\ arrived' = [arrived EXCEPT ![r] = removals]
  /\ GoOn(r)
  /\ UNCHANGED <<session, shown, reply, question, traced, result, answered>>

\* A request for a session that is not there is refused.
Arrive(r) ==
  /\ at[r] = "idle"
  /\ Events < MaxEvents
  /\ IF open
     THEN /\ arrived' = [arrived EXCEPT ![r] = removals]
          /\ GoOn(r)
          /\ UNCHANGED <<shown, reply, question, result>>
     ELSE Return(r, "NotFound")
  /\ UNCHANGED <<session, traced, answered>>

\* It is gone when a later step looks it up; a request without a system
\* prompt does not look at this point.
SessionGone(r) ==
  /\ at[r] \in {"prompt", "pending", "read", "fetch"}
  /\ ~open
  /\ Return(r, "NotFound")
  /\ UNCHANGED <<session, traced, answered>>

\* The system prompt of the request, if it has one, takes the head's place.
SyncSystemPrompt(r) ==
  /\ at[r] = "prompt"
  /\ \/ UNCHANGED messages
     \/ open /\ \E p \in Prompts : messages' = WithPrompt(messages, p)
  /\ GoOn(r)
  /\ UNCHANGED <<open, removals, work, traced, result, answered>>

\* Fault: the handler writes to the session past the validator.
AppendUserUnchecked(r) ==
  /\ at[r] = "ask"
  /\ Store(UserMessage)
  /\ question' = [question EXCEPT ![r] = NextPosition]
  /\ GoOn(r)
  /\ UNCHANGED <<shown, reply, arrived, traced, result, answered>>

\* The user message is stored before the model is called.
AppendUser(r) ==
  /\ at[r] = "ask"
  /\ ValidateAppend(messages, UserMessage)
  /\ Store(UserMessage)
  /\ question' = [question EXCEPT ![r] = NextPosition]
  /\ GoOn(r)
  /\ UNCHANGED <<shown, reply, arrived, traced, result, answered>>

UserRefused(r) ==
  /\ at[r] = "ask"
  /\ ~ValidateAppend(messages, UserMessage)
  /\ Return(r, "BadRequest")
  /\ UNCHANGED <<session, traced, answered>>

TraceStarted(r) ==
  /\ at[r] = "start"
  /\ PushTrace(r, "started")
  /\ GoOn(r)
  /\ UNCHANGED <<session, work, result, answered>>

\* /demo/tool-call reads the conversation once to look for unanswered calls.
CheckPending(r) ==
  /\ at[r] = "pending" /\ open
  /\ IF PendingToolCallIds(ChatView(messages)) # {}
     THEN Return(r, "Conflict")
     ELSE GoOn(r) /\ UNCHANGED <<work, result>>
  /\ UNCHANGED <<session, traced, answered>>

\* Fault: the model is called whatever there is to show it.
ReadAnyMessages(r) ==
  /\ at[r] = "read" /\ open
  /\ shown' = [shown EXCEPT ![r] = ChatView(messages)]
  /\ GoOn(r)
  /\ UNCHANGED <<session, reply, arrived, question, traced, result, answered>>

\* demo_chat_messages: the copy the model is called with.
ReadMessages(r) ==
  /\ at[r] = "read" /\ open
  /\ IF ChatView(messages) = <<>>
     THEN Return(r, "Conflict")
     ELSE /\ shown' = [shown EXCEPT ![r] = ChatView(messages)]
          /\ GoOn(r)
          /\ UNCHANGED <<reply, arrived, question, result>>
  /\ UNCHANGED <<session, traced, answered>>

\* The model's messages the client accepts: a text, tool calls, or both; that
\* no id is used twice is left to the validator.
Replies ==
  {FromDemo("assistant", Said, None)}
    \cup {FromDemo("assistant", content, calls) :
           content \in {{}, Said}, calls \in ReplyCalls}

ModelAnswers(r) ==
  /\ at[r] = "call"
  /\ \E m \in Replies :
       IF r \notin ToolChats /\ ~HasText(m)
       THEN Return(r, "Upstream")
       ELSE /\ reply' = [reply EXCEPT ![r] = m]
            /\ GoOn(r)
            /\ UNCHANGED <<shown, arrived, question, result>>
  /\ UNCHANGED <<session, traced, answered>>

ModelFails(r) ==
  /\ at[r] = "call"
  /\ FailWith(r, "Upstream")
  /\ UNCHANGED <<session, traced, answered>>

\* Fault: no time limit is set.
NeverTimesOut(r) == FALSE /\ UNCHANGED vars

TimesOut(r) ==
  /\ at[r] = "call"
  /\ FailWith(r, "Timeout")
  /\ UNCHANGED <<session, traced, answered>>

AppendAssistant(r) ==
  /\ at[r] = "append"
  /\ ValidateAppend(messages, reply[r])
  /\ Store(reply[r])
  /\ answered' = [answered EXCEPT ![r] = TRUE]
  /\ Forget(r)
  /\ GoOn(r)
  /\ UNCHANGED <<traced, result>>

\* Fault: the error of the append is not looked at.
RefusalIgnored(r) ==
  /\ at[r] = "append"
  /\ ~ValidateAppend(messages, reply[r])
  /\ GoOn(r)
  /\ UNCHANGED <<session, work, traced, result, answered>>

\* /demo/tool-call traces no failure of this append.
EndRefused(r, error) ==
  IF r \in ToolChats THEN Return(r, error) ELSE FailWith(r, error)

\* A session the append has created for it stays, empty.
AssistantRefused(r) ==
  /\ at[r] = "append"
  /\ ~ValidateAppend(messages, reply[r])
  /\ EndRefused(r, "BadRequest")
  /\ open' = TRUE
  /\ UNCHANGED <<messages, removals, traced, answered>>

\* The session is gone, and another has taken its slot.
SlotRefused(r) ==
  /\ ~open
  /\ \/ at[r] = "ask" /\ Return(r, "TooManySessions")
     \/ at[r] = "append" /\ EndRefused(r, "TooManySessions")
  /\ UNCHANGED <<session, traced, answered>>

TraceFailed(r) ==
  /\ at[r] = "fail"
  /\ PushTrace(r, "failed")
  /\ Return(r, result[r])
  /\ UNCHANGED <<session, answered>>

TraceCompleted(r) ==
  /\ at[r] = "complete"
  /\ PushTrace(r, "completed")
  /\ GoOn(r)
  /\ UNCHANGED <<session, work, result, answered>>

\* fetch_context_response: the context is read, and the answer returned.
FetchContext(r) ==
  /\ at[r] = "fetch" /\ open
  /\ Return(r, "ok")
  /\ UNCHANGED <<session, traced, answered>>

\* The connection closes, and the handler is dropped at an await.
Drop(r) ==
  /\ at[r] \notin {"idle", "ended"}
  /\ Return(r, "dropped")
  /\ UNCHANGED <<session, traced, answered>>

-----------------------------------------------------------------------------
(* What others do to the session.                                          *)

\* POST /sessions/{id}/messages of another client.
AppendMessage(m) ==
  /\ Len(messages) < MaxMessages
  /\ ValidateAppend(messages, m)
  /\ Store(m)
  /\ UNCHANGED <<at, work, traced, result, answered>>

\* Refused after an empty session was created for it.
AppendRejected(m) ==
  /\ ~open
  /\ ~ValidateAppend(messages, m)
  /\ open' = TRUE
  /\ UNCHANGED <<messages, removals, at, work, traced, result, answered>>

\* DELETE /sessions/{id}, or the TTL worker.
RemoveSession ==
  /\ open
  /\ Events < MaxEvents
  /\ removals' = removals + 1
  /\ open' = FALSE
  /\ messages' = <<>>
  /\ UNCHANGED <<at, work, traced, result, answered>>

-----------------------------------------------------------------------------
\* What the runtime does of itself for a request that has arrived.
Serve(r) ==
  \/ SyncSystemPrompt(r) \/ AppendUser(r) \/ UserRefused(r) \/ TraceStarted(r)
  \/ CheckPending(r) \/ ReadMessages(r) \/ TimesOut(r)
  \/ AppendAssistant(r) \/ AssistantRefused(r) \/ SlotRefused(r) \/ SessionGone(r)
  \/ TraceFailed(r) \/ TraceCompleted(r) \/ FetchContext(r)

Next ==
  \/ \E r \in Demos : Arrive(r) \/ Serve(r) \/ ModelAnswers(r) \/ ModelFails(r) \/ Drop(r)
  \/ \E m \in Requests : AppendMessage(m) \/ AppendRejected(m)
  \/ RemoveSession

\* The runtime polls every task, and its timer fires; the model owes nothing.
Fairness == \A r \in Demos : WF_vars(Serve(r))

Spec == Init /\ [][Next]_vars /\ Fairness

-----------------------------------------------------------------------------
(* Properties.                                                             *)

DemoTypeOK ==
  /\ open \in BOOLEAN
  /\ messages \in Seq(Message)
  /\ ~open => messages = <<>>
  /\ removals \in Nat
  /\ arrived \in [Demos -> Nat]
  /\ at \in [Demos -> {"idle", "prompt", "ask", "start", "pending", "read", "call",
                       "append", "fail", "complete", "fetch", "ended"}]
  /\ shown \in [Demos -> Seq(Message)]
  /\ reply \in [Demos -> Replies \cup {None}]
  /\ traced \in [Demos -> SUBSET {"started", "failed", "completed"}]
  /\ result \in [Demos -> {"none", "ok", "BadRequest", "Conflict", "Upstream",
                           "Timeout", "NotFound", "TooManySessions", "dropped"}]
  /\ question \in [Demos -> Nat \cup {None}]
  /\ answered \in [Demos -> BOOLEAN]
  /\ \A r \in Demos : at[r] = "call" => shown[r] # <<>>
  /\ \A r \in Demos : at[r] = "append" => reply[r] \in Replies

\* Other clients append tool results only, no /demo/complete has arrived, and
\* no session has been removed.
OnlyChats ==
  /\ removals = 0
  /\ \A m \in Requests : m.role = "tool"
  /\ \A r \in Completes : at[r] = "idle"

\* While only chats and tool calls write answers, an answer directly follows
\* the question of its own request, however many of them run at once and
\* whichever time out or are dropped.  No lock is held over a call of the
\* model: the transitions of validator.rs:49-63 alone keep the turns apart.
\* A chat whose session was removed may answer a stranger's question instead.
AnswersOwnQuestion ==
  [][\A r \in Demos :
       OnlyChats /\ answered'[r] # answered[r] => NextPosition = question[r] + 1]_vars

\* A request reports what became of the conversation: a traced completion and
\* a 200 stand for an answer that is stored, an error and a traced failure for
\* one that is not, also when two requests race and the loser's answer is
\* refused, or the session goes under them (demo.rs:190-219, 291-320, 447-469).
\* Only a 404 says nothing: the session may go after the answer was stored.
ReportsTrue ==
  \A r \in Demos :
    /\ "completed" \in traced[r] \/ result[r] = "ok" => answered[r]
    /\ "failed" \in traced[r] => ~answered[r]
    /\ result[r] \notin {"none", "ok", "dropped", "NotFound"} => ~answered[r]

\* Unlike POST /sessions/{id}/messages a demo request creates no session for
\* an id it finds unknown: if one of its appends puts a session in the table, it
\* is in the place of one that was removed while the request ran (demo.rs:117).
RecreatesOnlyRemoved ==
  [][\A r \in Demos :
       at'[r] # at[r] /\ ~open /\ open' => removals > arrived[r]]_vars

\* Every request that arrived ends, whatever the model and the other clients
\* do: the call has a time limit (demo.rs:162-187, 266-288, 411-440).  Each of the
\* requests runs once, so in the end each has ended or has never arrived.
DemoEnds == <>[](\A r \in Demos : at[r] \in {"idle", "ended"})

\* README.md:154 says that /demo/complete continues after the matching tool
\* result has been appended.  It would then store no answer that was written
\* without the result of a call that comes before it.
ContinuesAfterResults ==
  [][\A r \in Completes :
       answered'[r] # answered[r] => IssuedIds(messages) \subseteq ResolvedIds(shown[r])]_vars

\* demo.rs:394-397 refuses a tool call with "pending tool_call requires a
\* matching role=tool result before continuing".  There would then be a call
\* in the session without such a result.
ConflictOnlyWhenPending ==
  [][\A r \in ToolChats :
       at[r] = "pending" /\ result'[r] = "Conflict"
         => ~(IssuedIds(messages) \subseteq ResolvedIds(messages))]_vars
=============================================================================
