--------------------------- MODULE DemoChatProofs ---------------------------
(***************************************************************************)
(* Theorems about the demo handlers, for every number of requests, every   *)
(* set of messages other clients append and every conversation.            *)
(***************************************************************************)
EXTENDS DemoChat, ConversationLemmas

-----------------------------------------------------------------------------
(* Reports.                                                                *)

Errors == {"BadRequest", "Conflict", "Upstream", "Timeout", "TooManySessions"}

\* The functions of the requests, and the conversation.
DemoDomains ==
  /\ DOMAIN at = Demos /\ DOMAIN shown = Demos /\ DOMAIN reply = Demos
  /\ DOMAIN traced = Demos /\ DOMAIN result = Demos
  /\ DOMAIN arrived = Demos /\ DOMAIN question = Demos
  /\ answered \in [Demos -> BOOLEAN]
  /\ messages \in Seq(Message)
  /\ removals \in Nat
  /\ \A r \in Demos : at[r] = "append" => reply[r] \in Replies

\* Where a request is tells what it may have traced, returned and stored.
Progress(r) ==
  /\ at[r] \in {"prompt", "ask"} => r \in Chats \cup ToolChats
  /\ at[r] = "pending" => r \in ToolChats
  /\ answered[r] => at[r] \in {"complete", "fetch", "ended"}
  /\ at[r] \in {"complete", "fetch"} => answered[r]
  /\ "failed" \in traced[r] => at[r] = "ended"
  /\ at[r] \notin {"fail", "ended"} => result[r] = "none"
  /\ at[r] = "fail" => result[r] \in Errors

\* What ReportsTrue says of one request.
Report(r) ==
  /\ "completed" \in traced[r] \/ result[r] = "ok" => answered[r]
  /\ "failed" \in traced[r] => ~answered[r]
  /\ result[r] \notin {"none", "ok", "dropped", "NotFound"} => ~answered[r]

ReportsInv == DemoDomains /\ \A r \in Demos : Progress(r) /\ Report(r)

\* The step that follows one that goes well, by the kind of request.
LEMMA PathOf ==
  ASSUME NEW r \in Demos
  PROVE  /\ r \in Chats => Path(r) =
              [idle |-> "prompt", prompt |-> "ask", ask |-> "start", start |-> "read",
               read |-> "call", call |-> "append", append |-> "complete",
               complete |-> "fetch"]
         /\ r \in ToolChats => Path(r) =
              [idle |-> "prompt", prompt |-> "start", start |-> "pending",
               pending |-> "ask", ask |-> "read", read |-> "call", call |-> "append",
               append |-> "complete", complete |-> "fetch"]
         /\ r \in Completes => Path(r) =
              [idle |-> "start", start |-> "read", read |-> "call", call |-> "append",
               append |-> "complete", complete |-> "fetch"]
BY DemoAssumption DEF DemoAssumption, Path, Demos

\* The messages of the demo handlers are messages (demo.rs:139, 603-616).
LEMMA DemoMessages ==
  /\ UserMessage \in Message
  /\ Replies \subseteq Message
  /\ \A m \in Replies : m.role = "assistant"
<1>1. Said \subseteq Texts
  BY DEF Said, Texts
<1>2. ASSUME NEW role \in Roles, NEW content \in SUBSET Texts,
             NEW calls \in Seq(CallIds) \cup {None}
      PROVE  FromDemo(role, content, calls) \in Message
  BY DEF FromDemo, Message
<1>3. UserMessage \in Message
  <2>1. "user" \in Roles /\ Said \in SUBSET Texts /\ None \in Seq(CallIds) \cup {None}
    BY <1>1 DEF Roles
  <2> QED
    BY <1>2, <2>1 DEF UserMessage
<1>4. \A calls \in ReplyCalls : calls \in Seq(CallIds)
  BY DemoAssumption DEF DemoAssumption
<1>5. ASSUME NEW m \in Replies
      PROVE  m \in Message /\ m.role = "assistant"
  <2>1. CASE m = FromDemo("assistant", Said, None)
    <3>1. "assistant" \in Roles /\ Said \in SUBSET Texts /\ None \in Seq(CallIds) \cup {None}
      BY <1>1 DEF Roles
    <3> QED
      BY <1>2, <2>1, <3>1 DEF FromDemo
  <2>2. ASSUME NEW content \in {{}, Said}, NEW calls \in ReplyCalls,
               m = FromDemo("assistant", content, calls)
        PROVE  m \in Message /\ m.role = "assistant"
    <3>1. "assistant" \in Roles /\ content \in SUBSET Texts /\ calls \in Seq(CallIds) \cup {None}
      BY <1>1, <1>4 DEF Roles
    <3>2. m \in Message
      BY <1>2, <2>2, <3>1
    <3> QED
      BY <2>2, <3>2 DEF FromDemo
  <2>3. \/ m = FromDemo("assistant", Said, None)
        \/ \E content \in {{}, Said}, calls \in ReplyCalls :
             m = FromDemo("assistant", content, calls)
    BY SMT DEF Replies
  <2> QED
    BY <2>1, <2>2, <2>3
<1> QED
  BY <1>3, <1>5

\* Initially no request has done anything.
LEMMA InitReports == Init => ReportsInv
<1> SUFFICES ASSUME Init PROVE ReportsInv
  OBVIOUS
<1>1. messages \in Seq(Message)
  <2>1. \A p \in Prompts : SystemText(p) \in Message
    BY DEF SystemText, Message, Roles, Texts
  <2>2. \A p \in Prompts : <<SystemText(p)>> \in Seq(Message)
    BY <2>1
  <2>3. messages = <<>> \/ \E p \in Prompts : messages = <<SystemText(p)>>
    BY Zenon DEF Init
  <2>4. <<>> \in Seq(Message)
    OBVIOUS
  <2> QED
    BY <2>2, <2>3, <2>4
<1> QED
  BY <1>1 DEF Init, ReportsInv, DemoDomains, Progress, Report

\* A request that returns, or ends in the trace of its failure, has its report
\* by then: nothing is traced or stored, and none of the others moves.
LEMMA EndingReports ==
  ASSUME ReportsInv, NEW r \in Demos, NEW outcome \in Errors \cup {"NotFound", "dropped", "ok"},
         Return(r, outcome) \/ (FailWith(r, outcome) /\ outcome \in Errors),
         UNCHANGED <<traced, answered>>,
         messages' \in Seq(Message), removals' \in Nat,
         outcome \in Errors => ~answered[r],
         outcome = "ok" => answered[r],
         at[r] # "ended"
  PROVE  ReportsInv'
<1> DEFINE step == at'[r]
<1>1. /\ DOMAIN at = Demos /\ DOMAIN shown = Demos /\ DOMAIN reply = Demos
      /\ DOMAIN traced = Demos /\ DOMAIN result = Demos
      /\ DOMAIN arrived = Demos /\ DOMAIN question = Demos
      /\ answered \in [Demos -> BOOLEAN]
      /\ \A other \in Demos : at[other] = "append" => reply[other] \in Replies
  BY DEF ReportsInv, DemoDomains
<1>2. /\ at' = [at EXCEPT ![r] = step] /\ step \in {"ended", "fail"}
      /\ step = "fail" => outcome \in Errors
      /\ result' = [result EXCEPT ![r] = outcome]
      /\ shown' = [shown EXCEPT ![r] = <<>>]
      /\ reply' = [reply EXCEPT ![r] = None]
      /\ arrived' = [arrived EXCEPT ![r] = 0]
      /\ question' = [question EXCEPT ![r] = None]
  BY <1>1 DEF Return, FailWith, GoTo, Forget
<1> HIDE DEF step
<1>3. DemoDomains'
  BY <1>1, <1>2 DEF DemoDomains
<1>4. ASSUME NEW other \in Demos \ {r}
      PROVE  Progress(other)' /\ Report(other)'
  <2>1. at'[other] = at[other] /\ result'[other] = result[other]
    BY <1>1, <1>2
  <2> QED
    BY <2>1 DEF ReportsInv, Progress, Report
<1>5. at'[r] = step /\ result'[r] = outcome
  BY <1>1, <1>2
<1>6. /\ "failed" \notin traced[r]
      /\ "completed" \in traced[r] => answered[r]
      /\ answered[r] => at[r] \in {"complete", "fetch", "ended"}
  BY DEF ReportsInv, Progress, Report
<1>7. step = "fail" => ~answered[r]
  BY <1>2
<1>8. Progress(r)'
  BY <1>2, <1>5, <1>6, <1>7 DEF Progress
<1>9. Report(r)'
  BY <1>5, <1>6 DEF Report, Errors
<1> QED
  BY <1>3, <1>4, <1>8, <1>9 DEF ReportsInv

\* Before its answer is stored a request has none.
LEMMA NotYetAnswered ==
  ASSUME ReportsInv, NEW r \in Demos,
         at[r] \in {"prompt", "ask", "pending", "read", "call", "append"}
  PROVE  ~answered[r]
BY DEF ReportsInv, Progress

\* The steps that store nothing and go on.
LEMMA QuietReports ==
  ASSUME ReportsInv, NEW r \in Demos,
         Arrive(r) \/ SyncSystemPrompt(r) \/ TraceStarted(r) \/ TraceCompleted(r)
  PROVE  ReportsInv'
<1>1. messages' \in Seq(Message) /\ removals' \in Nat
  BY WithPromptIsConversation DEF ReportsInv, DemoDomains, Arrive, SyncSystemPrompt,
     TraceStarted, TraceCompleted, session
<1>2. CASE Arrive(r)
  <2>1. CASE open
    BY <1>1, <1>2, <2>1, PathOf
       DEF Arrive, GoOn, GoTo, ReportsInv, DemoDomains, Progress, Report, Demos
  <2>2. CASE ~open
    BY <1>1, <1>2, <2>2, EndingReports DEF Arrive, Errors
  <2> QED
    BY <2>1, <2>2
<1>3. CASE SyncSystemPrompt(r)
  BY <1>1, <1>3, PathOf
     DEF SyncSystemPrompt, GoOn, GoTo, work, ReportsInv, DemoDomains, Progress, Report,
         Demos
<1>4. CASE TraceStarted(r)
  BY <1>1, <1>4, PathOf
     DEF TraceStarted, GoOn, GoTo, PushTrace, work, ReportsInv, DemoDomains, Progress,
         Report, Demos
<1>5. CASE TraceCompleted(r)
  BY <1>1, <1>5, PathOf
     DEF TraceCompleted, GoOn, GoTo, PushTrace, work, ReportsInv, DemoDomains, Progress,
         Report, Demos
<1> QED
  BY <1>2, <1>3, <1>4, <1>5

\* The steps of the user message, its checks and the reading of the session.
LEMMA AskReports ==
  ASSUME ReportsInv, NEW r \in Demos,
         \/ AppendUser(r) \/ UserRefused(r) \/ CheckPending(r) \/ ReadMessages(r)
         \/ SessionGone(r) \/ SlotRefused(r)
  PROVE  ReportsInv'
<1>1. messages' \in Seq(Message) /\ removals' \in Nat
  BY DemoMessages
     DEF ReportsInv, DemoDomains, AppendUser, Store, UserRefused, CheckPending,
     ReadMessages, SessionGone, SlotRefused, session
<1>2. CASE AppendUser(r)
  BY <1>1, <1>2, PathOf
     DEF AppendUser, GoOn, GoTo, ReportsInv, DemoDomains, Progress, Report, Demos
<1>3. CASE UserRefused(r)
  BY <1>1, <1>3, NotYetAnswered, EndingReports DEF UserRefused, Errors
<1>4. CASE CheckPending(r)
  <2>1. CASE Return(r, "Conflict")
    BY <1>1, <1>4, <2>1, NotYetAnswered, EndingReports DEF CheckPending, Errors
  <2>2. CASE GoOn(r) /\ UNCHANGED <<work, result>>
    BY <1>1, <1>4, <2>2, PathOf
       DEF CheckPending, GoOn, GoTo, work, ReportsInv, DemoDomains, Progress, Report,
           Demos
  <2> QED
    BY <1>4, <2>1, <2>2 DEF CheckPending
<1>5. CASE ReadMessages(r)
  <2>1. CASE Return(r, "Conflict")
    BY <1>1, <1>5, <2>1, NotYetAnswered, EndingReports DEF ReadMessages, Errors
  <2>2. CASE /\ shown' = [shown EXCEPT ![r] = ChatView(messages)]
             /\ GoOn(r)
             /\ UNCHANGED <<reply, arrived, question, result>>
    BY <1>1, <1>5, <2>2, PathOf
       DEF ReadMessages, GoOn, GoTo, ReportsInv, DemoDomains, Progress, Report,
           Demos
  <2> QED
    BY <1>5, <2>1, <2>2 DEF ReadMessages
<1>6. CASE SessionGone(r)
  BY <1>1, <1>6, EndingReports DEF SessionGone, Errors
<1>7. CASE SlotRefused(r)
  <2>1. CASE Return(r, "TooManySessions")
    BY <1>1, <1>7, <2>1, NotYetAnswered, EndingReports DEF SlotRefused, Errors
  <2>2. CASE FailWith(r, "TooManySessions")
    BY <1>1, <1>7, <2>2, NotYetAnswered, EndingReports DEF SlotRefused, Errors
  <2> QED
    BY <1>7, <2>1, <2>2 DEF SlotRefused, EndRefused
<1> QED
  BY <1>2, <1>3, <1>4, <1>5, <1>6, <1>7

\* The outcomes of a call of the model.
LEMMA CallReports ==
  ASSUME ReportsInv, NEW r \in Demos, ModelAnswers(r) \/ ModelFails(r) \/ TimesOut(r)
  PROVE  ReportsInv'
<1>1. messages' \in Seq(Message) /\ removals' \in Nat
  BY DEF ReportsInv, DemoDomains, ModelAnswers, ModelFails, TimesOut, session
<1>2. CASE ModelAnswers(r)
  <2>1. CASE Return(r, "Upstream")
    BY <1>1, <1>2, <2>1, NotYetAnswered, EndingReports DEF ModelAnswers, Errors
  <2>2. ASSUME NEW m \in Replies, reply' = [reply EXCEPT ![r] = m],
               GoOn(r), UNCHANGED <<shown, arrived, question, result>>
        PROVE  ReportsInv'
    BY <1>1, <1>2, <2>2, PathOf
       DEF ModelAnswers, GoOn, GoTo, ReportsInv, DemoDomains, Progress, Report,
           Demos
  <2> QED
    BY <1>2, <2>1, <2>2 DEF ModelAnswers
<1>3. CASE ModelFails(r)
  BY <1>1, <1>3, NotYetAnswered, EndingReports DEF ModelFails, Errors
<1>4. CASE TimesOut(r)
  BY <1>1, <1>4, NotYetAnswered, EndingReports DEF TimesOut, Errors
<1> QED
  BY <1>2, <1>3, <1>4

\* The assistant message is stored or refused, and the request ends.
LEMMA EndReports ==
  ASSUME ReportsInv, NEW r \in Demos,
         \/ AppendAssistant(r) \/ AssistantRefused(r) \/ TraceFailed(r)
         \/ FetchContext(r) \/ Drop(r)
  PROVE  ReportsInv'
<1>1. messages' \in Seq(Message) /\ removals' \in Nat
  <2>1. CASE AppendAssistant(r)
    <3>1. messages \in Seq(Message) /\ reply[r] \in Message /\ removals \in Nat
      BY <2>1, DemoMessages DEF ReportsInv, DemoDomains, AppendAssistant
    <3> QED
      BY <2>1, <3>1 DEF AppendAssistant, Store
  <2>2. CASE AssistantRefused(r) \/ TraceFailed(r) \/ FetchContext(r) \/ Drop(r)
    BY <2>2 DEF ReportsInv, DemoDomains, AssistantRefused, TraceFailed, FetchContext, Drop,
       session
  <2> QED
    BY <2>1, <2>2
<1>2. CASE AppendAssistant(r)
  BY <1>1, <1>2, PathOf
     DEF AppendAssistant, Forget, GoOn, GoTo, ReportsInv, DemoDomains, Progress, Report,
         Demos
<1>3. CASE AssistantRefused(r)
  <2>1. CASE Return(r, "BadRequest")
    BY <1>1, <1>3, <2>1, NotYetAnswered, EndingReports DEF AssistantRefused, Errors
  <2>2. CASE FailWith(r, "BadRequest")
    BY <1>1, <1>3, <2>2, NotYetAnswered, EndingReports DEF AssistantRefused, Errors
  <2> QED
    BY <1>3, <2>1, <2>2 DEF AssistantRefused, EndRefused
<1>4. CASE TraceFailed(r)
  BY <1>1, <1>4
     DEF TraceFailed, PushTrace, Return, Forget, GoTo, Errors, ReportsInv, DemoDomains,
         Progress, Report
<1>5. CASE FetchContext(r)
  <2>1. answered[r]
    BY <1>5 DEF FetchContext, ReportsInv, Progress
  <2> QED
    BY <1>1, <1>5, <2>1, EndingReports DEF FetchContext, Errors
<1>6. CASE Drop(r)
  BY <1>1, <1>6, EndingReports DEF Drop, Errors
<1> QED
  BY <1>2, <1>3, <1>4, <1>5, <1>6

\* Every step keeps the invariant of the reports.
LEMMA StepReports == ReportsInv /\ [Next]_vars => ReportsInv'
<1> SUFFICES ASSUME ReportsInv, [Next]_vars PROVE ReportsInv'
  OBVIOUS
<1>1. ASSUME NEW r \in Demos,
             Arrive(r) \/ Serve(r) \/ ModelAnswers(r) \/ ModelFails(r) \/ Drop(r)
      PROVE  ReportsInv'
  BY <1>1, QuietReports, AskReports, CallReports, EndReports DEF Serve
<1>2. ASSUME NEW m \in Requests, AppendMessage(m)
      PROVE  ReportsInv'
  <2>1. m \in Message
    BY DemoAssumption DEF DemoAssumption
  <2> QED
    BY <1>2, <2>1 DEF AppendMessage, Store, work, ReportsInv, DemoDomains, Progress, Report
<1>3. CASE RemoveSession \/ \E m \in Requests : AppendRejected(m)
  <2>1. messages' \in Seq(Message) /\ removals' \in Nat
    <3>1. messages' = <<>> \/ messages' = messages
      BY <1>3 DEF RemoveSession, AppendRejected
    <3>2. removals' = removals + 1 \/ removals' = removals
      BY <1>3 DEF RemoveSession, AppendRejected
    <3>3. <<>> \in Seq(Message)
      OBVIOUS
    <3>4. messages \in Seq(Message) /\ removals \in Nat
      BY DEF ReportsInv, DemoDomains
    <3>5. messages' \in Seq(Message)
      BY <3>1, <3>3, <3>4, Zenon
    <3>6. removals' \in Nat
      BY <3>2, <3>4
    <3> QED
      BY <3>5, <3>6
  <2>2. UNCHANGED <<at, work, traced, result, answered>>
    BY <1>3 DEF RemoveSession, AppendRejected
  <2> QED
    BY <2>1, <2>2 DEF work, ReportsInv, DemoDomains, Progress, Report
<1>4. CASE UNCHANGED vars
  BY <1>4 DEF vars, session, work, ReportsInv, DemoDomains, Progress, Report
<1> QED
  BY <1>1, <1>2, <1>3, <1>4 DEF Next

\* What a demo request returns and traces is what became of its answer, with
\* any number of requests racing for the session (demo.rs:111-479).
THEOREM ReportsTrueHolds == Spec => []ReportsTrue
<1>1. ReportsInv => ReportsTrue
  BY DEF ReportsInv, ReportsTrue, Report
<1> QED
  BY <1>1, InitReports, StepReports, PTL DEF Spec

-----------------------------------------------------------------------------
(* Turns.                                                                  *)

\* A chat or tool call that has stored its question and not its answer.
Waiting(r) ==
  \/ r \in Chats /\ at[r] \in {"start", "read", "call", "append"}
  \/ r \in ToolChats /\ at[r] \in {"read", "call", "append"}

\* The conversation ends in a question.
EndsInQuestion ==
  Len(Body(messages)) > 0 /\ Body(messages)[Len(Body(messages))].role = "user"

\* A request that waits has asked the last question, and waits alone.
TurnsApart ==
  /\ \A r \in Demos : Waiting(r) => EndsInQuestion /\ question[r] = Len(Body(messages))
  /\ \A r, s \in Demos : Waiting(r) /\ Waiting(s) => r = s

TurnsInv == ReportsInv /\ (OnlyChats => TurnsApart)

\* What is appended goes to the end of the body.
LEMMA BodyOfAppend ==
  ASSUME NEW all \in Seq(Message), NEW m \in Message, m.role # "system"
  PROVE  /\ Body(all) \in Seq(Message)
         /\ Body(Append(all, m)) = Append(Body(all), m)
<1>1. CASE all = <<>>
  <2>1. Append(all, m) = <<m>> /\ <<m>>[1] = m
    BY <1>1
  <2> QED
    BY <1>1, <2>1 DEF Body, HasHead
<1>2. CASE all # <<>>
  <2>1. Append(all, m) # <<>> /\ Append(all, m)[1] = all[1]
    BY <1>2
  <2>2. HasHead(Append(all, m)) <=> HasHead(all)
    BY <1>2, <2>1 DEF HasHead, IsContextSummary
  <2>3. Tail(Append(all, m)) = Append(Tail(all), m)
    BY <1>2
  <2>4. Tail(all) \in Seq(Message)
    BY <1>2
  <2> QED
    BY <2>2, <2>3, <2>4 DEF Body
<1> QED
  BY <1>1, <1>2

\* Another prompt leaves the body as it is (demo.rs:507-513).
LEMMA BodyOfPrompt ==
  ASSUME NEW all \in Seq(Message), NEW p \in Prompts
  PROVE  Body(WithPrompt(all, p)) = Body(all)
<1> DEFINE head == SystemText(p)
<1>1. head \in Message /\ head.role = "system" /\ ~head.summary
  BY DEF SystemText, Message, Roles, Texts
<1>2. Body(all) \in Seq(Message)
  BY DEF Body, HasHead
<1> HIDE DEF head
<1>3. /\ <<head>> \o Body(all) # <<>>
      /\ (<<head>> \o Body(all))[1] = head
      /\ Tail(<<head>> \o Body(all)) = Body(all)
  BY <1>1, <1>2
<1>4. HasHead(<<head>> \o Body(all))
  BY <1>1, <1>3 DEF HasHead, IsContextSummary
<1>5. Body(<<head>> \o Body(all)) = Body(all)
  BY <1>3, <1>4 DEF Body
<1> QED
  BY <1>5 DEF WithPrompt, head

\* After a question the validator lets in neither a question nor a tool result
\* (validator.rs:49-63).
LEMMA QuestionBlocks ==
  ASSUME messages \in Seq(Message), EndsInQuestion, NEW m, ValidateAppend(messages, m)
  PROVE  m.role \notin {"user", "tool"}
<1>1. messages # <<>> /\ messages[Len(messages)].role = "user"
  <2>1. CASE HasHead(messages)
    <3>1. Body(messages) = Tail(messages) /\ messages # <<>>
      BY <2>1 DEF Body, HasHead
    <3>2. Len(Tail(messages)) = Len(messages) - 1 /\ Len(messages) > 1
      BY <3>1 DEF EndsInQuestion
    <3>3. Tail(messages)[Len(Tail(messages))] = messages[Len(messages)]
      BY <3>1, <3>2
    <3> QED
      BY <3>1, <3>3 DEF EndsInQuestion
  <2>2. CASE ~HasHead(messages)
    BY <2>2 DEF Body, EndsInQuestion
  <2> QED
    BY <2>1, <2>2
<1>2. LastState(messages) = "User"
  BY <1>1 DEF LastState, Classify
<1>3. <<"User", Classify(m)>> \in AllowedTransitions
  BY <1>2 DEF ValidateAppend
<1>4. Classify(m) \notin {"User", "Tool"}
  BY <1>3 DEF AllowedTransitions
<1>5. m.role = "user" => Classify(m) = "User"
  BY DEF Classify
<1>6. m.role = "tool" => Classify(m) = "Tool"
  BY DEF Classify
<1> QED
  BY <1>4, <1>5, <1>6

\* A step of a request moves that request alone, and never back to idle; only
\* its user message makes it wait.
LEMMA Moves ==
  ASSUME ReportsInv, NEW r \in Demos,
         Arrive(r) \/ Serve(r) \/ ModelAnswers(r) \/ ModelFails(r) \/ Drop(r)
  PROVE  /\ at'[r] # "idle"
         /\ \A s \in Demos \ {r} : at'[s] = at[s]
         /\ ~AppendUser(r) => (Waiting(r)' => Waiting(r))
<1> DEFINE Moved == /\ at'[r] # "idle"
                    /\ \A s \in Demos \ {r} : at'[s] = at[s]
                    /\ ~AppendUser(r) => (Waiting(r)' => Waiting(r))
<1>1. ASSUME NEW step, GoTo(r, step), step \in {"ended", "fail"}
      PROVE  Moved
  BY <1>1 DEF GoTo, ReportsInv, DemoDomains, Waiting
<1>2. CASE Arrive(r)
  <2>1. CASE GoOn(r)
    BY <1>2, <2>1, PathOf, DemoAssumption
       DEF DemoAssumption, Arrive, GoOn, GoTo, ReportsInv, DemoDomains, Waiting, Demos
  <2> QED
    BY <1>1, <1>2, <2>1 DEF Arrive, Return
<1>3. CASE SyncSystemPrompt(r)
  BY <1>3, PathOf, DemoAssumption
     DEF DemoAssumption, SyncSystemPrompt, GoOn, GoTo, ReportsInv, DemoDomains, Progress, Waiting, Demos
<1>4. CASE AppendUser(r)
  BY <1>4, PathOf
     DEF AppendUser, GoOn, GoTo, ReportsInv, DemoDomains, Progress, Demos
<1>5. CASE TraceStarted(r)
  BY <1>5, PathOf, DemoAssumption
     DEF DemoAssumption, TraceStarted, GoOn, GoTo, ReportsInv, DemoDomains, Waiting, Demos
<1>6. CASE CheckPending(r)
  <2>1. CASE GoOn(r)
    BY <1>6, <2>1, PathOf, DemoAssumption
       DEF DemoAssumption, CheckPending, GoOn, GoTo, ReportsInv, DemoDomains, Progress, Waiting, Demos
  <2> QED
    BY <1>1, <1>6, <2>1 DEF CheckPending, Return
<1>7. CASE ReadMessages(r)
  <2>1. CASE GoOn(r)
    BY <1>7, <2>1, PathOf, DemoAssumption
       DEF DemoAssumption, ReadMessages, GoOn, GoTo, ReportsInv, DemoDomains, Waiting, Demos
  <2> QED
    BY <1>1, <1>7, <2>1 DEF ReadMessages, Return
<1>8. CASE ModelAnswers(r)
  <2>1. CASE GoOn(r)
    BY <1>8, <2>1, PathOf, DemoAssumption
       DEF DemoAssumption, ModelAnswers, GoOn, GoTo, ReportsInv, DemoDomains, Waiting, Demos
  <2>2. GoOn(r) \/ GoTo(r, "ended")
    BY <1>8 DEF ModelAnswers, Return
  <2> QED
    BY <1>1, <2>1, <2>2
<1>9. CASE AppendAssistant(r) \/ TraceCompleted(r)
  BY <1>9, PathOf, DemoAssumption
     DEF DemoAssumption, AppendAssistant, TraceCompleted, GoOn, GoTo, ReportsInv, DemoDomains, Waiting, Demos
<1>10. CASE \/ UserRefused(r) \/ ModelFails(r) \/ TimesOut(r) \/ AssistantRefused(r)
            \/ TraceFailed(r) \/ FetchContext(r) \/ Drop(r)
            \/ SessionGone(r) \/ SlotRefused(r)
  <2>1. GoTo(r, "ended") \/ GoTo(r, "fail")
    BY <1>10 DEF UserRefused, ModelFails, TimesOut, AssistantRefused, TraceFailed,
       FetchContext, Drop, SessionGone, SlotRefused, EndRefused, Return, FailWith
  <2> QED
    BY <1>1, <2>1
<1> QED
  BY <1>2, <1>3, <1>4, <1>5, <1>6, <1>7, <1>8, <1>9, <1>10 DEF Serve

\* A step that stores no message and moves nobody into waiting keeps the turns.
LEMMA QuietTurns ==
  ASSUME TurnsApart, Body(messages') = Body(messages),
         \A s \in Demos : Waiting(s)' => Waiting(s) /\ question'[s] = question[s]
  PROVE  TurnsApart'
BY DEF TurnsApart, EndsInQuestion

\* The user message is the last question, and nobody else waits for an answer.
LEMMA QuestionTurns ==
  ASSUME ReportsInv, TurnsApart, NEW r \in Demos, AppendUser(r),
         \A s \in Demos \ {r} : at'[s] = at[s]
  PROVE  TurnsApart'
<1>1. messages \in Seq(Message) /\ UserMessage \in Message /\ UserMessage.role = "user"
  BY DemoMessages DEF ReportsInv, DemoDomains, UserMessage, FromDemo
<1>2. ~EndsInQuestion
  BY <1>1, QuestionBlocks DEF AppendUser
<1>3. \A s \in Demos : ~Waiting(s)
  BY <1>2 DEF TurnsApart
<1>4. \A s \in Demos : Waiting(s)' => s = r
  BY <1>3 DEF Waiting
<1>5. Body(messages) \in Seq(Message) /\ Body(messages') = Append(Body(messages), UserMessage)
  BY <1>1, BodyOfAppend DEF AppendUser, Store
<1>6. EndsInQuestion' /\ question'[r] = Len(Body(messages'))
  BY <1>1, <1>5
     DEF EndsInQuestion, AppendUser, NextPosition, ReportsInv, DemoDomains
<1> QED
  BY <1>4, <1>6 DEF TurnsApart

\* The assistant message is stored by the one request that waits, right after
\* its question.
LEMMA AnswerTurns ==
  ASSUME ReportsInv, TurnsApart, NEW r \in Chats \cup ToolChats, AppendAssistant(r),
         \A s \in Demos \ {r} : at'[s] = at[s]
  PROVE  TurnsApart'
<1>1. r \in Demos
  BY DEF Demos
<1>2. Waiting(r)
  BY DEF Waiting, AppendAssistant
<1>3. at'[r] = "complete"
  BY <1>1, PathOf DEF AppendAssistant, GoOn, GoTo, ReportsInv, DemoDomains, Demos
<1>4. \A s \in Demos : ~Waiting(s)'
  BY <1>1, <1>2, <1>3 DEF Waiting, TurnsApart
<1> QED
  BY <1>4 DEF TurnsApart

\* A tool result another client appends finds nobody waiting.
LEMMA ToolResultTurns ==
  ASSUME ReportsInv, TurnsApart, NEW m \in Requests, m.role = "tool", AppendMessage(m)
  PROVE  TurnsApart'
<1>1. ~EndsInQuestion
  BY QuestionBlocks DEF AppendMessage, ReportsInv, DemoDomains
<1>2. \A s \in Demos : ~Waiting(s)
  BY <1>1 DEF TurnsApart
<1>3. \A s \in Demos : ~Waiting(s)'
  BY <1>2 DEF Waiting, AppendMessage
<1> QED
  BY <1>3 DEF TurnsApart, AppendMessage

\* A request that only reads, or ends, leaves the conversation and the
\* questions of the others as they are, and its own if it goes on.
LEMMA QuietSteps ==
  ASSUME ReportsInv, NEW r \in Demos,
         Arrive(r) \/ Serve(r) \/ ModelAnswers(r) \/ ModelFails(r) \/ Drop(r),
         ~AppendUser(r), ~AppendAssistant(r)
  PROVE  /\ Body(messages') = Body(messages)
         /\ removals' = removals /\ answered' = answered
         /\ question' = question \/ (Forget(r) /\ at'[r] \in {"ended", "fail"})
<1> DEFINE Quiet == question' = question \/ (Forget(r) /\ at'[r] \in {"ended", "fail"})
<1>1. ASSUME NEW outcome, Return(r, outcome) \/ FailWith(r, outcome)
      PROVE  Quiet
  BY <1>1 DEF Return, FailWith, GoTo, ReportsInv, DemoDomains
<1>2. CASE SyncSystemPrompt(r)
  <2>1. Body(messages') = Body(messages)
    BY <1>2, BodyOfPrompt DEF SyncSystemPrompt, ReportsInv, DemoDomains
  <2> QED
    BY <1>2, <2>1 DEF SyncSystemPrompt, work
<1>3. CASE Arrive(r) \/ TraceStarted(r) \/ TraceCompleted(r) \/ CheckPending(r)
           \/ ReadMessages(r) \/ ModelAnswers(r)
  <2>1. messages' = messages /\ removals' = removals /\ answered' = answered
    BY <1>3 DEF Arrive, TraceStarted, TraceCompleted, CheckPending, ReadMessages,
       ModelAnswers, session
  <2>2. \/ question' = question
        \/ Return(r, "NotFound") \/ Return(r, "Conflict") \/ Return(r, "Upstream")
    BY <1>3 DEF Arrive, TraceStarted, TraceCompleted, CheckPending, ReadMessages,
       ModelAnswers, work
  <2> QED
    BY <1>1, <2>1, <2>2
<1>4. CASE \/ UserRefused(r) \/ ModelFails(r) \/ TimesOut(r) \/ AssistantRefused(r)
           \/ TraceFailed(r) \/ FetchContext(r) \/ Drop(r)
           \/ SessionGone(r) \/ SlotRefused(r)
  <2>1. messages' = messages /\ removals' = removals /\ answered' = answered
    BY <1>4 DEF UserRefused, ModelFails, TimesOut, AssistantRefused, TraceFailed,
       FetchContext, Drop, SessionGone, SlotRefused, session
  <2>2. \E outcome : Return(r, outcome) \/ FailWith(r, outcome)
    BY <1>4 DEF UserRefused, ModelFails, TimesOut, AssistantRefused, TraceFailed,
       FetchContext, Drop, SessionGone, SlotRefused, EndRefused
  <2> QED
    BY <1>1, <2>1, <2>2
<1> QED
  BY <1>2, <1>3, <1>4 DEF Serve

\* Every step keeps the turns apart.
LEMMA StepTurns == TurnsInv /\ [Next]_vars => TurnsInv'
<1> SUFFICES ASSUME TurnsInv, [Next]_vars, OnlyChats' PROVE TurnsApart'
  BY StepReports DEF TurnsInv
<1>0. ReportsInv /\ ReportsInv' /\ \A m \in Requests : m.role = "tool"
  BY StepReports DEF TurnsInv, OnlyChats
<1>1. ASSUME NEW r \in Demos,
             Arrive(r) \/ Serve(r) \/ ModelAnswers(r) \/ ModelFails(r) \/ Drop(r)
      PROVE  TurnsApart'
  <2>1. /\ at'[r] # "idle"
        /\ \A s \in Demos \ {r} : at'[s] = at[s]
        /\ ~AppendUser(r) => (Waiting(r)' => Waiting(r))
    BY <1>0, <1>1, Moves
  <2>2. r \notin Completes
    BY <2>1 DEF OnlyChats
  <2>3. removals' = removals
    <3>1. CASE AppendUser(r) \/ AppendAssistant(r)
      BY <3>1 DEF AppendUser, AppendAssistant, Store
    <3> QED
      BY <1>0, <1>1, <3>1, QuietSteps
  <2>4. TurnsApart
    BY <2>1, <2>2, <2>3 DEF OnlyChats, Demos, TurnsInv
  <2>5. CASE AppendUser(r)
    BY <1>0, <2>1, <2>4, <2>5, QuestionTurns
  <2>6. CASE AppendAssistant(r)
    BY <1>0, <2>1, <2>2, <2>4, <2>6, AnswerTurns DEF Demos
  <2>7. CASE ~AppendUser(r) /\ ~AppendAssistant(r)
    <3>1. /\ Body(messages') = Body(messages)
          /\ question' = question \/ (Forget(r) /\ at'[r] \in {"ended", "fail"})
      BY <1>0, <1>1, <2>7, QuietSteps
    <3>2. \A s \in Demos : Waiting(s)' => Waiting(s)
      BY <2>1, <2>7 DEF Waiting
    <3>3. \A s \in Demos : Waiting(s)' => question'[s] = question[s]
      BY <1>0, <3>1 DEF Waiting, Forget, ReportsInv, DemoDomains
    <3> QED
      BY <2>4, <3>1, <3>2, <3>3, QuietTurns
  <2> QED
    BY <2>5, <2>6, <2>7
<1>2. ASSUME NEW m \in Requests, AppendMessage(m)
      PROVE  TurnsApart'
  <2>1. OnlyChats
    BY <1>2 DEF OnlyChats, AppendMessage, Store
  <2> QED
    BY <1>0, <1>2, <2>1, ToolResultTurns DEF TurnsInv
<1>3. CASE RemoveSession
  BY <1>0, <1>3 DEF RemoveSession, OnlyChats, ReportsInv, DemoDomains
<1>4. CASE (\E m \in Requests : AppendRejected(m)) \/ UNCHANGED vars
  BY <1>4 DEF AppendRejected, vars, session, work, TurnsInv, OnlyChats, TurnsApart,
     EndsInQuestion, Waiting
<1> QED
  BY <1>1, <1>2, <1>3, <1>4 DEF Next

\* Initially nobody waits.
LEMMA InitTurns == Init => TurnsInv
<1> SUFFICES ASSUME Init PROVE TurnsApart
  BY InitReports DEF TurnsInv
<1>1. \A r \in Demos : ~Waiting(r)
  BY DEF Init, Waiting
<1> QED
  BY <1>1 DEF TurnsApart

\* Only the append of an answer counts as one, and it goes where the
\* conversation ends.
LEMMA StepAnswers ==
  TurnsInv /\ [Next]_vars =>
    [\A r \in Demos :
       OnlyChats /\ answered'[r] # answered[r] => NextPosition = question[r] + 1]_vars
<1> SUFFICES ASSUME TurnsInv, Next, NEW r \in Demos, OnlyChats,
                    answered'[r] # answered[r]
             PROVE  NextPosition = question[r] + 1
  OBVIOUS
<1>1. ReportsInv /\ TurnsApart
  BY DEF TurnsInv
<1>2. AppendAssistant(r)
  <2>1. ASSUME NEW s \in Demos,
               Arrive(s) \/ Serve(s) \/ ModelAnswers(s) \/ ModelFails(s) \/ Drop(s)
        PROVE  AppendAssistant(r)
    <3>1. CASE AppendUser(s)
      BY <3>1 DEF AppendUser
    <3>2. CASE AppendAssistant(s)
      BY <1>1, <3>2 DEF AppendAssistant, ReportsInv, DemoDomains
    <3> QED
      BY <1>1, <2>1, <3>1, <3>2, QuietSteps
  <2>2. CASE RemoveSession \/ \E m \in Requests : AppendMessage(m) \/ AppendRejected(m)
    BY <2>2 DEF RemoveSession, AppendMessage, AppendRejected
  <2> QED
    BY <2>1, <2>2 DEF Next
<1>3. r \in Chats \cup ToolChats /\ Waiting(r)
  BY <1>2 DEF AppendAssistant, OnlyChats, Demos, Waiting
<1> QED
  BY <1>1, <1>3 DEF TurnsApart, NextPosition

\* However many chats and tool calls run on one session, each answer directly
\* follows its own question as long as nobody else writes answers: the proof
\* that the validator keeps their turns apart without a lock (demo.rs:138-212,
\* 401-455, validator.rs:49-63).
THEOREM AnswersOwnQuestionHolds == Spec => AnswersOwnQuestion
BY InitTurns, StepTurns, StepAnswers, PTL DEF Spec, AnswersOwnQuestion

-----------------------------------------------------------------------------
(* Sessions created.                                                       *)

\* The steps up to the append of the answer.
Running == {"prompt", "ask", "start", "pending", "read", "call", "append"}

\* A request that runs without a session has seen one removed.
Known(r) ==
  /\ arrived[r] \in Nat
  /\ at[r] \in Running => arrived[r] <= removals
  /\ at[r] \in Running /\ ~open => arrived[r] < removals

KnownInv == ReportsInv /\ \A r \in Demos : Known(r)

\* A step moves one request, which remembers when it arrived while it runs.
LEMMA KnownMoves ==
  ASSUME ReportsInv, NEW r \in Demos,
         Arrive(r) \/ Serve(r) \/ ModelAnswers(r) \/ ModelFails(r) \/ Drop(r),
         \A s \in Demos : Known(s)
  PROVE  \A s \in Demos : Known(s)'
<1> DEFINE Kept == /\ removals' = removals
                   /\ open => open'
                   /\ \A s \in Demos \ {r} : at'[s] = at[s] /\ arrived'[s] = arrived[s]
                   /\ arrived'[r] = arrived[r] \/ arrived'[r] = 0
                   /\ at'[r] \in Running => at[r] \in Running /\ arrived'[r] = arrived[r]
<1>1. ASSUME Kept PROVE \A s \in Demos : Known(s)'
  BY <1>1 DEF Known, ReportsInv, DemoDomains
<1>2. ASSUME NEW outcome, Return(r, outcome) \/ FailWith(r, outcome),
             removals' = removals, open => open'
      PROVE  Kept
  BY <1>2 DEF Return, FailWith, Forget, GoTo, Running, ReportsInv, DemoDomains
<1>3. ASSUME GoOn(r), arrived' = arrived, removals' = removals, open => open',
             at[r] \in Running
      PROVE  Kept
  BY <1>3 DEF GoOn, GoTo, ReportsInv, DemoDomains
<1>4. CASE Arrive(r)
  <2>1. CASE open
    <3>1. /\ open' /\ removals' = removals /\ arrived'[r] = removals
          /\ \A s \in Demos \ {r} : at'[s] = at[s] /\ arrived'[s] = arrived[s]
      BY <1>4, <2>1 DEF Arrive, GoOn, GoTo, session, ReportsInv, DemoDomains
    <3> QED
      BY <3>1 DEF Known, ReportsInv, DemoDomains
  <2>2. CASE ~open
    BY <1>1, <1>2, <1>4, <2>2 DEF Arrive, session
  <2> QED
    BY <2>1, <2>2
<1>5. CASE \/ SyncSystemPrompt(r) \/ AppendUser(r) \/ TraceStarted(r)
           \/ ((CheckPending(r) \/ ReadMessages(r) \/ ModelAnswers(r)) /\ GoOn(r))
  <2>1. removals' = removals /\ (open => open') /\ GoOn(r) /\ at[r] \in Running
    BY <1>5 DEF SyncSystemPrompt, AppendUser, Store, TraceStarted, CheckPending,
       ReadMessages, ModelAnswers, session, Running
  <2>2. at'[r] # at[r] /\ at'[r] # "ended"
    BY <1>5, <2>1, PathOf, DemoAssumption
       DEF DemoAssumption, GoOn, GoTo, SyncSystemPrompt, AppendUser, TraceStarted,
           CheckPending, ReadMessages, ModelAnswers, Demos, ReportsInv, DemoDomains, Progress
  <2>3. arrived' = arrived
    BY <1>5, <2>2 DEF SyncSystemPrompt, AppendUser, TraceStarted, CheckPending,
       ReadMessages, ModelAnswers, work, Return, GoTo, ReportsInv, DemoDomains
  <2> QED
    BY <1>1, <1>3, <2>1, <2>3
<1>6. CASE \/ ((CheckPending(r) \/ ReadMessages(r) \/ ModelAnswers(r)) /\ ~GoOn(r))
           \/ UserRefused(r) \/ ModelFails(r) \/ TimesOut(r) \/ AssistantRefused(r)
           \/ TraceFailed(r) \/ FetchContext(r) \/ Drop(r)
           \/ SessionGone(r) \/ SlotRefused(r)
  <2>1. removals' = removals /\ (open => open')
    BY <1>6 DEF CheckPending, ReadMessages, ModelAnswers, UserRefused, ModelFails,
       TimesOut, AssistantRefused, TraceFailed, FetchContext, Drop, SessionGone,
       SlotRefused, session
  <2>2. \E outcome : Return(r, outcome) \/ FailWith(r, outcome)
    BY <1>6 DEF CheckPending, ReadMessages, ModelAnswers, UserRefused, ModelFails,
       TimesOut, AssistantRefused, TraceFailed, FetchContext, Drop, SessionGone,
       SlotRefused, EndRefused
  <2> QED
    BY <1>1, <1>2, <2>1, <2>2
<1>7. CASE AppendAssistant(r) \/ TraceCompleted(r)
  <2>1. removals' = removals /\ (open => open') /\ at'[r] \notin Running
    BY <1>7, PathOf
       DEF AppendAssistant, Store, TraceCompleted, session, GoOn, GoTo, Running, Demos,
           ReportsInv, DemoDomains
  <2>2. /\ \A s \in Demos \ {r} : at'[s] = at[s] /\ arrived'[s] = arrived[s]
        /\ arrived'[r] = arrived[r] \/ arrived'[r] = 0
    BY <1>7 DEF AppendAssistant, TraceCompleted, Forget, work, GoOn, GoTo, ReportsInv,
       DemoDomains
  <2> QED
    BY <1>1, <2>1, <2>2
<1> QED
  BY <1>4, <1>5, <1>6, <1>7 DEF Serve

LEMMA StepKnown == KnownInv /\ [Next]_vars => KnownInv'
<1> SUFFICES ASSUME KnownInv, [Next]_vars PROVE \A r \in Demos : Known(r)'
  BY StepReports DEF KnownInv
<1>1. ASSUME NEW r \in Demos,
             Arrive(r) \/ Serve(r) \/ ModelAnswers(r) \/ ModelFails(r) \/ Drop(r)
      PROVE  \A s \in Demos : Known(s)'
  BY <1>1, KnownMoves DEF KnownInv
<1>2. CASE RemoveSession
  BY <1>2 DEF RemoveSession, work, KnownInv, Known, ReportsInv, DemoDomains
<1>3. CASE \/ \E m \in Requests : AppendMessage(m) \/ AppendRejected(m)
           \/ UNCHANGED vars
  BY <1>3 DEF AppendMessage, Store, AppendRejected, vars, session, work, KnownInv, Known
<1> QED
  BY <1>1, <1>2, <1>3 DEF Next

\* The two appends of a demo request are the only steps of it that can open a
\* session, and they run only after the look-up at its start.
LEMMA StepRecreates ==
  KnownInv /\ [Next]_vars =>
    [\A r \in Demos :
       at'[r] # at[r] /\ ~open /\ open' => removals > arrived[r]]_vars
<1> SUFFICES ASSUME KnownInv, Next, NEW r \in Demos, at'[r] # at[r], ~open, open'
             PROVE  removals > arrived[r]
  OBVIOUS
<1>1. AppendUser(r) \/ AppendAssistant(r) \/ AssistantRefused(r)
  <2>1. ASSUME NEW s \in Demos,
               Arrive(s) \/ Serve(s) \/ ModelAnswers(s) \/ ModelFails(s) \/ Drop(s)
        PROVE  AppendUser(r) \/ AppendAssistant(r) \/ AssistantRefused(r)
    <3>1. s = r
      BY <2>1, Moves DEF KnownInv
    <3> QED
      BY <2>1, <3>1 DEF Arrive, Serve, ModelAnswers, ModelFails, Drop, SyncSystemPrompt,
         UserRefused, TraceStarted, CheckPending, ReadMessages, TimesOut, TraceFailed,
         TraceCompleted, FetchContext, SessionGone, SlotRefused, session
  <2>2. CASE RemoveSession \/ \E m \in Requests : AppendMessage(m) \/ AppendRejected(m)
    BY <2>2 DEF RemoveSession, AppendMessage, AppendRejected
  <2> QED
    BY <2>1, <2>2 DEF Next
<1>2. at[r] \in Running
  BY <1>1 DEF AppendUser, AppendAssistant, AssistantRefused, Running
<1> QED
  BY <1>2 DEF KnownInv, Known, ReportsInv, DemoDomains

\* For any number of requests and removals: a demo request never makes a
\* session of an id it found unknown (demo.rs:117, 212, 353).
THEOREM RecreatesOnlyRemovedHolds == Spec => RecreatesOnlyRemoved
<1>1. Init => KnownInv
  BY InitReports DEF Init, KnownInv, Known, Running
<1> QED
  BY <1>1, StepKnown, StepRecreates, PTL DEF Spec, RecreatesOnlyRemoved

-----------------------------------------------------------------------------
(* What the model is shown.                                                *)

Shown(m) == HasText(m) \/ HasToolCalls(m)

\* What is shown of the messages at the places s: that at the last, after f.
WithLast(f, s, all) ==
  IF Shown(all[Max(s)]) THEN Append(f[s \ {Max(s)}], all[Max(s)]) ELSE f[s \ {Max(s)}]

\* f is the recursion of ChatView on the sets of places in D.
Selects(f, D, all) == f = [s \in D |-> IF s = {} THEN <<>> ELSE WithLast(f, s, all)]

\* The fold over a conversation, as its definition has it.
LEMMA ChatViewIsFold ==
  ASSUME NEW all
  PROVE  ChatView(all) = (CHOOSE f : Selects(f, SUBSET DOMAIN all, all))[DOMAIN all]
BY DEF ChatView, FoldLeft, MapThenFoldSet, Selects, WithLast, Shown

\* The places of a conversation are finitely many, and some of them have a last.
LEMMA LastPlace ==
  ASSUME NEW all \in Seq(Message), NEW s \in SUBSET DOMAIN all
  PROVE  /\ IsFiniteSet(s) /\ Cardinality(s) \in Nat
         /\ s # {} => /\ Max(s) \in s
                      /\ Cardinality(s \ {Max(s)}) = Cardinality(s) - 1
<1>1. DOMAIN all = 1 .. Len(all) /\ Len(all) \in Nat
  BY LenProperties
<1>2. IsFiniteSet(s)
  <2>1. 1 \in Int /\ Len(all) \in Int
    BY <1>1
  <2> QED
    BY <1>1, <2>1, FS_Interval, FS_Subset
<1>3. Cardinality(s) \in Nat
  BY <1>2, FS_CardinalityType
<1>4. ASSUME s # {}
      PROVE  Max(s) \in s /\ Cardinality(s \ {Max(s)}) = Cardinality(s) - 1
  <2>1. s \in SUBSET Nat /\ \A i \in s : i <= Len(all)
    BY <1>1
  <2>2. \E n \in s : \A m \in s : m <= n
    BY <1>1, <1>4, <2>1, GreatestElement
  <2>3. \E n \in s : \A m \in s : n >= m
    BY <2>1, <2>2
  <2>4. Max(s) \in s
    BY <2>3 DEF Max
  <2> QED
    BY <1>2, <2>4, FS_RemoveElement
<1> QED
  BY <1>2, <1>3, <1>4

\* The recursion is on finite sets, so there is what it defines.
LEMMA SelectionExists ==
  ASSUME NEW all \in Seq(Message)
  PROVE  \E f : Selects(f, SUBSET DOMAIN all, all)
<1> DEFINE S == DOMAIN all
           UpTo(k) == {s \in SUBSET S : Cardinality(s) <= k}
           Bad == {k \in Nat : ~ \E f : Selects(f, UpTo(k), all)}
<1>1. \A s \in SUBSET S : IsFiniteSet(s) /\ Cardinality(s) \in Nat /\ Cardinality(s) <= Cardinality(S)
  <2>1. IsFiniteSet(S) /\ \A s \in SUBSET S : IsFiniteSet(s) /\ Cardinality(s) \in Nat
    BY LastPlace
  <2> QED
    BY <2>1, FS_Subset
<1>2. Cardinality(S) \in Nat /\ UpTo(Cardinality(S)) = SUBSET S
  BY <1>1
<1>3. ASSUME NEW s \in SUBSET S, s # {}
      PROVE  s \ {Max(s)} \in SUBSET S /\ Cardinality(s \ {Max(s)}) = Cardinality(s) - 1
  BY <1>3, LastPlace
<1>4. Bad = {}
  <2> SUFFICES ASSUME Bad # {} PROVE FALSE
    OBVIOUS
  <2>1. PICK k \in Bad : \A m \in Bad : k <= m
    <3>1. Bad \in SUBSET Nat
      OBVIOUS
    <3> HIDE DEF Bad
    <3> QED
      BY <3>1, LeastElement
  <2>2. k # 0
    <3> SUFFICES ASSUME k = 0 PROVE FALSE
      OBVIOUS
    <3>1. UpTo(0) = {{}}
      BY <1>1, FS_EmptySet
    <3>2. Selects([s \in UpTo(0) |-> <<>>], UpTo(0), all)
      BY <3>1 DEF Selects
    <3> QED
      BY <2>1, <3>2
  <2>3. k \in Nat /\ k - 1 \in Nat /\ k - 1 \notin Bad
    <3>1. k \in Nat
      OBVIOUS
    <3>2. k - 1 \in Nat
      BY <2>2, <3>1
    <3> HIDE DEF Bad
    <3>3. k - 1 \notin Bad
      BY <2>1, <3>1, <3>2
    <3> QED
      BY <3>1, <3>2, <3>3
  <2>4. PICK f : Selects(f, UpTo(k - 1), all)
    BY <2>3
  <2> DEFINE Step(g, s) == IF s = {} THEN <<>> ELSE WithLast(g, s, all)
             h == [s \in UpTo(k) |-> Step(f, s)]
  <2>5. \A s \in UpTo(k - 1) : s \in UpTo(k)
    BY <1>1, <2>3
  <2>6. ASSUME NEW s \in UpTo(k), s # {}
        PROVE  s \ {Max(s)} \in UpTo(k - 1)
    <3>1. s \in SUBSET S /\ Cardinality(s) <= k
      OBVIOUS
    <3>2. s \ {Max(s)} \in SUBSET S /\ Cardinality(s \ {Max(s)}) = Cardinality(s) - 1
      BY <1>3, <2>6, <3>1
    <3>3. Cardinality(s) \in Nat
      BY <1>1, <3>1
    <3>4. Cardinality(s \ {Max(s)}) <= k - 1
      BY <2>3, <3>1, <3>2, <3>3
    <3> QED
      BY <3>2, <3>4
  <2>7. ASSUME NEW s \in UpTo(k - 1)
        PROVE  f[s] = Step(f, s)
    BY <2>4 DEF Selects
  <2>8. ASSUME NEW s \in UpTo(k - 1)
        PROVE  h[s] = f[s]
    BY <2>5, <2>7, <2>8
  <2>9. ASSUME NEW s \in UpTo(k)
        PROVE  Step(f, s) = Step(h, s)
    BY <2>6, <2>8 DEF WithLast
  <2>10. Selects(h, UpTo(k), all)
    BY <2>9 DEF Selects
  <2> QED
    BY <2>1, <2>10
<1> QED
  BY <1>2, <1>4

\* What the model is shown of a conversation is one (demo.rs:546-587).
LEMMA ChatViewIsConversation ==
  ASSUME NEW all \in Seq(Message)
  PROVE  ChatView(all) \in Seq(Message)
<1> DEFINE S == DOMAIN all
           f == CHOOSE g : Selects(g, SUBSET S, all)
           Bad == {k \in Nat : \E s \in SUBSET S : Cardinality(s) = k /\ f[s] \notin Seq(Message)}
<1>1. Selects(f, SUBSET S, all)
  BY SelectionExists
<1>2. ChatView(all) = f[S]
  BY ChatViewIsFold
<1>3. \A i \in S : all[i] \in Message
  BY LenProperties, ElementOfSeq
<1>4. ASSUME NEW s \in SUBSET S
      PROVE  /\ Cardinality(s) \in Nat
             /\ s # {} => /\ Max(s) \in S /\ s \ {Max(s)} \in SUBSET S
                          /\ Cardinality(s \ {Max(s)}) = Cardinality(s) - 1
  BY LastPlace
<1> HIDE DEF f, S
<1>5. Bad = {}
  <2> SUFFICES ASSUME Bad # {} PROVE FALSE
    OBVIOUS
  <2>1. PICK k \in Bad : \A m \in Bad : k <= m
    <3>1. Bad \in SUBSET Nat
      OBVIOUS
    <3> HIDE DEF Bad
    <3> QED
      BY <3>1, LeastElement
  <2>2. PICK s \in SUBSET S : Cardinality(s) = k /\ f[s] \notin Seq(Message)
    BY <2>1
  <2>3. f[s] = IF s = {} THEN <<>> ELSE WithLast(f, s, all)
    BY <1>1 DEF Selects
  <2>4. s # {}
    BY <2>2, <2>3
  <2> DEFINE x == Max(s)
             u == s \ {x}
  <2>5. /\ x \in S /\ u \in SUBSET S /\ Cardinality(u) = k - 1 /\ Cardinality(u) \in Nat
        /\ k \in Nat
    <3>1. /\ x \in S /\ u \in SUBSET S /\ Cardinality(u) = Cardinality(s) - 1
          /\ Cardinality(u) \in Nat
      BY <1>4, <2>4
    <3> QED
      BY <2>1, <2>2, <3>1
  <2>6. all[x] \in Message /\ f[s] \in {f[u], Append(f[u], all[x])}
    BY <1>3, <2>3, <2>4, <2>5 DEF WithLast
  <2> HIDE DEF x, u
  <2>7. f[u] \in Seq(Message)
    <3> SUFFICES ASSUME f[u] \notin Seq(Message) PROVE FALSE
      OBVIOUS
    <3>1. k - 1 \in Bad
      BY <2>5
    <3> QED
      BY <2>1, <2>5, <3>1
  <2>8. Append(f[u], all[x]) \in Seq(Message)
    BY <2>6, <2>7
  <2> QED
    BY <2>2, <2>6, <2>7, <2>8
<1>6. Cardinality(S) \in Nat
  BY <1>4
<1> QED
  BY <1>2, <1>5, <1>6

-----------------------------------------------------------------------------
(* Types.                                                                  *)

Steps == {"idle", "prompt", "ask", "start", "pending", "read", "call", "append", "fail",
          "complete", "fetch", "ended"}

Outcomes == Errors \cup {"none", "ok", "NotFound", "dropped"}

\* Where the requests are and what they remember.
WorkTyped ==
  /\ at \in [Demos -> Steps]
  /\ shown \in [Demos -> Seq(Message)]
  /\ reply \in [Demos -> Replies \cup {None}]
  /\ arrived \in [Demos -> Nat]
  /\ question \in [Demos -> Nat \cup {None}]
  /\ \A r \in Demos : at[r] = "call" => shown[r] # <<>>
  /\ \A r \in Demos : at[r] = "append" => reply[r] \in Replies

\* What they leave: a session, traces, results and answers.
LeftTyped ==
  /\ open \in BOOLEAN
  /\ messages \in Seq(Message)
  /\ ~open => messages = <<>>
  /\ removals \in Nat
  /\ traced \in [Demos -> SUBSET {"started", "failed", "completed"}]
  /\ result \in [Demos -> Outcomes]
  /\ answered \in [Demos -> BOOLEAN]

LEMMA TypesInParts ==
  DemoTypeOK <=> WorkTyped /\ LeftTyped
<1>1. Outcomes = {"none", "ok", "BadRequest", "Conflict", "Upstream",
                  "Timeout", "NotFound", "TooManySessions", "dropped"}
  BY DEF Outcomes, Errors
<1> QED
  BY <1>1, Zenon DEF DemoTypeOK, WorkTyped, LeftTyped, Steps

\* A request that goes on takes a step of its path.
LEMMA GoesOn ==
  ASSUME ReportsInv, NEW r \in Demos, at[r] \notin {"fail", "fetch", "ended"},
         at[r] \in {"prompt", "ask"} => r \in Chats \cup ToolChats,
         at[r] = "pending" => r \in ToolChats, at[r] \in Steps
  PROVE  /\ Path(r)[at[r]] \in Steps
         /\ Path(r)[at[r]] = "call" => at[r] = "read"
         /\ Path(r)[at[r]] = "append" => at[r] = "call"
<1>1. r \in Chats \/ r \in ToolChats \/ r \in Completes
  BY DEF Demos
<1>2. CASE r \in Chats
  BY <1>2, PathOf, DemoAssumption DEF DemoAssumption, Steps
<1>3. CASE r \in ToolChats
  BY <1>3, PathOf, DemoAssumption DEF DemoAssumption, Steps
<1>4. CASE r \in Completes
  BY <1>4, PathOf, DemoAssumption DEF DemoAssumption, Steps
<1> QED
  BY <1>1, <1>2, <1>3, <1>4

\* A step of one request that leaves it what a request may remember.
LEMMA OneWorks ==
  ASSUME WorkTyped, NEW r \in Demos, NEW step \in Steps, GoTo(r, step),
         shown' \in [Demos -> Seq(Message)], reply' \in [Demos -> Replies \cup {None}],
         arrived' \in [Demos -> Nat], question' \in [Demos -> Nat \cup {None}],
         \A s \in Demos \ {r} : shown'[s] = shown[s] /\ reply'[s] = reply[s],
         step = "call" => shown'[r] # <<>>,
         step = "append" => reply'[r] \in Replies
  PROVE  WorkTyped'
<1>1. at' \in [Demos -> Steps] /\ at'[r] = step /\ \A s \in Demos \ {r} : at'[s] = at[s]
  BY DEF WorkTyped, GoTo
<1>2. ASSUME NEW s \in Demos
      PROVE  /\ at'[s] = "call" => shown'[s] # <<>>
             /\ at'[s] = "append" => reply'[s] \in Replies
  <2>1. CASE s = r
    BY <1>1, <2>1
  <2>2. CASE s # r
    BY <1>1, <2>2 DEF WorkTyped
  <2> QED
    BY <2>1, <2>2
<1> QED
  BY <1>1, <1>2 DEF WorkTyped

\* What is remembered may be forgotten.
LEMMA Forgets ==
  ASSUME WorkTyped, NEW r \in Demos, Forget(r)
  PROVE  /\ shown' \in [Demos -> Seq(Message)] /\ reply' \in [Demos -> Replies \cup {None}]
         /\ arrived' \in [Demos -> Nat] /\ question' \in [Demos -> Nat \cup {None}]
         /\ \A s \in Demos \ {r} : shown'[s] = shown[s] /\ reply'[s] = reply[s]
<1>1. <<>> \in Seq(Message)
  OBVIOUS
<1> QED
  BY <1>1 DEF WorkTyped, Forget

\* Every step of a request, by what it does to the work of the request.
LEMMA RequestWorks ==
  ASSUME ReportsInv, WorkTyped, NEW r \in Demos,
         Arrive(r) \/ Serve(r) \/ ModelAnswers(r) \/ ModelFails(r) \/ Drop(r)
  PROVE  WorkTyped'
<1>0. /\ shown \in [Demos -> Seq(Message)] /\ reply \in [Demos -> Replies \cup {None}]
      /\ arrived \in [Demos -> Nat] /\ question \in [Demos -> Nat \cup {None}]
      /\ at[r] \in Steps /\ "ended" \in Steps /\ "fail" \in Steps
  BY DEF WorkTyped, Steps
<1>1. ASSUME NEW outcome, Return(r, outcome) \/ FailWith(r, outcome)
      PROVE  WorkTyped'
  BY <1>0, <1>1, Forgets, OneWorks DEF Return, FailWith
<1>2. /\ at[r] \in {"prompt", "ask"} => r \in Chats \cup ToolChats
      /\ at[r] = "pending" => r \in ToolChats
  BY DEF ReportsInv, Progress
<1>4. CASE Arrive(r) /\ open
  <2>1. removals \in Nat /\ arrived' = [arrived EXCEPT ![r] = removals]
        /\ GoOn(r) /\ UNCHANGED <<shown, reply, question>> /\ at[r] = "idle"
    BY <1>4 DEF Arrive, ReportsInv, DemoDomains
  <2>2. Path(r)[at[r]] \in Steps /\ Path(r)[at[r]] # "call" /\ Path(r)[at[r]] # "append"
    BY <1>0, <1>2, <2>1, GoesOn
  <2>3. /\ shown' \in [Demos -> Seq(Message)] /\ reply' \in [Demos -> Replies \cup {None}]
        /\ arrived' \in [Demos -> Nat] /\ question' \in [Demos -> Nat \cup {None}]
        /\ \A s \in Demos \ {r} : shown'[s] = shown[s] /\ reply'[s] = reply[s]
    BY <1>0, <2>1
  <2> QED
    BY <2>1, <2>2, <2>3, OneWorks DEF GoOn
<1>5. CASE \/ SyncSystemPrompt(r) \/ TraceStarted(r) \/ TraceCompleted(r)
           \/ CheckPending(r) /\ GoOn(r) /\ UNCHANGED work
  <2>1. /\ GoOn(r) /\ UNCHANGED <<shown, reply, arrived, question>>
        /\ at[r] \in {"prompt", "start", "complete", "pending"}
    BY <1>5 DEF SyncSystemPrompt, TraceStarted, TraceCompleted, CheckPending, work
  <2>2. Path(r)[at[r]] \in Steps /\ Path(r)[at[r]] # "call" /\ Path(r)[at[r]] # "append"
    BY <1>0, <1>2, <2>1, GoesOn
  <2>3. /\ shown' \in [Demos -> Seq(Message)] /\ reply' \in [Demos -> Replies \cup {None}]
        /\ arrived' \in [Demos -> Nat] /\ question' \in [Demos -> Nat \cup {None}]
        /\ \A s \in Demos \ {r} : shown'[s] = shown[s] /\ reply'[s] = reply[s]
    BY <1>0, <2>1
  <2> QED
    BY <2>1, <2>2, <2>3, OneWorks DEF GoOn
<1>6. CASE AppendUser(r)
  <2>1. /\ GoOn(r) /\ UNCHANGED <<shown, reply, arrived>> /\ at[r] = "ask"
        /\ question' = [question EXCEPT ![r] = NextPosition]
    BY <1>6 DEF AppendUser
  <2>2. NextPosition \in Nat
    <3>1. Body(messages) \in Seq(Message)
      BY PartTypes DEF ReportsInv, DemoDomains
    <3> QED
      BY <3>1, LenProperties DEF NextPosition
  <2>3. Path(r)[at[r]] \in Steps /\ Path(r)[at[r]] # "call" /\ Path(r)[at[r]] # "append"
    BY <1>0, <1>2, <2>1, GoesOn
  <2>4. /\ shown' \in [Demos -> Seq(Message)] /\ reply' \in [Demos -> Replies \cup {None}]
        /\ arrived' \in [Demos -> Nat] /\ question' \in [Demos -> Nat \cup {None}]
        /\ \A s \in Demos \ {r} : shown'[s] = shown[s] /\ reply'[s] = reply[s]
    BY <1>0, <2>1, <2>2
  <2> QED
    BY <2>1, <2>3, <2>4, OneWorks DEF GoOn
<1>7. CASE ReadMessages(r) /\ ChatView(messages) # <<>>
  <2>1. /\ GoOn(r) /\ UNCHANGED <<reply, arrived, question>> /\ at[r] = "read"
        /\ shown' = [shown EXCEPT ![r] = ChatView(messages)]
    BY <1>7 DEF ReadMessages
  <2>2. ChatView(messages) \in Seq(Message)
    BY ChatViewIsConversation DEF ReportsInv, DemoDomains
  <2>3. Path(r)[at[r]] \in Steps /\ Path(r)[at[r]] # "append"
    BY <1>0, <1>2, <2>1, GoesOn
  <2>4. /\ shown' \in [Demos -> Seq(Message)] /\ reply' \in [Demos -> Replies \cup {None}]
        /\ arrived' \in [Demos -> Nat] /\ question' \in [Demos -> Nat \cup {None}]
        /\ \A s \in Demos \ {r} : shown'[s] = shown[s] /\ reply'[s] = reply[s]
        /\ shown'[r] # <<>>
    BY <1>0, <1>7, <2>1, <2>2
  <2> QED
    BY <2>1, <2>3, <2>4, OneWorks DEF GoOn
<1>8. ASSUME NEW m \in Replies, at[r] = "call", reply' = [reply EXCEPT ![r] = m], GoOn(r),
             UNCHANGED <<shown, arrived, question>>
      PROVE  WorkTyped'
  <2>1. Path(r)[at[r]] \in Steps /\ Path(r)[at[r]] # "call"
    BY <1>0, <1>2, <1>8, GoesOn
  <2>2. /\ shown' \in [Demos -> Seq(Message)] /\ reply' \in [Demos -> Replies \cup {None}]
        /\ arrived' \in [Demos -> Nat] /\ question' \in [Demos -> Nat \cup {None}]
        /\ \A s \in Demos \ {r} : shown'[s] = shown[s] /\ reply'[s] = reply[s]
        /\ reply'[r] \in Replies
    BY <1>0, <1>8
  <2> QED
    BY <1>8, <2>1, <2>2, OneWorks DEF GoOn
<1>9. CASE AppendAssistant(r)
  <2>1. GoOn(r) /\ Forget(r) /\ at[r] = "append"
    BY <1>9 DEF AppendAssistant
  <2>2. Path(r)[at[r]] \in Steps /\ Path(r)[at[r]] # "call" /\ Path(r)[at[r]] # "append"
    BY <1>0, <1>2, <2>1, GoesOn
  <2> QED
    BY <2>1, <2>2, Forgets, OneWorks DEF GoOn
<1>10. CASE ModelAnswers(r)
  BY <1>1, <1>8, <1>10 DEF ModelAnswers
<1>11. CASE \/ UserRefused(r) \/ ModelFails(r) \/ TimesOut(r) \/ AssistantRefused(r)
            \/ TraceFailed(r) \/ FetchContext(r) \/ Drop(r)
            \/ SessionGone(r) \/ SlotRefused(r)
            \/ (Arrive(r) /\ ~open)
            \/ (CheckPending(r) /\ ~(GoOn(r) /\ UNCHANGED work))
            \/ (ReadMessages(r) /\ ChatView(messages) = <<>>)
  <2>1. \E outcome : Return(r, outcome) \/ FailWith(r, outcome)
    BY <1>11 DEF UserRefused, ModelFails, TimesOut, AssistantRefused, TraceFailed,
       FetchContext, Drop, SessionGone, SlotRefused, EndRefused, Arrive, CheckPending,
       ReadMessages
  <2> QED
    BY <1>1, <2>1
<1> QED
  BY <1>4, <1>5, <1>6, <1>7, <1>9, <1>10, <1>11 DEF Serve

\* A step of a request leaves a session that is typed, and known traces and results.
LEMMA RequestLeaves ==
  ASSUME ReportsInv, ReportsInv', LeftTyped, NEW r \in Demos,
         Arrive(r) \/ Serve(r) \/ ModelAnswers(r) \/ ModelFails(r) \/ Drop(r)
  PROVE  LeftTyped'
<1>1. messages' \in Seq(Message) /\ removals' \in Nat /\ answered' \in [Demos -> BOOLEAN]
  BY DEF ReportsInv, DemoDomains
<1>2. open' \in BOOLEAN /\ (~open' => messages' = <<>>)
  <2>1. \/ open' = TRUE
        \/ open' = open /\ (messages' = messages \/ open)
    BY DEF Arrive, Serve, ModelAnswers, ModelFails, Drop, SyncSystemPrompt, AppendUser,
       Store, UserRefused, TraceStarted, CheckPending, ReadMessages, TimesOut,
       AppendAssistant, AssistantRefused, SlotRefused, SessionGone, TraceFailed,
       TraceCompleted, FetchContext, session
  <2> QED
    BY <2>1 DEF LeftTyped
<1>3. traced' \in [Demos -> SUBSET {"started", "failed", "completed"}]
  <2>1. \/ traced' = traced
        \/ PushTrace(r, "started") \/ PushTrace(r, "failed") \/ PushTrace(r, "completed")
    BY DEF Arrive, Serve, ModelAnswers, ModelFails, Drop, SyncSystemPrompt, AppendUser,
       UserRefused, TraceStarted, CheckPending, ReadMessages, TimesOut,
       AppendAssistant, AssistantRefused, SlotRefused, SessionGone, TraceFailed,
       TraceCompleted, FetchContext
  <2>2. ASSUME NEW kind \in {"started", "failed", "completed"}, PushTrace(r, kind)
        PROVE  traced' \in [Demos -> SUBSET {"started", "failed", "completed"}]
    BY <2>2 DEF PushTrace, LeftTyped
  <2> QED
    BY <2>1, <2>2 DEF LeftTyped
<1>4. result' \in [Demos -> Outcomes]
  <2>1. ASSUME NEW outcome \in Outcomes, Return(r, outcome) \/ FailWith(r, outcome)
        PROVE  result' \in [Demos -> Outcomes]
    BY <2>1 DEF Return, FailWith, LeftTyped
  <2>2. result[r] \in Outcomes
    BY DEF LeftTyped
  <2>3. \/ result' = result
        \/ \E outcome \in Outcomes : Return(r, outcome) \/ FailWith(r, outcome)
    BY <2>2
       DEF Arrive, Serve, ModelAnswers, ModelFails, Drop, SyncSystemPrompt, AppendUser,
       UserRefused, TraceStarted, CheckPending, ReadMessages, TimesOut,
       AppendAssistant, AssistantRefused, SlotRefused, SessionGone, TraceFailed,
       TraceCompleted, FetchContext, EndRefused, Outcomes, Errors
  <2> QED
    BY <2>1, <2>3 DEF LeftTyped
<1> QED
  BY <1>1, <1>2, <1>3, <1>4 DEF LeftTyped

LEMMA StepDemoTypes ==
  ASSUME ReportsInv, WorkTyped, LeftTyped, [Next]_vars
  PROVE  WorkTyped' /\ LeftTyped'
<1>0. ReportsInv'
  BY StepReports
<1>1. ASSUME NEW r \in Demos,
             Arrive(r) \/ Serve(r) \/ ModelAnswers(r) \/ ModelFails(r) \/ Drop(r)
      PROVE  WorkTyped' /\ LeftTyped'
  BY <1>0, <1>1, RequestWorks, RequestLeaves
<1>2. CASE RemoveSession \/ \E m \in Requests : AppendMessage(m) \/ AppendRejected(m)
  <2>1. UNCHANGED <<at, work, traced, result, answered>>
    BY <1>2 DEF RemoveSession, AppendMessage, AppendRejected
  <2>2. open' \in BOOLEAN /\ (~open' => messages' = <<>>)
    BY <1>2 DEF RemoveSession, AppendMessage, AppendRejected, Store
  <2>3. messages' \in Seq(Message) /\ removals' \in Nat
    BY <1>0 DEF ReportsInv, DemoDomains
  <2> QED
    BY <2>1, <2>2, <2>3 DEF work, WorkTyped, LeftTyped
<1>3. CASE UNCHANGED vars
  BY <1>3 DEF vars, session, work, WorkTyped, LeftTyped
<1> QED
  BY <1>1, <1>2, <1>3 DEF Next

LEMMA InitDemoTypes ==
  Init => ReportsInv /\ WorkTyped /\ LeftTyped
<1> SUFFICES ASSUME Init PROVE WorkTyped /\ LeftTyped
  BY InitReports
<1>1. messages \in Seq(Message) /\ removals \in Nat /\ <<>> \in Seq(Message)
  BY InitReports DEF ReportsInv, DemoDomains
<1>2. WorkTyped
  BY <1>1 DEF Init, WorkTyped, Steps
<1>3. LeftTyped
  BY <1>1 DEF Init, LeftTyped, Outcomes
<1> QED
  BY <1>2, <1>3

\* Every request is at a step of its handler, is shown messages of the session
\* before it calls the model and has the model's answer when it appends one, and
\* the conversation is one of well-formed messages, for any number of requests
\* and whatever the other clients append (demo.rs:111-479).
THEOREM DemoTypesHold == Spec => []DemoTypeOK
<1>1. ReportsInv /\ WorkTyped /\ LeftTyped /\ [Next]_vars
        => (ReportsInv /\ WorkTyped /\ LeftTyped)'
  BY StepReports, StepDemoTypes
<1>2. WorkTyped /\ LeftTyped => DemoTypeOK
  BY TypesInParts
<1> QED
  BY <1>1, <1>2, InitDemoTypes, PTL DEF Spec
=============================================================================
