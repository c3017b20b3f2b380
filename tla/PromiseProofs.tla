---------------------------- MODULE PromiseProofs ----------------------------
(***************************************************************************)
(* Theorems about what a client of one session sees: tool calls and their  *)
(* results stay together over every compaction, nothing else is lost, the  *)
(* session implements ContextLog, compression is invisible to the          *)
(* validator, due compressions start, turns add up, and no conversation is *)
(* stuck.                                                                  *)
(***************************************************************************)
EXTENDS SessionProofs

\* Clients put tool fields only where the role has them, which the validator does
\* not ask of them (validator.rs:129).
FieldsInPlace == \A r \in Requests : Placed(r)

-----------------------------------------------------------------------------
(* The operators of ContextLog are those of Session, met by another name.  *)

LEMMA SameMessages ==
  ASSUME NEW m
  PROVE  /\ Promise!Calls(m) = Calls(m)
         /\ Promise!CallSet(m) = CallSet(m)
         /\ Promise!HasToolCalls(m) = HasToolCalls(m)
         /\ Promise!IsAssistantFinal(m) = IsAssistantFinal(m)
         /\ Promise!IsContextSummary(m) = IsContextSummary(m)
         /\ Promise!Classify(m) = Classify(m)
         /\ Promise!SystemText(m) = SystemText(m)
<1>1. Promise!Calls(m) = Calls(m)
  BY DEF Promise!Calls, Calls
<1>2. Promise!CallSet(m) = CallSet(m)
  BY <1>1 DEF Promise!CallSet, CallSet
<1>3. Promise!HasToolCalls(m) = HasToolCalls(m)
  BY <1>1 DEF Promise!HasToolCalls, HasToolCalls
<1>4. Promise!IsAssistantFinal(m) = IsAssistantFinal(m)
  BY <1>3 DEF Promise!IsAssistantFinal, IsAssistantFinal
<1>5. Promise!IsContextSummary(m) = IsContextSummary(m)
  BY DEF Promise!IsContextSummary, IsContextSummary
<1>6. Promise!Classify(m) = Classify(m)
  BY <1>3 DEF Promise!Classify, Classify
<1>7. Promise!SystemText(m) = SystemText(m)
  BY DEF Promise!SystemText, SystemText
<1> QED
  BY <1>1, <1>2, <1>3, <1>4, <1>5, <1>6, <1>7

LEMMA SameParts ==
  ASSUME NEW v
  PROVE  /\ Promise!PreserveHead(v) = PreserveHead(v)
         /\ Promise!Body(v) = Body(v)
         /\ Promise!SummaryOf(v) = SummaryOf(v)
         /\ \A p : Promise!WithPrompt(v, p) = WithPrompt(v, p)
         /\ \A k : Promise!Summarized(v, k) = Summarized(v, k)
<1>1. Promise!HasHead(v) = HasHead(v)
  BY SameMessages DEF Promise!HasHead, HasHead
<1>2. Promise!PreserveHead(v) = PreserveHead(v) /\ Promise!Body(v) = Body(v)
  BY <1>1 DEF Promise!PreserveHead, PreserveHead, Promise!Body, Body
<1>3. \A w : Promise!SummaryOf(w) = SummaryOf(w)
  BY DEF Promise!SummaryOf, SummaryOf
<1>4. \A p : Promise!WithPrompt(v, p) = WithPrompt(v, p)
  BY <1>2, SameMessages DEF Promise!WithPrompt, WithPrompt
<1>5. \A k : Promise!Summarized(v, k) = Summarized(v, k)
  BY <1>2, <1>3 DEF Promise!Summarized, Summarized
<1> QED
  BY <1>2, <1>3, <1>4, <1>5

LEMMA SameJudgements ==
  ASSUME NEW v
  PROVE  /\ \A m : Promise!ValidateAppend(v, m) = ValidateAppend(v, m)
         /\ Promise!AllToolCallsResolved(v) = AllToolCallsResolved(v)
         /\ \A k : Promise!TurnsAfter(v, k) = TurnsAfter(v, k)
<1>1. Promise!IssuedIds(v) = IssuedIds(v) /\ Promise!ResolvedIds(v) = ResolvedIds(v)
  BY SameMessages DEF Promise!IssuedIds, IssuedIds, Promise!ResolvedIds, ResolvedIds
<1>2. Promise!LastState(v) = LastState(v)
  BY SameMessages DEF Promise!LastState, LastState
<1>3. ASSUME NEW m
      PROVE  Promise!ValidateAppend(v, m) = ValidateAppend(v, m)
  <2>1. Promise!ValidToolResult(v, m) = ValidToolResult(v, m)
    BY <1>1 DEF Promise!ValidToolResult, ValidToolResult
  <2>2. Promise!ValidAssistant(v, m) = ValidAssistant(v, m)
    BY <1>1, SameMessages DEF Promise!ValidAssistant, ValidAssistant
  <2>3. Promise!ValidToolFields(v, m) = ValidToolFields(v, m)
    BY <2>1, <2>2 DEF Promise!ValidToolFields, ValidToolFields
  <2>4. Promise!AllowedTransitions = AllowedTransitions
    BY DEF Promise!AllowedTransitions, AllowedTransitions
  <2> QED
    BY <1>2, <2>3, <2>4, SameMessages DEF Promise!ValidateAppend, ValidateAppend
<1>4. \A S : Promise!Cardinality(S) = Cardinality(S)
  BY DEF Promise!Cardinality, Cardinality
<1>5. ASSUME NEW c
      PROVE  /\ Promise!IssuedCount(v, c) = IssuedCount(v, c)
             /\ Promise!ResolvedCount(v, c) = ResolvedCount(v, c)
  BY <1>4, SameMessages
     DEF Promise!IssuedCount, IssuedCount, Promise!ResolvedCount, ResolvedCount
<1>6. Promise!AllToolCallsResolved(v) = AllToolCallsResolved(v)
  BY <1>5 DEF Promise!AllToolCallsResolved, AllToolCallsResolved
<1>7. Promise!FinalIndices(v) = FinalIndices(v)
  BY SameMessages DEF Promise!FinalIndices, FinalIndices
<1>8. \A k : Promise!TurnsAfter(v, k) = TurnsAfter(v, k)
  BY <1>4, <1>7 DEF Promise!TurnsAfter, TurnsAfter
<1> QED
  BY <1>3, <1>6, <1>8

-----------------------------------------------------------------------------
(* The session implements ContextLog.                                      *)

\* Only a buffer that is not empty is compressed, so the head of the view is the
\* head of the stable buffer whatever is pending.
StableFirst == is_compressing => stable # <<>>

ViewPaired == Paired(View)

PromiseInv == FlightInv /\ StableFirst /\ ViewPaired

LEMMA ViewType ==
  ASSUME TypeOK
  PROVE  View \in Seq(Message) /\ log \in Seq(Message)
BY DEF TypeOK, View

\* A plan ends with a turn, so a merge counts one at least (scheduler.rs:122).
LEMMA PlanCountsTurns ==
  ASSUME NEW s \in Seq(Message), NEW keep \in Nat, s # <<>>,
         IsAssistantFinal(s[Len(s)]), HasPlan(s, keep)
  PROVE  CompressedTurnsDelta(s, keep) \in Nat \ {0}
<1> DEFINE d == DeltaBody(s)
           n == SplitIndex(d, keep)
           c == SubSeq(d, 1, n)
<1>1. n \in 1 .. Len(d) /\ IsAssistantFinal(d[n])
  BY SplitEndsTurn
<1>2. d \in Seq(Message) /\ Len(d) \in Nat
  BY PlanParts, LenProperties
<1>3. Compressible(s, keep) = c
  BY DEF Compressible
<1> HIDE DEF d, n
<1>4. c \in Seq(Message) /\ DOMAIN c = 1 .. n /\ c[n] = d[n]
  BY <1>1, <1>2, PrefixIndex
<1>5. Len(c) = n
  BY <1>1, <1>2, <1>4, LenProperties
<1> HIDE DEF c
<1>6. n \in FinalIndices(c)
  BY <1>1, <1>2, <1>4, <1>5 DEF FinalIndices
<1>7. IsFiniteSet(FinalIndices(c)) /\ CountCompletedTurns(c) \in Nat
  BY <1>4, TurnsAreCounted
<1>8. CountCompletedTurns(c) # 0
  BY <1>6, <1>7, FS_EmptySet DEF CountCompletedTurns
<1> QED
  BY <1>3, <1>7, <1>8 DEF CompressedTurnsDelta

\* A merged result compacts the view (scheduler.rs:108-128).
LEMMA MergeFreshCompacts ==
  ASSUME FlightInv, NEW t \in tasks, MergeFresh(t)
  PROVE  /\ log' = log /\ compressed_turns' > 0
         /\ \E k \in 1 .. Len(Body(View)) :
              /\ View' = Summarized(View, k)
              /\ IsAssistantFinal(Body(View)[k])
              /\ TurnsAfter(Body(View), k) >= KeepRecent
<1>1. /\ TypeOK /\ t.messages = stable
      /\ IsAtTurnBoundary(stable) /\ HasPlan(stable, KeepRecent)
  BY DEF FlightInv, SnapshotFresh, SnapshotCompressible, MergeFresh
<1>2. /\ stable \in Seq(Message) /\ pending \in Seq(Message) /\ KeepRecent \in Nat
      /\ stable # <<>> /\ IsAssistantFinal(stable[Len(stable)])
  BY <1>1, ConstantTypes DEF TypeOK, IsAtTurnBoundary
<1>3. PICK k \in 1 .. Len(Body(stable \o pending)) :
        /\ NewStable(stable, KeepRecent) \o pending = Summarized(stable \o pending, k)
        /\ IsAssistantFinal(Body(stable \o pending)[k])
        /\ TurnsAfter(Body(stable \o pending), k) >= KeepRecent
  BY <1>1, <1>2, MergeIsCompaction
<1>4. stable' = NewStable(stable, KeepRecent) \o pending /\ pending' = <<>> /\ log' = log
  BY <1>1 DEF MergeFresh, DrainInto, EndCompression
<1>5. View' = stable'
  <2>1. stable' \in Seq(Message)
    BY <1>1, MergeTypes DEF TypeOK
  <2> QED
    BY <1>4, <2>1, ConcatEmptySeq DEF View
<1>6. compressed_turns' > 0
  <2> DEFINE delta == CompressedTurnsDelta(stable, KeepRecent)
  <2>1. delta \in Nat \ {0}
    BY <1>1, <1>2, PlanCountsTurns
  <2>2. compressed_turns' = SaturatingAdd(compressed_turns, delta)
    BY <1>1 DEF MergeFresh
  <2>3. compressed_turns \in Nat /\ MaxU32 \in Nat \ {0}
    BY <1>1, ConfigAssumption DEF TypeOK, ConfigAssumption
  <2> HIDE DEF delta
  <2> QED
    BY <2>1, <2>2, <2>3 DEF SaturatingAdd
<1> QED
  BY <1>3, <1>4, <1>5, <1>6 DEF View

\* A message put in either buffer comes last in the view (append.rs:56-63).
LEMMA AppendedToView ==
  ASSUME TypeOK, SingleFlight, NEW r \in Requests, AppendMessage(r)
  PROVE  View' = Append(View, Arrived(r))
<1>0. stable \in Seq(Message) /\ pending \in Seq(Message) /\ log \in Seq(Message)
  BY DEF TypeOK
<1> DEFINE m == Arrived(r)
<1>1. m \in Message /\ StoreMessage(m)
  BY <1>0, ArrivedIsMessage DEF AppendMessage
<1> HIDE DEF m
<1>2. CASE is_compressing
  <2>1. stable' = stable /\ pending' = Append(pending, m)
    BY <1>1, <1>2 DEF StoreMessage
  <2>2. stable \o Append(pending, m) = Append(stable \o pending, m)
    <3>1. <<m>> \in Seq(Message) /\ stable \o pending \in Seq(Message)
      BY <1>0, <1>1
    <3>2. Append(pending, m) = pending \o <<m>>
      BY <1>0, <1>1, AppendIsConcat
    <3>3. Append(stable \o pending, m) = (stable \o pending) \o <<m>>
      BY <1>1, <3>1, AppendIsConcat
    <3>4. (stable \o pending) \o <<m>> = stable \o (pending \o <<m>>)
      BY <1>0, <3>1, ConcatAssociative
    <3> QED
      BY <3>2, <3>3, <3>4
  <2> QED
    BY <2>1, <2>2 DEF View, m
<1>3. CASE ~is_compressing
  <2>1. stable' = Append(stable, m) /\ pending' = <<>> /\ pending = <<>>
    BY <1>0, <1>1, <1>3 DEF StoreMessage, SingleFlight
  <2>2. Append(stable, m) \in Seq(Message)
    BY <1>0, <1>1, AppendProperties
  <2>3. stable \o <<>> = stable /\ Append(stable, m) \o <<>> = Append(stable, m)
    BY <1>0, <2>2, ConcatEmptySeq
  <2> QED
    BY <2>1, <2>3 DEF View, m
<1> QED
  BY <1>2, <1>3

\* What a step does to the view and the log: the message, the prompt, a
\* compaction, or nothing that is seen; turns are compacted in the third alone.
LEMMA StepOfView ==
  ASSUME FlightInv, StableFirst, [Next]_vars
  PROVE  \/ \E r \in Requests : AppendMessage(r) /\ View' = Append(View, Arrived(r))
         \/ \E p \in Prompts : /\ View' = WithPrompt(View, p) /\ log' = WithPrompt(log, p)
                               /\ compressed_turns' = compressed_turns
         \/ /\ log' = log /\ compressed_turns' > 0
            /\ \E k \in 1 .. Len(Body(View)) :
                 /\ View' = Summarized(View, k)
                 /\ IsAssistantFinal(Body(View)[k])
                 /\ TurnsAfter(Body(View), k) >= KeepRecent
         \/ View' = View /\ log' = log /\ compressed_turns' = compressed_turns
<1>1. /\ TypeOK /\ SingleFlight
      /\ stable \in Seq(Message) /\ pending \in Seq(Message) /\ log \in Seq(Message)
  BY DEF FlightInv, TypeOK
<1>2. ASSUME NEW r \in Requests, AppendMessage(r)
      PROVE  View' = Append(View, Arrived(r))
  BY <1>1, <1>2, AppendedToView
<1>3. ASSUME NEW p \in Prompts, SyncSystemPrompt(p)
      PROVE  /\ View' = WithPrompt(View, p) /\ log' = WithPrompt(log, p)
             /\ compressed_turns' = compressed_turns
  <2>1. /\ stable' = WithPrompt(stable, p) /\ pending' = pending /\ log' = WithPrompt(log, p)
        /\ compressed_turns' = compressed_turns
    BY <1>3 DEF SyncSystemPrompt
  <2>2. stable # <<>> \/ pending = <<>>
    BY <1>1 DEF StableFirst, SingleFlight
  <2>3. Body(View) = Body(stable) \o pending
    BY <1>1, <2>2, BodyOfConcat DEF View
  <2>4. (<<SystemText(p)>> \o Body(stable)) \o pending = <<SystemText(p)>> \o (Body(stable) \o pending)
    <3> DEFINE s == <<SystemText(p)>>
    <3>1. SystemText(p) \in Message
      BY DEF SystemText, Message, Roles, Texts
    <3>2. s \in Seq(Message) /\ Body(stable) \in Seq(Message)
      BY <1>1, <3>1, PlanParts, ConstantTypes
    <3> HIDE DEF s
    <3>3. (s \o Body(stable)) \o pending = s \o (Body(stable) \o pending)
      BY <1>1, <3>2, ConcatAssociative
    <3> QED
      BY <3>3 DEF s
  <2> QED
    BY <2>1, <2>3, <2>4 DEF View, WithPrompt
<1>4. ASSUME NEW t \in tasks, MergeStale(t) \/ MergeFailed(t)
      PROVE  View' = View /\ log' = log /\ compressed_turns' = compressed_turns
  <2>1. /\ stable' = View /\ pending' = <<>> /\ log' = log
        /\ compressed_turns' = compressed_turns
    BY <1>4 DEF MergeStale, MergeFailed, KeepStable, DrainInto, EndCompression, View
  <2>2. View \o <<>> = View
    BY <1>1, ViewType, ConcatEmptySeq
  <2> QED
    BY <2>1, <2>2 DEF View
<1>5. ASSUME NEW t \in tasks, AttemptSucceeds(t) \/ AttemptFails(t)
      PROVE  View' = View /\ log' = log /\ compressed_turns' = compressed_turns
  BY <1>5 DEF AttemptSucceeds, AttemptFails, SessionUnchanged, View
<1>6. ASSUME UNCHANGED vars
      PROVE  View' = View /\ log' = log /\ compressed_turns' = compressed_turns
  BY <1>6 DEF vars, View
<1> QED
  BY <1>2, <1>3, <1>4, <1>5, <1>6, MergeFreshCompacts DEF Next, TaskStep, AppendRejected

\* The empty session, and the one with a prompt, are paired.
LEMMA InitPromise == Init => PromiseInv /\ Promise!Init
<1> SUFFICES ASSUME Init PROVE PromiseInv /\ Promise!Init
  OBVIOUS
<1>1. FlightInv /\ TypeOK
  BY InitFlight DEF FlightInv
<1>2. View = stable /\ log = stable
  <2>1. stable \in Seq(Message) /\ pending = <<>> /\ log = stable
    BY <1>1 DEF Init, TypeOK
  <2> QED
    BY <2>1, ConcatEmptySeq DEF View
<1>3. Paired(stable)
  <2>1. Paired(<<>>)
    BY DEF Paired, FieldsPlaced, ToolsNameCalls, CallsDistinct, IssuedOnce, ResolvedOnce,
           ResultsFollow, AnswersClose, FinalIndices
  <2>2. \A p \in Prompts : WithPrompt(<<>>, p) = <<SystemText(p)>>
    <3>1. Body(<<>>) = <<>>
      BY DEF Body, HasHead
    <3>2. \A p \in Prompts : SystemText(p) \in Message
      BY DEF SystemText, Message, Roles, Texts
    <3>3. \A p \in Prompts : <<SystemText(p)>> \o <<>> = <<SystemText(p)>>
      <4> SUFFICES ASSUME NEW p \in Prompts PROVE <<SystemText(p)>> \o <<>> = <<SystemText(p)>>
        OBVIOUS
      <4>1. <<SystemText(p)>> \in Seq(Message)
        BY <3>2
      <4> QED
        BY <4>1, ConcatEmptySeq
    <3> QED
      BY <3>1, <3>3 DEF WithPrompt
  <2>3. \A p \in Prompts : Paired(WithPrompt(<<>>, p))
    <3> DEFINE e == <<>>
    <3>1. e \in Seq(Message) /\ Paired(e)
      BY <2>1
    <3> HIDE DEF e
    <3>2. \A p \in Prompts : Paired(WithPrompt(e, p))
      BY <3>1, PairedAfterPrompt
    <3> QED
      BY <3>2 DEF e
  <2> QED
    BY <2>1, <2>2, <2>3 DEF Init
<1>4. Promise!Init
  BY <1>2, SameMessages DEF Init, Promise!Init
<1> QED
  BY <1>1, <1>2, <1>3, <1>4 DEF PromiseInv, StableFirst, ViewPaired, Init

\* The stable buffer is never emptied.
LEMMA StepStableFirst == FlightInv /\ StableFirst /\ [Next]_vars => StableFirst'
<1> SUFFICES ASSUME FlightInv, StableFirst, [Next]_vars, is_compressing'
             PROVE  stable' # <<>>
  BY DEF StableFirst
<1>1. /\ TypeOK /\ SingleFlight /\ (is_compressing => stable # <<>>)
      /\ stable \in Seq(Message)
  BY DEF FlightInv, StableFirst, TypeOK
<1>2. ASSUME NEW r \in Requests, AppendMessage(r)
      PROVE  stable' # <<>>
  <2>1. Arrived(r) \in Message /\ StoreMessage(Arrived(r))
    BY <1>1, <1>2, ArrivedIsMessage DEF AppendMessage, TypeOK
  <2> QED
    BY <1>1, <2>1, AppendProperties DEF StoreMessage
<1>3. ASSUME NEW p \in Prompts, SyncSystemPrompt(p)
      PROVE  stable' # <<>>
  <2>1. SystemText(p) \in Message /\ Body(stable) \in Seq(Message)
    BY <1>1, PlanParts, ConstantTypes DEF SystemText, Message, Roles, Texts
  <2>2. <<SystemText(p)>> \o Body(stable) # <<>>
    BY <2>1
  <2> QED
    BY <1>3, <2>2 DEF SyncSystemPrompt, WithPrompt
<1>4. ASSUME NEW t \in tasks, MergeStale(t) \/ MergeFresh(t) \/ MergeFailed(t)
      PROVE  FALSE
  BY <1>4 DEF MergeStale, MergeFresh, MergeFailed, EndCompression
<1>5. ASSUME NEW t \in tasks, AttemptSucceeds(t) \/ AttemptFails(t)
      PROVE  stable' # <<>>
  BY <1>1, <1>5 DEF AttemptSucceeds, AttemptFails, SessionUnchanged
<1>6. ASSUME UNCHANGED vars
      PROVE  stable' # <<>>
  BY <1>1, <1>6 DEF vars
<1> QED
  BY <1>2, <1>3, <1>4, <1>5, <1>6 DEF Next, TaskStep, AppendRejected

LEMMA ArrivedIsPlaced ==
  ASSUME FieldsInPlace, NEW r \in Requests
  PROVE  Placed(Arrived(r))
<1>1. r \in Message /\ Placed(r)
  BY ConfigAssumption DEF ConfigAssumption, FieldsInPlace
<1>2. /\ Arrived(r).role = r.role /\ Arrived(r).tool_calls = r.tool_calls
      /\ Arrived(r).tool_call_id = r.tool_call_id
  BY <1>1 DEF Arrived, Message
<1> QED
  BY <1>1, <1>2 DEF Placed, Calls

\* Pairing is kept by what a step does to the view.
LEMMA StepPaired == FieldsInPlace /\ PromiseInv /\ [Next]_vars => ViewPaired'
<1> SUFFICES ASSUME FieldsInPlace, PromiseInv, [Next]_vars PROVE Paired(View')
  BY DEF ViewPaired
<1>1. /\ FlightInv /\ StableFirst /\ Paired(View)
      /\ View \in Seq(Message) /\ log \in Seq(Message)
  BY ViewType DEF PromiseInv, FlightInv, ViewPaired
<1>2. ASSUME NEW r \in Requests, AppendMessage(r), View' = Append(View, Arrived(r))
      PROVE  Paired(View')
  <2>1. Arrived(r) \in Message /\ ValidateAppend(View, Arrived(r))
    BY <1>1, <1>2, ArrivedIsMessage DEF AppendMessage
  <2>2. Placed(Arrived(r))
    BY ArrivedIsPlaced
  <2> QED
    BY <1>1, <1>2, <2>1, <2>2, PairedAfterAppend
<1>3. ASSUME NEW p \in Prompts, View' = WithPrompt(View, p)
      PROVE  Paired(View')
  BY <1>1, <1>3, PairedAfterPrompt
<1>4. ASSUME NEW k \in 1 .. Len(Body(View)), View' = Summarized(View, k),
             IsAssistantFinal(Body(View)[k])
      PROVE  Paired(View')
  BY <1>1, <1>4, PairedAfterCompaction
<1>5. ASSUME View' = View
      PROVE  Paired(View')
  BY <1>1, <1>5
<1> QED
  BY <1>1, <1>2, <1>3, <1>4, <1>5, StepOfView

LEMMA StepPromiseInv == FieldsInPlace /\ PromiseInv /\ [Next]_vars => PromiseInv'
BY StepFlight, StepStableFirst, StepPaired DEF PromiseInv

\* Every step of the session is a step of ContextLog or is not seen in it.
LEMMA StepSimulates ==
  FieldsInPlace /\ PromiseInv /\ [Next]_vars => [Promise!Next]_(Promise!vars)
<1> SUFFICES ASSUME FieldsInPlace, PromiseInv, [Next]_vars
             PROVE  Promise!Next \/ (View' = View /\ log' = log)
  BY DEF Promise!vars
<1>1. /\ FlightInv /\ StableFirst /\ Paired(View) /\ View \in Seq(Message)
  BY ViewType DEF PromiseInv, FlightInv, ViewPaired
<1>2. ASSUME NEW r \in Requests, AppendMessage(r), View' = Append(View, Arrived(r))
      PROVE  Promise!Accept(r)
  <2>1. Promise!Arrived(log, r) = Arrived(r)
    BY DEF Promise!Arrived, Arrived
  <2> QED
    BY <1>2, <2>1, SameJudgements DEF AppendMessage, Promise!Accept
<1>3. ASSUME NEW p \in Prompts, View' = WithPrompt(View, p), log' = WithPrompt(log, p)
      PROVE  Promise!SetPrompt(p)
  BY <1>3, SameParts DEF Promise!SetPrompt
<1>4. ASSUME NEW k \in 1 .. Len(Body(View)), log' = log, View' = Summarized(View, k),
             IsAssistantFinal(Body(View)[k]), TurnsAfter(Body(View), k) >= KeepRecent
      PROVE  Promise!Compact(k)
  <2> DEFINE b == Body(View)
  <2>1. b \in Seq(Message) /\ Paired(b)
    BY <1>1, PairedBody, PlanParts, ConstantTypes
  <2>2. k \in FinalIndices(b)
    BY <1>4 DEF FinalIndices
  <2> HIDE DEF b
  <2>3. AllToolCallsResolved(SubSeq(b, 1, k))
    BY <2>1, <2>2, ClosedPrefix
  <2>4. Promise!Body(View) = b
    BY SameParts DEF b
  <2>5. /\ Promise!AllToolCallsResolved(SubSeq(b, 1, k))
        /\ Promise!TurnsAfter(b, k) >= KeepRecent
        /\ Promise!IsAssistantFinal(b[k])
        /\ View' = Promise!Summarized(View, k)
    BY <1>4, <2>3, SameJudgements, SameMessages, SameParts DEF b
  <2> QED
    BY <1>4, <2>4, <2>5 DEF Promise!Compact
<1>5. Promise!Body(View) = Body(View)
  BY SameParts
<1> QED
  BY <1>1, <1>2, <1>3, <1>4, <1>5, StepOfView DEF Promise!Next

\* A session keeps the promise of ContextLog, whatever the requests, as long as
\* clients put tool fields where their role has them: its buffers, revisions,
\* attempts and failures are unseen, a merge is one compaction of whole old turns.
THEOREM KeepsPromiseHolds == FieldsInPlace => (Spec => KeepsPromise)
<1> SUFFICES ASSUME FieldsInPlace PROVE Spec => KeepsPromise
  OBVIOUS
<1>1. Init => PromiseInv /\ Promise!Init
  BY InitPromise
<1>2. PromiseInv /\ [Next]_vars => PromiseInv'
  BY StepPromiseInv
<1>3. PromiseInv /\ [Next]_vars => [Promise!Next]_(Promise!vars)
  BY StepSimulates
<1> QED
  BY <1>1, <1>2, <1>3, PTL DEF Spec, KeepsPromise, Promise!Spec

\* What is in view stays a conversation a model accepts, as long as clients put
\* tool fields where their role has them.
THEOREM ToolCallsPairedHolds == FieldsInPlace => (Spec => []ToolCallsPaired)
<1> SUFFICES ASSUME FieldsInPlace PROVE Spec => []ToolCallsPaired
  OBVIOUS
<1>1. Init => PromiseInv
  BY InitPromise
<1>2. PromiseInv /\ [Next]_vars => PromiseInv'
  BY StepPromiseInv
<1>3. PromiseInv => ToolCallsPaired
  <2> SUFFICES ASSUME PromiseInv PROVE ToolCallsPaired
    OBVIOUS
  <2> DEFINE v == View
  <2>1. Paired(v) /\ v \in Seq(Message)
    BY ViewType DEF PromiseInv, FlightInv, ViewPaired
  <2> HIDE DEF v
  <2>2. DOMAIN v = 1 .. Len(v) /\ Len(v) \in Nat
    BY <2>1, Basics
  <2>3. ASSUME NEW n \in 0 .. Len(v)
        PROVE  DOMAIN SubSeq(v, 1, n) = 1 .. n /\ \A i \in 1 .. n : SubSeq(v, 1, n)[i] = v[i]
    BY <2>1, <2>2
  <2>4. ASSUME NEW j \in DOMAIN v, v[j].role = "tool"
        PROVE  v[j].tool_call_id \in IssuedIds(SubSeq(v, 1, j - 1))
    <3>1. v[j].tool_call_id # None
      BY <2>1, <2>4 DEF Paired, ToolsNameCalls
    <3>2. PICK i \in DOMAIN v : i < j /\ v[j].tool_call_id \in CallSet(v[i])
      BY <2>1, <3>1 DEF Paired, ResultsFollow
    <3>3. j - 1 \in 0 .. Len(v) /\ i \in 1 .. j - 1
      BY <2>2, <3>2
    <3>4. i \in DOMAIN SubSeq(v, 1, j - 1) /\ SubSeq(v, 1, j - 1)[i] = v[i]
      BY <2>3, <3>3
    <3> QED
      BY <3>2, <3>4, IdsOf
  <2>5. ASSUME NEW f \in FinalIndices(v)
        PROVE  IssuedIds(SubSeq(v, 1, f)) = ResolvedIds(SubSeq(v, 1, f))
    <3> DEFINE w == SubSeq(v, 1, f)
    <3>1. f \in 0 .. Len(v) /\ DOMAIN w = 1 .. f /\ \A i \in 1 .. f : w[i] = v[i]
      BY <2>2, <2>3 DEF FinalIndices
    <3> HIDE DEF w
    <3>2. ASSUME NEW c, c \in IssuedIds(w)
          PROVE  c \in ResolvedIds(w)
      <4>1. PICK i \in 1 .. f : c \in CallSet(v[i])
        BY <3>1, <3>2, IdsOf
      <4>2. i \in DOMAIN v /\ c \in CallIds /\ c # None
        BY <2>1, <2>2, <3>1, <4>1, Basics
      <4>3. PICK j \in DOMAIN v : j <= f /\ v[j].tool_call_id = c
        BY <2>1, <4>1, <4>2 DEF Paired, AnswersClose, Whole
      <4>4. j \in DOMAIN w /\ w[j].tool_call_id = c
        BY <2>2, <3>1, <4>3
      <4> QED
        BY <4>2, <4>4, IdsOf
    <3>3. ASSUME NEW c, c \in ResolvedIds(w)
          PROVE  c \in IssuedIds(w)
      <4>1. c # None
        BY <3>3, IdsOf
      <4>2. PICK j \in 1 .. f : v[j].tool_call_id = c
        BY <3>1, <3>3, IdsOf
      <4>3. PICK i \in DOMAIN v : i < j /\ c \in CallSet(v[i])
        BY <2>1, <2>2, <3>1, <4>1, <4>2 DEF Paired, ResultsFollow
      <4>4. i \in DOMAIN w /\ c \in CallSet(w[i])
        BY <2>2, <3>1, <4>3
      <4> QED
        BY <4>4, IdsOf
    <3> QED
      BY <3>2, <3>3 DEF w
  <2> QED
    BY <2>4, <2>5 DEF ToolCallsPaired, v
<1> QED
  BY <1>1, <1>2, <1>3, PTL DEF Spec

-----------------------------------------------------------------------------
(* Nothing is lost, and recent turns are kept.                             *)

\* The view is the log until turns are compacted, and from then on the log with
\* its first k messages compacted: whole turns, of which enough follow.
Compacted(k) ==
  /\ View = Summarized(log, k)
  /\ IsAssistantFinal(Body(log)[k])
  /\ TurnsAfter(Body(log), k) >= KeepRecent

LogKept ==
  IF compressed_turns = 0 THEN View = log ELSE \E k \in 1 .. Len(Body(log)) : Compacted(k)

LogInv == FlightInv /\ StableFirst /\ LogKept

LEMMA StepLog == LogInv /\ [Next]_vars => LogInv'
<1> SUFFICES ASSUME LogInv, [Next]_vars PROVE LogKept'
  BY StepFlight, StepStableFirst DEF LogInv
<1>1. /\ FlightInv /\ StableFirst /\ LogKept
      /\ View \in Seq(Message) /\ log \in Seq(Message) /\ KeepRecent \in Nat
      /\ compressed_turns \in Nat
  BY ViewType, ConstantTypes DEF LogInv, FlightInv, TypeOK
<1>2. ASSUME NEW r \in Requests, AppendMessage(r), View' = Append(View, Arrived(r))
      PROVE  LogKept'
  <2> DEFINE m == Arrived(r)
             one == <<m>>
  <2>1. m \in Message /\ log' = Append(log, m)
    BY <1>1, <1>2, ArrivedIsMessage DEF AppendMessage
  <2>2. one \in Seq(Message) /\ Append(log, m) = log \o one /\ Append(View, m) = View \o one
    BY <1>1, <2>1, AppendIsConcat
  <2>3. View' = View \o one /\ log' = log \o one /\ compressed_turns' = compressed_turns
    BY <1>2, <2>1, <2>2 DEF AppendMessage
  <2> HIDE DEF m, one
  <2>4. CASE compressed_turns = 0
    BY <1>1, <2>3, <2>4 DEF LogKept
  <2>5. CASE compressed_turns # 0
    <3>1. PICK k \in 1 .. Len(Body(log)) : Compacted(k)
      BY <1>1, <2>5 DEF LogKept
    <3>2. log # <<>>
      <4>1. Body(<<>>) = <<>> /\ Len(<<>>) = 0
        BY DEF Body, HasHead
      <4> QED
        BY <3>1, <4>1
    <3>3. /\ Summarized(log, k) \o one = Summarized(log \o one, k)
          /\ k \in 1 .. Len(Body(log \o one)) /\ Body(log \o one)[k] = Body(log)[k]
          /\ TurnsAfter(Body(log), k) \in Nat /\ TurnsAfter(Body(log \o one), k) \in Nat
          /\ TurnsAfter(Body(log \o one), k) >= TurnsAfter(Body(log), k)
      BY <1>1, <2>2, <3>2, SummarizedThenMore
    <3>4. /\ View \o one = Summarized(log \o one, k)
          /\ IsAssistantFinal(Body(log \o one)[k])
          /\ TurnsAfter(Body(log \o one), k) >= KeepRecent
      BY <1>1, <3>1, <3>3 DEF Compacted
    <3> QED
      BY <2>3, <2>5, <3>3, <3>4 DEF LogKept, Compacted
  <2> QED
    BY <2>4, <2>5
<1>3. ASSUME NEW p \in Prompts, View' = WithPrompt(View, p), log' = WithPrompt(log, p),
             compressed_turns' = compressed_turns
      PROVE  LogKept'
  <2>1. CASE compressed_turns = 0
    BY <1>1, <1>3, <2>1 DEF LogKept
  <2>2. CASE compressed_turns # 0
    <3>1. PICK k \in 1 .. Len(Body(log)) : Compacted(k)
      BY <1>1, <2>2 DEF LogKept
    <3> DEFINE sum  == SummaryOf(SubSeq(Body(log), 1, k))
               rest == SubSeq(Body(log), k + 1, Len(Body(log)))
               head == <<SystemText(p)>>
               one  == <<sum>>
    <3>2. sum \in Message /\ rest \in Seq(Message) /\ Body(View) = one \o rest
      BY <1>1, <3>1, PartsOfSummarized DEF Compacted
    <3>3. PreserveHead(log') = head /\ Body(log') = Body(log)
      BY <1>1, <1>3, PartsOfPrompt
    <3>4. head \in Seq(Message) /\ one \in Seq(Message)
      BY <3>2 DEF SystemText, Message, Roles, Texts
    <3>5. View' = head \o (one \o rest)
      BY <1>3, <3>2 DEF WithPrompt
    <3>6. Summarized(log', k) = (head \o one) \o rest
      BY <3>3 DEF Summarized
    <3> HIDE DEF head, one, rest
    <3>7. (head \o one) \o rest = head \o (one \o rest)
      <4>1. \A x, y, z \in Seq(Message) : (x \o y) \o z = x \o (y \o z)
        BY ConcatAssociative
      <4> QED
        BY <3>2, <3>4, <4>1
    <3>8. View' = Summarized(log', k)
      BY <3>5, <3>6, <3>7
    <3> QED
      BY <1>3, <2>2, <3>1, <3>3, <3>8 DEF LogKept, Compacted
  <2> QED
    BY <2>1, <2>2
<1>4. ASSUME log' = log, compressed_turns' > 0,
             NEW j \in 1 .. Len(Body(View)), View' = Summarized(View, j),
             IsAssistantFinal(Body(View)[j]), TurnsAfter(Body(View), j) >= KeepRecent
      PROVE  LogKept'
  <2>0. compressed_turns' # 0
    BY <1>4
  <2>1. CASE compressed_turns = 0
    <3>1. View = log
      BY <1>1, <2>1 DEF LogKept
    <3> QED
      BY <1>4, <2>0, <3>1 DEF LogKept, Compacted
  <2>2. CASE compressed_turns # 0
    <3>1. PICK k \in 1 .. Len(Body(log)) : Compacted(k)
      BY <1>1, <2>2 DEF LogKept
    <3>2. View = Summarized(log, k)
      BY <3>1 DEF Compacted
    <3> DEFINE n == k + j - 1
    <3>3. /\ n \in 1 .. Len(Body(log))
          /\ Summarized(View, j) = Summarized(log, n)
          /\ IsAssistantFinal(Body(log)[n])
          /\ TurnsAfter(Body(View), j) \in Nat /\ TurnsAfter(Body(log), n) \in Nat
          /\ TurnsAfter(Body(log), n) >= TurnsAfter(Body(View), j)
      BY <1>1, <1>4, <3>2, SummarizedTwice
    <3> HIDE DEF n
    <3>4. TurnsAfter(Body(log), n) >= KeepRecent
      BY <1>1, <1>4, <3>3
    <3> QED
      BY <1>4, <2>0, <3>3, <3>4 DEF LogKept, Compacted
  <2> QED
    BY <2>1, <2>2
<1>5. ASSUME View' = View, log' = log, compressed_turns' = compressed_turns
      PROVE  LogKept'
  BY <1>1, <1>5 DEF LogKept, Compacted
<1> QED
  BY <1>1, <1>2, <1>3, <1>4, <1>5, StepOfView

LEMMA InitLog == Init => LogInv
<1> SUFFICES ASSUME Init PROVE LogInv
  OBVIOUS
<1>1. FlightInv /\ StableFirst
  BY InitPromise DEF PromiseInv
<1>2. stable \in Seq(Message) /\ pending = <<>> /\ log = stable
  BY <1>1 DEF Init, FlightInv, TypeOK
<1>3. View = log
  BY <1>2, ConcatEmptySeq DEF View
<1> QED
  BY <1>1, <1>3 DEF LogInv, LogKept, Init

LEMMA LogHolds == Spec => []LogInv
BY InitLog, StepLog, PTL DEF Spec

\* The view is the log, or the log with its first messages replaced by one
\* summary of all of them, whatever clients send and compressions do.
THEOREM NothingLostHolds == Spec => []NothingLost
<1>1. LogInv => NothingLost
  BY DEF LogInv, LogKept, Compacted, NothingLost
<1> QED
  BY <1>1, LogHolds, PTL

\* The last keep_recent_turns turns, and what came after them, are in view word
\* for word, at their place from the end.
THEOREM RecentTurnsKeptHolds == Spec => []RecentTurnsKept
<1>1. LogInv => RecentTurnsKept
  <2> SUFFICES ASSUME LogInv, NEW i \in DOMAIN log,
                      Cardinality({j \in FinalIndices(log) : j >= i}) <= KeepRecent
               PROVE  /\ Len(log) - i < Len(View)
                      /\ View[Len(View) - (Len(log) - i)] = log[i]
    BY DEF RecentTurnsKept
  <2>1. /\ LogKept /\ log \in Seq(Message) /\ Len(log) \in Nat /\ DOMAIN log = 1 .. Len(log)
        /\ KeepRecent \in Nat
    BY ViewType, ConstantTypes, LenProperties DEF LogInv, FlightInv
  <2>2. CASE View = log
    BY <2>1, <2>2
  <2>3. CASE \E k \in 1 .. Len(Body(log)) : Compacted(k)
    <3>1. PICK k \in 1 .. Len(Body(log)) : Compacted(k)
      BY <2>3
    <3> DEFINE B == Body(log)
               H == PreserveHead(log)
               sum == SummaryOf(SubSeq(B, 1, k))
               one == <<sum>>
               rest == SubSeq(B, k + 1, Len(B))
    <3>2. PICK h \in {0, 1} :
            /\ h <= Len(log) /\ Len(B) = Len(log) - h /\ B \in Seq(Message)
            /\ Len(H) = h /\ H \in Seq(Message)
            /\ \A x \in 1 .. Len(log) - h : B[x] = log[h + x]
      BY <2>1, HeadAndBody
    <3>3. one \in Seq(Message) /\ Len(one) = 1
      <4>1. sum \in Message
        BY <2>1, PartsOfSummarized
      <4> HIDE DEF sum
      <4> QED
        BY <4>1
    <3>4. View = (H \o one) \o rest
      BY <3>1 DEF Compacted, Summarized
    <3>5. IsAssistantFinal(B[k]) /\ TurnsAfter(B, k) >= KeepRecent
      BY <3>1 DEF Compacted
    <3>6. h \in Nat /\ k \in Nat /\ k \in 1 .. Len(B) /\ k \in 0 .. Len(B) /\ i \in 1 .. Len(log)
      BY <2>1
    <3> HIDE DEF B, H, one
    <3>7. /\ rest \in Seq(Message) /\ Len(rest) = Len(B) - k
          /\ \A x \in 1 .. Len(B) - k : rest[x] = B[k + x]
      BY <3>2, <3>6, SuffixIndex
    <3> HIDE DEF rest
    <3>8. /\ H \o one \in Seq(Message) /\ Len(H \o one) = h + 1
      <4>1. H \in Seq(Message) /\ one \in Seq(Message) /\ Len(H) = h /\ Len(one) = 1
        BY <3>2, <3>3
      <4>2. H \o one \in Seq(Message) /\ Len(H \o one) = Len(H) + Len(one)
        BY <4>1, ConcatProperties
      <4> QED
        BY <4>1, <4>2
    <3>9. /\ Len(View) = (h + 1) + (Len(B) - k)
          /\ \A x \in 1 .. Len(B) - k : View[(h + 1) + x] = rest[x]
      <4> DEFINE front == H \o one
      <4>1. front \in Seq(Message) /\ Len(front) = h + 1 /\ View = front \o rest
        BY <3>4, <3>8
      <4> HIDE DEF front
      <4>2. /\ Len(front \o rest) = Len(front) + Len(rest)
            /\ \A x \in 1 .. Len(rest) : (front \o rest)[Len(front) + x] = rest[x]
        BY <3>7, <4>1, ConcatIndex
      <4> QED
        BY <3>7, <4>1, <4>2
    <3>10. i > h + k
      <4>1. SUFFICES ASSUME i <= h + k PROVE FALSE
        BY <3>6
      <4> DEFINE S == {j \in FinalIndices(B) : j > k}
                 T == {j \in FinalIndices(log) : j >= i}
                 U == S \cup {k}
                 f == [x \in U |-> h + x]
      <4>2. IsFiniteSet(S) /\ IsFiniteSet(T) /\ k \notin S
        <5>1. IsFiniteSet(FinalIndices(B)) /\ IsFiniteSet(FinalIndices(log))
          BY <2>1, <3>2, TurnsAreCounted
        <5> QED
          BY <5>1, FS_Subset
      <4>3. IsFiniteSet(U) /\ Cardinality(U) = Cardinality(S) + 1 /\ Cardinality(S) \in Nat
            /\ Cardinality(T) \in Nat
        <5> HIDE DEF S, T
        <5> QED
          BY <4>2, FS_AddElement, FS_CardinalityType
      <4>4. ASSUME NEW x \in U
            PROVE  h + x \in T
        <5>1. x \in 1 .. Len(B) /\ x >= k /\ IsAssistantFinal(B[x])
          BY <3>5, <3>6 DEF FinalIndices
        <5>2. h + x \in 1 .. Len(log) /\ h + x >= i /\ x \in 1 .. Len(log) - h
          BY <2>1, <3>2, <3>6, <4>1, <5>1
        <5>3. log[h + x] = B[x]
          BY <3>2, <5>2
        <5> QED
          BY <5>1, <5>2, <5>3 DEF FinalIndices
      <4>5. f \in Injection(U, T)
        <5>1. f \in [U -> T]
          BY <4>4
        <5>2. \A x, y \in U : f[x] = f[y] => x = y
          BY <3>6 DEF FinalIndices
        <5> QED
          BY <5>1, <5>2 DEF Injection, IsInjective
      <4>6. Cardinality(U) <= Cardinality(T)
        <5> HIDE DEF U, T, f
        <5> QED
          BY <4>2, <4>5, FS_Injection
      <4>7. Cardinality(S) >= KeepRecent /\ Cardinality(T) <= KeepRecent
        BY <3>5 DEF TurnsAfter
      <4> HIDE DEF S, T, U
      <4> QED
        BY <2>1, <4>3, <4>6, <4>7
    <3> DEFINE x == i - h - k
    <3>11. /\ x \in 1 .. Len(B) - k /\ k + x \in 1 .. Len(log) - h /\ h + (k + x) = i
           /\ Len(View) - (Len(log) - i) = (h + 1) + x /\ Len(log) - i < Len(View)
      <4>1. Len(log) \in Nat /\ i \in Nat /\ i <= Len(log)
        BY <2>1, <3>6
      <4>2. Len(B) = Len(log) - h /\ h \in Nat /\ k \in Nat
        BY <3>2, <3>6
      <4>3. Len(View) = (h + 1) + (Len(B) - k) /\ i > h + k
        BY <3>9, <3>10
      <4>4. /\ x \in Int /\ x >= 1 /\ x <= Len(log) - h - k
            /\ k + x >= 1 /\ k + x <= Len(log) - h /\ h + (k + x) = i
        BY <4>1, <4>2, <4>3
      <4>5. Len(B) - k = Len(log) - h - k /\ Len(View) = Len(log) + 1 - k
        BY <4>1, <4>2, <4>3
      <4>6. Len(View) - (Len(log) - i) = (h + 1) + x /\ Len(log) - i < Len(View)
        BY <4>1, <4>2, <4>3, <4>5
      <4> HIDE DEF x
      <4> QED
        BY <4>1, <4>2, <4>4, <4>5, <4>6
    <3>12. View[(h + 1) + x] = B[k + x] /\ B[k + x] = log[h + (k + x)]
      <4> HIDE DEF x
      <4> QED
        BY <3>2, <3>7, <3>9, <3>11
    <3> QED
      BY <3>11, <3>12
  <2> QED
    BY <2>1, <2>2, <2>3 DEF LogKept
<1> QED
  BY <1>1, LogHolds, PTL

-----------------------------------------------------------------------------
(* What a fetch reports of the summary.                                    *)

\* A conversation without summaries has one when it is compacted: what stands for
\* its first messages (compressor.rs:148).
LEMMA OneSummary ==
  ASSUME NEW s \in Seq(Message), NEW k \in 1 .. Len(Body(s)),
         \A i \in DOMAIN s : ~s[i].summary
  PROVE  \E n \in Nat :
           {i \in DOMAIN Summarized(s, k) : Summarized(s, k)[i].summary} = {n}
<1> DEFINE sum  == SummaryOf(SubSeq(Body(s), 1, k))
           rest == SubSeq(Body(s), k + 1, Len(Body(s)))
           front == PreserveHead(s) \o <<sum>>
           w == Summarized(s, k)
<1>1. PICK h \in {0, 1} :
        /\ h <= Len(s) /\ Len(PreserveHead(s)) = h /\ Len(Body(s)) = Len(s) - h
        /\ PreserveHead(s) \in Seq(Message) /\ Body(s) \in Seq(Message)
        /\ h = 1 => PreserveHead(s)[1] = s[1]
        /\ \A i \in 1 .. Len(s) - h : Body(s)[i] = s[h + i]
  BY HeadAndBody
<1>2. /\ sum \in Message /\ rest \in Seq(Message) /\ w \in Seq(Message)
      /\ w = front \o rest /\ sum.summary
  BY PartsOfSummarized DEF Summarized, SummaryOf
<1>3. DOMAIN s = 1 .. Len(s) /\ Len(s) \in Nat
  BY Basics
<1>4. /\ Len(rest) = Len(s) - h - k
      /\ \A i \in 1 .. Len(s) - h - k : rest[i] = s[h + k + i]
  <2>1. k \in 0 .. Len(Body(s)) /\ Len(Body(s)) \in Nat
    BY <1>1, <1>3
  <2>2. /\ Len(rest) = Len(Body(s)) - k
        /\ \A i \in 1 .. Len(Body(s)) - k : rest[i] = Body(s)[k + i]
    BY <1>1, <2>1, SuffixIndex
  <2> HIDE DEF rest
  <2>3. ASSUME NEW i \in 1 .. Len(s) - h - k
        PROVE  rest[i] = s[h + k + i]
    <3>1. i \in 1 .. Len(Body(s)) - k /\ k + i \in 1 .. Len(s) - h /\ h + (k + i) = h + k + i
      BY <1>1, <1>3, <2>1
    <3>2. rest[i] = Body(s)[k + i] /\ Body(s)[k + i] = s[h + (k + i)]
      BY <1>1, <2>2, <3>1
    <3> QED
      BY <3>1, <3>2
  <2>4. Len(rest) = Len(s) - h - k
    BY <1>1, <1>3, <2>1, <2>2
  <2> QED
    BY <2>3, <2>4
<1> HIDE DEF sum, rest
<1>5. /\ front \in Seq(Message) /\ Len(front) = h + 1
      /\ front[h + 1] = sum /\ \A i \in 1 .. h : front[i] = s[i]
  <2> DEFINE one == <<sum>>
             H   == PreserveHead(s)
  <2>1. one \in Seq(Message) /\ Len(one) = 1 /\ one[1] = sum
    BY <1>2
  <2> HIDE DEF one, H
  <2>2. H \in Seq(Message) /\ Len(H) = h /\ (h = 1 => H[1] = s[1])
    BY <1>1 DEF H
  <2>3. /\ H \o one \in Seq(Message) /\ Len(H \o one) = Len(H) + Len(one)
        /\ \A i \in 1 .. Len(H) : (H \o one)[i] = H[i]
        /\ \A i \in 1 .. Len(one) : (H \o one)[Len(H) + i] = one[i]
    BY <2>1, <2>2, ConcatIndex
  <2>4. front = H \o one
    BY DEF H, one
  <2> HIDE DEF front
  <2>5. \A i \in 1 .. h : i = 1 /\ h = 1
    BY <1>1
  <2> QED
    BY <1>1, <2>1, <2>2, <2>3, <2>4, <2>5
<1> HIDE DEF front
<1>6. /\ Len(w) = Len(s) - k + 1 /\ DOMAIN w = 1 .. Len(w)
      /\ w[h + 1] = sum
      /\ \A i \in 1 .. h : w[i] = s[i]
      /\ \A i \in 1 .. Len(s) - h - k : w[h + 1 + i] = s[h + k + i]
  <2>1. /\ Len(front \o rest) = h + 1 + Len(rest)
        /\ \A i \in 1 .. h + 1 : (front \o rest)[i] = front[i]
        /\ \A i \in 1 .. Len(rest) : (front \o rest)[h + 1 + i] = rest[i]
    BY <1>2, <1>5, ConcatIndex
  <2>2. Len(w) = Len(s) - k + 1 /\ DOMAIN w = 1 .. Len(w)
    BY <1>1, <1>2, <1>3, <1>4, <2>1, Basics
  <2>3. w[h + 1] = sum /\ \A i \in 1 .. h : w[i] = s[i]
    <3>1. \A i \in 1 .. h + 1 : w[i] = front[i]
      BY <1>2, <2>1
    <3>2. h + 1 \in 1 .. h + 1 /\ \A i \in 1 .. h : i \in 1 .. h + 1
      BY <1>1
    <3> QED
      BY <1>5, <3>1, <3>2
  <2>4. \A i \in 1 .. Len(s) - h - k : w[h + 1 + i] = s[h + k + i]
    BY <1>2, <1>4, <2>1
  <2> QED
    BY <2>2, <2>3, <2>4
<1> HIDE DEF w
<1>7. ASSUME NEW i \in DOMAIN w, i # h + 1
      PROVE  ~w[i].summary
  <2>1. CASE i <= h
    <3>1. i \in 1 .. h /\ i \in DOMAIN s
      BY <1>1, <1>3, <1>6, <2>1
    <3> QED
      BY <1>6, <3>1
  <2>2. CASE i > h + 1
    <3> DEFINE j == i - h - 1
    <3>1. i \in Int /\ k \in Int /\ k >= 1 /\ i <= Len(s) - k + 1
      BY <1>1, <1>3, <1>6
    <3>2. h \in Int /\ 0 <= h
      BY <1>1
    <3>3. j \in 1 .. Len(s) - h - k /\ h + 1 + j = i /\ h + k + j \in DOMAIN s
      BY <1>3, <2>2, <3>1, <3>2
    <3>4. w[h + 1 + j] = s[h + k + j]
      BY <1>6, <3>3
    <3> QED
      BY <3>3, <3>4
  <2> QED
    BY <1>1, <1>6, <1>7, <2>1, <2>2
<1>8. h + 1 \in DOMAIN w
  BY <1>1, <1>3, <1>6
<1>9. {i \in DOMAIN w : w[i].summary} = {h + 1}
  BY <1>2, <1>6, <1>7, <1>8
<1>10. h + 1 \in Nat
  BY <1>1
<1> QED
  BY <1>9, <1>10 DEF w

\* A fetch reports one summary from the first compacted turn on, and none before,
\* if no client sends a message that starts with the prefix.
THEOREM SummaryReportedHolds == Spec => []SummaryReported
<1>1. LogInv => SummaryReported
  <2> SUFFICES ASSUME LogInv, \A i \in DOMAIN log : ~log[i].summary
               PROVE  FetchContext.summary_message_count
                        = (IF compressed_turns > 0 THEN 1 ELSE 0)
    BY DEF SummaryReported
  <2> DEFINE S == {i \in DOMAIN View : View[i].summary}
             n == Cardinality(S)
             a == LastTrace({"triggered"})
             e == LastTrace({"succeeded", "failed"})
             d == IF next_compress_at > turn_count THEN next_compress_at - turn_count ELSE 0
  <2>1. FetchContext =
          [turns_until_compression |-> d, summary_message_count |-> n,
           last_compression_triggered_at |-> a, last_compression_finished_at |-> e]
    BY DEF FetchContext
  <2>2. /\ LogKept /\ log \in Seq(Message) /\ compressed_turns \in Nat
    BY ViewType DEF LogInv, FlightInv, TypeOK
  <2>3. CASE compressed_turns = 0
    <3>1. S = {}
      BY <2>2, <2>3 DEF LogKept
    <3>2. n = 0
      BY <3>1, FS_EmptySet
    <3> HIDE DEF n, a, e, d
    <3> QED
      BY <2>1, <2>3, <3>2
  <2>4. CASE compressed_turns # 0
    <3>1. PICK k \in 1 .. Len(Body(log)) : View = Summarized(log, k)
      BY <2>2, <2>4 DEF LogKept, Compacted
    <3>2. PICK i \in Nat : S = {i}
      BY <2>2, <3>1, OneSummary
    <3>3. n = 1
      BY <3>2, FS_Singleton
    <3> HIDE DEF n, a, e, d
    <3> QED
      BY <2>1, <2>2, <2>4, <3>3
  <2> QED
    BY <2>3, <2>4
<1> QED
  BY <1>1, LogHolds, PTL

-----------------------------------------------------------------------------
(* Compression is invisible to the validator.                              *)

Bare(m) == CallSet(m) = {} /\ m.tool_call_id = None

\* Results follow their calls, and final answers leave none open; ids may have
\* been used again.
Settled(v) == FieldsPlaced(v) /\ ResultsFollow(v) /\ AnswersClose(v)

HeadPlaced(v) == \A i \in DOMAIN PreserveHead(v) : Placed(PreserveHead(v)[i])

LEMMA SystemIsBare ==
  ASSUME NEW m, m.role = "system", Placed(m)
  PROVE  Bare(m)
<1>1. Calls(m) = <<>> /\ m.tool_call_id = None
  BY DEF Placed
<1> QED
  BY <1>1 DEF Bare, CallSet

\* Which messages of a conversation, and of its compaction, are in the body.
LEMMA WhereFrom ==
  ASSUME NEW v \in Seq(Message), HeadPlaced(v), NEW k \in 1 .. Len(Body(v))
  PROVE  LET b == Body(v)
             w == Summarized(v, k)
         IN  /\ b \in Seq(Message) /\ w \in Seq(Message) /\ v # <<>> /\ w # <<>>
             /\ \A i \in DOMAIN v : Bare(v[i]) \/ \E x \in DOMAIN b : v[i] = b[x]
             /\ \A x, y \in DOMAIN b : x # y =>
                  \E i, j \in DOMAIN v : i # j /\ v[i] = b[x] /\ v[j] = b[y]
             /\ \A x \in DOMAIN b : \E i \in DOMAIN v : v[i] = b[x]
             /\ \A i \in DOMAIN w : Bare(w[i]) \/ \E y \in DOMAIN b : y > k /\ w[i] = b[y]
             /\ \A y \in DOMAIN b : y > k => \E i \in DOMAIN w : w[i] = b[y]
             /\ v[Len(v)] = b[Len(b)]
             /\ k < Len(b) => w[Len(w)] = b[Len(b)]
             /\ k = Len(b) => w[Len(w)].role = "system"
<1> DEFINE b == Body(v)
           w == Summarized(v, k)
<1>1. PICK h \in {0, 1} :
        /\ h <= Len(v) /\ h + k \in 1 .. Len(v)
        /\ Len(b) = Len(v) - h /\ b \in Seq(Message)
        /\ h = 1 => v[1].role = "system" /\ Placed(v[1])
        /\ \A i \in 1 .. Len(v) - h : b[i] = v[h + i]
        /\ w \in Seq(Message) /\ Len(w) = (h + 1) + Len(v) - (h + k)
        /\ \A i \in 1 .. h + 1 : w[i].role = "system" /\ Placed(w[i])
        /\ \A i \in 1 .. Len(v) - (h + k) : w[(h + 1) + i] = v[(h + k) + i]
  BY CompactionPlaces DEF HeadPlaced
<1>2. k \in 1 .. Len(b)
  OBVIOUS
<1> HIDE DEF b, w
<1>3. /\ Len(v) \in Nat /\ Len(b) \in Nat /\ Len(w) \in Nat
      /\ DOMAIN v = 1 .. Len(v) /\ DOMAIN b = 1 .. Len(b) /\ DOMAIN w = 1 .. Len(w)
      /\ h \in Nat /\ k \in Nat /\ k >= 1 /\ k <= Len(b)
  <2>1. b \in Seq(Message) /\ w \in Seq(Message) /\ h \in Nat
    BY <1>1
  <2>2. /\ Len(v) \in Nat /\ Len(b) \in Nat /\ Len(w) \in Nat
        /\ DOMAIN v = 1 .. Len(v) /\ DOMAIN b = 1 .. Len(b) /\ DOMAIN w = 1 .. Len(w)
    BY <2>1, Basics
  <2> QED
    BY <1>2, <2>1, <2>2
<1>0. Len(b) = Len(v) - h /\ Len(w) = (h + 1) + Len(v) - (h + k)
  BY <1>1
<1>4. ASSUME NEW x \in DOMAIN b
      PROVE  h + x \in DOMAIN v /\ v[h + x] = b[x]
  <2>1. x \in 1 .. Len(v) - h
    BY <1>1, <1>3
  <2>2. b[x] = v[h + x]
    BY <1>1, <2>1
  <2> QED
    BY <1>3, <2>1, <2>2
<1>5. ASSUME NEW i \in DOMAIN v
      PROVE  Bare(v[i]) \/ \E x \in DOMAIN b : v[i] = b[x]
  <2>1. CASE i <= h
    <3>1. i = 1 /\ h = 1
      BY <1>3, <2>1
    <3> QED
      BY <1>1, <3>1, SystemIsBare
  <2>2. CASE i > h
    <3>1. i - h \in DOMAIN b /\ h + (i - h) = i
      BY <1>1, <1>3, <2>2
    <3>2. v[h + (i - h)] = b[i - h]
      BY <1>4, <3>1
    <3> QED
      BY <3>1, <3>2
  <2> QED
    BY <1>3, <2>1, <2>2
<1>6. \A x, y \in DOMAIN b : x # y =>
        \E i, j \in DOMAIN v : i # j /\ v[i] = b[x] /\ v[j] = b[y]
  <2> SUFFICES ASSUME NEW x \in DOMAIN b, NEW y \in DOMAIN b, x # y
               PROVE  \E i, j \in DOMAIN v : i # j /\ v[i] = b[x] /\ v[j] = b[y]
    OBVIOUS
  <2>1. h + x # h + y
    BY <1>3
  <2> QED
    BY <1>4, <2>1
<1>7. ASSUME NEW y \in DOMAIN b, y > k
      PROVE  \E i \in DOMAIN w : w[i] = b[y] /\ i = h + 1 + (y - k)
  <2>1. /\ y - k \in 1 .. Len(v) - (h + k) /\ (h + k) + (y - k) = h + y
        /\ (h + 1) + (y - k) \in 1 .. Len(w) /\ (h + 1) + (y - k) = h + 1 + (y - k)
    <3>1. /\ y \in Nat /\ y <= Len(v) - h /\ y > k
          /\ h \in Nat /\ k \in Nat /\ Len(v) \in Nat
      BY <1>0, <1>3, <1>7
    <3>2. /\ y - k \in Nat /\ y - k >= 1 /\ y - k <= Len(v) - (h + k)
          /\ (h + k) + (y - k) = h + y /\ (h + 1) + (y - k) = h + 1 + (y - k)
      BY <3>1
    <3>3. (h + 1) + (y - k) <= Len(w)
      BY <1>0, <3>1
    <3>4. y - k \in 1 .. Len(v) - (h + k)
      BY <3>1, <3>2
    <3> DEFINE n == (h + 1) + (y - k)
    <3>5. n \in Nat /\ n >= 1
      BY <3>1, <3>2
    <3> HIDE DEF n
    <3>6. n \in 1 .. Len(w)
      <4>1. n <= Len(w)
        BY <3>3 DEF n
      <4> QED
        BY <1>3, <3>5, <4>1
    <3> QED
      BY <3>2, <3>4, <3>6 DEF n
  <2>2. w[(h + 1) + (y - k)] = v[(h + k) + (y - k)]
    BY <1>1, <2>1
  <2>3. v[h + y] = b[y]
    BY <1>4
  <2> QED
    BY <1>3, <2>1, <2>2, <2>3
<1>8. ASSUME NEW i \in DOMAIN w
      PROVE  Bare(w[i]) \/ \E y \in DOMAIN b : y > k /\ w[i] = b[y]
  <2>1. CASE i <= h + 1
    <3>1. i \in 1 .. h + 1
      BY <1>3, <2>1
    <3> QED
      BY <1>1, <3>1, SystemIsBare
  <2>2. CASE i > h + 1
    <3> DEFINE y == i - (h + 1) + k
    <3>1. y \in DOMAIN b /\ y > k /\ h + 1 + (y - k) = i
      BY <1>0, <1>3, <2>2
    <3> HIDE DEF y
    <3> QED
      BY <1>7, <3>1
  <2> QED
    BY <1>3, <2>1, <2>2
<1>9. v[Len(v)] = b[Len(b)] /\ v # <<>> /\ w # <<>>
  <2>1. Len(b) \in DOMAIN b /\ h + Len(b) = Len(v)
    BY <1>0, <1>3
  <2>2. Len(v) # 0 /\ Len(w) # 0
    BY <1>0, <1>3
  <2> QED
    BY <1>4, <2>1, <2>2
<1>10. k < Len(b) => w[Len(w)] = b[Len(b)]
  <2>1. k < Len(b) => Len(b) \in DOMAIN b /\ h + 1 + (Len(b) - k) = Len(w)
    BY <1>0, <1>3
  <2> QED
    BY <1>7, <2>1
<1>11. k = Len(b) => w[Len(w)].role = "system"
  <2>1. k = Len(b) => Len(w) = h + 1 /\ Len(w) \in 1 .. h + 1
    BY <1>0, <1>3
  <2> QED
    BY <1>1, <2>1
<1> QED
  BY <1>1, <1>4, <1>5, <1>6, <1>7, <1>8, <1>9, <1>10, <1>11 DEF b, w

\* The ids of a conversation are those of its compaction and those settled in
\* the turns that were compacted.
LEMMA IdsAfterCompaction ==
  ASSUME NEW v \in Seq(Message), HeadPlaced(v), Settled(Body(v)),
         NEW k \in 1 .. Len(Body(v)), IsAssistantFinal(Body(v)[k]),
         NEW c \in CallIds
  PROVE  LET b   == Body(v)
             w   == Summarized(v, k)
             Old == \E x \in DOMAIN b : x <= k /\ c \in CallSet(b[x])
         IN  /\ c \in IssuedIds(v) <=> Old \/ c \in IssuedIds(w)
             /\ c \in ResolvedIds(v) <=> Old \/ c \in ResolvedIds(w)
             /\ Old /\ c \in IssuedIds(w) =>
                  \E i, j \in DOMAIN v : i # j /\ c \in CallSet(v[i]) /\ c \in CallSet(v[j])
<1> DEFINE b   == Body(v)
           w   == Summarized(v, k)
           Old == \E x \in DOMAIN b : x <= k /\ c \in CallSet(b[x])
<1>1. /\ b \in Seq(Message)
      /\ \A i \in DOMAIN v : Bare(v[i]) \/ \E x \in DOMAIN b : v[i] = b[x]
      /\ \A x, y \in DOMAIN b : x # y =>
           \E i, j \in DOMAIN v : i # j /\ v[i] = b[x] /\ v[j] = b[y]
      /\ \A x \in DOMAIN b : \E i \in DOMAIN v : v[i] = b[x]
      /\ \A i \in DOMAIN w : Bare(w[i]) \/ \E y \in DOMAIN b : y > k /\ w[i] = b[y]
      /\ \A y \in DOMAIN b : y > k => \E i \in DOMAIN w : w[i] = b[y]
  BY WhereFrom
<1>2. k \in 1 .. Len(b) /\ IsAssistantFinal(b[k]) /\ Settled(b)
  OBVIOUS
<1> HIDE DEF b, w
<1>3. DOMAIN b = 1 .. Len(b) /\ Len(b) \in Nat /\ c # None
  BY <1>1, Basics
<1>4. \A x \in DOMAIN b : x <= k \/ x > k
  BY <1>2, <1>3
<1>5. Old <=> \E x \in DOMAIN b : x <= k /\ b[x].tool_call_id = c
  <2>1. Whole(b, k)
    BY <1>2 DEF Settled, AnswersClose, FinalIndices
  <2>2. Old => \E x \in DOMAIN b : x <= k /\ b[x].tool_call_id = c
    BY <2>1 DEF Whole
  <2>3. ASSUME NEW x \in DOMAIN b, x <= k, b[x].tool_call_id = c
        PROVE  Old
    <3>1. PICK y \in DOMAIN b : y < x /\ c \in CallSet(b[y])
      BY <1>2, <1>3, <2>3 DEF Settled, ResultsFollow
    <3>2. y <= k
      BY <1>2, <1>3, <2>3, <3>1
    <3> QED
      BY <3>1, <3>2
  <2> QED
    BY <2>2, <2>3
<1>6. c \in IssuedIds(v) <=> \E x \in DOMAIN b : c \in CallSet(b[x])
  BY <1>1, IdsOf DEF Bare
<1>7. c \in ResolvedIds(v) <=> \E x \in DOMAIN b : b[x].tool_call_id = c
  BY <1>1, <1>3, IdsOf DEF Bare
<1>8. c \in IssuedIds(w) <=> \E x \in DOMAIN b : x > k /\ c \in CallSet(b[x])
  BY <1>1, IdsOf DEF Bare
<1>9. c \in ResolvedIds(w) <=> \E x \in DOMAIN b : x > k /\ b[x].tool_call_id = c
  BY <1>1, <1>3, IdsOf DEF Bare
<1>10. ASSUME Old, c \in IssuedIds(w)
       PROVE  \E i, j \in DOMAIN v : i # j /\ c \in CallSet(v[i]) /\ c \in CallSet(v[j])
  <2>1. PICK x \in DOMAIN b : x <= k /\ c \in CallSet(b[x])
    BY <1>10
  <2>2. PICK y \in DOMAIN b : y > k /\ c \in CallSet(b[y])
    BY <1>8, <1>10
  <2>3. x # y
    BY <1>2, <1>3, <2>1, <2>2
  <2> QED
    BY <1>1, <2>1, <2>2, <2>3
<1> QED
  BY <1>4, <1>5, <1>6, <1>7, <1>8, <1>9, <1>10 DEF b, w

\* The last message before and after a compaction lets the same messages follow.
LEMMA LastAfterCompaction ==
  ASSUME NEW v \in Seq(Message), HeadPlaced(v), NEW k \in 1 .. Len(Body(v)),
         IsAssistantFinal(Body(v)[k]), NEW m \in Message
  PROVE  <<LastState(Summarized(v, k)), Classify(m)>> \in AllowedTransitions
           <=> <<LastState(v), Classify(m)>> \in AllowedTransitions
<1> DEFINE b == Body(v)
           w == Summarized(v, k)
<1>1. /\ b \in Seq(Message) /\ v # <<>> /\ w # <<>> /\ v[Len(v)] = b[Len(b)]
      /\ k < Len(b) => w[Len(w)] = b[Len(b)]
      /\ k = Len(b) => w[Len(w)].role = "system"
  BY WhereFrom
<1>2. k \in 1 .. Len(b) /\ IsAssistantFinal(b[k])
  OBVIOUS
<1> HIDE DEF b, w
<1>3. Len(b) \in Nat
  BY <1>1, Basics
<1>4. CASE k < Len(b)
  <2>1. LastState(w) = LastState(v)
    BY <1>1, <1>4 DEF LastState
  <2> QED
    BY <2>1 DEF b, w
<1>5. CASE k = Len(b)
  <2>1. LastState(w) = "System"
    BY <1>1, <1>5 DEF LastState, Classify
  <2>2. LastState(v) = "AssistantFinal"
    BY <1>1, <1>2, <1>5 DEF LastState, Classify, IsAssistantFinal
  <2>3. \A s : /\ <<"System", s>> \in AllowedTransitions <=> s = "User"
               /\ <<"AssistantFinal", s>> \in AllowedTransitions <=> s = "User"
    BY DEF AllowedTransitions
  <2> QED
    BY <2>1, <2>2, <2>3 DEF b, w
<1> QED
  BY <1>2, <1>3, <1>4, <1>5

\* The validator judges a message by what was compacted as by what it has, but
\* for the reuse of a call id.
LEMMA SameJudgementAfterCompaction ==
  ASSUME NEW v \in Seq(Message), HeadPlaced(v), Settled(Body(v)),
         NEW k \in 1 .. Len(Body(v)), IsAssistantFinal(Body(v)[k]),
         NEW m \in Message, UniqueCallIds(Append(v, m))
  PROVE  ValidateAppend(Summarized(v, k), m) <=> ValidateAppend(v, m)
<1> DEFINE w == Summarized(v, k)
           Old(c) == \E x \in DOMAIN Body(v) : x <= k /\ c \in CallSet(Body(v)[x])
<1>1. w \in Seq(Message)
  BY WhereFrom
<1>2. ASSUME NEW c \in CallIds
      PROVE  /\ c \in IssuedIds(v) <=> Old(c) \/ c \in IssuedIds(w)
             /\ c \in ResolvedIds(v) <=> Old(c) \/ c \in ResolvedIds(w)
             /\ Old(c) /\ c \in IssuedIds(w) =>
                  \E i, j \in DOMAIN v : i # j /\ c \in CallSet(v[i]) /\ c \in CallSet(v[j])
  BY IdsAfterCompaction
<1>3. <<LastState(w), Classify(m)>> \in AllowedTransitions
        <=> <<LastState(v), Classify(m)>> \in AllowedTransitions
  BY LastAfterCompaction
<1> HIDE DEF w, Old
<1>4. /\ \A i \in DOMAIN v : i \in DOMAIN Append(v, m) /\ Append(v, m)[i] = v[i] /\ i # Len(v) + 1
      /\ Len(v) + 1 \in DOMAIN Append(v, m) /\ Append(v, m)[Len(v) + 1] = m
  BY Basics, AppendProperties, LenProperties
<1>5. ASSUME NEW c \in CallIds
      PROVE  ~(Old(c) /\ c \in IssuedIds(w)) /\ ~(c \in CallSet(m) /\ c \in IssuedIds(v))
  <2>1. ~(Old(c) /\ c \in IssuedIds(w))
    BY <1>2, <1>4 DEF UniqueCallIds
  <2>2. ASSUME c \in CallSet(m), NEW i \in DOMAIN v, c \in CallSet(v[i])
        PROVE  FALSE
    BY <1>4, <2>2 DEF UniqueCallIds
  <2> QED
    BY <2>1, <2>2, IdsOf
<1>6. /\ IssuedIds(v) \subseteq CallIds /\ IssuedIds(w) \subseteq CallIds
      /\ CallSet(m) \subseteq CallIds
  <2>1. \A u \in Seq(Message) : IssuedIds(u) \subseteq CallIds
    BY Basics DEF IssuedIds
  <2> QED
    BY <1>1, <2>1, Basics
<1>7. ValidToolResult(w, m) <=> ValidToolResult(v, m)
  <2> DEFINE c == m.tool_call_id
  <2>1. c \in IssuedIds(w) \ ResolvedIds(w) <=> c \in IssuedIds(v) \ ResolvedIds(v)
    BY <1>2, <1>5, <1>6
  <2> QED
    BY <2>1 DEF ValidToolResult
<1>8. ValidAssistant(w, m) <=> ValidAssistant(v, m)
  <2>1. IssuedIds(w) \subseteq ResolvedIds(w) <=> IssuedIds(v) \subseteq ResolvedIds(v)
    BY <1>2, <1>5, <1>6
  <2>2. CallSet(m) \cap IssuedIds(w) = {} /\ CallSet(m) \cap IssuedIds(v) = {}
    BY <1>2, <1>5, <1>6
  <2> QED
    BY <2>1, <2>2 DEF ValidAssistant
<1> QED
  BY <1>3, <1>7, <1>8 DEF ValidateAppend, ValidToolFields, w

-----------------------------------------------------------------------------
\* What is settled stays settled when a message comes that answers a call there
\* is, or is a final answer with no call open.
LEMMA SettledAfterAppend ==
  ASSUME NEW v \in Seq(Message), Settled(v), NEW m \in Message, Placed(m),
         m.tool_call_id # None => m.tool_call_id \in IssuedIds(v),
         IsAssistantFinal(m) => IssuedIds(v) \subseteq ResolvedIds(v)
  PROVE  Settled(Append(v, m))
<1> DEFINE w    == Append(v, m)
           last == Len(v) + 1
<1>1. /\ Len(v) \in Nat /\ DOMAIN v = 1 .. Len(v) /\ DOMAIN w = 1 .. last
      /\ w[last] = m /\ \A i \in 1 .. Len(v) : w[i] = v[i]
      /\ w \in Seq(Message) /\ Len(w) = last
  BY Basics, AppendProperties, LenProperties
<1>2. \A i \in DOMAIN v : i \in DOMAIN w /\ w[i] = v[i] /\ i < last
  BY <1>1
<1>3. ASSUME NEW i \in DOMAIN w
      PROVE  (i = last /\ w[i] = m) \/ (i \in DOMAIN v /\ i < last /\ w[i] = v[i])
  <2>1. i \in 1 .. last
    BY <1>1
  <2> HIDE DEF w
  <2> QED
    BY <1>1, <2>1
<1> HIDE DEF w, last
<1>4. FieldsPlaced(w)
  BY <1>3 DEF Settled, FieldsPlaced
<1>5. ResultsFollow(w)
  <2> SUFFICES ASSUME NEW j \in DOMAIN w, w[j].tool_call_id # None
               PROVE  \E i \in DOMAIN w : i < j /\ w[j].tool_call_id \in CallSet(w[i])
    BY DEF ResultsFollow
  <2>1. CASE j = last /\ w[j] = m
    BY <1>2, <2>1, IdsOf
  <2>2. CASE j \in DOMAIN v /\ w[j] = v[j]
    <3>1. PICK i \in DOMAIN v : i < j /\ v[j].tool_call_id \in CallSet(v[i])
      BY <2>2 DEF Settled, ResultsFollow
    <3> QED
      BY <1>2, <2>2, <3>1
  <2> QED
    BY <1>3, <2>1, <2>2
<1>6. AnswersClose(w)
  <2> SUFFICES ASSUME NEW f \in FinalIndices(w), NEW i \in DOMAIN w, NEW c \in CallSet(w[i]), i <= f
               PROVE  \E j \in DOMAIN w : j <= f /\ w[j].tool_call_id = c
    BY DEF AnswersClose, Whole
  <2>1. f \in DOMAIN w /\ IsAssistantFinal(w[f])
    BY <1>1 DEF FinalIndices
  <2>2. CASE f = last /\ w[f] = m
    <3>1. CallSet(m) = {} /\ IsAssistantFinal(m)
      BY <2>1, <2>2 DEF IsAssistantFinal, HasToolCalls, CallSet
    <3>2. i \in DOMAIN v /\ c \in CallSet(v[i])
      BY <1>3, <3>1
    <3>3. c \in ResolvedIds(v)
      BY <3>1, <3>2, IdsOf
    <3>4. PICK j \in DOMAIN v : v[j].tool_call_id = c
      BY <3>3, IdsOf
    <3> QED
      BY <1>1, <1>2, <2>2, <3>4
  <2>3. CASE f \in DOMAIN v /\ w[f] = v[f] /\ f < last
    <3>1. f \in FinalIndices(v)
      BY <1>1, <2>1, <2>3 DEF FinalIndices
    <3>2. i \in DOMAIN v /\ c \in CallSet(v[i])
      BY <1>1, <1>3, <2>3
    <3>3. PICK j \in DOMAIN v : j <= f /\ v[j].tool_call_id = c
      BY <3>1, <3>2 DEF Settled, AnswersClose, Whole
    <3> QED
      BY <1>2, <3>3
  <2> QED
    BY <1>3, <2>1, <2>2, <2>3
<1> QED
  BY <1>4, <1>5, <1>6 DEF Settled, w

\* The head of a conversation neither issues nor resolves a call.
LEMMA IdsOfBody ==
  ASSUME NEW v \in Seq(Message), HeadPlaced(v), NEW c, c # None
  PROVE  /\ c \in IssuedIds(Body(v)) <=> c \in IssuedIds(v)
         /\ c \in ResolvedIds(Body(v)) <=> c \in ResolvedIds(v)
<1> DEFINE b == Body(v)
           H == PreserveHead(v)
<1>1. PICK h \in {0, 1} :
        /\ h <= Len(v) /\ Len(H) = h /\ Len(b) = Len(v) - h
        /\ H \in Seq(Message) /\ b \in Seq(Message)
        /\ h = 1 => v[1].role = "system" /\ H[1] = v[1]
        /\ \A i \in 1 .. Len(v) - h : b[i] = v[h + i]
  BY HeadAndBody
<1>2. h = 1 => Bare(v[1])
  <2>1. h = 1 => 1 \in DOMAIN H
    BY <1>1, Basics
  <2> QED
    BY <1>1, <2>1, SystemIsBare DEF HeadPlaced
<1> HIDE DEF b, H
<1>3. /\ Len(v) \in Nat /\ Len(b) \in Nat
      /\ DOMAIN v = 1 .. Len(v) /\ DOMAIN b = 1 .. Len(b)
  BY <1>1, Basics
<1>4. ASSUME NEW x \in DOMAIN b
      PROVE  h + x \in DOMAIN v /\ v[h + x] = b[x]
  BY <1>1, <1>3
<1>5. ASSUME NEW i \in DOMAIN v
      PROVE  Bare(v[i]) \/ \E x \in DOMAIN b : v[i] = b[x]
  <2>1. CASE i <= h
    <3>1. i = 1 /\ h = 1
      BY <1>1, <1>3, <2>1
    <3> QED
      BY <1>2, <3>1
  <2>2. CASE i > h
    <3>1. i - h \in DOMAIN b /\ h + (i - h) = i
      BY <1>1, <1>3, <2>2
    <3> QED
      BY <1>4, <3>1
  <2> QED
    BY <1>1, <1>3, <2>1, <2>2
<1>6. c \in IssuedIds(b) <=> c \in IssuedIds(v)
  BY <1>4, <1>5, IdsOf DEF Bare
<1>7. c \in ResolvedIds(b) <=> c \in ResolvedIds(v)
  BY <1>4, <1>5, IdsOf DEF Bare
<1> QED
  BY <1>6, <1>7 DEF b

\* The log is settled below its head: what it was compacted to has been.
LogSettled == Settled(Body(log))

SettledInv == PromiseInv /\ LogInv /\ LogSettled

LEMMA PairedHead ==
  ASSUME NEW v \in Seq(Message), FieldsPlaced(v)
  PROVE  HeadPlaced(v)
<1>1. HasHead(v) => 1 \in DOMAIN v
  BY Basics, EmptySeq DEF HasHead
<1> QED
  BY <1>1 DEF HeadPlaced, PreserveHead, FieldsPlaced

\* The head is the same in the log and in the view.
LEMMA HeadOfLog ==
  ASSUME SettledInv
  PROVE  log \in Seq(Message) /\ View \in Seq(Message) /\ HeadPlaced(log)
<1>1. /\ log \in Seq(Message) /\ View \in Seq(Message) /\ FieldsPlaced(View) /\ LogKept
  BY ViewType DEF SettledInv, PromiseInv, LogInv, FlightInv, ViewPaired, Paired
<1>2. HeadPlaced(View)
  BY <1>1, PairedHead
<1>3. PreserveHead(View) = PreserveHead(log)
  BY <1>1, PartsOfSummarized DEF LogKept, Compacted
<1> QED
  BY <1>1, <1>2, <1>3 DEF HeadPlaced

\* The calls that are open in the view are those open in the log.
LEMMA OpenInLog ==
  ASSUME SettledInv, NEW c \in CallIds
  PROVE  /\ c \in IssuedIds(View) => c \in IssuedIds(Body(log))
         /\ IssuedIds(View) \subseteq ResolvedIds(View) /\ c \in IssuedIds(Body(log))
              => c \in ResolvedIds(Body(log))
<1>1. /\ log \in Seq(Message) /\ HeadPlaced(log) /\ c # None
      /\ LogKept /\ Settled(Body(log))
  BY HeadOfLog, Basics DEF SettledInv, LogInv, LogSettled
<1>2. /\ c \in IssuedIds(Body(log)) <=> c \in IssuedIds(log)
      /\ c \in ResolvedIds(Body(log)) <=> c \in ResolvedIds(log)
  BY <1>1, IdsOfBody
<1>3. CASE View = log
  BY <1>2, <1>3
<1>4. CASE \E k \in 1 .. Len(Body(log)) : Compacted(k)
  <2>1. PICK k \in 1 .. Len(Body(log)) : Compacted(k)
    BY <1>4
  <2>2. View = Summarized(log, k) /\ IsAssistantFinal(Body(log)[k])
    BY <2>1 DEF Compacted
  <2> DEFINE Old == \E x \in DOMAIN Body(log) : x <= k /\ c \in CallSet(Body(log)[x])
  <2>3. /\ c \in IssuedIds(log) <=> Old \/ c \in IssuedIds(View)
        /\ c \in ResolvedIds(log) <=> Old \/ c \in ResolvedIds(View)
    BY <1>1, <2>2, IdsAfterCompaction
  <2> HIDE DEF Old
  <2> QED
    BY <1>2, <2>3
<1> QED
  BY <1>1, <1>3, <1>4 DEF LogKept

LEMMA StepSettled == FieldsInPlace /\ SettledInv /\ [Next]_vars => SettledInv'
<1> SUFFICES ASSUME FieldsInPlace, SettledInv, [Next]_vars PROVE Settled(Body(log'))
  BY StepPromiseInv, StepLog DEF SettledInv, LogSettled
<1>1. /\ log \in Seq(Message) /\ View \in Seq(Message) /\ HeadPlaced(log)
      /\ FlightInv /\ StableFirst /\ LogKept /\ Settled(Body(log)) /\ Body(log) \in Seq(Message)
  BY HeadOfLog, PlanParts, ConstantTypes DEF SettledInv, PromiseInv, LogInv, LogSettled
<1>2. ASSUME NEW r \in Requests, AppendMessage(r)
      PROVE  Settled(Body(log'))
  <2> DEFINE m == Arrived(r)
             one == <<m>>
  <2>1. m \in Message /\ ValidateAppend(View, m) /\ log' = Append(log, m)
    BY <1>1, <1>2, ArrivedIsMessage DEF AppendMessage
  <2>2. Placed(m)
    BY ArrivedIsPlaced
  <2> HIDE DEF m
  <2>3. m.tool_call_id # None => m.tool_call_id \in IssuedIds(Body(log))
    <3>1. m.tool_call_id # None => m.role = "tool"
      BY <2>2 DEF Placed
    <3>2. m.tool_call_id # None => m.tool_call_id \in IssuedIds(View)
      BY <2>1, <3>1 DEF ValidateAppend, ValidToolFields, ValidToolResult
    <3>3. m.tool_call_id # None => m.tool_call_id \in CallIds
      BY <2>1 DEF Message
    <3> QED
      BY <3>2, <3>3, OpenInLog
  <2>4. IsAssistantFinal(m) => IssuedIds(Body(log)) \subseteq ResolvedIds(Body(log))
    <3>1. IsAssistantFinal(m) => IssuedIds(View) \subseteq ResolvedIds(View)
      BY <2>1 DEF IsAssistantFinal, ValidateAppend, ValidToolFields, ValidAssistant
    <3>2. IssuedIds(Body(log)) \subseteq CallIds
      BY <1>1, Basics DEF IssuedIds
    <3> QED
      BY <3>1, <3>2, OpenInLog
  <2>5. Settled(Append(Body(log), m))
    BY <1>1, <2>1, <2>2, <2>3, <2>4, SettledAfterAppend
  <2>6. /\ one \in Seq(Message) /\ Append(log, m) = log \o one
        /\ Append(Body(log), m) = Body(log) \o one
    BY <1>1, <2>1, AppendIsConcat
  <2>7. CASE log # <<>>
    <3> HIDE DEF one
    <3>1. Body(log \o one) = Body(log) \o one
      BY <1>1, <2>6, <2>7, BodyOfConcat
    <3> QED
      BY <2>1, <2>5, <2>6, <3>1
  <2>8. CASE log = <<>>
    <3>1. Body(log) = <<>> /\ Append(log, m) = <<m>> /\ Append(Body(log), m) = <<m>>
      BY <2>8 DEF Body, HasHead
    <3>2. Body(<<m>>) = <<m>> \/ Body(<<m>>) = <<>>
      BY DEF Body
    <3>3. Settled(<<>>)
      BY DEF Settled, FieldsPlaced, ResultsFollow, AnswersClose, FinalIndices
    <3> QED
      BY <2>1, <2>5, <3>1, <3>2, <3>3
  <2> QED
    BY <2>7, <2>8
<1>3. ASSUME NEW p \in Prompts, log' = WithPrompt(log, p)
      PROVE  Settled(Body(log'))
  BY <1>1, <1>3, PartsOfPrompt
<1>4. ASSUME log' = log
      PROVE  Settled(Body(log'))
  BY <1>1, <1>4
<1> QED
  BY <1>1, <1>2, <1>3, <1>4, StepOfView

\* Compression is invisible to the validator: a next message is accepted after
\* the compressed view exactly when it is accepted after the whole log, as long
\* as no call id is used twice and tool fields stand where the role has them.
THEOREM CompressionTransparentHolds == FieldsInPlace => (Spec => []CompressionTransparent)
<1> SUFFICES ASSUME FieldsInPlace PROVE Spec => []CompressionTransparent
  OBVIOUS
<1>1. Init => SettledInv
  <2> SUFFICES ASSUME Init PROVE SettledInv
    OBVIOUS
  <2>1. PromiseInv /\ LogInv
    BY InitPromise, InitLog
  <2>2. stable \in Seq(Message) /\ pending = <<>> /\ log = stable /\ FieldsPlaced(View)
    BY <2>1 DEF Init, PromiseInv, FlightInv, TypeOK, ViewPaired, Paired
  <2>3. Body(stable) = <<>>
    <3>1. Body(<<>>) = <<>>
      BY DEF Body, HasHead
    <3>2. ASSUME NEW p \in Prompts
          PROVE  Body(<<SystemText(p)>>) = <<>>
      <4>1. HasHead(<<SystemText(p)>>)
        BY DEF HasHead, SystemText, IsContextSummary
      <4> QED
        BY <4>1 DEF Body
    <3> QED
      BY <3>1, <3>2 DEF Init
  <2>4. Settled(<<>>)
    BY DEF Settled, FieldsPlaced, ResultsFollow, AnswersClose, FinalIndices
  <2> QED
    BY <2>1, <2>2, <2>3, <2>4 DEF SettledInv, LogSettled
<1>2. SettledInv /\ [Next]_vars => SettledInv'
  BY StepSettled
<1>3. SettledInv => CompressionTransparent
  <2> SUFFICES ASSUME SettledInv, NEW r \in Requests, UniqueCallIds(Append(log, r))
               PROVE  ValidateAppend(View, r) <=> ValidateAppend(log, r)
    BY DEF CompressionTransparent
  <2>1. r \in Message /\ log \in Seq(Message) /\ HeadPlaced(log) /\ Settled(Body(log)) /\ LogKept
    BY HeadOfLog, ConfigAssumption DEF ConfigAssumption, SettledInv, LogInv, LogSettled
  <2>2. CASE View = log
    BY <2>2
  <2>3. CASE \E k \in 1 .. Len(Body(log)) : Compacted(k)
    BY <2>1, <2>3, SameJudgementAfterCompaction DEF Compacted
  <2> QED
    BY <2>1, <2>2, <2>3 DEF LogKept
<1> QED
  BY <1>1, <1>2, <1>3, PTL DEF Spec

-----------------------------------------------------------------------------
(* A compression that is due is started.                                   *)

NothingDue ==
  (/\ ~is_compressing /\ IsAtTurnBoundary(View)
   /\ turn_count < MaxU32 /\ next_compress_at <= turn_count)
    => ~HasPlan(stable, KeepRecent)

ThresholdNear == next_compress_at <= turn_count + EveryN

DueInv == PromiseInv /\ NothingDue /\ ThresholdNear

\* No turns to go, as a fetch shows them, means that the count has reached the
\* next compression (fetch.rs:86).
LEMMA DueIsFetched == TypeOK /\ NothingDue /\ ThresholdNear => DueCompressionStarted
<1> SUFFICES ASSUME TypeOK, NothingDue, ThresholdNear
             PROVE  /\ FetchContext.turns_until_compression <= EveryN
                    /\ FetchContext.turns_until_compression = 0
                         => next_compress_at <= turn_count
  BY DEF NothingDue, DueCompressionStarted
<1> DEFINE n == Cardinality({i \in DOMAIN View : View[i].summary})
           a == LastTrace({"triggered"})
           e == LastTrace({"succeeded", "failed"})
           d == IF next_compress_at > turn_count THEN next_compress_at - turn_count ELSE 0
<1>1. FetchContext =
        [turns_until_compression |-> d, summary_message_count |-> n,
         last_compression_triggered_at |-> a, last_compression_finished_at |-> e]
  BY DEF FetchContext
<1> HIDE DEF n, a, e, d
<1>2. FetchContext.turns_until_compression = d
  BY <1>1
<1>3. next_compress_at \in Nat /\ turn_count \in Nat /\ EveryN \in Nat
  BY ConstantTypes DEF TypeOK
<1>4. d <= EveryN /\ (d = 0 => next_compress_at <= turn_count)
  BY <1>3 DEF d, ThresholdNear
<1> QED
  BY <1>2, <1>4

\* A plan is made of the body: another prompt changes neither it nor the end of
\* a turn (demo.rs:507-513).
LEMMA DueAfterPrompt ==
  ASSUME NEW v \in Seq(Message), Paired(v), NEW p \in Prompts
  PROVE  /\ HasPlan(WithPrompt(v, p), KeepRecent) <=> HasPlan(v, KeepRecent)
         /\ IsAtTurnBoundary(WithPrompt(v, p)) => IsAtTurnBoundary(v)
<1> DEFINE b == Body(v)
           w == WithPrompt(v, p)
<1>1. Body(w) = b
  BY PartsOfPrompt
<1>2. HasPlan(w, KeepRecent) <=> HasPlan(v, KeepRecent)
  BY <1>1 DEF HasPlan, Compressible, DeltaBody, HasPreviousSummary
<1>3. ASSUME IsAtTurnBoundary(w)
      PROVE  IsAtTurnBoundary(v)
  <2>1. b \in Seq(Message) /\ Len(b) \in Nat /\ Len(v) \in Nat /\ DOMAIN v = 1 .. Len(v)
    BY PlanParts, ConstantTypes, Basics
  <2>2. Len(w) = Len(b) + 1 /\ w[1].role = "system" /\ \A i \in 1 .. Len(b) : w[i + 1] = b[i]
    <3> DEFINE s == SystemText(p)
    <3>1. s \in Message /\ s.role = "system"
      BY DEF SystemText, Message, Roles, Texts
    <3> HIDE DEF s, b
    <3>2. LET u == <<s>> \o b
          IN  Len(u) = Len(b) + 1 /\ u[1] = s /\ \A i \in 1 .. Len(b) : u[i + 1] = b[i]
      BY <2>1, <3>1
    <3> QED
      BY <3>1, <3>2 DEF WithPrompt, s, b
  <2> HIDE DEF w
  <2>3. IsAssistantFinal(w[Len(w)])
    BY <1>3 DEF IsAtTurnBoundary
  <2>4. Len(b) # 0 /\ IsAssistantFinal(b[Len(b)])
    <3>1. Len(w) # 1
      BY <2>2, <2>3 DEF IsAssistantFinal
    <3>2. Len(b) \in 1 .. Len(b)
      BY <2>1, <2>2, <3>1
    <3> QED
      BY <2>1, <2>2, <2>3, <3>2
  <2>5. PICK h \in {0, 1} : Len(b) = Len(v) - h /\ \A i \in 1 .. Len(v) - h : b[i] = v[h + i]
    BY HeadAndBody
  <2> HIDE DEF b
  <2> DEFINE n == Len(b)
  <2>6. n \in Nat /\ n >= 1 /\ n = Len(v) - h /\ h + n = Len(v) /\ Len(v) >= 1
    <3>1. n \in Nat /\ n # 0 /\ Len(v) \in Nat /\ h \in {0, 1} /\ n = Len(v) - h
      BY <2>1, <2>4, <2>5
    <3> HIDE DEF n
    <3> QED
      BY <3>1
  <2>7. v # <<>> /\ IsAssistantFinal(v[Len(v)])
    <3>1. IsAssistantFinal(b[n])
      BY <2>4
    <3> HIDE DEF n
    <3>2. n \in 1 .. Len(v) - h
      BY <2>6
    <3>3. b[n] = v[Len(v)]
      BY <2>5, <2>6, <3>2
    <3> QED
      BY <2>6, <3>1, <3>3
  <2>8. Len(v) \in FinalIndices(v)
    BY <2>1, <2>6, <2>7 DEF FinalIndices
  <2>9. AllToolCallsResolved(SubSeq(v, 1, Len(v)))
    BY <2>8, ClosedPrefix
  <2>10. SubSeq(v, 1, Len(v)) = v
    BY <2>1
  <2> QED
    BY <2>7, <2>9, <2>10 DEF IsAtTurnBoundary
<1> QED
  BY <1>2, <1>3

\* Turns are only added, and each end of a task counts from the turns there are
\* (scheduler.rs:101, 125, 152).
LEMMA StepNear == TypeOK /\ ThresholdNear /\ [Next]_vars => ThresholdNear'
<1> SUFFICES ASSUME TypeOK, ThresholdNear, [Next]_vars PROVE ThresholdNear'
  OBVIOUS
<1>1. /\ turn_count \in Nat /\ next_compress_at \in Nat /\ EveryN \in Nat
      /\ MaxU32 \in Nat /\ turn_count <= MaxU32
  BY ConstantTypes DEF TypeOK
<1>2. ASSUME NEW r \in Requests, AppendMessage(r)
      PROVE  ThresholdNear'
  <2>1. next_compress_at' = next_compress_at
    BY <1>2 DEF AppendMessage
  <2>2. turn_count' = turn_count \/ turn_count' = SaturatingAdd(turn_count, 1)
    BY <1>2 DEF AppendMessage, CountTurn
  <2>3. turn_count' \in Nat /\ turn_count' >= turn_count
    BY <1>1, <2>2 DEF SaturatingAdd
  <2>4. next_compress_at <= turn_count + EveryN
    BY DEF ThresholdNear
  <2>5. next_compress_at <= turn_count' + EveryN
    <3>1. \A x, y, z, e \in Nat : x <= y + e /\ z >= y => x <= z + e
      OBVIOUS
    <3> QED
      BY <1>1, <2>3, <2>4, <3>1
  <2> QED
    BY <2>1, <2>5 DEF ThresholdNear, EveryN
<1>3. ASSUME NEW t \in tasks, EndCompression(t)
      PROVE  ThresholdNear'
  <2>1. turn_count' = turn_count /\ next_compress_at' = SaturatingAdd(turn_count, EveryN)
    BY <1>3 DEF EndCompression
  <2>2. SaturatingAdd(turn_count, EveryN) <= turn_count + EveryN
    BY <1>1 DEF SaturatingAdd
  <2> QED
    BY <2>1, <2>2 DEF ThresholdNear, EveryN
<1>4. ASSUME turn_count' = turn_count, next_compress_at' = next_compress_at
      PROVE  ThresholdNear'
  BY <1>4 DEF ThresholdNear, EveryN
<1> QED
  BY <1>2, <1>3, <1>4
  DEF Next, vars, AppendRejected, SyncSystemPrompt, TaskStep, AttemptSucceeds, AttemptFails,
      SessionUnchanged, MergeStale, MergeFresh, MergeFailed

LEMMA StepDue == FieldsInPlace /\ DueInv /\ [Next]_vars => DueInv'
<1> SUFFICES ASSUME FieldsInPlace, DueInv, [Next]_vars PROVE NothingDue'
  BY StepPromiseInv, StepNear DEF DueInv, PromiseInv, FlightInv
<1>1. /\ TypeOK /\ SingleFlight /\ FlightInv /\ StableFirst /\ Paired(View)
      /\ NothingDue
      /\ stable \in Seq(Message) /\ pending \in Seq(Message) /\ View \in Seq(Message)
  BY ViewType DEF DueInv, PromiseInv, FlightInv, ViewPaired, TypeOK
<1>2. ASSUME NEW r \in Requests, AppendMessage(r)
      PROVE  NothingDue'
  <2> SUFFICES ASSUME ~is_compressing', IsAtTurnBoundary(View'), turn_count' < MaxU32,
                      next_compress_at' <= turn_count'
               PROVE  ~HasPlan(stable', KeepRecent)
    BY DEF NothingDue
  <2> DEFINE m == Arrived(r)
  <2>1. m \in Message /\ TriggerCompression(m) /\ CountTurn(m) /\ next_compress_at' = next_compress_at
    BY <1>1, <1>2, ArrivedIsMessage DEF AppendMessage, TypeOK
  <2>2. View' = Append(View, m)
    BY <1>1, <1>2, AppendedToView
  <2> HIDE DEF m
  <2>3. TurnCompleted(m)
    <3>1. Append(View, m)[Len(Append(View, m))] = m
      BY <1>1, <2>1, AppendProperties
    <3> QED
      BY <2>2, <3>1 DEF TurnCompleted, IsAtTurnBoundary
  <2>4. turn_count' >= next_compress_at
    <3>1. TypeOK'
      BY <1>1, StepTypes
    <3>2. turn_count' \in Nat /\ next_compress_at \in Nat
      BY <1>1, <3>1, ConstantTypes DEF TypeOK
    <3> QED
      BY <2>1, <3>2
  <2>5. ~is_compressing
    BY <2>1 DEF TriggerCompression
  <2> QED
    BY <2>1, <2>3, <2>4, <2>5 DEF TriggerCompression, Triggers
<1>3. ASSUME NEW p \in Prompts, SyncSystemPrompt(p)
      PROVE  NothingDue'
  <2>1. /\ stable' = WithPrompt(stable, p) /\ pending' = pending
        /\ UNCHANGED <<is_compressing, turn_count, next_compress_at>>
    BY <1>3 DEF SyncSystemPrompt
  <2>2. CASE is_compressing
    BY <2>1, <2>2 DEF NothingDue
  <2>3. CASE ~is_compressing
    <3>1. pending = <<>> /\ View = stable /\ Paired(stable)
      BY <1>1, <2>3, ConcatEmptySeq DEF SingleFlight, View
    <3>2. WithPrompt(stable, p) \in Seq(Message)
      BY <1>1, WithPromptIsConversation
    <3>3. View' = WithPrompt(stable, p)
      BY <2>1, <3>1, <3>2, ConcatEmptySeq DEF View
    <3>4. /\ HasPlan(stable', KeepRecent) <=> HasPlan(stable, KeepRecent)
          /\ IsAtTurnBoundary(View') => IsAtTurnBoundary(View)
      BY <1>1, <2>1, <3>1, <3>3, DueAfterPrompt
    <3> QED
      BY <1>1, <2>1, <3>4 DEF NothingDue
  <2> QED
    BY <2>2, <2>3
<1>4. ASSUME NEW t \in tasks, MergeStale(t) \/ MergeFresh(t) \/ MergeFailed(t)
      PROVE  NothingDue'
  <2>1. turn_count' = turn_count /\ next_compress_at' = SaturatingAdd(turn_count, EveryN)
    BY <1>4 DEF MergeStale, MergeFresh, MergeFailed, EndCompression
  <2>2. turn_count \in Nat /\ MaxU32 \in Nat /\ EveryN \in Nat
    BY <1>1, ConstantTypes DEF TypeOK
  <2>3. CASE turn_count < MaxU32
    <3>1. EveryN >= 1
      BY <2>2, ConfigAssumption DEF EveryN, ConfigAssumption
    <3>2. turn_count + EveryN > turn_count /\ MaxU32 > turn_count
      BY <2>2, <2>3, <3>1
    <3>3. SaturatingAdd(turn_count, EveryN) > turn_count
      BY <2>2, <3>2 DEF SaturatingAdd
    <3>4. ~(SaturatingAdd(turn_count, EveryN) <= turn_count)
      BY <2>2, <3>3 DEF SaturatingAdd
    <3>5. ~(next_compress_at' <= turn_count')
      BY <2>1, <3>4
    <3> QED
      BY <3>5 DEF NothingDue
  <2> QED
    BY <2>1, <2>2, <2>3 DEF NothingDue
<1>5. ASSUME NEW t \in tasks, AttemptSucceeds(t) \/ AttemptFails(t)
      PROVE  NothingDue'
  BY <1>1, <1>5 DEF AttemptSucceeds, AttemptFails, SessionUnchanged,
       NothingDue, SingleFlight
<1>6. ASSUME UNCHANGED vars
      PROVE  NothingDue'
  BY <1>1, <1>6 DEF vars, NothingDue, View
<1> QED
  BY <1>1, <1>2, <1>3, <1>4, <1>5, <1>6 DEF Next, TaskStep, AppendRejected

\* A compression that is due, and possible, at the end of a turn has been
\* started, as long as tool fields stand where the role has them.
THEOREM DueCompressionStartedHolds == FieldsInPlace => (Spec => []DueCompressionStarted)
<1> SUFFICES ASSUME FieldsInPlace PROVE Spec => []DueCompressionStarted
  OBVIOUS
<1>1. Init => DueInv
  <2> SUFFICES ASSUME Init PROVE DueInv
    OBVIOUS
  <2>1. PromiseInv /\ TypeOK
    BY InitPromise, InitTypes
  <2>2. stable \in Seq(Message) /\ pending = <<>>
    BY <2>1 DEF Init, TypeOK
  <2>3. View = stable
    BY <2>2, ConcatEmptySeq DEF View
  <2>4. ~IsAtTurnBoundary(stable)
    BY DEF Init, IsAtTurnBoundary, IsAssistantFinal, SystemText
  <2>5. ThresholdNear
    BY ConstantTypes DEF Init, ThresholdNear
  <2> QED
    BY <2>1, <2>3, <2>4, <2>5 DEF DueInv, NothingDue
<1>2. DueInv /\ [Next]_vars => DueInv'
  BY StepDue
<1>3. DueInv => DueCompressionStarted
  BY DueIsFetched DEF DueInv, PromiseInv, FlightInv
<1> QED
  BY <1>1, <1>2, <1>3, PTL DEF Spec

-----------------------------------------------------------------------------
(* Turns are accounted for.                                                *)

\* The turns of two conversations, one after the other, add up (turn.rs:36).
LEMMA TurnsAddUp ==
  ASSUME NEW a \in Seq(Message), NEW b \in Seq(Message)
  PROVE  /\ a \o b \in Seq(Message)
         /\ CountCompletedTurns(a \o b) = CountCompletedTurns(a) + CountCompletedTurns(b)
<1> DEFINE w == a \o b
           n == Len(a)
           S == FinalIndices(a)
           R == FinalIndices(b)
           T == {j \in FinalIndices(w) : j > n}
           f == [j \in R |-> n + j]
<1>1. /\ n \in Nat /\ Len(b) \in Nat /\ w \in Seq(Message) /\ Len(w) = n + Len(b)
      /\ \A i \in 1 .. n : w[i] = a[i]
      /\ \A i \in 1 .. Len(b) : w[n + i] = b[i]
  BY ConcatProperties, ConcatIndex, LenProperties
<1> HIDE DEF w, n
<1>2. ASSUME NEW i
      PROVE  i \in S <=> i \in FinalIndices(w) /\ i <= n
  <2>1. i \in S <=> i \in 1 .. n /\ IsAssistantFinal(a[i])
    BY DEF FinalIndices, n
  <2>2. i \in FinalIndices(w) <=> i \in 1 .. n + Len(b) /\ IsAssistantFinal(w[i])
    BY <1>1 DEF FinalIndices
  <2>3. i \in 1 .. n <=> i \in 1 .. n + Len(b) /\ i <= n
    BY <1>1
  <2> QED
    BY <1>1, <2>1, <2>2, <2>3
<1>3. FinalIndices(w) = S \cup T /\ S \cap T = {}
  <2>1. \A i \in FinalIndices(w) : i <= n \/ i > n
    BY <1>1 DEF FinalIndices
  <2>2. \A i \in S : ~(i > n)
    BY <1>1 DEF FinalIndices, n
  <2> QED
    BY <1>2, <2>1, <2>2
<1>4. IsFiniteSet(S) /\ IsFiniteSet(R) /\ IsFiniteSet(T)
  <2>1. IsFiniteSet(FinalIndices(w))
    BY <1>1, TurnsAreCounted
  <2> QED
    BY <2>1, TurnsAreCounted, FS_Subset
<1>5. ExistsBijection(R, T)
  <2>1. ASSUME NEW j \in R
        PROVE  n + j \in T
    <3>1. j \in 1 .. Len(b) /\ IsAssistantFinal(b[j])
      BY DEF FinalIndices
    <3>2. n + j \in 1 .. Len(w) /\ n + j > n
      BY <1>1, <3>1
    <3> QED
      BY <1>1, <3>1, <3>2 DEF FinalIndices
  <2>2. ASSUME NEW i \in T
        PROVE  i - n \in R /\ n + (i - n) = i
    <3>1. i \in 1 .. Len(w) /\ IsAssistantFinal(w[i]) /\ i > n
      BY DEF FinalIndices
    <3>2. i - n \in 1 .. Len(b) /\ n + (i - n) = i
      BY <1>1, <3>1
    <3>3. w[n + (i - n)] = b[i - n]
      BY <1>1, <3>2
    <3> QED
      BY <3>1, <3>2, <3>3 DEF FinalIndices
  <2>3. f \in [R -> T]
    BY <2>1
  <2>4. \A i, j \in R : f[i] = f[j] => i = j
    BY <1>1 DEF FinalIndices
  <2>5. \A i \in T : \E j \in R : f[j] = i
    BY <2>2
  <2>6. f \in Bijection(R, T)
    BY <2>3, <2>4, <2>5 DEF Bijection, Injection, Surjection, IsInjective
  <2> QED
    BY <2>6 DEF ExistsBijection
<1> HIDE DEF S, R, T
<1>6. Cardinality(T) = Cardinality(R)
  BY <1>4, <1>5, FS_Bijection
<1>7. Cardinality(S \cup T) = Cardinality(S) + Cardinality(T)
  <2>1. Cardinality(S \cap T) = 0
    BY <1>3, FS_EmptySet
  <2>2. Cardinality(S \cup T) = Cardinality(S) + Cardinality(T) - Cardinality(S \cap T)
    BY <1>4, FS_Union
  <2>3. Cardinality(S) \in Nat /\ Cardinality(T) \in Nat
    BY <1>4, FS_CardinalityType
  <2> QED
    BY <2>1, <2>2, <2>3
<1> QED
  BY <1>1, <1>3, <1>6, <1>7 DEF CountCompletedTurns, S, R, w

\* A message that is not a final answer is no turn.
LEMMA OneMessage ==
  ASSUME NEW m \in Message
  PROVE  /\ <<m>> \in Seq(Message)
         /\ CountCompletedTurns(<<m>>) = IF IsAssistantFinal(m) THEN 1 ELSE 0
<1>1. FinalIndices(<<m>>) = IF IsAssistantFinal(m) THEN {1} ELSE {}
  BY DEF FinalIndices
<1> QED
  BY <1>1, FS_EmptySet, FS_Singleton DEF CountCompletedTurns

LEMMA NoMessage == CountCompletedTurns(<<>>) = 0
BY FS_EmptySet DEF CountCompletedTurns, FinalIndices

\* Neither a head nor a previous summary is a turn; a merge keeps the turns it
\* does not count as compressed (compressor.rs:64-98, scheduler.rs:122).
LEMMA TurnsOfPlan ==
  ASSUME NEW s \in Seq(Message), NEW keep \in Nat
  PROVE  /\ CountCompletedTurns(s) = CountCompletedTurns(Body(s))
         /\ CountCompletedTurns(s)
              = CountCompletedTurns(NewStable(s, keep)) + CompressedTurnsDelta(s, keep)
         /\ NewStable(s, keep) \in Seq(Message)
         /\ CompressedTurnsDelta(s, keep) \in Nat
<1> DEFINE Count(v) == CountCompletedTurns(v)
           H == PreserveHead(s)
           P == PreviousSummary(s)
           D == DeltaBody(s)
           C == Compressible(s, keep)
           R == PreserveTail(s, keep)
           sum == SummaryOf(PromptMessages(s, keep))
           one == <<sum>>
<1>1. /\ H \in Seq(Message) /\ Body(s) \in Seq(Message) /\ P \in Seq(Message)
      /\ D \in Seq(Message) /\ C \in Seq(Message) /\ R \in Seq(Message)
  BY PlanParts
<1>2. s = H \o Body(s) /\ Count(H) = 0
  <2>1. CASE HasHead(s)
    <3>1. s # <<>> /\ ~IsAssistantFinal(s[1]) /\ s[1] \in Message
      BY <2>1, Basics DEF HasHead, IsAssistantFinal
    <3>2. H = <<s[1]>> /\ Body(s) = Tail(s)
      BY <2>1 DEF PreserveHead, Body
    <3>3. s = <<s[1]>> \o Tail(s)
      BY <3>1
    <3> QED
      BY <3>1, <3>2, <3>3, OneMessage
  <2>2. CASE ~HasHead(s)
    <3>1. H = <<>> /\ Body(s) = s
      BY <2>2 DEF PreserveHead, Body
    <3> QED
      BY <3>1, NoMessage, ConcatEmptySeq
  <2> QED
    BY <2>1, <2>2
<1>3. Body(s) = P \o D /\ Count(P) = 0
  <2> DEFINE b == Body(s)
  <2>1. CASE HasPreviousSummary(s)
    <3>1. b # <<>> /\ b[1].role = "system"
      BY <2>1 DEF HasPreviousSummary, IsContextSummary
    <3>2. P = <<b[1]>> /\ D = Tail(b)
      BY <2>1 DEF PreviousSummary, DeltaBody
    <3> HIDE DEF b, P, D
    <3>3. b \in Seq(Message) /\ b[1] \in Message /\ b = <<b[1]>> \o Tail(b)
      BY <1>1, <3>1 DEF b
    <3> QED
      BY <3>1, <3>2, <3>3, OneMessage DEF b, IsAssistantFinal
  <2>2. CASE ~HasPreviousSummary(s)
    <3>1. P = <<>> /\ D = b
      BY <2>2 DEF PreviousSummary, DeltaBody
    <3> QED
      BY <1>1, <3>1, NoMessage, ConcatEmptySeq
  <2> QED
    BY <2>1, <2>2
<1>4. D = C \o R
  <2>1. SplitIndex(D, keep) \in 0 .. Len(D)
    BY <1>1, SplitInRange
  <2>2. C = SubSeq(D, 1, SplitIndex(D, keep)) /\ R = SubSeq(D, SplitIndex(D, keep) + 1, Len(D))
    BY DEF Compressible, PreserveTail
  <2> HIDE DEF C, R, D
  <2>3. ASSUME NEW k \in 0 .. Len(D)
        PROVE  SubSeq(D, 1, k) \o SubSeq(D, k + 1, Len(D)) = D
    <3>1. /\ 1 \in 1 .. Len(D) + 1 /\ k \in 1 - 1 .. Len(D) /\ Len(D) \in k .. Len(D)
      BY <1>1, LenProperties
    <3>2. SubSeq(D, 1, k) \o SubSeq(D, k + 1, Len(D)) = SubSeq(D, 1, Len(D))
      BY <1>1, <3>1, ConcatAdjacentSubSeq
    <3> QED
      BY <1>1, <3>2, SubSeqFull
  <2> QED
    BY <2>1, <2>2, <2>3
<1>5. sum \in Message /\ ~IsAssistantFinal(sum)
  <2>1. PromptMessages(s, keep) \in Seq(Message)
    BY <1>1 DEF PromptMessages
  <2>2. sum \in Message
    BY <2>1, SummaryIsMessage
  <2> QED
    BY <2>2 DEF SummaryOf, IsAssistantFinal
<1>6. NewStable(s, keep) = (H \o one) \o R
  BY DEF NewStable
<1> HIDE DEF H, P, D, C, R, sum
<1>7. one \in Seq(Message) /\ Count(one) = 0
  BY <1>5, OneMessage
<1> HIDE DEF one
<1>8. /\ Count(H) \in Nat /\ Count(Body(s)) \in Nat /\ Count(C) \in Nat /\ Count(R) \in Nat
      /\ Count(D) \in Nat
  BY <1>1, TurnsAreCounted
<1>9. Count(s) = Count(Body(s))
  <2>1. Count(H \o Body(s)) = Count(H) + Count(Body(s))
    BY <1>1, TurnsAddUp
  <2>2. Count(H \o Body(s)) = Count(s)
    BY <1>2
  <2>3. Count(H) = 0
    BY <1>2
  <2> HIDE DEF Count
  <2> QED
    BY <1>8, <2>1, <2>2, <2>3
<1>10. Count(Body(s)) = Count(C) + Count(R)
  <2>1. Count(P \o D) = Count(P) + Count(D)
    BY <1>1, TurnsAddUp
  <2>2. Count(C \o R) = Count(C) + Count(R)
    BY <1>1, TurnsAddUp
  <2> QED
    BY <1>3, <1>4, <1>8, <2>1, <2>2
<1>11. /\ NewStable(s, keep) \in Seq(Message) /\ Count(NewStable(s, keep)) = Count(R)
  <2>1. H \o one \in Seq(Message) /\ Count(H \o one) = Count(H) + Count(one)
    BY <1>1, <1>7, TurnsAddUp
  <2> DEFINE front == H \o one
  <2> HIDE DEF front
  <2>2. front \in Seq(Message) /\ Count(front) = 0
    BY <1>2, <1>7, <2>1 DEF front
  <2>3. front \o R \in Seq(Message) /\ Count(front \o R) = Count(front) + Count(R)
    BY <1>1, <2>2, TurnsAddUp
  <2> QED
    BY <1>6, <1>8, <2>2, <2>3 DEF front
<1>12. CompressedTurnsDelta(s, keep) = Count(C)
  BY DEF CompressedTurnsDelta, C
<1> QED
  BY <1>8, <1>9, <1>10, <1>11, <1>12

\* The counter is never beyond the log, so it is not at its limit when a turn
\* ends, if the limit of the log is not beyond that of the counter.
CounterRuns == turn_count <= Len(log)

AccountInv == PromiseInv /\ CounterRuns /\ TurnAccounting

LEMMA StepAccount ==
  FieldsInPlace /\ MaxLog <= MaxU32 /\ AccountInv /\ [Next]_vars => AccountInv'
<1> SUFFICES ASSUME FieldsInPlace, MaxLog <= MaxU32, AccountInv, [Next]_vars
             PROVE  CounterRuns' /\ TurnAccounting'
  BY StepPromiseInv DEF AccountInv
<1> DEFINE Count(v) == CountCompletedTurns(v)
<1>1. /\ TypeOK /\ SingleFlight /\ FlightInv /\ StableFirst /\ ViewPaired /\ ViewPaired'
      /\ stable \in Seq(Message) /\ pending \in Seq(Message)
      /\ View \in Seq(Message) /\ log \in Seq(Message)
  BY ViewType, StepPromiseInv DEF AccountInv, PromiseInv, FlightInv, TypeOK
<1>2. /\ Count(View) \in Nat /\ turn_count \in Nat /\ compressed_turns \in Nat
      /\ turn_count <= MaxU32 /\ MaxU32 \in Nat /\ MaxLog \in Nat /\ Len(log) \in Nat
      /\ turn_count = compressed_turns + Count(View) /\ turn_count <= Len(log)
  BY <1>1, ConstantTypes, ConfigAssumption, TurnsAreCounted, LenProperties
     DEF TypeOK, AccountInv, CounterRuns, TurnAccounting, ConfigAssumption
<1>3. ASSUME NEW r \in Requests, AppendMessage(r)
      PROVE  CounterRuns' /\ TurnAccounting'
  <2> DEFINE m == Arrived(r)
  <2>1. /\ m \in Message /\ CountTurn(m) /\ compressed_turns' = compressed_turns
        /\ log' = Append(log, m) /\ Len(log) < MaxLog
    BY <1>1, <1>3, ArrivedIsMessage DEF AppendMessage
  <2>2. View' = Append(View, m) /\ View' = View \o <<m>>
    BY <1>1, <1>3, <2>1, AppendedToView, AppendIsConcat
  <2> HIDE DEF m
  <2>3. Count(View') = Count(View) + (IF IsAssistantFinal(m) THEN 1 ELSE 0)
    <3> DEFINE one == <<m>>
    <3>1. one \in Seq(Message) /\ Count(one) = IF IsAssistantFinal(m) THEN 1 ELSE 0
      BY <2>1, OneMessage
    <3> HIDE DEF one
    <3>2. Count(View \o one) = Count(View) + Count(one)
      BY <1>1, <3>1, TurnsAddUp
    <3> QED
      BY <2>2, <3>1, <3>2 DEF one
  <2>4. Len(log') = Len(log) + 1
    BY <1>1, <2>1, AppendProperties
  <2>5. IsAssistantFinal(m) => TurnCompleted(m)
    <3> SUFFICES ASSUME IsAssistantFinal(m) PROVE IsAtTurnBoundary(View')
      BY DEF TurnCompleted
    <3> DEFINE w == View'
    <3>1. /\ w \in Seq(Message) /\ Len(w) = Len(View) + 1 /\ w[Len(w)] = m
          /\ Len(w) \in Nat /\ Len(w) >= 1 /\ Paired(w)
      <4>1. /\ Append(View, m) \in Seq(Message) /\ Len(Append(View, m)) = Len(View) + 1
            /\ Append(View, m)[Len(View) + 1] = m /\ Len(View) \in Nat
        BY <1>1, <2>1, AppendProperties, LenProperties
      <4> QED
        BY <1>1, <2>2, <4>1 DEF ViewPaired
    <3> HIDE DEF w
    <3>2. Len(w) \in FinalIndices(w)
      BY <3>1 DEF FinalIndices
    <3>3. AllToolCallsResolved(SubSeq(w, 1, Len(w))) /\ SubSeq(w, 1, Len(w)) = w
      BY <3>1, <3>2, ClosedPrefix, SubSeqFull
    <3>4. w # <<>>
      BY <3>1
    <3>5. IsAtTurnBoundary(w)
      BY <3>1, <3>3, <3>4 DEF IsAtTurnBoundary
    <3> QED
      BY <3>5 DEF w
  <2>6. turn_count' = turn_count + (IF IsAssistantFinal(m) THEN 1 ELSE 0)
    <3>1. TurnCompleted(m) <=> IsAssistantFinal(m)
      BY <2>5 DEF TurnCompleted
    <3>2. turn_count + 1 <= MaxU32
      BY <1>2, <2>1
    <3>3. SaturatingAdd(turn_count, 1) = turn_count + 1
      BY <1>2, <3>2 DEF SaturatingAdd
    <3> QED
      BY <1>2, <2>1, <3>1, <3>3 DEF CountTurn
  <2>7. CounterRuns'
    BY <1>2, <2>4, <2>6 DEF CounterRuns
  <2>8. TurnAccounting'
    BY <1>2, <2>1, <2>3, <2>6 DEF TurnAccounting
  <2> QED
    BY <2>7, <2>8
<1>4. ASSUME NEW p \in Prompts, SyncSystemPrompt(p)
      PROVE  CounterRuns' /\ TurnAccounting'
  <2>1. /\ stable' = WithPrompt(stable, p) /\ pending' = pending
        /\ log' = WithPrompt(log, p)
        /\ UNCHANGED <<turn_count, compressed_turns>>
    BY <1>4 DEF SyncSystemPrompt
  <2>2. Count(WithPrompt(stable, p)) = Count(stable) /\ WithPrompt(stable, p) \in Seq(Message)
    <3>1. Body(WithPrompt(stable, p)) = Body(stable) /\ WithPrompt(stable, p) \in Seq(Message)
      BY <1>1, PartsOfPrompt, WithPromptIsConversation
    <3> QED
      BY <1>1, <3>1, ConstantTypes, TurnsOfPlan
  <2>3. Count(View') = Count(View)
    <3>1. Count(stable \o pending) = Count(stable) + Count(pending)
      BY <1>1, TurnsAddUp
    <3>2. Count(WithPrompt(stable, p) \o pending) = Count(WithPrompt(stable, p)) + Count(pending)
      BY <1>1, <2>2, TurnsAddUp
    <3> QED
      BY <2>1, <2>2, <3>1, <3>2 DEF View
  <2>4. Len(log') \in Nat /\ Len(log') >= Len(log)
    <3> DEFINE one == <<SystemText(p)>>
    <3>1. one \in Seq(Message) /\ Len(one) = 1
      BY DEF SystemText, Message, Roles, Texts
    <3> HIDE DEF one
    <3>2. PICK h \in {0, 1} : Len(Body(log)) = Len(log) - h /\ Body(log) \in Seq(Message)
      BY <1>1, HeadAndBody
    <3>3. Len(one \o Body(log)) = Len(one) + Len(Body(log))
      BY <3>1, <3>2, ConcatProperties
    <3>4. log' = one \o Body(log)
      BY <2>1 DEF WithPrompt, one
    <3> QED
      BY <1>2, <3>1, <3>2, <3>3, <3>4
  <2> QED
    BY <1>2, <2>1, <2>3, <2>4 DEF CounterRuns, TurnAccounting
<1>5. ASSUME NEW t \in tasks, MergeFresh(t)
      PROVE  CounterRuns' /\ TurnAccounting'
  <2> DEFINE new   == NewStable(stable, KeepRecent)
             delta == CompressedTurnsDelta(stable, KeepRecent)
  <2>1. t.messages = stable
    BY <1>1, <1>5 DEF FlightInv, SnapshotFresh, MergeFresh
  <2>2. /\ stable' = new \o pending /\ pending' = <<>> /\ log' = log
        /\ turn_count' = turn_count
        /\ compressed_turns' = SaturatingAdd(compressed_turns, delta)
    BY <1>5, <2>1 DEF MergeFresh, DrainInto, EndCompression
  <2>3. /\ new \in Seq(Message) /\ delta \in Nat /\ Count(stable) = Count(new) + delta
    BY <1>1, ConstantTypes, TurnsOfPlan
  <2> HIDE DEF new, delta
  <2>4. /\ Count(stable \o pending) = Count(stable) + Count(pending)
        /\ Count(new \o pending) = Count(new) + Count(pending)
        /\ new \o pending \in Seq(Message)
    BY <1>1, <2>3, TurnsAddUp
  <2>5. View' = new \o pending
    BY <2>2, <2>4, ConcatEmptySeq DEF View
  <2>6. /\ Count(new) \in Nat /\ Count(pending) \in Nat /\ Count(stable) \in Nat
        /\ Count(View) = Count(new) + delta + Count(pending)
        /\ Count(View') = Count(new) + Count(pending)
    BY <1>1, <2>3, <2>4, <2>5, TurnsAreCounted DEF View
  <2>7. compressed_turns' = compressed_turns + delta
    <3>1. compressed_turns + delta <= MaxU32
      BY <1>2, <2>3, <2>6
    <3> QED
      BY <1>2, <2>2, <2>3, <3>1 DEF SaturatingAdd
  <2> QED
    BY <1>2, <2>2, <2>3, <2>6, <2>7 DEF CounterRuns, TurnAccounting
<1>6. ASSUME View' = View, log' = log, turn_count' = turn_count, compressed_turns' = compressed_turns
      PROVE  CounterRuns' /\ TurnAccounting'
  BY <1>2, <1>6 DEF CounterRuns, TurnAccounting
<1>7. ASSUME NEW t \in tasks, MergeStale(t) \/ MergeFailed(t)
      PROVE  CounterRuns' /\ TurnAccounting'
  <2>1. stable' = View /\ pending' = <<>> /\ log' = log
        /\ UNCHANGED <<turn_count, compressed_turns>>
    BY <1>7 DEF MergeStale, MergeFailed, KeepStable, DrainInto, EndCompression, View
  <2>2. View' = View
    BY <1>1, <2>1, ConcatEmptySeq DEF View
  <2> QED
    BY <1>6, <2>1, <2>2
<1>8. ASSUME NEW t \in tasks, AttemptSucceeds(t) \/ AttemptFails(t)
      PROVE  CounterRuns' /\ TurnAccounting'
  BY <1>6, <1>8 DEF AttemptSucceeds, AttemptFails, SessionUnchanged, View
<1>9. ASSUME UNCHANGED vars
      PROVE  CounterRuns' /\ TurnAccounting'
  BY <1>6, <1>9 DEF vars, View
<1> QED
  BY <1>3, <1>4, <1>5, <1>7, <1>8, <1>9 DEF Next, TaskStep, AppendRejected

\* The turns a session reports are the compressed ones and those still in view,
\* across every merge, discard and failure, as long as the log is not longer
\* than the counter counts and tool fields stand where the role has them.
THEOREM TurnAccountingHolds ==
  FieldsInPlace /\ MaxLog <= MaxU32 => (Spec => []TurnAccounting)
<1> SUFFICES ASSUME FieldsInPlace, MaxLog <= MaxU32 PROVE Spec => []TurnAccounting
  OBVIOUS
<1>1. Init => AccountInv
  <2> SUFFICES ASSUME Init PROVE AccountInv
    OBVIOUS
  <2>1. PromiseInv /\ TypeOK
    BY InitPromise, InitTypes
  <2>2. stable \in Seq(Message) /\ pending = <<>> /\ log = stable
        /\ turn_count = 0 /\ compressed_turns = 0
    BY <2>1 DEF Init, TypeOK
  <2>3. View = stable
    BY <2>2, ConcatEmptySeq DEF View
  <2>4. CountCompletedTurns(stable) = 0
    <3>1. ASSUME NEW p \in Prompts
          PROVE  CountCompletedTurns(<<SystemText(p)>>) = 0
      <4>1. SystemText(p) \in Message /\ ~IsAssistantFinal(SystemText(p))
        BY DEF SystemText, Message, Roles, Texts, IsAssistantFinal
      <4> QED
        BY <4>1, OneMessage
    <3> QED
      BY <3>1, NoMessage DEF Init
  <2>5. Len(log) \in Nat
    BY <2>2, LenProperties
  <2> QED
    BY <2>1, <2>2, <2>3, <2>4, <2>5 DEF AccountInv, CounterRuns, TurnAccounting
<1>2. AccountInv /\ [Next]_vars => AccountInv'
  BY StepAccount
<1>3. AccountInv => TurnAccounting
  BY DEF AccountInv
<1> QED
  BY <1>1, <1>2, <1>3, PTL DEF Spec

-----------------------------------------------------------------------------
(* A conversation can go on.                                               *)

\* Calls are open only after a message with calls, or after a result.
OpenAfterCalls(v) ==
  LastState(v) \in {"AssistantToolCalls", "Tool"} \/ IssuedIds(v) \subseteq ResolvedIds(v)

ViewOpen == OpenAfterCalls(View)

GoInv == PromiseInv /\ ViewOpen

\* A message with calls whose ids are new leaves its first call open.
LEMMA CallsOpen ==
  ASSUME NEW v \in Seq(Message), Paired(v), LastState(v) = "AssistantToolCalls"
  PROVE  \E c \in CallIds : c \in IssuedIds(v) \ ResolvedIds(v)
<1> DEFINE n == Len(v)
           m == v[n]
<1>1. v # <<>> /\ Classify(m) = "AssistantToolCalls"
  BY DEF LastState
<1>2. n \in Nat /\ DOMAIN v = 1 .. n /\ n \in DOMAIN v /\ m \in Message
  <2>1. n # 0
    BY <1>1, EmptySeq
  <2> QED
    BY <2>1, Basics
<1>3. HasToolCalls(m)
  <2> HIDE DEF m
  <2>1. m.role \in Roles
    BY <1>2 DEF Message
  <2> QED
    BY <1>1, <2>1 DEF Classify, Roles
<1>4. 1 \in DOMAIN Calls(m) /\ Calls(m) \in Seq(CallIds)
  <2> HIDE DEF m
  <2>1. Calls(m) \in Seq(CallIds) /\ Calls(m) # <<>>
    BY <1>2, <1>3, Basics DEF HasToolCalls
  <2> QED
    BY <2>1
<1> DEFINE c == Calls(m)[1]
<1>5. c \in CallIds /\ c \in CallSet(m) /\ c # None
  BY <1>2, <1>4, Basics DEF CallSet
<1> HIDE DEF c, m, n
<1>6. c \in IssuedIds(v)
  BY <1>2, <1>5, IdsOf DEF m
<1>7. c \notin ResolvedIds(v)
  <2> SUFFICES ASSUME c \in ResolvedIds(v) PROVE FALSE
    OBVIOUS
  <2>1. PICK j \in DOMAIN v : v[j].tool_call_id = c
    BY IdsOf
  <2>2. PICK i \in DOMAIN v : i < j /\ c \in CallSet(v[i])
    BY <1>5, <2>1 DEF Paired, ResultsFollow
  <2>3. i = n
    BY <1>2, <1>5, <2>2 DEF Paired, IssuedOnce, m
  <2> QED
    BY <1>2, <2>1, <2>2, <2>3
<1> QED
  BY <1>5, <1>6, <1>7

\* What is said last decides what may come next, and there is always something.
LEMMA SomethingFollows ==
  ASSUME View \in Seq(Message), Paired(View), OpenAfterCalls(View)
  PROVE  CanGoOn
<1> DEFINE v == View
<1>1. LastState(v) \in {"Start", "System", "User", "AssistantToolCalls", "AssistantFinal", "Tool"}
  <2>1. CASE v = <<>>
    BY <2>1 DEF LastState
  <2>2. CASE v # <<>>
    <3>1. v[Len(v)] \in Message
      BY <2>2
    <3>2. v[Len(v)].role \in Roles
      BY <3>1 DEF Message
    <3> QED
      BY <2>2, <3>2 DEF LastState, Classify, Roles
  <2> QED
    BY <2>1, <2>2
<1> HIDE DEF v
<1>2. CASE LastState(v) \in {"Start", "System", "AssistantFinal"}
  <2> DEFINE m == FromClient("user", None)
  <2>1. m.role = "user"
    BY DEF FromClient
  <2> HIDE DEF m
  <2>2. Classify(m) = "User" /\ ValidToolFields(v, m)
    BY <2>1 DEF Classify, ValidToolFields
  <2>3. ValidateAppend(v, m)
    BY <1>2, <2>2 DEF ValidateAppend, AllowedTransitions
  <2> QED
    BY <2>3 DEF CanGoOn, v, m
<1>3. ASSUME IssuedIds(v) \subseteq ResolvedIds(v), LastState(v) \in {"User", "Tool"}
      PROVE  CanGoOn
  <2> DEFINE m == FromClient("assistant", None)
  <2>1. m.role = "assistant" /\ m.tool_calls = None
    BY DEF FromClient
  <2>2. None # <<>>
    BY NoneAssumption DEF NoneAssumption
  <2> HIDE DEF m
  <2>3. Calls(m) = <<>>
    BY <2>1 DEF Calls
  <2>4. CallSet(m) = {} /\ ~HasToolCalls(m) /\ DOMAIN Calls(m) = {}
    BY <2>3 DEF CallSet, HasToolCalls
  <2>5. ValidAssistant(v, m)
    BY <1>3, <2>1, <2>2, <2>4 DEF ValidAssistant
  <2>6. Classify(m) = "AssistantFinal" /\ ValidToolFields(v, m)
    BY <2>1, <2>4, <2>5 DEF Classify, ValidToolFields
  <2>7. ValidateAppend(v, m)
    BY <1>3, <2>6 DEF ValidateAppend, AllowedTransitions
  <2> QED
    BY <2>7 DEF CanGoOn, v, m
<1>4. ASSUME NEW c \in CallIds, c \in IssuedIds(v) \ ResolvedIds(v),
             LastState(v) \in {"AssistantToolCalls", "Tool"}
      PROVE  CanGoOn
  <2> DEFINE m == FromClient("tool", c)
  <2>1. m.role = "tool" /\ m.tool_call_id = c /\ m.named
    BY DEF FromClient
  <2> HIDE DEF m
  <2>2. Classify(m) = "Tool" /\ ValidToolResult(v, m)
    BY <1>4, <2>1, Basics DEF Classify, ValidToolResult
  <2>3. ValidateAppend(v, m)
    BY <1>4, <2>1, <2>2 DEF ValidateAppend, ValidToolFields, AllowedTransitions
  <2> QED
    BY <2>3 DEF CanGoOn, v, m
<1>5. CASE LastState(v) = "Tool"
  <2>1. \A c \in IssuedIds(v) : c \in CallIds
    BY Basics DEF IssuedIds, v
  <2>2. CASE IssuedIds(v) \subseteq ResolvedIds(v)
    BY <1>3, <1>5, <2>2
  <2>3. CASE ~(IssuedIds(v) \subseteq ResolvedIds(v))
    BY <1>4, <1>5, <2>1, <2>3
  <2> QED
    BY <2>2, <2>3
<1>6. CASE LastState(v) = "AssistantToolCalls"
  <2>1. PICK c \in CallIds : c \in IssuedIds(v) \ ResolvedIds(v)
    BY <1>6, CallsOpen DEF v
  <2> QED
    BY <1>4, <1>6, <2>1
<1>7. CASE LastState(v) = "User"
  BY <1>3, <1>7 DEF OpenAfterCalls, v
<1> QED
  BY <1>1, <1>2, <1>5, <1>6, <1>7

\* A question, or a final answer, is accepted only when no call is open.
LEMMA OpenAfterAppend ==
  ASSUME NEW v \in Seq(Message), OpenAfterCalls(v),
         NEW m \in Message, Placed(m), ValidateAppend(v, m)
  PROVE  OpenAfterCalls(Append(v, m))
<1> DEFINE w == Append(v, m)
<1>1. /\ w \in Seq(Message) /\ Len(w) = Len(v) + 1 /\ w[Len(w)] = m /\ w # <<>>
      /\ Len(v) \in Nat /\ DOMAIN v = 1 .. Len(v) /\ DOMAIN w = 1 .. Len(v) + 1
      /\ \A i \in 1 .. Len(v) : w[i] = v[i]
  BY AppendProperties, LenProperties
<1> HIDE DEF w
<1>2. LastState(w) = Classify(m) /\ m.role \in Roles
  BY <1>1 DEF LastState, Message
<1>3. CASE m.role = "tool" \/ (m.role = "assistant" /\ HasToolCalls(m))
  <2>1. Classify(m) \in {"AssistantToolCalls", "Tool"}
    BY <1>3 DEF Classify
  <2> QED
    BY <1>2, <2>1 DEF OpenAfterCalls, w
<1>4. CASE m.role \in {"system", "user"} \/ (m.role = "assistant" /\ ~HasToolCalls(m))
  <2>1. IssuedIds(v) \subseteq ResolvedIds(v)
    <3>1. CASE m.role = "assistant"
      BY <3>1 DEF ValidateAppend, ValidToolFields, ValidAssistant
    <3>2. CASE m.role \in {"system", "user"}
      <4>1. Classify(m) \in {"System", "User"}
        BY <3>2 DEF Classify
      <4>2. LastState(v) \notin {"AssistantToolCalls", "Tool"}
        BY <4>1 DEF ValidateAppend, AllowedTransitions
      <4> QED
        BY <4>2 DEF OpenAfterCalls
    <3> QED
      BY <1>4, <3>1, <3>2
  <2>2. Calls(m) = <<>>
    BY <1>4 DEF Placed, HasToolCalls
  <2>3. CallSet(m) = {}
    BY <2>2 DEF CallSet
  <2>4. ASSUME NEW c, c \in IssuedIds(w)
        PROVE  c \in ResolvedIds(w)
    <3>1. PICK i \in DOMAIN w : c \in CallSet(w[i])
      BY <2>4, IdsOf
    <3>2. i # Len(v) + 1
      BY <1>1, <2>3, <3>1
    <3>3. i \in DOMAIN v /\ w[i] = v[i]
      BY <1>1, <3>2
    <3>4. c \in IssuedIds(v)
      BY <3>1, <3>3, IdsOf
    <3>5. c # None /\ \E j \in DOMAIN v : v[j].tool_call_id = c
      BY <2>1, <3>4, IdsOf
    <3>6. \E j \in DOMAIN w : w[j].tool_call_id = c
      BY <1>1, <3>5
    <3> QED
      BY <3>5, <3>6, IdsOf
  <2> QED
    BY <2>4 DEF OpenAfterCalls, w
<1> QED
  BY <1>2, <1>3, <1>4 DEF Roles

\* Another head, which has no calls and resolves none, opens nothing.
LEMMA OpenAfterPrompt ==
  ASSUME NEW v \in Seq(Message), Paired(v), OpenAfterCalls(v), NEW p \in Prompts
  PROVE  OpenAfterCalls(WithPrompt(v, p))
<1> DEFINE w == WithPrompt(v, p)
           b == Body(v)
           s == SystemText(p)
<1>1. /\ w \in Seq(Message) /\ Paired(w) /\ Body(w) = b /\ b \in Seq(Message)
      /\ s \in Message /\ s.role = "system"
  BY PairedAfterPrompt, PartsOfPrompt, WithPromptIsConversation, PlanParts, ConstantTypes
     DEF SystemText, Message, Roles, Texts
<1>2. HeadPlaced(v) /\ HeadPlaced(w)
  BY <1>1, PairedHead DEF Paired
<1>3. ASSUME IssuedIds(v) \subseteq ResolvedIds(v)
      PROVE  IssuedIds(w) \subseteq ResolvedIds(w)
  <2>1. IssuedIds(w) \subseteq CallIds
    BY <1>1, Basics DEF IssuedIds
  <2>2. ASSUME NEW c \in IssuedIds(w)
        PROVE  c \in ResolvedIds(w)
    <3>1. c # None
      BY <2>1, Basics
    <3> HIDE DEF w, b
    <3>2. c \in IssuedIds(b)
      BY <1>1, <1>2, <3>1, IdsOfBody
    <3>3. c \in ResolvedIds(b)
      BY <1>2, <1>3, <3>1, <3>2, IdsOfBody DEF b
    <3> QED
      BY <1>1, <1>2, <3>1, <3>3, IdsOfBody
  <2> QED
    BY <2>2
<1>4. CASE b = <<>>
  <2>1. IssuedIds(b) = {}
    BY <1>4 DEF IssuedIds
  <2>2. IssuedIds(v) \subseteq CallIds
    BY Basics DEF IssuedIds
  <2>3. IssuedIds(v) \subseteq IssuedIds(b)
    BY <1>2, <2>2, Basics, IdsOfBody
  <2> QED
    BY <1>3, <2>1, <2>3 DEF OpenAfterCalls
<1>5. CASE b # <<>>
  <2>1. LastState(w) = LastState(v)
    <3>1. /\ Len(b) \in Nat \ {0} /\ w[Len(w)] = b[Len(b)] /\ w # <<>>
      <4>1. Len(b) \in Nat \ {0}
        BY <1>1, <1>5, EmptySeq, LenProperties
      <4>2. <<s>> \in Seq(Message) /\ Len(<<s>>) = 1
        BY <1>1
      <4> DEFINE one == <<s>>
      <4> HIDE DEF one, b
      <4>3. one \in Seq(Message) /\ Len(one) = 1
        BY <4>2 DEF one
      <4>4. Len(one \o b) = 1 + Len(b) /\ (one \o b)[1 + Len(b)] = b[Len(b)]
        <5>1. b \in Seq(Message) /\ Len(b) \in 1 .. Len(b)
          BY <1>1, <4>1 DEF b
        <5>2. /\ Len(one \o b) = Len(one) + Len(b)
              /\ \A i \in 1 .. Len(b) : (one \o b)[Len(one) + i] = b[i]
          BY <4>3, <5>1, ConcatIndex
        <5> QED
          BY <4>3, <5>1, <5>2
      <4>5. w = one \o b
        BY DEF WithPrompt, one, b
      <4>6. w # <<>>
        BY <4>1, <4>4, <4>5
      <4> QED
        BY <4>1, <4>4, <4>5, <4>6
    <3>2. v # <<>> /\ v[Len(v)] = b[Len(b)]
      <4>1. 1 \in 1 .. Len(b)
        BY <3>1
      <4> QED
        BY <1>2, <4>1, WhereFrom
    <3> QED
      BY <3>1, <3>2 DEF LastState
  <2> QED
    BY <1>3, <2>1 DEF OpenAfterCalls
<1> QED
  BY <1>4, <1>5

\* A compaction takes the calls with their results.
LEMMA OpenAfterCompaction ==
  ASSUME NEW v \in Seq(Message), Paired(v), OpenAfterCalls(v),
         NEW k \in 1 .. Len(Body(v)), IsAssistantFinal(Body(v)[k])
  PROVE  OpenAfterCalls(Summarized(v, k))
<1> DEFINE w == Summarized(v, k)
           Old(c) == \E x \in DOMAIN Body(v) : x <= k /\ c \in CallSet(Body(v)[x])
<1>1. HeadPlaced(v) /\ Settled(Body(v)) /\ w \in Seq(Message)
  BY PairedHead, PairedBody, PartsOfSummarized DEF Paired, Settled
<1>2. ASSUME NEW c \in CallIds
      PROVE  /\ c \in IssuedIds(v) <=> Old(c) \/ c \in IssuedIds(w)
             /\ c \in ResolvedIds(v) <=> Old(c) \/ c \in ResolvedIds(w)
             /\ Old(c) /\ c \in IssuedIds(w) =>
                  \E i, j \in DOMAIN v : i # j /\ c \in CallSet(v[i]) /\ c \in CallSet(v[j])
  BY <1>1, IdsAfterCompaction
<1>3. ASSUME IssuedIds(v) \subseteq ResolvedIds(v)
      PROVE  IssuedIds(w) \subseteq ResolvedIds(w)
  <2>1. IssuedIds(w) \subseteq CallIds
    BY <1>1, Basics DEF IssuedIds
  <2> HIDE DEF w, Old
  <2>2. ASSUME NEW c \in CallIds, c \in IssuedIds(w)
        PROVE  c \in ResolvedIds(w)
    <3>1. ~Old(c)
      BY <1>2, <2>2 DEF Paired, IssuedOnce
    <3> QED
      BY <1>2, <1>3, <2>2, <3>1
  <2> QED
    BY <2>1, <2>2
<1>4. /\ v # <<>> /\ w # <<>> /\ v[Len(v)] = Body(v)[Len(Body(v))]
      /\ k < Len(Body(v)) => w[Len(w)] = Body(v)[Len(Body(v))]
  BY <1>1, WhereFrom
<1>5. CASE k < Len(Body(v))
  <2>1. LastState(w) = LastState(v)
    BY <1>4, <1>5 DEF LastState
  <2> QED
    BY <1>3, <2>1 DEF OpenAfterCalls
<1>6. CASE k = Len(Body(v))
  <2>1. LastState(v) = "AssistantFinal"
    BY <1>4, <1>6 DEF LastState, Classify, IsAssistantFinal
  <2> QED
    BY <1>3, <2>1 DEF OpenAfterCalls
<1>7. Len(Body(v)) \in Nat
  BY PlanParts, ConstantTypes, LenProperties
<1> QED
  BY <1>5, <1>6, <1>7

\* A conversation is never stuck: whatever was accepted, compacted, or put at its
\* head, a question, an answer or the result of some call is accepted next, as
\* long as tool fields stand where the role has them.
THEOREM CanGoOnHolds == FieldsInPlace => (Spec => []CanGoOn)
<1> SUFFICES ASSUME FieldsInPlace PROVE Spec => []CanGoOn
  OBVIOUS
<1>1. Init => GoInv
  <2> SUFFICES ASSUME Init PROVE GoInv
    OBVIOUS
  <2>1. PromiseInv /\ TypeOK
    BY InitPromise, InitTypes
  <2>2. stable \in Seq(Message) /\ pending = <<>>
    BY <2>1 DEF Init, TypeOK
  <2>3. View = stable
    BY <2>2, ConcatEmptySeq DEF View
  <2>4. IssuedIds(stable) = {}
    <3>2. \A p \in Prompts : CallSet(SystemText(p)) = {}
      BY DEF CallSet, Calls, SystemText
    <3>3. \A p \in Prompts : IssuedIds(<<SystemText(p)>>) = {}
      <4> DEFINE one(p) == <<SystemText(p)>>
      <4>1. \A p \in Prompts : \A i \in DOMAIN one(p) : one(p)[i] = SystemText(p)
        OBVIOUS
      <4> HIDE DEF one
      <4>2. \A p \in Prompts : IssuedIds(one(p)) = {}
        BY <3>2, <4>1 DEF IssuedIds
      <4> QED
        BY <4>2 DEF one
    <3>4. IssuedIds(<<>>) = {}
      BY DEF IssuedIds
    <3> QED
      BY <3>3, <3>4 DEF Init
  <2> QED
    BY <2>1, <2>3, <2>4 DEF GoInv, ViewOpen, OpenAfterCalls
<1>2. GoInv /\ [Next]_vars => GoInv'
  <2> SUFFICES ASSUME GoInv, [Next]_vars PROVE OpenAfterCalls(View')
    BY StepPromiseInv DEF GoInv, ViewOpen
  <2>1. /\ FlightInv /\ StableFirst /\ Paired(View) /\ OpenAfterCalls(View)
        /\ View \in Seq(Message) /\ log \in Seq(Message)
    BY ViewType DEF GoInv, PromiseInv, FlightInv, ViewPaired, ViewOpen
  <2>2. ASSUME NEW r \in Requests, AppendMessage(r), View' = Append(View, Arrived(r))
        PROVE  OpenAfterCalls(View')
    <3>1. Arrived(r) \in Message /\ Placed(Arrived(r)) /\ ValidateAppend(View, Arrived(r))
      BY <2>1, <2>2, ArrivedIsMessage, ArrivedIsPlaced DEF AppendMessage
    <3> QED
      BY <2>1, <2>2, <3>1, OpenAfterAppend
  <2>3. ASSUME NEW p \in Prompts, View' = WithPrompt(View, p)
        PROVE  OpenAfterCalls(View')
    BY <2>1, <2>3, OpenAfterPrompt
  <2>4. ASSUME NEW k \in 1 .. Len(Body(View)), View' = Summarized(View, k),
               IsAssistantFinal(Body(View)[k])
        PROVE  OpenAfterCalls(View')
    BY <2>1, <2>4, OpenAfterCompaction
  <2>5. ASSUME View' = View
        PROVE  OpenAfterCalls(View')
    BY <2>1, <2>5
  <2> QED
    BY <2>1, <2>2, <2>3, <2>4, <2>5, StepOfView
<1>3. GoInv => CanGoOn
  BY SomethingFollows, ViewType DEF GoInv, ViewOpen, PromiseInv, FlightInv, ViewPaired
<1> QED
  BY <1>1, <1>2, <1>3, PTL DEF Spec
=============================================================================
