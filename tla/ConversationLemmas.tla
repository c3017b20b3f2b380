-------------------------- MODULE ConversationLemmas --------------------------
(***************************************************************************)
(* What the operators of Conversation return, and what appends, prompt     *)
(* changes and compactions do, for every conversation: tool calls stay     *)
(* with their results, and the merge of a compression is the compaction of *)
(* whole old turns.                                                        *)
(***************************************************************************)
EXTENDS Conversation, FiniteSetTheorems, SequenceTheorems, TLAPS

\* The indices of a conversation's final answers are finitely many, so turns
\* can be counted (turn.rs:36).
LEMMA TurnsAreCounted ==
  ASSUME NEW messages \in Seq(Message)
  PROVE  /\ IsFiniteSet(FinalIndices(messages))
         /\ CountCompletedTurns(messages) \in Nat
<1>1. FinalIndices(messages) \subseteq 1 .. Len(messages)
  BY DEF FinalIndices
<1>2. IsFiniteSet(1 .. Len(messages))
  BY FS_Interval
<1>3. IsFiniteSet(FinalIndices(messages))
  BY <1>1, <1>2, FS_Subset
<1> QED
  BY <1>3, FS_CardinalityType DEF CountCompletedTurns

\* The split is at a place of the conversation, whatever number of turns is
\* kept (turn.rs:43).
LEMMA SplitInRange ==
  ASSUME NEW messages \in Seq(Message), NEW keep \in Nat
  PROVE  SplitIndex(messages, keep) \in 0 .. Len(messages)
<1>1. CASE \E i \in FinalIndices(messages) : TurnsAfter(messages, i) = keep
  <2>1. (CHOOSE i \in FinalIndices(messages) : TurnsAfter(messages, i) = keep)
          \in FinalIndices(messages)
    BY <1>1
  <2> QED
    BY <1>1, <2>1 DEF SplitIndex, FinalIndices
<1>2. CASE ~\E i \in FinalIndices(messages) : TurnsAfter(messages, i) = keep
  BY <1>2 DEF SplitIndex
<1> QED
  BY <1>1, <1>2

\* The parts of a plan are conversations (compressor.rs:64-98).
LEMMA PlanParts ==
  ASSUME NEW messages \in Seq(Message), NEW keep \in Nat
  PROVE  /\ PreserveHead(messages) \in Seq(Message)
         /\ Body(messages) \in Seq(Message)
         /\ PreviousSummary(messages) \in Seq(Message)
         /\ DeltaBody(messages) \in Seq(Message)
         /\ Compressible(messages, keep) \in Seq(Message)
         /\ PreserveTail(messages, keep) \in Seq(Message)
<1>1. PreserveHead(messages) \in Seq(Message) /\ Body(messages) \in Seq(Message)
  BY DEF PreserveHead, Body, HasHead
<1>2. PreviousSummary(messages) \in Seq(Message) /\ DeltaBody(messages) \in Seq(Message)
  BY <1>1 DEF PreviousSummary, DeltaBody, HasPreviousSummary
<1>3. SplitIndex(DeltaBody(messages), keep) \in 0 .. Len(DeltaBody(messages))
  BY <1>2, SplitInRange
<1>4. Compressible(messages, keep) \in Seq(Message)
  BY <1>2, <1>3 DEF Compressible
<1>5. PreserveTail(messages, keep) \in Seq(Message)
  BY <1>2, <1>3 DEF PreserveTail
<1> QED
  BY <1>1, <1>2, <1>4, <1>5

\* Of these, all but the last two do not depend on what is kept.
LEMMA PartTypes ==
  ASSUME NEW messages \in Seq(Message)
  PROVE  /\ PreserveHead(messages) \in Seq(Message)
         /\ Body(messages) \in Seq(Message)
         /\ PreviousSummary(messages) \in Seq(Message)
         /\ DeltaBody(messages) \in Seq(Message)
<1>1. 0 \in Nat
  OBVIOUS
<1> QED
  BY <1>1, PlanParts

\* A summary is a message (types.rs:74).
LEMMA SummaryIsMessage ==
  ASSUME NEW messages \in Seq(Message)
  PROVE  SummaryOf(messages) \in Message
<1>1. \A i \in DOMAIN messages : messages[i].content \subseteq Texts
  <2>1. \A i \in DOMAIN messages : messages[i] \in Message
    BY LenProperties, ElementOfSeq
  <2>2. \A m \in Message : m.content \in SUBSET Texts
    BY DEF Message
  <2> QED
    BY <2>1, <2>2
<1>2. UNION {messages[i].content : i \in DOMAIN messages} \subseteq Texts
  BY <1>1
<1> QED
  BY <1>2 DEF SummaryOf, Message, Roles

\* What replaces the stable buffer is a conversation, with counts that are
\* numbers (compressor.rs:148-172).
LEMMA OutcomeTypes ==
  ASSUME NEW messages \in Seq(Message), NEW keep \in Nat
  PROVE  /\ NewStable(messages, keep) \in Seq(Message)
         /\ CompressedTurnsDelta(messages, keep) \in Nat
         /\ Evaluation(messages, keep) \in
              [prompt_input : Nat, region : Nat, stable_output : Nat, retained : Nat,
               previous_summary_included : BOOLEAN]
<1>1. PromptMessages(messages, keep) \in Seq(Message)
  BY PlanParts DEF PromptMessages
<1>2. NewStable(messages, keep) \in Seq(Message)
  BY <1>1, PlanParts, SummaryIsMessage DEF NewStable
<1>3. CompressedTurnsDelta(messages, keep) \in Nat
  BY PlanParts, TurnsAreCounted DEF CompressedTurnsDelta
<1>4. /\ Len(PromptMessages(messages, keep)) \in Nat
      /\ Len(Compressible(messages, keep)) \in Nat
      /\ Len(NewStable(messages, keep)) \in Nat
      /\ Len(PreserveTail(messages, keep)) \in Nat
  BY <1>1, <1>2, PlanParts, LenProperties
<1> QED
  BY <1>2, <1>3, <1>4 DEF Evaluation

\* A conversation with another prompt is a conversation (demo.rs:507-513).
LEMMA WithPromptIsConversation ==
  ASSUME NEW messages \in Seq(Message), NEW prompt \in Prompts
  PROVE  WithPrompt(messages, prompt) \in Seq(Message)
<1>1. SystemText(prompt) \in Message
  BY DEF SystemText, Message, Roles, Texts
<1>2. Body(messages) \in Seq(Message)
  BY DEF Body, HasHead
<1> QED
  BY <1>1, <1>2 DEF WithPrompt

-----------------------------------------------------------------------------
(* Sets of numbers.                                                        *)

\* The order of the naturals is well-founded.  What recursion makes of each
\* number is shown from the least number of which it would be false.
LEMMA LeastElement ==
  ASSUME NEW T \in SUBSET Nat, T # {}
  PROVE  \E n \in T : \A m \in T : n <= m
<1>1. PICK n \in T : \A m \in T : ~(<<m, n>> \in OpToRel(<, Nat))
  BY NatLessThanWellFounded, WFMin
<1>2. ASSUME NEW m \in T
      PROVE  n <= m
  <2>1. <<m, n>> \in Nat \X Nat /\ ~(<<m, n>> \in OpToRel(<, Nat))
    BY <1>1
  <2>2. ~(m < n)
    BY <2>1 DEF OpToRel
  <2> QED
    BY <2>2
<1> QED
  BY <1>2

\* A bounded set of numbers has a greatest.
LEMMA GreatestElement ==
  ASSUME NEW S \in SUBSET Nat, S # {}, NEW n \in Nat, \A i \in S : i <= n
  PROVE  \E i \in S : \A j \in S : j <= i
<1> DEFINE B == {b \in Nat : \A i \in S : i <= b}
<1>1. B # {} /\ B \subseteq Nat
  OBVIOUS
<1>2. PICK b \in B : \A c \in B : b <= c
  BY <1>1, LeastElement
<1>3. CASE b \in S
  BY <1>3
<1>4. CASE b \notin S
  <2>1. b \in Nat /\ \A i \in S : i <= b
    BY <1>2
  <2>2. \A i \in S : i \in Nat /\ i # b
    BY <1>4
  <2>3. \A i \in S : i <= b - 1 /\ 0 <= b - 1
    BY <2>1, <2>2
  <2>4. b - 1 \in Nat
    <3>1. PICK i \in S : TRUE
      OBVIOUS
    <3> QED
      BY <2>1, <2>3, <3>1
  <2>5. b - 1 \in B
    BY <2>3, <2>4
  <2> QED
    BY <1>2, <2>1, <2>5
<1> QED
  BY <1>3, <1>4

-----------------------------------------------------------------------------
(* Tool calls stay with their results.                                     *)

\* Tool fields stand where the role has them.  The validator does not look at
\* them elsewhere (validator.rs:129), so this is asked of the clients.
Placed(m) ==
  /\ m.role # "assistant" => Calls(m) = <<>>
  /\ m.role # "tool" => m.tool_call_id = None

\* A call id is issued once and resolved once, by a result that follows it; and
\* whatever was issued before a final answer was resolved before it.
FieldsPlaced(v) == \A i \in DOMAIN v : Placed(v[i])

ToolsNameCalls(v) == \A i \in DOMAIN v : v[i].role = "tool" => v[i].tool_call_id # None

CallsDistinct(v) ==
  \A i \in DOMAIN v : \A a, b \in DOMAIN Calls(v[i]) : Calls(v[i])[a] = Calls(v[i])[b] => a = b

IssuedOnce(v) ==
  \A i, j \in DOMAIN v : \A c \in CallIds : c \in CallSet(v[i]) /\ c \in CallSet(v[j]) => i = j

ResolvedOnce(v) ==
  \A i, j \in DOMAIN v :
    v[i].tool_call_id = v[j].tool_call_id /\ v[i].tool_call_id # None => i = j

ResultsFollow(v) ==
  \A j \in DOMAIN v : v[j].tool_call_id # None =>
    \E i \in DOMAIN v : i < j /\ v[j].tool_call_id \in CallSet(v[i])

\* What the first q messages issue they also resolve.
Whole(v, q) ==
  \A i \in DOMAIN v : \A c \in CallSet(v[i]) : i <= q =>
    \E j \in DOMAIN v : j <= q /\ v[j].tool_call_id = c

AnswersClose(v) == \A f \in FinalIndices(v) : Whole(v, f)

Paired(v) ==
  /\ FieldsPlaced(v) /\ ToolsNameCalls(v) /\ CallsDistinct(v)
  /\ IssuedOnce(v) /\ ResolvedOnce(v) /\ ResultsFollow(v) /\ AnswersClose(v)

-----------------------------------------------------------------------------
(* Pairing, and the changes a view goes through.                           *)

LEMMA Basics ==
  /\ None \notin CallIds
  /\ \A m \in Message : CallSet(m) \subseteq CallIds /\ Calls(m) \in Seq(CallIds)
  /\ \A v \in Seq(Message) : DOMAIN v = 1 .. Len(v) /\ Len(v) \in Nat
                               /\ \A i \in 1 .. Len(v) : v[i] \in Message
<1>1. None \notin CallIds
  BY NoneAssumption DEF NoneAssumption
<1>2. ASSUME NEW m \in Message
      PROVE  CallSet(m) \subseteq CallIds /\ Calls(m) \in Seq(CallIds)
  <2>1. Calls(m) \in Seq(CallIds)
    BY DEF Calls, Message
  <2>2. \A j \in DOMAIN Calls(m) : Calls(m)[j] \in CallIds
    BY <2>1, LenProperties, ElementOfSeq
  <2> QED
    BY <2>1, <2>2 DEF CallSet
<1>3. ASSUME NEW v \in Seq(Message)
      PROVE  /\ DOMAIN v = 1 .. Len(v) /\ Len(v) \in Nat
             /\ \A i \in 1 .. Len(v) : v[i] \in Message
  BY LenProperties, ElementOfSeq
<1> QED
  BY <1>1, <1>2, <1>3

\* Where a call id is issued, and what the turn detector makes of no place and
\* of one (turn.rs:62-88).
LEMMA CountsOf ==
  ASSUME NEW w, NEW c
  PROVE  /\ (\A k \in DOMAIN w : \A b \in DOMAIN Calls(w[k]) : Calls(w[k])[b] # c)
              => IssuedCount(w, c) = 0
         /\ \A i \in DOMAIN w : \A a \in DOMAIN Calls(w[i]) :
              (\A k \in DOMAIN w : \A b \in DOMAIN Calls(w[k]) :
                 Calls(w[k])[b] = c <=> k = i /\ b = a)
              => IssuedCount(w, c) = 1
         /\ (\A k \in DOMAIN w : w[k].tool_call_id # c) => ResolvedCount(w, c) = 0
         /\ \A i \in DOMAIN w :
              (\A k \in DOMAIN w : w[k].tool_call_id = c <=> k = i) => ResolvedCount(w, c) = 1
<1> DEFINE Made  == UNION {{k} \X {b \in DOMAIN Calls(w[k]) : Calls(w[k])[b] = c} : k \in DOMAIN w}
           Given == {k \in DOMAIN w : w[k].tool_call_id = c}
<1>1. IssuedCount(w, c) = Cardinality(Made) /\ ResolvedCount(w, c) = Cardinality(Given)
  BY DEF IssuedCount, ResolvedCount
<1>2. \A x : x \in Made <=>
        \E k \in DOMAIN w : \E b \in DOMAIN Calls(w[k]) : Calls(w[k])[b] = c /\ x = <<k, b>>
  OBVIOUS
<1>3. \A k : k \in Given <=> k \in DOMAIN w /\ w[k].tool_call_id = c
  OBVIOUS
<1> HIDE DEF Made, Given
<1>4. ASSUME \A k \in DOMAIN w : \A b \in DOMAIN Calls(w[k]) : Calls(w[k])[b] # c
      PROVE  Made = {}
  BY <1>2, <1>4
<1>5. ASSUME NEW i \in DOMAIN w, NEW a \in DOMAIN Calls(w[i]),
             \A k \in DOMAIN w : \A b \in DOMAIN Calls(w[k]) :
               Calls(w[k])[b] = c <=> k = i /\ b = a
      PROVE  Made = {<<i, a>>}
  <2>1. \A x : x \in Made <=> x = <<i, a>>
    BY <1>2, <1>5
  <2> QED
    BY <2>1
<1>6. (\A k \in DOMAIN w : w[k].tool_call_id # c) => Given = {}
  BY <1>3
<1>7. \A i \in DOMAIN w : (\A k \in DOMAIN w : w[k].tool_call_id = c <=> k = i) => Given = {i}
  BY <1>3
<1>8. Cardinality({}) = 0 /\ \A x : Cardinality({x}) = 1
  BY FS_EmptySet, FS_Singleton
<1>9. /\ (\A k \in DOMAIN w : \A b \in DOMAIN Calls(w[k]) : Calls(w[k])[b] # c)
           => IssuedCount(w, c) = 0
      /\ (\A k \in DOMAIN w : w[k].tool_call_id # c) => ResolvedCount(w, c) = 0
  BY <1>1, <1>4, <1>6, <1>8
<1>10. ASSUME NEW i \in DOMAIN w, NEW a \in DOMAIN Calls(w[i]),
              \A k \in DOMAIN w : \A b \in DOMAIN Calls(w[k]) :
                Calls(w[k])[b] = c <=> k = i /\ b = a
       PROVE  IssuedCount(w, c) = 1
  BY <1>1, <1>5, <1>8, <1>10
<1>11. ASSUME NEW i \in DOMAIN w, \A k \in DOMAIN w : w[k].tool_call_id = c <=> k = i
       PROVE  ResolvedCount(w, c) = 1
  BY <1>1, <1>7, <1>8, <1>11
<1> QED
  BY <1>9, <1>10, <1>11

\* A prefix that ends in a final answer leaves no call open, counted as the
\* turn detector counts (turn.rs:62).
LEMMA ClosedPrefix ==
  ASSUME NEW v \in Seq(Message), Paired(v), NEW f \in FinalIndices(v)
  PROVE  AllToolCallsResolved(SubSeq(v, 1, f))
<1> DEFINE w == SubSeq(v, 1, f)
<1>1. f \in 1 .. Len(v) /\ DOMAIN v = 1 .. Len(v) /\ Len(v) \in Nat
  BY Basics DEF FinalIndices
<1>2. DOMAIN w = 1 .. f /\ \A i \in 1 .. f : w[i] = v[i]
  BY <1>1
<1> HIDE DEF w
<1>3. ASSUME NEW c \in CallIds
      PROVE  IssuedCount(w, c) = ResolvedCount(w, c)
  <2>1. c # None
    BY Basics
  <2>2. CASE \E i \in 1 .. f : c \in CallSet(v[i])
    <3>1. PICK i \in 1 .. f : c \in CallSet(v[i])
      BY <2>2
    <3>2. PICK a \in DOMAIN Calls(v[i]) : Calls(v[i])[a] = c
      BY <3>1 DEF CallSet
    <3>3. ASSUME NEW k \in 1 .. f, NEW b \in DOMAIN Calls(v[k]), Calls(v[k])[b] = c
          PROVE  k = i /\ b = a
      <4>1. c \in CallSet(v[k])
        BY <3>3 DEF CallSet
      <4>2. k = i
        BY <1>1, <3>1, <4>1 DEF Paired, IssuedOnce
      <4> QED
        BY <1>1, <3>2, <3>3, <4>2 DEF Paired, CallsDistinct
    <3>4. IssuedCount(w, c) = 1
      <4>1. i \in DOMAIN w /\ a \in DOMAIN Calls(w[i]) /\ w[i] = v[i]
        BY <1>2
      <4>2. \A k \in DOMAIN w : \A b \in DOMAIN Calls(w[k]) :
              Calls(w[k])[b] = c <=> k = i /\ b = a
        BY <1>2, <3>2, <3>3
      <4> QED
        BY <4>1, <4>2, CountsOf
    <3>5. PICK j \in 1 .. f : v[j].tool_call_id = c
      BY <1>1, <3>1 DEF Paired, AnswersClose, Whole
    <3>6. \A k \in 1 .. f : v[k].tool_call_id = c <=> k = j
      BY <1>1, <2>1, <3>5 DEF Paired, ResolvedOnce
    <3>7. ResolvedCount(w, c) = 1
      <4>1. j \in DOMAIN w /\ \A k \in DOMAIN w : w[k].tool_call_id = c <=> k = j
        BY <1>2, <3>6
      <4> QED
        BY <4>1, CountsOf
    <3> QED
      BY <3>4, <3>7
  <2>3. CASE ~\E i \in 1 .. f : c \in CallSet(v[i])
    <3>1. \A k \in 1 .. f : \A b \in DOMAIN Calls(v[k]) : Calls(v[k])[b] # c
      BY <2>3 DEF CallSet
    <3>2. \A k \in 1 .. f : v[k].tool_call_id # c
      BY <1>1, <2>1, <2>3 DEF Paired, ResultsFollow
    <3>3. /\ \A k \in DOMAIN w : \A b \in DOMAIN Calls(w[k]) : Calls(w[k])[b] # c
          /\ \A k \in DOMAIN w : w[k].tool_call_id # c
      BY <1>2, <3>1, <3>2
    <3>4. IssuedCount(w, c) = 0 /\ ResolvedCount(w, c) = 0
      BY <3>3, CountsOf
    <3> QED
      BY <3>4
  <2> QED
    BY <2>2, <2>3
<1> QED
  BY <1>3 DEF AllToolCallsResolved, w

\* The first q messages of v, which leave no call open, are replaced by n system
\* messages: the pairing of the rest is as it was.
LEMMA PairedAfterCut ==
  ASSUME NEW v \in Seq(Message), NEW w \in Seq(Message), Paired(v),
         NEW q \in 0 .. Len(v), NEW n \in Nat, Whole(v, q),
         Len(w) = n + Len(v) - q,
         \A i \in 1 .. n : w[i].role = "system" /\ Placed(w[i]),
         \A i \in 1 .. Len(v) - q : w[n + i] = v[q + i]
  PROVE  Paired(w)
<1> DEFINE old(i) == i - n + q
<1>1. DOMAIN v = 1 .. Len(v) /\ DOMAIN w = 1 .. Len(w) /\ Len(v) \in Nat /\ Len(w) \in Nat
  BY Basics
<1>2. ASSUME NEW i \in DOMAIN w, i > n
      PROVE  old(i) \in DOMAIN v /\ old(i) > q /\ w[i] = v[old(i)]
  <2>1. i - n \in 1 .. Len(v) - q
    BY <1>1, <1>2
  <2>2. w[n + (i - n)] = v[q + (i - n)] /\ n + (i - n) = i /\ q + (i - n) = old(i)
    BY <1>1, <2>1
  <2> QED
    BY <1>1, <1>2, <2>1, <2>2
<1>3. ASSUME NEW k \in DOMAIN v, k > q
      PROVE  k - q + n \in DOMAIN w /\ k - q + n > n /\ w[k - q + n] = v[k]
  <2>1. k - q \in 1 .. Len(v) - q
    BY <1>1, <1>3
  <2>2. w[n + (k - q)] = v[q + (k - q)] /\ n + (k - q) = k - q + n /\ q + (k - q) = k
    BY <1>1, <2>1
  <2> QED
    BY <1>1, <1>3, <2>1, <2>2
<1>4. ASSUME NEW i \in DOMAIN w, i <= n
      PROVE  /\ w[i].role = "system" /\ Placed(w[i])
             /\ CallSet(w[i]) = {} /\ w[i].tool_call_id = None /\ ~IsAssistantFinal(w[i])
  <2>1. w[i].role = "system" /\ Placed(w[i])
    BY <1>1, <1>4
  <2>2. Calls(w[i]) = <<>> /\ w[i].tool_call_id = None
    BY <2>1 DEF Placed
  <2>3. CallSet(w[i]) = {}
    BY <2>2 DEF CallSet
  <2> QED
    BY <2>1, <2>2, <2>3 DEF IsAssistantFinal
<1>5. FieldsPlaced(w) /\ ToolsNameCalls(w)
  <2> SUFFICES ASSUME NEW i \in DOMAIN w
               PROVE  Placed(w[i]) /\ (w[i].role = "tool" => w[i].tool_call_id # None)
    BY DEF FieldsPlaced, ToolsNameCalls
  <2>1. CASE i <= n
    BY <1>4, <2>1
  <2>2. CASE i > n
    BY <1>2, <2>2 DEF Paired, FieldsPlaced, ToolsNameCalls
  <2> QED
    BY <1>1, <2>1, <2>2
<1>6. CallsDistinct(w)
  <2> SUFFICES ASSUME NEW i \in DOMAIN w, NEW a \in DOMAIN Calls(w[i]), NEW b \in DOMAIN Calls(w[i]),
                      Calls(w[i])[a] = Calls(w[i])[b]
               PROVE  a = b
    BY DEF CallsDistinct
  <2>1. i > n
    <3>1. Calls(w[i])[a] \in CallSet(w[i])
      BY DEF CallSet
    <3> QED
      BY <1>1, <1>4, <3>1
  <2> QED
    BY <1>2, <2>1 DEF Paired, CallsDistinct
<1>7. IssuedOnce(w)
  <2> SUFFICES ASSUME NEW i \in DOMAIN w, NEW j \in DOMAIN w, NEW c \in CallIds,
                      c \in CallSet(w[i]), c \in CallSet(w[j])
               PROVE  i = j
    BY DEF IssuedOnce
  <2>1. i > n /\ j > n
    BY <1>1, <1>4
  <2>2. old(i) = old(j)
    BY <1>2, <2>1 DEF Paired, IssuedOnce
  <2> QED
    BY <1>1, <2>2
<1>8. ResolvedOnce(w)
  <2> SUFFICES ASSUME NEW i \in DOMAIN w, NEW j \in DOMAIN w,
                      w[i].tool_call_id = w[j].tool_call_id, w[i].tool_call_id # None
               PROVE  i = j
    BY DEF ResolvedOnce
  <2>1. i > n /\ j > n
    BY <1>1, <1>4
  <2>2. old(i) = old(j)
    BY <1>2, <2>1 DEF Paired, ResolvedOnce
  <2> QED
    BY <1>1, <2>2
<1>9. ResultsFollow(w)
  <2> SUFFICES ASSUME NEW j \in DOMAIN w, w[j].tool_call_id # None
               PROVE  \E i \in DOMAIN w : i < j /\ w[j].tool_call_id \in CallSet(w[i])
    BY DEF ResultsFollow
  <2>1. j > n /\ old(j) \in DOMAIN v /\ old(j) > q /\ w[j] = v[old(j)]
    BY <1>1, <1>2, <1>4
  <2>2. PICK k \in DOMAIN v : k < old(j) /\ w[j].tool_call_id \in CallSet(v[k])
    BY <2>1 DEF Paired, ResultsFollow
  <2>3. k > q
    <3>1. SUFFICES ASSUME k <= q PROVE FALSE
      BY <1>1
    <3>2. PICK l \in DOMAIN v : l <= q /\ v[l].tool_call_id = w[j].tool_call_id
      BY <2>2, <3>1 DEF Whole
    <3>3. l = old(j)
      BY <2>1, <3>2 DEF Paired, ResolvedOnce
    <3> QED
      BY <1>1, <2>1, <3>2, <3>3
  <2>4. /\ k - q + n \in DOMAIN w /\ k - q + n < j
        /\ w[j].tool_call_id \in CallSet(w[k - q + n])
    <3>1. k - q + n \in DOMAIN w /\ w[k - q + n] = v[k]
      BY <1>3, <2>3
    <3>2. k \in Int /\ j \in Int /\ k < j - n + q
      BY <1>1, <2>2
    <3>3. k - q + n < j
      BY <3>2
    <3> QED
      BY <2>2, <3>1, <3>3
  <2> QED
    BY <2>4
<1>10. AnswersClose(w)
  <2> SUFFICES ASSUME NEW f \in FinalIndices(w), NEW i \in DOMAIN w, NEW c \in CallSet(w[i]), i <= f
               PROVE  \E j \in DOMAIN w : j <= f /\ w[j].tool_call_id = c
    BY DEF AnswersClose, Whole
  <2>1. f \in DOMAIN w /\ IsAssistantFinal(w[f])
    BY <1>1 DEF FinalIndices
  <2>2. f > n /\ i > n
    BY <1>1, <1>4, <2>1
  <2>3. old(f) \in FinalIndices(v)
    BY <1>1, <1>2, <2>1, <2>2 DEF FinalIndices
  <2>4. old(i) \in DOMAIN v /\ old(i) > q /\ c \in CallSet(v[old(i)]) /\ old(i) <= old(f)
    BY <1>1, <1>2, <2>1, <2>2
  <2>5. PICK k \in DOMAIN v : k <= old(f) /\ v[k].tool_call_id = c
    BY <2>3, <2>4 DEF Paired, AnswersClose, Whole
  <2>6. c \in CallIds /\ c # None
    BY <1>1, Basics
  <2>7. k > q
    <3>1. SUFFICES ASSUME k <= q PROVE FALSE
      BY <1>1
    <3>2. PICK l \in DOMAIN v : l < k /\ c \in CallSet(v[l])
      BY <2>5, <2>6 DEF Paired, ResultsFollow
    <3>3. l = old(i)
      BY <2>4, <2>6, <3>2 DEF Paired, IssuedOnce
    <3> QED
      BY <1>1, <2>4, <3>1, <3>2, <3>3
  <2>8. k - q + n \in DOMAIN w /\ k - q + n <= f /\ w[k - q + n].tool_call_id = c
    BY <1>1, <1>3, <2>1, <2>5, <2>7
  <2> QED
    BY <2>8
<1> QED
  BY <1>5, <1>6, <1>7, <1>8, <1>9, <1>10 DEF Paired

\* The ids a validator looks up, by the messages that carry them.
LEMMA IdsOf ==
  ASSUME NEW v, NEW c
  PROVE  /\ c \in IssuedIds(v) <=> \E i \in DOMAIN v : c \in CallSet(v[i])
         /\ c \in ResolvedIds(v) <=> c # None /\ \E i \in DOMAIN v : v[i].tool_call_id = c
BY DEF IssuedIds, ResolvedIds

\* What the validator lets in keeps the pairing (validator.rs:65-127).
LEMMA PairedAfterAppend ==
  ASSUME NEW v \in Seq(Message), Paired(v),
         NEW m \in Message, Placed(m), ValidateAppend(v, m)
  PROVE  Paired(Append(v, m))
<1> DEFINE w    == Append(v, m)
           last == Len(v) + 1
<1>1. /\ Len(v) \in Nat /\ DOMAIN v = 1 .. Len(v) /\ DOMAIN w = 1 .. last
      /\ w[last] = m /\ \A i \in 1 .. Len(v) : w[i] = v[i]
  BY Basics, AppendProperties, LenProperties
<1>2. ASSUME NEW i \in DOMAIN w
      PROVE  (i = last /\ w[i] = m) \/ (i \in DOMAIN v /\ i < last /\ w[i] = v[i])
  <2>1. i \in 1 .. last
    BY <1>1
  <2> HIDE DEF w
  <2>2. CASE i = last
    BY <1>1, <2>2
  <2>3. CASE i # last
    <3>1. i \in 1 .. Len(v) /\ i < last
      BY <1>1, <2>1, <2>3
    <3> QED
      BY <1>1, <3>1
  <2> QED
    BY <2>2, <2>3
<1>3. \A i \in DOMAIN v : i \in DOMAIN w /\ w[i] = v[i] /\ i < last
  BY <1>1
<1> HIDE DEF w, last
<1>4. m.tool_call_id # None => m.role = "tool" /\ ValidToolResult(v, m)
  BY DEF Placed, ValidateAppend, ValidToolFields
<1>5. m.role = "tool" => m.tool_call_id # None
  BY DEF ValidateAppend, ValidToolFields, ValidToolResult
<1>6. m.role # "assistant" => CallSet(m) = {} /\ DOMAIN Calls(m) = {}
  <2>1. m.role # "assistant" => Calls(m) = <<>>
    BY DEF Placed
  <2> QED
    BY <2>1 DEF CallSet
<1>7. m.role = "assistant" => ValidAssistant(v, m)
  BY DEF ValidateAppend, ValidToolFields
<1>8. FieldsPlaced(w) /\ ToolsNameCalls(w)
  BY <1>2, <1>5 DEF Paired, FieldsPlaced, ToolsNameCalls
<1>9. CallsDistinct(w)
  <2>1. \A a, b \in DOMAIN Calls(m) : Calls(m)[a] = Calls(m)[b] => a = b
    BY <1>6, <1>7 DEF ValidAssistant
  <2> QED
    BY <1>2, <2>1 DEF Paired, CallsDistinct
<1>10. IssuedOnce(w)
  <2>1. \A i \in DOMAIN v : \A c : c \in CallSet(m) => c \notin CallSet(v[i])
    BY <1>6, <1>7, IdsOf DEF ValidAssistant
  <2> QED
    BY <1>2, <2>1 DEF Paired, IssuedOnce
<1>11. ResolvedOnce(w)
  <2>1. m.tool_call_id # None => \A i \in DOMAIN v : v[i].tool_call_id # m.tool_call_id
    BY <1>4, IdsOf DEF ValidToolResult
  <2> QED
    BY <1>2, <2>1 DEF Paired, ResolvedOnce
<1>12. ResultsFollow(w)
  <2>1. m.tool_call_id # None => \E i \in DOMAIN v : m.tool_call_id \in CallSet(v[i])
    BY <1>4, IdsOf DEF ValidToolResult
  <2> SUFFICES ASSUME NEW j \in DOMAIN w, w[j].tool_call_id # None
               PROVE  \E i \in DOMAIN w : i < j /\ w[j].tool_call_id \in CallSet(w[i])
    BY DEF ResultsFollow
  <2>2. CASE j = last /\ w[j] = m
    BY <1>3, <2>1, <2>2
  <2>3. CASE j \in DOMAIN v /\ w[j] = v[j]
    <3>1. PICK i \in DOMAIN v : i < j /\ v[j].tool_call_id \in CallSet(v[i])
      BY <2>3 DEF Paired, ResultsFollow
    <3> QED
      BY <1>3, <2>3, <3>1
  <2> QED
    BY <1>2, <2>2, <2>3
<1>13. AnswersClose(w)
  <2> SUFFICES ASSUME NEW f \in FinalIndices(w), NEW i \in DOMAIN w, NEW c \in CallSet(w[i]), i <= f
               PROVE  \E j \in DOMAIN w : j <= f /\ w[j].tool_call_id = c
    BY DEF AnswersClose, Whole
  <2>1. f \in DOMAIN w /\ IsAssistantFinal(w[f])
    BY <1>1 DEF FinalIndices, w, last
  <2>2. CASE f = last /\ w[f] = m
    <3>1. CallSet(m) = {} /\ m.role = "assistant"
      BY <2>1, <2>2 DEF IsAssistantFinal, HasToolCalls, CallSet
    <3>2. i \in DOMAIN v /\ c \in CallSet(v[i])
      BY <1>2, <3>1
    <3>3. c \in ResolvedIds(v)
      BY <1>7, <3>1, <3>2, IdsOf DEF ValidAssistant
    <3>4. PICK j \in DOMAIN v : v[j].tool_call_id = c
      BY <3>3, IdsOf
    <3> QED
      BY <1>3, <1>1, <2>2, <3>4
  <2>3. CASE f \in DOMAIN v /\ w[f] = v[f] /\ f < last
    <3>1. f \in FinalIndices(v)
      BY <1>1, <2>1, <2>3 DEF FinalIndices
    <3>2. i \in DOMAIN v /\ c \in CallSet(v[i])
      BY <1>1, <1>2, <2>3
    <3>3. PICK j \in DOMAIN v : j <= f /\ v[j].tool_call_id = c
      BY <3>1, <3>2 DEF Paired, AnswersClose, Whole
    <3> QED
      BY <1>3, <3>3
  <2> QED
    BY <1>2, <2>1, <2>2, <2>3
<1> QED
  BY <1>8, <1>9, <1>10, <1>11, <1>12, <1>13 DEF Paired, w

\* Where the messages of a concatenation, and of a suffix, come from.
LEMMA ConcatIndex ==
  ASSUME NEW s \in Seq(Message), NEW t \in Seq(Message)
  PROVE  /\ s \o t \in Seq(Message) /\ Len(s \o t) = Len(s) + Len(t)
         /\ \A i \in 1 .. Len(s) : (s \o t)[i] = s[i]
         /\ \A i \in 1 .. Len(t) : (s \o t)[Len(s) + i] = t[i]
<1>1. Len(s) \in Nat /\ Len(t) \in Nat
  BY LenProperties
<1>2. /\ s \o t \in Seq(Message) /\ Len(s \o t) = Len(s) + Len(t)
      /\ \A i \in 1 .. Len(s) + Len(t) :
           (s \o t)[i] = IF i <= Len(s) THEN s[i] ELSE t[i - Len(s)]
  BY ConcatProperties
<1>3. ASSUME NEW i \in 1 .. Len(t)
      PROVE  (s \o t)[Len(s) + i] = t[i]
  <2>1. Len(s) + i \in 1 .. Len(s) + Len(t) /\ ~(Len(s) + i <= Len(s)) /\ (Len(s) + i) - Len(s) = i
    BY <1>1
  <2> QED
    BY <1>2, <2>1
<1> QED
  BY <1>1, <1>2, <1>3

LEMMA SuffixIndex ==
  ASSUME NEW s \in Seq(Message), NEW k \in 0 .. Len(s)
  PROVE  /\ SubSeq(s, k + 1, Len(s)) \in Seq(Message)
         /\ Len(SubSeq(s, k + 1, Len(s))) = Len(s) - k
         /\ \A i \in 1 .. Len(s) - k : SubSeq(s, k + 1, Len(s))[i] = s[k + i]
<1>1. Len(s) \in Nat /\ k + 1 \in Int /\ \A i \in k + 1 .. Len(s) : s[i] \in Message
  BY LenProperties, ElementOfSeq
<1>2. /\ SubSeq(s, k + 1, Len(s)) \in Seq(Message)
      /\ Len(SubSeq(s, k + 1, Len(s))) = IF k + 1 <= Len(s) THEN Len(s) - (k + 1) + 1 ELSE 0
      /\ \A i \in 1 .. Len(s) - (k + 1) + 1 : SubSeq(s, k + 1, Len(s))[i] = s[(k + 1) + i - 1]
  BY <1>1, SubSeqProperties
<1>3. Len(s) - (k + 1) + 1 = Len(s) - k /\ (~(k + 1 <= Len(s)) => Len(s) - k = 0)
  BY <1>1
<1>4. \A i \in 1 .. Len(s) - k : (k + 1) + i - 1 = k + i
  BY <1>1
<1> QED
  BY <1>2, <1>3, <1>4

LEMMA PrefixIndex ==
  ASSUME NEW s \in Seq(Message), NEW k \in 0 .. Len(s)
  PROVE  /\ SubSeq(s, 1, k) \in Seq(Message) /\ DOMAIN SubSeq(s, 1, k) = 1 .. k
         /\ \A i \in 1 .. k : SubSeq(s, 1, k)[i] = s[i]
BY LenProperties

\* A conversation is its head, if it has one, and its body.
LEMMA HeadAndBody ==
  ASSUME NEW v \in Seq(Message)
  PROVE  \E h \in {0, 1} :
           /\ h <= Len(v) /\ Len(PreserveHead(v)) = h /\ Len(Body(v)) = Len(v) - h
           /\ PreserveHead(v) \in Seq(Message) /\ Body(v) \in Seq(Message)
           /\ h = 1 => v[1].role = "system" /\ PreserveHead(v)[1] = v[1]
           /\ \A i \in 1 .. Len(v) - h : Body(v)[i] = v[h + i]
<1>1. PreserveHead(v) \in Seq(Message) /\ Body(v) \in Seq(Message)
  BY PartTypes
<1>2. CASE HasHead(v)
  <2>1. v # <<>> /\ v[1].role = "system" /\ v[1] \in Message
    BY <1>2, Basics DEF HasHead
  <2>2. /\ Len(PreserveHead(v)) = 1 /\ PreserveHead(v)[1] = v[1]
        /\ Body(v) = Tail(v)
    BY <1>2, <2>1 DEF PreserveHead, Body
  <2>3. /\ Len(v) \in Nat \ {0} /\ Len(Body(v)) = Len(v) - 1
        /\ \A i \in 1 .. Len(v) - 1 : Body(v)[i] = v[i + 1]
    BY <2>1, <2>2, HeadTailProperties, EmptySeq
  <2> QED
    BY <1>1, <2>1, <2>2, <2>3
<1>3. CASE ~HasHead(v)
  <2>1. PreserveHead(v) = <<>> /\ Body(v) = v
    BY <1>3 DEF PreserveHead, Body
  <2> QED
    BY <1>1, <2>1, Basics
<1> QED
  BY <1>2, <1>3

\* System messages carry no calls, so a head is whole by itself.
LEMMA HeadIsWhole ==
  ASSUME NEW v \in Seq(Message), Paired(v), NEW h \in {0, 1}, h <= Len(v),
         h = 1 => v[1].role = "system"
  PROVE  Whole(v, h)
<1>1. DOMAIN v = 1 .. Len(v) /\ Len(v) \in Nat
  BY Basics
<1> SUFFICES ASSUME NEW i \in DOMAIN v, NEW c \in CallSet(v[i]), i <= h PROVE FALSE
  BY DEF Whole
<1>2. i = 1 /\ v[i].role = "system"
  BY <1>1
<1>3. Calls(v[i]) = <<>>
  BY <1>2 DEF Paired, FieldsPlaced, Placed
<1> QED
  BY <1>3 DEF CallSet

LEMMA PairedBody ==
  ASSUME NEW v \in Seq(Message), Paired(v)
  PROVE  Paired(Body(v))
<1>1. PICK h \in {0, 1} :
        /\ h <= Len(v) /\ Len(Body(v)) = Len(v) - h /\ Body(v) \in Seq(Message)
        /\ h = 1 => v[1].role = "system"
        /\ \A i \in 1 .. Len(v) - h : Body(v)[i] = v[h + i]
  BY HeadAndBody
<1>2. Whole(v, h)
  BY <1>1, HeadIsWhole
<1>3. Len(v) \in Nat
  BY Basics
<1>4. \A i \in 1 .. Len(v) - h : Body(v)[0 + i] = v[h + i]
  BY <1>1, <1>3
<1>5. h \in 0 .. Len(v) /\ Len(Body(v)) = 0 + Len(v) - h /\ 1 .. 0 = {}
  BY <1>1, <1>3
<1> QED
  BY <1>1, <1>2, <1>4, <1>5, PairedAfterCut

\* Another prompt at the head keeps the pairing (demo.rs:507-513).
LEMMA PairedAfterPrompt ==
  ASSUME NEW v \in Seq(Message), Paired(v), NEW p \in Prompts
  PROVE  Paired(WithPrompt(v, p))
<1> DEFINE w == WithPrompt(v, p)
<1>1. PICK h \in {0, 1} :
        /\ h <= Len(v) /\ Len(Body(v)) = Len(v) - h /\ Body(v) \in Seq(Message)
        /\ h = 1 => v[1].role = "system"
        /\ \A i \in 1 .. Len(v) - h : Body(v)[i] = v[h + i]
  BY HeadAndBody
<1>2. Whole(v, h)
  BY <1>1, HeadIsWhole
<1>3. /\ SystemText(p) \in Message /\ SystemText(p).role = "system" /\ Placed(SystemText(p))
  BY DEF SystemText, Message, Roles, Texts, Placed, Calls
<1>4. Len(v) \in Nat
  BY Basics
<1>5. /\ w \in Seq(Message) /\ Len(w) = 1 + Len(v) - h /\ w[1] = SystemText(p)
      /\ \A i \in 1 .. Len(v) - h : w[1 + i] = v[h + i]
  <2> DEFINE s == <<SystemText(p)>>
  <2>1. s \in Seq(Message) /\ Len(s) = 1 /\ s[1] = SystemText(p)
    BY <1>3
  <2> HIDE DEF s
  <2>2. /\ s \o Body(v) \in Seq(Message) /\ Len(s \o Body(v)) = 1 + Len(v) - h
        /\ (s \o Body(v))[1] = SystemText(p)
        /\ \A i \in 1 .. Len(v) - h : (s \o Body(v))[1 + i] = v[h + i]
    <3>1. /\ s \o Body(v) \in Seq(Message) /\ Len(s \o Body(v)) = 1 + (Len(v) - h)
          /\ \A i \in 1 .. 1 : (s \o Body(v))[i] = s[i]
          /\ \A i \in 1 .. Len(v) - h : (s \o Body(v))[1 + i] = Body(v)[i]
      <4>1. /\ s \o Body(v) \in Seq(Message) /\ Len(s \o Body(v)) = Len(s) + Len(Body(v))
            /\ \A i \in 1 .. Len(s) : (s \o Body(v))[i] = s[i]
            /\ \A i \in 1 .. Len(Body(v)) : (s \o Body(v))[Len(s) + i] = Body(v)[i]
        BY <1>1, <2>1, ConcatIndex
      <4> QED
        BY <1>1, <2>1, <4>1
    <3>2. 1 + (Len(v) - h) = 1 + Len(v) - h
      BY <1>4
    <3>3. ASSUME NEW i \in 1 .. Len(v) - h
          PROVE  (s \o Body(v))[1 + i] = v[h + i]
      <4>1. (s \o Body(v))[1 + i] = Body(v)[i]
        BY <3>1
      <4>2. Body(v)[i] = v[h + i]
        BY <1>1
      <4> QED
        BY <4>1, <4>2
    <3>4. (s \o Body(v))[1] = s[1]
      <4>1. 1 \in 1 .. 1
        OBVIOUS
      <4>2. \A i \in 1 .. 1 : (s \o Body(v))[i] = s[i]
        BY <3>1
      <4> QED
        BY <4>1, <4>2
    <3> QED
      BY <2>1, <3>1, <3>2, <3>3, <3>4
  <2> QED
    BY <2>2 DEF WithPrompt, s
<1> HIDE DEF w
<1>6. \A i \in 1 .. 1 : w[i].role = "system" /\ Placed(w[i])
  BY <1>3, <1>5
<1>7. h \in 0 .. Len(v)
  BY <1>1, <1>4
<1>8. Paired(w)
  BY <1>2, <1>5, <1>6, <1>7, PairedAfterCut
<1> QED
  BY <1>8 DEF w

\* Where the messages of a compacted conversation come from.
LEMMA CompactionPlaces ==
  ASSUME NEW v \in Seq(Message), NEW k \in 1 .. Len(Body(v)),
         \A i \in DOMAIN PreserveHead(v) : Placed(PreserveHead(v)[i])
  PROVE  \E h \in {0, 1} :
           /\ h <= Len(v) /\ h + k \in 1 .. Len(v)
           /\ Len(Body(v)) = Len(v) - h /\ Body(v) \in Seq(Message)
           /\ h = 1 => v[1].role = "system" /\ Placed(v[1])
           /\ \A i \in 1 .. Len(v) - h : Body(v)[i] = v[h + i]
           /\ Summarized(v, k) \in Seq(Message)
           /\ Len(Summarized(v, k)) = (h + 1) + Len(v) - (h + k)
           /\ \A i \in 1 .. h + 1 : /\ Summarized(v, k)[i].role = "system"
                                     /\ Placed(Summarized(v, k)[i])
           /\ \A i \in 1 .. Len(v) - (h + k) : Summarized(v, k)[(h + 1) + i] = v[(h + k) + i]
<1> DEFINE w   == Summarized(v, k)
           sum == SummaryOf(SubSeq(Body(v), 1, k))
<1>1. PICK h \in {0, 1} :
        /\ h <= Len(v) /\ Len(Body(v)) = Len(v) - h /\ Body(v) \in Seq(Message)
        /\ Len(PreserveHead(v)) = h /\ PreserveHead(v) \in Seq(Message)
        /\ h = 1 => v[1].role = "system" /\ PreserveHead(v)[1] = v[1]
        /\ \A i \in 1 .. Len(v) - h : Body(v)[i] = v[h + i]
  BY HeadAndBody
<1>2. Len(v) \in Nat /\ DOMAIN v = 1 .. Len(v) /\ h + k \in 1 .. Len(v)
  <2>1. Len(v) \in Nat /\ DOMAIN v = 1 .. Len(v)
    BY Basics
  <2> QED
    BY <1>1, <2>1
<1>3. h = 1 => Placed(v[1])
  <2>1. h = 1 => 1 \in DOMAIN PreserveHead(v)
    BY <1>1
  <2> QED
    BY <1>1, <2>1
<1>4. sum \in Message /\ sum.role = "system" /\ Placed(sum)
  <2>1. SubSeq(Body(v), 1, k) \in Seq(Message)
    BY <1>1
  <2> QED
    BY <2>1, SummaryIsMessage DEF SummaryOf, Placed, Calls
<1>5. /\ w \in Seq(Message) /\ Len(w) = (h + 1) + Len(v) - (h + k)
      /\ \A i \in 1 .. h + 1 : w[i].role = "system" /\ Placed(w[i])
      /\ \A i \in 1 .. Len(v) - (h + k) : w[(h + 1) + i] = v[(h + k) + i]
  <2> DEFINE pre  == PreserveHead(v)
             mid  == <<sum>>
             rest == SubSeq(Body(v), k + 1, Len(Body(v)))
  <2>1. mid \in Seq(Message) /\ Len(mid) = 1 /\ mid[1] = sum
    BY <1>4
  <2>2. /\ rest \in Seq(Message) /\ Len(rest) = Len(v) - (h + k)
        /\ \A i \in 1 .. Len(v) - (h + k) : rest[i] = v[(h + k) + i]
    <3>1. k \in 0 .. Len(Body(v)) /\ Len(Body(v)) - k = Len(v) - (h + k)
      BY <1>1, <1>2
    <3>2. /\ rest \in Seq(Message) /\ Len(rest) = Len(Body(v)) - k
          /\ \A i \in 1 .. Len(Body(v)) - k : rest[i] = Body(v)[k + i]
      BY <1>1, <3>1, SuffixIndex
    <3>3. ASSUME NEW i \in 1 .. Len(v) - (h + k)
          PROVE  Body(v)[k + i] = v[(h + k) + i]
      <4>0. h \in Int /\ k \in Int /\ k >= 1
        OBVIOUS
      <4>1. k + i \in 1 .. Len(v) - h /\ h + (k + i) = (h + k) + i
        BY <1>2, <4>0
      <4> QED
        BY <1>1, <4>1
    <3> QED
      BY <3>1, <3>2, <3>3
  <2>3. pre \in Seq(Message) /\ Len(pre) = h /\ \A i \in 1 .. h : pre[i] = v[i] /\ v[i].role = "system"
    BY <1>1
  <2> HIDE DEF pre, mid, rest, sum
  <2>4. /\ pre \o mid \in Seq(Message) /\ Len(pre \o mid) = h + 1
        /\ \A i \in 1 .. h : (pre \o mid)[i] = v[i]
        /\ (pre \o mid)[h + 1] = sum
    <3>1. /\ pre \o mid \in Seq(Message) /\ Len(pre \o mid) = h + 1
          /\ \A i \in 1 .. h : (pre \o mid)[i] = pre[i]
          /\ \A i \in 1 .. 1 : (pre \o mid)[h + i] = mid[i]
      <4>1. /\ pre \o mid \in Seq(Message) /\ Len(pre \o mid) = Len(pre) + Len(mid)
            /\ \A i \in 1 .. Len(pre) : (pre \o mid)[i] = pre[i]
            /\ \A i \in 1 .. Len(mid) : (pre \o mid)[Len(pre) + i] = mid[i]
        BY <2>1, <2>3, ConcatIndex
      <4> QED
        BY <2>1, <2>3, <4>1
    <3> QED
      BY <2>1, <2>3, <3>1
  <2>5. /\ (pre \o mid) \o rest \in Seq(Message)
        /\ Len((pre \o mid) \o rest) = (h + 1) + Len(v) - (h + k)
        /\ \A i \in 1 .. h + 1 : ((pre \o mid) \o rest)[i] = (pre \o mid)[i]
        /\ \A i \in 1 .. Len(v) - (h + k) : ((pre \o mid) \o rest)[(h + 1) + i] = rest[i]
    <3>0. h \in Int /\ k \in Int
      OBVIOUS
    <3>1. (h + 1) + (Len(v) - (h + k)) = (h + 1) + Len(v) - (h + k)
      BY <1>2, <3>0
    <3>2. /\ (pre \o mid) \o rest \in Seq(Message)
          /\ Len((pre \o mid) \o rest) = (h + 1) + (Len(v) - (h + k))
          /\ \A i \in 1 .. h + 1 : ((pre \o mid) \o rest)[i] = (pre \o mid)[i]
          /\ \A i \in 1 .. Len(v) - (h + k) : ((pre \o mid) \o rest)[(h + 1) + i] = rest[i]
      <4>1. /\ (pre \o mid) \o rest \in Seq(Message)
            /\ Len((pre \o mid) \o rest) = Len(pre \o mid) + Len(rest)
            /\ \A i \in 1 .. Len(pre \o mid) : ((pre \o mid) \o rest)[i] = (pre \o mid)[i]
            /\ \A i \in 1 .. Len(rest) : ((pre \o mid) \o rest)[Len(pre \o mid) + i] = rest[i]
        BY <2>2, <2>4, ConcatIndex
      <4> QED
        BY <2>2, <2>4, <4>1
    <3> QED
      BY <3>1, <3>2
  <2>6. \A i \in 1 .. h + 1 : (pre \o mid)[i].role = "system" /\ Placed((pre \o mid)[i])
    <3>1. \A i \in 1 .. h : v[i].role = "system" /\ Placed(v[i])
      BY <1>1, <1>3
    <3> QED
      BY <1>4, <2>4, <3>1
  <2>7. w = (pre \o mid) \o rest
    BY DEF Summarized, pre, mid, rest, sum
  <2> HIDE DEF w
  <2> QED
    BY <2>2, <2>5, <2>6, <2>7
<1> HIDE DEF w
<1>6. /\ w \in Seq(Message) /\ Len(w) = (h + 1) + Len(v) - (h + k)
      /\ \A i \in 1 .. h + 1 : w[i].role = "system" /\ Placed(w[i])
      /\ \A i \in 1 .. Len(v) - (h + k) : w[(h + 1) + i] = v[(h + k) + i]
  BY <1>5
<1> QED
  BY <1>1, <1>2, <1>3, <1>6 DEF w

\* So does a compaction of whole turns (compressor.rs:148-153).
LEMMA PairedAfterCompaction ==
  ASSUME NEW v \in Seq(Message), Paired(v), NEW k \in 1 .. Len(Body(v)),
         IsAssistantFinal(Body(v)[k])
  PROVE  Summarized(v, k) \in Seq(Message) /\ Paired(Summarized(v, k))
<1> DEFINE w == Summarized(v, k)
<1>1. \A i \in DOMAIN PreserveHead(v) : Placed(PreserveHead(v)[i])
  <2>1. CASE HasHead(v)
    <3>1. v # <<>> /\ PreserveHead(v) = <<v[1]>> /\ Placed(v[1])
      BY <2>1, Basics DEF HasHead, PreserveHead, Paired, FieldsPlaced
    <3> QED
      BY <3>1
  <2>2. CASE ~HasHead(v)
    BY <2>2 DEF PreserveHead
  <2> QED
    BY <2>1, <2>2
<1>2. PICK h \in {0, 1} :
        /\ h <= Len(v) /\ h + k \in 1 .. Len(v) /\ Len(Body(v)) = Len(v) - h
        /\ \A i \in 1 .. Len(v) - h : Body(v)[i] = v[h + i]
        /\ w \in Seq(Message) /\ Len(w) = (h + 1) + Len(v) - (h + k)
        /\ \A i \in 1 .. h + 1 : w[i].role = "system" /\ Placed(w[i])
        /\ \A i \in 1 .. Len(v) - (h + k) : w[(h + 1) + i] = v[(h + k) + i]
  BY <1>1, CompactionPlaces
<1> HIDE DEF w
<1>3. Len(v) \in Nat
  BY Basics
<1>4. Whole(v, h + k)
  <2>1. k \in 1 .. Len(v) - h
    BY <1>2
  <2>2. h + k \in FinalIndices(v)
    BY <1>2, <2>1 DEF FinalIndices
  <2> QED
    BY <2>2 DEF Paired, AnswersClose
<1>5. h + k \in 0 .. Len(v) /\ h + 1 \in Nat
  BY <1>2, <1>3
<1>6. Paired(w)
  BY <1>2, <1>4, <1>5, PairedAfterCut
<1> QED
  BY <1>2, <1>6 DEF w

-----------------------------------------------------------------------------
(* A merge, seen from outside, is a compaction.                            *)

\* The body is the previous summary, if there is one, and what came after it.
LEMMA SummaryAndDelta ==
  ASSUME NEW s \in Seq(Message)
  PROVE  \E g \in {0, 1} :
           /\ g <= Len(Body(s)) /\ Len(PreviousSummary(s)) = g
           /\ Len(DeltaBody(s)) = Len(Body(s)) - g
           /\ PreviousSummary(s) \in Seq(Message) /\ DeltaBody(s) \in Seq(Message)
           /\ g = 1 => PreviousSummary(s)[1] = Body(s)[1]
           /\ \A i \in 1 .. Len(Body(s)) - g : DeltaBody(s)[i] = Body(s)[g + i]
<1> DEFINE b == Body(s)
<1>1. /\ PreviousSummary(s) \in Seq(Message) /\ b \in Seq(Message)
      /\ DeltaBody(s) \in Seq(Message)
  BY PartTypes
<1>2. CASE HasPreviousSummary(s)
  <2>1. /\ b # <<>> /\ Len(PreviousSummary(s)) = 1 /\ PreviousSummary(s)[1] = b[1]
        /\ DeltaBody(s) = Tail(b)
    BY <1>2 DEF HasPreviousSummary, PreviousSummary, DeltaBody
  <2> HIDE DEF b
  <2>2. /\ Len(b) \in Nat \ {0} /\ Len(DeltaBody(s)) = Len(b) - 1
        /\ \A i \in 1 .. Len(b) - 1 : DeltaBody(s)[i] = b[i + 1]
    BY <1>1, <2>1, HeadTailProperties, EmptySeq
  <2> QED
    BY <1>1, <2>1, <2>2 DEF b
<1>3. CASE ~HasPreviousSummary(s)
  <2>1. PreviousSummary(s) = <<>> /\ DeltaBody(s) = b
    BY <1>3 DEF PreviousSummary, DeltaBody
  <2> HIDE DEF b
  <2>2. Len(b) \in Nat /\ \A i \in 1 .. Len(b) - 0 : b[i] = b[0 + i]
    BY <1>1, LenProperties
  <2> QED
    BY <1>1, <2>1, <2>2 DEF b
<1> QED
  BY <1>2, <1>3

\* The turns after a place are those after the same place of a conversation
\* that goes on, or more.
LEMMA TurnsStay ==
  ASSUME NEW v \in Seq(Message), NEW w \in Seq(Message), NEW d \in Nat, NEW n \in Nat,
         d + Len(v) <= Len(w), \A i \in 1 .. Len(v) : i > n => w[d + i] = v[i]
  PROVE  TurnsAfter(v, n) \in Nat /\ TurnsAfter(w, d + n) \in Nat
         /\ TurnsAfter(w, d + n) >= TurnsAfter(v, n)
<1> DEFINE S == {j \in FinalIndices(v) : j > n}
           T == {j \in FinalIndices(w) : j > d + n}
           f == [j \in S |-> d + j]
<1>1. Len(v) \in Nat /\ Len(w) \in Nat
  BY LenProperties
<1>2. IsFiniteSet(S) /\ IsFiniteSet(T)
  BY TurnsAreCounted, FS_Subset
<1>3. ASSUME NEW j \in S
      PROVE  d + j \in T
  <2>1. j \in 1 .. Len(v) /\ j > n /\ IsAssistantFinal(v[j])
    BY DEF FinalIndices
  <2>2. d + j \in 1 .. Len(w) /\ d + j > d + n
    BY <1>1, <2>1
  <2> QED
    BY <2>1, <2>2 DEF FinalIndices
<1>4. f \in Injection(S, T)
  <2>1. f \in [S -> T]
    BY <1>3
  <2>2. \A i, j \in S : f[i] = f[j] => i = j
    BY DEF FinalIndices
  <2> QED
    BY <2>1, <2>2 DEF Injection, IsInjective
<1> HIDE DEF S, T, f
<1>5. Cardinality(S) <= Cardinality(T) /\ Cardinality(S) \in Nat /\ Cardinality(T) \in Nat
  BY <1>2, <1>4, FS_Injection, FS_CardinalityType
<1> QED
  BY <1>5 DEF TurnsAfter, S, T

\* A plan ends at a final answer and leaves the turns to be kept (turn.rs:43).
LEMMA SplitEndsTurn ==
  ASSUME NEW s \in Seq(Message), NEW keep \in Nat, s # <<>>,
         IsAssistantFinal(s[Len(s)]), HasPlan(s, keep)
  PROVE  LET n == SplitIndex(DeltaBody(s), keep)
         IN  /\ n \in 1 .. Len(DeltaBody(s))
             /\ IsAssistantFinal(DeltaBody(s)[n])
             /\ TurnsAfter(DeltaBody(s), n) >= keep
<1> DEFINE d == DeltaBody(s)
           n == SplitIndex(d, keep)
<1>1. d \in Seq(Message) /\ n \in 0 .. Len(d) /\ Len(d) \in Nat
  BY PlanParts, SplitInRange, LenProperties
<1>2. n # 0
  <2>1. SubSeq(d, 1, n) # <<>>
    BY DEF HasPlan, Compressible
  <2> QED
    BY <1>1, <2>1, SubSeqEmpty
<1>3. CASE keep = 0
  <2>1. n = Len(d)
    BY <1>3 DEF SplitIndex
  <2>2. d[Len(d)] = s[Len(s)]
    <3>1. PICK h \in {0, 1} :
            /\ h <= Len(s) /\ Len(Body(s)) = Len(s) - h
            /\ \A i \in 1 .. Len(s) - h : Body(s)[i] = s[h + i]
      BY HeadAndBody
    <3>2. PICK g \in {0, 1} :
            /\ g <= Len(Body(s)) /\ Len(d) = Len(Body(s)) - g
            /\ \A i \in 1 .. Len(Body(s)) - g : d[i] = Body(s)[g + i]
      BY SummaryAndDelta
    <3>3. Len(s) \in Nat /\ Len(Body(s)) \in Nat /\ h \in Int /\ g \in Int
      BY PlanParts, LenProperties
    <3>4. Len(d) \in 1 .. Len(Body(s)) - g /\ g + Len(d) = Len(Body(s))
      <4>1. Len(d) >= 1 /\ Len(d) \in Int /\ Len(d) = Len(Body(s)) - g
        BY <1>1, <1>2, <2>1, <3>2
      <4> HIDE DEF d
      <4> QED
        BY <3>3, <4>1
    <3>5. Len(Body(s)) \in 1 .. Len(s) - h /\ h + Len(Body(s)) = Len(s)
      BY <1>1, <1>2, <2>1, <3>1, <3>2, <3>3
    <3>6. d[Len(d)] = Body(s)[Len(Body(s))]
      BY <3>2, <3>4
    <3>7. Body(s)[Len(Body(s))] = s[Len(s)]
      BY <3>1, <3>5
    <3> QED
      BY <3>6, <3>7
  <2>3. TurnsAfter(d, n) \in Nat
    <3>1. IsFiniteSet({j \in FinalIndices(d) : j > n})
      BY <1>1, TurnsAreCounted, FS_Subset
    <3> QED
      BY <3>1, FS_CardinalityType DEF TurnsAfter
  <2> QED
    BY <1>1, <1>2, <1>3, <2>1, <2>2, <2>3
<1>4. CASE keep # 0
  <2>1. n \in FinalIndices(d) /\ TurnsAfter(d, n) = keep
    BY <1>2, <1>4 DEF SplitIndex
  <2> QED
    BY <1>1, <1>2, <2>1 DEF FinalIndices
<1> QED
  BY <1>3, <1>4

\* What follows a conversation does not change its head (compressor.rs:100).
LEMMA BodyOfConcat ==
  ASSUME NEW s \in Seq(Message), NEW p \in Seq(Message), s # <<>> \/ p = <<>>
  PROVE  /\ PreserveHead(s \o p) = PreserveHead(s)
         /\ Body(s \o p) = Body(s) \o p
<1>1. CASE p = <<>>
  <2>1. s \o p = s /\ Body(s) \o p = Body(s)
    BY <1>1, PartTypes, ConcatEmptySeq
  <2> QED
    BY <2>1
<1>2. CASE s # <<>>
  <2> DEFINE v == s \o p
  <2>1. /\ Len(s) \in Nat \ {0} /\ Len(p) \in Nat /\ v \in Seq(Message)
        /\ Len(v) = Len(s) + Len(p)
        /\ \A i \in 1 .. Len(s) + Len(p) : v[i] = IF i <= Len(s) THEN s[i] ELSE p[i - Len(s)]
    BY <1>2, EmptySeq, LenProperties, ConcatProperties
  <2> HIDE DEF v
  <2>2. v[1] = s[1] /\ v # <<>>
    BY <2>1
  <2>3. HasHead(v) <=> HasHead(s)
    BY <1>2, <2>2 DEF HasHead
  <2>4. PreserveHead(v) = PreserveHead(s)
    BY <2>2, <2>3 DEF PreserveHead
  <2>5. CASE ~HasHead(s)
    <3>1. Body(v) = v /\ Body(s) = s
      BY <2>3, <2>5 DEF Body
    <3> QED
      BY <2>4, <3>1 DEF v
  <2>6. CASE HasHead(s)
    <3>1. Body(v) = Tail(v) /\ Body(s) = Tail(s)
      BY <2>3, <2>6 DEF Body
    <3>2. /\ Tail(v) \in Seq(Message) /\ Len(Tail(v)) = Len(v) - 1
          /\ \A i \in 1 .. Len(v) - 1 : Tail(v)[i] = v[i + 1]
      BY <2>1, <2>2, HeadTailProperties
    <3>3. /\ Tail(s) \in Seq(Message) /\ Len(Tail(s)) = Len(s) - 1
          /\ \A i \in 1 .. Len(s) - 1 : Tail(s)[i] = s[i + 1]
      BY <1>2, HeadTailProperties
    <3> DEFINE t == Tail(s)
    <3>4. /\ t \o p \in Seq(Message) /\ Len(t \o p) = Len(t) + Len(p)
          /\ \A i \in 1 .. Len(t) + Len(p) : (t \o p)[i] = IF i <= Len(t) THEN t[i] ELSE p[i - Len(t)]
      <4>1. t \in Seq(Message)
        BY <3>3
      <4> HIDE DEF t
      <4> QED
        BY <4>1, ConcatProperties
    <3>5. Len(Tail(v)) = Len(t \o p)
      BY <2>1, <3>2, <3>3, <3>4
    <3>6. ASSUME NEW i \in 1 .. Len(Tail(v))
          PROVE  Tail(v)[i] = (t \o p)[i]
      <4>1. i \in 1 .. Len(v) - 1 /\ i + 1 \in 1 .. Len(s) + Len(p)
        BY <2>1, <3>2
      <4>2. Tail(v)[i] = IF i + 1 <= Len(s) THEN s[i + 1] ELSE p[(i + 1) - Len(s)]
        BY <2>1, <3>2, <4>1
      <4>3. (t \o p)[i] = IF i <= Len(t) THEN t[i] ELSE p[i - Len(t)]
        BY <2>1, <3>3, <3>4, <4>1
      <4>4. Len(t) = Len(s) - 1 /\ (i <= Len(s) - 1 => t[i] = s[i + 1])
        BY <2>1, <3>3, <4>1
      <4>5. (i <= Len(s) - 1 <=> i + 1 <= Len(s)) /\ i - (Len(s) - 1) = (i + 1) - Len(s)
        BY <2>1, <4>1
      <4> QED
        BY <4>2, <4>3, <4>4, <4>5
    <3>7. Tail(v) = t \o p
      BY <3>2, <3>4, <3>5, <3>6, SeqEqual
    <3> QED
      BY <2>4, <3>1, <3>7 DEF v
  <2> QED
    BY <2>5, <2>6
<1> QED
  BY <1>1, <1>2

\* The first k messages of the body are the previous summary and the turns that
\* are compressed; the others are the turns kept and what was pending.
LEMMA BodySplits ==
  ASSUME NEW s \in Seq(Message), NEW p \in Seq(Message),
         NEW n \in 0 .. Len(DeltaBody(s))
  PROVE  LET b == Body(s) \o p
             d == DeltaBody(s)
             k == Len(PreviousSummary(s)) + n
         IN  /\ b \in Seq(Message) /\ k \in 0 .. Len(b)
             /\ n > 0 => b[k] = d[n]
             /\ k - n + Len(d) <= Len(b)
             /\ \A i \in 1 .. Len(d) : b[k - n + i] = d[i]
             /\ SubSeq(b, 1, k) = PreviousSummary(s) \o SubSeq(d, 1, n)
             /\ SubSeq(b, k + 1, Len(b)) = SubSeq(d, n + 1, Len(d)) \o p
<1> DEFINE B == Body(s)
           S == PreviousSummary(s)
           d == DeltaBody(s)
           b == B \o p
<1>1. PICK g \in {0, 1} :
        /\ g <= Len(B) /\ Len(S) = g /\ Len(d) = Len(B) - g
        /\ S \in Seq(Message) /\ d \in Seq(Message)
        /\ g = 1 => S[1] = B[1]
        /\ \A i \in 1 .. Len(B) - g : d[i] = B[g + i]
  BY SummaryAndDelta
<1>2. B \in Seq(Message)
  BY PartTypes
<1> HIDE DEF B, S, d
<1>3. /\ Len(B) \in Nat /\ Len(p) \in Nat /\ Len(d) \in Nat /\ g \in Nat /\ n \in Nat
      /\ n <= Len(d) /\ Len(d) = Len(B) - g
  BY <1>1, <1>2, LenProperties DEF d
<1>4. /\ b \in Seq(Message) /\ Len(b) = Len(B) + Len(p)
      /\ \A i \in 1 .. Len(B) + Len(p) : b[i] = IF i <= Len(B) THEN B[i] ELSE p[i - Len(B)]
  BY <1>2, ConcatProperties
<1> HIDE DEF b
<1>5. ASSUME NEW i \in 1 .. Len(d)
      PROVE  b[g + i] = d[i]
  <2>1. g + i \in 1 .. Len(B) + Len(p) /\ g + i <= Len(B) /\ i \in 1 .. Len(B) - g
    BY <1>3
  <2>2. b[g + i] = B[g + i]
    BY <1>4, <2>1
  <2> QED
    BY <1>1, <2>1, <2>2
<1>6. SubSeq(b, 1, g + n) = S \o SubSeq(d, 1, n)
  <2> DEFINE l == SubSeq(b, 1, g + n)
             c == SubSeq(d, 1, n)
             r == S \o c
  <2>1. /\ l \in Seq(Message) /\ Len(l) = g + n
        /\ \A i \in 1 .. g + n : l[i] = b[i]
    BY <1>3, <1>4
  <2>2. /\ c \in Seq(Message) /\ Len(c) = n /\ \A i \in 1 .. n : c[i] = d[i]
    BY <1>1, <1>3
  <2> HIDE DEF l, c
  <2>3. /\ r \in Seq(Message) /\ Len(r) = Len(S) + Len(c)
        /\ \A i \in 1 .. Len(S) + Len(c) : r[i] = IF i <= Len(S) THEN S[i] ELSE c[i - Len(S)]
    <3>1. S \in Seq(Message) /\ c \in Seq(Message)
      BY <1>1, <2>2
    <3> QED
      BY <3>1, ConcatProperties
  <2> HIDE DEF r
  <2>4. Len(r) = g + n /\ \A i \in 1 .. g + n : r[i] = IF i <= g THEN S[i] ELSE c[i - g]
    BY <1>1, <2>2, <2>3
  <2>5. ASSUME NEW i \in 1 .. g + n
        PROVE  l[i] = r[i]
    <3>1. CASE i <= g
      <4>1. g = 1 /\ i = 1
        BY <1>3, <3>1
      <4>2. b[1] = B[1]
        <5>1. 1 <= Len(B)
          BY <1>1, <4>1
        <5> QED
          BY <1>3, <1>4, <5>1
      <4>3. r[i] = S[i]
        BY <2>4, <3>1
      <4> QED
        BY <1>1, <2>1, <4>1, <4>2, <4>3
    <3>2. CASE i > g
      <4>1. i - g \in 1 .. n /\ i - g \in 1 .. Len(d) /\ g + (i - g) = i /\ ~(i <= g)
        BY <1>3, <3>2
      <4>2. r[i] = c[i - g]
        BY <2>4, <4>1
      <4>3. c[i - g] = d[i - g]
        BY <2>2, <4>1
      <4>4. b[g + (i - g)] = d[i - g]
        BY <1>5, <4>1
      <4> QED
        BY <2>1, <4>1, <4>2, <4>3, <4>4
    <3> QED
      BY <1>3, <3>1, <3>2
  <2>6. l = r
    BY <2>1, <2>3, <2>4, <2>5, SeqEqual
  <2> QED
    BY <2>6 DEF l, c, r
<1>7. SubSeq(b, g + n + 1, Len(b)) = SubSeq(d, n + 1, Len(d)) \o p
  <2> DEFINE q == g + n
             m == Len(d) - n
             l == SubSeq(b, q + 1, Len(b))
             c == SubSeq(d, n + 1, Len(d))
             r == c \o p
  <2>1. /\ q \in 0 .. Len(b) /\ m \in Nat /\ q \in Nat
        /\ Len(b) - q = m + Len(p) /\ q + m = Len(B)
    BY <1>3, <1>4
  <2>2. /\ l \in Seq(Message) /\ Len(l) = Len(b) - q
        /\ \A i \in 1 .. Len(b) - q : l[i] = b[q + i]
    <3> HIDE DEF q
    <3> QED
      BY <1>4, <2>1, SuffixIndex
  <2>3. /\ c \in Seq(Message) /\ Len(c) = m
        /\ \A i \in 1 .. m : c[i] = d[n + i]
    BY <1>1, <1>3, SuffixIndex
  <2> HIDE DEF l, c
  <2>4. /\ r \in Seq(Message) /\ Len(r) = Len(c) + Len(p)
        /\ \A i \in 1 .. Len(c) + Len(p) : r[i] = IF i <= Len(c) THEN c[i] ELSE p[i - Len(c)]
    BY <2>3, ConcatProperties
  <2> HIDE DEF r
  <2>5. Len(r) = m + Len(p)
        /\ \A i \in 1 .. m + Len(p) : r[i] = IF i <= m THEN c[i] ELSE p[i - m]
    BY <2>3, <2>4
  <2>6. ASSUME NEW i \in 1 .. m + Len(p)
        PROVE  l[i] = r[i]
    <3>1. l[i] = b[q + i]
      BY <2>1, <2>2
    <3>2. CASE i <= m
      <4>1. i \in 1 .. m /\ n + i \in 1 .. Len(d) /\ g + (n + i) = q + i
        BY <1>3, <2>1, <3>2
      <4>2. b[g + (n + i)] = d[n + i]
        BY <1>5, <4>1
      <4>3. r[i] = c[i] /\ c[i] = d[n + i]
        BY <2>3, <2>5, <3>2, <4>1
      <4> QED
        BY <3>1, <4>1, <4>2, <4>3
    <3>3. CASE i > m
      <4>1. q + i \in 1 .. Len(B) + Len(p) /\ ~(q + i <= Len(B)) /\ (q + i) - Len(B) = i - m
            /\ ~(i <= m)
        BY <1>3, <2>1, <3>3
      <4>2. b[q + i] = p[(q + i) - Len(B)]
        BY <1>4, <4>1
      <4>3. r[i] = p[i - m]
        BY <2>5, <4>1
      <4> QED
        BY <3>1, <4>1, <4>2, <4>3
    <3> QED
      BY <1>3, <2>1, <3>2, <3>3
  <2>7. l = r
    <3>1. Len(l) = m + Len(p)
      BY <2>1, <2>2
    <3> HIDE DEF m, q
    <3> QED
      BY <2>2, <2>4, <2>5, <2>6, <3>1, SeqEqual
  <2> QED
    BY <2>7 DEF l, c, r
<1>8. /\ g + n \in 0 .. Len(b) /\ (g + n) - n = g /\ g + Len(d) <= Len(b)
      /\ n > 0 => n \in 1 .. Len(d)
  <2>1. Len(b) = Len(B) + Len(p)
    BY <1>4
  <2> QED
    BY <1>3, <2>1
<1>9. /\ n > 0 => b[g + n] = d[n]
      /\ \A i \in 1 .. Len(d) : b[(g + n) - n + i] = d[i]
  BY <1>5, <1>8
<1> QED
  BY <1>1, <1>4, <1>6, <1>7, <1>8, <1>9 DEF b, B, S, d

\* NewStable before what was pending is the whole view with its first k messages
\* after the head compacted, whole turns all, and enough turns left.
LEMMA MergeIsCompaction ==
  ASSUME NEW s \in Seq(Message), NEW p \in Seq(Message), NEW keep \in Nat,
         s # <<>>, IsAssistantFinal(s[Len(s)]), HasPlan(s, keep)
  PROVE  \E k \in 1 .. Len(Body(s \o p)) :
           /\ NewStable(s, keep) \o p = Summarized(s \o p, k)
           /\ IsAssistantFinal(Body(s \o p)[k])
           /\ TurnsAfter(Body(s \o p), k) >= keep
<1> DEFINE d == DeltaBody(s)
           n == SplitIndex(d, keep)
           g == Len(PreviousSummary(s))
           b == Body(s) \o p
           k == g + n
           sum == <<SummaryOf(PromptMessages(s, keep))>>
           H == PreserveHead(s)
           R == PreserveTail(s, keep)
<1>1. n \in 1 .. Len(d) /\ IsAssistantFinal(d[n]) /\ TurnsAfter(d, n) >= keep
  BY SplitEndsTurn
<1>2. /\ d \in Seq(Message) /\ Len(d) \in Nat /\ g \in Nat
      /\ PreviousSummary(s) \in Seq(Message)
      /\ H \in Seq(Message) /\ R \in Seq(Message) /\ sum \in Seq(Message)
  <2>1. PromptMessages(s, keep) \in Seq(Message)
    BY PlanParts DEF PromptMessages
  <2> QED
    BY <2>1, PlanParts, LenProperties, SummaryIsMessage
<1>3. PreserveHead(s \o p) = H /\ Body(s \o p) = b
  BY BodyOfConcat
<1>4. n \in 0 .. Len(d)
  BY <1>1, <1>2
<1>5. /\ b \in Seq(Message) /\ k \in 0 .. Len(b)
      /\ n > 0 => b[k] = d[n]
      /\ k - n + Len(d) <= Len(b)
      /\ \A i \in 1 .. Len(d) : b[k - n + i] = d[i]
      /\ SubSeq(b, 1, k) = PreviousSummary(s) \o SubSeq(d, 1, n)
      /\ SubSeq(b, k + 1, Len(b)) = SubSeq(d, n + 1, Len(d)) \o p
  <2> HIDE DEF n
  <2> QED
    BY <1>4, BodySplits
<1>6. /\ <<SummaryOf(SubSeq(b, 1, k))>> = sum
      /\ SubSeq(b, k + 1, Len(b)) = R \o p
  BY <1>5 DEF PromptMessages, Compressible, PreserveTail
<1>7. NewStable(s, keep) \o p = Summarized(s \o p, k)
  <2>1. NewStable(s, keep) = (H \o sum) \o R
    BY DEF NewStable
  <2>2. Summarized(s \o p, k) = (H \o sum) \o (R \o p)
    BY <1>3, <1>6 DEF Summarized
  <2> HIDE DEF H, sum, R
  <2>3. H \o sum \in Seq(Message)
    BY <1>2, ConcatProperties
  <2> DEFINE hs == H \o sum
  <2>4. (hs \o R) \o p = hs \o (R \o p)
    <3>1. hs \in Seq(Message) /\ R \in Seq(Message)
      BY <1>2, <2>3
    <3> HIDE DEF hs
    <3> QED
      BY <3>1, ConcatAssociative
  <2> QED
    BY <2>1, <2>2, <2>4
<1> HIDE DEF d, n, g, b
<1>8. TurnsAfter(b, k) >= keep
  <2>1. k - n = g /\ g + n = k /\ n \in Nat /\ g + Len(d) <= Len(b)
    BY <1>1, <1>2, <1>5
  <2>2. \A i \in 1 .. Len(d) : i > n => b[g + i] = d[i]
    BY <1>5, <2>1
  <2>3. /\ TurnsAfter(d, n) \in Nat /\ TurnsAfter(b, g + n) \in Nat
        /\ TurnsAfter(b, g + n) >= TurnsAfter(d, n)
    BY <1>2, <1>5, <2>1, <2>2, TurnsStay
  <2> QED
    BY <1>1, <2>1, <2>3
<1>9. k \in 1 .. Len(b) /\ b[k] = d[n]
  <2>1. n > 0
    BY <1>1
  <2> QED
    BY <1>1, <1>2, <1>5, <2>1
<1> QED
  BY <1>1, <1>3, <1>7, <1>8, <1>9 DEF b, d, n, g

-----------------------------------------------------------------------------
(* What a compacted conversation becomes.                                  *)

\* Another prompt takes the head's place and leaves the body (demo.rs:507-513).
LEMMA PartsOfPrompt ==
  ASSUME NEW v \in Seq(Message), NEW p \in Prompts
  PROVE  PreserveHead(WithPrompt(v, p)) = <<SystemText(p)>> /\ Body(WithPrompt(v, p)) = Body(v)
<1> DEFINE head == SystemText(p)
           w == <<head>> \o Body(v)
<1>1. head \in Message /\ head.role = "system" /\ ~head.summary
  BY DEF SystemText, Message, Roles, Texts
<1>2. Body(v) \in Seq(Message)
  BY PartTypes
<1> HIDE DEF head
<1>3. w # <<>> /\ w[1] = head /\ Tail(w) = Body(v)
  BY <1>1, <1>2
<1> HIDE DEF w
<1>4. HasHead(w)
  BY <1>1, <1>3 DEF HasHead, IsContextSummary
<1>5. PreserveHead(w) = <<head>> /\ Body(w) = Body(v)
  BY <1>3, <1>4 DEF PreserveHead, Body
<1> QED
  BY <1>5 DEF WithPrompt, w, head

\* A compacted conversation keeps its head; its body is the summary and the rest.
LEMMA PartsOfSummarized ==
  ASSUME NEW s \in Seq(Message), NEW k \in 1 .. Len(Body(s))
  PROVE  LET sum  == SummaryOf(SubSeq(Body(s), 1, k))
             rest == SubSeq(Body(s), k + 1, Len(Body(s)))
         IN  /\ sum \in Message /\ rest \in Seq(Message)
             /\ Summarized(s, k) \in Seq(Message)
             /\ PreserveHead(Summarized(s, k)) = PreserveHead(s)
             /\ Body(Summarized(s, k)) = <<sum>> \o rest
<1> DEFINE H    == PreserveHead(s)
           sum  == SummaryOf(SubSeq(Body(s), 1, k))
           one  == <<sum>>
           rest == SubSeq(Body(s), k + 1, Len(Body(s)))
           c    == one \o rest
<1>1. H \in Seq(Message) /\ Body(s) \in Seq(Message)
  BY PartTypes
<1>2. sum \in Message /\ IsContextSummary(sum) /\ rest \in Seq(Message)
  <2>1. SubSeq(Body(s), 1, k) \in Seq(Message)
    BY <1>1
  <2>2. IsContextSummary(sum)
    BY DEF SummaryOf, IsContextSummary
  <2>3. k \in 0 .. Len(Body(s))
    OBVIOUS
  <2> QED
    BY <1>1, <2>1, <2>2, <2>3, SummaryIsMessage, SuffixIndex
<1> HIDE DEF sum, rest
<1>3. one \in Seq(Message) /\ Len(one) = 1 /\ one[1] = sum
  BY <1>2
<1>4. c \in Seq(Message) /\ c # <<>> /\ c[1] = sum
  BY <1>2, <1>3
<1> HIDE DEF one
<1>5. Summarized(s, k) = H \o c
  <2>1. Summarized(s, k) = (H \o one) \o rest
    BY DEF Summarized, H, one, sum, rest
  <2> HIDE DEF H
  <2>2. H \in Seq(Message) /\ one \in Seq(Message) /\ rest \in Seq(Message)
    BY <1>1, <1>2, <1>3
  <2>3. (H \o one) \o rest = H \o (one \o rest)
    BY <2>2, ConcatAssociative
  <2> QED
    BY <2>1, <2>3
<1> HIDE DEF c
<1>6. PreserveHead(H \o c) = H /\ Body(H \o c) = c
  <2>1. CASE HasHead(s)
    <3>1. H = <<s[1]>> /\ s[1] \in Message /\ s[1].role = "system" /\ ~IsContextSummary(s[1])
      BY <2>1, Basics DEF PreserveHead, HasHead
    <3>2. H # <<>> /\ H[1] = s[1] /\ Tail(H) = <<>> /\ <<H[1]>> = H
      BY <3>1
    <3>3. HasHead(H)
      BY <3>1, <3>2 DEF HasHead
    <3>4. PreserveHead(H) = H /\ Body(H) = <<>>
      BY <3>2, <3>3 DEF PreserveHead, Body
    <3> HIDE DEF H
    <3>5. <<>> \o c = c
      BY <1>4, ConcatEmptySeq
    <3> QED
      BY <1>1, <1>4, <3>2, <3>4, <3>5, BodyOfConcat
  <2>2. CASE ~HasHead(s)
    <3>1. H = <<>>
      BY <2>2 DEF PreserveHead
    <3>2. H \o c = c
      BY <1>4, <3>1, ConcatEmptySeq
    <3>3. ~HasHead(c)
      BY <1>2, <1>4 DEF HasHead
    <3> QED
      BY <3>1, <3>2, <3>3 DEF PreserveHead, Body
  <2> QED
    BY <2>1, <2>2
<1>7. H \o c \in Seq(Message)
  <2> HIDE DEF H
  <2> QED
    BY <1>1, <1>4, ConcatProperties
<1> QED
  BY <1>2, <1>5, <1>6, <1>7 DEF c, one, sum, rest

\* What is appended after a compaction could have been appended before it.
LEMMA SummarizedThenMore ==
  ASSUME NEW s \in Seq(Message), NEW p \in Seq(Message), s # <<>>,
         NEW k \in 1 .. Len(Body(s))
  PROVE  /\ Summarized(s, k) \o p = Summarized(s \o p, k)
         /\ k \in 1 .. Len(Body(s \o p)) /\ Body(s \o p)[k] = Body(s)[k]
         /\ TurnsAfter(Body(s), k) \in Nat /\ TurnsAfter(Body(s \o p), k) \in Nat
         /\ TurnsAfter(Body(s \o p), k) >= TurnsAfter(Body(s), k)
<1> DEFINE B == Body(s)
           b == B \o p
           H == PreserveHead(s)
           one == <<SummaryOf(SubSeq(B, 1, k))>>
           rest == SubSeq(B, k + 1, Len(B))
<1>1. B \in Seq(Message) /\ H \in Seq(Message)
  BY PartTypes
<1>2. Body(s \o p) = b /\ PreserveHead(s \o p) = H
  BY BodyOfConcat
<1> HIDE DEF B, H
<1>3. Len(B) \in Nat /\ Len(p) \in Nat /\ k \in 1 .. Len(B)
  BY <1>1, LenProperties DEF B
<1>4. /\ b \in Seq(Message) /\ Len(b) = Len(B) + Len(p)
      /\ \A i \in 1 .. Len(B) + Len(p) : b[i] = IF i <= Len(B) THEN B[i] ELSE p[i - Len(B)]
  BY <1>1, ConcatProperties
<1> HIDE DEF b
<1>5. SubSeq(b, 1, k) = SubSeq(B, 1, k)
  <2>1. /\ SubSeq(b, 1, k) \in Seq(Message) /\ Len(SubSeq(b, 1, k)) = k
        /\ \A i \in 1 .. k : SubSeq(b, 1, k)[i] = b[i]
    BY <1>3, <1>4
  <2>2. /\ SubSeq(B, 1, k) \in Seq(Message) /\ Len(SubSeq(B, 1, k)) = k
        /\ \A i \in 1 .. k : SubSeq(B, 1, k)[i] = B[i]
    BY <1>1, <1>3
  <2>3. \A i \in 1 .. k : b[i] = B[i]
    BY <1>3, <1>4
  <2> DEFINE l == SubSeq(b, 1, k)
             r == SubSeq(B, 1, k)
  <2>4. l \in Seq(Message) /\ r \in Seq(Message) /\ Len(l) = Len(r)
        /\ \A i \in 1 .. Len(l) : l[i] = r[i]
    BY <2>1, <2>2, <2>3
  <2> HIDE DEF l, r
  <2>5. l = r
    BY <2>4, SeqEqual
  <2> QED
    BY <2>5 DEF l, r
<1>6. SubSeq(b, k + 1, Len(b)) = rest \o p
  <2> DEFINE m == Len(B) - k
             l == SubSeq(b, k + 1, Len(b))
             r == rest \o p
  <2>1. /\ k \in 0 .. Len(b) /\ k \in 0 .. Len(B) /\ m \in Nat
        /\ Len(b) - k = m + Len(p) /\ k + m = Len(B)
    BY <1>3, <1>4
  <2>2. /\ l \in Seq(Message) /\ Len(l) = m + Len(p)
        /\ \A i \in 1 .. m + Len(p) : l[i] = b[k + i]
    BY <1>4, <2>1, SuffixIndex
  <2>3. /\ rest \in Seq(Message) /\ Len(rest) = m
        /\ \A i \in 1 .. m : rest[i] = B[k + i]
    BY <1>1, <2>1, SuffixIndex
  <2> HIDE DEF rest, l
  <2>4. /\ r \in Seq(Message) /\ Len(r) = Len(rest) + Len(p)
        /\ \A i \in 1 .. Len(rest) + Len(p) :
             r[i] = IF i <= Len(rest) THEN rest[i] ELSE p[i - Len(rest)]
    BY <2>3, ConcatProperties
  <2> HIDE DEF r
  <2>5. /\ Len(r) = m + Len(p)
        /\ \A i \in 1 .. m + Len(p) : r[i] = IF i <= m THEN rest[i] ELSE p[i - m]
    BY <2>3, <2>4
  <2>6. ASSUME NEW i \in 1 .. m + Len(p)
        PROVE  l[i] = r[i]
    <3>1. k + i \in 1 .. Len(B) + Len(p) /\ (k + i <= Len(B) <=> i <= m)
          /\ (k + i) - Len(B) = i - m /\ (i <= m => i \in 1 .. m)
      BY <1>3, <2>1
    <3>2. l[i] = b[k + i]
      BY <2>2
    <3>3. b[k + i] = IF k + i <= Len(B) THEN B[k + i] ELSE p[(k + i) - Len(B)]
      BY <1>4, <3>1
    <3>4. r[i] = IF i <= m THEN rest[i] ELSE p[i - m]
      BY <2>5
    <3>5. i <= m => rest[i] = B[k + i]
      BY <2>3, <3>1
    <3> QED
      BY <3>1, <3>2, <3>3, <3>4, <3>5
  <2>7. l = r
    <3> HIDE DEF m
    <3> QED
      BY <2>2, <2>4, <2>5, <2>6, SeqEqual
  <2> QED
    BY <2>7 DEF l, r
<1>7. Summarized(s, k) \o p = Summarized(s \o p, k)
  <2>1. Summarized(s, k) = (H \o one) \o rest
    BY DEF Summarized, H, one, rest, B
  <2>2. Summarized(s \o p, k) = (H \o one) \o (rest \o p)
    BY <1>2, <1>5, <1>6 DEF Summarized
  <2>3. one \in Seq(Message) /\ rest \in Seq(Message)
    <3>1. SubSeq(B, 1, k) \in Seq(Message)
      BY <1>1, <1>3
    <3>2. k \in 0 .. Len(B)
      BY <1>3
    <3>3. rest \in Seq(Message)
      BY <1>1, <3>2, SuffixIndex
    <3>4. SummaryOf(SubSeq(B, 1, k)) \in Message
      BY <3>1, SummaryIsMessage
    <3> QED
      BY <3>3, <3>4
  <2> HIDE DEF one, rest
  <2> DEFINE ho == H \o one
  <2>4. ho \in Seq(Message)
    BY <1>1, <2>3, ConcatProperties
  <2> HIDE DEF ho
  <2>5. (ho \o rest) \o p = ho \o (rest \o p)
    <3>1. /\ ho \in Seq(Message) /\ rest \in Seq(Message) /\ p \in Seq(Message)
      BY <2>3, <2>4
    <3>2. \A x, y, z \in Seq(Message) : (x \o y) \o z = x \o (y \o z)
      BY ConcatAssociative
    <3> QED
      BY <3>1, <3>2
  <2> QED
    BY <2>1, <2>2, <2>5 DEF ho
<1>8. /\ TurnsAfter(B, k) \in Nat /\ TurnsAfter(b, k) \in Nat
      /\ TurnsAfter(b, k) >= TurnsAfter(B, k)
  <2>1. /\ k \in Nat /\ 0 + Len(B) <= Len(b) /\ 0 + k = k
        /\ \A i \in 1 .. Len(B) : i > k => b[0 + i] = B[i]
    BY <1>3, <1>4
  <2>2. /\ TurnsAfter(B, k) \in Nat /\ TurnsAfter(b, 0 + k) \in Nat
        /\ TurnsAfter(b, 0 + k) >= TurnsAfter(B, k)
    BY <1>1, <1>4, <2>1, TurnsStay
  <2> QED
    BY <2>1, <2>2
<1>9. k \in 1 .. Len(b) /\ b[k] = B[k]
  BY <1>3, <1>4
<1> QED
  BY <1>2, <1>7, <1>8, <1>9 DEF B

\* A summary of a summary and of what came after it is a summary of it all:
\* two compactions are one (compressor.rs:70-76).
LEMMA SummarizedTwice ==
  ASSUME NEW s \in Seq(Message), NEW k \in 1 .. Len(Body(s)),
         NEW j \in 1 .. Len(Body(Summarized(s, k))),
         IsAssistantFinal(Body(Summarized(s, k))[j])
  PROVE  LET v == Summarized(s, k)
             n == k + j - 1
         IN  /\ n \in 1 .. Len(Body(s))
             /\ Summarized(v, j) = Summarized(s, n)
             /\ IsAssistantFinal(Body(s)[n])
             /\ TurnsAfter(Body(v), j) \in Nat /\ TurnsAfter(Body(s), n) \in Nat
             /\ TurnsAfter(Body(s), n) >= TurnsAfter(Body(v), j)
<1> DEFINE B    == Body(s)
           v    == Summarized(s, k)
           sum  == SummaryOf(SubSeq(B, 1, k))
           rest == SubSeq(B, k + 1, Len(B))
           one  == <<sum>>
           c    == one \o rest
           n    == k + j - 1
<1>1. /\ sum \in Message /\ rest \in Seq(Message) /\ v \in Seq(Message)
      /\ PreserveHead(v) = PreserveHead(s) /\ Body(v) = c
  BY PartsOfSummarized
<1>2. B \in Seq(Message) /\ Len(B) \in Nat /\ k \in 1 .. Len(B) /\ k \in 0 .. Len(B)
  BY PartTypes, LenProperties
<1>3. sum.role = "system" /\ ~IsAssistantFinal(sum)
      /\ sum.content = UNION {B[i].content : i \in 1 .. k}
  <2>1. DOMAIN SubSeq(B, 1, k) = 1 .. k /\ \A i \in 1 .. k : SubSeq(B, 1, k)[i] = B[i]
    <3> HIDE DEF B
    <3> QED
      BY <1>2
  <2>2. sum.content = UNION {SubSeq(B, 1, k)[i].content : i \in DOMAIN SubSeq(B, 1, k)}
    BY DEF SummaryOf
  <2>3. {SubSeq(B, 1, k)[i].content : i \in DOMAIN SubSeq(B, 1, k)} = {B[i].content : i \in 1 .. k}
    <3> HIDE DEF B
    <3> QED
      BY <2>1
  <2> QED
    BY <2>2, <2>3 DEF SummaryOf, IsAssistantFinal
<1>4. Len(rest) = Len(B) - k /\ \A i \in 1 .. Len(B) - k : rest[i] = B[k + i]
  <2> HIDE DEF B
  <2> QED
    BY <1>2, SuffixIndex
<1>5. one \in Seq(Message) /\ Len(one) = 1 /\ one[1] = sum
  <2> HIDE DEF sum
  <2> QED
    BY <1>1
<1> HIDE DEF B, v, sum, rest, one
<1>6. /\ c \in Seq(Message) /\ Len(c) = 1 + (Len(B) - k) /\ c[1] = sum
      /\ \A i \in 2 .. 1 + (Len(B) - k) : c[i] = B[k + i - 1]
  <2>1. /\ c \in Seq(Message) /\ Len(c) = Len(one) + Len(rest)
        /\ \A i \in 1 .. Len(one) + Len(rest) :
             c[i] = IF i <= Len(one) THEN one[i] ELSE rest[i - Len(one)]
    BY <1>1, <1>5, ConcatProperties
  <2> HIDE DEF c
  <2>2. /\ c \in Seq(Message) /\ Len(c) = 1 + (Len(B) - k)
        /\ \A i \in 1 .. 1 + (Len(B) - k) : c[i] = IF i <= 1 THEN one[i] ELSE rest[i - 1]
    BY <1>4, <1>5, <2>1
  <2>3. c[1] = sum
    <3>1. 1 \in 1 .. 1 + (Len(B) - k) /\ 1 <= 1
      BY <1>2
    <3> QED
      BY <1>5, <2>2, <3>1
  <2>4. ASSUME NEW i \in 2 .. 1 + (Len(B) - k)
        PROVE  c[i] = B[k + i - 1]
    <3>1. i - 1 \in 1 .. Len(B) - k /\ ~(i <= 1) /\ i \in 1 .. 1 + (Len(B) - k)
          /\ k + (i - 1) = k + i - 1
      BY <1>2
    <3>2. c[i] = rest[i - 1]
      BY <2>2, <3>1
    <3>3. rest[i - 1] = B[k + (i - 1)]
      BY <1>4, <3>1
    <3> QED
      BY <3>1, <3>2, <3>3
  <2> QED
    BY <2>2, <2>3, <2>4
<1> HIDE DEF c
<1>7. j \in 1 .. Len(c) /\ IsAssistantFinal(c[j])
  BY <1>1 DEF v
<1>8. j # 1
  BY <1>3, <1>6, <1>7
<1>9. /\ j \in 2 .. 1 + (Len(B) - k) /\ n \in 1 .. Len(B) /\ n \in Nat /\ k \in Nat
      /\ j \in 0 .. Len(c) /\ n \in 0 .. Len(B) /\ j \in Nat
      /\ Len(c) - j = Len(B) - n /\ n = (k - 1) + j /\ k - 1 \in Nat
      /\ (k - 1) + Len(c) = Len(B)
  BY <1>2, <1>6, <1>7, <1>8
<1>10. c[j] = B[n]
  BY <1>6, <1>9
<1>11. SummaryOf(SubSeq(c, 1, j)) = SummaryOf(SubSeq(B, 1, n))
  <2>1. DOMAIN SubSeq(c, 1, j) = 1 .. j /\ \A i \in 1 .. j : SubSeq(c, 1, j)[i] = c[i]
    BY <1>6, <1>9, PrefixIndex
  <2>2. DOMAIN SubSeq(B, 1, n) = 1 .. n /\ \A i \in 1 .. n : SubSeq(B, 1, n)[i] = B[i]
    <3> HIDE DEF n
    <3> QED
      BY <1>2, <1>9, PrefixIndex
  <2> DEFINE L == UNION {SubSeq(c, 1, j)[i].content : i \in DOMAIN SubSeq(c, 1, j)}
             R == UNION {SubSeq(B, 1, n)[i].content : i \in DOMAIN SubSeq(B, 1, n)}
  <2>3. \A x : x \in L <=> \E i \in DOMAIN SubSeq(c, 1, j) : x \in SubSeq(c, 1, j)[i].content
    OBVIOUS
  <2>4. \A x : x \in R <=> \E i \in DOMAIN SubSeq(B, 1, n) : x \in SubSeq(B, 1, n)[i].content
    OBVIOUS
  <2> HIDE DEF L, R
  <2>5. \A x : x \in L <=> \E i \in 1 .. j : x \in c[i].content
    BY <2>1, <2>3
  <2>6. \A x : x \in R <=> \E i \in 1 .. n : x \in B[i].content
    BY <2>2, <2>4
  <2>7. ASSUME NEW x, x \in L
        PROVE  x \in R
    <3>1. PICK i \in 1 .. j : x \in c[i].content
      BY <2>5, <2>7
    <3>2. CASE i = 1
      <4>1. PICK l \in 1 .. k : x \in B[l].content
        BY <1>3, <1>6, <3>1, <3>2
      <4>2. l \in 1 .. n
        BY <1>9
      <4> QED
        BY <2>6, <4>1, <4>2
    <3>3. CASE i # 1
      <4>1. i \in 2 .. 1 + (Len(B) - k) /\ k + i - 1 \in 1 .. n
        BY <1>2, <1>9, <3>3
      <4>2. x \in B[k + i - 1].content
        BY <1>6, <3>1, <4>1
      <4> QED
        BY <2>6, <4>1, <4>2
    <3> QED
      BY <3>2, <3>3
  <2>8. ASSUME NEW x, x \in R
        PROVE  x \in L
    <3>1. PICK i \in 1 .. n : x \in B[i].content
      BY <2>6, <2>8
    <3>2. CASE i <= k
      <4>1. x \in c[1].content
        <5>1. i \in 1 .. k
          BY <1>9, <3>2
        <5> QED
          BY <1>3, <1>6, <3>1, <5>1
      <4>2. 1 \in 1 .. j
        BY <1>9
      <4> QED
        BY <2>5, <4>1, <4>2
    <3>3. CASE i > k
      <4>1. i - k + 1 \in 2 .. 1 + (Len(B) - k) /\ i - k + 1 \in 1 .. j
            /\ k + (i - k + 1) - 1 = i
        BY <1>2, <1>9, <3>3
      <4>2. c[i - k + 1] = B[k + (i - k + 1) - 1]
        BY <1>6, <4>1
      <4> QED
        BY <2>5, <3>1, <4>1, <4>2
    <3> QED
      BY <1>9, <3>2, <3>3
  <2>9. L = R
    BY <2>7, <2>8
  <2> QED
    BY <2>9 DEF SummaryOf, L, R
<1>12. SubSeq(c, j + 1, Len(c)) = SubSeq(B, n + 1, Len(B))
  <2> DEFINE l == SubSeq(c, j + 1, Len(c))
             r == SubSeq(B, n + 1, Len(B))
  <2>1. /\ l \in Seq(Message) /\ Len(l) = Len(c) - j
        /\ \A i \in 1 .. Len(c) - j : l[i] = c[j + i]
    BY <1>6, <1>9, SuffixIndex
  <2>2. /\ r \in Seq(Message) /\ Len(r) = Len(B) - n
        /\ \A i \in 1 .. Len(B) - n : r[i] = B[n + i]
    <3> HIDE DEF n
    <3> QED
      BY <1>2, <1>9, SuffixIndex
  <2> HIDE DEF l, r
  <2>3. ASSUME NEW i \in 1 .. Len(c) - j
        PROVE  l[i] = r[i]
    <3>1. j + i \in 2 .. 1 + (Len(B) - k) /\ k + (j + i) - 1 = n + i /\ i \in 1 .. Len(B) - n
      BY <1>2, <1>6, <1>9
    <3>2. l[i] = c[j + i] /\ r[i] = B[n + i]
      BY <2>1, <2>2, <3>1
    <3>3. c[j + i] = B[k + (j + i) - 1]
      BY <1>6, <3>1
    <3> QED
      BY <3>1, <3>2, <3>3
  <2>4. l = r
    BY <1>9, <2>1, <2>2, <2>3, SeqEqual
  <2> QED
    BY <2>4 DEF l, r
<1>13. Summarized(v, j) = Summarized(s, n)
  BY <1>1, <1>11, <1>12 DEF Summarized, B
<1>14. /\ TurnsAfter(c, j) \in Nat /\ TurnsAfter(B, n) \in Nat
       /\ TurnsAfter(B, n) >= TurnsAfter(c, j)
  <2> DEFINE d == k - 1
  <2>1. d \in Nat /\ d + j = n /\ d + Len(c) <= Len(B)
    BY <1>2, <1>9
  <2>2. ASSUME NEW i \in 1 .. Len(c), i > j
        PROVE  B[d + i] = c[i]
    <3>1. i \in 2 .. 1 + (Len(B) - k) /\ k + i - 1 = d + i
      BY <1>2, <1>6, <1>9, <2>2
    <3> QED
      BY <1>6, <3>1
  <2> HIDE DEF d
  <2>3. /\ TurnsAfter(c, j) \in Nat /\ TurnsAfter(B, d + j) \in Nat
        /\ TurnsAfter(B, d + j) >= TurnsAfter(c, j)
    BY <1>2, <1>6, <1>9, <2>1, <2>2, TurnsStay
  <2> QED
    BY <2>1, <2>3
<1> QED
  BY <1>1, <1>7, <1>9, <1>10, <1>13, <1>14 DEF B, v
=============================================================================
