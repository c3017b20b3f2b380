-------------------------- MODULE SummarySizeProofs --------------------------
(***************************************************************************)
(* Theorems about the sizes of summaries, for turns and answers of every   *)
(* length: a stored summary is shorter than what it replaced, and refused  *)
(* summaries do not let the turns pile up for good.                        *)
(***************************************************************************)
EXTENDS SummarySize, FiniteSetTheorems, SequenceTheorems, TLAPS

-----------------------------------------------------------------------------
(* Sets of numbers.                                                        *)

\* What is false of some number is false of a least one.
LEMMA LeastElement ==
  ASSUME NEW T \in SUBSET Nat, T # {}
  PROVE  \E n \in T : \A m \in T : n <= m
<1>1. PICK n \in T : \A m \in T : ~(<<m, n>> \in OpToRel(<, Nat))
  BY NatLessThanWellFounded, WFMin
<1>2. ASSUME NEW m \in T
      PROVE  n <= m
  <2>1. <<m, n>> \in Nat \X Nat /\ ~(<<m, n>> \in OpToRel(<, Nat))
    BY <1>1
  <2>2. ~(m < n)
    BY <2>1 DEF OpToRel
  <2> QED
    BY <2>2
<1> QED
  BY <1>2

\* A finite set of numbers has a greatest.
LEMMA GreatestElement ==
  ASSUME NEW S \in SUBSET Nat, IsFiniteSet(S), S # {}
  PROVE  \E n \in S : \A m \in S : m <= n
<1> DEFINE Greatest(T) == \E n \in T : \A m \in T : m <= n
           Bad == {k \in Nat : \E T \in SUBSET S : Cardinality(T) = k /\ T # {} /\ ~Greatest(T)}
<1> SUFFICES ASSUME ~Greatest(S) PROVE FALSE
  OBVIOUS
<1>1. Cardinality(S) \in Bad
  BY FS_CardinalityType
<1>2. PICK k \in Bad : \A m \in Bad : k <= m
  <2>1. Bad \in SUBSET Nat /\ Bad # {}
    BY <1>1
  <2> HIDE DEF Bad
  <2> QED
    BY <2>1, LeastElement
<1>3. PICK T \in SUBSET S : Cardinality(T) = k /\ T # {} /\ ~Greatest(T)
  BY <1>2
<1>4. PICK x \in T : TRUE
  BY <1>3
<1> DEFINE U == T \ {x}
<1>5. IsFiniteSet(T) /\ IsFiniteSet(U) /\ Cardinality(U) = k - 1 /\ Cardinality(U) \in Nat
  <2>1. IsFiniteSet(T)
    BY FS_Subset
  <2> QED
    BY <1>3, <1>4, <2>1, FS_RemoveElement, FS_CardinalityType
<1>6. U \in SUBSET S /\ U = T \ {x} /\ k \in Nat
  BY <1>2
<1> HIDE DEF U
<1>7. U # {} => Greatest(U)
  <2> SUFFICES ASSUME U # {}, ~Greatest(U) PROVE FALSE
    OBVIOUS
  <2>1. k - 1 \in Bad
    BY <1>5, <1>6
  <2> QED
    BY <1>2, <1>6, <2>1
<1>8. CASE U = {}
  <2>1. T = {x} /\ x \in Nat
    BY <1>4, <1>6, <1>8
  <2> QED
    BY <1>3, <2>1
<1>9. CASE U # {}
  <2>1. PICK n \in U : \A m \in U : m <= n
    BY <1>7, <1>9
  <2>2. n \in T /\ n \in Nat /\ x \in Nat /\ \A m \in T : m \in Nat /\ (m = x \/ m <= n)
    BY <1>4, <1>6, <2>1
  <2>3. CASE x <= n
    BY <1>3, <2>2, <2>3
  <2>4. CASE n <= x
    <3>1. \A m \in T : m <= x
      BY <2>2, <2>4
    <3> QED
      BY <1>3, <1>4, <3>1
  <2> QED
    BY <2>2, <2>3, <2>4
<1> QED
  BY <1>8, <1>9

-----------------------------------------------------------------------------
(* The rendering of a dialogue is as long as its turns make it.            *)

Chosen(s) == CHOOSE i \in s : TRUE

\* f is the recursion of Rendered on the sets of places in D.
Accumulates(f, D, ts) ==
  f = [s \in D |-> IF s = {} THEN Heading ELSE f[s \ {Chosen(s)}] + ts[Chosen(s)].rendered]

\* The fold over a sequence, as its definition has it.
LEMMA RenderedIsFold ==
  ASSUME NEW ts
  PROVE  Rendered(ts) = (CHOOSE f : Accumulates(f, SUBSET DOMAIN ts, ts))[DOMAIN ts]
BY DEF Rendered, FoldSeq, FoldFunction, FoldFunctionOnSet, MapThenFoldSet, Accumulates, Chosen

\* The recursion is on finite sets, so there is what it defines.
LEMMA AccumulationExists ==
  ASSUME NEW ts, IsFiniteSet(DOMAIN ts)
  PROVE  \E f : Accumulates(f, SUBSET DOMAIN ts, ts)
<1> DEFINE S == DOMAIN ts
           UpTo(k) == {s \in SUBSET S : Cardinality(s) <= k}
           Bad == {k \in Nat : ~ \E f : Accumulates(f, UpTo(k), ts)}
<1>1. \A s \in SUBSET S : IsFiniteSet(s) /\ Cardinality(s) \in Nat /\ Cardinality(s) <= Cardinality(S)
  BY FS_Subset, FS_CardinalityType
<1>2. Cardinality(S) \in Nat /\ UpTo(Cardinality(S)) = SUBSET S
  BY <1>1, FS_CardinalityType
<1>3. ASSUME NEW s \in SUBSET S, s # {}
      PROVE  /\ Chosen(s) \in s /\ s \ {Chosen(s)} \in SUBSET S
             /\ Cardinality(s \ {Chosen(s)}) = Cardinality(s) - 1
  <2>1. Chosen(s) \in s
    BY <1>3 DEF Chosen
  <2> QED
    BY <1>1, <2>1, FS_RemoveElement
<1>4. Bad = {}
  <2> SUFFICES ASSUME Bad # {} PROVE FALSE
    OBVIOUS
  <2>1. PICK k \in Bad : \A m \in Bad : k <= m
    <3>1. Bad \in SUBSET Nat
      OBVIOUS
    <3> HIDE DEF Bad
    <3> QED
      BY <3>1, LeastElement
  <2>2. k # 0
    <3> SUFFICES ASSUME k = 0 PROVE FALSE
      OBVIOUS
    <3>1. UpTo(0) = {{}}
      BY <1>1, FS_EmptySet
    <3>2. Accumulates([s \in UpTo(0) |-> Heading], UpTo(0), ts)
      BY <3>1 DEF Accumulates
    <3> QED
      BY <2>1, <3>2
  <2>3. k \in Nat /\ k - 1 \in Nat /\ k - 1 \notin Bad
    <3>1. k \in Nat
      OBVIOUS
    <3>2. k - 1 \in Nat
      BY <2>2, <3>1
    <3> HIDE DEF Bad
    <3>3. k - 1 \notin Bad
      BY <2>1, <3>1, <3>2
    <3> QED
      BY <3>1, <3>2, <3>3
  <2>4. PICK f : Accumulates(f, UpTo(k - 1), ts)
    BY <2>3
  <2> DEFINE Step(g, s) == IF s = {} THEN Heading ELSE g[s \ {Chosen(s)}] + ts[Chosen(s)].rendered
             h == [s \in UpTo(k) |-> Step(f, s)]
  <2>5. \A s \in UpTo(k - 1) : s \in UpTo(k)
    BY <1>1, <2>3
  <2>6. ASSUME NEW s \in UpTo(k), s # {}
        PROVE  s \ {Chosen(s)} \in UpTo(k - 1)
    BY <1>1, <1>3, <2>3, <2>6
  <2>7. ASSUME NEW s \in UpTo(k - 1)
        PROVE  f[s] = Step(f, s)
    BY <2>4 DEF Accumulates
  <2>8. ASSUME NEW s \in UpTo(k - 1)
        PROVE  h[s] = f[s]
    BY <2>5, <2>7, <2>8
  <2>9. ASSUME NEW s \in UpTo(k)
        PROVE  Step(f, s) = Step(h, s)
    BY <2>6, <2>8
  <2>10. Accumulates(h, UpTo(k), ts)
    BY <2>9 DEF Accumulates
  <2> QED
    BY <2>1, <2>10
<1> QED
  BY <1>2, <1>4

\* Each turn adds its rendering, of MinRendered characters at least, to the
\* heading (compressor.rs:191-206, prompt.rs).
LEMMA RenderedBound ==
  ASSUME NEW ts \in Seq(Turns)
  PROVE  Rendered(ts) \in Nat /\ Rendered(ts) >= Heading + Len(ts) * MinRendered
<1> DEFINE S == DOMAIN ts
           f == CHOOSE g : Accumulates(g, SUBSET S, ts)
           Fits(s) == f[s] \in Nat /\ f[s] >= Heading + Cardinality(s) * MinRendered
           Bad == {k \in Nat : \E s \in SUBSET S : Cardinality(s) = k /\ ~Fits(s)}
<1>1. S = 1 .. Len(ts) /\ Len(ts) \in Nat /\ IsFiniteSet(S) /\ Cardinality(S) = Len(ts)
  <2>1. S = 1 .. Len(ts) /\ Len(ts) \in Nat
    BY LenProperties
  <2> HIDE DEF S
  <2>2. 1 \in Int /\ Len(ts) \in Int
    BY <2>1
  <2>3. /\ IsFiniteSet(1 .. Len(ts))
        /\ Cardinality(1 .. Len(ts)) = IF 1 > Len(ts) THEN 0 ELSE Len(ts) - 1 + 1
    BY <2>2, FS_Interval
  <2> QED
    BY <2>1, <2>3
<1>2. \A i \in S : ts[i].rendered \in Nat /\ ts[i].rendered >= MinRendered
  <2>1. \A i \in S : ts[i] \in Turns
    BY <1>1, ElementOfSeq
  <2>2. \A t \in Turns : t.rendered \in Nat /\ t.rendered >= MinRendered
    BY SizeAssumption DEF SizeAssumption
  <2> QED
    BY <2>1, <2>2
<1>3. Accumulates(f, SUBSET S, ts)
  BY <1>1, AccumulationExists
<1>4. Rendered(ts) = f[S]
  BY RenderedIsFold
<1> HIDE DEF f, S
<1>5. Bad = {}
  <2> SUFFICES ASSUME Bad # {} PROVE FALSE
    OBVIOUS
  <2>1. PICK k \in Bad : \A m \in Bad : k <= m
    <3>1. Bad \in SUBSET Nat
      OBVIOUS
    <3> HIDE DEF Bad
    <3> QED
      BY <3>1, LeastElement
  <2>2. PICK s \in SUBSET S : Cardinality(s) = k /\ ~Fits(s)
    BY <2>1
  <2>3. f[s] = IF s = {} THEN Heading ELSE f[s \ {Chosen(s)}] + ts[Chosen(s)].rendered
    BY <1>3 DEF Accumulates
  <2>4. s # {}
    <3> SUFFICES ASSUME s = {} PROVE FALSE
      OBVIOUS
    <3>1. Cardinality(s) = 0 /\ f[s] = Heading
      BY <2>3, FS_EmptySet
    <3> QED
      BY <2>2, <3>1 DEF Heading, MinRendered
  <2> DEFINE x == Chosen(s)
             u == s \ {x}
  <2>5. x \in s /\ x \in S
    BY <2>4 DEF Chosen
  <2>6. /\ u \in SUBSET S /\ Cardinality(u) = k - 1 /\ Cardinality(u) \in Nat /\ k \in Nat
    <3>1. IsFiniteSet(s)
      BY <1>1, FS_Subset
    <3> QED
      BY <2>1, <2>2, <2>5, <3>1, FS_RemoveElement, FS_CardinalityType
  <2>7. f[s] = f[u] + ts[x].rendered
    BY <2>3, <2>4
  <2>8. ts[x].rendered \in Nat /\ ts[x].rendered >= MinRendered
    BY <1>2, <2>5
  <2> HIDE DEF x, u
  <2>9. Fits(u)
    <3> SUFFICES ASSUME ~Fits(u) PROVE FALSE
      OBVIOUS
    <3>1. k - 1 \in Bad
      BY <2>6
    <3> QED
      BY <2>1, <2>6, <3>1
  <2>10. f[s] \in Nat /\ f[s] >= Heading + k * MinRendered
    BY <2>6, <2>7, <2>8, <2>9 DEF Heading, MinRendered
  <2> QED
    BY <2>2, <2>10
<1> QED
  BY <1>1, <1>4, <1>5

-----------------------------------------------------------------------------
(* Type correctness.                                                       *)

LEMMA InitSizeTypes ==
  Init => SizeTypeOK
BY SizeAssumption DEF Init, SizeTypeOK, SizeAssumption

\* A compression ends with the turns it did not replace, and with no snapshot.
LEMMA RegionAndRest ==
  ASSUME SizeTypeOK, snapshot # None
  PROVE  /\ Region \in Seq(Turns) /\ Len(Region) = snapshot - KeepRecent
         /\ Rest \in Seq(Turns) /\ Len(Rest) = KeepRecent + (Len(turns) - snapshot)
         /\ snapshot \in Nat /\ Len(turns) \in Nat
         /\ KeepRecent < snapshot /\ snapshot <= Len(turns)
<1>1. /\ turns \in Seq(Turns) /\ Len(turns) \in Nat /\ KeepRecent \in Nat
      /\ snapshot \in KeepRecent + 1 .. Len(turns)
  BY SizeAssumption, LenProperties DEF SizeTypeOK, SizeAssumption
<1>2. snapshot \in Nat /\ KeepRecent < snapshot /\ snapshot <= Len(turns)
  BY <1>1
<1>3. \A i \in 1 .. Len(turns) : turns[i] \in Turns
  BY <1>1, ElementOfSeq
<1> DEFINE n == snapshot - KeepRecent
<1>4. n \in Nat /\ 1 <= n /\ n <= Len(turns)
  BY <1>1, <1>2
<1>5. SubSeq(turns, 1, n) \in Seq(Turns) /\ Len(SubSeq(turns, 1, n)) = n
  BY <1>1, <1>4
<1>6. /\ SubSeq(turns, n + 1, Len(turns)) \in Seq(Turns)
      /\ Len(SubSeq(turns, n + 1, Len(turns))) = Len(turns) - n
  BY <1>1, <1>4
<1> QED
  BY <1>1, <1>2, <1>5, <1>6 DEF Region, Rest

\* A turn that is completed is added, counted, and starts what is due.
LEMMA StepOfTurn ==
  ASSUME SizeTypeOK, NEW t \in Turns, CompleteTurn(t)
  PROVE  /\ turns' \in Seq(Turns) /\ Len(turns') = Len(turns) + 1 /\ Len(turns) \in Nat
         /\ turn_count \in Nat /\ turn_count' = turn_count + 1 /\ turn_count' <= MaxTurns
         /\ next_compress_at' = next_compress_at /\ evaluation' = evaluation
BY SizeAssumption, LenProperties, AppendProperties DEF SizeTypeOK, SizeAssumption, CompleteTurn

LEMMA StepSizeTypes ==
  ASSUME SizeTypeOK, [Next]_vars
  PROVE  SizeTypeOK'
<1> USE SizeAssumption DEF SizeAssumption
<1>1. ASSUME NEW t \in Turns, CompleteTurn(t) PROVE SizeTypeOK'
  <2>1. /\ turns' \in Seq(Turns) /\ Len(turns') = Len(turns) + 1 /\ Len(turns) \in Nat
        /\ turn_count \in Nat /\ turn_count' = turn_count + 1 /\ turn_count' <= MaxTurns
        /\ next_compress_at' = next_compress_at
    BY <1>1, StepOfTurn
  <2>2. snapshot' \in (KeepRecent + 1 .. Len(turns')) \cup {None}
    <3>1. CASE snapshot' = snapshot
      BY <2>1, <3>1 DEF SizeTypeOK
    <3>2. CASE snapshot' = Len(turns') /\ Len(turns') > KeepRecent
      BY <2>1, <3>2
    <3> QED
      BY <1>1, <3>1, <3>2 DEF CompleteTurn
  <2> QED
    BY <2>1, <2>2 DEF SizeTypeOK
<1>2. ASSUME snapshot # None, EndCompression, turns' \in {turns, Rest} PROVE SizeTypeOK'
  <2>1. turns' \in Seq(Turns) /\ Len(turns') <= Len(turns) /\ Len(turns') \in Nat
    <3>1. turns \in Seq(Turns) /\ Len(turns) \in Nat
      BY <1>2, RegionAndRest DEF SizeTypeOK
    <3>2. KeepRecent \in Nat
      OBVIOUS
    <3>3. Rest \in Seq(Turns) /\ Len(Rest) <= Len(turns) /\ Len(Rest) \in Nat
      BY <1>2, <3>2, RegionAndRest
    <3> QED
      BY <1>2, <3>1, <3>3
  <2>2. /\ turn_count' = turn_count /\ turn_count \in Nat
        /\ next_compress_at' = turn_count + every_n_turns /\ snapshot' = None
    BY <1>2 DEF EndCompression, SizeTypeOK
  <2>3. Len(turns) \in Nat
    BY <1>2, RegionAndRest
  <2> QED
    BY <2>1, <2>2, <2>3 DEF SizeTypeOK
<1>3. ASSUME NEW s \in Answers, Compact(s) \/ Refuse(s) PROVE SizeTypeOK'
  BY <1>2, <1>3 DEF Compact, Refuse
<1>4. CASE UNCHANGED vars
  BY <1>4 DEF vars, SizeTypeOK
<1> QED
  BY <1>1, <1>3, <1>4 DEF Next

\* The counters keep their order, and what a compression was given is there and
\* is more than it is to keep, for every length of turns and of answers
\* (scheduler.rs:15, compressor.rs:43).
THEOREM SizeTypesHold == Spec => []SizeTypeOK
<1>1. Init => SizeTypeOK
  BY InitSizeTypes
<1>2. SizeTypeOK /\ [Next]_vars => SizeTypeOK'
  BY StepSizeTypes
<1> QED
  BY <1>1, <1>2, PTL DEF Spec

-----------------------------------------------------------------------------
(* A stored summary is shorter than what it replaced.                      *)

\* A region of one turn renders to 96 characters, more than the 72 of which a
\* quarter is the prefix.
LEMMA AcceptedWithPrefix ==
  ASSUME NEW s \in Nat, NEW source \in Nat, source > 4 * PrefixLength, Accepted(s, source)
  PROVE  PrefixLength + s < source
BY DEF Accepted, PrefixLength

LEMMA StepShorter ==
  ASSUME SizeTypeOK, SummaryShorter, [Next]_vars
  PROVE  SummaryShorter'
<1>1. ASSUME NEW s \in Answers, Compact(s) PROVE SummaryShorter'
  <2>1. snapshot # None /\ Accepted(s, Rendered(Region))
    BY <1>1 DEF Compact
  <2>2. Region \in Seq(Turns) /\ Len(Region) \in Nat /\ Len(Region) >= 1
    <3>1. KeepRecent \in Nat
      BY SizeAssumption DEF SizeAssumption
    <3> QED
      BY <2>1, <3>1, RegionAndRest
  <2>3. Rendered(Region) \in Nat /\ Rendered(Region) > 4 * PrefixLength
    <3>1. Rendered(Region) \in Nat /\ Rendered(Region) >= Heading + Len(Region) * MinRendered
      BY <2>2, RenderedBound
    <3> QED
      BY <2>2, <3>1 DEF Heading, MinRendered, PrefixLength
  <2>4. s \in Nat
    BY SizeAssumption DEF SizeAssumption
  <2>5. PrefixLength + s < Rendered(Region)
    BY <2>1, <2>3, <2>4, AcceptedWithPrefix
  <2> QED
    BY <1>1, <2>5 DEF Compact, SummaryShorter
<1>2. CASE UNCHANGED evaluation
  BY <1>2 DEF SummaryShorter
<1> QED
  BY <1>1, <1>2 DEF Next, CompleteTurn, Refuse, vars

\* A stored summary, prefix included, is shorter than the dialogue it replaced,
\* and is reported so, whatever the turns hold and the model answers: each turn
\* renders to MinRendered characters, so the quarter that an accepted summary
\* must save is more than the prefix (compressor.rs:191-206).
THEOREM SummaryShorterHolds == Spec => []SummaryShorter
<1>1. Init => SizeTypeOK /\ SummaryShorter
  BY InitSizeTypes DEF Init, SummaryShorter
<1>2. SizeTypeOK /\ SummaryShorter /\ [Next]_vars => (SizeTypeOK /\ SummaryShorter)'
  BY StepSizeTypes, StepShorter
<1> QED
  BY <1>1, <1>2, PTL DEF Spec

-----------------------------------------------------------------------------
(* Refused summaries do not let the turns pile up.                         *)

\* The answers have a longest, and so many turns are enough for it.
LEMMA EnoughIsEnough ==
  /\ Longest \in Nat /\ \A s \in Answers : s \in Nat /\ s <= Longest
  /\ Enough \in Nat /\ Enough >= 1
  /\ Accepted(Longest, Heading + Enough * MinRendered)
<1>1. Answers \in SUBSET Nat /\ IsFiniteSet(Answers) /\ Answers # {} /\ 0 \notin Answers
  BY SizeAssumption DEF SizeAssumption
<1>2. Longest \in Answers /\ \A s \in Answers : s <= Longest
  <2>1. \E n \in Answers : \A m \in Answers : m <= n
    BY <1>1, GreatestElement
  <2> QED
    BY <2>1 DEF Longest
<1>3. Longest \in Nat /\ Longest >= 1
  BY <1>1, <1>2
<1> DEFINE Long(n) == Accepted(Longest, Heading + n * MinRendered)
           T == {n \in 1 .. Longest * 2 : Long(n)}
<1>4. \E n \in 1 .. Longest * 2 : Long(n) /\ \A k \in 1 .. n - 1 : ~Long(k)
  <2>1. Longest * 2 \in T
    BY <1>3 DEF Accepted, Heading, MinRendered
  <2>2. T \in SUBSET Nat
    BY <1>3
  <2>3. \A k \in T : k \in 1 .. Longest * 2 /\ Long(k)
    OBVIOUS
  <2>4. \A k \in 1 .. Longest * 2 : Long(k) => k \in T
    OBVIOUS
  <2> HIDE DEF T
  <2>5. PICK n \in T : \A k \in T : n <= k
    BY <2>1, <2>2, LeastElement
  <2> HIDE DEF Long
  <2>6. ASSUME NEW k \in 1 .. n - 1 PROVE ~Long(k)
    BY <1>3, <2>3, <2>4, <2>5
  <2> QED
    BY <2>3, <2>5, <2>6
<1>5. Enough \in 1 .. Longest * 2 /\ Long(Enough)
  BY <1>4 DEF Enough
<1> QED
  BY <1>1, <1>2, <1>3, <1>5

\* What is accepted of a summary is accepted of a shorter one, and of a longer
\* source.
LEMMA AcceptedMonotone ==
  ASSUME NEW s \in Nat, NEW source \in Nat, NEW t \in Nat, NEW less \in Nat,
         t <= s, source <= less, Accepted(s, source)
  PROVE  Accepted(t, less)
BY DEF Accepted

\* Only a region of fewer than Enough turns is refused.
LEMMA RefusedIsShort ==
  ASSUME SizeTypeOK, NEW s \in Answers, Refuse(s)
  PROVE  snapshot - KeepRecent <= Enough - 1
<1> DEFINE n == snapshot - KeepRecent
           R == Rendered(Region)
<1>1. Region \in Seq(Turns) /\ Len(Region) = n /\ n \in Nat
  <2>1. KeepRecent \in Nat
    BY SizeAssumption DEF SizeAssumption
  <2> QED
    BY <2>1, RegionAndRest DEF Refuse
<1>2. R \in Nat /\ R >= Heading + n * MinRendered
  BY <1>1, RenderedBound
<1>3. ~Accepted(s, R)
  BY DEF Refuse
<1> HIDE DEF n, R
<1> SUFFICES ASSUME n >= Enough PROVE FALSE
  BY <1>1, EnoughIsEnough DEF n
<1>4. R >= Heading + Enough * MinRendered /\ Heading + Enough * MinRendered \in Nat
  BY <1>1, <1>2, EnoughIsEnough DEF Heading, MinRendered
<1> QED
  BY <1>2, <1>3, <1>4, EnoughIsEnough, AcceptedMonotone

\* While no compression runs, there are as many turns as the last one left and
\* as were counted since; none is put off that is due and has a region.  While
\* one runs, so many turns have arrived as fit in its time.
Waiting == Enough - 1 + KeepRecent + MaxWaiting

BacklogInv ==
  /\ snapshot = None =>
       /\ turn_count >= next_compress_at - every_n_turns
       /\ Len(turns) <= Waiting + (turn_count - (next_compress_at - every_n_turns))
       /\ turn_count >= next_compress_at => Len(turns) <= KeepRecent
  /\ snapshot # None =>
       /\ snapshot <= Waiting + every_n_turns
       /\ Len(turns) - snapshot <= MaxWaiting

LEMMA StepBacklog ==
  ASSUME SizeTypeOK, BacklogInv, [Next]_vars
  PROVE  BacklogInv'
<1>1. /\ KeepRecent \in Nat /\ MaxWaiting \in Nat /\ every_n_turns \in Nat
      /\ every_n_turns > 0 /\ None \notin Nat
      /\ Enough \in Nat /\ Enough >= 1
  BY SizeAssumption, EnoughIsEnough DEF SizeAssumption
<1>2. /\ Waiting \in Nat /\ KeepRecent <= Waiting /\ KeepRecent + MaxWaiting <= Waiting
      /\ Waiting' = Waiting
  BY <1>1 DEF Waiting
<1>3. turn_count \in Nat /\ next_compress_at \in Nat /\ Len(turns) \in Nat
  BY SizeAssumption, LenProperties DEF SizeTypeOK, SizeAssumption
<1>4. ASSUME NEW t \in Turns, CompleteTurn(t) PROVE BacklogInv'
  <2>1. /\ Len(turns') = Len(turns) + 1 /\ turn_count' = turn_count + 1
        /\ next_compress_at' = next_compress_at
    BY <1>4, StepOfTurn
  <2>2. CASE snapshot # None
    <3>1. snapshot' = snapshot /\ snapshot \in Nat
      BY <1>4, <2>2, RegionAndRest DEF CompleteTurn
    <3>2. Len(turns) - snapshot < MaxWaiting
      BY <1>4, <2>2 DEF CompleteTurn
    <3>3. snapshot <= Waiting + every_n_turns
      BY <2>2 DEF BacklogInv
    <3> QED
      BY <1>1, <1>2, <1>3, <2>1, <2>2, <3>1, <3>2, <3>3 DEF BacklogInv
  <2>3. CASE snapshot = None
    <3>1. /\ turn_count >= next_compress_at - every_n_turns
          /\ Len(turns) <= Waiting + (turn_count - (next_compress_at - every_n_turns))
          /\ turn_count >= next_compress_at => Len(turns) <= KeepRecent
      BY <2>3 DEF BacklogInv
    <3>2. CASE turn_count' >= next_compress_at /\ Len(turns') > KeepRecent
      <4>1. snapshot' = Len(turns') /\ snapshot' # None
        BY <1>1, <1>3, <1>4, <2>1, <2>3, <3>2 DEF CompleteTurn
      <4>2. snapshot' <= Waiting + every_n_turns
        BY <1>1, <1>2, <1>3, <2>1, <3>1, <3>2, <4>1
      <4> QED
        BY <1>1, <1>2, <1>3, <2>1, <4>1, <4>2 DEF BacklogInv
    <3>3. CASE ~(turn_count' >= next_compress_at /\ Len(turns') > KeepRecent)
      <4>1. snapshot' = None
        BY <1>4, <2>3, <3>3 DEF CompleteTurn
      <4> QED
        BY <1>1, <1>2, <1>3, <2>1, <3>1, <3>3, <4>1 DEF BacklogInv
    <3> QED
      BY <3>2, <3>3
  <2> QED
    BY <2>2, <2>3
<1>5. ASSUME NEW s \in Answers, Compact(s) \/ Refuse(s) PROVE BacklogInv'
  <2>1. /\ snapshot # None /\ snapshot' = None /\ turn_count' = turn_count
        /\ next_compress_at' = turn_count + every_n_turns
    BY <1>5 DEF Compact, Refuse, EndCompression
  <2>2. snapshot \in Nat /\ Len(turns) - snapshot <= MaxWaiting
    BY <2>1, RegionAndRest DEF BacklogInv
  <2>3. Len(turns') \in Nat /\ Len(turns') <= Waiting
    <3>1. CASE Compact(s)
      BY <1>1, <1>2, <1>3, <2>1, <2>2, <3>1, RegionAndRest DEF Compact
    <3>2. CASE Refuse(s)
      BY <1>1, <1>3, <2>1, <2>2, <3>2, RefusedIsShort DEF Refuse, Waiting
    <3> QED
      BY <1>5, <3>1, <3>2
  <2> QED
    BY <1>1, <1>2, <1>3, <2>1, <2>3 DEF BacklogInv
<1>6. CASE UNCHANGED vars
  BY <1>2, <1>6 DEF vars, BacklogInv
<1> QED
  BY <1>4, <1>5, <1>6 DEF Next

LEMMA InitBacklog ==
  Init => BacklogInv
BY SizeAssumption, EnoughIsEnough, EmptySeq DEF SizeAssumption, Init, BacklogInv, Waiting

LEMMA BacklogIsBounded ==
  SizeTypeOK /\ BacklogInv => BacklogBounded
<1> SUFFICES ASSUME SizeTypeOK, BacklogInv PROVE BacklogBounded
  OBVIOUS
<1>1. /\ KeepRecent \in Nat /\ MaxWaiting \in Nat /\ every_n_turns \in Nat
      /\ Enough \in Nat /\ Enough >= 1 /\ Len(turns) \in Nat
      /\ turn_count \in Nat /\ next_compress_at \in Nat
  BY SizeAssumption, EnoughIsEnough, LenProperties DEF SizeAssumption, SizeTypeOK
<1>2. CASE snapshot = None
  BY <1>1, <1>2 DEF BacklogInv, BacklogBounded, Waiting
<1>3. CASE snapshot # None
  <2>1. snapshot \in Nat
    BY <1>3, RegionAndRest
  <2> QED
    BY <1>1, <1>3, <2>1 DEF BacklogInv, BacklogBounded, Waiting
<1> QED
  BY <1>2, <1>3

\* Refusals cannot go on for ever: whatever the turns hold, while the model
\* answers at bounded length the turns no summary stands for stay bounded, by
\* the turns that make any answer acceptable, those kept, those of a period of
\* the threshold and those that arrive during two compressions
\* (compressor.rs:191, scheduler.rs:153).
THEOREM BacklogBoundedHolds == Spec => []BacklogBounded
<1>1. Init => SizeTypeOK /\ BacklogInv
  BY InitSizeTypes, InitBacklog
<1>2. SizeTypeOK /\ BacklogInv /\ [Next]_vars => (SizeTypeOK /\ BacklogInv)'
  BY StepSizeTypes, StepBacklog
<1>3. SizeTypeOK /\ BacklogInv => BacklogBounded
  BY BacklogIsBounded
<1> QED
  BY <1>1, <1>2, <1>3, PTL DEF Spec
=============================================================================
