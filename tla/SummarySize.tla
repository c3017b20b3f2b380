----------------------------- MODULE SummarySize -----------------------------
(***************************************************************************)
(* The sizes a compaction is judged by.  A summary is accepted by its      *)
(* length against the rendering of the turns it is to replace, as the      *)
(* prompt shows them, and is then stored with a prefix and reported by     *)
(* another count.  The previous summary is to be rolled into the new one,  *)
(* but is no part of what the new one is measured by, so a model that      *)
(* writes long summaries is refused until enough turns have gathered.      *)
(*                                                                         *)
(* A turn is its sizes, in characters; its messages are in Session, and so *)
(* are the attempts of one compression, of which the last decides, and the *)
(* prompt changes that make a result stale.                                *)
(***************************************************************************)
EXTENDS Integers, SequencesExt

CONSTANTS
  Turns,            \* The sizes of turns: what a client sees, and in the prompt.
  Answers,          \* The lengths of the summaries the model writes.
  None,
  every_n_turns,
  KeepRecent,       \* compression.keep_recent_turns
  PreservedHead,    \* The size of the system message at the head, 0 without one.
  MaxTurns,         \* Bound on the turns of the session.
  MaxWaiting        \* Bound on the turns completed while one compression runs.

\* A turn without contents renders to 61 characters, punctuation included.
MinRendered == 61

ASSUME SizeAssumption ==
  /\ Turns \subseteq [visible : Nat, rendered : Nat]
  /\ \A t \in Turns : t.rendered >= MinRendered
  /\ Answers \subseteq Nat \ {0} /\ Answers # {} /\ IsFiniteSet(Answers)
  /\ None \notin Nat
  /\ {every_n_turns, KeepRecent, PreservedHead, MaxTurns, MaxWaiting} \subseteq Nat
  /\ every_n_turns > 0

VARIABLES
  turns,              \* The turns in view that no summary stands for.
  snapshot,           \* How many of them the running compression was given.
  turn_count,
  next_compress_at,
  evaluation          \* last_compression_evaluation

vars == <<turns, snapshot, turn_count, next_compress_at, evaluation>>

\* "[CONTEXT SUMMARY]" and a line feed.
PrefixLength == 18

\* The heading of the new dialogue in the prompt, and the brackets of its list.
Heading == 33 + 2

Init ==
  /\ turns = <<>>
  /\ snapshot = None
  /\ turn_count = 0
  /\ next_compress_at = every_n_turns
  /\ evaluation = None

TotalVisible(ts) == FoldSeq(LAMBDA t, n : n + t.visible, 0, ts)

\* compression_input_char_count
Rendered(ts) == FoldSeq(LAMBDA t, n : n + t.rendered, Heading, ts)

\* What the running compression is to replace, and what it keeps.
Region == SubSeq(turns, 1, snapshot - KeepRecent)
Rest   == SubSeq(turns, snapshot - KeepRecent + 1, Len(turns))
Recent == SubSeq(turns, snapshot - KeepRecent + 1, snapshot)

-----------------------------------------------------------------------------
\* The append that completes a turn, and starts a compression that is due.
CompleteTurn(t) ==
  /\ turn_count < MaxTurns
  /\ snapshot # None => Len(turns) - snapshot < MaxWaiting
  /\ turns' = Append(turns, t)
  /\ turn_count' = turn_count + 1
  /\ snapshot' = IF snapshot = None /\ turn_count' >= next_compress_at
                                    /\ Len(turns') > KeepRecent
                 THEN Len(turns') ELSE snapshot
  /\ UNCHANGED <<next_compress_at, evaluation>>

\* Fault: that the summary is shorter is enough.
AcceptedIfShorter(s, source) == s < source

\* validate_summary_quality
Accepted(s, source) == s < source /\ s * 4 <= source * 3

\* Faults: the flag stays up; the threshold is moved on by the turns there are.
EndWithFlagUp ==
  /\ next_compress_at' = turn_count + every_n_turns
  /\ UNCHANGED <<snapshot, turn_count>>

EndPushingThreshold ==
  /\ next_compress_at' = next_compress_at + turn_count
  /\ snapshot' = None
  /\ UNCHANGED turn_count

EndCompression ==
  /\ next_compress_at' = turn_count + every_n_turns
  /\ snapshot' = None
  /\ UNCHANGED turn_count

\* The summary, with its prefix, replaces the region.
Compact(s) ==
  /\ snapshot # None
  /\ Accepted(s, Rendered(Region))
  /\ turns' = Rest
  /\ evaluation' =
       [compressed_region_char_count |-> Rendered(Region),
        summary_char_count           |-> PrefixLength + s,
        stable_output_char_count     |->
           PreservedHead + PrefixLength + s + TotalVisible(Recent)]
  /\ EndCompression

\* Every attempt is refused, and the turns stay.
Refuse(s) ==
  /\ snapshot # None
  /\ ~Accepted(s, Rendered(Region))
  /\ EndCompression
  /\ UNCHANGED <<turns, evaluation>>

Next ==
  \/ \E t \in Turns : CompleteTurn(t)
  \/ \E s \in Answers : Compact(s) \/ Refuse(s)

Spec == Init /\ [][Next]_vars

-----------------------------------------------------------------------------
(* Properties.                                                             *)

\* The counters keep their order, and a compression is of turns that are there,
\* more than are to be kept.
SizeTypeOK ==
  /\ turns \in Seq(Turns)
  /\ turn_count \in 0 .. MaxTurns
  /\ next_compress_at \in Nat
  /\ snapshot \in (KeepRecent + 1 .. Len(turns)) \cup {None}
  /\ Len(turns) <= turn_count

\* A stored summary is shorter than the dialogue it replaced, and is reported
\* so, although its prefix is not in the length it was accepted by: a quarter
\* of the shortest region is more than the prefix (compressor.rs:191-206).
SummaryShorter ==
  evaluation # None =>
    evaluation.summary_char_count < evaluation.compressed_region_char_count

Longest == CHOOSE s \in Answers : \A other \in Answers : other <= s

\* So many turns are too long a region for any answer to be refused.
Enough == CHOOSE n \in 1 .. Longest * 2 :
  /\ Accepted(Longest, Heading + n * MinRendered)
  /\ \A k \in 1 .. n - 1 : ~Accepted(Longest, Heading + k * MinRendered)

\* Refusals cannot go on for ever: while the model answers at bounded length,
\* the turns no summary stands for stay bounded, although each refusal puts the
\* next attempt off and turns arrive meanwhile (compressor.rs:191, scheduler.rs:153).
BacklogBounded ==
  Len(turns) <= (Enough - 1) + KeepRecent + every_n_turns + 2 * MaxWaiting
=============================================================================
