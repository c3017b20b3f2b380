---------------------------- MODULE MCSummarySize ----------------------------
(***************************************************************************)
(* SummarySize with a turn of empty contents and one of a few words, and   *)
(* answers about the lengths at which one or more of them are refused.     *)
(***************************************************************************)
EXTENDS SummarySize

Silent == [visible |-> 0, rendered |-> 61]
Brief  == [visible |-> 4, rendered |-> 103]

MCTurns == {Silent, Brief}

\* One silent turn renders to 96 characters, one brief one to 138, two silent
\* ones to 157; the last length is refused until there are five silent ones.
MCAnswers == {1, 72, 73, 95, 103, 104, 117, 118, 137, 220}
=============================================================================
