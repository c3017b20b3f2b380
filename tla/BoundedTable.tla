---------------------------- MODULE BoundedTable ----------------------------
(***************************************************************************)
(* What the session table promises its callers, without a counter beside   *)
(* the map, loads or exchanges: a slot is granted or denied in one step,   *)
(* granted exactly while sessions and slots in hand leave one free.  The   *)
(* caller may hear of it later, but a denial was right at some moment of   *)
(* the call.                                                               *)
(***************************************************************************)
EXTENDS Integers, FiniteSets

CONSTANTS
  Ids,           \* The session ids in use.
  Workers,       \* The threads that use the table.
  max_sessions

VARIABLES
  sessions,   \* The ids in the table.
  standing    \* How each worker stands to a slot.

vars == <<sessions, standing>>

Init ==
  /\ sessions = {}
  /\ standing = [w \in Workers |-> "out"]

Turn(w, from, to) ==
  /\ standing[w] = from
  /\ standing' = [standing EXCEPT ![w] = to]

Used == Cardinality(sessions) + Cardinality({w \in Workers : standing[w] = "holding"})

Ask(w) == Turn(w, "out", "asking") /\ UNCHANGED sessions

Grant(w) ==
  /\ Turn(w, "asking", "holding")
  /\ Used < max_sessions
  /\ UNCHANGED sessions

Deny(w) ==
  /\ Turn(w, "asking", "denied")
  /\ Used >= max_sessions
  /\ UNCHANGED sessions

Return(w) == Turn(w, "denied", "out") /\ UNCHANGED sessions

\* The slot in hand becomes a session, or a session a slot in hand.
Put(w, id) ==
  /\ Turn(w, "holding", "out")
  /\ id \notin sessions
  /\ sessions' = sessions \cup {id}

Take(w, id) ==
  /\ Turn(w, "out", "holding")
  /\ id \in sessions
  /\ sessions' = sessions \ {id}

\* A slot that was not needed, or whose session is gone, is free again; one
\* that drew an id in use asks anew.
GiveBack(w) ==
  /\ Turn(w, "holding", "out") \/ Turn(w, "holding", "asking")
  /\ UNCHANGED sessions

Next ==
  \E w \in Workers :
    \/ Ask(w) \/ Grant(w) \/ Deny(w) \/ Return(w) \/ GiveBack(w)
    \/ \E id \in Ids : Put(w, id) \/ Take(w, id)

Spec == Init /\ [][Next]_vars
=============================================================================
