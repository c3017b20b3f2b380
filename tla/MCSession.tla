------------------------------ MODULE MCSession ------------------------------
(***************************************************************************)
(* Session on small instances: two tool call ids, two prompts, a handful   *)
(* of messages, and every shape of message the validator tells apart.      *)
(***************************************************************************)
EXTENDS Session

CONSTANTS c1, c2, p1, p2

MCCallIds == {c1, c2}
NoCallIds == {}
MCPrompts == {p1, p2}
OnePrompt == {p1}

Request(role, calls, id) ==
  [role |-> role, summary |-> FALSE, content |-> {},
   tool_calls |-> calls, tool_call_id |-> id, named |-> role = "tool"]

User   == Request("user", None, None)
Answer == Request("assistant", None, None)

\* A client's own system message that starts with the summary prefix.
MarkedSystem == [Request("system", None, None) EXCEPT !.summary = TRUE]

ToolRequests ==
  {Request("assistant", <<c1>>, None), Request("assistant", <<c1, c2>>, None),
   Request("tool", None, c1), Request("tool", None, c2)}

\* What the validator refuses whatever came before.
Malformed ==
  {Request("assistant", <<>>, None), Request("assistant", <<c1, c1>>, None),
   Request("tool", None, None), [Request("tool", None, c1) EXCEPT !.named = FALSE]}

System == Request("system", None, None)

PlainRequests == {User, Answer, System, MarkedSystem}

\* Tool fields where the role has none, which the validator lets through.
StrayRequests ==
  {[User EXCEPT !.tool_calls = <<c1>>], [User EXCEPT !.tool_call_id = c1]}

WithStrayRequests == PlainRequests \cup StrayRequests

OneCallId == {c1}

ToolTurnRequests == {User, Answer} \cup ToolRequests \cup Malformed
=============================================================================
