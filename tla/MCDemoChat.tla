----------------------------- MODULE MCDemoChat -----------------------------
(***************************************************************************)
(* DemoChat on small instances: a chat, a tool call and a completion of    *)
(* one session, with two tool call ids and one system prompt.  The model   *)
(* answers with one call, with two, or with one id twice.                  *)
(***************************************************************************)
EXTENDS DemoChat

CONSTANTS c1, c2, p1, chat1, tool1, done1

OneCallId == {c1}
TwoCallIds == {c1, c2}

MCReplyCalls == {<<c1>>, <<c1, c2>>, <<c1, c1>>}
OneReplyCall == {<<c1>>}
OnePrompt == {p1}

OneChat     == {chat1}
OneToolChat == {tool1}
OneComplete == {done1}

Result(id, content) ==
  [role |-> "tool", summary |-> FALSE, content |-> content,
   tool_calls |-> None, tool_call_id |-> id, named |-> TRUE]

ToolResults  == {Result(c1, Said)}
BlankResults == {Result(c1, {})}
AnyResults   == {Result(c1, Said), Result(c2, {})}
=============================================================================
