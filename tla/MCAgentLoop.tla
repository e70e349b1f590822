----------------------------- MODULE MCAgentLoop -----------------------------
(* Replies for small instances of AgentLoop.                                 *)
EXTENDS AgentLoop

Reply(kinds, finish, text) == [calls |-> kinds, finish |-> finish, text |-> text]

\* one reply for each way through the loop
EveryReply == {
    Reply(<<>>, "stop", "answer"),
    Reply(<<>>, "stop", ""),
    Reply(<<>>, "stop", "preamble"),
    Reply(<<>>, "length", ""),
    Reply(<<>>, "max_tokens", "thought"),
    Reply(<<>>, "length", "answer"),
    Reply(<<>>, "stop", "jsoncall"),
    Reply(<<>>, "stop", "jsonempty"),
    Reply(<<"read", "read">>, "stop", ""),
    Reply(<<"read", "write">>, "stop", "answer"),
    Reply(<<"write", "final">>, "stop", ""),
    Reply(<<"silent">>, "stop", ""),
    Reply(<<"cut">>, "length", "answer"),
    Reply(<<"cutfinal">>, "length", ""),
    Reply(<<"read", "cutfinal">>, "length", "") }

\* a model that answers, or whose tool call is cut off
CutOrPlain == {Reply(<<"cut">>, "length", ""), Reply(<<>>, "stop", "answer")}

BothKinds == {"root", "sub"}
RootOnly == {"root"}
=============================================================================
