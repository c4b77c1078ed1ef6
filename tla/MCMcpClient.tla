---------------------------- MODULE MCMcpClient ----------------------------
(* A server with two calls at a time and the commands beside it.            *)
EXTENDS McpClient

TwoProcs == {1, 2}
SomeTasks == <<{1, 2}, {1}>>

\* The name an agent reports, the one its hooks pass, and another agent's.
ThreeNames == {<<"A", " ", "b">>, <<"a", "-", "b">>, <<"c">>}

Env(url, token, id) == [url |-> url, token |-> token, id |-> id]
Run(kind, name, env) == [kind |-> kind, name |-> name, env |-> env]

\* The agent keeps a server; its hooks, which have no environment of their own unless
\* the user exports one, run the commands beside it, or while the user saves a new
\* configuration, which no server reads.
SomeStarts ==
    <<{Run("mcp", <<"A", " ", "b">>, Env(1, 1, None)),
       Run("mcp", <<"c">>, Env(1, 1, Garbled)),
       Run("recall", <<"c">>, Env(None, None, None)),
       Run("config", <<"c">>, Env(None, None, None))},
      {Run("upload", <<"a", "-", "b">>, Env(None, None, None)),
       Run("recall", <<"c">>, Env(2, None, Given)),
       Run("check", <<"c">>, Env(None, None, None))}>>

Tool(op, readable) == [op |-> op, file |-> "f", readable |-> readable]
SomeTools == {Tool("write", TRUE), Tool("read", TRUE)}
TwoBatches == {<<>>, <<Tool("upload", FALSE), Tool("upload", TRUE)>>}

\* NamesAssumption, for every name of up to three characters, one of which is a letter
\* that is not of ASCII.
Characters == {"A", "a", "d", "-", "_", " ", "e acute"}
ASSUME SlugsApart(UNION {[1..n -> Characters] : n \in 0..3})
===========================================================================
