------------------------------- MODULE MCServer -------------------------------
(* A small instance of Server: names of every resolution, bodies below and    *)
(* above the window, two requests on the connection.                          *)
EXTENDS Server

Entry(id, provider, family) ==
  [id |-> id, provider |-> provider, family |-> family, gen |-> <<6>>, preview |-> FALSE, retired |-> FALSE]

MCProviders == <<"codex", "kimi">>
MCRegistry == <<Entry(<<"g6">>, "codex", <<"sol">>), Entry(<<"k2">>, "kimi", <<"sol">>)>>
MCAliases == [codex |-> <<[alias |-> <<"fast">>, target |-> <<"g6">>]>>, kimi |-> <<>>]
MCModelNames == {<<"fast">>, <<"sol">>, <<"kimee", "k2">>, <<"claude-o5">>}
===============================================================================
