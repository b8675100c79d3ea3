------------------------------ MODULE MCNameEdits ------------------------------
(* A small instance of NameEdits: two providers that contest a family, an id  *)
(* with a colon in it, aliases that take the name of a family, of an id, of a *)
(* qualified form or of another alias, and targets that no registry has.      *)
EXTENDS NameEdits

Entry(id, provider, family, gen, preview) ==
  [id |-> id, provider |-> provider, family |-> family, gen |-> gen, preview |-> preview, retired |-> FALSE]

G5 == Entry(<<"g5">>, "codex", <<"sol">>, <<5, 6>>, FALSE)
G6 == Entry(<<"g6">>, "codex", <<"sol">>, <<6>>, FALSE)
G7 == Entry(<<"g7">>, "codex", <<"sol">>, <<7>>, TRUE)
K2 == Entry(<<"k2">>, "kimi", <<"sol">>, <<2>>, FALSE)
L8 == Entry(<<"codex", "fast">>, "kimi", NoFamily, <<>>, FALSE)

MCProviders == <<"codex", "kimi">>
MCRegistries == {<<G5, G6, G7>>, <<G6, K2, L8>>}
Pair(alias, target) == [alias |-> alias, target |-> target]
MCStartAliases == {[p \in {"codex", "kimi"} |-> <<>>],
                   [codex |-> <<Pair(<<"fast">>, <<"new">>)>>,
                    kimi |-> <<Pair(<<"fast">>, <<"k2">>), Pair(<<"x">>, <<"new">>)>>]}
MCNewEntries == {G5, K2, Entry(<<"new">>, "kimi", <<"fast">>, <<1>>, FALSE)}
MCAliasNames == {<<"fast">>, <<"sol">>, <<"g6">>, <<"codex", "g6">>, <<"new">>}
MCTargets == {<<"g6">>, <<"k2">>, <<"fast">>, <<"new">>, <<"sol">>, <<"codex", "sol">>}
MCCatalog == <<[id |-> <<"claude-o5">>, family |-> <<"opus">>, gen |-> <<5>>],
               [id |-> <<"claude-o55">>, family |-> <<"opus">>, gen |-> <<5, 5>>],
               [id |-> <<"claude-s5">>, family |-> <<"sonnet">>, gen |-> <<5>>]>>
MCClaudeWords == {"claude-o5", "claude-o55", "claude-s5", "claude-new"}
MCReservedPrefixes == MCClaudeWords \cup {"opus", "sonnet"}
MCClaudeAliasNames == {<<"opus">>, <<"claude-o5">>, <<"claude", "opus">>, <<"claude", "claude-o5">>, <<"sol">>, <<"fast">>}
MCClaudeTargets == {<<"claude-o5">>, <<"claude-s5">>, <<"claude-new">>, <<"g6">>}
Asked == {"g5", "g6", "g7", "k2", "new", "sol", "fast", "codex", "kimi", "claude", "claude-o5", "best", "opus"}
MCWords == Asked \cup MCReservedPrefixes \cup {"x", "other"}
MCNames == {<<w>> : w \in Asked} \cup {<<v, w>> : v \in {"codex", "kimi", "claude", "other"}, w \in Asked}
=================================================================================
