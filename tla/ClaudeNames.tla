------------------------------ MODULE ClaudeNames ------------------------------
(***************************************************************************)
(* Model names of the reverse leg, src/src/claude-models.ts and             *)
(* codex-route.ts: the catalog of Claude models, the aliases declared under *)
(* codexIngress.claude, what they resolve to, what Codex is told of them    *)
(* and where a request goes.  Names are written as in ModelRouting.         *)
(***************************************************************************)
EXTENDS ModelRouting

CONSTANTS
  Words,        (* what names are made of                                     *)
  Catalog,      (* CLAUDE_MODELS: a sequence of [id, family, gen]             *)
  ClaudeWords,  (* words that begin with "claude-"                            *)
  OpenaiWords   (* words that begin with gpt-, o1, o3 or o4                   *)

ASSUME WordsAssumption ==
  /\ ClaudeWords \subseteq ReservedPrefixes /\ ClaudeWords \cap OpenaiWords = {}
  /\ {"claude", "codex"} \cap (ClaudeWords \cup OpenaiWords) = {}
  /\ "claude" \in Words

(* Ids and families are single words, ids those of Claude and families not  *)
(* those of OpenAI.                                                         *)
ASSUME CatalogAssumption ==
  /\ Catalog \in Seq([id : Seq(Words), family : Seq(Words), gen : Seq(Nat)])
  /\ \A model \in ToSet(Catalog) :
       /\ Len(model.id) = 1 /\ Head(model.id) \in ClaudeWords
       /\ Len(model.family) = 1 /\ Head(model.family) \notin OpenaiWords

ClaudeName(name) == <<"claude">> \o name

(* The names of the registry are OpenAI's, and all that begin with codex:.  *)
isOpenaiModelName(registry, name) ==
  \/ Head(name) \in OpenaiWords
  \/ Head(name) = "codex" /\ Len(name) > 1
  \/ name \in (UNION {{e.id, e.family} : e \in ToSet(registry)}) \ {NoFamily}

isClaudeModelName(name) == Head(name) \in ClaudeWords \/ (Head(name) = "claude" /\ Len(name) > 1)

validClaudeAlias(registry, pair) ==
  /\ ~isOpenaiModelName(registry, pair.alias)
  /\ ~isOpenaiModelName(registry, pair.target)
  /\ Head(pair.target) \in ClaudeWords

(* The newest model of a family, the first of them on a tie.                *)
FamilyHead(family) ==
  Catalog[CHOOSE i \in Foremost(Catalog, {k \in DOMAIN Catalog : Catalog[k].family = family}) : TRUE]

CatalogIds == {model.id : model \in ToSet(Catalog)}
CatalogFamilies == {model.family : model \in ToSet(Catalog)}

(* Names are set in both spellings.                                         *)
Spelled(map) ==
  [name \in DOMAIN map \cup {ClaudeName(n) : n \in DOMAIN map} |->
     IF name \in DOMAIN map THEN map[name] ELSE map[Tail(name)]]
Name(names, name, id) == Put(Put(names, name, id), ClaudeName(name), id)

FamilyNames ==
  Atop(Spelled([family \in CatalogFamilies |-> FamilyHead(family).id]), [id \in CatalogIds |-> id])

Pinned(targets) == CatalogIds \cup targets
PinIds(names, targets) == Atop(Spelled([id \in Pinned(targets) |-> id]), names)

(* An alias after the other; the ones that are refused name nothing.        *)
Declare(registry, names, pair) ==
  IF validClaudeAlias(registry, pair)
  THEN Name(Put(names, pair.target, pair.target), pair.alias, pair.target)
  ELSE names
DeclaredNames(registry, aliases) ==
  LET after[n \in 0 .. Len(aliases)] ==
        IF n = 0 THEN FamilyNames ELSE Declare(registry, after[n - 1], aliases[n])
  IN after

(* The map of names: families, then the aliases in their order, and the     *)
(* canonical ids over both.                                                 *)
claudeResolver(registry, aliases) ==
  PinIds(DeclaredNames(registry, aliases)[Len(aliases)],
         {pair.target : pair \in {p \in ToSet(aliases) : validClaudeAlias(registry, p)}})

(* What is listed for an id: its family where that stands for it, and the aliases that target it. *)
claudeModelRows(registry, aliases) ==
  LET names == claudeResolver(registry, aliases)
  IN [id \in CatalogIds \cup {pair.target : pair \in ToSet(aliases)} |->
        {model.family : model \in {m \in ToSet(Catalog) : m.id = id /\ names[m.family] = id}}
        \cup {pair.alias : pair \in {p \in ToSet(aliases) : p.target = id}}]

(* What Codex's own list of models is extended by: a slug and the id whose  *)
(* capabilities it shows.  Targets outside the catalog are not advertised.  *)
augmentCodexModels(registry, aliases, present) ==
  LET rows == claudeModelRows(registry, aliases)
  IN {entry \in UNION {[slug : {id} \cup rows[id], id : {id}] : id \in CatalogIds} : entry.slug \notin present}

(* destination() of the gateway and decideCodexRoute().                     *)
resolveName(names, name) ==
  IF name \in DOMAIN names THEN [kind |-> "claude", model |-> names[name]]
  ELSE IF isClaudeModelName(name) THEN [kind |-> "unregistered"] ELSE [kind |-> "foreign"]

decideCodexRoute(compact, resolution) ==
  CASE resolution.kind = "claude" ->
         IF compact THEN [kind |-> "rejected"] ELSE [kind |-> "claude", model |-> resolution.model]
    [] resolution.kind = "unregistered" -> [kind |-> "rejected"]
    [] OTHER -> [kind |-> "parent"]
=================================================================================
