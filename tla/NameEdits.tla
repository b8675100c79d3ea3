------------------------------- MODULE NameEdits -------------------------------
(***************************************************************************)
(* The life of the model names: the configuration is edited or a release    *)
(* brings another registry, and `subswitch serve` is started again, which   *)
(* builds both tables (buildDeps() in src/src/server.ts).  An edit that the *)
(* schema of config.ts refuses never gets that far.                         *)
(***************************************************************************)
EXTENDS ClaudeNames

CONSTANTS
  Registries,                  (* registries a first release may come with     *)
  StartAliases,                (* aliases the configuration begins with        *)
  NewEntries,                  (* entries a later release may add              *)
  AliasNames, Targets,         (* of the aliases of codex                      *)
  ClaudeAliasNames, ClaudeTargets,
  Names,                       (* names a request or an agent file may carry   *)
  MaxChanges                   (* bound: edits and releases of a behaviour     *)

ASSUME MaxChangesAssumption == MaxChanges \in Nat

Entries == (UNION {ToSet(r) : r \in Registries}) \cup NewEntries
IsName(name) == name \in Seq(Words) /\ name # <<>>
Pairs(from, to) == [alias : from, target : to]

(* As in MODEL_REGISTRY, an id is that of one model and no name of another  *)
(* one, neither its family nor a qualified form, and no id or family is a   *)
(* name of Claude's (what the self-check of buildRoutingTable() reports).   *)
ASSUME RegistryAssumption ==
  /\ ToSet(Providers) \subseteq Words \ ReservedPrefixes
  /\ \A r \in Registries : r \in Seq(Entries) /\ \A i, j \in DOMAIN r : r[i].id = r[j].id => i = j
  /\ \A e \in Entries :
       /\ e \in [id : Seq(Words), provider : ToSet(Providers), family : Seq(Words), gen : Seq(Nat),
                 preview : BOOLEAN, retired : BOOLEAN]
       /\ IsName(e.id) /\ ~isReservedAnthropicName(e.id) /\ Head(e.id) # "claude"
       /\ e.family # NoFamily => Len(e.family) = 1 /\ ~isReservedAnthropicName(e.family)
       /\ {e.id, e.family} \cap CatalogFamilies = {}
       /\ \A f \in Entries : /\ e.provider = f.provider => e.family # f.id
                            /\ \A name \in {e.id, e.family} : Qualified(e.provider, name) # f.id

ASSUME AliasAssumption ==
  /\ \A a \in StartAliases : a \in [ToSet(Providers) -> Seq(Pairs(Seq(Words), Seq(Words)))]
  /\ \A name \in AliasNames \cup Targets \cup ClaudeAliasNames \cup ClaudeTargets \cup Names : IsName(name)

VARIABLES
  registry,       (* MODEL_REGISTRY                                           *)
  aliases,        (* providers.<id>.aliases                                   *)
  claudeAliases,  (* codexIngress.claude.aliases                              *)
  table,          (* the RoutingTable of the running server                   *)
  names,          (* the map of its claudeResolver                            *)
  changes

namesVars == <<registry, aliases, claudeAliases, table, names, changes>>

(* buildDeps()                                                              *)
Build(r, a, c) == /\ table = buildRoutingTable(r, a)
                  /\ names = claudeResolver(r, c)

NamesInit ==
  /\ registry \in Registries
  /\ aliases \in StartAliases
  /\ claudeAliases = <<>>
  /\ Build(registry, aliases, claudeAliases)
  /\ changes = 0

Rebuild == /\ changes < MaxChanges
           /\ changes' = changes + 1
           /\ table' = buildRoutingTable(registry', aliases')
           /\ names' = claudeResolver(registry', claudeAliases')

(* The refinements of AliasesSchema.                                        *)
AliasesSchema(pair) == ~isReservedAnthropicName(pair.alias) /\ ~isReservedAnthropicName(pair.target)

(* A key of an object keeps its place when its value changes.               *)
SetKey(pairs, pair) ==
  IF \E k \in DOMAIN pairs : pairs[k].alias = pair.alias
  THEN [k \in DOMAIN pairs |-> IF pairs[k].alias = pair.alias THEN pair ELSE pairs[k]]
  ELSE Append(pairs, pair)

DeclareAlias(provider, pair) ==
  /\ AliasesSchema(pair)
  /\ aliases' = [aliases EXCEPT ![provider] = SetKey(@, pair)]
  /\ UNCHANGED <<registry, claudeAliases>>
  /\ Rebuild

DropAlias(provider, k) ==
  /\ k \in DOMAIN aliases[provider]
  /\ aliases' = [aliases EXCEPT ![provider] = RemoveAt(@, k)]
  /\ UNCHANGED <<registry, claudeAliases>>
  /\ Rebuild

DeclareClaudeAlias(pair) ==
  /\ validClaudeAlias(registry, pair)
  /\ claudeAliases' = SetKey(claudeAliases, pair)
  /\ UNCHANGED <<registry, aliases>>
  /\ Rebuild

(* A release adds a model, or retires one.  A new registry may refuse an    *)
(* alias that an older one accepted; serve then does not start.             *)
Release(entry) ==
  /\ entry.id \notin Ids(registry)
  /\ registry' = Append(registry, entry)
  /\ \A pair \in ToSet(claudeAliases) : validClaudeAlias(registry', pair)
  /\ UNCHANGED <<aliases, claudeAliases>>
  /\ Rebuild

Retire(i) ==
  /\ i \in DOMAIN registry
  /\ ~registry[i].retired
  /\ registry' = [registry EXCEPT ![i].retired = TRUE]
  /\ UNCHANGED <<aliases, claudeAliases>>
  /\ Rebuild

NamesNext ==
  \/ \E p \in ToSet(Providers), pair \in Pairs(AliasNames, Targets) : DeclareAlias(p, pair)
  \/ \E p \in ToSet(Providers), k \in 1 .. MaxChanges : DropAlias(p, k)
  \/ \E pair \in Pairs(ClaudeAliasNames, ClaudeTargets) : DeclareClaudeAlias(pair)
  \/ \E entry \in NewEntries : Release(entry)
  \/ \E i \in 1 .. Len(registry) : Retire(i)

NamesSpec == NamesInit /\ [][NamesNext]_namesVars

--------------------------------------------------------------------------------
AliasesInUse == {d.alias : d \in ToSet(Bound(aliases))}
DeclaredTargets == {d.target : d \in ToSet(Bound(aliases))}
Resolves(name, model) == resolveModel(table, name) = Resolved(model)

(* No alias, family or target takes over what an id means, bare or          *)
(* qualified, and a contested family is settled by naming its provider.     *)
(* Only an alias spelled with the colon stands before the qualified form.   *)
NamesArePinned ==
  LET winners == selectFamilyWinners(registry)
  IN /\ \A entry \in ToSet(registry) :
          /\ Resolves(entry.id, toResolvedModel(entry))
          /\ \/ Resolves(Qualified(entry.provider, entry.id), toResolvedModel(entry))
             \/ Qualified(entry.provider, entry.id) \in AliasesInUse
     /\ \A key \in DOMAIN winners :
          \/ Resolves(Qualified(key[1], key[2]), toResolvedModel(winners[key]))
          \/ \E d \in ToSet(Bound(aliases)) :
               d.alias = Qualified(key[1], key[2]) \/ (d.alias = key[2] /\ d.provider = key[1])

(* What `subswitch models` lists and `doctor` reports is what a request     *)
(* meets: every name shown routes to the model it is shown for, every bare  *)
(* name that routes is shown, and an agent file is reported exactly when    *)
(* its model does not route.  An alias that has the name of an id is shown  *)
(* although the id keeps the name, and a target outside the registry routes *)
(* by itself although only its alias is shown.                              *)
ShownIsRouted ==
  LET rows == buildAliasRows(registry, aliases)
      models == buildModelRows(registry, aliases)
      listed == {row.alias : row \in rows} \cup Ids(registry)
  IN /\ \A row \in rows :
          \/ row.source = "direct" /\ Resolves(row.canonical, [id |-> row.canonical, provider |-> row.provider])
          \/ row.alias \in Ids(registry)
          \/ Resolves(row.alias, [id |-> row.canonical, provider |-> row.provider])
     /\ Cardinality({row.alias : row \in {r \in rows : r.source # "direct"}})
          = Cardinality({r \in rows : r.source # "direct"})
     /\ \A id \in DOMAIN models : \A a \in models[id].aliases : \E row \in rows :
          row.alias = a /\ row.canonical = id /\ row.enabled = models[id].routable
     /\ \A name \in Names :
          LET resolved == resolveModel(table, name).kind = "resolved"
              finding == checkAgentModels(registry, table, ToSet(Providers), name)
          IN /\ resolved /\ Len(name) = 1 => name \in listed \cup DeclaredTargets
             /\ resolved => ~isReservedAnthropicName(name)
             /\ isReservedAnthropicName(name) \/ (resolved <=> finding \in {"none", "retired", "preview_only"})

(* The reverse leg: canonical ids and alias targets keep their names in     *)
(* both spellings, nothing of OpenAI's is sent to Claude or the reverse,    *)
(* and what Codex is told of a slug is what a request for it gets.  Not so  *)
(* where an alias is called like an id or a target, in either spelling, for *)
(* these keep the name, or is spelled claude:x while x is an alias, too: the*)
(* later of the two stays.                                                  *)
ClaudeNamesHold ==
  LET pinned == CatalogIds \cup {pair.target : pair \in ToSet(claudeAliases)}
      rows == claudeModelRows(registry, claudeAliases)
      slugs == augmentCodexModels(registry, claudeAliases, Ids(registry))
      twice == {pair.alias : pair \in ToSet(claudeAliases)}
      overruled == pinned \cup {ClaudeName(name) : name \in pinned \cup twice}
  IN /\ \A id \in pinned : names[id] = id /\ names[ClaudeName(id)] = id
     /\ \A name \in DOMAIN names :
          /\ Head(names[name]) \in ClaudeWords
          /\ ~isOpenaiModelName(registry, name) /\ ~isOpenaiModelName(registry, names[name])
     /\ \A id \in DOMAIN rows : \A a \in rows[id] : a \in overruled \/ names[a] = id
     /\ \A entry \in slugs : entry.slug \in overruled \/
          /\ names[entry.slug] = entry.id
          /\ \A other \in slugs : other.slug = entry.slug => other = entry
     /\ \A name \in Names : isClaudeModelName(name) =>
          decideCodexRoute(FALSE, resolveName(names, name)).kind # "parent"

(* On either leg a name that is settled stays so, whatever else is declared. *)
NamesHold == NamesArePinned /\ ClaudeNamesHold

(* An edit is local: a name that had a meaning keeps it unless the edit     *)
(* names it.  Declaring or dropping an alias touches the alias, its         *)
(* qualified forms and names that only a declared target had given; a       *)
(* release or a retirement touches the id, its family and what targets them.*)
Spellings(name) == {name} \cup {Qualified(p, name) : p \in ToSet(Providers)}
Forms(set) == UNION {Spellings(name) : name \in set}
Difference(before, after) == (before \ after) \cup (after \ before)

Named(changed, bound, entries) ==
  LET ids == {e.id : e \in entries}
  IN Forms({d.alias : d \in changed} \cup (DeclaredTargets \ Ids(registry))
           \cup ids \cup {e.family : e \in entries}
           \cup {d.alias : d \in {x \in bound : x.target \in ids}})

EditIsLocal ==
  [][\A bound \in {ToSet(Bound(aliases))} :
     \A changed \in {Difference(bound, ToSet(Bound(aliases')))} :
     \A named \in {Named(changed, bound, Difference(ToSet(registry), ToSet(registry')))} :
       \A name \in Names \ named : resolveModel(table, name).kind = "resolved" =>
         resolveModel(table, name) = resolveModel(table', name)]_namesVars
=================================================================================
