------------------------------ MODULE ModelRouting ------------------------------
(***************************************************************************)
(* Model names of the forward leg: the registry, the aliases of the        *)
(* configuration and the routing table built from them, src/src/models.ts  *)
(* with router.ts and the check of agent files in agent-scan.ts.  All of   *)
(* it is pure; Server holds a table and looks names up.                    *)
(*                                                                         *)
(* A name is the sequence of the words between its colons, so that the     *)
(* qualified form `provider:name` is a concatenation.  A registry is a     *)
(* sequence of entries, the aliases of a provider a sequence of pairs in   *)
(* the order of Object.keys().  A Map is a function with a finite domain.  *)
(***************************************************************************)
EXTENDS FiniteSets, Naturals, Sequences, SequencesExt

CONSTANTS
  Providers,         (* PROVIDER_IDS                                        *)
  ReservedPrefixes,  (* words the prefix arm of ANTHROPIC_NAME_RE matches   *)
  ReservedWords      (* words its word arm matches                          *)

ASSUME ProvidersAssumption ==
  /\ Providers \in Seq(ToSet(Providers)) /\ Len(Providers) > 0 /\ IsInjective(Providers)

NoFamily == <<>>
Qualified(provider, name) == <<provider>> \o name

(* set() of a Map, the same guarded by !has(), and what many such calls make *)
(* of it.                                                                   *)
Put(map, key, value) == [k \in DOMAIN map \cup {key} |-> IF k = key THEN value ELSE map[k]]
PutNew(map, key, value) == IF key \in DOMAIN map THEN map ELSE Put(map, key, value)
Atop(map, below) ==
  [k \in DOMAIN map \cup DOMAIN below |-> IF k \in DOMAIN map THEN map[k] ELSE below[k]]

First(places) == CHOOSE i \in places : \A j \in places : i <= j

(* The prefix arm looks at how a name begins, the word arm at all of it.    *)
isReservedAnthropicName(name) ==
  Head(name) \in ReservedPrefixes \/ (Len(name) = 1 /\ Head(name) \in ReservedWords)

Generation(gen, n) == IF n \in DOMAIN gen THEN gen[n] ELSE 0

(* compareGen(a, b) > 0                                                     *)
Newer(a, b) ==
  \E n \in DOMAIN a \cup DOMAIN b :
    /\ Generation(a, n) > Generation(b, n)
    /\ \A k \in 1 .. n - 1 : Generation(a, k) = Generation(b, k)

toResolvedModel(entry) == [id |-> entry.id, provider |-> entry.provider]

Competes(entry) == entry.family # NoFamily /\ ~entry.preview /\ ~entry.retired

(* Entry i is not displaced by entry j: on a tie the first declared stays.  *)
Withstands(registry, i, j) ==
  IF i <= j THEN ~Newer(registry[j].gen, registry[i].gen)
            ELSE Newer(registry[i].gen, registry[j].gen)

(* Of the models at these places, the newest one.                           *)
Foremost(models, places) == {i \in places : \A j \in places : Withstands(models, i, j)}

Running(registry, key) ==
  {i \in DOMAIN registry :
     Competes(registry[i]) /\ registry[i].provider = key[1] /\ registry[i].family = key[2]}

(* byProvider: the winner of each family of each provider.                  *)
selectFamilyWinners(registry) ==
  [key \in {<<e.provider, e.family>> : e \in {x \in ToSet(registry) : Competes(x)}} |->
     registry[CHOOSE i \in Foremost(registry, Running(registry, key)) : TRUE]]

Families(winners) == {key[2] : key \in DOMAIN winners}

(* claims: who contests a family.                                           *)
Claimants(winners, family) == {p \in ToSet(Providers) : <<p, family>> \in DOMAIN winners}
UniqueFamilies(winners) == {f \in Families(winners) : Cardinality(Claimants(winners, f)) = 1}

(* flattenUniqueFamilies()                                                  *)
flattenUniqueFamilies(winners) ==
  [f \in UniqueFamilies(winners) |-> winners[<<CHOOSE p \in Claimants(winners, f) : TRUE, f>>]]

(* In the order of PROVIDER_IDS, and of the keys below it.                  *)
DeclaredBy(aliases, provider) ==
  [n \in DOMAIN aliases[provider] |->
     [alias |-> aliases[provider][n].alias, target |-> aliases[provider][n].target, provider |-> provider]]
Declarations(aliases) ==
  LET upTo[k \in 0 .. Len(Providers)] ==
        IF k = 0 THEN <<>> ELSE upTo[k - 1] \o DeclaredBy(aliases, Providers[k])
  IN upTo[Len(Providers)]

(* A reserved declaration binds no name; of the others that declare a name  *)
(* only the first does.                                                     *)
Binds(kept, d) ==
  /\ ~isReservedAnthropicName(d.alias) /\ ~isReservedAnthropicName(d.target)
  /\ \A b \in ToSet(kept) : b.alias # d.alias
Bound(aliases) ==
  LET all == Declarations(aliases)
      kept[n \in 0 .. Len(all)] ==
        IF n = 0 THEN <<>> ELSE IF Binds(kept[n - 1], all[n]) THEN Append(kept[n - 1], all[n]) ELSE kept[n - 1]
  IN kept[Len(all)]

Ids(registry) == {entry.id : entry \in ToSet(registry)}
EntryOf(registry, id) == registry[First({i \in DOMAIN registry : registry[i].id = id})]

(* What an alias stands for: a target the registry does not know is taken   *)
(* for a model of the provider that declared it.                            *)
AliasModel(registry, d) ==
  [id |-> d.target,
   provider |-> IF d.target \in Ids(registry) THEN EntryOf(registry, d.target).provider ELSE d.provider]

(* byAlias as the declarations make it.                                     *)
Declared(registry, bound) ==
  [a \in {d.alias : d \in ToSet(bound)} |->
     AliasModel(registry, bound[First({k \in DOMAIN bound : bound[k].alias = a})])]

(* Ids and, of every provider, families; contested ones included.           *)
QualifiedIds(registry) ==
  [q \in {Qualified(e.provider, e.id) : e \in ToSet(registry)} |-> toResolvedModel(EntryOf(registry, Tail(q)))]
QualifiedFamilies(winners) ==
  [q \in {Qualified(key[1], key[2]) : key \in DOMAIN winners} |-> toResolvedModel(winners[<<Head(q), Tail(q)>>])]

(* MUTANT: a qualified alias takes a qualified id over, too.                *)
QualifyAliasAlways(registry, d) == TRUE

(* A qualified alias overrides a family, never an id.                       *)
QualifyAlias(registry, d) == d.alias \notin Ids(registry)

QualifiedAliases(registry, bound) ==
  [q \in {Qualified(d.provider, d.alias) : d \in {x \in ToSet(bound) : QualifyAlias(registry, x)}} |->
     Declared(registry, bound)[Tail(q)]]
QualifiedNames(registry, bound) ==
  Atop(QualifiedAliases(registry, bound),
       Atop(QualifiedIds(registry), QualifiedFamilies(selectFamilyWinners(registry))))

(* Contested families are in it, too.                                       *)
FamilyTable(winners) ==
  [f \in Families(winners) |->
     IF f \in UniqueFamilies(winners)
     THEN [kind |-> "unique", model |-> toResolvedModel(flattenUniqueFamilies(winners)[f])]
     ELSE [kind |-> "ambiguous"]]

(* MUTANT: a target takes the name of a family.                             *)
TargetIsFreeAlways(byAlias, byFamily, byQualified, name) == name \notin DOMAIN byAlias

TargetIsFree(byAlias, byFamily, byQualified, name) ==
  name \notin DOMAIN byAlias \cup DOMAIN byFamily \cup DOMAIN byQualified

(* A declaration of a target that the registry does not know authorizes it. *)
Authorize(registry, t, d) ==
  LET model == AliasModel(registry, d)
      byFamily == FamilyTable(selectFamilyWinners(registry))
  IN IF d.target \in Ids(registry) THEN t
     ELSE [byAlias |-> IF TargetIsFree(t.byAlias, byFamily, t.byQualified, d.target)
                       THEN Put(t.byAlias, d.target, model) ELSE t.byAlias,
           byQualified |-> PutNew(t.byQualified, Qualified(d.provider, d.target), model)]

(* One declaration after the other.                                         *)
Authorizing(registry, bound) ==
  LET after[n \in 0 .. Len(bound)] ==
        IF n = 0
        THEN [byAlias |-> Declared(registry, bound), byQualified |-> QualifiedNames(registry, bound)]
        ELSE Authorize(registry, after[n - 1], bound[n])
  IN after

tableOf(registry, bound) ==
  LET names == Authorizing(registry, bound)[Len(bound)]
  IN [byId |-> [id \in Ids(registry) |-> EntryOf(registry, id).provider],
      byFamily |-> FamilyTable(selectFamilyWinners(registry)),
      byAlias |-> names.byAlias, byQualified |-> names.byQualified]

buildRoutingTable(registry, aliases) == tableOf(registry, Bound(aliases))

Resolved(model) == [kind |-> "resolved", target |-> model]

(* The five rules, in their order.                                          *)
resolveModel(table, name) ==
  IF name \in DOMAIN table.byId THEN Resolved(table.byQualified[Qualified(table.byId[name], name)])
  ELSE IF name \in DOMAIN table.byAlias THEN Resolved(table.byAlias[name])
  ELSE IF Len(name) > 1 THEN
    IF Head(name) \notin ToSet(Providers) THEN [kind |-> "unknown_qualifier"]
    ELSE IF name \in DOMAIN table.byQualified THEN Resolved(table.byQualified[name])
    ELSE [kind |-> "unresolved"]
  ELSE IF name \in DOMAIN table.byFamily THEN
    IF table.byFamily[name].kind = "unique" THEN Resolved(table.byFamily[name].model)
    ELSE [kind |-> "ambiguous"]
  ELSE [kind |-> "unresolved"]

--------------------------------------------------------------------------------
(* What `subswitch models` and `doctor` show.                               *)

Row(alias, model, enabled, source) ==
  [alias |-> alias, canonical |-> model.id, provider |-> model.provider,
   enabled |-> enabled, source |-> source]

ConfigRows(registry, bound) ==
  {Row(d.alias, AliasModel(registry, d),
       d.target \in Ids(registry) => ~EntryOf(registry, d.target).retired, "config") : d \in ToSet(bound)}

(* MUTANT: the family of a name that an alias took is shown, too.           *)
DerivedRowsAll(registry, bound) ==
  LET winner == flattenUniqueFamilies(selectFamilyWinners(registry))
  IN {Row(f, toResolvedModel(winner[f]), TRUE, "derived") : f \in DOMAIN winner}

DerivedRows(registry, bound) ==
  LET winner == flattenUniqueFamilies(selectFamilyWinners(registry))
  IN {Row(f, toResolvedModel(winner[f]), TRUE, "derived") :
        f \in DOMAIN winner \ {d.alias : d \in ToSet(bound)}}

(* One row per alias, and a direct row for each running model without one.  *)
buildAliasRows(registry, aliases) ==
  LET bound == Bound(aliases)
      named == ConfigRows(registry, bound) \cup DerivedRows(registry, bound)
      covered == {row.canonical : row \in named}
  IN named \cup {Row(NoFamily, toResolvedModel(e), TRUE, "direct") :
                   e \in {x \in ToSet(registry) : ~x.retired /\ x.id \notin covered}}

(* One row per entry of the registry, with the names that stand for it.     *)
buildModelRows(registry, aliases) ==
  LET bound == Bound(aliases)
      named == ConfigRows(registry, bound) \cup DerivedRows(registry, bound)
  IN [id \in Ids(registry) |->
        [provider |-> EntryOf(registry, id).provider, routable |-> ~EntryOf(registry, id).retired,
         aliases |-> {row.alias : row \in {x \in named : x.canonical = id}}]]

(* The finding doctor reports for an agent file that names this model.      *)
checkAgentModels(registry, table, configured, name) ==
  LET resolution == resolveModel(table, name)
      known(property) == \E e \in ToSet(registry) : e.id = resolution.target.id /\ property[e.id]
      retired == [id \in Ids(registry) |-> EntryOf(registry, id).retired]
      preview == [id \in Ids(registry) |-> EntryOf(registry, id).preview]
  IN CASE isReservedAnthropicName(name) -> "none"
       [] ~isReservedAnthropicName(name) /\ resolution.kind # "resolved" -> resolution.kind
       [] OTHER -> IF known(retired) THEN "retired"
                   ELSE IF resolution.target.provider \notin configured THEN "provider_unconfigured"
                   ELSE IF known(preview) THEN "preview_only" ELSE "none"
=================================================================================
