SPECIFICATION NamesSpec
CONSTANTS
  Providers <- MCProviders
  Words <- MCWords
  ReservedPrefixes <- MCReservedPrefixes
  ReservedWords = {"best"}
  Catalog <- MCCatalog
  ClaudeWords <- MCClaudeWords
  OpenaiWords = {"gpt-x"}
  Registries <- MCRegistries
  StartAliases <- MCStartAliases
  NewEntries <- MCNewEntries
  AliasNames <- MCAliasNames
  Targets <- MCTargets
  ClaudeAliasNames <- MCClaudeAliasNames
  ClaudeTargets <- MCClaudeTargets
  Names <- MCNames
  MaxChanges = 2
INVARIANTS
  NamesHold
  ShownIsRouted
PROPERTIES
  EditIsLocal
CHECK_DEADLOCK FALSE
