SPECIFICATION FairSpec
CONSTANTS
  ModuleCount = 3
  Tables <- AllTables
INVARIANTS
  TypeOK
  NamedDependenciesReady
  CallsPairUp
  OrderedTableIsExact
PROPERTIES
  RefinesPolicy
  EntryPointsReturn
