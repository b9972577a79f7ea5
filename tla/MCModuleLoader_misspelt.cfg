SPECIFICATION Spec
CONSTANTS
  ModuleCount = 3
  Tables <- MisspeltTable
INVARIANT
  DependenciesReady
