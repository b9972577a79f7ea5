SPECIFICATION Spec
CONSTANTS
  ModuleCount = 3
  Tables <- ReadmeTable
INVARIANT
  RefusedForCause
