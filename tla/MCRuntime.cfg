SPECIFICATION SystemSpec
CONSTANTS
  ModuleCount = 3
  Tables <- P5Tables
  HookCount = 5
  MaxFrames = 6
  Owner <- P5Owner
  Emits <- SomeEmits
INVARIANTS
  UsableCallsReachTheirFunction
  HandlersAreReady
