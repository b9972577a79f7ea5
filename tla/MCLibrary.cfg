SPECIFICATION MCSpec
CONSTANTS
  Type <- Types
  Class <- Classes
  Texts <- AllTexts
  Files <- AllFiles
  HeapSize = 11
  Builds <- AllBuilds
  PatchFiles <- AllPatchFiles
  MaxValueSize = 4
  MaxRuns = 5
  HookCount = 2
  MaxFrames = 6
  Characters <- TheCharacters
  Patterns <- ThePatterns
  MaxLength = 4
  Word = 128
  FloatMax = 256
  ByteValues = {0, 1, 2}
  Memories <- AllMemories
  Sorted <- AllSorted
INVARIANTS
  CallersStateKept
  TextsAgree
  MemoryAgrees
PROPERTIES
  SettingsAsWritten
  LoadEnds
  PatchesKept
  RunsEnd
CHECK_DEADLOCK FALSE
