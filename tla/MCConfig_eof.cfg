SPECIFICATION Spec
CONSTANTS
  Type <- Types
  Class <- Classes
  Texts <- AllTexts
  Files <- ToggleAtEnd
  HeapSize = 11
INVARIANT
  LoadedAsWrittenAnyEnding
