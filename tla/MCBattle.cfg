SPECIFICATION Spec
CONSTANTS
  Args = {2, 11}
  Configs <- SomeConfigs
  MaxFoes = 2
INVARIANTS
  EncounterEnds
PROPERTIES
  ContactMusic
  RoundsInOrder
  PreventedWhereAsked
  OverWhenAllAreDown
