CONSTANTS
  Streams = {0, 1}
  Engines = {0, 1, 2}
  ENGINE_SHIFT = 5
  MaxGroup = 3
  SameTypeGroups = TRUE
SPECIFICATION Spec
CHECK_DEADLOCK FALSE
INVARIANTS SerializedAsMeant FailsOnlyOnMissingLayer
