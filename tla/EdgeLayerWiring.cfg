CONSTANTS
  Engines = {0, 1, 2}
  ChannelsPerDirection = 2
  MAX_CONTEXTS_COUNT = 3
  Programs <- MC_Programs
SPECIFICATION Spec
CHECK_DEADLOCK FALSE
INVARIANTS ChannelsDistinctInContext LeasesReturnedAtContextEnd
