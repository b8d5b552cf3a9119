CONSTANTS
  Engines = {0, 1, 2}
  ChannelsPerDirection = 1
  MAX_CONTEXTS_COUNT = 3
  Programs <- MC_ProgramsEngine0
SPECIFICATION Spec
CHECK_DEADLOCK FALSE
INVARIANTS ChannelsOnLayerEngine
