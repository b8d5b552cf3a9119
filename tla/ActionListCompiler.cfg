CONSTANTS
  CfgChannels    <- MC_CfgChannels
  MaxActions     <- MC_MaxActions
  MaxRepeatCount <- MC_MaxRepeatCount
  MaxCcwBursts   <- MC_MaxCcwBursts
  MaxDdrPairs    <- MC_MaxDdrPairs
  CfgPageSize    <- MC_CfgPageSize
  CcwDataLength  <- MC_CcwDataLength

SPECIFICATION Spec

\* parse_actions_in_operation returns once the last pass is done or a CHECK
\* failed: those states have no successor.
CHECK_DEADLOCK FALSE

INVARIANTS
  TypeOK
  BurstConservation
  SingleActivationRun
  RoundTrip
  HeaderWellFormed
  ConfigBuffersFetched

PROPERTIES
  ImplementsPasses
