\* HEFs of up to two network groups with up to two partial network groups
\* each, over two cluster layouts; no device call fails: the violation
\* needs none.
CONSTANTS
  MaxGroups = 2
  MaxPartials = 2
  Bitmaps = {1, 2}
  Failures = FALSE
  NetworkGroups <- MC_NetworkGroups
SPECIFICATION Spec
\* add_hef returns, or fails, after its last iteration.
CHECK_DEADLOCK FALSE
INVARIANT ConfiguresEachHefGroup
