CONSTANTS
  c1 = c1
  c2 = c2
  NoOwner = NoOwner
  CoreOps <- MC_CoreOps
SPECIFICATION Spec
INVARIANTS HostResourcesLayered
