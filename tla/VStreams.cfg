\* Two input and two output vstreams, so that clear() runs its loops over
\* vectors of two.  Every multiplexer, VDevice and event call
\* succeeds.
CONSTANTS
  i1 = i1
  i2 = i2
  o1 = o1
  o2 = o2
  Inputs <- MC_Inputs
  Outputs <- MC_Outputs
  Failures = FALSE
SYMMETRY VStreamSymmetry
SPECIFICATION Spec
INVARIANTS TypeOK StreamAbortStateConsistent ShutdownWhileStopped
