\* The same vstreams, with every multiplexer, VDevice and event call
\* allowed to fail.
CONSTANTS
  i1 = i1
  i2 = i2
  o1 = o1
  o2 = o2
  Inputs <- MC_Inputs
  Outputs <- MC_Outputs
  Failures = TRUE
SYMMETRY VStreamSymmetry
SPECIFICATION Spec
PROPERTIES ResumeLeavesStreamWritable
