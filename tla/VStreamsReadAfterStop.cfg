\* One input and one output vstream; every multiplexer, VDevice and event
\* call succeeds: the violation needs no failure.
CONSTANTS
  i1 = i1
  i2 = i2
  o1 = o1
  o2 = o2
  Inputs = {i1}
  Outputs = {o1}
  Failures = FALSE
SPECIFICATION Spec
PROPERTY ReadSucceedsWithFrame
