\* Two plugin instances pulling at the same time, one download per batch:
\* dlErrChan is one package variable for both.
CONSTANTS
  p1 = p1
  p2 = p2
  p3 = p3
  Instances = {p1, p2}
  D = 1
  MaxBatches = 1

SYMMETRY Sym
SPECIFICATION Spec
CHECK_DEADLOCK FALSE
INVARIANT ErrorsReported
