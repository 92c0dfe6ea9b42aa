\* Three plugin instances pulling at the same time, one download per batch:
\* a goroutine blocked on a channel that dlErrChan no longer names is never
\* released.  No symmetry: the property is a liveness property.
CONSTANTS
  p1 = p1
  p2 = p2
  p3 = p3
  Instances = {p1, p2, p3}
  D = 1
  MaxBatches = 1

SPECIFICATION Spec
CHECK_DEADLOCK FALSE
PROPERTY BatchesReturn
