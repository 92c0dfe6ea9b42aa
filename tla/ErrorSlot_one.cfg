\* One plugin instance, three batches of two downloads each: a batch with
\* two failures leaves an unread error in its channel.  An instance stops
\* after its last batch; a batch that never returns violates BatchesReturn.
CONSTANTS
  p1 = p1
  p2 = p2
  p3 = p3
  Instances = {p1}
  D = 2
  MaxBatches = 3

SPECIFICATION Spec
CHECK_DEADLOCK FALSE
INVARIANT ErrorsReported
PROPERTY BatchesReturn
