\* Three Values of one byte each in a 2-byte shard: more entries on the
\* ring at once, and up to four ghosts, than MC_Shard.cfg reaches.
CONSTANTS
  Files = {f1, f2}
  Offsets <- MCOffsets
  Values = {v1, v2, v3}
  NULL = NULL
  MaxSize = 2
  BlocksPerMutexAcquisition = 1
  MaxHandSteps = 40
  BufSizes = {1}
  ReserveAmounts = {2}
  MaxHandles = 1
SPECIFICATION Spec
SYMMETRY MCSymmetry
VIEW MCView
INVARIANT RingsWellFormed
INVARIANT CountsMatchRing
INVARIANT EvictionTerminates
INVARIANT BoundedOvershoot
