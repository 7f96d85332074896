CONSTANTS
  Files = {f1, f2}
  Offsets <- MCOffsets
  Values = {v1, v2}
  NULL = NULL
  MaxSize = 3
  BlocksPerMutexAcquisition = 1
  MaxHandSteps = 40
  BufSizes = {1, 2}
  ReserveAmounts = {2}
  MaxHandles = 1
  Threads = {t1, t2}
  SetsAvoidEvictingFiles = FALSE
SPECIFICATION CSpec
VIEW MCView
SYMMETRY MCSymmetry
INVARIANT CTypeOK
INVARIANT RefsAccountedForConcurrent
INVARIANT CountsMatchRing
INVARIANT EvictFileRemovesFile
