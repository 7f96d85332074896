CONSTANTS
  Files <- MCFiles
  Offsets <- MCOffsets
  Values = {v1, v2}
  NULL = NULL
  MaxSize <- MCMaxSize
  BlocksPerMutexAcquisition = 1
  MaxHandSteps = 40
  NumShards = 2
  ShardOf <- MCShardOf
  MaxID = 2
  MaxCacheRefs = 2
  BufSizes = {1, 2}
  ReserveAmounts = {3}
  MaxHandles = 1
SPECIFICATION Spec
SYMMETRY MCSymmetry
VIEW MCView
PROPERTY TeardownFreesAfterUnlock
