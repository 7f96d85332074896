CONSTANTS
  Files = {f1, f2}
  Offsets <- MCOffsets
  Values = {v1, v2}
  NULL = NULL
  MaxSize = 2
  BlocksPerMutexAcquisition = 1
  MaxHandSteps = 40
  BufSizes = {1}
  ReserveAmounts = {2}
  MaxHandles = 1
  Threads = {t1}
  SetsAvoidEvictingFiles = FALSE
SPECIFICATION CSpec
VIEW MCView
PROPERTY CallsReturn
