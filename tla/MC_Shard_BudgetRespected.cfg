CONSTANTS
  Files = {f1, f2}
  Offsets <- MCOffsets
  Values = {v1, v2}
  NULL = NULL
  MaxSize = 3
  BlocksPerMutexAcquisition = 1
  MaxHandSteps = 40
  BufSizes = {1, 2}
  ReserveAmounts = {2}
  MaxHandles = 1
SPECIFICATION Spec
SYMMETRY MCSymmetry
VIEW MCView
INVARIANT BudgetRespected
