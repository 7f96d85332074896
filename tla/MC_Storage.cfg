\* Every kind of Object a caller can pass: float arrays, a []int array
\* and an int Object.
CONSTANTS
  Keys = {k1, k2}
  Objects <- MCObjectsAll
  Floats <- MCFloatsKV
  NotFound = NotFound
  Missing = Missing
  Ok = Ok
  Err = Err
SPECIFICATION Spec
INVARIANT TypeOK
PROPERTY StorageImplementsKVStore
