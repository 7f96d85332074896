\* Every kind of Object: an int Object is acknowledged and dropped.
CONSTANTS
  Keys = {k1, k2}
  Objects <- MCObjectsAll
  Floats <- MCFloatsKV
  NotFound = NotFound
  Missing = Missing
  Ok = Ok
  Err = Err
SPECIFICATION Spec
PROPERTY StorageKeepsEveryObject
