CONSTANTS
  NumShards = 2
  N = 3
  Callers = {t1, t2}
SPECIFICATION Spec
\* Every caller's closure returns or the process panics; nothing runs after.
CHECK_DEADLOCK FALSE
INVARIANT ReservationReleasedOnce
