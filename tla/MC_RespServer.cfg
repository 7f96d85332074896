CONSTANTS
  Scripts <- MCScripts
  NoResp = NoResp
SPECIFICATION Spec
\* handleConnection returns once the connection is closed; the client may
\* stop sending and stay connected, leaving the handler blocked in a read.
CHECK_DEADLOCK FALSE
INVARIANT RespTypeOK
PROPERTY ClosedConnectionEnds
