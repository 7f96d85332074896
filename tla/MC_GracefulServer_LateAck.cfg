\* Clients that disconnect in the end.
CONSTANTS
  Conns = {c1, c2}
  Keys = {"k"}
  Vals = {"v"}
  Scripts <- MCScripts
  None = None
  ClientsLeave = TRUE
SPECIFICATION Spec
\* os.Exit ends the process: every behaviour that shuts down stops there.
CHECK_DEADLOCK FALSE
INVARIANT FlushCoversAcknowledged
