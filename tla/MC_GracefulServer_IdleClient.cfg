\* Clients that may stay connected.
CONSTANTS
  Conns = {c1, c2}
  Keys = {"k"}
  Vals = {"v"}
  Scripts <- MCScripts
  None = None
  ClientsLeave = FALSE
SPECIFICATION Spec
\* os.Exit ends the process: every behaviour that shuts down stops there.
CHECK_DEADLOCK FALSE
PROPERTY ShutdownCompletes
