\* query_connection() against its documentation, for two clients.
SPECIFICATION Spec
CONSTANTS
  Lines = {line1}
  Logins = {login1}
  Bodies = {body1}
  Options = {ttype}
  TTYPE = ttype
  MaxConnections = 2
INVARIANT InteractivesAreIndexed
CHECK_DEADLOCK FALSE
