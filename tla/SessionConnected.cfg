\* is_connected() against its documentation.
SPECIFICATION Spec
CONSTANTS
  Users = {u1}
  Connections = {c1}
  Avatars = {a1}
  MaxSessions = 1
  MaxConnects = 1
  MaxTime = 2
INVARIANT ConnectedIsReported
CHECK_DEADLOCK FALSE
