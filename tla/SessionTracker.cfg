\* Three sessions (above, below, beside), each served twice over two seconds.
SPECIFICATION Spec
CONSTANTS
  Users = {u1}
  Connections = {c1}
  Avatars = {a1}
  MaxSessions = 3
  MaxConnects = 2
  MaxTime = 2
INVARIANTS Forest Chronicle
PROPERTY LivesSpec
\* the bounds are reached
CHECK_DEADLOCK FALSE
