\* Two clients that log on, are switched to avatars, negotiate, hang up and
\* come back.
SPECIFICATION Spec
CONSTANTS
  Lines = {n1, n2}
  Logins = {L1, L2}
  Bodies = {b1, b2}
  TTYPE = ttype
  Options = {ttype}
  MaxConnections = 4
SYMMETRY Symmetry
INVARIANTS FollowsExec IndexMatchesLines ClientsNotMixedUp OneIdPerLogin
\* every object is destructed in the end
CHECK_DEADLOCK FALSE
