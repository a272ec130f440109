\* Two clients that register, fail half-way, try again, are lost.
SPECIFICATION Spec
CONSTANTS
  Lines = {n1, n2}
  Logins = {L1, L2}
  TTYPE = ttype
  Options = {ttype}
  MaxConnections = 3
  Usernames = {bob}
  MaxUsers = 2
  MaxBodies = 4
  MaxForms = 2
  MaxRestarts = 1
SYMMETRY Symmetry
INVARIANTS LinesReachSessions RunningFromTheTop MastersMatch AccountsAgree
PROPERTY OrphansStayOrphans
\* every client is lost in the end
CHECK_DEADLOCK FALSE
