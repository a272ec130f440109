\* The uniqueness of user ids against the password files that outlive them.
SPECIFICATION Spec
CONSTANTS
  Lines = {n1}
  Logins = {L1}
  TTYPE = ttype
  Options = {ttype}
  MaxConnections = 1
  Usernames = {bob}
  MaxUsers = 1
  MaxBodies = 2
  MaxForms = 2
  MaxRestarts = 1
PROPERTY PasswordsKept
CHECK_DEADLOCK FALSE
