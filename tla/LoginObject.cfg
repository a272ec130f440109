\* A client of either kind, with a terminal type and one more option to tell.
SPECIFICATION Spec
CONSTANTS
  TTYPE = ttype
  Options = {ttype, naws}
  Login = login
  Client = me
  MaxInitiatives = 2
  TimeoutSecs = 2
  BeatPeriod = 2
  MaxRetries = 6
INVARIANTS AnswersAreNotAnswered NoneOutstays
PROPERTIES Settles Learns SuppressionEnds
\* a login object comes to its end
CHECK_DEADLOCK FALSE
