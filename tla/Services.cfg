\* Services, mixins and libraries, one at a time.  The bounds on moves, objects
\* and queries end the runs.
SPECIFICATION MCSpec
CONSTANTS
  Props = {p}
  Objects = {a}
  This = this
  Values = {zero, one}
  Zero = zero
  Absent = absent
  MaxCalls = 2
  ann = ann
  bob = bob
  cup = cup
  hall = hall
  yard = yard
  none = none
  Rooms = {hall, yard}
  Things = {ann, bob, cup}
  Livings = {ann, bob}
  Start <- MCStart
  Nobody = none
  MaxMoves = 2
  MaxSteps = 3
  LoggedZones = {"/platform"}
  LoggedPrograms = {"platform/obj/avatar.c"}
  LoggedLines = {1, 2}
  Euids = {root, acme}
  Uid = acme
  Size = 3
  FirstMax = 2
  NextMax = 2
  MaxQueries = 2
  MaxLines = 2
  MaxTime = 2
  Zones = {"", "/town", "/town/square"}
  Broken = {"/town"}
  ParentOf <- MCParentOf
  NoZone = none
  Programs = {"room", "sql", "login"}
  SQLiteClient = "sql"
  ZoneOf <- MCZoneOf
  Early = {"login"}
  Labels = {"arena"}
  MaxObjects = 4
  MaxInstances = 1
INVARIANTS TablesAgree LastWriteStays MessagesReachTargets
  PlayerIsRestored AllMeet ObjectsHaveTheirProgram ZonesFormATree
  AnswersReachAskers QueriesArriveInOrder JSONRestores ArgumentsAreRead
  LineIsRouted FilesAreFound ObjectsAreFound
CHECK_DEADLOCK FALSE
