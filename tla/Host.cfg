SPECIFICATION HostSpec
CONSTANTS
  NNodes = 1
  Proc = {p1, p2}
  Interval = 1
  FailureTrip = 1
  LeastInflight = FALSE
  Releases = TRUE
  Probes = TRUE
  MaxTime = 1
  MaxBoxes = 1
  Task = {a, b}
  MaxCalls = 3
  MaxOpen = 3
  Permits = 2
  WarmCap = 1
  Run = {"r1", "r2"}
  Rounds = 2
  MaxMade = 2
  MaxFaults = 1
  Maker = {"m1", "m2"}
  Binder = {"b"}
  Tag = {"s", "t"}
  MaxVer = 2
  Creator = {"c1", "c2"}
  Stopper = {"d1", "d2"}
  MaxRounds = 1
  MaxRuns = 2
  MaxSide = 1
  Control = {"f1", "f2"}
  Exec = {"x"}
  MaxConn = 2
  PoolCap = 1
  MaxOut = 2
SYMMETRY Callers
INVARIANTS HostTypeOK InflightIsReservations RequestsTrue ClientSeesItsOwn PassLeavesNothing
  SnapshotsBacked WorkerAccounted AgentKeepsSession
PROPERTIES TrialsSpacedByCallerClock
