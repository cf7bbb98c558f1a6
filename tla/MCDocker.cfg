\* The Docker API: containers, their watchers, exec sessions, conversions; the
\* sessions of the daemon's API.
CONSTANTS
  Parts = {"handlers", "overlap", "unmanaged", "events", "wait", "attach", "exec", "convert", "session"}
  c1 = c1
  c2 = c2
  Absent = Absent
  Nobody = Nobody
  Containers = {c1, c2}
  Named = {c1}
  DockerVms = {1, 2, 3}
  ServiceNames = {"web", "db"}
  Archives = {"a"}
  Slots = {1, 2}
  MaxDockerFaults = 1
  MaxInput = 3
  MaxOutput = 2
  Kibi = 4
  MaxU64 = 200
  MaxU32 = 6
  MaxExtraMib = 12
  DefaultMib = 3
  FloorMib = 2
  Amounts <- MCAmounts
  Routes = {"shell", "raw", "console"}
  MaxLines = 2
  MaxPrinted = 2
  MaxStarts = 2
SPECIFICATION Spec
CHECK_DEADLOCK FALSE
INVARIANTS
  ContainersSound
  StreamsExact
  ConversionsExact
PROPERTIES
  WatchersAnswered
