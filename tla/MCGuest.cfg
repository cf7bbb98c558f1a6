\* The first process, the agent, builds, layers and the guest's configuration.
CONSTANTS
  Parts = {"console", "agent", "build", "layer", "config"}
  ExitCodes = {0, 10}
  MaxSaid = 2
  MaxLogs = 1
  Conns = {1, 2}
  AgentReqs = {"ping", "exec", "stream", "tty", "kill", "shutdown", "bad"}
  MaxReqs = 1
  MaxChunks = 1
  BuildPrograms <- TwoPrograms
  BuildTrees <- FourTrees
  MaxConnects = 2
  MaxStray = 1
  HostKinds = {"linux", "macos"}
  NetNames = {"n1", "n2"}
  MaxNetworks = 2
  GuestPaths <- NestedPaths
  MaxVolumes = 3
  MaxDataDisks = 2
SPECIFICATION Spec
CHECK_DEADLOCK FALSE
INVARIANTS
  ConsoleTruthful
  AgentSound
  BuildExact
  GuestMeets
PROPERTIES
  GuestAnswers
