\* The warm pool, the health loop, the VM lifecycles and the terminal.
CONSTANTS
  Parts = {"pool", "health", "worker", "terminal", "form", "feed"}
  Images = {"a", "b"}
  Configured = {"a"}
  PoolTarget <- OneEach
  PoolIds = {1, 2, 3, 4, 5}
  MaxTakes = 2
  MaxWarm = 1
  MaxDrains = 1
  MaxPoolFails = 1
  HealthVms = {"h1", "h2"}
  Threshold = 2
  MaxFailures = 3
  MaxHealthBoots = 2
  Modes = {"worker", "thread"}
  TermVms = {"u", "v"}
  MaxChanges = 1
  MaxKeys = 3
  MaxAhead = 2
  Widths = {1, 2}
  ImagePresets = 2
  MemoryPresets = 2
  MaxTyped = 2
  MaxEvents = 3
  MaxFeed = 2
  MaxDrops = 1
SPECIFICATION Spec
CHECK_DEADLOCK FALSE
INVARIANTS
  PoolSound
  WatchersTruthful
  TerminalSound
PROPERTIES
  ScreenHonest
  ServicesSettle
