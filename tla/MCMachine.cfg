\* The machine: devices, transports, boot, CPU loop, snapshots, migration.
CONSTANTS
  MachineParts = {"virtio", "fs", "serial", "bucket", "pci", "vcpu", "boot", "snap", "mig"}
  DeviceKinds = {"block", "fs", "rng", "tx", "rx", "balloon"}
  QSize = 2
  Wrap = 4
  MaxFrames = 2
  Levels = {TRUE, FALSE}
  FsNames = {"a", "b", "c"}
  MaxHandles = 2
  MaxChanges = 1
  Fits = {1, 2}
  FifoSize = 2
  MaxBytes = 4
  Unit = 3
  Buckets = {"iops", "bytes"}
  Rates = {1, 2}
  Sizes = {2}
  MaxTime = 10
  Slots = {0}
  MaxSlots = 2
  Vectors = {1, 33, 512}
  BarWrites = {0, 40, 16777215}
  CtlWrites = {63, 128, 192}
  Hosts = {"hvf", "kvm"}
  Sources = {s1, s2}
  Xs = {0, 1}
  MaxPc = 2
  Arches = {"x86_64", "aarch64"}
  MemoryMiB = {32, 128, 4096}
  KernelFrom = {0, 4194304}
  KernelMiB = {8, 125}
  CmdlineLens = {200, 2048, 2049}
  MaxDisks = 2
  MaxNets = 2
  MaxShares = 2
  Machines = {v1, v2, v3}
  MaxCrashes = 1
  NPages = 3
  MaxWrites = 3
  MaxRounds = 3
  Threshold = 2
  Intervals = {0, 1, 2}
SPECIFICATION MachineSpec
CHECK_DEADLOCK FALSE
INVARIANTS
  QueueExact
  DevicesSound
  RateBound
  VcpuExact
  BootSound
  BundleSound
  MigrationExact
PROPERTIES
  KeepsPromise
  MachineRuns
