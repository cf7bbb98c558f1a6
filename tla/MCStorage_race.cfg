SPECIFICATION StorageSpec
CONSTANTS
  Ids = {v1, v2, v3}
  Names = {a, b}
  Pool = TRUE
  MaxRuns = 3
  NoVm = NoVm
  NoName = NoName
  NoId = NoId
  Jobs = {j1, j2}
  MaxWriters = 2
  MaxJobs = 2
  MaxCrashes = 1
  Kinds = {"create", "pull"}
  Callers = {c1, c2}
  MaxSize = 3
  MaxCalls = 4
  MaxBreaks = 2
INVARIANTS BlobsWhole
CHECK_DEADLOCK FALSE
