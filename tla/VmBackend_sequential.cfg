SPECIFICATION FairSpec
CONSTANTS
  Ids = {i1}
  Names = {n1}
  Clients = {t1}
  Ops = {"create", "run", "restore", "start", "stop", "kill", "destroy"}
  MaxCid = 5
  Prompt = TRUE
  None = None
  NoEntry = NoEntry
CHECK_DEADLOCK FALSE
INVARIANTS
  BootTruthful
PROPERTIES
  RequestsSettle
