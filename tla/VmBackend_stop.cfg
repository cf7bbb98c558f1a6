SPECIFICATION Spec
CONSTANTS
  Ids = {i1}
  Names = {n1}
  Clients = {t1}
  Ops = {"create", "run", "start", "stop", "kill", "destroy"}
  MaxCid = 4
  Prompt = TRUE
  None = None
  NoEntry = NoEntry
INVARIANT StopForces
CHECK_DEADLOCK FALSE
