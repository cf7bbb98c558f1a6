SPECIFICATION Spec
CONSTANTS
  Ids = {i1, i2}
  Names = {n1, n2}
  Clients = {t1, t2}
  Ops = {"create", "restore", "start", "destroy"}
  MaxCid = 4
  Prompt = FALSE
  None = None
  NoEntry = NoEntry
SYMMETRY Symmetry
CHECK_DEADLOCK FALSE
INVARIANTS
  ForwardOwned
  NamesUnique
