SPECIFICATION Spec
CONSTANTS
  Wrap = 4
  BufSize = 2
  Threshold = 1
  NumPorts = 2
  GuestPorts = {7}
  MaxConnections = 2
  StreamBuf = 2
  RxBufs = 2
  RxBufLen = 2
  TxQueue = 2
  GuestAlloc = 2
  GuestThreshold = 1
  SockBuf = 4
  NoConn = NoConn
  Budgets <- SafetyBudgets
CHECK_DEADLOCK FALSE
INVARIANTS
  CreditRespected
  PortsHeld
