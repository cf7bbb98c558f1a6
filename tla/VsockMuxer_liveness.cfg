SPECIFICATION FairSpec
CONSTANTS
  Wrap = 4
  BufSize = 1
  Threshold = 1
  NumPorts = 1
  GuestPorts = {}
  MaxConnections = 1
  StreamBuf = 2
  RxBufs = 1
  RxBufLen = 1
  TxQueue = 2
  GuestAlloc = 2
  GuestThreshold = 1
  SockBuf = 4
  NoConn = NoConn
  Budgets <- TrafficBudgets
CHECK_DEADLOCK FALSE
PROPERTIES
  TrafficFlows
