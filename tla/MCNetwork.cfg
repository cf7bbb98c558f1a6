\* The network layer, part by part.
CONSTANTS
  Parts = {"host", "dns", "networks", "switch", "addresses", "compose", "ports", "ring"}
  Guests = {"g1", "g2", "p1", "p2"}
  OnBridge = {"g1", "g2"}
  Populations <- GuestPopulations
  MaxFaults = 1
  MaxForward = 2
  Kinds = {"drop", "out", "in", "supernet"}
  Names = {1, 2, 3}
  Addrs = {2, 3, 4}
  NetIds = {"i", "j", "k"}
  NetNames = {"m", "n"}
  Machines = {1, 2}
  Macs = {"p", "q", "r"}
  SubnetCount = 3
  HostCount = 8
  Services = {1, 2, 3}
  Missing = 9
  ProjectNet = "m"
  MaxUps = 2
  Publishers = {"v", "w"}
  Plans <- PortPlans
  MaxPfFaults = 2
  Capacity = 10
  MaxPacket = 3
  BufLen = 3
  MaxSends = 5
  Skip = Skip
SPECIFICATION Spec
CHECK_DEADLOCK FALSE
INVARIANTS
  TablesAgree
  IpInv
  ProjectOrdered
  PortsExact
PROPERTIES
  HostSound
  RingDelivers
  ImplementsFifo
