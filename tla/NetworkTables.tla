---------------------------- MODULE NetworkTables ----------------------------
(***************************************************************************)
(* The tables of the daemon's network layer, each a set of maps that must  *)
(* agree: DnsRegistry (net/dns.rs), NetworkManager (api/routes/            *)
(* networks.rs) and VirtualSwitch (net/switch.rs); then SubnetAllocator    *)
(* (net/ip_alloc.rs).  Every operation runs under its table's lock, so it  *)
(* is one step.                                                            *)
(***************************************************************************)
EXTENDS Integers, Sequences, FiniteSets, Functions

CONSTANTS Names,       \* host and service names, already lower case
          Addrs,       \* IPv4 addresses
          NetIds,      \* identifiers create() may draw
          NetNames,    \* network names
          Machines,    \* VM identifiers
          Macs,        \* MAC addresses
          SubnetCount  \* 256: the automatic subnets a u8 index can name

ASSUME TableAssumption == SubnetCount \in Nat \ {0}

VARIABLES dnsForward, dnsReverse,            \* DnsRegistry
          nets, nameIndex, subnetIndex,      \* NetworkManager
          autoCreated,                       \* automatic subnets drawn so far
          macTable, ipTable, vmTable         \* VirtualSwitch

dnsVars == <<dnsForward, dnsReverse>>
netVars == <<nets, nameIndex, subnetIndex, autoCreated>>
switchVars == <<macTable, ipTable, vmTable>>
tableVars == <<dnsVars, netVars, switchVars>>

Empty == << >>
Drop(f, k) == Restrict(f, DOMAIN f \ {k})
Put(f, k, v) == [x \in DOMAIN f \union {k} |-> IF x = k THEN v ELSE f[x]]

TablesInit ==
  /\ dnsForward = Empty /\ dnsReverse = Empty
  /\ nets = Empty /\ nameIndex = Empty /\ subnetIndex = 0 /\ autoCreated = 0
  /\ macTable = Empty /\ ipTable = Empty /\ vmTable = Empty

----------------------------------------------------------------------------
(* DnsRegistry *)

Register(name, ip) ==
  /\ dnsForward' = Put(dnsForward, name, ip)
  /\ dnsReverse' = Put(IF name \in DOMAIN dnsForward THEN Drop(dnsReverse, dnsForward[name])
                       ELSE dnsReverse, ip, name)

Unregister(name) ==
  IF name \in DOMAIN dnsForward
  THEN dnsForward' = Drop(dnsForward, name) /\ dnsReverse' = Drop(dnsReverse, dnsForward[name])
  ELSE UNCHANGED dnsVars

Resolve(name) == IF name \in DOMAIN dnsForward THEN {dnsForward[name]} ELSE {}
ReverseLookup(ip) == IF ip \in DOMAIN dnsReverse THEN {dnsReverse[ip]} ELSE {}

(* DnsHandler::handle_request: names of the .visor domain from the         *)
(* registry, the rest from the upstream resolver.                          *)
Answer(isQuery, hasQuestion, local, name, upstream) ==
  CASE ~isQuery -> "Refused"
    [] isQuery /\ ~hasQuestion -> "FormErr"
    [] isQuery /\ hasQuestion /\ local -> IF Resolve(name) = {} THEN "NXDomain" ELSE "NoError"
    [] OTHER -> IF upstream THEN "NoError" ELSE "NXDomain"

----------------------------------------------------------------------------
(* NetworkManager.  A network is created with an explicit subnet or draws  *)
(* the next automatic one, whose index wraps.                              *)

Network(name, subnet) == [name |-> name, subnet |-> subnet, vms |-> {}]

CreateNetwork(id, name, explicit) ==
  /\ name \notin DOMAIN nameIndex /\ id \notin DOMAIN nets
  /\ nets' = Put(nets, id, Network(name, IF explicit THEN SubnetCount ELSE subnetIndex))
  /\ nameIndex' = Put(nameIndex, name, id)
  /\ subnetIndex' = IF explicit THEN subnetIndex ELSE (subnetIndex + 1) % SubnetCount
  /\ autoCreated' = IF explicit THEN autoCreated ELSE autoCreated + 1

DeleteNetworkKeepsName(id) ==
  /\ id \in DOMAIN nets
  /\ nets' = Drop(nets, id)
  /\ UNCHANGED <<nameIndex, subnetIndex, autoCreated>>

DeleteNetwork(id) ==
  /\ id \in DOMAIN nets
  /\ nets' = Drop(nets, id)
  /\ nameIndex' = Drop(nameIndex, nets[id].name)
  /\ UNCHANGED <<subnetIndex, autoCreated>>

ConnectVm(id, vm) ==
  /\ id \in DOMAIN nets
  /\ nets' = [nets EXCEPT ![id].vms = @ \union {vm}]
  /\ UNCHANGED <<nameIndex, subnetIndex, autoCreated>>

DisconnectVm(id, vm) ==
  /\ id \in DOMAIN nets
  /\ nets' = [nets EXCEPT ![id].vms = @ \ {vm}]
  /\ UNCHANGED <<nameIndex, subnetIndex, autoCreated>>

----------------------------------------------------------------------------
(* VirtualSwitch *)

RegisterPort(vm, mac, ip) ==
  /\ mac \notin DOMAIN macTable /\ ip \notin DOMAIN ipTable
  /\ macTable' = Put(macTable, mac, [vm |-> vm, ip |-> ip])
  /\ ipTable' = Put(ipTable, ip, mac)
  /\ vmTable' = Put(vmTable, vm, mac)

UnregisterPort(mac) ==
  /\ mac \in DOMAIN macTable
  /\ macTable' = Drop(macTable, mac)
  /\ ipTable' = Drop(ipTable, macTable[mac].ip)
  /\ vmTable' = Drop(vmTable, macTable[mac].vm)

----------------------------------------------------------------------------
DnsStep ==
  /\ \/ \E n \in Names, ip \in Addrs : Register(n, ip)
     \/ \E n \in Names : Unregister(n)
  /\ UNCHANGED <<netVars, switchVars>>

NetworkStep ==
  /\ \/ \E id \in NetIds, n \in NetNames, e \in BOOLEAN :
          autoCreated <= SubnetCount /\ CreateNetwork(id, n, e)
     \/ \E id \in NetIds : DeleteNetwork(id)
     \/ \E id \in NetIds, vm \in Machines : ConnectVm(id, vm) \/ DisconnectVm(id, vm)
  /\ UNCHANGED <<dnsVars, switchVars>>

SwitchStep ==
  /\ \/ \E vm \in Machines, mac \in Macs, ip \in Addrs : RegisterPort(vm, mac, ip)
     \/ \E mac \in Macs : UnregisterPort(mac)
  /\ UNCHANGED <<dnsVars, netVars>>

TablesNext == DnsStep \/ NetworkStep \/ SwitchStep

TablesSpec == TablesInit /\ [][TablesNext]_tableVars

----------------------------------------------------------------------------
(* A reverse lookup never contradicts the forward map: the name it returns *)
(* resolves to the very address asked for, however names moved between     *)
(* addresses or shared one.                                                *)
ReverseSound ==
  \A ip \in Addrs, n \in Names : n \in ReverseLookup(ip) => Resolve(n) = {ip}

(* The name index and the networks name each other: no name is blocked by  *)
(* a network that is gone, and no two networks have one name.              *)
NamesIndexed ==
  /\ \A n \in DOMAIN nameIndex : nameIndex[n] \in DOMAIN nets /\ nets[nameIndex[n]].name = n
  /\ \A id \in DOMAIN nets : nets[id].name \in DOMAIN nameIndex /\ nameIndex[nets[id].name] = id

(* Two networks with automatic subnets never overlap until the one-byte    *)
(* index has wrapped.                                                      *)
SubnetsDistinct ==
  autoCreated <= SubnetCount =>
    \A i, j \in DOMAIN nets : (i # j /\ nets[i].subnet < SubnetCount) => nets[i].subnet # nets[j].subnet

(* The switch's address table and port table are inverse to each other,    *)
(* and a VM's entry leads to a port of that VM.                            *)
PortsAgree ==
  /\ \A ip \in DOMAIN ipTable : ipTable[ip] \in DOMAIN macTable /\ macTable[ipTable[ip]].ip = ip
  /\ \A mac \in DOMAIN macTable : macTable[mac].ip \in DOMAIN ipTable /\ ipTable[macTable[mac].ip] = mac
  /\ \A vm \in DOMAIN vmTable : vmTable[vm] \in DOMAIN macTable /\ macTable[vmTable[vm]].vm = vm

(* The tables of the network layer that describe one thing twice agree:      *)
(* names and reverse names, networks and their names, subnets, and switch    *)
(* ports by address, by name and by VM.                                      *)
TablesAgree ==
  ReverseSound /\ NamesIndexed /\ SubnetsDistinct /\ PortsAgree

----------------------------------------------------------------------------
(* SubnetAllocator (net/ip_alloc.rs): host offsets of one subnet, handed    *)
(* out in cyclic order from a cursor and taken back.  Offset 0 is the       *)
(* network, 1 the gateway, the last one the broadcast.                      *)
CONSTANT HostCount      \* 1 << (32 - prefix)

(* A prefix of 1 to 30 leaves at least four offsets. *)
ASSUME HostCountAssumption == HostCount \in Nat /\ HostCount >= 4

VARIABLES allocated,      \* AllocState.allocated
          nextCandidate   \* AllocState.next_candidate

ipVars == <<allocated, nextCandidate>>

Broadcast == HostCount - 1
Usable == 2..(Broadcast - 1)

IpInit == allocated = {} /\ nextCandidate = 2

(* The offset after o: past the end the scan wraps to 2. *)
Successor(o) == IF o + 1 >= HostCount THEN 2 ELSE o + 1

(* How far the scan of allocate() walks from the cursor to reach o. *)
Distance(o) == IF o >= nextCandidate THEN o - nextCandidate
               ELSE o - nextCandidate + HostCount

(* The scan stops at the first usable offset that is free. *)
FirstFree(o) ==
  /\ o \in Usable \ allocated
  /\ \A p \in Usable \ allocated : Distance(o) <= Distance(p)

Allocate(o) ==
  /\ FirstFree(o)
  /\ allocated' = allocated \union {o}
  /\ nextCandidate' = Successor(o)

Exhausted == Usable \subseteq allocated

(* release() of an offset of the subnet; the others are refused. *)
ReleaseKeepsCursor(o) ==
  /\ o \notin {0, 1, Broadcast} /\ o \in allocated
  /\ allocated' = allocated \ {o}
  /\ UNCHANGED nextCandidate

Release(o) ==
  /\ o \notin {0, 1, Broadcast} /\ o \in allocated
  /\ allocated' = allocated \ {o}
  /\ nextCandidate' = IF o < nextCandidate THEN o ELSE nextCandidate

IpNext == \E o \in 0..Broadcast : Allocate(o) \/ Release(o)

IpSpec == IpInit /\ [][IpNext]_ipVars

----------------------------------------------------------------------------
(* Only usable offsets are ever handed out (never the network, gateway or  *)
(* broadcast address), the cursor stays where the scan may start, and      *)
(* every offset it has passed is taken: release() moves it back, so        *)
(* allocate() always returns the lowest free address.                      *)
IpInv == /\ allocated \subseteq Usable /\ nextCandidate \in 2..Broadcast
         /\ 2..(nextCandidate - 1) \subseteq allocated

(* The loop of allocate(), walked offset by offset from the cursor until   *)
(* it finds a free one or is back at its start, returns exactly the offset *)
(* Allocate takes, and gives up exactly when every usable one is taken.    *)
ScanFinds ==
  LET At[k \in 0..HostCount] == IF k = 0 THEN nextCandidate ELSE Successor(At[k - 1])
      Free(k) == At[k] \in Usable \ allocated
      Stops(k) == Free(k) /\ \A j \in 0..(k - 1) : ~Free(j) /\ (j > 0 => At[j] # At[0])
  IN  /\ \A o \in 0..Broadcast : FirstFree(o) <=> \E k \in 0..HostCount : Stops(k) /\ At[k] = o
      /\ Exhausted <=> ~ \E k \in 0..HostCount : Stops(k)

(* No address is handed out twice: allocate() returns an offset no one     *)
(* holds, and only a release ever gives one up.                            *)
IpFresh ==
  [][/\ \A o \in Usable : Allocate(o) => o \notin allocated /\ o \in allocated'
     /\ \A o \in allocated : o \notin allocated' => Release(o)]_ipVars
=============================================================================
