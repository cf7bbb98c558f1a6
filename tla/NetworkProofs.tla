--------------------------- MODULE NetworkProofs ---------------------------
(***************************************************************************)
(* The network layer, for every value of its constants: the subnet         *)
(* allocator and the tables of networks, leases and names, and the ring    *)
(* through which two VMs pass packets.                                     *)
(***************************************************************************)
EXTENDS NetworkTables, SharedRing, Integers, TLAPS

----------------------------------------------------------------------------
(* Addresses and tables, for every subnet size and every set of names,     *)
(* addresses, networks and machines.  SubnetAllocator: the invariant is    *)
(* inductive as it stands, and the step property follows from the guards   *)
(* under it.  The tables of NetworkTables: the invariant adds what the     *)
(* automatic subnets drawn so far are.                                     *)


(* The cursor after an allocation is a place the scan may start at: at the *)
(* broadcast address at most, where the next scan wraps.                   *)
LEMMA SuccessorInRange == \A o \in Usable : Successor(o) = o + 1 /\ o + 1 \in 2..Broadcast
BY HostCountAssumption DEF Successor, Usable, Broadcast

(* While nothing below the cursor is free, the first free offset of the    *)
(* scan lies at or above the cursor and everything below it is taken.      *)
LEMMA FirstFreeIsLowest ==
  ASSUME IpInv, NEW o \in Usable, FirstFree(o)
  PROVE  2..(o - 1) \subseteq allocated
<1>1. ASSUME NEW p \in 2..(o - 1), p \notin allocated PROVE FALSE
  <2>1. p \in Usable /\ p \in Int /\ o \in Int /\ p < o /\ nextCandidate \in Int /\ HostCount \in Int
    BY <1>1, HostCountAssumption DEF Usable, Broadcast, IpInv
  <2>2. p >= nextCandidate
    BY <1>1, <2>1 DEF IpInv
  <2>3. Distance(o) <= Distance(p)
    BY <1>1, <2>1 DEF FirstFree
  <2> QED BY <2>1, <2>2, <2>3 DEF Distance
<1> QED BY <1>1

(* allocate() and release() keep every handed-out offset usable, the       *)
(* cursor in range and everything below it taken, for every subnet size.   *)
THEOREM IpInvariant == IpSpec => []IpInv
<1>1. IpInit => IpInv
  BY HostCountAssumption DEF IpInit, IpInv, Broadcast
<1>2. IpInv /\ [IpNext]_ipVars => IpInv'
  <2> SUFFICES ASSUME IpInv, [IpNext]_ipVars PROVE IpInv'
    OBVIOUS
  <2>1. CASE UNCHANGED ipVars
    BY <2>1 DEF IpInv, ipVars
  <2>2. ASSUME NEW o \in 0..Broadcast, Allocate(o) PROVE IpInv'
    <3>1. o \in Usable /\ FirstFree(o)
      BY <2>2 DEF Allocate, FirstFree
    <3>2. Successor(o) = o + 1 /\ o + 1 \in 2..Broadcast
      BY <3>1, SuccessorInRange
    <3>3. 2..(o - 1) \subseteq allocated
      BY <3>1, FirstFreeIsLowest
    <3>4. 2..(nextCandidate' - 1) \subseteq allocated'
      BY <2>2, <3>2, <3>3, HostCountAssumption DEF Allocate, Broadcast
    <3> QED BY <2>2, <3>1, <3>2, <3>4 DEF Allocate, IpInv
  <2>3. ASSUME NEW o \in 0..Broadcast, Release(o) PROVE IpInv'
    <3>1. o \in Usable
      BY <2>3 DEF Release, IpInv
    <3>2. o \in 2..Broadcast
      BY <3>1, HostCountAssumption DEF Usable, Broadcast
    <3>3. 2..(nextCandidate' - 1) \subseteq allocated'
      BY <2>3, <3>2, HostCountAssumption DEF Release, IpInv, Broadcast
    <3> QED BY <2>3, <3>2, <3>3 DEF Release, IpInv
  <2> QED BY <2>1, <2>2, <2>3 DEF IpNext
<1> QED BY <1>1, <1>2, PTL DEF IpSpec

(* No step hands out an address that is in use, and none takes one back    *)
(* but release().                                                          *)
THEOREM IpNeverDoubled == IpSpec => IpFresh
<1>1. [IpNext]_ipVars =>
        [/\ \A o \in Usable : Allocate(o) => o \notin allocated /\ o \in allocated'
         /\ \A o \in allocated : o \notin allocated' => Release(o)]_ipVars
  <2> SUFFICES ASSUME IpNext
               PROVE  /\ \A o \in Usable : Allocate(o) => o \notin allocated /\ o \in allocated'
                      /\ \A o \in allocated : o \notin allocated' => Release(o)
    OBVIOUS
  <2>1. \A o \in Usable : Allocate(o) => o \notin allocated /\ o \in allocated'
    BY DEF Allocate, FirstFree
  <2>2. ASSUME NEW o \in allocated, o \notin allocated' PROVE Release(o)
    <3>1. PICK p \in 0..Broadcast : Allocate(p) \/ Release(p)
      BY DEF IpNext
    <3>2. ~Allocate(p)
      BY <2>2 DEF Allocate
    <3>3. p = o
      BY <2>2, <3>1, <3>2 DEF Release
    <3> QED BY <3>1, <3>2, <3>3
  <2> QED BY <2>1, <2>2
<1> QED BY <1>1, PTL DEF IpSpec, IpFresh
----------------------------------------------------------------------------
(* The tables of the network layer.  A table is a function whose domain     *)
(* grows by Put and shrinks by Drop.                                        *)

(* DnsRegistry: the reverse map leads back, whatever the forward map holds. *)
DnsInv ==
  \A ip \in DOMAIN dnsReverse :
    dnsReverse[ip] \in DOMAIN dnsForward /\ dnsForward[dnsReverse[ip]] = ip

(* A name takes an address; its old one loses its reverse entry. *)
LEMMA RegisterInv ==
  ASSUME DnsInv, NEW name, NEW ip, Register(name, ip)
  PROVE  DnsInv'
<1>1. PICK old : /\ old = (IF name \in DOMAIN dnsForward THEN Drop(dnsReverse, dnsForward[name])
                           ELSE dnsReverse)
                 /\ dnsForward' = Put(dnsForward, name, ip)
                 /\ dnsReverse' = Put(old, ip, name)
  BY DEF Register
<1>2. /\ \A a \in DOMAIN old : a \in DOMAIN dnsReverse /\ old[a] = dnsReverse[a]
      /\ name \in DOMAIN dnsForward => dnsForward[name] \notin DOMAIN old
  BY <1>1 DEF Drop, Restrict
<1>3. /\ DOMAIN dnsForward' = DOMAIN dnsForward \union {name} /\ dnsForward'[name] = ip
      /\ \A x \in DOMAIN dnsForward : x # name => dnsForward'[x] = dnsForward[x]
  BY <1>1 DEF Put
<1>4. /\ DOMAIN dnsReverse' = DOMAIN old \union {ip} /\ dnsReverse'[ip] = name
      /\ \A x \in DOMAIN old : x # ip => dnsReverse'[x] = old[x]
  BY <1>1 DEF Put
<1>5. ASSUME NEW a \in DOMAIN old
      PROVE  old[a] \in DOMAIN dnsForward /\ dnsForward[old[a]] = a /\ old[a] # name
  <2>1. a \in DOMAIN dnsReverse /\ old[a] = dnsReverse[a]
    BY <1>2
  <2>2. old[a] \in DOMAIN dnsForward /\ dnsForward[old[a]] = a
    BY <2>1 DEF DnsInv
  <2> QED
    BY <1>2, <2>2
<1>6. ASSUME NEW a \in DOMAIN dnsReverse'
      PROVE  dnsReverse'[a] \in DOMAIN dnsForward' /\ dnsForward'[dnsReverse'[a]] = a
  BY <1>3, <1>4, <1>5
<1> QED
  BY <1>6 DEF DnsInv

(* A name leaves with the reverse entry of its address. *)
LEMMA UnregisterInv ==
  ASSUME DnsInv, NEW name, Unregister(name)
  PROVE  DnsInv'
<1>1. CASE name \notin DOMAIN dnsForward
  BY <1>1 DEF Unregister, dnsVars, DnsInv
<1>2. CASE name \in DOMAIN dnsForward
  <2>1. /\ DOMAIN dnsForward' = DOMAIN dnsForward \ {name}
        /\ \A x \in DOMAIN dnsForward : x # name => dnsForward'[x] = dnsForward[x]
        /\ DOMAIN dnsReverse' = DOMAIN dnsReverse \ {dnsForward[name]}
        /\ \A x \in DOMAIN dnsReverse : x # dnsForward[name] => dnsReverse'[x] = dnsReverse[x]
    BY <1>2 DEF Unregister, Drop, Restrict
  <2>2. ASSUME NEW a \in DOMAIN dnsReverse'
        PROVE  dnsReverse'[a] \in DOMAIN dnsForward' /\ dnsForward'[dnsReverse'[a]] = a
    <3>1. a \in DOMAIN dnsReverse /\ a # dnsForward[name] /\ dnsReverse'[a] = dnsReverse[a]
      BY <2>1, <2>2
    <3>2. dnsReverse[a] \in DOMAIN dnsForward /\ dnsForward[dnsReverse[a]] = a /\ dnsReverse[a] # name
      BY <3>1 DEF DnsInv
    <3> QED
      BY <2>1, <3>1, <3>2
  <2> QED
    BY <2>2 DEF DnsInv
<1> QED
  BY <1>1, <1>2

(* NetworkManager: the index of names is the inverse of the networks' names *)
(* and, until the one-byte index has wrapped, an automatic subnet in use    *)
(* is one that was drawn, and drawn once.                                   *)
NetInv ==
  /\ NamesIndexed /\ SubnetsDistinct
  /\ autoCreated \in Nat /\ subnetIndex \in Nat
  /\ autoCreated < SubnetCount => subnetIndex = autoCreated
  /\ \A i \in DOMAIN nets :
       /\ nets[i] = [name |-> nets[i].name, subnet |-> nets[i].subnet, vms |-> nets[i].vms]
       /\ nets[i].subnet \in Nat
       /\ autoCreated <= SubnetCount /\ nets[i].subnet < SubnetCount => nets[i].subnet < autoCreated

(* A new network takes a free name and the next subnet, or the one given. *)
LEMMA CreateNetworkInv ==
  ASSUME NetInv, NEW id, NEW name, NEW explicit \in BOOLEAN,
         autoCreated <= SubnetCount, CreateNetwork(id, name, explicit)
  PROVE  NetInv'
<1>1. SubnetCount \in Nat /\ SubnetCount > 0 /\ autoCreated \in Nat /\ subnetIndex \in Nat
  BY TableAssumption DEF NetInv
<1>2. PICK sub \in Nat : sub = (IF explicit THEN SubnetCount ELSE subnetIndex)
  BY <1>1
<1>3. /\ name \notin DOMAIN nameIndex /\ id \notin DOMAIN nets
      /\ DOMAIN nets' = DOMAIN nets \union {id}
      /\ nets'[id] = [name |-> name, subnet |-> sub, vms |-> {}]
      /\ \A i \in DOMAIN nets : nets'[i] = nets[i]
      /\ DOMAIN nameIndex' = DOMAIN nameIndex \union {name} /\ nameIndex'[name] = id
      /\ \A n \in DOMAIN nameIndex : nameIndex'[n] = nameIndex[n]
  BY <1>2 DEF CreateNetwork, Put, Network
<1>4. nets'[id].name = name /\ nets'[id].subnet = sub
  BY <1>3
<1>5. \A i \in DOMAIN nets' :
        nets'[i] = [name |-> nets'[i].name, subnet |-> nets'[i].subnet, vms |-> nets'[i].vms]
  BY <1>3 DEF NetInv
<1>6. NamesIndexed'
  BY <1>3, <1>4 DEF NetInv, NamesIndexed
<1>7. CASE explicit
  <2>1. sub = SubnetCount /\ subnetIndex' = subnetIndex /\ autoCreated' = autoCreated
    BY <1>2, <1>7 DEF CreateNetwork
  <2>2. \A i \in DOMAIN nets' : i # id => i \in DOMAIN nets /\ nets'[i] = nets[i]
    BY <1>3
  <2>3. SubnetsDistinct'
    BY <1>1, <1>4, <2>1, <2>2 DEF NetInv, SubnetsDistinct
  <2> QED
    BY <1>1, <1>4, <1>6, <1>5, <2>1, <2>2, <2>3 DEF NetInv
<1>8. CASE ~explicit
  <2>1. /\ sub = subnetIndex /\ subnetIndex' = (subnetIndex + 1) % SubnetCount
        /\ autoCreated' = autoCreated + 1
    BY <1>2, <1>8 DEF CreateNetwork
  <2>2. \A i \in DOMAIN nets' : i # id => i \in DOMAIN nets /\ nets'[i] = nets[i]
    BY <1>3
  <2>3. subnetIndex' \in Nat /\ autoCreated' \in Nat
    BY <1>1, <2>1
  <2>4. ASSUME autoCreated' < SubnetCount PROVE subnetIndex' = autoCreated'
    <3>1. autoCreated + 1 < SubnetCount /\ subnetIndex = autoCreated
      BY <1>1, <2>1, <2>4 DEF NetInv
    <3>2. (autoCreated + 1) % SubnetCount = autoCreated + 1
      BY <1>1, <3>1
    <3> QED
      BY <2>1, <3>1, <3>2
  <2>5. autoCreated' <= SubnetCount => sub = autoCreated /\ sub < autoCreated'
    BY <1>1, <2>1 DEF NetInv
  <2>6. \A i \in DOMAIN nets : nets[i].subnet \in Nat
    BY DEF NetInv
  <2>7. autoCreated' <= SubnetCount =>
          \A i \in DOMAIN nets : nets[i].subnet < SubnetCount => nets[i].subnet < sub
    BY <1>1, <2>1, <2>5, <2>6 DEF NetInv
  <2>8. SubnetsDistinct'
    <3> SUFFICES ASSUME autoCreated' <= SubnetCount, NEW i \in DOMAIN nets', NEW j \in DOMAIN nets',
                        i # j, nets'[i].subnet < SubnetCount
                 PROVE  nets'[i].subnet # nets'[j].subnet
      BY DEF SubnetsDistinct
    <3>1. CASE i # id /\ j # id
      BY <1>1, <2>1, <2>2, <3>1 DEF NetInv, SubnetsDistinct
    <3>2. CASE i = id
      BY <1>1, <1>2, <1>4, <2>2, <2>5, <2>6, <2>7, <3>2
    <3>3. CASE j = id
      BY <1>1, <1>2, <1>4, <2>2, <2>5, <2>6, <2>7, <3>3
    <3> QED
      BY <3>1, <3>2, <3>3
  <2>9. ASSUME NEW i \in DOMAIN nets'
        PROVE  /\ nets'[i].subnet \in Nat
               /\ autoCreated' <= SubnetCount /\ nets'[i].subnet < SubnetCount
                    => nets'[i].subnet < autoCreated'
    <3>1. CASE i = id
      BY <1>2, <1>4, <2>5, <3>1
    <3>2. CASE i # id
      <4>1. nets'[i].subnet = nets[i].subnet /\ nets[i].subnet \in Nat
        BY <2>2, <2>6, <3>2
      <4>2. autoCreated' <= SubnetCount /\ nets[i].subnet < SubnetCount => nets[i].subnet < sub
        BY <2>2, <2>7, <3>2
      <4> QED
        BY <1>1, <1>2, <2>1, <2>5, <4>1, <4>2
    <3> QED
      BY <3>1, <3>2
  <2> QED
    BY <1>6, <1>5, <2>3, <2>4, <2>8, <2>9 DEF NetInv
<1> QED
  BY <1>7, <1>8

(* A network leaves with its name. *)
LEMMA DeleteNetworkInv ==
  ASSUME NetInv, NEW id, DeleteNetwork(id)
  PROVE  NetInv'
<1>1. /\ id \in DOMAIN nets /\ DOMAIN nets' = DOMAIN nets \ {id}
      /\ \A i \in DOMAIN nets' : nets'[i] = nets[i]
      /\ DOMAIN nameIndex' = DOMAIN nameIndex \ {nets[id].name}
      /\ \A n \in DOMAIN nameIndex' : nameIndex'[n] = nameIndex[n]
      /\ UNCHANGED <<subnetIndex, autoCreated>>
  BY DEF DeleteNetwork, Drop, Restrict
<1>2. NamesIndexed'
  BY <1>1 DEF NetInv, NamesIndexed
<1>3. SubnetsDistinct'
  BY <1>1 DEF NetInv, SubnetsDistinct
<1> QED
  BY <1>1, <1>2, <1>3 DEF NetInv

(* Members come and go without touching names or subnets. *)
LEMMA MembersInv ==
  ASSUME NetInv, NEW id, NEW vm, ConnectVm(id, vm) \/ DisconnectVm(id, vm)
  PROVE  NetInv'
<1>1. /\ id \in DOMAIN nets /\ DOMAIN nets' = DOMAIN nets
      /\ \E s : nets' = [nets EXCEPT ![id].vms = s]
      /\ UNCHANGED <<nameIndex, subnetIndex, autoCreated>>
  BY DEF ConnectVm, DisconnectVm
<1>2. \A i \in DOMAIN nets :
        /\ nets'[i].name = nets[i].name /\ nets'[i].subnet = nets[i].subnet
        /\ nets'[i] = [name |-> nets'[i].name, subnet |-> nets'[i].subnet, vms |-> nets'[i].vms]
  <2> SUFFICES ASSUME NEW i \in DOMAIN nets
               PROVE  /\ nets'[i].name = nets[i].name /\ nets'[i].subnet = nets[i].subnet
                      /\ nets'[i] = [name |-> nets'[i].name, subnet |-> nets'[i].subnet, vms |-> nets'[i].vms]
    OBVIOUS
  <2>1. PICK s : nets' = [nets EXCEPT ![id].vms = s]
    BY <1>1
  <2>2. nets[i] = [name |-> nets[i].name, subnet |-> nets[i].subnet, vms |-> nets[i].vms]
    BY DEF NetInv
  <2>3. nets'[i] = nets[i] \/ nets'[i] = [nets[i] EXCEPT !.vms = s]
    BY <2>1
  <2>4. [nets[i] EXCEPT !.vms = s] = [name |-> nets[i].name, subnet |-> nets[i].subnet, vms |-> s]
    BY <2>2
  <2> QED
    BY <2>2, <2>3, <2>4
<1>3. NamesIndexed'
  BY <1>1, <1>2 DEF NetInv, NamesIndexed
<1>4. SubnetsDistinct'
  BY <1>1, <1>2 DEF NetInv, SubnetsDistinct
<1> QED
  BY <1>1, <1>3, <1>4, <1>2 DEF NetInv

(* VirtualSwitch: the three tables agree after every operation, because a  *)
(* port is registered only when neither its MAC nor its address is taken.  *)
LEMMA RegisterPortInv ==
  ASSUME PortsAgree, NEW vm, NEW mac, NEW ip, RegisterPort(vm, mac, ip)
  PROVE  PortsAgree'
<1>1. /\ mac \notin DOMAIN macTable /\ ip \notin DOMAIN ipTable
      /\ DOMAIN macTable' = DOMAIN macTable \union {mac}
      /\ macTable'[mac] = [vm |-> vm, ip |-> ip]
      /\ \A m \in DOMAIN macTable : macTable'[m] = macTable[m]
      /\ DOMAIN ipTable' = DOMAIN ipTable \union {ip} /\ ipTable'[ip] = mac
      /\ \A a \in DOMAIN ipTable : ipTable'[a] = ipTable[a]
      /\ DOMAIN vmTable' = DOMAIN vmTable \union {vm} /\ vmTable'[vm] = mac
      /\ \A v \in DOMAIN vmTable : v # vm => vmTable'[v] = vmTable[v]
  BY DEF RegisterPort, Put
<1>2. macTable'[mac].vm = vm /\ macTable'[mac].ip = ip
  BY <1>1
<1> QED
  BY <1>1, <1>2 DEF PortsAgree

(* A port leaves with its addresses. *)
LEMMA UnregisterPortInv ==
  ASSUME PortsAgree, NEW mac, UnregisterPort(mac)
  PROVE  PortsAgree'
<1>1. /\ mac \in DOMAIN macTable
      /\ DOMAIN macTable' = DOMAIN macTable \ {mac}
      /\ \A m \in DOMAIN macTable' : macTable'[m] = macTable[m]
      /\ DOMAIN ipTable' = DOMAIN ipTable \ {macTable[mac].ip}
      /\ \A a \in DOMAIN ipTable' : ipTable'[a] = ipTable[a]
      /\ DOMAIN vmTable' = DOMAIN vmTable \ {macTable[mac].vm}
      /\ \A v \in DOMAIN vmTable' : vmTable'[v] = vmTable[v]
  BY DEF UnregisterPort, Drop, Restrict
<1> QED
  BY <1>1 DEF PortsAgree

TablesInv == DnsInv /\ NetInv /\ PortsAgree

(* Every step keeps the tables. *)
LEMMA TablesInductive == TablesInv /\ [TablesNext]_tableVars => TablesInv'
<1> SUFFICES ASSUME TablesInv, [TablesNext]_tableVars PROVE TablesInv'
  OBVIOUS
<1>1. UNCHANGED dnsVars => DnsInv'
  BY DEF TablesInv, DnsInv, dnsVars
<1>2. UNCHANGED netVars => NetInv'
  BY DEF TablesInv, NetInv, NamesIndexed, SubnetsDistinct, netVars
<1>3. UNCHANGED switchVars => PortsAgree'
  BY DEF TablesInv, PortsAgree, switchVars
<1>4. CASE DnsStep
  <2>1. UNCHANGED netVars /\ UNCHANGED switchVars
    BY <1>4 DEF DnsStep
  <2>2. DnsInv'
    BY <1>4, RegisterInv, UnregisterInv DEF DnsStep, TablesInv
  <2> QED
    BY <1>2, <1>3, <2>1, <2>2 DEF TablesInv
<1>5. CASE NetworkStep
  <2>1. UNCHANGED dnsVars /\ UNCHANGED switchVars
    BY <1>5 DEF NetworkStep
  <2>2. NetInv'
    BY <1>5, CreateNetworkInv, DeleteNetworkInv, MembersInv DEF NetworkStep, TablesInv
  <2> QED
    BY <1>1, <1>3, <2>1, <2>2 DEF TablesInv
<1>6. CASE SwitchStep
  <2>1. UNCHANGED dnsVars /\ UNCHANGED netVars
    BY <1>6 DEF SwitchStep
  <2>2. PortsAgree'
    BY <1>6, RegisterPortInv, UnregisterPortInv DEF SwitchStep, TablesInv
  <2> QED
    BY <1>1, <1>2, <2>1, <2>2 DEF TablesInv
<1>7. CASE UNCHANGED tableVars
  BY <1>1, <1>2, <1>3, <1>7 DEF tableVars, TablesInv
<1> QED
  BY <1>4, <1>5, <1>6, <1>7 DEF TablesNext

(* Whatever names, networks and ports are registered and dropped, in any   *)
(* order: a reverse lookup agrees with the forward map, names and networks *)
(* index each other, automatic subnets are distinct until the index wraps, *)
(* and the switch's tables are inverse to each other.                      *)
THEOREM TablesAlwaysAgree == TablesSpec => []TablesAgree
<1>1. TablesInit => TablesInv
  <2> SUFFICES ASSUME TablesInit PROVE TablesInv
    OBVIOUS
  <2>1. /\ DOMAIN dnsForward = {} /\ DOMAIN dnsReverse = {} /\ DOMAIN nets = {} /\ DOMAIN nameIndex = {}
        /\ DOMAIN macTable = {} /\ DOMAIN ipTable = {} /\ DOMAIN vmTable = {}
    BY DEF TablesInit, Empty
  <2>2. DnsInv
    BY <2>1 DEF DnsInv
  <2>3. NetInv
    BY <2>1 DEF NetInv, NamesIndexed, SubnetsDistinct, TablesInit
  <2>4. PortsAgree
    BY <2>1 DEF PortsAgree
  <2> QED
    BY <2>2, <2>3, <2>4 DEF TablesInv
<1>2. TablesInv => TablesAgree
  BY DEF TablesInv, TablesAgree, DnsInv, NetInv, ReverseSound, ReverseLookup, Resolve
<1> QED
  BY <1>1, <1>2, TablesInductive, PTL DEF TablesSpec

----------------------------------------------------------------------------
(* The ring between two VMs, for every capacity and packet size: it keeps   *)
(* its types, an emptied ring accepts every packet, no word of a packet is  *)
(* overwritten before it is read, and it implements the queue of            *)
(* PacketFifo.                                                              *)
(*                                                                          *)
(* The inductive invariant RingInv gives the packets that are sent and not  *)
(* yet received the places of their entries in the data area, and says what *)
(* the words there hold; everything else follows from the arithmetic of     *)
(* indices modulo the capacity.  The leaves are first-order and go to       *)
(* Zenon; those that count cite the SMT solver.                             *)
USE ZenonT(60)


(* The entry of a packet is at least as long as its header, and no longer   *)
(* than the entry of the longest packet.                                    *)
LEMMA EntrySizeFacts ==
    ASSUME NEW n \in Nat
    PROVE  /\ EntrySize(n) \in Nat
           /\ EntrySize(n) > n
           /\ \A k \in 0..n : EntrySize(k) <= EntrySize(n)
BY SMTT(60) DEF EntrySize, AlignUp, EntryHeader, EntryAlign

(* A position lies inside the data area, so the gap before its end is       *)
(* positive.                                                                *)
LEMMA PosFacts ==
    ASSUME NEW i \in Nat
    PROVE  /\ Capacity \in Nat \ {0}
           /\ Pos(i) \in Cells
           /\ Gap(i) \in 1..Capacity
<1>1. Capacity \in Nat \ {0}
  BY EntrySizeFacts, RingAssumption, SMTT(60)
<1>2. i % Capacity \in 0..(Capacity - 1)
  BY <1>1, SMTT(60)
<1> QED
  BY <1>1, <1>2, SMTT(60) DEF Pos, Cells, Gap

(* The free words an empty ring has are enough for any packet, at whatever  *)
(* position it stands: an entry that wraps starts less than one entry       *)
(* before the end, and the ring holds two (from_raw's minimum).             *)
LEMMA EmptyFits ==
    ASSUME NEW i \in Nat, NEW len \in Lengths
    PROVE  Fits(i, i, len)
<1>1. /\ EntrySize(len) \in Nat /\ EntrySize(MaxPacket) \in Nat
      /\ EntrySize(len) <= EntrySize(MaxPacket)
  BY EntrySizeFacts, RingAssumption, SMTT(60) DEF Lengths
<1>2. /\ Capacity \in Nat /\ Capacity >= 2 * EntrySize(MaxPacket)
      /\ Pos(i) \in 0..(Capacity - 1)
  BY PosFacts, RingAssumption DEF Cells
<1>3. Available(i, i) = Capacity
  BY <1>2, SMTT(60) DEF Available
<1>4. CASE Wraps(i, len)
  <2>1. Needed(i, len) = EntrySize(len) + (Capacity - Pos(i))
    BY <1>4 DEF Needed, Gap
  <2>2. Pos(i) + EntrySize(len) > Capacity
    BY <1>4 DEF Wraps
  <2> QED
    BY <1>1, <1>2, <1>3, <2>1, <2>2, SMTT(60) DEF Fits
<1>5. CASE ~Wraps(i, len)
  <2>1. Needed(i, len) = EntrySize(len) + 0
    BY <1>5 DEF Needed
  <2> QED
    BY <1>1, <1>2, <1>3, <2>1, SMTT(60) DEF Fits
<1> QED
  BY <1>4, <1>5

----------------------------------------------------------------------------
(* try_send keeps the types. *)
LEMMA ProduceTypeOK == RingTypeOK /\ Produce => RingTypeOK'
<1> SUFFICES ASSUME RingTypeOK, Produce PROVE RingTypeOK'
  OBVIOUS
<1> USE DEF RingTypeOK
<1>1. ASSUME NEW len \in Lengths, SendBegins(len) PROVE RingTypeOK'
  <2>1. Len(sent) + 1 \in Nat
    BY SMTT(60)
  <2>2. prod' \in ProdStates
    BY <1>1, <2>1 DEF SendBegins, ProdStates
  <2> QED
    BY <1>1, <2>2 DEF SendBegins
<1>2. CASE SendSkips
  <2>1. prod \in [pc: {"skip", "length", "payload", "publish"},
                  packet: [len: Lengths, num: Nat], at: Nat]
    BY <1>2, SMTT(60) DEF SendSkips, ProdStates, Idle
  <2>2. prod.at + Gap(prod.at) \in Nat
    <3>1. prod.at \in Nat
      BY <2>1
    <3>2. Capacity \in Nat /\ Gap(prod.at) \in 1..Capacity
      BY ONLY <3>1, PosFacts, ZenonT(60)
    <3> QED
      BY ONLY <3>1, <3>2, SMTT(60)
  <2>3. prod' \in ProdStates
    <3>1. prod' = [prod EXCEPT !.pc = "length", !.at = prod.at + Gap(prod.at)]
      BY <1>2 DEF SendSkips
    <3>2. prod' \in [pc: {"skip", "length", "payload", "publish"},
                     packet: [len: Lengths, num: Nat], at: Nat]
      BY ONLY <3>1, <2>1, <2>2, ZenonT(60)
    <3> QED
      BY ONLY <3>2, ZenonT(60) DEF ProdStates
  <2>4. data' \in [Cells -> Nat \cup {Skip}]
    BY <1>2 DEF SendSkips
  <2> QED
    BY <1>2, <2>3, <2>4 DEF SendSkips
<1>3. CASE SendWritesLength
  <2>1. prod \in [pc: {"skip", "length", "payload", "publish"},
                  packet: [len: Lengths, num: Nat], at: Nat]
    BY <1>3, SMTT(60) DEF SendWritesLength, ProdStates, Idle
  <2>2. prod.packet.len \in Nat
    BY <2>1, RingAssumption, SMTT(60) DEF Lengths
  <2>3. prod' \in ProdStates
    BY <1>3, <2>1 DEF SendWritesLength, ProdStates
  <2>4. data' \in [Cells -> Nat \cup {Skip}]
    BY <1>3, <2>2 DEF SendWritesLength
  <2> QED
    BY <1>3, <2>3, <2>4 DEF SendWritesLength
<1>4. CASE SendWritesPayload
  <2>1. prod \in [pc: {"skip", "length", "payload", "publish"},
                  packet: [len: Lengths, num: Nat], at: Nat]
    BY <1>4, SMTT(60) DEF SendWritesPayload, ProdStates, Idle
  <2>2. prod.packet.num \in Nat
    BY <2>1
  <2>3. prod' \in ProdStates
    BY <1>4, <2>1 DEF SendWritesPayload, ProdStates
  <2>4. data' \in [Cells -> Nat \cup {Skip}]
    BY <1>4, <2>2 DEF SendWritesPayload
  <2> QED
    BY <1>4, <2>3, <2>4 DEF SendWritesPayload
<1>5. CASE SendPublishes
  <2>1. prod \in [pc: {"skip", "length", "payload", "publish"},
                  packet: [len: Lengths, num: Nat], at: Nat]
    BY <1>5, SMTT(60) DEF SendPublishes, ProdStates, Idle
  <2>2. prod.packet \in [len: Lengths, num: Nat] /\ prod.at \in Nat
    BY <2>1
  <2>3. EntrySize(prod.packet.len) \in Nat
    <3>1. prod.packet.len \in Nat
      BY <2>2, RingAssumption, SMTT(60) DEF Lengths
    <3> QED
      BY ONLY <3>1, EntrySizeFacts, ZenonT(60)
  <2>4. write_idx' \in Nat
    BY <1>5, <2>2, <2>3, SMTT(60) DEF SendPublishes
  <2>5. sent' \in Seq([len: Lengths, num: Nat])
    <3>1. sent' = Append(sent, prod.packet)
      BY <1>5 DEF SendPublishes
    <3> DEFINE P == [len: Lengths, num: Nat]
    <3>2. sent \in Seq(P) /\ prod.packet \in P
      BY <2>2
    <3> HIDE DEF P
    <3>3. Append(sent, prod.packet) \in Seq(P)
      BY ONLY <3>2, SMTT(60)
    <3> QED
      BY <3>1, <3>3 DEF P
  <2>6. prod' \in ProdStates
    BY <1>5 DEF SendPublishes, ProdStates
  <2> QED
    BY <1>5, <2>4, <2>5, <2>6 DEF SendPublishes
<1> QED
  BY <1>1, <1>2, <1>3, <1>4, <1>5 DEF Produce

(* try_recv keeps the types. *)
LEMMA ConsumeTypeOK == RingTypeOK /\ Consume => RingTypeOK'
<1> SUFFICES ASSUME RingTypeOK, Consume PROVE RingTypeOK'
  OBVIOUS
<1> USE DEF RingTypeOK
<1>0. Pos(read_idx) \in Cells /\ Gap(read_idx) \in Nat
  BY PosFacts, SMTT(60)
<1>1. CASE RecvBegins
  <2>1. cons' \in ConsStates
    BY <1>1 DEF RecvBegins, ConsStates
  <2> QED
    BY <1>1, <2>1 DEF RecvBegins
<1>2. CASE RecvSkips
  <2>1. cons' \in ConsStates
    BY <1>2 DEF RecvSkips, ConsStates
  <2> QED
    BY <1>0, <1>2, <2>1, SMTT(60) DEF RecvSkips
<1>3. CASE RecvReadsLength
  <2>1. data[Pos(read_idx)] \in Nat
    BY <1>0, <1>3 DEF RecvReadsLength
  <2>2. cons' \in ConsStates
    BY <1>3, <2>1 DEF RecvReadsLength, ConsStates
  <2> QED
    BY <1>3, <2>2 DEF RecvReadsLength
<1>4. CASE RecvCopies
  <2>1. cons \in [pc: {"payload"}, len: Nat]
    BY <1>4, SMTT(60) DEF RecvCopies, ConsStates, Idle
  <2>2. Copied \in SUBSET (Nat \cup {Skip})
    BY DEF Copied
  <2>3. cons' \in ConsStates
    BY <1>4, <2>1, <2>2 DEF RecvCopies, ConsStates
  <2> QED
    BY <1>4, <2>3 DEF RecvCopies
<1>5. CASE RecvReleases
  <2>1. cons \in [pc: {"release"}, len: Nat, words: SUBSET (Nat \cup {Skip})]
    BY <1>5, SMTT(60) DEF RecvReleases, ConsStates, Idle
  <2>2. EntrySize(cons.len) \in Nat
    BY <2>1, EntrySizeFacts
  <2>3. cons' \in ConsStates
    BY <1>5 DEF RecvReleases, ConsStates
  <2> QED
    BY <1>5, <2>2, <2>3, SMTT(60) DEF RecvReleases
<1> QED
  BY <1>1, <1>2, <1>3, <1>4, <1>5 DEF Consume

(* The types hold in every reachable state, for every capacity and packet   *)
(* size: the consumer never takes a skip marker for a length.               *)
THEOREM RingTypes == RingSpec => []RingTypeOK
<1>1. RingInit => RingTypeOK
  BY SMTT(60) DEF RingInit, RingTypeOK, ProdStates, ConsStates
<1>2. RingTypeOK /\ [RingNext]_ringVars => RingTypeOK'
  <2>1. RingTypeOK /\ UNCHANGED ringVars => RingTypeOK'
    BY DEF RingTypeOK, ringVars
  <2> QED
    BY <2>1, ProduceTypeOK, ConsumeTypeOK DEF RingNext
<1> QED
  BY <1>1, <1>2, PTL DEF RingSpec

(* An emptied ring accepts every packet, wherever its indices stand: a      *)
(* refusal of try_send is always cured by the consumer.                     *)
THEOREM EmptiedRingAccepts == RingSpec => []EmptyAccepts
<1>1. RingTypeOK => EmptyAccepts
  BY EmptyFits DEF RingTypeOK, EmptyAccepts
<1> QED
  BY <1>1, RingTypes, PTL
----------------------------------------------------------------------------
(* Arithmetic modulo the capacity. *)

(* An index is a number of whole turns and a position. *)
LEMMA Turns ==
    ASSUME NEW i \in Nat
    PROVE  /\ i \div Capacity \in Nat
           /\ Pos(i) \in 0..(Capacity - 1)
           /\ i = Capacity * (i \div Capacity) + Pos(i)
<1>1. Capacity \in Nat \ {0}
  BY PosFacts
<1> QED
  BY <1>1, SMTT(60) DEF Pos

(* The words of an entry that does not wrap follow its position. *)
LEMMA PosNext ==
    ASSUME NEW i \in Nat, NEW d \in Nat, Pos(i) + d < Capacity
    PROVE  Pos(i + d) = Pos(i) + d
<1>1. Capacity \in Nat \ {0}
  BY PosFacts
<1>2. ASSUME NEW q \in Nat, NEW r \in 0..(Capacity - 1)
      PROVE  (Capacity * q + r) % Capacity = r
  BY <1>1, SMTT(60)
<1>3. /\ i \div Capacity \in Nat /\ Pos(i) \in 0..(Capacity - 1)
      /\ i = Capacity * (i \div Capacity) + Pos(i)
  BY Turns
<1>4. i + d = Capacity * (i \div Capacity) + (Pos(i) + d)
  BY <1>1, <1>3, SMTT(60)
<1>5. Pos(i) + d \in 0..(Capacity - 1)
  BY <1>1, <1>3, SMTT(60)
<1> QED
  BY <1>2, <1>3, <1>4, <1>5 DEF Pos

(* Indices less than a whole ring apart do not share a word. *)
LEMMA PosApart ==
    ASSUME NEW i \in Nat, NEW j \in Nat, i < j, j < i + Capacity
    PROVE  Pos(i) # Pos(j)
<1>1. Capacity \in Nat \ {0}
  BY PosFacts
<1>2. SUFFICES ASSUME Pos(i) = Pos(j) PROVE FALSE
  OBVIOUS
<1>3. PICK p \in Nat : i = Capacity * p + Pos(i)
  BY Turns
<1>4. PICK q \in Nat : j = Capacity * q + Pos(j)
  BY Turns
<1>5. Pos(i) \in Nat /\ Pos(j) \in Nat
  BY Turns, SMTT(60)
<1>6. j - i = Capacity * q - Capacity * p
  BY <1>1, <1>2, <1>3, <1>4, <1>5, SMTT(60)
<1>7. CASE q <= p
  <2>1. Capacity * q <= Capacity * p
    BY <1>1, <1>7, SMTT(60)
  <2> QED
    BY <1>1, <1>6, <2>1, SMTT(60)
<1>8. CASE p + 1 <= q
  <2>1. Capacity * (p + 1) <= Capacity * q
    BY <1>1, <1>8, SMTT(60)
  <2>2. Capacity * (p + 1) = Capacity * p + Capacity
    BY <1>1, SMTT(60)
  <2> QED
    BY <1>1, <1>6, <2>1, <2>2, SMTT(60)
<1> QED
  BY <1>7, <1>8, SMTT(60)

(* After the gap the data area begins again. *)
LEMMA PosOfGap ==
    ASSUME NEW i \in Nat
    PROVE  Pos(i + Gap(i)) = 0
<1>1. Capacity \in Nat \ {0}
  BY PosFacts
<1>2. PICK p \in Nat : i = Capacity * p + Pos(i)
  BY Turns
<1>3. Pos(i) \in Nat
  BY Turns, SMTT(60)
<1>4. i + Gap(i) = Capacity * p + Capacity
  BY <1>1, <1>2, <1>3, SMTT(60) DEF Gap
<1>5. Capacity * (p + 1) = Capacity * p + Capacity
  BY <1>1, SMTT(60)
<1>6. (Capacity * (p + 1) + 0) % Capacity = 0
  BY <1>1, SMTT(60)
<1> QED
  BY <1>1, <1>4, <1>5, <1>6, SMTT(60) DEF Pos

(* The entry of a packet of a legal length. *)
LEMMA LengthFacts ==
    ASSUME NEW len \in Lengths
    PROVE  len \in Nat /\ EntrySize(len) \in Nat /\ EntrySize(len) > len
BY EntrySizeFacts, RingAssumption, SMTT(60) DEF Lengths

----------------------------------------------------------------------------
(* The layout of the ring.  start[k] and end[k] delimit the entry of the    *)
(* k-th packet, as indices that only grow; between the end of an entry and  *)
(* the start of the next one there is nothing, or a skip marker and the     *)
(* rest of the area.                                                        *)

Follows(e, a) == a = e \/ (a = e + Gap(e) /\ data[Pos(e)] = Skip)
Unbroken(a, len) == Pos(a) + EntrySize(len) <= Capacity
LengthAt(a, len) == data[Pos(a)] = len
PayloadAt(a, len, n) == \A i \in 1..len : data[Pos(a) + i] = n

Pending == (Len(received) + 1)..Len(sent)

Layout(start, end) ==
    /\ end[Len(received)] = read_idx
    /\ end[Len(sent)] = write_idx
    /\ \A j, k \in Len(received)..Len(sent) : j <= k => end[j] <= end[k]
    /\ \A k \in Pending :
         /\ Follows(end[k - 1], start[k])
         /\ end[k] = start[k] + EntrySize(sent[k].len)
         /\ Unbroken(start[k], sent[k].len)
         /\ LengthAt(start[k], sent[k].len)
         /\ PayloadAt(start[k], sent[k].len, k)

\* What try_recv holds is what it read of the first pending entry.
ConsumerAt(start) ==
    /\ cons.pc # "idle" => read_idx < write_idx
    /\ cons.pc \in {"payload", "release"} =>
         /\ cons.len = sent[Len(received) + 1].len
         /\ start[Len(received) + 1] = read_idx
    /\ cons.pc = "release" /\ cons.len > 0 => cons.words = {Len(received) + 1}

\* What try_send has reserved stays free, and what it has written stays.
ProducerAt ==
    /\ prod.pc # "idle" =>
         prod.packet.num = Len(sent) + 1 /\ Len(sent) < MaxSends
    /\ prod.pc = "skip" =>
         /\ prod.at = write_idx
         /\ Wraps(write_idx, prod.packet.len)
         /\ write_idx + Gap(write_idx) + EntrySize(prod.packet.len) <= read_idx + Capacity
    /\ prod.pc \in {"length", "payload", "publish"} =>
         /\ Follows(write_idx, prod.at)
         /\ Unbroken(prod.at, prod.packet.len)
         /\ prod.at + EntrySize(prod.packet.len) <= read_idx + Capacity
    /\ prod.pc \in {"payload", "publish"} => LengthAt(prod.at, prod.packet.len)
    /\ prod.pc = "publish" =>
         PayloadAt(prod.at, prod.packet.len, prod.packet.num)

Counted ==
    /\ received \in Seq([len: Lengths, num: Nat])
    /\ Len(received) <= Len(sent)
    /\ \A k \in 1..Len(sent) : sent[k].num = k

RingInv ==
    /\ RingTypeOK
    /\ NoOverrun
    /\ Counted
    /\ ProducerAt
    /\ \E start, end \in [Nat -> Nat] : Layout(start, end) /\ ConsumerAt(start)

----------------------------------------------------------------------------
(* What the parts of the invariant say of an entry. *)

(* The locals of try_send while it runs. *)
LEMMA ProdLocals ==
    ASSUME RingTypeOK, prod.pc # "idle"
    PROVE  /\ prod \in [pc: {"skip", "length", "payload", "publish"},
                        packet: [len: Lengths, num: Nat], at: Nat]
           /\ prod.at \in Nat /\ prod.packet \in [len: Lengths, num: Nat]
           /\ prod.packet.len \in Lengths /\ prod.packet.num \in Nat
<1>1. prod \in [pc: {"skip", "length", "payload", "publish"},
                packet: [len: Lengths, num: Nat], at: Nat]
  BY SMTT(60) DEF RingTypeOK, ProdStates, Idle
<1> QED
  BY <1>1

(* The lengths of the two sequences, and of the packets in them. *)
LEMMA Lens ==
    ASSUME RingTypeOK, Counted
    PROVE  /\ Len(received) \in Nat /\ Len(sent) \in Nat
           /\ \A k \in 1..Len(sent) :
                /\ sent[k] \in [len: Lengths, num: Nat]
                /\ sent[k].len \in Lengths
                /\ sent[k] = [len |-> sent[k].len, num |-> k]
<1> DEFINE P == [len: Lengths, num: Nat]
<1>1. sent \in Seq(P) /\ received \in Seq(P)
  BY DEF RingTypeOK, Counted
<1>2. Len(received) \in Nat /\ Len(sent) \in Nat /\ \A k \in 1..Len(sent) : sent[k] \in P
  <2> HIDE DEF P
  <2> QED
    BY ONLY <1>1, SMTT(60)
<1>3. \A k \in 1..Len(sent) : sent[k].num = k
  BY DEF Counted
<1> QED
  BY <1>2, <1>3

(* A pending entry lies between the indices. *)
LEMMA EntryBounds ==
    ASSUME RingTypeOK, Counted, NEW start \in [Nat -> Nat], NEW end \in [Nat -> Nat],
           Layout(start, end), NEW k \in Pending
    PROVE  /\ k \in 1..Len(sent) /\ k \in Nat /\ k - 1 \in Nat
           /\ start[k] \in Nat /\ end[k] \in Nat /\ end[k - 1] \in Nat
           /\ read_idx <= end[k - 1] /\ end[k - 1] <= start[k]
           /\ start[k] < end[k] /\ end[k] <= write_idx
           /\ sent[k].len \in Lengths
           /\ end[k] = start[k] + EntrySize(sent[k].len)
<1>1. Len(received) \in Nat /\ Len(sent) \in Nat
  BY Lens
<1>0. k \in Int /\ Len(received) + 1 <= k /\ k <= Len(sent)
  BY <1>1, SMTT(60) DEF Pending
<1>2. k \in 1..Len(sent) /\ k \in Nat /\ k - 1 \in Nat
  BY ONLY <1>0, <1>1, SMTT(60)
<1>3. start[k] \in Nat /\ end[k] \in Nat /\ end[k - 1] \in Nat
  BY <1>2
<1>4. sent[k].len \in Lengths
  BY <1>2, Lens
<1>5. EntrySize(sent[k].len) \in Nat /\ EntrySize(sent[k].len) > 0
  BY <1>4, LengthFacts, SMTT(60)
<1>6. end[k] = start[k] + EntrySize(sent[k].len)
  BY DEF Layout
<1>7. read_idx <= end[k - 1] /\ end[k] <= write_idx
  <2>1. /\ Len(received) \in Len(received)..Len(sent) /\ k - 1 \in Len(received)..Len(sent)
        /\ k \in Len(received)..Len(sent) /\ Len(sent) \in Len(received)..Len(sent)
        /\ Len(received) <= k - 1 /\ k <= Len(sent)
    <3>1. ASSUME NEW r \in Nat, NEW s \in Nat, r + 1 <= k, k <= s
          PROVE  r \in r..s /\ k - 1 \in r..s /\ k \in r..s /\ s \in r..s /\ r <= k - 1
      BY ONLY <1>0, <3>1, SMTT(60)
    <3> QED
      BY ONLY <1>0, <1>1, <3>1, ZenonT(60)
  <2> QED
    BY <2>1 DEF Layout
<1>8. end[k - 1] <= start[k]
  <2>1. Gap(end[k - 1]) \in Nat
    BY ONLY <1>3, PosFacts, SMTT(60)
  <2>2. Follows(end[k - 1], start[k])
    BY DEF Layout
  <2> QED
    BY ONLY <1>3, <2>1, <2>2, SMTT(60) DEF Follows
<1> QED
  BY <1>2, <1>3, <1>4, <1>5, <1>6, <1>7, <1>8, SMTT(60)

(* The words of an unbroken entry stand at the positions of its indices. *)
LEMMA EntryWords ==
    ASSUME NEW a \in Nat, NEW len \in Lengths, Unbroken(a, len), NEW i \in 0..len
    PROVE  /\ Pos(a + i) = Pos(a) + i
           /\ Pos(a) + i \in Cells
           /\ a + i < a + EntrySize(len)
<1>1. Pos(a) \in Nat /\ Capacity \in Nat
  BY PosFacts, SMTT(60) DEF Cells
<1>2. i \in Nat /\ EntrySize(len) \in Nat /\ i < EntrySize(len)
  BY LengthFacts, SMTT(60)
<1>3. Pos(a) + i < Capacity
  BY <1>1, <1>2, SMTT(60) DEF Unbroken
<1> QED
  BY <1>1, <1>2, <1>3, PosNext, SMTT(60) DEF Cells

(* The pending entries depend on the words between the indices alone. *)
LEMMA LayoutKept ==
    ASSUME RingTypeOK, Counted, NEW start \in [Nat -> Nat], NEW end \in [Nat -> Nat],
           Layout(start, end), UNCHANGED <<write_idx, read_idx, sent, received>>,
           \A i \in read_idx..(write_idx - 1) : data'[Pos(i)] = data[Pos(i)]
    PROVE  Layout(start, end)'
<1>1. ASSUME NEW k \in Pending
      PROVE  /\ Follows(end[k - 1], start[k])'
             /\ LengthAt(start[k], sent[k].len)'
             /\ PayloadAt(start[k], sent[k].len, k)'
  <2>1. /\ start[k] \in Nat /\ end[k] \in Nat /\ end[k - 1] \in Nat
        /\ read_idx <= end[k - 1] /\ end[k - 1] <= start[k]
        /\ start[k] < end[k] /\ end[k] <= write_idx
        /\ sent[k].len \in Lengths
        /\ end[k] = start[k] + EntrySize(sent[k].len)
    BY EntryBounds
  <2>2. read_idx \in Nat /\ write_idx \in Nat
    BY DEF RingTypeOK
  <2>3. end[k - 1] \in read_idx..(write_idx - 1) /\ start[k] \in read_idx..(write_idx - 1)
    BY <2>1, <2>2, SMTT(60)
  <2>4. data'[Pos(end[k - 1])] = data[Pos(end[k - 1])] /\ data'[Pos(start[k])] = data[Pos(start[k])]
    BY <2>3
  <2>5. Follows(end[k - 1], start[k])'
    BY <2>4 DEF Layout, Follows
  <2>6. LengthAt(start[k], sent[k].len)'
    BY <2>4 DEF Layout, LengthAt
  <2>7. ASSUME NEW i \in 1..sent[k].len PROVE data'[Pos(start[k]) + i] = k
    <3>1. i \in 0..sent[k].len
      BY <2>1, LengthFacts, SMTT(60)
    <3>2. Unbroken(start[k], sent[k].len)
      BY DEF Layout
    <3>3. Pos(start[k] + i) = Pos(start[k]) + i /\ start[k] + i < start[k] + EntrySize(sent[k].len)
      BY <2>1, <3>1, <3>2, EntryWords
    <3>4. start[k] + i \in read_idx..(write_idx - 1)
      BY <2>1, <2>2, <3>1, <3>3, LengthFacts, SMTT(60)
    <3>5. data[Pos(start[k]) + i] = k
      BY DEF Layout, PayloadAt
    <3> QED
      BY <3>3, <3>4, <3>5
  <2> QED
    BY <2>5, <2>6, <2>7 DEF PayloadAt
<1> QED
  BY <1>1 DEF Layout, Pending, Unbroken

----------------------------------------------------------------------------
(* try_send keeps the invariant. *)

(* A step that writes free words alone leaves the pending entries, and what *)
(* the consumer knows of them.                                              *)
LEMMA FreeWritesKeep ==
    ASSUME RingInv, RingTypeOK',
           UNCHANGED <<write_idx, read_idx, cons, sent, received>>,
           \A i \in read_idx..(write_idx - 1) : data'[Pos(i)] = data[Pos(i)],
           ProducerAt'
    PROVE  RingInv'
<1>1. PICK start \in [Nat -> Nat], end \in [Nat -> Nat] : Layout(start, end) /\ ConsumerAt(start)
  BY DEF RingInv
<1>2. Layout(start, end)'
  BY <1>1, LayoutKept DEF RingInv
<1>3. ConsumerAt(start)'
  BY <1>1 DEF ConsumerAt
<1>4. NoOverrun' /\ Counted'
  BY DEF RingInv, NoOverrun, Counted
<1> QED
  BY <1>2, <1>3, <1>4 DEF RingInv

(* The producer reads the indices and chooses its entry. *)
LEMMA SendBeginsInv ==
    ASSUME RingInv, RingTypeOK', NEW len \in Lengths, SendBegins(len)
    PROVE  RingInv'
<1>1. /\ read_idx \in Nat /\ write_idx \in Nat /\ read_idx <= write_idx
      /\ prod' = [pc |-> IF Wraps(write_idx, len) THEN "skip" ELSE "length",
                  packet |-> [len |-> len, num |-> Len(sent) + 1], at |-> write_idx]
  BY DEF RingInv, RingTypeOK, NoOverrun, SendBegins
<1>2. EntrySize(len) \in Nat /\ Capacity \in Nat /\ Gap(write_idx) \in Nat
  BY <1>1, LengthFacts, PosFacts, SMTT(60)
<1>3. UNCHANGED <<write_idx, read_idx, data, cons, sent, received>> /\ Len(sent) < MaxSends
  BY DEF SendBegins
<1>4. Capacity - (write_idx - read_idx)
        >= EntrySize(len) + IF Wraps(write_idx, len) THEN Gap(write_idx) ELSE 0
  BY DEF SendBegins, Fits, Available, Needed
<1>5. ProducerAt'
  <2>1. CASE Wraps(write_idx, len)
    <3>1. write_idx + Gap(write_idx) + EntrySize(len) <= read_idx + Capacity
      BY ONLY <1>1, <1>2, <1>4, <2>1, SMTT(60)
    <3> QED
      BY <1>1, <1>3, <2>1, <3>1 DEF ProducerAt, Wraps, Gap, Pos
  <2>2. CASE ~Wraps(write_idx, len)
    <3>1. write_idx + EntrySize(len) <= read_idx + Capacity
      BY ONLY <1>1, <1>2, <1>4, <2>2, SMTT(60)
    <3>2. Pos(write_idx) + EntrySize(len) <= Capacity
      <4>1. Pos(write_idx) \in Nat
        BY <1>1, PosFacts, SMTT(60) DEF Cells
      <4> QED
        BY ONLY <4>1, <1>2, <2>2, SMTT(60) DEF Wraps
    <3> QED
      BY <1>1, <1>3, <2>2, <3>1, <3>2 DEF ProducerAt, Follows, Unbroken
  <2> QED
    BY <2>1, <2>2
<1> QED
  BY <1>3, <1>5, FreeWritesKeep

(* The words from write_idx on, up to a ring after read_idx, are free.      *)
LEMMA FreeWord ==
    ASSUME RingTypeOK, NoOverrun, NEW j \in Nat, write_idx <= j, j < read_idx + Capacity
    PROVE  \A i \in read_idx..(write_idx - 1) : Pos(i) # Pos(j)
<1> SUFFICES ASSUME NEW i \in read_idx..(write_idx - 1) PROVE Pos(i) # Pos(j)
  OBVIOUS
<1>1. read_idx \in Nat /\ write_idx \in Nat /\ Capacity \in Nat
  BY RingAssumption DEF RingTypeOK
<1>2. i \in Nat /\ i < j /\ j < i + Capacity
  BY <1>1, SMTT(60)
<1> QED
  BY <1>2, PosApart

(* A marker fills the words before the end that are too few. *)
LEMMA SendSkipsInv ==
    ASSUME RingInv, RingTypeOK', SendSkips
    PROVE  RingInv'
<1> DEFINE len == prod.packet.len
           at == write_idx + Gap(write_idx)
<1>1. /\ RingTypeOK /\ NoOverrun /\ read_idx \in Nat /\ write_idx \in Nat
      /\ data \in [Cells -> Nat \cup {Skip}]
  BY DEF RingInv, RingTypeOK
<1>2. prod.pc = "skip" /\ data' = [data EXCEPT ![Pos(prod.at)] = Skip]
      /\ UNCHANGED <<write_idx, read_idx, cons, sent, received>>
  BY DEF SendSkips
<1>3. /\ prod.at = write_idx /\ Wraps(write_idx, len)
      /\ at + EntrySize(len) <= read_idx + Capacity
      /\ prod.packet.num = Len(sent) + 1 /\ Len(sent) < MaxSends
  BY <1>2 DEF RingInv, ProducerAt
<1>4. /\ prod \in [pc: {"skip", "length", "payload", "publish"},
                   packet: [len: Lengths, num: Nat], at: Nat]
      /\ len \in Lengths
  BY <1>1, <1>2, ProdLocals
<1>5. /\ EntrySize(len) \in Nat /\ EntrySize(len) > 0
      /\ Gap(write_idx) \in 1..Capacity /\ Capacity \in Nat /\ Pos(write_idx) \in Cells
  BY <1>1, <1>4, LengthFacts, PosFacts, SMTT(60)
<1>6. prod' = [prod EXCEPT !.pc = "length", !.at = at]
  BY <1>3 DEF SendSkips
<1>7. prod'.pc = "length" /\ prod'.at = at /\ prod'.packet = prod.packet
  BY ONLY <1>4, <1>6, ZenonT(60)
<1>8. \A i \in read_idx..(write_idx - 1) : data'[Pos(i)] = data[Pos(i)]
  <2>1. write_idx < read_idx + Capacity
    BY ONLY <1>1, <1>3, <1>5, SMTT(60)
  <2>2. \A i \in read_idx..(write_idx - 1) : Pos(i) # Pos(write_idx)
    BY <1>1, <2>1, FreeWord, SMTT(60)
  <2> QED
    BY <1>1, <1>2, <1>3, <2>2, SMTT(60)
<1>9. Unbroken(at, len)
  <2>1. EntrySize(len) <= Capacity
    BY <1>4, RingAssumption, EntrySizeFacts, LengthFacts, SMTT(60) DEF Lengths
  <2> QED
    BY <1>1, <2>1, <1>5, PosOfGap, SMTT(60) DEF Unbroken
<1>10. data'[Pos(write_idx)] = Skip
  BY <1>1, <1>2, <1>3, <1>5
<1>11. ProducerAt'
  <2> HIDE DEF at
  <2>1. Follows(write_idx, prod.at)'
    BY <1>2, <1>7, <1>10 DEF Follows, at, Gap
  <2>2. Unbroken(prod.at, prod.packet.len)'
    BY <1>7, <1>9 DEF Unbroken
  <2> QED
    BY <1>2, <1>3, <1>7, <2>1, <2>2 DEF ProducerAt
<1> QED
  BY <1>2, <1>8, <1>11, FreeWritesKeep

(* The reserved entry, once its start is known. *)
LEMMA Reserved ==
    ASSUME RingInv, prod.pc \in {"length", "payload", "publish"}
    PROVE  /\ RingTypeOK /\ NoOverrun /\ read_idx \in Nat /\ write_idx \in Nat
           /\ data \in [Cells -> Nat \cup {Skip}] /\ Capacity \in Nat
           /\ prod \in [pc: {"skip", "length", "payload", "publish"},
                        packet: [len: Lengths, num: Nat], at: Nat]
           /\ prod.at \in Nat /\ prod.packet.len \in Lengths /\ prod.packet.len \in Nat
           /\ prod.packet.num = Len(sent) + 1 /\ Len(sent) < MaxSends
           /\ Follows(write_idx, prod.at) /\ Unbroken(prod.at, prod.packet.len)
           /\ EntrySize(prod.packet.len) \in Nat
           /\ EntrySize(prod.packet.len) > prod.packet.len
           /\ prod.at + EntrySize(prod.packet.len) <= read_idx + Capacity
           /\ write_idx <= prod.at /\ Pos(prod.at) \in Cells
<1>1. /\ RingTypeOK /\ NoOverrun /\ read_idx \in Nat /\ write_idx \in Nat
      /\ data \in [Cells -> Nat \cup {Skip}] /\ Capacity \in Nat
  BY RingAssumption DEF RingInv, RingTypeOK
<1>2. /\ prod \in [pc: {"skip", "length", "payload", "publish"},
                   packet: [len: Lengths, num: Nat], at: Nat]
      /\ prod.at \in Nat /\ prod.packet.len \in Lengths
  BY <1>1, ProdLocals
<1>3. /\ prod.packet.num = Len(sent) + 1 /\ Len(sent) < MaxSends
      /\ Follows(write_idx, prod.at) /\ Unbroken(prod.at, prod.packet.len)
      /\ prod.at + EntrySize(prod.packet.len) <= read_idx + Capacity
  BY DEF RingInv, ProducerAt
<1>4. /\ prod.packet.len \in Nat /\ EntrySize(prod.packet.len) \in Nat
      /\ EntrySize(prod.packet.len) > prod.packet.len
  BY <1>2, LengthFacts
<1>5. write_idx <= prod.at
  <2>1. Gap(write_idx) \in Nat
    BY <1>1, PosFacts, SMTT(60)
  <2> QED
    BY ONLY <1>1, <1>2, <1>3, <2>1, SMTT(60) DEF Follows
<1>6. Pos(prod.at) \in Cells
  BY <1>2, PosFacts
<1> QED
  BY <1>1, <1>2, <1>3, <1>4, <1>5, <1>6

(* A word of the reserved entry shares its place with no pending word, nor  *)
(* with the marker before the entry.                                        *)
LEMMA ReservedWord ==
    ASSUME RingInv, prod.pc \in {"length", "payload", "publish"},
           NEW d \in 0..prod.packet.len
    PROVE  /\ Pos(prod.at) + d \in Cells
           /\ \A i \in read_idx..(write_idx - 1) : Pos(i) # Pos(prod.at) + d
           /\ prod.at # write_idx => Pos(write_idx) # Pos(prod.at) + d
<1>1. /\ RingTypeOK /\ NoOverrun /\ read_idx \in Nat /\ write_idx \in Nat
      /\ read_idx <= write_idx
      /\ Capacity \in Nat /\ prod.at \in Nat /\ prod.packet.len \in Lengths
      /\ Unbroken(prod.at, prod.packet.len) /\ prod.packet.len \in Nat
      /\ EntrySize(prod.packet.len) \in Nat
      /\ prod.at + EntrySize(prod.packet.len) <= read_idx + Capacity
      /\ write_idx <= prod.at
  BY Reserved DEF NoOverrun
<1>2. /\ Pos(prod.at + d) = Pos(prod.at) + d /\ Pos(prod.at) + d \in Cells
      /\ prod.at + d < prod.at + EntrySize(prod.packet.len)
  BY <1>1, EntryWords
<1>3. /\ prod.at + d \in Nat /\ write_idx <= prod.at + d
      /\ prod.at + d < read_idx + Capacity
  BY ONLY <1>1, <1>2, SMTT(60)
<1>4. \A i \in read_idx..(write_idx - 1) : Pos(i) # Pos(prod.at + d)
  BY <1>1, <1>3, FreeWord
<1>5. ASSUME prod.at # write_idx PROVE Pos(write_idx) # Pos(prod.at + d)
  <2>0. d \in Nat
    BY <1>1, SMTT(60)
  <2>1. write_idx < prod.at + d /\ prod.at + d < write_idx + Capacity
    BY ONLY <1>1, <1>3, <1>5, <2>0, SMTT(60)
  <2> QED
    BY <1>1, <1>3, <2>1, PosApart
<1> QED
  BY <1>2, <1>4, <1>5

(* The length goes into a free word. *)
LEMMA SendWritesLengthInv ==
    ASSUME RingInv, RingTypeOK', SendWritesLength
    PROVE  RingInv'
<1>1. /\ prod.pc = "length" /\ data' = [data EXCEPT ![Pos(prod.at)] = prod.packet.len]
      /\ prod' = [prod EXCEPT !.pc = "payload"]
      /\ UNCHANGED <<write_idx, read_idx, cons, sent, received>>
  BY DEF SendWritesLength
<1>2. /\ data \in [Cells -> Nat \cup {Skip}]
      /\ prod \in [pc: {"skip", "length", "payload", "publish"},
                   packet: [len: Lengths, num: Nat], at: Nat]
      /\ prod.packet.len \in Nat
      /\ prod.packet.num = Len(sent) + 1 /\ Len(sent) < MaxSends
      /\ Follows(write_idx, prod.at) /\ Unbroken(prod.at, prod.packet.len)
      /\ prod.at + EntrySize(prod.packet.len) <= read_idx + Capacity
      /\ read_idx \in Nat /\ write_idx \in Nat
  BY <1>1, Reserved
<1>3. prod'.pc = "payload" /\ prod'.at = prod.at /\ prod'.packet = prod.packet
  BY ONLY <1>1, <1>2, ZenonT(60)
<1>4. /\ Pos(prod.at) \in Cells
      /\ \A i \in read_idx..(write_idx - 1) : Pos(i) # Pos(prod.at)
      /\ prod.at # write_idx => Pos(write_idx) # Pos(prod.at)
  <2>1. Pos(prod.at) \in Nat
    BY <1>1, Reserved, SMTT(60) DEF Cells
  <2>2. 0 \in 0..prod.packet.len /\ Pos(prod.at) + 0 = Pos(prod.at)
    BY <1>2, <2>1, SMTT(60)
  <2> QED
    BY <1>1, <2>2, ReservedWord
<1>5. \A i \in read_idx..(write_idx - 1) : data'[Pos(i)] = data[Pos(i)]
  <2> TAKE i \in read_idx..(write_idx - 1)
  <2>1. i \in Nat
    BY <1>2, SMTT(60)
  <2>2. Pos(i) \in Cells
    BY <2>1, PosFacts
  <2> QED
    BY <1>1, <1>2, <1>4, <2>2
<1>6. ProducerAt'
  <2>1. data'[Pos(prod.at)] = prod.packet.len
    BY <1>1, <1>2, <1>4
  <2>2. Follows(write_idx, prod.at)'
    <3>1. Pos(write_idx) \in Cells
      BY <1>2, PosFacts
    <3> QED
      BY <1>1, <1>2, <1>3, <1>4, <3>1 DEF Follows, Gap
  <2>3. Unbroken(prod.at, prod.packet.len)' /\ LengthAt(prod.at, prod.packet.len)'
    BY <1>2, <1>3, <2>1 DEF Unbroken, LengthAt
  <2> QED
    BY <1>1, <1>2, <1>3, <2>2, <2>3 DEF ProducerAt
<1> QED
  BY <1>1, <1>5, <1>6, FreeWritesKeep

(* The payload goes into free words. *)
LEMMA SendWritesPayloadInv ==
    ASSUME RingInv, RingTypeOK', SendWritesPayload
    PROVE  RingInv'
<1> DEFINE len == prod.packet.len
<1>1. /\ prod.pc = "payload"
      /\ data' = [c \in Cells |-> IF len > 0 /\ c \in Payload(prod.at, len)
                                  THEN prod.packet.num ELSE data[c]]
      /\ prod' = [prod EXCEPT !.pc = "publish"]
      /\ UNCHANGED <<write_idx, read_idx, cons, sent, received>>
  BY DEF SendWritesPayload
<1>2. /\ data \in [Cells -> Nat \cup {Skip}]
      /\ prod \in [pc: {"skip", "length", "payload", "publish"},
                   packet: [len: Lengths, num: Nat], at: Nat]
      /\ len \in Nat
      /\ prod.packet.num = Len(sent) + 1 /\ Len(sent) < MaxSends
      /\ Follows(write_idx, prod.at) /\ Unbroken(prod.at, len)
      /\ prod.at + EntrySize(len) <= read_idx + Capacity
      /\ read_idx \in Nat /\ write_idx \in Nat /\ Pos(prod.at) \in Cells
  BY <1>1, Reserved
<1>3. prod'.pc = "publish" /\ prod'.at = prod.at /\ prod'.packet = prod.packet
  BY ONLY <1>1, <1>2, ZenonT(60)
<1>4. Pos(prod.at) \in Nat
  BY <1>2, SMTT(60) DEF Cells
<1>5. \A c \in Payload(prod.at, len) : \E d \in 1..len : c = Pos(prod.at) + d
  <2> SUFFICES ASSUME NEW i \in 0..(len - 1)
               PROVE  \E d \in 1..len : Pos(prod.at) + EntryHeader + i = Pos(prod.at) + d
    BY DEF Payload
  <2>1. i + 1 \in 1..len /\ Pos(prod.at) + EntryHeader + i = Pos(prod.at) + (i + 1)
    BY ONLY <1>2, <1>4, SMTT(60) DEF EntryHeader
  <2> QED
    BY <2>1
<1>6. \A d \in 1..len : Pos(prod.at) + d \in Payload(prod.at, len)
  <2> TAKE d \in 1..len
  <2>1. d - 1 \in 0..(len - 1) /\ Pos(prod.at) + d = Pos(prod.at) + EntryHeader + (d - 1)
    BY ONLY <1>2, <1>4, SMTT(60) DEF EntryHeader
  <2> QED
    BY <2>1 DEF Payload
<1>7. \A i \in read_idx..(write_idx - 1) : data'[Pos(i)] = data[Pos(i)]
  <2> TAKE i \in read_idx..(write_idx - 1)
  <2>1. i \in Nat
    BY <1>2, SMTT(60)
  <2>2. Pos(i) \in Cells
    BY <2>1, PosFacts
  <2>3. Pos(i) \notin Payload(prod.at, len)
    BY <1>1, <1>2, <1>5, ReservedWord, SMTT(60)
  <2> QED
    BY <1>1, <2>2, <2>3
<1>8. ProducerAt'
  <2>1. PayloadAt(prod.at, prod.packet.len, prod.packet.num)'
    <3> SUFFICES ASSUME NEW d \in 1..len PROVE data'[Pos(prod.at) + d] = prod.packet.num
      BY <1>3 DEF PayloadAt, Pos
    <3>1. Pos(prod.at) + d \in Cells
      BY <1>1, <1>2, ReservedWord, SMTT(60)
    <3>2. Pos(prod.at) + d \in Payload(prod.at, len) /\ len > 0
      BY <1>2, <1>6, SMTT(60)
    <3> QED
      BY <1>1, <3>1, <3>2
  <2>2. Pos(prod.at) \notin Payload(prod.at, len)
    BY <1>2, <1>4, <1>5, SMTT(60)
  <2>3. LengthAt(prod.at, prod.packet.len)'
    <3>1. data[Pos(prod.at)] = len
      BY <1>1 DEF RingInv, ProducerAt, LengthAt
    <3> QED
      BY <1>1, <1>2, <1>3, <2>2, <3>1 DEF LengthAt
  <2>4. Follows(write_idx, prod.at)'
    <3>1. Pos(write_idx) \in Cells
      BY <1>2, PosFacts
    <3>2. prod.at # write_idx => Pos(write_idx) \notin Payload(prod.at, len)
      BY <1>1, <1>2, <1>5, ReservedWord, SMTT(60)
    <3> QED
      BY <1>1, <1>2, <1>3, <3>1, <3>2 DEF Follows, Gap
  <2>5. Unbroken(prod.at, prod.packet.len)'
    BY <1>2, <1>3 DEF Unbroken
  <2> QED
    BY <1>1, <1>2, <1>3, <2>1, <2>3, <2>4, <2>5 DEF ProducerAt
<1> QED
  BY <1>1, <1>7, <1>8, FreeWritesKeep

(* The store of write_idx makes the entry pending: it is the last one. *)
LEMMA SendPublishesInv ==
    ASSUME RingInv, RingTypeOK', SendPublishes
    PROVE  RingInv'
<1> DEFINE P == [len: Lengths, num: Nat]
<1>a. prod.pc = "publish"
  BY DEF SendPublishes
<1>b. Len(received) \in Nat /\ Len(sent) \in Nat
  BY Lens DEF RingInv
<1>c. prod.at \in Nat /\ EntrySize(prod.packet.len) \in Nat
  BY <1>a, Reserved
<1>d. PICK n \in Nat : n = Len(sent) + 1
  BY <1>b, SMTT(60)
<1>e. PICK e \in Nat : e = prod.at + EntrySize(prod.packet.len)
  BY <1>c, SMTT(60)
<1>1. /\ prod.pc = "publish" /\ write_idx' = e /\ sent' = Append(sent, prod.packet)
      /\ prod' = Idle /\ UNCHANGED <<read_idx, data, cons, received>>
  BY <1>e DEF SendPublishes
<1>2. /\ RingTypeOK /\ Counted /\ read_idx \in Nat /\ write_idx \in Nat
      /\ read_idx <= write_idx /\ Capacity \in Nat
      /\ prod.at \in Nat /\ prod.packet.len \in Lengths /\ prod.packet.num = n
      /\ Follows(write_idx, prod.at) /\ Unbroken(prod.at, prod.packet.len)
      /\ EntrySize(prod.packet.len) \in Nat /\ EntrySize(prod.packet.len) > 0
      /\ e <= read_idx + Capacity /\ write_idx <= prod.at
  <2>1. Counted
    BY DEF RingInv
  <2>2. prod.packet.len \in Nat
    BY <1>1, Reserved
  <2> QED
    BY <1>1, <1>d, <1>e, <2>1, <2>2, Reserved, SMTT(60) DEF NoOverrun
<1>h. write_idx <= e /\ e \in Nat
  BY ONLY <1>2, <1>e, e \in Nat, SMTT(60)
<1>3. /\ LengthAt(prod.at, prod.packet.len)
      /\ PayloadAt(prod.at, prod.packet.len, n)
  BY <1>1, <1>2 DEF RingInv, ProducerAt
<1>4. /\ Len(received) \in Nat /\ Len(sent) \in Nat /\ Len(received) <= Len(sent)
  BY <1>2, Lens DEF Counted
<1>5. /\ Len(sent') = n /\ sent'[n] = prod.packet
      /\ \A k \in 1..Len(sent) : sent'[k] = sent[k]
  <2>1. sent \in Seq(P) /\ prod.packet \in P
    BY <1>1, <1>2, ProdLocals DEF RingTypeOK
  <2> HIDE DEF P
  <2> QED
    BY ONLY <1>1, <1>d, <2>1, SMTT(60)
<1>6. PICK start, end : /\ start \in [Nat -> Nat] /\ end \in [Nat -> Nat]
                        /\ Layout(start, end) /\ ConsumerAt(start)
  BY DEF RingInv
<1>f. PICK start2 : /\ start2 \in [Nat -> Nat]
                    /\ start2[n] = prod.at /\ \A k \in Nat : k # n => start2[k] = start[k]
  <2> DEFINE f == [start EXCEPT ![n] = prod.at]
  <2>1. f \in [Nat -> Nat] /\ f[n] = prod.at /\ \A k \in Nat : k # n => f[k] = start[k]
    BY <1>2, <1>6
  <2> HIDE DEF f
  <2> QED
    BY <2>1
<1>g. PICK end2 : /\ end2 \in [Nat -> Nat]
                  /\ end2[n] = e /\ \A k \in Nat : k # n => end2[k] = end[k]
  <2> DEFINE f == [end EXCEPT ![n] = e]
  <2>1. f \in [Nat -> Nat] /\ f[n] = e /\ \A k \in Nat : k # n => f[k] = end[k]
    BY <1>2, <1>6
  <2> HIDE DEF f
  <2> QED
    BY <2>1
<1>7. /\ start2 \in [Nat -> Nat] /\ end2 \in [Nat -> Nat] /\ start2[n] = prod.at /\ end2[n] = e
      /\ \A k \in Nat : k # n => start2[k] = start[k] /\ end2[k] = end[k]
  BY <1>f, <1>g
<1>8. ASSUME NEW k \in Pending
      PROVE  /\ k \in 1..Len(sent) /\ k # n /\ k - 1 # n /\ k \in Nat /\ k - 1 \in Nat
  <2>1. k \in 1..Len(sent) /\ k \in Nat /\ k - 1 \in Nat
    BY <1>2, <1>6, EntryBounds
  <2> QED
    BY ONLY <1>4, <1>d, <2>1, SMTT(60)
<1>9. Len(sent) # n /\ Len(received) # n /\ n - 1 = Len(sent)
  BY ONLY <1>4, <1>d, SMTT(60)
<1>10. end[Len(sent)] = write_idx /\ end[Len(received)] = read_idx
  BY <1>6 DEF Layout
<1>11. Layout(start2, end2)'
  <2>1. end2[Len(received')] = read_idx' /\ end2[Len(sent')] = write_idx'
    BY <1>1, <1>4, <1>5, <1>7, <1>9, <1>10
  <2>2. ASSUME NEW j \in Len(received)..n, NEW k \in Len(received)..n, j <= k
        PROVE  end2[j] <= end2[k]
    <3>1. j \in Nat /\ k \in Nat /\ (j # n => j \in Len(received)..Len(sent))
          /\ (k # n => k \in Len(received)..Len(sent))
      BY ONLY <1>4, <1>d, SMTT(60)
    <3>2. CASE k # n
      <4>1. j # n
        BY ONLY <1>4, <2>2, <3>1, <3>2, <1>d, SMTT(60)
      <4>2. end[j] <= end[k]
        BY <1>6, <2>2, <3>1, <3>2, <4>1 DEF Layout
      <4> QED
        BY <1>7, <3>1, <3>2, <4>1, <4>2
    <3>3. CASE k = n /\ j = n
      BY <1>7, <3>3, SMTT(60)
    <3>4. CASE k = n /\ j # n
      <4>1. end[j] <= end[Len(sent)]
        <5>1. Len(sent) \in Len(received)..Len(sent) /\ j <= Len(sent)
          BY ONLY <1>4, <3>1, <3>4, SMTT(60)
        <5> QED
          BY <1>6, <3>1, <3>4, <5>1 DEF Layout
      <4>2. end[j] \in Nat
        BY <1>6, <3>1
      <4>3. end[j] <= write_idx /\ end2[j] = end[j] /\ end2[k] = e
        BY <1>7, <1>10, <3>1, <3>4, <4>1
      <4> QED
        BY ONLY <1>2, <1>h, <4>2, <4>3, SMTT(60)
    <3> QED
      BY <3>2, <3>3, <3>4
  <2>3. ASSUME NEW k \in Pending
        PROVE  /\ Follows(end2[k - 1], start2[k])'
               /\ end2[k] = start2[k] + EntrySize(sent'[k].len)
               /\ Unbroken(start2[k], sent[k].len)'
               /\ LengthAt(start2[k], sent[k].len)'
               /\ PayloadAt(start2[k], sent[k].len, k)'
    <3>1. start2[k] = start[k] /\ end2[k] = end[k] /\ end2[k - 1] = end[k - 1] /\ sent'[k] = sent[k]
      BY <1>5, <1>7, <1>8
    <3> QED
      BY <1>1, <1>6, <3>1 DEF Layout, Follows, Unbroken, LengthAt, PayloadAt, Gap
  <2>4. /\ Follows(end2[n - 1], start2[n])'
        /\ end2[n] = start2[n] + EntrySize(sent'[n].len)
        /\ Unbroken(start2[n], sent[n].len)'
        /\ LengthAt(start2[n], sent[n].len)'
        /\ PayloadAt(start2[n], sent[n].len, n)'
    <3>1. start2[n] = prod.at /\ end2[n] = e /\ end2[n - 1] = write_idx /\ sent'[n] = prod.packet
      BY <1>4, <1>5, <1>7, <1>9, <1>10
    <3> QED
      BY <1>1, <1>2, <1>3, <1>e, <3>1 DEF Follows, Unbroken, LengthAt, PayloadAt, Gap
  <2>5. \A k \in Pending' : k \in Pending \/ k = n
    BY <1>1, <1>4, <1>5, <1>d, SMTT(60) DEF Pending
  <2>6. Len(received')..Len(sent') = Len(received)..n
    BY <1>1, <1>5
  <2> QED
    BY <2>1, <2>2, <2>3, <2>4, <2>5, <2>6 DEF Layout
<1>12. ConsumerAt(start2)'
  <2>1. read_idx < write_idx => Len(received) + 1 \in Pending
    BY <1>2, <1>4, <1>10, SMTT(60) DEF Pending
  <2>2. read_idx < write_idx =>
          start2[Len(received) + 1] = start[Len(received) + 1]
          /\ sent'[Len(received) + 1] = sent[Len(received) + 1]
    BY <1>5, <1>7, <1>8, <2>1
  <2>3. write_idx <= write_idx' /\ write_idx' \in Nat
    BY <1>1, <1>2, <1>e, SMTT(60)
  <2>4. cons.pc # "idle" => read_idx < write_idx
    BY <1>6 DEF ConsumerAt
  <2>5. cons'.pc # "idle" => read_idx' < write_idx'
    BY <1>1, <1>2, <2>3, <2>4, SMTT(60)
  <2> QED
    BY <1>1, <1>6, <2>2, <2>4, <2>5 DEF ConsumerAt
<1>13. NoOverrun'
  BY <1>1, <1>2, <1>e, SMTT(60) DEF NoOverrun
<1>14. Counted'
  <2>1. \A k \in 1..n : sent'[k].num = k
    BY <1>2, <1>4, <1>5, <1>d, SMTT(60) DEF Counted
  <2> QED
    BY <1>1, <1>2, <1>4, <1>5, <1>d, <2>1, SMTT(60) DEF Counted
<1>15. ProducerAt'
  BY <1>1 DEF ProducerAt, Idle
<1> QED
  BY <1>7, <1>11, <1>12, <1>13, <1>14, <1>15 DEF RingInv

----------------------------------------------------------------------------
(* try_recv keeps the invariant. *)

(* What the producer has reserved stays reserved when read_idx grows. *)
LEMMA ReservationKept ==
    ASSUME RingInv, UNCHANGED <<write_idx, data, prod, sent>>,
           read_idx' \in Nat, read_idx <= read_idx'
    PROVE  ProducerAt'
<1>1. read_idx \in Nat /\ write_idx \in Nat /\ Capacity \in Nat /\ ProducerAt
  BY RingAssumption DEF RingInv, RingTypeOK
<1>2. CASE prod.pc = "idle"
  BY <1>2 DEF ProducerAt
<1>3. CASE prod.pc # "idle"
  <2>1. prod.at \in Nat /\ EntrySize(prod.packet.len) \in Nat /\ Gap(write_idx) \in Nat
    BY <1>1, <1>3, ProdLocals, LengthFacts, PosFacts, SMTT(60) DEF RingInv
  <2>2. \A x \in Nat : x <= read_idx + Capacity => x <= read_idx' + Capacity
    <3>1. ASSUME NEW r \in Nat, NEW q \in Nat, r <= q, NEW x \in Nat, x <= r + Capacity
          PROVE  x <= q + Capacity
      BY ONLY <3>1, RingAssumption, SMTT(60)
    <3> QED
      BY <1>1, <3>1
  <2>3. prod.pc \in {"length", "payload", "publish"} =>
          prod.at + EntrySize(prod.packet.len) <= read_idx' + Capacity
    BY <1>1, <2>1, <2>2, SMTT(60) DEF ProducerAt
  <2>4. prod.pc = "skip" =>
          write_idx + Gap(write_idx) + EntrySize(prod.packet.len) <= read_idx' + Capacity
    BY <1>1, <2>1, <2>2, SMTT(60) DEF ProducerAt
  <2> QED
    BY <1>1, <2>3, <2>4
    DEF ProducerAt, Follows, Unbroken, LengthAt, PayloadAt, Gap, Wraps
<1> QED
  BY <1>2, <1>3

(* The entry at read_idx is that of the next packet. *)
LEMMA FirstPending ==
    ASSUME RingInv, read_idx < write_idx, NEW start, NEW end,
           start \in [Nat -> Nat], end \in [Nat -> Nat], Layout(start, end),
           NEW k, k = Len(received) + 1
    PROVE  /\ k \in Pending /\ k \in Nat /\ k \in 1..Len(sent) /\ k - 1 = Len(received)
           /\ Follows(read_idx, start[k])
           /\ start[k] \in Nat /\ end[k] \in Nat /\ read_idx <= start[k]
           /\ start[k] < end[k] /\ end[k] <= write_idx
           /\ end[k] = start[k] + EntrySize(sent[k].len)
           /\ Unbroken(start[k], sent[k].len)
           /\ LengthAt(start[k], sent[k].len)
           /\ PayloadAt(start[k], sent[k].len, k)
           /\ sent[k].len \in Lengths /\ sent[k] = [len |-> sent[k].len, num |-> k]
<1>1. RingTypeOK /\ Counted /\ read_idx \in Nat /\ write_idx \in Nat
  BY DEF RingInv, RingTypeOK
<1>2. /\ Len(received) \in Nat /\ Len(sent) \in Nat /\ Len(received) <= Len(sent)
  BY <1>1, Lens DEF Counted
<1>3. end[Len(received)] = read_idx /\ end[Len(sent)] = write_idx
  BY DEF Layout
<1>4. Len(received) # Len(sent)
  BY <1>1, <1>3, SMTT(60)
<1>5. k \in Nat /\ k - 1 = Len(received) /\ k \in (Len(received) + 1)..Len(sent)
  BY ONLY <1>2, <1>4, k = Len(received) + 1, SMTT(60)
<1>6. k \in Pending
  BY <1>5 DEF Pending
<1>7. /\ k \in 1..Len(sent) /\ start[k] \in Nat /\ end[k] \in Nat
      /\ read_idx <= end[k - 1] /\ end[k - 1] <= start[k]
      /\ start[k] < end[k] /\ end[k] <= write_idx
      /\ sent[k].len \in Lengths
      /\ end[k] = start[k] + EntrySize(sent[k].len)
  BY <1>1, <1>6, EntryBounds
<1>8. sent[k] = [len |-> sent[k].len, num |-> k]
  BY <1>1, <1>7, Lens
<1>9. end[k - 1] = read_idx
  BY <1>3, <1>5
<1> QED
  BY <1>5, <1>6, <1>7, <1>8, <1>9 DEF Layout

(* The consumer reads the indices. *)
LEMMA RecvBeginsInv ==
    ASSUME RingInv, RingTypeOK', RecvBegins
    PROVE  RingInv'
<1>1. PICK start, end : /\ start \in [Nat -> Nat] /\ end \in [Nat -> Nat]
                        /\ Layout(start, end) /\ ConsumerAt(start)
  BY DEF RingInv
<1>2. /\ UNCHANGED <<write_idx, read_idx, data, prod, sent, received>>
      /\ cons' = [pc |-> "length"] /\ read_idx < write_idx
  BY DEF RecvBegins
<1>3. Layout(start, end)'
  BY <1>1, <1>2, LayoutKept DEF RingInv
<1>4. ConsumerAt(start)'
  BY <1>2 DEF ConsumerAt
<1>5. NoOverrun' /\ Counted'
  BY <1>2 DEF RingInv, NoOverrun, Counted
<1>6. ProducerAt'
  <2>1. read_idx' \in Nat /\ read_idx <= read_idx'
    BY <1>2, SMTT(60) DEF RingInv, RingTypeOK
  <2> QED
    BY <1>2, <2>1, ReservationKept
<1> QED
  BY <1>1, <1>3, <1>4, <1>5, <1>6 DEF RingInv

(* A marker is followed by the next entry at the start of the area. *)
LEMMA RecvSkipsInv ==
    ASSUME RingInv, RingTypeOK', RecvSkips
    PROVE  RingInv'
<1>1. /\ cons.pc = "length" /\ data[Pos(read_idx)] = Skip
      /\ read_idx' = read_idx + Gap(read_idx) /\ cons' = Idle
      /\ UNCHANGED <<write_idx, data, prod, sent, received>>
  BY DEF RecvSkips
<1>2. /\ RingTypeOK /\ Counted /\ read_idx \in Nat /\ write_idx \in Nat
      /\ Capacity \in Nat /\ write_idx - read_idx <= Capacity
      /\ Len(received) \in Nat /\ Len(sent) \in Nat /\ Len(received) <= Len(sent)
  BY Lens, RingAssumption DEF RingInv, RingTypeOK, NoOverrun, Counted
<1>3. Gap(read_idx) \in 1..Capacity
  BY <1>2, PosFacts
<1>4. PICK k \in Nat : k = Len(received) + 1
  BY <1>2, SMTT(60)
<1>5. PICK r \in Nat : r = read_idx + Gap(read_idx)
  BY <1>2, <1>3, SMTT(60)
<1>6. read_idx < r
  BY ONLY <1>2, <1>3, <1>5, SMTT(60)
<1>7. PICK start, end : /\ start \in [Nat -> Nat] /\ end \in [Nat -> Nat]
                        /\ Layout(start, end) /\ ConsumerAt(start)
  BY DEF RingInv
<1>8. read_idx < write_idx
  BY <1>1, <1>7 DEF ConsumerAt
<1>9. /\ k \in Pending /\ k - 1 = Len(received) /\ Follows(read_idx, start[k])
      /\ LengthAt(start[k], sent[k].len) /\ sent[k].len \in Lengths
      /\ start[k] \in Nat /\ end[k] \in Nat
      /\ start[k] < end[k] /\ end[k] <= write_idx
  BY <1>4, <1>7, <1>8, FirstPending
<1>10. start[k] = r
  <2>1. sent[k].len # Skip
    BY <1>9, LengthFacts, RingAssumption
  <2>2. start[k] # read_idx
    BY <1>1, <1>9, <2>1 DEF LengthAt
  <2> QED
    BY <1>5, <1>9, <2>2 DEF Follows
<1>11. PICK end2 : /\ end2 \in [Nat -> Nat] /\ end2[Len(received)] = r
                   /\ \A j \in Nat : j # Len(received) => end2[j] = end[j]
  <2> DEFINE f == [end EXCEPT ![Len(received)] = r]
  <2>1. /\ f \in [Nat -> Nat] /\ f[Len(received)] = r
        /\ \A j \in Nat : j # Len(received) => f[j] = end[j]
    BY <1>2, <1>7
  <2> HIDE DEF f
  <2> QED
    BY <2>1
<1>12. Len(sent) # Len(received) /\ k \in Len(received)..Len(sent)
  BY ONLY <1>2, <1>4, <1>9, SMTT(60) DEF Pending
<1>13. Layout(start, end2)'
  <2>1. end2[Len(received')] = read_idx' /\ end2[Len(sent')] = write_idx'
    BY <1>1, <1>2, <1>5, <1>7, <1>11, <1>12 DEF Layout
  <2>2. ASSUME NEW i \in Len(received)..Len(sent), NEW j \in Len(received)..Len(sent), i <= j
        PROVE  end2[i] <= end2[j]
    <3>1. i \in Nat /\ j \in Nat /\ (j = Len(received) => i = Len(received))
          /\ (j # Len(received) => k <= j)
      BY ONLY <1>2, <1>4, <2>2, SMTT(60)
    <3>2. CASE i # Len(received)
      BY <1>7, <1>11, <2>2, <3>1, <3>2 DEF Layout
    <3>3. CASE i = Len(received) /\ j = Len(received)
      BY <1>11, <3>3, SMTT(60)
    <3>4. CASE i = Len(received) /\ j # Len(received)
      <4>1. end[k] <= end[j] /\ end[j] \in Nat
        BY <1>7, <1>12, <3>1, <3>4 DEF Layout
      <4>2. end2[i] = start[k] /\ end2[j] = end[j]
        BY <1>10, <1>11, <3>1, <3>4
      <4> QED
        BY ONLY <1>9, <4>1, <4>2, SMTT(60)
    <3> QED
      BY <3>2, <3>3, <3>4
  <2>3. ASSUME NEW i \in Pending
        PROVE  /\ Follows(end2[i - 1], start[i])'
               /\ end2[i] = start[i] + EntrySize(sent[i].len)
               /\ Unbroken(start[i], sent[i].len)
               /\ LengthAt(start[i], sent[i].len)'
               /\ PayloadAt(start[i], sent[i].len, i)'
    <3>1. i \in Nat /\ i - 1 \in Nat /\ i # Len(received) /\ (i # k => i - 1 # Len(received))
      BY ONLY <1>2, <1>4, SMTT(60) DEF Pending
    <3>2. Follows(end2[i - 1], start[i])'
      <4>1. CASE i = k
        BY <1>9, <1>10, <1>11, <4>1 DEF Follows
      <4>2. CASE i # k
        BY <1>1, <1>7, <1>11, <3>1, <4>2 DEF Layout, Follows, Gap
      <4> QED
        BY <4>1, <4>2
    <3> QED
      BY <1>1, <1>7, <1>11, <3>1, <3>2 DEF Layout, Unbroken, LengthAt, PayloadAt
  <2> QED
    BY <1>1, <2>1, <2>2, <2>3 DEF Layout, Pending, Unbroken
<1>14. ConsumerAt(start)'
  BY <1>1 DEF ConsumerAt, Idle
<1>15. r <= write_idx
  BY ONLY <1>2, <1>9, <1>10, SMTT(60)
<1>16. NoOverrun'
  BY ONLY <1>1, <1>2, <1>5, <1>6, <1>15, SMTT(60) DEF NoOverrun
<1>17. Counted' /\ ProducerAt'
  BY <1>1, <1>2, <1>5, <1>6, ReservationKept, SMTT(60) DEF Counted
<1>18. \E a, b \in [Nat -> Nat] : Layout(a, b)' /\ ConsumerAt(a)'
  BY <1>7, <1>11, <1>13, <1>14
<1> QED
  BY <1>16, <1>17, <1>18 DEF RingInv

(* The word at read_idx is the length of the oldest packet, or a marker. *)
LEMMA RecvReadsLengthInv ==
    ASSUME RingInv, RingTypeOK', RecvReadsLength
    PROVE  RingInv'
<1>1. /\ cons.pc = "length" /\ data[Pos(read_idx)] # Skip
      /\ cons' = IF data[Pos(read_idx)] > BufLen THEN Idle
                 ELSE [pc |-> "payload", len |-> data[Pos(read_idx)]]
      /\ UNCHANGED <<write_idx, read_idx, data, prod, sent, received>>
  BY DEF RecvReadsLength
<1>2. PICK start, end : /\ start \in [Nat -> Nat] /\ end \in [Nat -> Nat]
                        /\ Layout(start, end) /\ ConsumerAt(start)
  BY DEF RingInv
<1>3. read_idx < write_idx
  BY <1>1, <1>2 DEF ConsumerAt
<1>4. PICK k : k = Len(received) + 1
  OBVIOUS
<1>5. Follows(read_idx, start[k]) /\ LengthAt(start[k], sent[k].len)
  BY <1>2, <1>3, <1>4, FirstPending
<1>6. start[k] = read_idx /\ data[Pos(read_idx)] = sent[k].len
  BY <1>1, <1>5 DEF Follows, LengthAt
<1>7. Layout(start, end)'
  BY <1>1, <1>2, LayoutKept DEF RingInv
<1>8. ConsumerAt(start)'
  <2>1. CASE data[Pos(read_idx)] > BufLen
    BY <1>1, <2>1 DEF ConsumerAt, Idle
  <2>2. CASE ~(data[Pos(read_idx)] > BufLen)
    <3>1. cons'.pc = "payload" /\ cons'.len = sent[k].len
      BY <1>1, <1>6, <2>2
    <3> QED
      BY <1>1, <1>3, <1>4, <1>6, <3>1 DEF ConsumerAt
  <2> QED
    BY <2>1, <2>2
<1>9. NoOverrun' /\ Counted'
  BY <1>1 DEF RingInv, NoOverrun, Counted
<1>10. ProducerAt'
  <2>1. read_idx' \in Nat /\ read_idx <= read_idx'
    BY <1>1, SMTT(60) DEF RingInv, RingTypeOK
  <2> QED
    BY <1>1, <2>1, ReservationKept
<1> QED
  BY <1>2, <1>7, <1>8, <1>9, <1>10 DEF RingInv

(* The payload that is copied is that of the packet, whole: the buffer      *)
(* holds its number and nothing else.                                       *)
LEMMA RecvCopiesInv ==
    ASSUME RingInv, RingTypeOK', RecvCopies
    PROVE  RingInv'
<1>1. /\ cons.pc = "payload"
      /\ cons' = [pc |-> "release", len |-> cons.len, words |-> Copied]
      /\ UNCHANGED <<write_idx, read_idx, data, prod, sent, received>>
  BY DEF RecvCopies
<1>2. PICK start, end : /\ start \in [Nat -> Nat] /\ end \in [Nat -> Nat]
                        /\ Layout(start, end) /\ ConsumerAt(start)
  BY DEF RingInv
<1>3. PICK k : k = Len(received) + 1
  OBVIOUS
<1>4. read_idx < write_idx /\ cons.len = sent[k].len /\ start[k] = read_idx
  BY <1>1, <1>2, <1>3 DEF ConsumerAt
<1>5. /\ Unbroken(read_idx, cons.len) /\ PayloadAt(read_idx, cons.len, k)
      /\ cons.len \in Lengths
  BY <1>2, <1>3, <1>4, FirstPending
<1>6. ASSUME cons.len > 0 PROVE Copied = {k}
  <2>1. read_idx \in Nat /\ Pos(read_idx) \in Nat /\ cons.len \in Nat
    <3>1. read_idx \in Nat
      BY DEF RingInv, RingTypeOK
    <3> QED
      BY <1>5, <3>1, PosFacts, LengthFacts, SMTT(60) DEF Cells
  <2>2. ASSUME NEW c \in Payload(read_idx, cons.len) PROVE data[c] = k
    <3>1. PICK i \in 0..(cons.len - 1) : c = Pos(read_idx) + EntryHeader + i
      BY DEF Payload
    <3>2. i + 1 \in 1..cons.len /\ c = Pos(read_idx) + (i + 1)
      BY ONLY <2>1, <3>1, SMTT(60) DEF EntryHeader
    <3> QED
      BY <1>5, <3>2 DEF PayloadAt
  <2>3. Pos(read_idx) + 1 \in Payload(read_idx, cons.len) \cap Cells
    <3>1. 0 \in 0..(cons.len - 1) /\ Pos(read_idx) + 1 = Pos(read_idx) + EntryHeader + 0
          /\ 1 \in 0..cons.len
      BY ONLY <1>6, <2>1, SMTT(60) DEF EntryHeader
    <3>2. Pos(read_idx) + 1 \in Cells
      BY <1>5, <2>1, <3>1, EntryWords
    <3> QED
      BY <3>1, <3>2 DEF Payload
  <2> QED
    BY <2>2, <2>3 DEF Copied
<1>7. Layout(start, end)'
  BY <1>1, <1>2, LayoutKept DEF RingInv
<1>8. ConsumerAt(start)'
  <2>1. cons'.pc = "release" /\ cons'.len = cons.len /\ cons'.words = Copied
    BY <1>1
  <2> QED
    BY <1>1, <1>3, <1>4, <1>6, <2>1 DEF ConsumerAt
<1>9. NoOverrun' /\ Counted'
  BY <1>1 DEF RingInv, NoOverrun, Counted
<1>10. ProducerAt'
  <2>1. read_idx' \in Nat /\ read_idx <= read_idx'
    BY <1>1, SMTT(60) DEF RingInv, RingTypeOK
  <2> QED
    BY <1>1, <2>1, ReservationKept
<1> QED
  BY <1>2, <1>7, <1>8, <1>9, <1>10 DEF RingInv

(* What try_recv returns is the next packet. *)
LEMMA DeliversNext ==
    ASSUME RingInv, RecvReleases
    PROVE  /\ Len(received) < Len(sent)
           /\ received' = Append(received, sent[Len(received) + 1])
<1>1. /\ cons.pc = "release" /\ received' = Append(received, Delivered(cons.len, cons.words))
  BY DEF RecvReleases
<1>2. PICK start, end : /\ start \in [Nat -> Nat] /\ end \in [Nat -> Nat]
                        /\ Layout(start, end) /\ ConsumerAt(start)
  BY DEF RingInv
<1>3. PICK k : k = Len(received) + 1
  OBVIOUS
<1>4. /\ read_idx < write_idx /\ cons.len = sent[k].len
      /\ cons.len > 0 => cons.words = {k}
  BY <1>1, <1>2, <1>3 DEF ConsumerAt
<1>5. /\ k \in 1..Len(sent) /\ cons.len \in Lengths
      /\ sent[k] = [len |-> cons.len, num |-> k]
  BY <1>2, <1>3, <1>4, FirstPending
<1>6. Len(received) \in Nat /\ Len(sent) \in Nat
  BY Lens DEF RingInv
<1>7. Len(received) < Len(sent)
  BY ONLY <1>3, <1>5, <1>6, SMTT(60)
<1>8. Delivered(cons.len, cons.words) = sent[k]
  <2>1. CASE cons.len = 0
    BY <1>3, <1>5, <2>1 DEF Delivered
  <2>2. CASE cons.len # 0
    <3>1. cons.words = {k}
      BY <1>4, <1>5, <2>2, LengthFacts, SMTT(60)
    <3>2. (CHOOSE n \in cons.words : TRUE) = k /\ \E n \in cons.words : cons.words = {n}
      BY <3>1
    <3> QED
      BY <1>5, <2>2, <3>2 DEF Delivered
  <2> QED
    BY <2>1, <2>2
<1> QED
  BY <1>1, <1>3, <1>7, <1>8

(* The store of read_idx releases the entry; the next one is first. *)
LEMMA RecvReleasesInv ==
    ASSUME RingInv, RingTypeOK', RecvReleases
    PROVE  RingInv'
<1> DEFINE P == [len: Lengths, num: Nat]
<1>1. /\ cons.pc = "release" /\ read_idx' = read_idx + EntrySize(cons.len) /\ cons' = Idle
      /\ UNCHANGED <<write_idx, data, prod, sent>>
  BY DEF RecvReleases
<1>2. /\ RingTypeOK /\ Counted /\ read_idx \in Nat /\ write_idx \in Nat
      /\ Capacity \in Nat /\ write_idx - read_idx <= Capacity
      /\ Len(received) \in Nat /\ Len(sent) \in Nat
  BY Lens, RingAssumption DEF RingInv, RingTypeOK, NoOverrun
<1>3. PICK k : k = Len(received) + 1 /\ k \in Nat
  BY <1>2, SMTT(60)
<1>4. received' = Append(received, sent[k]) /\ k \in 1..Len(sent)
  <2>1. Len(received) < Len(sent) /\ received' = Append(received, sent[Len(received) + 1])
    BY DeliversNext
  <2> QED
    BY <1>2, <1>3, <2>1, SMTT(60)
<1>5. Len(received') = k /\ received' \in Seq(P)
  <2>1. received \in Seq(P) /\ sent[k] \in P
    BY <1>2, <1>4, Lens DEF Counted
  <2> HIDE DEF P
  <2> QED
    BY ONLY <1>3, <1>4, <2>1, SMTT(60)
<1>6. PICK start, end : /\ start \in [Nat -> Nat] /\ end \in [Nat -> Nat]
                        /\ Layout(start, end) /\ ConsumerAt(start)
  BY DEF RingInv
<1>7. read_idx < write_idx /\ cons.len = sent[k].len /\ start[k] = read_idx
  BY <1>1, <1>3, <1>6 DEF ConsumerAt
<1>8. /\ k \in Pending /\ start[k] \in Nat /\ end[k] \in Nat
      /\ start[k] < end[k] /\ end[k] <= write_idx
      /\ end[k] = start[k] + EntrySize(sent[k].len)
  <2>1. k = Len(received) + 1 /\ read_idx < write_idx
    BY <1>3, <1>7
  <2>2. /\ k \in Pending /\ start[k] \in Nat /\ end[k] \in Nat
        /\ start[k] < end[k] /\ end[k] <= write_idx
    BY <1>6, <2>1, FirstPending
  <2>3. end[k] = start[k] + EntrySize(sent[k].len)
    BY <1>6, <2>2 DEF Layout
  <2> QED
    BY <2>2, <2>3
<1>9. read_idx' = end[k]
  BY <1>1, <1>7, <1>8
<1>10. read_idx' \in Nat /\ read_idx <= read_idx' /\ read_idx' <= write_idx
  BY ONLY <1>2, <1>7, <1>8, <1>9, SMTT(60)
<1>11. Layout(start, end)'
  <2>1. \A j \in k..Len(sent) : j \in Len(received)..Len(sent)
    BY ONLY <1>2, <1>3, SMTT(60)
  <2>2. \A j \in Pending' : j \in Pending
    BY ONLY <1>1, <1>2, <1>3, <1>5, SMTT(60) DEF Pending
  <2>3. end[Len(received')] = read_idx' /\ end[Len(sent')] = write_idx'
    BY <1>1, <1>5, <1>6, <1>9 DEF Layout
  <2>4. \A i, j \in Len(received')..Len(sent') : i <= j => end[i] <= end[j]
    BY <1>1, <1>5, <1>6, <2>1 DEF Layout
  <2> QED
    BY <1>1, <1>6, <2>2, <2>3, <2>4
    DEF Layout, Follows, Unbroken, LengthAt, PayloadAt, Gap
<1>12. ConsumerAt(start)'
  BY <1>1 DEF ConsumerAt, Idle
<1>13. NoOverrun'
  BY ONLY <1>1, <1>2, <1>10, SMTT(60) DEF NoOverrun
<1>14. Counted'
  <2>1. Len(received') <= Len(sent')
    BY <1>1, <1>2, <1>4, <1>5, SMTT(60)
  <2> QED
    BY <1>1, <1>2, <1>5, <2>1 DEF Counted
<1>15. ProducerAt'
  BY <1>1, <1>10, ReservationKept
<1> QED
  BY <1>6, <1>11, <1>12, <1>13, <1>14, <1>15 DEF RingInv

----------------------------------------------------------------------------
(* An unused ring is empty. *)
LEMMA RingInvInit == RingInit => RingInv
<1> SUFFICES ASSUME RingInit PROVE RingInv
  OBVIOUS
<1>1. RingTypeOK
  BY SMTT(60) DEF RingInit, RingTypeOK, ProdStates, ConsStates
<1>2. Len(sent) = 0 /\ Len(received) = 0 /\ received \in Seq([len: Lengths, num: Nat])
  BY SMTT(60) DEF RingInit
<1>3. NoOverrun /\ Counted
  BY <1>2, RingAssumption, SMTT(60) DEF RingInit, NoOverrun, Counted
<1>4. ProducerAt
  BY DEF RingInit, ProducerAt, Idle
<1> DEFINE f == [k \in Nat |-> 0]
<1>5. f \in [Nat -> Nat] /\ f[0] = 0
  OBVIOUS
<1> HIDE DEF f
<1>6. Layout(f, f)
  <2>1. Pending = {} /\ Len(received)..Len(sent) = {0}
    BY <1>2, SMTT(60) DEF Pending
  <2> QED
    BY <1>2, <1>5, <2>1 DEF Layout, RingInit
<1>7. ConsumerAt(f)
  BY DEF RingInit, ConsumerAt, Idle
<1> QED
  BY <1>1, <1>3, <1>4, <1>5, <1>6, <1>7 DEF RingInv

(* Every access keeps the invariant. *)
LEMMA RingInvNext == RingInv /\ [RingNext]_ringVars => RingInv'
<1> SUFFICES ASSUME RingInv, [RingNext]_ringVars PROVE RingInv'
  OBVIOUS
<1>0. RingTypeOK
  BY DEF RingInv
<1>1. CASE Produce
  <2>1. RingTypeOK'
    BY <1>0, <1>1, ProduceTypeOK
  <2> QED
    BY <1>1, <2>1, SendBeginsInv, SendSkipsInv, SendWritesLengthInv,
       SendWritesPayloadInv, SendPublishesInv DEF Produce
<1>2. CASE Consume
  <2>1. RingTypeOK'
    BY <1>0, <1>2, ConsumeTypeOK
  <2> QED
    BY <1>2, <2>1, RecvBeginsInv, RecvSkipsInv, RecvReadsLengthInv,
       RecvCopiesInv, RecvReleasesInv DEF Consume
<1>3. CASE UNCHANGED ringVars
  <2>1. UNCHANGED <<write_idx, read_idx, data, prod, cons, sent, received>>
    BY <1>3 DEF ringVars
  <2>2. RingTypeOK'
    BY <1>0, <2>1 DEF RingTypeOK
  <2>3. ProducerAt'
    BY <2>1 DEF RingInv, ProducerAt, Follows, Unbroken, LengthAt, PayloadAt, Gap, Wraps
  <2> QED
    BY <2>1, <2>2, <2>3, FreeWritesKeep
<1> QED
  BY <1>1, <1>2, <1>3 DEF RingNext

(* The words between the indices are the unread packets, in every state.   *)
THEOREM RingInvariant == RingSpec => []RingInv
BY RingInvInit, RingInvNext, PTL DEF RingSpec

(* Whatever both sides do at the same time, for every capacity and packet   *)
(* size: neither index passes the other by more than the ring, the entry    *)
(* being written lies inside the area in words the consumer has released,   *)
(* and an emptied ring accepts every packet.                                *)
THEOREM RingIsSafe == RingSpec => [](NoOverrun /\ WritesFreeWords /\ EmptyAccepts)
<1>1. RingInv => NoOverrun
  BY DEF RingInv
<1>2. RingInv => WritesFreeWords
  <2> SUFFICES ASSUME RingInv, prod.pc \in {"length", "payload", "publish"}
               PROVE  /\ Pos(prod.at) + EntrySize(prod.packet.len) <= Capacity
                      /\ prod.at + EntrySize(prod.packet.len) - read_idx <= Capacity
    BY DEF WritesFreeWords
  <2>1. /\ prod.at \in Nat /\ read_idx \in Nat /\ Capacity \in Nat
        /\ EntrySize(prod.packet.len) \in Nat
        /\ Unbroken(prod.at, prod.packet.len)
        /\ prod.at + EntrySize(prod.packet.len) <= read_idx + Capacity
    BY Reserved
  <2> QED
    BY ONLY <2>1, SMTT(60) DEF Unbroken
<1> QED
  BY <1>1, <1>2, RingInvariant, EmptiedRingAccepts, PTL

(* The ring implements the queue: packets are received whole, once and in   *)
(* the order in which they were sent.  Only the store of write_idx and the  *)
(* store of read_idx that ends a receive are steps of the queue.            *)
THEOREM RingImplementsFifo == RingSpec => ImplementsFifo
<1>1. RingInit => Fifo!Init
  BY DEF RingInit, Fifo!Init
<1>2. RingInv /\ [RingNext]_ringVars => [Fifo!Next]_(Fifo!vars)
  <2> SUFFICES ASSUME RingInv, [RingNext]_ringVars PROVE [Fifo!Next]_(Fifo!vars)
    OBVIOUS
  <2>1. CASE SendPublishes
    <3>1. /\ prod.packet \in [len: Lengths, num: Nat]
          /\ prod.packet.num = Len(sent) + 1 /\ Len(sent) < MaxSends
          /\ Len(sent) \in Nat
      BY <2>1, ProdLocals, Reserved, Lens DEF SendPublishes, RingInv
    <3>2. prod.packet \in Packets
      BY <3>1, RingAssumption, SMTT(60) DEF Packets, Numbers
    <3>3. sent' = Append(sent, prod.packet) /\ UNCHANGED received
      BY <2>1 DEF SendPublishes
    <3> QED
      BY <3>2, <3>3 DEF Fifo!Next, Fifo!Send
  <2>2. CASE RecvReleases
    <3>1. /\ Len(received) < Len(sent) /\ received' = Append(received, sent[Len(received) + 1])
      BY <2>2, DeliversNext
    <3>2. UNCHANGED sent
      BY <2>2 DEF RecvReleases
    <3> QED
      BY <3>1, <3>2 DEF Fifo!Next, Fifo!Receive
  <2>3. CASE UNCHANGED <<sent, received>>
    BY <2>3 DEF Fifo!vars
  <2> QED
    BY <2>1, <2>2, <2>3
    DEF RingNext, ringVars, Produce, Consume, SendBegins, SendSkips, SendWritesLength,
        SendWritesPayload, RecvBegins, RecvSkips, RecvReadsLength, RecvCopies
<1> QED
  BY <1>1, <1>2, RingInvariant, PTL DEF RingSpec, ImplementsFifo, Fifo!Spec
=============================================================================
