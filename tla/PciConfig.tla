------------------------------ MODULE PciConfig ------------------------------
(***************************************************************************)
(* The PCI transport (visor-vmm transport/pci.rs, transport/pci_bus.rs):   *)
(* configuration space reached through the address and data ports, the     *)
(* size-detection protocol of the base address register, and the MSI-X     *)
(* table and pending bits in BAR 4.  Registers are 32-bit aligned; a BAR   *)
(* value is kept in units of 256 bytes, its low byte being masked off.     *)
(***************************************************************************)
EXTENDS Integers, FiniteSets

CONSTANTS
  Slots,       \* slots of the bus in use
  MaxSlots,    \* MAX_DEVICES
  Vectors,     \* numbers of MSI-X vectors a device may have
  BarWrites,   \* values written to the BAR, in units of 256 bytes
  CtlWrites    \* values of the MSI-X control byte

VARIABLES
  pdev,        \* slot -> {} or {[id, vectors, bar, cmd, ctl, masked, addr]}
  port,        \* the address register: [on, slot, reg]
  busReply       \* what the last read of the data port gave: [slot, reg, value]

pciVars == <<pdev, port, busReply>>

CmdReg == 4      \* the command register and the interrupt line: plain storage
Bar4Reg == 32
MsixReg == 64
Regs == {0, CmdReg, Bar4Reg, MsixReg}
AllOnes == 16777215                  \* 24 bits

PowerOfTwo(n) == CHOOSE p \in {2^k : k \in 0..24} : p >= n /\ \A k \in 0..24 : 2^k >= n => p <= 2^k

PbaOffset(n) == ((n * 16 + 15) \div 16) * 16
PbaSize(n) == ((n + 63) \div 64) * 8
Bar4Size(n) == LET p == PowerOfTwo(PbaOffset(n) + PbaSize(n)) IN IF p < 4096 THEN 4096 ELSE p

\* PciDevice::new: eleven bits of the control field hold the size less one.
TableSizeField(n) == (IF n = 0 THEN 0 ELSE n - 1) % 2048

Device0(slot, n) ==
  [id |-> slot, vectors |-> n, bar |-> 0, cmd |-> 0,
   ctl |-> TableSizeField(n) \div 256, on |-> FALSE, entry |-> [v \in {0, n - 1} |-> "masked"]]

NoAnswer == [slot |-> -1, reg |-> 0, value |-> 0]

PciInit ==
  /\ pdev = [s \in 0..MaxSlots - 1 |-> {}]
  /\ port = [on |-> FALSE, slot |-> 0, reg |-> 0]
  /\ busReply = NoAnswer

\* PciBus::add_device: an occupied slot is refused.
AddDevice(s, n) ==
  /\ pdev[s] = {}
  /\ pdev' = [pdev EXCEPT ![s] = {Device0(s, n)}]
  /\ busReply' = NoAnswer
  /\ UNCHANGED port

\* A write to the address port.
WriteAddress(on, s, r) ==
  /\ port' = [on |-> on, slot |-> s, reg |-> r]
  /\ busReply' = NoAnswer
  /\ UNCHANGED pdev

RegValue(d, r) ==
  CASE r = 0 -> d.id
    [] r = CmdReg -> d.cmd
    [] r = Bar4Reg -> d.bar
    [] r = MsixReg -> d.ctl

\* A read of the data port; nothing there answers with ones.
ReadData ==
  /\ busReply' = [slot |-> port.slot, reg |-> port.reg,
                value |-> IF port.on /\ pdev[port.slot] # {}
                          THEN RegValue(CHOOSE d \in pdev[port.slot] : TRUE, port.reg)
                          ELSE AllOnes]
  /\ UNCHANGED <<pdev, port>>

\* write_bar_register: size detection is the masking of the low bits.
BarStored(n, v) == (v \div (Bar4Size(n) \div 256)) * (Bar4Size(n) \div 256)

\* write_config on the MSI-X control byte: the two upper bits are writable,
\* the table size is not.
CtlStored(old, b) == (b \div 64) * 64 + (old % 64)

Written0(d, r, v, b) ==
  CASE r = CmdReg -> [d EXCEPT !.cmd = v]
    [] r = Bar4Reg -> [d EXCEPT !.bar = BarStored(d.vectors, v)]
    [] r = MsixReg -> [d EXCEPT !.ctl = CtlStored(d.ctl, b),
                                !.on = CtlStored(d.ctl, b) >= 128]
    [] OTHER -> d

\* A write of the data port.
WriteData(v, b) ==
  /\ port.on
  /\ pdev' = [pdev EXCEPT ![port.slot] = {Written0(d, port.reg, v, b) : d \in @}]
  /\ busReply' = NoAnswer
  /\ UNCHANGED port

\* write_bar / write_msix_region: an entry of the table.
WriteEntry(s, v) ==
  /\ pdev[s] # {} /\ \A d \in pdev[s] : v \in DOMAIN d.entry
  /\ pdev' = [pdev EXCEPT ![s] = {[d EXCEPT !.entry[v] = "set"] : d \in @}]
  /\ busReply' = NoAnswer
  /\ UNCHANGED port

PciNext ==
  \/ \E s \in Slots, n \in Vectors : AddDevice(s, n)
  \/ \E on \in BOOLEAN, s \in Slots, r \in Regs : WriteAddress(on, s, r)
  \/ ReadData
  \/ \E v \in BarWrites, b \in CtlWrites : WriteData(v, b)
  \/ \E s \in Slots, v \in 0..3 : WriteEntry(s, v)

PciSpec == PciInit /\ [][PciNext]_pciVars

----------------------------------------------------------------------------
Present == UNION {pdev[s] : s \in DOMAIN pdev}

\* Table and pending bits lie inside BAR 4 without touching, the register
\* keeps the region aligned to its size, and the size the guest reads from
\* the control field is the table's (PciDevice::new, write_bar_register,
\* write_config).
MsixRegionSound ==
  \A d \in Present :
    /\ 16 * d.vectors <= PbaOffset(d.vectors)
    /\ PbaOffset(d.vectors) + PbaSize(d.vectors) <= Bar4Size(d.vectors)
    /\ d.ctl % 8 = ((d.vectors - 1) \div 256) % 8

\* Whatever the guest writes to the register, ones included, it reads back
\* aligned to the region's size, which is how it finds that size.
SizeDetected ==
  busReply.slot >= 0 /\ busReply.reg = Bar4Reg /\ pdev[busReply.slot] # {} /\ port.on =>
    \A d \in pdev[busReply.slot] : busReply.value % (Bar4Size(d.vectors) \div 256) = 0
=============================================================================
