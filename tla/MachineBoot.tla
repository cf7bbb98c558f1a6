---------------------------- MODULE MachineBoot ----------------------------
(***************************************************************************)
(* Building a virtual machine (visor-vmm vm/linux.rs, vm/macos.rs, boot/,  *)
(* acpi.rs, devices/bus.rs): the boot structures are written into guest    *)
(* memory, the devices are put on the MMIO bus, and the tables the guest   *)
(* finds them by are generated from the device counts.  Addresses are in   *)
(* words of four bytes; mem[name] is what is still intact of what was      *)
(* written: a later write erases what it overlaps.                         *)
(***************************************************************************)
EXTENDS Integers, Sequences, FiniteSets, SequencesExt

CONSTANTS
  Arches,      \* subset of {"x86_64", "aarch64"}
  MemoryMiB,   \* memory sizes a machine may be asked to have
  KernelFrom,  \* x86: addresses of the kernel's segments; aarch64: text_offset; in words
  KernelMiB,   \* kernel image sizes
  CmdlineLens, \* command line lengths in bytes, the NUL included
  MaxDisks, MaxNets, MaxShares

VARIABLES
  conf,        \* the configuration the machine is built from
  todo,        \* boot steps still to run
  mem,         \* structures intact in guest memory: name -> [from, to]
  bus,         \* the MMIO bus: entries [base, size, dev] in its own order
  irqs,        \* interrupt routes registered: [dev, irq]
  announced,   \* <<base, irq>> pairs in the DSDT or the device tree
  e820,        \* the memory map: [from, to, ram]
  regs,        \* where the vCPU's registers point
  outcome,     \* "booting", "ready", "failed" or "collided"
  restored     \* the machine came from a snapshot

bootVars ==
  <<conf, todo, mem, bus, irqs, announced, e820, regs, outcome, restored>>

MiB == 262144                         \* words
MinMemoryMiB == 64
MmioBase == 872415232                 \* 0xd0000000
MmioSize == 1024                      \* 0x1000
DramStart == 536870912                \* 0x80000000, aarch64
Himem == 262144                       \* 0x100000
Ebda == 163584                        \* 0x9fc00
BootStack == 9212                     \* 0x8ff0
ZeroPage == 7168                      \* 0x7000
CmdlineStart == 32768                 \* 0x20000
CmdlineMax == 2048                    \* bytes
RsdpAddr == 163840                    \* 0xa0000
FdtMax == 524288                      \* 2 MiB
KernelOffset == 524288                \* 2 MiB

GuestBase == IF conf.arch = "x86_64" THEN 0 ELSE DramStart
MemoryWords(mib) == (IF mib < MinMemoryMiB THEN MinMemoryMiB ELSE mib) * MiB
MemEnd == GuestBase + MemoryWords(conf.mib)

\* GuestMemory::guest_offset: an access has to lie inside the one region.
GuestOffset(from, to) == from >= GuestBase /\ to <= MemEnd

Apart(a, b) == a.to <= b.from \/ b.to <= a.from

\* write_bytes of several structures, one after the other.
Written(m, new) ==
  LET kept == {n \in DOMAIN m : \A k \in DOMAIN new : Apart(m[n], new[k])}
  IN  [n \in kept \cup DOMAIN new |-> IF n \in DOMAIN new THEN new[n] ELSE m[n]]

\* Zeroing a page leaves nothing in it.
Zeroed(m, r) == [n \in {k \in DOMAIN m : Apart(m[k], r)} |-> m[n]]

Span(from, size) == [from |-> from, to |-> from + size]

----------------------------------------------------------------------------
(* Slots.  Every device has a slot; slot s is at MmioBase + s * MmioSize   *)
(* with interrupt 5 + s.                                                   *)

Location(slot) == <<MmioBase + slot * MmioSize, 5 + slot>>
ExtraBlockSlot(i) == i + 1
VsockSlot(disks) == disks + 1
RngSlot(disks) == disks + 2
NetSlot(i, disks) == disks + 3 + i
FsSlot(i, disks, nets) == disks + 3 + nets + i

\* build_acpi_mmio_devices.
AcpiDevices ==
  {Location(0), Location(VsockSlot(conf.disks)), Location(RngSlot(conf.disks))}
    \cup {Location(ExtraBlockSlot(i)) : i \in 0..conf.disks - 1}
    \cup {Location(NetSlot(i, conf.disks)) : i \in 0..conf.nets - 1}
    \cup {Location(FsSlot(i, conf.disks, conf.nets)) : i \in 0..conf.shares - 1}

\* The device tree of boot_macos: block, vsock, net, rng, then the shares.
FdtDevices == {Location(s) : s \in 0..3 + conf.shares}

\* encode_pkg_length: the length of an AML package, itself included, in one
\* to four bytes; the first says how many follow and holds the low bits.
PkgBytes(n, more) == <<more * 64 + (n % 16)>> \o [i \in 1..more |-> (n \div 2^(4 + 8 * (i - 1))) % 256]
EncodePkgLength(n) ==
  IF n < 63 THEN <<n + 1>>
  ELSE IF n + 2 <= 4095 THEN PkgBytes(n + 2, 1)
  ELSE IF n + 3 <= 1048575 THEN PkgBytes(n + 3, 2)
  ELSE PkgBytes(n + 4, 3)

\* What ACPI says such bytes mean.
DecodePkgLength(b) ==
  IF b[1] < 64 THEN b[1]
  ELSE (b[1] % 16) + MapThenSumSet(LAMBDA i : b[i + 1] * 2^(4 + 8 * (i - 1)), 1..Len(b) - 1)

----------------------------------------------------------------------------
(* The bus.                                                                *)

Overlaps(a, b) == a.base < b.base + b.size /\ b.base < a.base + a.size

\* Entries before the first one with a larger base (binary_search_by_key).
Before(b, base) == Cardinality({i \in DOMAIN b : b[i].base < base})

Inserted(b, e) == InsertAt(b, Before(b, e.base) + 1, e)

\* Bus::find: the last entry at or below the address, if it reaches it.
Find(b, addr) ==
  LET n == Before(b, addr + 1)
  IN  IF n > 0 /\ addr < b[n].base + b[n].size THEN {b[n]} ELSE {}

\* Bus::register for each device in turn; the first overlap fails the boot.
Register(devs) ==
  LET put(acc, d) ==
        IF acc.ok /\ \A i \in DOMAIN acc.bus : ~Overlaps(acc.bus[i], d.entry)
        THEN [ok |-> TRUE, bus |-> Inserted(acc.bus, d.entry)]
        ELSE [acc EXCEPT !.ok = FALSE]
      res == FoldLeft(put, [ok |-> TRUE, bus |-> bus], devs)
  IN  /\ bus' = res.bus
      /\ irqs' = irqs \cup {[dev |-> d.entry.dev, irq |-> d.irq] : d \in ToSet(devs)}
      /\ outcome' = IF res.ok THEN outcome ELSE "collided"

Device(kind, i, loc) ==
  [entry |-> [base |-> loc[1], size |-> MmioSize, dev |-> <<kind, i>>],
   irq |-> loc[2]]

Each(n, D(_)) == [i \in 1..n |-> D(i - 1)]

----------------------------------------------------------------------------
(* The steps of boot_linux and boot_macos.                                 *)

X86Needs == {"kernel", "data", "gdt", "idt", "pml4", "pdpte", "pde", "cmdline",
             "params", "e820", "rsdp_ptr", "rsdp", "tables"}

\* The pointer to the tables before the page it lives in is cleared.
BootStepsAcpiFirst(arch) ==
  IF arch = "x86_64"
  THEN <<"kernel", "gdt", "pages", "cmdline", "acpi", "params",
         "common", "rootfs", "disks", "shares", "vcpu">>
  ELSE <<"kernel", "fdt", "mac_devices", "mac_shares", "vcpu">>

BootSteps(arch) ==
  IF arch = "x86_64"
  THEN <<"kernel", "gdt", "pages", "cmdline", "params", "acpi",
         "common", "rootfs", "disks", "shares", "vcpu">>
  ELSE <<"kernel", "fdt", "mac_devices", "mac_shares", "vcpu">>

RestoreSteps == <<"memory", "common", "rootfs", "disks", "shares", "vcpu">>

Confs ==
  [arch : Arches, mib : MemoryMiB, from : KernelFrom, kernel : KernelMiB,
   cmdline : CmdlineLens, disks : 0..MaxDisks, nets : 0..MaxNets,
   shares : 0..MaxShares]

BootInit ==
  /\ conf \in Confs
  /\ todo = BootSteps(conf.arch)
  /\ mem = <<>> /\ bus = <<>> /\ irqs = {} /\ announced = {} /\ e820 = {} /\ regs = <<>>
  /\ outcome = "booting" /\ restored = FALSE

At(step) == outcome = "booting" /\ todo # <<>> /\ Head(todo) = step

Writes(new) ==
  IF \A n \in DOMAIN new : GuestOffset(new[n].from, new[n].to)
  THEN mem' = Written(mem, new) /\ outcome' = outcome
  ELSE mem' = mem /\ outcome' = "failed"

NextStep == todo' = Tail(todo)
NoDevices == UNCHANGED <<bus, irqs>>

\* load_elf_segments: the PT_LOAD segments, here two that follow each other.
LoadElfSegments ==
  /\ At("kernel") /\ conf.arch = "x86_64" /\ NextStep
  /\ LET half == (conf.kernel * MiB) \div 2
     IN  IF conf.from < Himem
         THEN outcome' = "failed" /\ mem' = mem
         ELSE Writes([kernel |-> Span(conf.from, half), data |-> Span(conf.from + half, half)])
  /\ NoDevices /\ UNCHANGED <<conf, announced, e820, regs, restored>>

\* load_arm64_image: at the image's own offset, or the default one for 0.
ImageStart == DramStart + (IF conf.from # 0 THEN conf.from ELSE KernelOffset)

LoadArm64Image ==
  /\ At("kernel") /\ conf.arch = "aarch64" /\ NextStep
  /\ Writes([kernel |-> Span(ImageStart, conf.kernel * MiB)])
  /\ NoDevices /\ UNCHANGED <<conf, announced, e820, regs, restored>>

WriteGdt ==
  /\ At("gdt") /\ NextStep
  /\ Writes([gdt |-> Span(320, 8), idt |-> Span(328, 2)])
  /\ NoDevices /\ UNCHANGED <<conf, announced, e820, regs, restored>>

WritePageTables ==
  /\ At("pages") /\ NextStep
  /\ Writes([pml4 |-> Span(9216, 2), pdpte |-> Span(10240, 2), pde |-> Span(11264, 1024)])
  /\ NoDevices /\ UNCHANGED <<conf, announced, e820, regs, restored>>

WriteCmdline ==
  /\ At("cmdline") /\ NextStep
  /\ IF conf.cmdline > CmdlineMax
     THEN outcome' = "failed" /\ mem' = mem
     ELSE Writes([cmdline |-> Span(CmdlineStart, (conf.cmdline + 3) \div 4)])
  /\ NoDevices /\ UNCHANGED <<conf, announced, e820, regs, restored>>

\* The map of memory: what is below the reserved hole, the hole, the rest.
E820(end) ==
  IF end > Himem
  THEN {[from |-> 0, to |-> Ebda, ram |-> TRUE],
        [from |-> Ebda, to |-> Himem, ram |-> FALSE],
        [from |-> Himem, to |-> end, ram |-> TRUE]}
  ELSE {[from |-> 0, to |-> end, ram |-> TRUE]}

\* write_boot_params zeroes the page, then fills in the fields.
WriteBootParams ==
  /\ At("params") /\ NextStep
  /\ mem' = Written(Zeroed(mem, Span(ZeroPage, 1024)),
                    [params |-> Span(ZeroPage + 122, 22),
                     e820 |-> Span(ZeroPage + 180, 5 * Cardinality(E820(MemEnd)))])
  /\ e820' = E820(MemEnd)
  /\ NoDevices /\ UNCHANGED <<conf, announced, outcome, regs, restored>>

\* create_acpi_tables: what the DSDT of n devices, FADT, MADT and XSDT take.
AcpiWords(n) == 120 + 16 * n

\* write_acpi_tables: the tables back to back, then the pointer to them.
\* The DSDT grows with the devices; more than 256 of them are refused.
WriteAcpi ==
  /\ At("acpi") /\ NextStep
  /\ LET n == 3 + conf.disks + conf.nets + conf.shares
     IN  IF n > 256 THEN outcome' = "failed" /\ mem' = mem
         ELSE Writes([rsdp |-> Span(RsdpAddr, 9),
                      tables |-> Span(RsdpAddr + 9, AcpiWords(n)),
                      rsdp_ptr |-> Span(ZeroPage + 28, 2)])
  /\ announced' = AcpiDevices
  /\ NoDevices /\ UNCHANGED <<conf, e820, regs, restored>>

\* get_fdt_addr: the last 2 MiB of memory, rounded down to 2 MiB.
FdtAddr == ((MemEnd - FdtMax) \div FdtMax) * FdtMax

\* create_fdt: the fixed nodes and one for each of n devices.
FdtWords(n) == 512 + 32 * n

WriteFdt ==
  /\ At("fdt") /\ NextStep
  /\ Writes([fdt |-> Span(FdtAddr, FdtWords(4 + conf.shares))])
  /\ announced' = FdtDevices
  /\ NoDevices /\ UNCHANGED <<conf, e820, regs, restored>>

\* create_common_device_manager: vsock, rng and the networks.
RegisterCommon ==
  /\ At("common") /\ NextStep
  /\ Register(<<Device("vsock", 0, Location(VsockSlot(conf.disks))),
                Device("rng", 0, Location(RngSlot(conf.disks)))>>
              \o Each(conf.nets, LAMBDA i :
                        Device("net", i, Location(NetSlot(i, conf.disks)))))
  /\ UNCHANGED <<conf, mem, announced, e820, regs, restored>>

RegisterRootfs ==
  /\ At("rootfs") /\ NextStep
  /\ Register(<<Device("block", 0, Location(0))>>)
  /\ UNCHANGED <<conf, mem, announced, e820, regs, restored>>

RegisterDisks ==
  /\ At("disks") /\ NextStep
  /\ Register(Each(conf.disks, LAMBDA i :
                     Device("block", i + 1, Location(ExtraBlockSlot(i)))))
  /\ UNCHANGED <<conf, mem, announced, e820, regs, restored>>

RegisterShares ==
  /\ At("shares") /\ NextStep
  /\ Register(Each(conf.shares, LAMBDA i :
                     Device("fs", i, Location(FsSlot(i, conf.disks, conf.nets)))))
  /\ UNCHANGED <<conf, mem, announced, e820, regs, restored>>

\* boot_macos registers one device of each kind at a fixed slot.
RegisterMac ==
  /\ At("mac_devices") /\ NextStep
  /\ Register(<<Device("block", 0, Location(0)), Device("vsock", 0, Location(1)),
                Device("net", 0, Location(2)), Device("rng", 0, Location(3))>>)
  /\ UNCHANGED <<conf, mem, announced, e820, regs, restored>>

RegisterMacShares ==
  /\ At("mac_shares") /\ NextStep
  /\ Register(Each(conf.shares, LAMBDA i : Device("fs", i, Location(4 + i))))
  /\ UNCHANGED <<conf, mem, announced, e820, regs, restored>>

\* configure_regs, and on macOS configure_vcpu_boot_regs when the loop starts:
\* a restored vCPU gets the registers it was saved with.  On x86 the first
\* instruction is the ELF's entry, wherever that is.
BootRegs ==
  IF conf.arch = "x86_64"
  THEN [arg |-> ZeroPage, pml4 |-> 9216, gdt |-> 320, stack |-> BootStack]
  ELSE [pc |-> ImageStart, arg |-> FdtAddr]

ConfigureVcpu ==
  /\ At("vcpu") /\ NextStep
  /\ regs' = IF restored THEN regs ELSE BootRegs
  /\ NoDevices /\ UNCHANGED <<conf, mem, announced, e820, outcome, restored>>

BootDone ==
  /\ outcome = "booting" /\ todo = <<>>
  /\ outcome' = "ready"
  /\ NoDevices /\ UNCHANGED <<conf, todo, mem, announced, e820, regs, restored>>

\* Opening a file, creating an event or a device fails: the boot is given up
\* and everything it made is dropped.
StepFails ==
  /\ outcome = "booting" /\ todo # <<>>
  /\ outcome' = "failed"
  /\ NoDevices /\ UNCHANGED <<conf, todo, mem, announced, e820, regs, restored>>

\* restore_linux: the memory of a saved machine with devices made anew.  The
\* fast path is taken for machines without volumes.
RestoreBoot ==
  /\ outcome = "ready" /\ ~restored
  /\ conf.arch = "x86_64" /\ conf.disks = 0 /\ conf.shares = 0
  /\ restored' = TRUE /\ outcome' = "booting"
  /\ todo' = RestoreSteps
  /\ bus' = <<>> /\ irqs' = {}
  /\ UNCHANGED <<conf, mem, announced, e820, regs>>

\* restore_memory maps the file; its size must be the machine's.
RestoreMemory ==
  /\ At("memory") /\ NextStep
  /\ NoDevices /\ UNCHANGED <<conf, mem, announced, e820, outcome, regs, restored>>

BootNext ==
  \/ LoadElfSegments \/ LoadArm64Image \/ WriteGdt \/ WritePageTables \/ WriteCmdline
  \/ WriteBootParams \/ WriteAcpi \/ WriteFdt
  \/ RegisterCommon \/ RegisterRootfs \/ RegisterDisks \/ RegisterShares
  \/ RegisterMac \/ RegisterMacShares \/ ConfigureVcpu
  \/ BootDone \/ StepFails \/ RestoreBoot \/ RestoreMemory

BootSpec == BootInit /\ [][BootNext]_bootVars

----------------------------------------------------------------------------
(* What the guest relies on.                                               *)

Entries == ToSet(bus)
Registered == {<<e.base, r.irq>> : <<e, r>> \in
                 {<<e, r>> \in Entries \X irqs : e.dev = r.dev}}

\* The devices the ACPI tables or the device tree name are the devices on
\* the bus, each at its address with its interrupt, for any number of disks,
\* networks and shares and after a restore (build_acpi_mmio_devices against
\* the registrations of create_boot_device_manager, boot_macos's two lists).
AnnouncedIsRegistered == outcome = "ready" => announced = Registered

\* No combination of devices makes two of them claim one address: the boot
\* never fails with BusError::Overlap.
NeverCollides == outcome # "collided"

\* Devices of one kind lie in the order of their indices, which is the order
\* the guest names them in (vda is the rootfs, eth0 the first network).
NamedInOrder ==
  outcome = "ready" =>
    \A a, b \in Entries :
      a.dev[1] = b.dev[1] /\ a.dev[2] < b.dev[2] => a.base < b.base

\* Everything the kernel starts from survives until the machine runs, where
\* the registers say it is, with a free page below the stack pointer: no
\* later step of the boot overwrites it (configure_boot, write_acpi_tables,
\* configure_regs).
BootImageIntact ==
  outcome = "ready" =>
    IF conf.arch = "x86_64"
    THEN /\ X86Needs \subseteq DOMAIN mem
         /\ regs.pml4 = mem["pml4"].from /\ regs.gdt = mem["gdt"].from
         /\ \A n \in {"params", "e820", "rsdp_ptr"} : mem[n].from - regs.arg \in 0 .. 1023
         /\ \A n \in DOMAIN mem : Apart(mem[n], Span(regs.stack - 1020, 1020))
    ELSE "fdt" \in DOMAIN mem /\ regs.arg = mem["fdt"].from

\* The memory map covers the guest's memory without gap or overlap, and the
\* structures the kernel may not reclaim, the ACPI tables, are in none of
\* its RAM (write_boot_params, RSDP_ADDR).
MapSound ==
  outcome = "ready" /\ conf.arch = "x86_64" =>
    /\ \A a, b \in e820 : a # b => Apart(a, b)
    /\ \E a \in e820 : a.from = 0
    /\ \A a \in e820 : a.to = MemEnd \/ \E b \in e820 : b.from = a.to
    /\ \A a \in e820, n \in {"rsdp", "tables"} : a.ram => Apart(a, mem[n])

\* An address is answered by the device whose range holds it, and by none
\* when no range does (Bus::find by binary search).
BusFinds ==
  \A addr \in {e.base + d : e \in Entries, d \in {-1, 0, MmioSize - 1, MmioSize}} :
    Find(bus, addr) = {e \in Entries : e.base <= addr /\ addr < e.base + e.size}

\* The guest's ACPI interpreter reads from a package's length bytes exactly
\* what follows the opcode, on both sides of every change of encoding
\* (encode_pkg_length).
PkgLengthRead ==
  At("acpi") => \A n \in {0, 1, 62, 63, 64, 4092, 4093, 4094, 4095, 1048572, 1048573, 2097152} :
    LET b == EncodePkgLength(n)
    IN  (b[1] \div 64) + 1 = Len(b) /\ DecodePkgLength(b) = n + Len(b)

\* A device's registers are not ordinary memory: "Guest wrote to a memory
\* address that isn't RAM".
DevicesOutsideRam ==
  outcome = "ready" =>
    \A e \in Entries : Apart(Span(e.base, e.size), [from |-> GuestBase, to |-> MemEnd])

\* The kernel image and the device tree do not overlap.
FdtApartFromKernel ==
  outcome = "ready" /\ conf.arch = "aarch64" => {"kernel", "fdt"} \subseteq DOMAIN mem

(* A machine that starts finds what it was promised: devices where the       *)
(* tables announce them, in the order of their names, without collision;     *)
(* boot structures intact, outside the memory the map gives away; a bus that *)
(* finds the device of an address; and package lengths that decode to what   *)
(* follows.                                                                  *)
BootSound ==
  /\ AnnouncedIsRegistered /\ NeverCollides /\ NamedInOrder
  /\ BootImageIntact /\ MapSound /\ BusFinds /\ PkgLengthRead
=============================================================================
