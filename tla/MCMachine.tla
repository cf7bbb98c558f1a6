----------------------------- MODULE MCMachine -----------------------------
(***************************************************************************)
(* The virtual machine monitor for TLC: its devices, transports, boot,     *)
(* CPU loop, snapshots and migration.  The parts share no state, so one    *)
(* behaviour exercises one of them; the others keep their initial state.   *)
(***************************************************************************)
EXTENDS VirtioQueue, SharedFs, Serial, TokenBucket, PciConfig, VcpuLoop,
        MachineBoot, Snapshots

CONSTANT MachineParts

VARIABLE part

ASSUME MachineParts \subseteq
  {"virtio", "fs", "serial", "bucket", "pci", "vcpu", "boot", "snap", "mig"}

machineVars == <<part, vqVars, fsVars, serialVars, tbVars, pciVars, vcpuVars,
                 bootVars, snapVars, migVars>>

\* A part that is not exercised starts in one fixed initial state.
Fixed(p, v, first) == part = p \/ v = first

MachineInit ==
  /\ part \in MachineParts
  /\ VirtioInit
  /\ Fixed("virtio", <<devKind, level, chains>>,
           <<CHOOSE k \in DeviceKinds : TRUE, CHOOSE l \in Levels : TRUE, {"good"}>>)
  /\ FsInit /\ Fixed("fs", hostDir, CHOOSE d \in SetToSeqs(FsNames) : TRUE)
  /\ BucketInit /\ Fixed("bucket", rate, CHOOSE r \in [Buckets -> Rates] : TRUE)
  /\ VcpuInit /\ Fixed("vcpu", host, CHOOSE h \in Hosts : TRUE)
  /\ BootInit /\ Fixed("boot", conf, CHOOSE c \in Confs : TRUE)
  /\ MigInit /\ Fixed("mig", driver, "keeps")
  /\ SerialInit /\ PciInit /\ SnapInit

Others(p) ==
  /\ p # "virtio" => UNCHANGED vqVars
  /\ p # "fs" => UNCHANGED fsVars
  /\ p # "serial" => UNCHANGED serialVars
  /\ p # "bucket" => UNCHANGED tbVars
  /\ p # "pci" => UNCHANGED pciVars
  /\ p # "vcpu" => UNCHANGED vcpuVars
  /\ p # "boot" => UNCHANGED bootVars
  /\ p # "snap" => UNCHANGED snapVars
  /\ p # "mig" => UNCHANGED migVars
  /\ UNCHANGED part

\* The transport is the same for all devices: it is the driver of one of them,
\* the block device with good chains, that may drop FEATURES_OK.
OneDrops ==
  ("driver_ok" \in dstatus' /\ "features_ok" \notin dstatus') =>
    devKind = "block" /\ chains = {"good"}

MachineNext ==
  \/ part = "virtio" /\ VirtioNext /\ OneDrops /\ Others("virtio")
  \/ part = "fs" /\ FsNext /\ Others("fs")
  \/ part = "serial" /\ SerialNext /\ Others("serial")
  \/ part = "bucket" /\ BucketNext /\ Others("bucket")
  \/ part = "pci" /\ PciNext /\ Others("pci")
  \/ part = "vcpu" /\ VcpuNext /\ Others("vcpu")
  \/ part = "boot" /\ BootNext /\ Others("boot")
  \/ part = "snap" /\ SnapNext /\ Others("snap")
  \/ part = "mig" /\ MigNext /\ Others("mig")

Virtio(A) == part = "virtio" /\ A /\ Others("virtio")
Vcpu(A) == part = "vcpu" /\ A /\ Others("vcpu")

\* The device thread runs a job it has begun, the driver collects what an
\* interrupt announces, and the CPU loop has a thread of its own.
MachineFair ==
  /\ WF_machineVars(Virtio(JobChain)) /\ WF_machineVars(Virtio(JobEnd))
  /\ WF_machineVars(Virtio(Notify)) /\ WF_machineVars(Virtio(TakeInterrupt))
  /\ WF_machineVars(Virtio(InterruptAck)) /\ WF_machineVars(Virtio(Collect))
  /\ WF_machineVars(Virtio(Collected))
  /\ WF_machineVars(Vcpu(HandleVtimer)) /\ WF_machineVars(Vcpu(DecodeException))
  /\ WF_machineVars(Vcpu(CompleteRead)) /\ WF_machineVars(Vcpu(RunOnce))
  /\ WF_machineVars(Vcpu(HandleExit)) /\ WF_machineVars(Vcpu(PollIrqs))
  /\ WF_machineVars(Vcpu(Killed))

MachineSpec == MachineInit /\ [][MachineNext]_machineVars /\ MachineFair

(* The simple devices keep their promises: a shared directory numbers each   *)
(* path once and lists each entry once; the serial port passes input on in   *)
(* order and never silently; a limited request waits no longer than its      *)
(* tokens take; a PCI function's regions lie apart and report their size.    *)
DevicesSound ==
  /\ InodePerPath /\ ListsAll
  /\ InputInOrder /\ NoSilentData
  /\ WaitBounded
  /\ MsixRegionSound /\ SizeDetected

(* The machine goes on: a posted chain is returned, an interrupt that was    *)
(* raised reaches its line, a stop request ends the CPU loop, and an open    *)
(* file handle keeps its meaning.                                            *)
MachineRuns ==
  Completes /\ IrqReachesLine /\ KillEnds /\ HandlesKept
=============================================================================
