----------------------------- MODULE GuestConfig ----------------------------
(***************************************************************************)
(* From a VM's configuration to its guest's network and volumes: the       *)
(* backend writes one run configuration for visor-init and one device list *)
(* for the machine (visor-runtime backend.rs, vm.rs), and the two must     *)
(* meet again in the guest, where devices only have numbers (visor-init    *)
(* network.rs, volume.rs).  The guest numbers network and block devices in *)
(* the order of the device list.  On a Linux host the list holds what the  *)
(* configuration asks for; on macOS it is always the root disk and one     *)
(* network device.                                                         *)
(***************************************************************************)
EXTENDS Integers, Sequences, SequencesExt, FiniteSets

CONSTANTS HostKinds,     \* subset of {"linux", "macos"}
          NetNames,      \* named networks a VM may join
          MaxNetworks,   \* names in one configuration
          GuestPaths,    \* mount points, as sequences of components
          MaxVolumes,    \* volumes in one configuration
          MaxDataDisks   \* disks the device naming allows (25)

VARIABLES vmConf,    \* the VM's configuration
          runConf,   \* what visor-init is given
          machine,   \* what the machine is built with
          gstep,     \* how far the host, then the guest, has come
          ifaces,    \* interface number -> the address it was given
          route,     \* the default route's interface number, or -1
          mounted    \* mounts in order

configVars == <<vmConf, runConf, machine, gstep, ifaces, route, mounted>>

HostNet == "host-access"   \* the VM's own link, carrying its forwarded ports
RootDisk == [host |-> 0, ro |-> FALSE, ext4 |-> TRUE]

\* A directory, a file that holds an ext4 file system, any other file, or neither.
VolumeMounts == [kind : {"dir", "image", "file", "other"}, ro : BOOLEAN, path : GuestPaths]
NoRunConf == [networks |-> <<>>, volumes |-> <<>>]

SeqsUpTo(S, n) == UNION {[1..k -> S] : k \in 0..n}

ConfigInit ==
  /\ vmConf \in [on : HostKinds, enabled : BOOLEAN, ports : BOOLEAN, services : BOOLEAN,
                 nets : {s \in SeqsUpTo(NetNames, MaxNetworks) : IsInjective(s)},
                 volumes : SeqsUpTo(VolumeMounts, MaxVolumes)]
  /\ runConf = NoRunConf /\ machine = [nets |-> <<>>, disks |-> <<>>]
  /\ gstep = "host" /\ ifaces = <<>> /\ route = -1 /\ mounted = <<>>

-----------------------------------------------------------------------------
(* The host.                                                               *)

NeedsHostAccess(c) == c.ports \/ c.services

DefaultNetwork == [net |-> HostNet, iface |-> 0, default |-> TRUE]

NamedNetworkFirstName(name, k, shift) ==
  [net |-> name, iface |-> k + shift, default |-> k = 0]
NamedNetwork(name, k, shift) ==
  [net |-> name, iface |-> k + shift, default |-> k + shift = 0]

GuestNetworkConfigs(c) ==
  LET shift == IF NeedsHostAccess(c) THEN 1 ELSE 0
      named == [i \in DOMAIN c.nets |-> NamedNetwork(c.nets[i], i - 1, shift)]
  IN IF ~c.enabled /\ ~NeedsHostAccess(c) THEN <<>>
     ELSE IF c.nets = <<>> THEN <<DefaultNetwork>>
     ELSE IF NeedsHostAccess(c) THEN <<DefaultNetwork>> \o named ELSE named

(* A writable directory, or neither file nor directory, is refused.        *)
StorageRefused(vols) ==
  \/ \E i \in DOMAIN vols : vols[i].kind = "other" \/ (vols[i].kind = "dir" /\ ~vols[i].ro)
  \/ Len(vols) > MaxDataDisks

BlockDevice(index) == index + 1

(* A directory becomes a read-only image of its own, a file is attached as *)
(* it is; device numbers and the list of disks count together.             *)
ResolveStorage(vols) ==
  [disks |-> [i \in DOMAIN vols |-> [host |-> i, ro |-> vols[i].ro, ext4 |-> vols[i].kind # "file"]],
   guest |-> [i \in DOMAIN vols |-> [device |-> BlockDevice(i - 1), ro |-> vols[i].ro,
                                     path |-> vols[i].path]]]

(* The device list takes the networks in the order of the run              *)
(* configuration; only a named network has a shared bridge.                *)
MachineNetworks(networks) == [i \in DOMAIN networks |-> networks[i].net]

(* boot_macos. *)
MacMachine == [nets |-> <<"vmnet">>, disks |-> <<>>]

BuildRunConfig ==
  /\ gstep = "host"
  /\ IF StorageRefused(vmConf.volumes)
     THEN gstep' = "refused" /\ UNCHANGED <<runConf, machine>>
     ELSE LET nets == GuestNetworkConfigs(vmConf)
              storage == ResolveStorage(vmConf.volumes)
          IN /\ runConf' = [networks |-> nets, volumes |-> storage.guest]
             /\ machine' = IF vmConf.on = "macos" THEN MacMachine
                           ELSE [nets |-> MachineNetworks(nets), disks |-> storage.disks]
             /\ gstep' = "networks"
  /\ UNCHANGED <<vmConf, ifaces, route, mounted>>

-----------------------------------------------------------------------------
(* The guest.                                                              *)

DiskOf(device) == IF device = 0 THEN RootDisk ELSE machine.disks[device]

SecondRoute(n) == n.default /\ route # -1

(* Address, netmask and state, then the default route if asked for; an     *)
(* interface that is not there and a second default route are errors.      *)
ConfigureNetwork ==
  /\ gstep = "networks" /\ Len(ifaces) < Len(runConf.networks)
  /\ LET n == runConf.networks[Len(ifaces) + 1]
     IN IF n.iface >= Len(machine.nets) \/ SecondRoute(n)
        THEN gstep' = "badnet" /\ UNCHANGED <<ifaces, route>>
        ELSE /\ ifaces' = Append(ifaces, [iface |-> n.iface, net |-> n.net])
             /\ route' = IF n.default THEN n.iface ELSE route
             /\ UNCHANGED gstep
  /\ UNCHANGED <<vmConf, runConf, machine, mounted>>

NetworksDone ==
  /\ gstep = "networks" /\ Len(ifaces) = Len(runConf.networks)
  /\ gstep' = "volumes"
  /\ UNCHANGED <<vmConf, runConf, machine, ifaces, route, mounted>>

(* The mount a path lies in; the latest one covers what was there.         *)
Covering(path) ==
  SelectLastInSeq(mounted, LAMBDA m : IsPrefix(m.path, path))

(* The mount point is created where it is missing, which fails inside a    *)
(* read-only mount.                                                        *)
MountPointFails(v, there) ==
  there = "nothing" /\ Covering(v.path) # 0 /\ mounted[Covering(v.path)].ro

(* The disk must be there and hold a file system, one that the machine     *)
(* holds read-only cannot be mounted for writing, and nothing is mounted   *)
(* on a file.                                                              *)
MountBlockFails(v) ==
  v.device > Len(machine.disks) \/ ~DiskOf(v.device).ext4 \/ (DiskOf(v.device).ro /\ ~v.ro)

MountVolume(there) ==
  /\ gstep = "volumes" /\ Len(mounted) < Len(runConf.volumes)
  /\ LET v == runConf.volumes[Len(mounted) + 1]
     IN IF MountPointFails(v, there) \/ there = "file"
        THEN gstep' = "badpoint" /\ UNCHANGED mounted
        ELSE IF MountBlockFails(v) THEN gstep' = "badmount" /\ UNCHANGED mounted
        ELSE /\ mounted' = Append(mounted, [path |-> v.path, disk |-> DiskOf(v.device), ro |-> v.ro])
             /\ UNCHANGED gstep
  /\ UNCHANGED <<vmConf, runConf, machine, ifaces, route>>

VolumesDone ==
  /\ gstep = "volumes" /\ Len(mounted) = Len(runConf.volumes)
  /\ gstep' = "ready"
  /\ UNCHANGED <<vmConf, runConf, machine, ifaces, route, mounted>>

ConfigNext ==
  \/ BuildRunConfig \/ ConfigureNetwork \/ NetworksDone
  \/ \E there \in {"nothing", "dir", "file"} : MountVolume(there)
  \/ VolumesDone

-----------------------------------------------------------------------------
OnLinux == vmConf.on = "linux"

(* On a Linux host every interface has the address of the network its      *)
(* device is wired to, all networks asked for are there, and no networking *)
(* step of the guest fails: a first process that fails is a kernel panic.  *)
NetworksMeet ==
  OnLinux =>
    /\ \A i \in DOMAIN ifaces : machine.nets[ifaces[i].iface + 1] = ifaces[i].net
    /\ gstep = "ready" =>
         /\ Range(vmConf.nets) \subseteq {ifaces[i].net : i \in DOMAIN ifaces}
              \/ ~(vmConf.enabled \/ NeedsHostAccess(vmConf))
         /\ NeedsHostAccess(vmConf) => \E i \in DOMAIN ifaces : ifaces[i].net = HostNet
    /\ gstep # "badnet"

(* A guest with networks has one default route, and it leaves by the link  *)
(* that carries the forwarded ports where there is one.                    *)
OneDefaultRoute ==
  gstep \in {"volumes", "ready"} /\ runConf.networks # <<>> =>
    /\ route = 0
    /\ NeedsHostAccess(vmConf) => ifaces[1].net = HostNet

(* What a guest path shows is the volume configured for it, writable only  *)
(* if asked for, unless a volume listed later covers the path.             *)
VolumesMeet ==
  gstep = "ready" =>
    \A i \in DOMAIN vmConf.volumes :
      LET v == vmConf.volumes[i]
          later == \E j \in DOMAIN vmConf.volumes :
                     j > i /\ IsPrefix(vmConf.volumes[j].path, v.path)
          m == mounted[Covering(v.path)]
      IN later \/ (m.disk.host = i /\ m.ro = v.ro)

(* On a Linux host a volume with a place to mount it on is mounted, unless *)
(* it is a file without a file system: the disk is there, and writable     *)
(* where the guest wants to write.                                         *)
MountsFit ==
  OnLinux /\ gstep = "badmount" => vmConf.volumes[Len(mounted) + 1].kind = "file"

(* The guest finds the networks and volumes its configuration asked for, in  *)
(* the devices a Linux host attached, whatever the combination; and one      *)
(* that comes up on macOS has the volumes and the default route too.         *)
GuestMeets ==
  /\ NetworksMeet /\ OneDefaultRoute
  /\ VolumesMeet /\ MountsFit
=============================================================================
