---------------------------- MODULE MCStorage ----------------------------
(* What the daemon keeps on disk, for TLC: the state directories of the VMs    *)
(* across starts (DaemonRestart), the images (ImageCache) and the volumes      *)
(* (VolumeStore).  The three share no state; a behaviour exercises one.        *)
EXTENDS DaemonRestart, ImageCache, VolumeStore

VARIABLE store
storageVars == <<store, vars, imageVars, volumeVars>>

StorageInit ==
  /\ store \in {"vms", "images", "volumes"}
  /\ Init /\ ImageInit /\ VolumeInit

VmsStep == store = "vms" /\ Next /\ UNCHANGED <<store, imageVars, volumeVars>>
ImagesStep == store = "images" /\ ImageNext /\ UNCHANGED <<store, vars, volumeVars>>
VolumesStep == store = "volumes" /\ VolumeNext /\ UNCHANGED <<store, vars, imageVars>>
StorageNext == VmsStep \/ ImagesStep \/ VolumesStep

StorageSpec == StorageInit /\ [][StorageNext]_storageVars

\* VMs, jobs and callers are interchangeable; every property is one of safety.
StorageSymmetry ==
  Permutations(Ids) \cup Permutations(Jobs) \cup Permutations(Callers)
==========================================================================
