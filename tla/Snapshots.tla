------------------------------ MODULE Snapshots ------------------------------
(***************************************************************************)
(* The snapshot bundle of one configuration (visor-vmm snapshot.rs,        *)
(* vm/linux.rs restore_linux; visor-runtime vm.rs, pool/snapshot_cache.rs, *)
(* pool/manager.rs, backend.rs create_from_snapshot).  A machine that is   *)
(* booted cold writes memory.bin, cpu_state.json and rootfs.ext4 into the  *)
(* directory its configuration hashes to before its CPU runs; a machine    *)
(* acquired while the three files exist is restored from them.  Then       *)
(* pre-copy migration.                                                     *)
(***************************************************************************)
EXTENDS Naturals, FiniteSets

CONSTANTS
  Machines,
  MaxCrashes

VARIABLES
  file,        \* "memory", "cpu", "rootfs" -> "none", "torn", "mixed", "full"
  filling,     \* file -> machines writing it
  marks,       \* machines whose writes are in the bundle's rootfs.ext4
  phase,       \* machine -> "off", "s_memory", "s_cpu", "s_rootfs",
               \*            "r_memory", "r_rootfs", "r_cpu", "running", "failed"
  image,       \* machine -> the state of the memory.bin and rootfs.ext4 it uses
  own,         \* machine -> machines whose writes its private rootfs holds
  restoredVm,  \* machines started from the bundle
  quiet,       \* machines acquired and started while nobody was writing
  cut,         \* files whose last writer failed or died in the middle
  crashes      \* restarts of the daemon

snapVars == <<file, filling, marks, phase, image, own, restoredVm, quiet, cut, crashes>>

Files == {"memory", "cpu", "rootfs"}
Stage(f) == CASE f = "memory" -> "s_memory" [] f = "cpu" -> "s_cpu" [] f = "rootfs" -> "s_rootfs"
After(f) == CASE f = "memory" -> "s_cpu" [] f = "cpu" -> "s_rootfs" [] f = "rootfs" -> "running"

SnapInit ==
  /\ file = [f \in Files |-> "none"] /\ filling = [f \in Files |-> {}]
  /\ marks = {} /\ cut = {} /\ crashes = 0
  /\ phase = [v \in Machines |-> "off"]
  /\ image = [v \in Machines |-> [memory |-> "none", rootfs |-> "none"]]
  /\ own = [v \in Machines |-> {}]
  /\ restoredVm = {} /\ quiet = {}

Saving == {v \in Machines : phase[v] \in {"s_memory", "s_cpu", "s_rootfs"}}
HasSnapshot == \A f \in Files : file[f] # "none"

\* PoolManager::acquire_with_config.
Acquire(v) ==
  /\ phase[v] = "off"
  /\ phase' = [phase EXCEPT ![v] = IF HasSnapshot THEN "r_memory" ELSE "s_memory"]
  /\ quiet' = IF HasSnapshot
              THEN IF Saving = {} THEN quiet \cup {v} ELSE quiet
              ELSE {}
  /\ UNCHANGED <<file, filling, marks, image, own, restoredVm, cut, crashes>>

\* BackendVmm::create boots cold whatever the cache holds.
Create(v) ==
  /\ phase[v] = "off"
  /\ phase' = [phase EXCEPT ![v] = "s_memory"]
  /\ quiet' = {}
  /\ UNCHANGED <<file, filling, marks, image, own, restoredVm, cut, crashes>>

\* memory.bin is mapped MAP_PRIVATE and rootfs.ext4 is open: a restored
\* machine sees what becomes of the file in place.
UsersSee(f, now) ==
  image' = [w \in Machines |->
    [memory |-> IF f = "memory" /\ image[w].memory # "none" THEN now ELSE image[w].memory,
     rootfs |-> IF f = "rootfs" /\ image[w].rootfs # "none" THEN now ELSE image[w].rootfs]]

\* File::create truncates what is there, then the bytes are written.
Truncate(v, f) ==
  /\ phase[v] = Stage(f) /\ v \notin filling[f]
  /\ file' = [file EXCEPT ![f] = "torn"]
  /\ filling' = [filling EXCEPT ![f] = @ \cup {v}]
  /\ marks' = IF f = "rootfs" THEN {} ELSE marks
  /\ UsersSee(f, "torn")
  /\ UNCHANGED <<phase, own, restoredVm, quiet, cut, crashes>>

\* The last byte is written.  With another writer at work the file has its
\* full size but holds both.
Fill(v, f) ==
  /\ phase[v] = Stage(f) /\ v \in filling[f]
  /\ filling' = [filling EXCEPT ![f] = @ \ {v}]
  /\ file' = [file EXCEPT ![f] = IF filling'[f] = {} THEN "full" ELSE "mixed"]
  /\ marks' = IF f = "rootfs" THEN marks \cup own[v] ELSE marks
  /\ phase' = [phase EXCEPT ![v] = After(f)]
  /\ UsersSee(f, "mixed")
  /\ cut' = cut \ {f}
  /\ UNCHANGED <<own, restoredVm, quiet, crashes>>

\* A write fails: the boot is given up, the files stay as they are.
SaveFails(v, f) ==
  /\ phase[v] = Stage(f) /\ v \in filling[f]
  /\ filling' = [filling EXCEPT ![f] = @ \ {v}]
  /\ phase' = [phase EXCEPT ![v] = "failed"]
  /\ cut' = cut \cup {f}
  /\ UNCHANGED <<file, marks, image, own, restoredVm, quiet, crashes>>

Fails(v) == phase' = [phase EXCEPT ![v] = "failed"]

\* restore_memory refuses a file of the wrong size.
RestoreMemoryFile(v) ==
  /\ phase[v] = "r_memory"
  /\ IF file["memory"] \in {"none", "torn"}
     THEN Fails(v) /\ image' = image
     ELSE /\ image' = [image EXCEPT ![v].memory = file["memory"]]
          /\ phase' = [phase EXCEPT ![v] = "r_rootfs"]
  /\ UNCHANGED <<file, filling, marks, own, restoredVm, quiet, cut, crashes>>

\* snapshot_rootfs_path asks that the file exists; the block device opens
\* that very file for reading and writing.
OpenRootfs(v) ==
  /\ phase[v] = "r_rootfs"
  /\ IF file["rootfs"] = "none"
     THEN Fails(v) /\ image' = image
     ELSE /\ image' = [image EXCEPT ![v].rootfs = file["rootfs"]]
          /\ phase' = [phase EXCEPT ![v] = "r_cpu"]
  /\ UNCHANGED <<file, filling, marks, own, restoredVm, quiet, cut, crashes>>

\* restore_snapshot_vcpu: a state that does not parse fails the restore, a
\* missing one leaves the CPU as it was made.
RestoreCpu(v) ==
  /\ phase[v] = "r_cpu"
  /\ IF file["cpu"] = "torn"
     THEN Fails(v) /\ restoredVm' = restoredVm
     ELSE /\ phase' = [phase EXCEPT ![v] = "running"]
          /\ restoredVm' = restoredVm \cup {v}
  /\ UNCHANGED <<file, filling, marks, image, own, quiet, cut, crashes>>

\* Writes of a machine whose CPU was started before the copy of its disk.
WriteDiskEarly(v) ==
  /\ phase[v] \in {"running", "s_rootfs"}
  /\ IF v \in restoredVm
     THEN marks' = marks \cup {v} /\ own' = own
     ELSE own' = [own EXCEPT ![v] = @ \cup {v}] /\ marks' = marks
  /\ UNCHANGED <<file, filling, phase, image, restoredVm, quiet, cut, crashes>>

\* A running machine writes to its disk.
WriteDisk(v) ==
  /\ phase[v] = "running"
  /\ IF v \in restoredVm
     THEN marks' = marks \cup {v} /\ own' = own
     ELSE own' = [own EXCEPT ![v] = @ \cup {v}] /\ marks' = marks
  /\ UNCHANGED <<file, filling, phase, image, restoredVm, quiet, cut, crashes>>

\* The daemon dies with every machine and is started again.
SnapCrash ==
  /\ crashes < MaxCrashes
  /\ crashes' = crashes + 1
  /\ filling' = [f \in Files |-> {}]
  /\ cut' = cut \cup {f \in Files : filling[f] # {}}
  /\ phase' = [v \in Machines |-> IF phase[v] = "off" THEN "off" ELSE "failed"]
  /\ UNCHANGED <<file, marks, image, own, restoredVm, quiet>>

SnapNext ==
  \/ \E v \in Machines :
       \/ Acquire(v) \/ Create(v) \/ RestoreMemoryFile(v) \/ OpenRootfs(v)
       \/ RestoreCpu(v) \/ WriteDisk(v)
       \/ \E f \in Files : Truncate(v, f) \/ Fill(v, f) \/ SaveFails(v, f)
  \/ SnapCrash

SnapSpec == SnapInit /\ [][SnapNext]_snapVars

----------------------------------------------------------------------------
\* A machine restored while no save was under way, and since when no cold boot
\* of its configuration began, has a whole memory image, whatever saves, crashes
\* and failures came before (restore_memory's size check); and a whole disk
\* unless the save that last wrote rootfs.ext4 was cut off (the order of
\* save_snapshot_artifact: has_snapshot asks only that the three files exist).
QuietRestoreWhole ==
  \A v \in restoredVm \cap quiet :
    /\ image[v].memory \in {"full", "mixed"}
    /\ image[v].rootfs = "torn" => "rootfs" \in cut

\* The disk in the bundle is the disk the saved memory knows: it was copied
\* before the saved machine's CPU ran, so only restored machines ever write
\* to it (boot_vm_internal saves before it starts the vCPU thread).
DiskMatchesMemory == marks \subseteq restoredVm

\* "Think of it as fork() for VMs - reads share pages, writes diverge": what
\* one restored machine writes is not on the disk of another.
WritesDiverge ==
  \A v, w \in restoredVm : v # w /\ phase[w] = "running" => v \notin marks

(* A machine that no cold boot of its configuration disturbs runs on files   *)
(* that are whole, a disk whose save was cut off apart, and that belong      *)
(* together: the disk is the one the saved memory knows.                     *)
BundleSound == QuietRestoreWhole /\ DiskMatchesMemory

-----------------------------------------------------------------------------
(***************************************************************************)
(* Pre-copy live migration (visor-vmm dirty_tracking.rs, migration.rs).    *)
(* The guest dirties pages while rounds of them are copied; the state      *)
(* machine decides after each dirty snapshot whether to send its pages or  *)
(* to stop and copy.  The driver that reads the kernel's dirty log, sends  *)
(* pages and pauses the guest is not in the repository: it is modelled as  *)
(* the comments of migration.rs describe it.  A page's content is a        *)
(* version number.                                                         *)
(***************************************************************************)

CONSTANTS
  NPages,      \* guest pages
  MaxWrites,   \* bound on the guest's writes
  MaxRounds,   \* ConvergenceDetector::max_rounds
  Threshold,   \* pages per time unit
  Intervals    \* time between two snapshots, 0 when the clock did not move

ASSUME MigrationNumbers == NPages \in Nat /\ MaxRounds \in Nat

Pages == 0..NPages - 1
ByteCount == (NPages + 7) \div 8
Bits == 0..8 * ByteCount - 1

VARIABLES
  source, dest,  \* page -> version
  dirtyLog,      \* bits the kernel has set since the log was last read
  snapshot,      \* pages of the last snapshot
  sampled,       \* the rate estimator has a first sample
  round,         \* PreCopyState::round
  mstage,        \* "run", "send", "pause", "final" or "resumed"
  driver,        \* what it does with the snapshot that decided to stop: "keeps" or "drops"
  writes

migVars == <<source, dest, dirtyLog, snapshot, sampled, round, mstage, driver, writes>>

MigInit ==
  /\ source = [p \in Pages |-> 1] /\ dest = [p \in Pages |-> 0]
  /\ dirtyLog = Pages               \* logging starts with every page dirty
  /\ snapshot = {} /\ sampled = FALSE /\ round = 0
  /\ mstage = "run" /\ writes = 0 /\ driver \in {"keeps", "drops"}

\* The guest writes a page; it runs until it is paused.
GuestWrites(p) ==
  /\ mstage \in {"run", "send", "pause"} /\ writes < MaxWrites
  /\ source' = [source EXCEPT ![p] = @ + 1]
  /\ dirtyLog' = dirtyLog \cup {p}
  /\ writes' = writes + 1
  /\ UNCHANGED <<dest, snapshot, sampled, round, mstage, driver>>

\* DirtyBitmap::dirty_pages over full bytes only.
DirtyPagesWholeBytes(bits) == {p \in bits : p < NPages /\ p < 8 * (NPages \div 8)}

\* DirtyBitmap::dirty_pages: padding bits are not pages.
DirtyPages(bits) == {p \in bits : p < NPages}

\* DirtyBitmap::dirty_count counts whatever bits are set.
DirtyCount(bits) == Cardinality(bits)

\* DirtyRateEstimator::sample against the threshold: no rate at the first
\* sample, rate zero when no time passed.
BelowThreshold(bits, dt) ==
  /\ sampled
  /\ IF dt = 0 THEN 0 < Threshold ELSE DirtyCount(bits) < Threshold * dt

\* ConvergenceDetector::should_stop_and_copy.
ShouldStopAndCopy(bits, dt, r) == r >= MaxRounds \/ BelowThreshold(bits, dt)

\* One round: the driver reads and clears the log, collect_from_bitmap and
\* process_snapshot decide.
ProcessSnapshot(padding, dt) ==
  LET bits == dirtyLog \cup padding
  IN  /\ mstage = "run"
      /\ round' = round + 1
      /\ sampled' = TRUE
      /\ dirtyLog' = {}
      /\ snapshot' = DirtyPages(bits)
      /\ mstage' = IF DirtyPages(bits) = {} \/ ShouldStopAndCopy(bits, dt, round + 1)
                   THEN "pause" ELSE "send"
      /\ UNCHANGED <<source, dest, driver, writes>>

\* PageBatch: the driver reads the listed pages as they are now.
SendPages ==
  /\ mstage = "send"
  /\ dest' = [p \in Pages |-> IF p \in snapshot THEN source[p] ELSE dest[p]]
  /\ snapshot' = {} /\ mstage' = "run"
  /\ UNCHANGED <<source, dirtyLog, sampled, round, driver, writes>>

\* StopAndCopy: the guest is paused and the log read a last time.
PauseGuest ==
  /\ mstage = "pause"
  /\ mstage' = "final"
  /\ UNCHANGED <<source, dest, dirtyLog, snapshot, sampled, round, driver, writes>>

SendFinal ==
  /\ mstage = "final"
  /\ LET last == DirtyPages(dirtyLog) \cup (IF driver = "keeps" THEN snapshot ELSE {})
     IN  dest' = [p \in Pages |-> IF p \in last THEN source[p] ELSE dest[p]]
  /\ mstage' = "resumed"
  /\ UNCHANGED <<source, dirtyLog, snapshot, sampled, round, driver, writes>>

MigNext ==
  \/ \E p \in Pages : GuestWrites(p)
  \/ \E padding \in {{}, Bits \ Pages}, dt \in Intervals : ProcessSnapshot(padding, dt)
  \/ SendPages \/ PauseGuest \/ SendFinal

MigSpec == MigInit /\ [][MigNext]_migVars

----------------------------------------------------------------------------
\* The guest that resumes finds the memory it was paused with: no page
\* written in any round, or between the last round and the pause, is missed
\* (dirty_pages, process_snapshot).  StopAndCopy does not name the pages of the
\* snapshot that decided it, and FinalState is "the last set of dirty pages that
\* were modified between the final pre-copy round and the VM pause": a driver
\* that sends no more than that loses those pages, and no others.
MigratedExactly ==
  mstage = "resumed" => \A p \in Pages : dest[p] = source[p] \/ (driver = "drops" /\ p \in snapshot)

\* The guest is paused after max_rounds at the latest, however fast it
\* writes (should_stop_and_copy's forced cutover); a bound of zero, which
\* with_config accepts, still makes one round.
RoundsBounded == mstage \in {"run", "send"} => round = 0 \/ round < MaxRounds

\* The guest resumes with the memory it was paused with, the snapshot that
\* StopAndCopy leaves to the driver apart, after max_rounds at the latest.
MigrationExact == MigratedExactly /\ RoundsBounded
=============================================================================
