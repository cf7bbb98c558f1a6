--------------------------- MODULE StorageProofs ---------------------------
(***************************************************************************)
(* Theorems about what the daemon keeps on disk: the directories of its    *)
(* VMs across restarts and crashes, and the volumes.                       *)
(***************************************************************************)
EXTENDS DaemonRestart, VolumeStore, TLAPS

(* The leaves are first-order and go to Zenon; those that count cite the   *)
(* SMT solver.                                                            *)
USE ZenonT(60)

----------------------------------------------------------------------------
(* Restarts.  The invariant follows the list of VMs a clean shutdown has to  *)
(* save from the moment it is drawn up to the next start.                    *)

(* What a clean shutdown has left to do: a VM it owes a file is still to be  *)
(* saved, under the name it has, or its file is written.                     *)
Saved ==
  /\ phase \in {"persist", "kill"} =>
       \A id \in Ids : owed[id] # NoName =>
         IF phase = "persist" /\ id \in todo THEN id \in Listed /\ vms[id].name = owed[id]
                                             ELSE disk[id] = owed[id]
  /\ phase \in {"down", "starting"} /\ clean =>
       \A id \in Ids : owed[id] # NoName => disk[id] = owed[id]
  /\ phase = "persist" => todo \subseteq Listed /\ writing \in todo \cup {NoId}
  /\ phase # "persist" => writing = NoId

(* An identifier is handed out once, and what is listed was handed out.      *)
Issued == /\ Listed \subseteq issued
          /\ \A id \in Ids : disk[id] # "none" => id \in issued

TapsInv == /\ phase = "starting" => taps = {}
           /\ phase = "serving" => taps = Running

RestartInv == TypeOK /\ Saved /\ Issued /\ TapsInv

(* The fields of a listed VM.                                                *)
LEMMA VmFields ==
  /\ \A v \in Vm : v.st \in {"Running", "Stopped"} /\ v.name \in Names /\ v = [st |-> v.st, name |-> v.name]
  /\ \A s \in {"Running", "Stopped"}, n \in Names : [st |-> s, name |-> n] \in Vm
BY SMTT(60) DEF Vm

(* Every step of the daemon, its guests and its pool keeps the invariant.    *)
LEMMA RestartStep == RestartInv /\ [Next]_vars => RestartInv'
<1> SUFFICES ASSUME RestartInv, [Next]_vars PROVE RestartInv'
  OBVIOUS
<1> USE RestartAssumption DEF RestartInv, backend, history
<1>1. CASE Boot
  BY <1>1, SMTT(60) DEF Boot, TypeOK, Saved, Issued, TapsInv, Listed, Running
<1>2. CASE RestoreVms
  <2>1. \A id \in Ids : /\ Valid(id) => vms'[id] \in Vm /\ vms'[id].st = "Stopped" /\ vms'[id].name = disk[id]
                        /\ ~Valid(id) => vms'[id] = NoVm
    BY <1>2, VmFields DEF RestoreVms, Valid
  <2>2. vms' \in [Ids -> Vm \cup {NoVm}]
    BY <1>2, <2>1 DEF RestoreVms
  <2>3. \A id \in Listed' : vms'[id].st = "Stopped" /\ Valid(id)
    BY <2>1 DEF Listed
  <2>4. Running' = {} /\ Listed' \subseteq issued
    BY <2>3 DEF Running, Valid, Issued, Listed
  <2> QED
    BY <1>2, <2>2, <2>4 DEF RestoreVms, TypeOK, Saved, Issued, TapsInv
<1>3. CASE Shutdown
  <2>1. owed' \in [Ids -> Names \cup {NoName}]
    BY <1>3, VmFields, SMTT(60) DEF Shutdown, Owed, TypeOK, Running, Listed
  <2>2. Running' = Running /\ Listed' = Listed /\ Running \subseteq Listed /\ Listed \subseteq Ids
    BY <1>3 DEF Shutdown, Running, Listed
  <2>3. \A id \in Ids : owed'[id] # NoName => id \in Running /\ owed'[id] = vms[id].name
    BY <1>3 DEF Shutdown, Owed
  <2>4. TypeOK'
    BY <1>3, <2>1, <2>2 DEF Shutdown, TypeOK
  <2>5. Saved'
    BY <1>3, <2>2, <2>3 DEF Shutdown, Saved
  <2> QED
    BY <1>3, <2>2, <2>4, <2>5 DEF Shutdown, Issued, TapsInv
<1>4. CASE Persisted
  BY <1>4 DEF Persisted, TypeOK, Saved, Issued, TapsInv, Listed, Running
<1>5. CASE Exit
  BY <1>5 DEF Exit, ProcessEnds, NoVms, TypeOK, Saved, Issued, TapsInv, Listed
<1>6. CASE Crash
  BY <1>6 DEF Crash, ProcessEnds, NoVms, TypeOK, Saved, Issued, TapsInv, Listed
<1>7. ASSUME NEW id \in Ids, CleanupIncomplete(id) PROVE RestartInv'
  <2>1. Running' = Running /\ Listed' = Listed
    BY <1>7 DEF CleanupIncomplete, Running, Listed
  <2>2. TypeOK'
    BY <1>7 DEF CleanupIncomplete, TypeOK
  <2>3. Saved'
    BY <1>7 DEF CleanupIncomplete, TypeOK, Saved
  <2>4. Issued'
    BY <1>7, <2>1 DEF CleanupIncomplete, TypeOK, Issued
  <2> QED
    BY <1>7, <2>1, <2>2, <2>3, <2>4 DEF CleanupIncomplete, TapsInv
<1>8. ASSUME NEW id \in Ids, NEW n \in Names, NewVm(id, n), phase \in {"serving", "persist", "kill"} PROVE RestartInv'
  <2>1. /\ vms'[id] = [st |-> "Running", name |-> n] /\ vms'[id] \in Vm /\ vms'[id].st = "Running"
        /\ \A o \in Ids \ {id} : vms'[o] = vms[o]
        /\ vms' \in [Ids -> Vm \cup {NoVm}]
    BY <1>8, VmFields DEF NewVm, TypeOK
  <2>2. id \notin Listed /\ Listed' = Listed \cup {id} /\ Running' = Running \cup {id}
    BY <1>8, <2>1 DEF Listed, Running, Issued, NewVm
  <2>3. TypeOK'
    BY <1>8, <2>1 DEF NewVm, TypeOK
  <2>4. Saved'
    BY <1>8, <2>1, <2>2 DEF NewVm, Saved
  <2>5. Issued' /\ TapsInv'
    BY <1>8, <2>2 DEF NewVm, Issued, TapsInv
  <2> QED BY <2>3, <2>4, <2>5
<1>9. ASSUME NEW id \in Ids, NEW n \in Names, Create(id, n) \/ RefillCreates(id, n) PROVE RestartInv'
  BY <1>8, <1>9 DEF Create, RefillCreates
<1>10. ASSUME NEW id \in Ids, Starts(id) PROVE RestartInv'
  <2>1. vms[id] \in Vm /\ id \in Listed
    BY <1>10 DEF Starts, Listed, TypeOK
  <2>2. /\ vms'[id] \in Vm /\ vms'[id].st = "Running" /\ vms'[id].name = vms[id].name
        /\ \A o \in Ids \ {id} : vms'[o] = vms[o]
    BY <1>10, <2>1, VmFields, SMTT(60) DEF Starts, TypeOK
  <2>3. vms' \in [Ids -> Vm \cup {NoVm}]
    BY <1>10, <2>2 DEF Starts, TypeOK
  <2>4. Listed' = Listed /\ Running' = Running \cup {id}
    BY <2>1, <2>2 DEF Listed, Running
  <2> QED
    BY <1>10, <2>3, <2>4 DEF Starts, TypeOK, Saved, Issued, TapsInv
<1>11. ASSUME NEW id \in Ids, id \in Running, Halt(id), phase \in {"serving", "persist", "kill"}, todo' \subseteq todo,
              phase # "kill" => todo' = todo
       PROVE  RestartInv'
  <2>1. vms[id] \in Vm /\ id \in Listed
    BY <1>11 DEF Running, Listed, TypeOK
  <2>2. /\ vms'[id] \in Vm /\ vms'[id].st = "Stopped" /\ vms'[id].name = vms[id].name
        /\ \A o \in Ids \ {id} : vms'[o] = vms[o]
    BY <1>11, <2>1, VmFields, SMTT(60) DEF Halt, TypeOK
  <2>3. vms' \in [Ids -> Vm \cup {NoVm}]
    BY <1>11, <2>2 DEF Halt, TypeOK
  <2>4. Listed' = Listed /\ Running' = Running \ {id}
    BY <2>1, <2>2 DEF Listed, Running
  <2>5. TypeOK'
    BY <1>11, <2>3 DEF Halt, TypeOK
  <2>6. Saved'
    BY <1>11, <2>2, <2>4 DEF Halt, Saved
  <2> QED
    BY <1>11, <2>4, <2>5, <2>6 DEF Halt, Issued, TapsInv
<1>12. ASSUME NEW id \in Ids, Stops(id) \/ Kill(id) PROVE RestartInv'
  <2>1. CASE Stops(id)
    BY <1>11, <2>1 DEF Stops
  <2>2. CASE Kill(id) /\ id \in Running
    <3>1. todo' \subseteq todo
      BY <2>2 DEF Kill
    <3> QED
    BY <1>11, <2>2, <3>1 DEF Kill
  <2>3. CASE Kill(id) /\ id \notin Running
    <3>1. Listed' = Listed /\ Running' = Running
      BY <2>3 DEF Kill, Listed, Running
    <3> QED
      BY <2>3, <3>1 DEF Kill, TypeOK, Saved, Issued, TapsInv
  <2> QED BY <1>12, <2>1, <2>2, <2>3
<1>13. ASSUME NEW id \in Ids, Destroy(id) PROVE RestartInv'
  <2>1. vms' \in [Ids -> Vm \cup {NoVm}] /\ vms'[id] = NoVm /\ \A o \in Ids \ {id} : vms'[o] = vms[o]
    BY <1>13 DEF Destroy, TypeOK
  <2>2. Listed' = Listed \ {id} /\ Running' = Running \ {id}
    BY <2>1 DEF Listed, Running
  <2> QED
    BY <1>13, <2>1, <2>2 DEF Destroy, TypeOK, Saved, Issued, TapsInv
<1>14. ASSUME NEW id \in Ids, SaveMakesDir(id) PROVE RestartInv'
  <2>1. Listed' = Listed /\ Running' = Running
    BY <1>14 DEF SaveMakesDir, Listed, Running
  <2>2. disk' \in [Ids -> Names \cup {"none", "empty", "torn"}] /\ \A o \in Ids \ {id} : disk'[o] = disk[o]
    BY <1>14 DEF SaveMakesDir, TypeOK
  <2>3. id \in issued
    BY <1>14 DEF SaveMakesDir, Saved, Issued
  <2>4. TypeOK'
    BY <1>14, <2>2 DEF SaveMakesDir, TypeOK
  <2>5. Saved'
    BY <1>14, <2>1, <2>2 DEF SaveMakesDir, Saved, TypeOK
  <2> QED
    BY <1>14, <2>1, <2>2, <2>3, <2>4, <2>5 DEF SaveMakesDir, Issued, TapsInv
<1>15. ASSUME NEW id \in Ids, SaveOpens(id) PROVE RestartInv'
  <2>1. Listed' = Listed /\ Running' = Running /\ id \in issued
    BY <1>15 DEF SaveOpens, Listed, Running, Saved, Issued
  <2>2. disk' \in [Ids -> Names \cup {"none", "empty", "torn"}] /\ \A o \in Ids \ {id} : disk'[o] = disk[o]
    BY <1>15 DEF SaveOpens, TypeOK
  <2>4. TypeOK'
    BY <1>15, <2>2 DEF SaveOpens, TypeOK
  <2>5. Saved'
    BY <1>15, <2>1, <2>2, SMTT(60) DEF SaveOpens, Saved, TypeOK
  <2> QED
    BY <1>15, <2>1, <2>2, <2>4, <2>5 DEF SaveOpens, Issued, TapsInv
<1>16. ASSUME NEW id \in Ids, SaveWrites(id) PROVE RestartInv'
  <2>1. Listed' = Listed /\ Running' = Running /\ id \in issued /\ id \in Listed /\ id \in todo
    BY <1>16 DEF SaveWrites, Listed, Running, Saved, Issued
  <2>2. vms[id].name \in Names
    BY <2>1, VmFields DEF Listed, TypeOK
  <2>3. /\ disk' \in [Ids -> Names \cup {"none", "empty", "torn"}] /\ disk'[id] = vms[id].name
        /\ \A o \in Ids \ {id} : disk'[o] = disk[o]
    BY <1>16, <2>2 DEF SaveWrites, TypeOK
  <2>4. TypeOK'
    BY <1>16, <2>3 DEF SaveWrites, TypeOK
  <2>5. Saved'
    BY <1>16, <2>1, <2>3 DEF SaveWrites, Saved, TypeOK
  <2> QED
    BY <1>16, <2>1, <2>3, <2>4, <2>5 DEF SaveWrites, Issued, TapsInv
<1>17. ASSUME NEW id \in Ids, SaveFails(id) PROVE RestartInv'
  <2>1. Listed' = Listed /\ Running' = Running
    BY <1>17 DEF SaveFails, Listed, Running
  <2>2. /\ owed' \in [Ids -> Names \cup {NoName}] /\ owed'[id] = NoName
        /\ \A o \in Ids \ {id} : owed'[o] = owed[o]
    BY <1>17 DEF SaveFails, TypeOK
  <2>4. TypeOK'
    BY <1>17, <2>2 DEF SaveFails, TypeOK
  <2>5. Saved'
    BY <1>17, <2>1, <2>2 DEF SaveFails, Saved, TypeOK
  <2> QED
    BY <1>17, <2>1, <2>4, <2>5 DEF SaveFails, Issued, TapsInv
<1>18. CASE UNCHANGED vars
  BY <1>18 DEF vars, TypeOK, Saved, Issued, TapsInv, Listed, Running
<1> QED
  BY <1>1, <1>2, <1>3, <1>4, <1>5, <1>6, <1>7, <1>9, <1>10, <1>12, <1>13, <1>14, <1>15, <1>16, <1>17, <1>18 DEF Next

(* For any number of VMs, names and restarts, with the process killed at any *)
(* point: a start after a clean shutdown lists every VM that ran and was     *)
(* saved, and a serving daemon's TAPs are those of its running VMs           *)
(* (persist_running_vm_state, restore_vms, cleanup of orphan interfaces).    *)
THEOREM RestartIsSound == Spec => RestartSound
<1>1. Init => RestartInv
  BY RestartAssumption, SMTT(60) DEF Init, NoVms, RestartInv, TypeOK, Saved, Issued, TapsInv, Listed, Running
<1>2. RestartInv => TapsOwned
  BY DEF RestartInv, TapsInv, TapsOwned
<1>3. RestartInv => CleanRestart
  <2> SUFFICES ASSUME RestartInv, RestoreVms, clean, NEW id \in Ids, owed[id] # NoName
               PROVE  vms'[id] = [st |-> "Stopped", name |-> owed[id]]
    BY DEF CleanRestart
  <2>1. disk[id] = owed[id] /\ owed[id] \in Names
    BY DEF RestartInv, Saved, RestoreVms, TypeOK
  <2> QED
    BY <2>1 DEF RestoreVms, Valid
<1>4. RestartInv /\ RestartInv' /\ [Next]_vars => [CleanRestart /\ TapsOwned']_vars
  BY <1>2, <1>3 DEF TapsOwned, RestartInv, TapsInv
<1> QED
  BY <1>1, <1>4, RestartStep, PTL DEF Spec, RestartSound

----------------------------------------------------------------------------
(* Volumes.  The invariant says, for each step of the one call under way,    *)
(* what the image and the metadata file hold.                                *)

Stages(op) ==
  CASE op = "create" -> {"check", "truncate", "format", "open", "write"}
    [] op = "resize" -> {"check", "truncate", "grow", "open", "write"}
    [] op = "remove" -> {"check", "image", "meta"}
    [] OTHER -> {"none"}

Calls ==
  [Callers -> [op : {"none", "create", "resize", "remove"}, size : 0..MaxSize,
               at : {"none", "check", "truncate", "format", "grow", "open", "write", "image", "meta"}]]

VolumeType ==
  /\ image \in [len : 0..MaxSize, fs : 0..MaxSize] /\ meta \in 0..MaxSize + 1
  /\ call \in Calls
  /\ \A c \in Callers : call[c].at \in Stages(call[c].op) /\ (Busy(c) => call[c].size > 0)
  /\ breaks \in Nat /\ mixed \in BOOLEAN /\ behind \in BOOLEAN

(* What is on disk between two calls: a whole volume, or no metadata and, if *)
(* nothing ever failed, no image.                                            *)
Whole == meta \in 1..MaxSize /\ image.fs = meta /\ image.len >= meta
Absent == meta = NoMeta /\ (image = NoImage \/ breaks > 0)
Settled == Whole \/ Absent

(* ... and while a call is at one of its steps. *)
OnDisk(c) ==
  LET s == call[c].size IN
  /\ At2(c, "check") => Settled
  /\ call[c].op = "create" =>
       /\ At2(c, "truncate") => meta = NoMeta /\ image = NoImage
       /\ At2(c, "format") => meta = NoMeta /\ image.len = s /\ image.fs = 0
       /\ At2(c, "open") => meta = NoMeta /\ image.len = s /\ image.fs = s
  /\ call[c].op = "resize" =>
       /\ At2(c, "truncate") => Whole /\ s > meta
       /\ At2(c, "grow") => meta \in 1..MaxSize /\ s > meta /\ image.len = s /\ image.fs = meta
       /\ At2(c, "open") => meta \in 1..MaxSize /\ s > meta /\ image.len = s /\ image.fs = s
  /\ At2(c, "write") => meta = TornMeta /\ image.len = s /\ image.fs = s
  /\ At2(c, "image") => Whole
  /\ At2(c, "meta") => image = NoImage /\ meta \in 1..MaxSize

(* Unless calls overlapped: at most one is under way, and unless one was cut *)
(* short between the two files, the disk is what its step says.              *)
OneCall ==
  ~mixed =>
    /\ \A c, d \in Callers : Busy(c) /\ Busy(d) => c = d
    /\ breaks = 0 => ~behind
    /\ ~behind => /\ \A c \in Callers : Busy(c) => OnDisk(c)
                  /\ (\A c \in Callers : ~Busy(c)) => Settled

VolumeInv == VolumeType /\ OneCall

(* The fields of an image record.                                            *)
LEMMA ImageFields ==
  /\ NoImage.len = 0 /\ NoImage.fs = 0
  /\ \A i \in [len : 0..MaxSize, fs : 0..MaxSize] :
       /\ i.len \in 0..MaxSize /\ i.fs \in 0..MaxSize
       /\ i.len = 0 /\ i.fs = 0 => i = NoImage
BY SMTT(60) DEF NoImage

(* The caller's record alone changes, to another step or to no call. *)
LEMMA Steps ==
  ASSUME VolumeType, NEW c \in Callers
  PROVE  /\ \A a \in Stages(call[c].op) : GoTo(c, a) =>
              /\ call' \in Calls
              /\ \A d \in Callers \ {c} : call'[d] = call[d]
              /\ call'[c].op = call[c].op /\ call'[c].size = call[c].size /\ call'[c].at = a
         /\ Returns(c) =>
              /\ call' \in Calls
              /\ \A d \in Callers \ {c} : call'[d] = call[d]
              /\ call'[c].op = "none" /\ call'[c].size = 0 /\ call'[c].at = "none"
<1> USE VolumeBounds
<1>1. ASSUME NEW a \in Stages(call[c].op), GoTo(c, a)
      PROVE  /\ call' \in Calls
             /\ \A d \in Callers \ {c} : call'[d] = call[d]
             /\ call'[c].op = call[c].op /\ call'[c].size = call[c].size /\ call'[c].at = a
  <2>1. a \in {"none", "check", "truncate", "format", "grow", "open", "write", "image", "meta"}
    BY <1>1 DEF Stages, VolumeType, Calls
  <2> QED
    BY <1>1, <2>1 DEF GoTo, VolumeType, Calls
<1>2. 0 \in 0..MaxSize
  BY SMTT(60)
<1>3. ASSUME Returns(c)
      PROVE  /\ call' \in Calls
             /\ \A d \in Callers \ {c} : call'[d] = call[d]
             /\ call'[c].op = "none" /\ call'[c].size = 0 /\ call'[c].at = "none"
  BY <1>2, <1>3 DEF Returns, NoCall, VolumeType, Calls
<1> QED BY <1>1, <1>3

(* What a step of the call of c must show of the files and the flags. *)
Carries(c) ==
  /\ image' \in [len : 0..MaxSize, fs : 0..MaxSize] /\ meta' \in 0..MaxSize + 1
  /\ breaks' \in Nat /\ breaks <= breaks' /\ behind' \in BOOLEAN /\ (behind => behind')
  /\ mixed' = mixed
  /\ ~mixed /\ ~behind /\ behind' => breaks' > 0

(* A call goes on to its next step.                                          *)
LEMMA GoesOn ==
  ASSUME VolumeInv, NEW c \in Callers, Busy(c), Carries(c), NEW a \in Stages(call[c].op), GoTo(c, a),
         ~mixed /\ ~behind' => OnDisk(c)'
  PROVE  VolumeInv'
<1> USE VolumeBounds DEF VolumeInv
<1>1. /\ call' \in Calls /\ \A d \in Callers \ {c} : call'[d] = call[d]
      /\ call'[c].op = call[c].op /\ call'[c].size = call[c].size /\ call'[c].at = a
  BY Steps
<1>2. \A d \in Callers : Busy(d)' <=> Busy(d)
  BY <1>1 DEF Busy
<1>3. VolumeType'
  <2>1. \A d \in Callers : call'[d].at \in Stages(call'[d].op) /\ (Busy(d)' => call'[d].size > 0)
    BY <1>1, <1>2 DEF VolumeType
  <2> QED
    BY <1>1, <2>1 DEF VolumeType, Carries
<1>4. ASSUME ~mixed PROVE \A d \in Callers : Busy(d) => d = c
  BY <1>4 DEF OneCall
<1>5. ~mixed /\ ~behind' => \A d \in Callers : Busy(d)' => OnDisk(d)'
  BY <1>2, <1>4
<1>6. OneCall'
  BY <1>2, <1>4, <1>5, SMTT(60) DEF OneCall, Carries, VolumeType
<1> QED BY <1>3, <1>6

(* A call returns, with or without an error.                                 *)
LEMMA ComesBack ==
  ASSUME VolumeInv, NEW c \in Callers, Busy(c), Carries(c), Returns(c),
         ~mixed /\ ~behind' => Settled'
  PROVE  VolumeInv'
<1> USE VolumeBounds DEF VolumeInv
<1>1. /\ call' \in Calls /\ \A d \in Callers \ {c} : call'[d] = call[d]
      /\ call'[c].op = "none" /\ call'[c].size = 0 /\ call'[c].at = "none"
  BY Steps
<1>2. ~Busy(c)' /\ \A d \in Callers \ {c} : Busy(d)' <=> Busy(d)
  BY <1>1 DEF Busy
<1>3. VolumeType'
  <2>1. \A d \in Callers : call'[d].at \in Stages(call'[d].op) /\ (Busy(d)' => call'[d].size > 0)
    BY <1>1, <1>2 DEF VolumeType, Stages
  <2> QED
    BY <1>1, <2>1 DEF VolumeType, Carries
<1>4. ~mixed => \A d \in Callers : ~Busy(d)'
  BY <1>2 DEF OneCall
<1>5. OneCall'
  BY <1>4, SMTT(60) DEF OneCall, Carries, VolumeType
<1> QED BY <1>3, <1>5

(* While calls do not overlap and none was cut short, a busy caller's step   *)
(* describes the disk.                                                       *)
LEMMA AtStep ==
  ASSUME VolumeInv, NEW c \in Callers, Busy(c), ~mixed, ~behind
  PROVE  OnDisk(c)
BY DEF VolumeInv, OneCall

(* A call that has not begun finds the volume whole, or none. *)
LEMMA AtCheck ==
  ASSUME VolumeInv, NEW c \in Callers, Busy(c), ~mixed, ~behind, At2(c, "check")
  PROVE  Settled
<1>1. OnDisk(c)
  BY AtStep
<1> QED BY <1>1 DEF OnDisk

(* A step that leaves both files alone. *)
LEMMA FilesKept ==
  ASSUME VolumeInv, UNCHANGED <<image, meta, mixed>>, breaks' \in Nat, breaks <= breaks'
  PROVE  (Settled => Settled') /\ (Whole => Whole')
BY SMTT(60) DEF VolumeInv, VolumeType, Settled, Whole, Absent

(* A request arrives.                                                        *)
LEMMA AskStep == ASSUME VolumeInv, NEW c \in Callers, Ask(c) PROVE VolumeInv'
<1> USE VolumeBounds DEF VolumeInv
<1>1. PICK op \in {"create", "remove", "resize"}, s \in 1..MaxSize :
        call' = [call EXCEPT ![c] = [op |-> op, size |-> s, at |-> "check"]]
  BY DEF Ask
<1>2. /\ call' \in Calls /\ \A d \in Callers \ {c} : call'[d] = call[d]
      /\ call'[c].op = op /\ call'[c].size = s /\ call'[c].at = "check"
  BY <1>1, SMTT(60) DEF VolumeType, Calls
<1>3. Busy(c)' /\ ~Busy(c) /\ \A d \in Callers \ {c} : Busy(d)' <=> Busy(d)
  BY <1>2 DEF Busy, Ask
<1>4. VolumeType'
  <2>1. \A d \in Callers : call'[d].at \in Stages(call'[d].op) /\ (Busy(d)' => call'[d].size > 0)
    BY <1>2, <1>3, SMTT(60) DEF VolumeType, Stages
  <2>2. mixed' \in BOOLEAN
    BY DEF Ask
  <2> QED
    BY <1>2, <2>1, <2>2 DEF VolumeType, Ask
<1>5. ASSUME ~mixed' PROVE ~mixed /\ \A d \in Callers : ~Busy(d)
  BY <1>3, <1>5 DEF Ask, Alone
<1>6. ~mixed' /\ ~behind => Settled'
  BY <1>5 DEF OneCall, Ask, Settled, Whole, Absent
<1>7. ~mixed' /\ ~behind => OnDisk(c)'
  BY <1>2, <1>6 DEF OnDisk, At2
<1>8. OneCall'
  BY <1>3, <1>5, <1>6, <1>7 DEF OneCall, Ask
<1> QED BY <1>4, <1>8

(* The steps of create.                                                      *)
LEMMA CreateStep ==
  ASSUME VolumeInv, NEW c \in Callers, CreateCheck(c) \/ CreateTruncate(c) \/ CreateFormat(c) PROVE VolumeInv'
<1> USE VolumeBounds
<1>0. /\ Busy(c) /\ call[c].op = "create" /\ call[c].size \in 1..MaxSize
      /\ Stages(call[c].op) = {"check", "truncate", "format", "open", "write"}
  BY SMTT(60) DEF CreateCheck, CreateTruncate, CreateFormat, Busy, VolumeInv, VolumeType, Calls, Stages
<1>1. VolumeType
  BY DEF VolumeInv
<1>2. CASE CreateCheck(c)
  <2>1. Carries(c) /\ UNCHANGED <<image, meta, mixed, breaks, behind>> /\ At2(c, "check")
    BY <1>1, <1>2, SMTT(60) DEF CreateCheck, Carries, VolumeType
  <2>2. CASE image # NoImage
    <3>1. Returns(c) /\ breaks' \in Nat /\ breaks <= breaks'
      BY <1>1, <1>2, <2>1, <2>2, SMTT(60) DEF CreateCheck, VolumeType
    <3>2. ~mixed /\ ~behind' => Settled'
      BY <1>0, <2>1, <3>1, AtCheck, FilesKept
    <3> QED
      BY <1>0, <2>1, <3>1, <3>2, ComesBack
  <2>3. CASE image = NoImage
    <3>1. GoTo(c, "truncate") /\ call'[c].op = "create" /\ call'[c].at = "truncate"
      BY <1>0, <1>1, <1>2, <2>3, Steps DEF CreateCheck
    <3>2. ~mixed /\ ~behind => meta = NoMeta
      BY <1>0, <2>1, <2>3, AtStep, ImageFields DEF OnDisk, Settled, Whole, Absent, NoMeta
    <3>3. ~mixed /\ ~behind' => OnDisk(c)'
      BY <2>1, <2>3, <3>1, <3>2 DEF OnDisk, At2
    <3> QED
      BY <1>0, <2>1, <3>1, <3>3, GoesOn
  <2> QED BY <2>2, <2>3
<1>3. CASE CreateTruncate(c)
  <2>1. CASE At2(c, "truncate") /\ GoTo(c, "format") /\ image' = [image EXCEPT !.len = call[c].size] /\ UNCHANGED breaks
    <3>1. call'[c].op = "create" /\ call'[c].at = "format" /\ call'[c].size = call[c].size
      BY <1>0, <1>1, <2>1, Steps
    <3>2. Carries(c) /\ image'.len = call[c].size /\ image'.fs = image.fs
      BY <1>0, <1>1, <1>3, <2>1, SMTT(60) DEF CreateTruncate, Carries, VolumeType
    <3>3. ~mixed /\ ~behind' => OnDisk(c)'
      BY <1>0, <1>3, <2>1, <3>1, <3>2, AtStep, ImageFields DEF OnDisk, At2, CreateTruncate
    <3> QED
      BY <1>0, <2>1, <3>2, <3>3, GoesOn
  <2>2. CASE Break(c, "truncate") /\ Returns(c) /\ UNCHANGED image
    <3>1. Carries(c) /\ UNCHANGED <<image, meta, mixed, behind>> /\ At2(c, "truncate") /\ breaks' \in Nat
      BY <1>1, <1>3, <2>2, SMTT(60) DEF CreateTruncate, Break, Carries, VolumeType
    <3>2. ~mixed /\ ~behind' => Settled'
      BY <1>0, <3>1, AtStep DEF OnDisk, Settled, Absent
    <3> QED
      BY <1>0, <2>2, <3>1, <3>2, ComesBack
  <2> QED BY <1>3, <2>1, <2>2 DEF CreateTruncate
<1>4. CASE CreateFormat(c)
  <2>1. CASE At2(c, "format") /\ image.len > 0 /\ GoTo(c, "open") /\ image' = [image EXCEPT !.fs = image.len] /\ UNCHANGED breaks
    <3>1. call'[c].op = "create" /\ call'[c].at = "open" /\ call'[c].size = call[c].size
      BY <1>0, <1>1, <2>1, Steps
    <3>2. Carries(c) /\ image'.len = image.len /\ image'.fs = image.len
      BY <1>0, <1>1, <1>4, <2>1, SMTT(60) DEF CreateFormat, Carries, VolumeType
    <3>3. ~mixed /\ ~behind' => OnDisk(c)'
      BY <1>0, <1>4, <2>1, <3>1, <3>2, AtStep DEF OnDisk, At2, CreateFormat
    <3> QED
      BY <1>0, <2>1, <3>2, <3>3, GoesOn
  <2>2. CASE At2(c, "format") /\ image.len = 0 /\ Returns(c) /\ UNCHANGED <<image, breaks>>
    <3>1. Carries(c) /\ behind' = behind
      BY <1>1, <1>4, <2>2, SMTT(60) DEF CreateFormat, Carries, VolumeType
    <3>2. ~mixed => behind'
      BY <1>0, <2>2, <3>1, AtStep, SMTT(60) DEF OnDisk
    <3> QED
      BY <1>0, <2>2, <3>1, <3>2, ComesBack
  <2>3. CASE Break(c, "format") /\ Returns(c) /\ image' = NoImage
    <3>1. Carries(c) /\ UNCHANGED <<meta, mixed, behind>> /\ At2(c, "format")
      BY <1>1, <1>4, <2>3, SMTT(60) DEF CreateFormat, Break, Carries, VolumeType, NoImage
    <3>2. ~mixed /\ ~behind' => Settled'
      BY <1>0, <2>3, <3>1, AtStep DEF OnDisk, Settled, Absent
    <3> QED
      BY <1>0, <2>3, <3>1, <3>2, ComesBack
  <2> QED BY <1>4, <2>1, <2>2, <2>3 DEF CreateFormat
<1> QED BY <1>2, <1>3, <1>4

(* The steps of resize.                                                      *)
LEMMA ResizeStep ==
  ASSUME VolumeInv, NEW c \in Callers, ResizeCheck(c) \/ ResizeTruncate(c) \/ ResizeGrow(c) PROVE VolumeInv'
<1> USE VolumeBounds
<1>0. /\ Busy(c) /\ call[c].op = "resize" /\ call[c].size \in 1..MaxSize
      /\ Stages(call[c].op) = {"check", "truncate", "grow", "open", "write"}
  BY SMTT(60) DEF ResizeCheck, ResizeTruncate, ResizeGrow, Busy, VolumeInv, VolumeType, Calls, Stages
<1>1. VolumeType /\ meta \in Nat /\ image.len \in Nat /\ image.fs \in Nat
  BY ImageFields, SMTT(60) DEF VolumeInv, VolumeType
<1>2. CASE ResizeCheck(c)
  <2>1. Carries(c) /\ UNCHANGED <<image, meta, mixed, breaks, behind>> /\ At2(c, "check") /\ breaks \in Nat
    BY <1>1, <1>2, SMTT(60) DEF ResizeCheck, Carries, VolumeType
  <2>2. CASE ~(meta \in 1..MaxSize /\ call[c].size > meta)
    <3>1. Returns(c) /\ breaks' \in Nat /\ breaks <= breaks'
      BY <1>2, <2>1, <2>2, SMTT(60) DEF ResizeCheck
    <3>2. ~mixed /\ ~behind' => Settled'
      BY <1>0, <2>1, <3>1, AtCheck, FilesKept
    <3> QED
      BY <1>0, <2>1, <3>1, <3>2, ComesBack
  <2>3. CASE meta \in 1..MaxSize /\ call[c].size > meta
    <3>1. GoTo(c, "truncate") /\ call'[c].op = "resize" /\ call'[c].at = "truncate" /\ call'[c].size = call[c].size
      BY <1>0, <1>1, <1>2, <2>3, Steps DEF ResizeCheck
    <3>2. ~mixed /\ ~behind => Whole
      BY <1>0, <2>1, <2>3, AtCheck, SMTT(60) DEF Settled, Absent, NoMeta
    <3>3. ~mixed /\ ~behind' => Whole' /\ call'[c].size > meta'
      BY <2>1, <2>3, <3>1, <3>2 DEF Whole
    <3>4. ~mixed /\ ~behind' => OnDisk(c)'
      BY <3>1, <3>3 DEF OnDisk, At2
    <3> QED
      BY <1>0, <2>1, <3>1, <3>4, GoesOn
  <2> QED BY <2>2, <2>3
<1>3. CASE ResizeTruncate(c)
  <2>1. CASE At2(c, "truncate") /\ GoTo(c, "grow") /\ image' = [image EXCEPT !.len = call[c].size] /\ UNCHANGED breaks
    <3>1. call'[c].op = "resize" /\ call'[c].at = "grow" /\ call'[c].size = call[c].size
      BY <1>0, <1>1, <2>1, Steps
    <3>2. Carries(c) /\ image'.len = call[c].size /\ image'.fs = image.fs /\ UNCHANGED <<meta, behind>>
      BY <1>0, <1>1, <1>3, <2>1, SMTT(60) DEF ResizeTruncate, Carries, VolumeType
    <3>3. ~mixed /\ ~behind' => OnDisk(c)'
      BY <1>0, <2>1, <3>1, <3>2, AtStep DEF OnDisk, At2, Whole
    <3> QED
      BY <1>0, <2>1, <3>2, <3>3, GoesOn
  <2>2. CASE Break(c, "truncate") /\ Returns(c) /\ UNCHANGED image
    <3>1. Carries(c) /\ UNCHANGED <<image, meta, mixed, behind>> /\ At2(c, "truncate")
      BY <1>1, <1>3, <2>2, SMTT(60) DEF ResizeTruncate, Break, Carries, VolumeType
    <3>2. ~mixed /\ ~behind' => Settled'
      BY <1>0, <3>1, AtStep DEF OnDisk, Settled, Whole
    <3> QED
      BY <1>0, <2>2, <3>1, <3>2, ComesBack
  <2> QED BY <1>3, <2>1, <2>2 DEF ResizeTruncate
<1>4. CASE ResizeGrow(c)
  <2>1. CASE At2(c, "grow") /\ image.fs \in 1..image.len /\ GoTo(c, "open") /\ image' = [image EXCEPT !.fs = image.len]
             /\ UNCHANGED <<breaks, behind>>
    <3>1. call'[c].op = "resize" /\ call'[c].at = "open" /\ call'[c].size = call[c].size
      BY <1>0, <1>1, <2>1, Steps
    <3>2. Carries(c) /\ image'.len = image.len /\ image'.fs = image.len /\ UNCHANGED <<meta, behind>>
      BY <1>0, <1>1, <1>4, <2>1, SMTT(60) DEF ResizeGrow, Carries, VolumeType
    <3>3. ~mixed /\ ~behind' => OnDisk(c)'
      BY <1>0, <2>1, <3>1, <3>2, AtStep, SMTT(60) DEF OnDisk, At2
    <3> QED
      BY <1>0, <2>1, <3>2, <3>3, GoesOn
  <2>2. CASE At2(c, "grow") /\ image.fs \notin 1..image.len /\ Returns(c) /\ behind' = TRUE /\ UNCHANGED <<image, breaks>>
    <3>1. ~mixed => behind
      BY <1>0, <1>1, <2>2, AtStep, SMTT(60) DEF OnDisk
    <3>2. Carries(c)
      BY <1>1, <1>4, <2>2, <3>1, SMTT(60) DEF ResizeGrow, Carries, VolumeType
    <3> QED
      BY <1>0, <2>2, <3>2, ComesBack
  <2>3. CASE Break(c, "grow") /\ Returns(c) /\ behind' = TRUE /\ UNCHANGED image
    <3>1. Carries(c)
      BY <1>1, <1>4, <2>3, SMTT(60) DEF ResizeGrow, Break, Carries, VolumeType
    <3> QED
      BY <1>0, <2>3, <3>1, ComesBack
  <2> QED BY <1>4, <2>1, <2>2, <2>3 DEF ResizeGrow
<1> QED BY <1>2, <1>3, <1>4

(* The metadata file is written.                                             *)
LEMMA MetaStep == ASSUME VolumeInv, NEW c \in Callers, WriteMeta(c) PROVE VolumeInv'
<1> USE VolumeBounds
<1>0. /\ Busy(c) /\ call[c].op \in {"create", "resize"} /\ call[c].size \in 1..MaxSize /\ "write" \in Stages(call[c].op)
  BY SMTT(60) DEF WriteMeta, Break, At2, Busy, VolumeInv, VolumeType, Calls, Stages
<1>1. VolumeType /\ meta \in Nat /\ image.len \in Nat /\ image.fs \in Nat
  BY ImageFields, SMTT(60) DEF VolumeInv, VolumeType
<1>2. CASE At2(c, "open") /\ meta' = TornMeta /\ GoTo(c, "write") /\ UNCHANGED <<breaks, behind>>
  <2>1. call'[c].op = call[c].op /\ call'[c].at = "write" /\ call'[c].size = call[c].size
    BY <1>0, <1>1, <1>2, Steps
  <2>2. Carries(c) /\ image' = image
    BY <1>1, <1>2, SMTT(60) DEF WriteMeta, Carries, VolumeType, TornMeta
  <2>3. ~mixed /\ ~behind' => OnDisk(c)'
    BY <1>0, <1>2, <2>1, <2>2, AtStep DEF OnDisk, At2, TornMeta
  <2> QED
    BY <1>0, <1>2, <2>2, <2>3, GoesOn
<1>3. CASE At2(c, "write") /\ meta' = call[c].size /\ Returns(c) /\ UNCHANGED <<breaks, behind>>
  <2>1. Carries(c) /\ image' = image
    BY <1>0, <1>1, <1>3, SMTT(60) DEF WriteMeta, Carries, VolumeType
  <2>2. ~mixed /\ ~behind' => Settled'
    BY <1>0, <1>3, <2>1, AtStep, SMTT(60) DEF OnDisk, Settled, Whole
  <2> QED
    BY <1>0, <1>3, <2>1, <2>2, ComesBack
<1>4. CASE \E a \in {"open", "write"} : Break(c, a) /\ Returns(c) /\ behind' = TRUE /\ UNCHANGED meta
  <2>1. Carries(c) /\ Returns(c)
    BY <1>1, <1>4, SMTT(60) DEF WriteMeta, Break, Carries, VolumeType
  <2> QED
    BY <1>0, <1>4, <2>1, ComesBack
<1> QED BY <1>2, <1>3, <1>4 DEF WriteMeta

(* The steps of remove.                                                      *)
LEMMA RemoveStep == ASSUME VolumeInv, NEW c \in Callers, RemoveVolume(c) PROVE VolumeInv'
<1> USE VolumeBounds
<1>0. Busy(c) /\ call[c].op = "remove" /\ Stages(call[c].op) = {"check", "image", "meta"}
  BY DEF RemoveVolume, Busy, Stages
<1>1. VolumeType /\ meta \in Nat /\ image.len \in Nat /\ image.fs \in Nat
  BY ImageFields, SMTT(60) DEF VolumeInv, VolumeType
<1>2. CASE At2(c, "check") /\ (IF meta = NoMeta THEN Returns(c) ELSE GoTo(c, "image")) /\ UNCHANGED <<image, meta, breaks>>
  <2>1. Carries(c) /\ behind' = behind /\ mixed' = mixed /\ breaks \in Nat
    BY <1>1, <1>2, SMTT(60) DEF RemoveVolume, Carries, VolumeType, At2
  <2>2. CASE meta = NoMeta
    <3>1. ~mixed /\ ~behind' => Settled'
      BY <1>0, <1>2, <2>1, AtCheck, FilesKept, SMTT(60)
    <3> QED
      BY <1>0, <1>2, <2>1, <2>2, <3>1, ComesBack
  <2>3. CASE meta # NoMeta
    <3>1. call'[c].op = "remove" /\ call'[c].at = "image"
      BY <1>0, <1>1, <1>2, <2>3, Steps
    <3>a. ~mixed /\ ~behind => Whole
      BY <1>0, <1>2, <2>3, AtCheck DEF Settled, Absent
    <3>2. ~mixed /\ ~behind => Whole'
      BY <1>2, <2>1, <3>a, FilesKept, SMTT(60)
    <3>3. ~mixed /\ ~behind' => OnDisk(c)'
      BY <2>1, <3>1, <3>2 DEF OnDisk, At2
    <3> QED
      BY <1>0, <1>2, <2>1, <2>3, <3>3, GoesOn
  <2> QED BY <2>2, <2>3
<1>3. CASE At2(c, "image") /\ image' = NoImage /\ GoTo(c, "meta") /\ UNCHANGED <<meta, breaks>>
  <2>1. call'[c].op = "remove" /\ call'[c].at = "meta"
    BY <1>0, <1>1, <1>3, Steps
  <2>0. image' \in [len : 0..MaxSize, fs : 0..MaxSize]
    BY <1>3, SMTT(60) DEF NoImage
  <2>2. Carries(c) /\ behind' = behind
    BY <1>1, <1>3, <2>0, SMTT(60) DEF RemoveVolume, Carries, VolumeType, At2
  <2>3. ~mixed /\ ~behind' => OnDisk(c)'
    BY <1>0, <1>3, <2>1, <2>2, AtStep DEF OnDisk, At2, Whole
  <2> QED
    BY <1>0, <1>3, <2>2, <2>3, GoesOn
<1>4. CASE At2(c, "meta") /\ meta' = NoMeta /\ Returns(c) /\ UNCHANGED <<image, breaks>>
  <2>1. Carries(c) /\ behind' = behind
    BY <1>1, <1>4, SMTT(60) DEF RemoveVolume, Carries, VolumeType, At2, NoMeta
  <2>2. ~mixed /\ ~behind' => Settled'
    BY <1>0, <1>4, <2>1, AtStep DEF OnDisk, Settled, Absent
  <2> QED
    BY <1>0, <1>4, <2>1, <2>2, ComesBack
<1>5. CASE \E a \in {"image", "meta"} : Break(c, a) /\ Returns(c) /\ UNCHANGED <<image, meta>>
  <2>1. PICK a \in {"image", "meta"} : Break(c, a) /\ Returns(c) /\ UNCHANGED <<image, meta>>
    BY <1>5
  <2>2. Carries(c) /\ breaks' = breaks + 1 /\ mixed' = mixed /\ breaks \in Nat
    BY <1>1, <2>1, SMTT(60) DEF RemoveVolume, Carries, VolumeType, Break
  <2>3. CASE a = "image"
    <3>0. breaks' \in Nat /\ breaks <= breaks' /\ (behind => behind') /\ At2(c, "image")
      BY <2>1, <2>2, <2>3 DEF Carries, Break
    <3>1. ~mixed /\ ~behind' => Whole'
      BY <1>0, <2>1, <2>2, <3>0, AtStep, FilesKept DEF OnDisk
    <3> QED
      BY <1>0, <2>1, <2>2, <3>1, ComesBack DEF Settled
  <2>4. CASE a = "meta"
    <3>1. behind'
      <4>1. breaks + 1 # breaks
        BY <2>2, SMTT(60)
      <4> QED
        BY <2>1, <2>2, <2>4, <4>1 DEF RemoveVolume, Break
    <3> QED
      BY <1>0, <2>1, <2>2, <3>1, ComesBack
  <2> QED BY <2>3, <2>4
<1> QED BY <1>2, <1>3, <1>4, <1>5 DEF RemoveVolume

(* A caller is killed between two steps.                                     *)
LEMMA KilledStep == ASSUME VolumeInv, NEW c \in Callers, Killed(c) PROVE VolumeInv'
<1> USE VolumeBounds
<1>1. VolumeType /\ breaks \in Nat /\ breaks' = breaks + 1
  BY DEF VolumeInv, VolumeType, Killed
<1>2. Carries(c) /\ Busy(c) /\ Returns(c) /\ UNCHANGED <<image, meta, mixed>>
  BY <1>1, SMTT(60) DEF Killed, Carries, VolumeType
<1>3. (Settled => Settled') /\ (Whole => Whole') /\ (meta = NoMeta => Settled')
  BY <1>1, <1>2, FilesKept, SMTT(60) DEF Settled, Absent
<1>4. ~mixed /\ ~behind' => Settled'
  <2> SUFFICES ASSUME ~mixed, ~behind' PROVE Settled'
    OBVIOUS
  <2>1. ~behind /\ call[c].at \notin {"grow", "open", "write", "meta"}
    BY DEF Killed
  <2>2. OnDisk(c)
    BY <1>2, <2>1, AtStep
  <2>3. \/ At2(c, "check") \/ At2(c, "image")
        \/ At2(c, "truncate") /\ call[c].op \in {"create", "resize"}
        \/ At2(c, "format") /\ call[c].op = "create"
    BY <1>1, <1>2, <2>1 DEF VolumeType, Calls, Stages, At2, Busy
  <2> QED
    BY <1>3, <2>2, <2>3 DEF OnDisk, Settled
<1> QED
  BY <1>2, <1>4, ComesBack

(* For any number of callers, sizes, failures and crashes: unless calls      *)
(* overlapped or one was cut short between the two files, a volume on record *)
(* is a whole image, and unless something failed nothing is left half made   *)
(* (volume.rs create, resize, remove).                                       *)
THEOREM VolumeIsSound == VolumeSpec => []VolumeSound
<1>1. VolumeInit => VolumeInv
  <2> SUFFICES ASSUME VolumeInit PROVE VolumeInv
    OBVIOUS
  <2>1. \A c \in Callers : call[c].op = "none" /\ call[c].at = "none" /\ call[c].size = 0
    BY DEF VolumeInit, NoCall
  <2>2. call \in Calls
    BY VolumeBounds, SMTT(60) DEF VolumeInit, NoCall, Calls
  <2>3. mixed \in BOOLEAN /\ behind \in BOOLEAN /\ ~behind
    BY DEF VolumeInit
  <2>4. VolumeType
    BY <2>1, <2>2, <2>3, VolumeBounds, SMTT(60) DEF VolumeInit, VolumeType, NoImage, NoMeta, Stages, Busy
  <2>5. Settled
    BY DEF VolumeInit, Settled, Absent
  <2> QED
    BY <2>1, <2>3, <2>4, <2>5 DEF VolumeInv, OneCall, Busy
<1>2. VolumeInv /\ [VolumeNext]_volumeVars => VolumeInv'
  <2> SUFFICES ASSUME VolumeInv, [VolumeNext]_volumeVars PROVE VolumeInv'
    OBVIOUS
  <2>1. CASE VolumeNext
    BY <2>1, AskStep, CreateStep, ResizeStep, MetaStep, RemoveStep, KilledStep DEF VolumeNext
  <2>2. CASE UNCHANGED volumeVars
    BY <2>2 DEF volumeVars, VolumeInv, VolumeType, OneCall, OnDisk, Busy, At2, Settled, Whole, Absent
  <2> QED BY <2>1, <2>2
<1>3. VolumeInv => VolumeSound
  <2> SUFFICES ASSUME VolumeInv PROVE VolumeSound
    OBVIOUS
  <2>1. VolumeType /\ meta \in Nat /\ image.len \in Nat /\ image.fs \in Nat
    BY ImageFields, VolumeBounds, SMTT(60) DEF VolumeInv, VolumeType
  <2>2. VolumeWhole
    <3> SUFFICES ASSUME meta \in 1..MaxSize, ~mixed, ~behind
                 PROVE  \/ image.fs = meta /\ image.len >= meta
                        \/ \E c \in Callers : call[c].op = "resize" /\ image.len >= meta /\ image.fs >= meta
                        \/ image = NoImage /\ \E c \in Callers : At2(c, "meta")
      BY DEF VolumeWhole
    <3>1. CASE \A c \in Callers : ~Busy(c)
      <4>1. Settled
        BY <3>1 DEF VolumeInv, OneCall
      <4> QED
        BY <4>1, SMTT(60) DEF Settled, Whole, Absent, NoMeta
    <3>2. ASSUME NEW c \in Callers, Busy(c)
          PROVE  \/ image.fs = meta /\ image.len >= meta
                 \/ call[c].op = "resize" /\ image.len >= meta /\ image.fs >= meta
                 \/ image = NoImage /\ At2(c, "meta")
      <4>1. OnDisk(c)
        BY <3>2, AtStep
      <4>2. call[c].op \in {"create", "resize", "remove"} /\ call[c].at \in Stages(call[c].op) /\ call[c].size \in Nat
        BY <2>1, <3>2, VolumeBounds, SMTT(60) DEF VolumeType, Calls, Busy
      <4> QED
        BY <2>1, <4>1, <4>2, VolumeBounds, SMTT(60) DEF OnDisk, Settled, Whole, Absent, NoMeta, TornMeta, Stages, At2
    <3> QED BY <3>1, <3>2
  <2>3. NoHalfVolume
    <3> SUFFICES ASSUME breaks = 0, ~mixed, \A c \in Callers : ~Busy(c) PROVE image = NoImage <=> meta = NoMeta
      BY DEF NoHalfVolume
    <3>1. Settled
      BY DEF VolumeInv, OneCall
    <3> QED
      BY <2>1, <3>1, ImageFields, SMTT(60) DEF Settled, Whole, Absent, NoMeta
  <2> QED BY <2>2, <2>3 DEF VolumeSound
<1> QED
  BY <1>1, <1>2, <1>3, PTL DEF VolumeSpec
============================================================================
