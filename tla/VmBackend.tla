----------------------------- MODULE VmBackend -----------------------------
(***************************************************************************)
(* The lifecycle half of VmmBackend (visor-runtime/src/backend.rs): the    *)
(* maps vms, live_vms and vm_configs, the requests create,                 *)
(* create_from_snapshot, start, stop, kill and destroy, and the background *)
(* task monitor_vm_completion.  Every map has a lock of its own and a      *)
(* request awaits between two locks, so a request is a sequence of steps   *)
(* (field pc of its task) and one action is what runs under one lock.      *)
(*                                                                         *)
(* A boot of a VM is an incarnation, named by the guest CID it was given.  *)
(* The vCPU thread, its kill flag, its port-forward rules and its monitor  *)
(* are functions of the CID; the map entries and the temporary directory   *)
(* ("visor-{id}") are functions of the VM id.                              *)
(***************************************************************************)
EXTENDS Integers, FiniteSets, TLC

CONSTANTS
  Ids,        \* VM identifiers that can be issued (UUIDs)
  Names,      \* VM names
  Clients,    \* concurrent request handlers
  Ops,        \* the requests that clients make, a subset of AllOps
  MaxCid,     \* bound on allocated CIDs (a boot takes one)
  Prompt,     \* TRUE: a start waits until the monitors of earlier boots are done
  None,       \* the absent value of an Option
  NoEntry     \* the value of a key that is not in a map

FirstGuestCid == 3
Cids == FirstGuestCid..MaxCid
AllOps == {"create", "run", "restore", "start", "stop", "kill", "destroy"}
BootOps == {"create", "run", "restore"}

ASSUME BackendAssumption ==
  /\ MaxCid \in Nat /\ MaxCid >= FirstGuestCid
  /\ Prompt \in BOOLEAN
  /\ Ops \subseteq AllOps
  /\ None \notin Names \cup Ids
  /\ NoEntry \notin Names \cup {None}

VARIABLES
  vms,       \* id -> VmInfo
  live,      \* id -> VmLiveState
  configs,   \* id -> name in the stored VmConfig (None: generated)
  issued,    \* ids given to a VM so far (UUIDs are never reused)
  nextCid,   \* AtomicU32 next_cid
  owner,     \* cid -> id of the VM it was allocated for
  thread,    \* cid -> state of the vCPU thread
  kill,      \* cid -> kill_flag
  acked,     \* cid -> the guest agent has accepted a shutdown request
  forward,   \* cid -> its port-forward rules are installed
  tmp,       \* id -> the temporary directory visor-{id} exists
  mon,       \* cid -> task monitor_vm_completion spawned for that boot
  task       \* client -> the request it is serving

bootVars == <<owner, thread, kill, acked, forward>>
mapVars == <<vms, live, configs, issued>>
vars == <<mapVars, nextCid, bootVars, tmp, mon, task>>

-----------------------------------------------------------------------------
VmStates == {"Creating", "Running", "Stopped", "Failed"}

\* exit: the incarnation whose serial output filled exit_code, 0 for None.
VmInfo == [state: VmStates, name: Names, cid: Cids \cup {0}, exit: Cids \cup {0}]

\* rx: completion_rx is still in the entry.
VmLiveState == [cid: Cids, rx: BOOLEAN]

ASSUME EntryAssumption == NoEntry \notin VmLiveState
ASSUME InfoAssumption == NoEntry \notin VmInfo

Pcs == {"idle", "config", "build", "running", "boot", "forward", "live", "publish",
        "await", "finish", "fail", "drop", "mark",
        "take", "shutdown", "wait", "capture", "join", "stopped", "remove"}

\* cid: the incarnation a create or start is booting.  held: the incarnation
\* whose VmLiveState a stop has taken out of live_vms, 0 for none.
Tasks == [op: AllOps \cup {"none"}, pc: Pcs, id: Ids \cup {None}, name: Names \cup {None},
          cid: Cids \cup {0}, held: Cids \cup {0}, rx: BOOLEAN]

NewTask(op, pc, id, name, cid) ==
  [op |-> op, pc |-> pc, id |-> id, name |-> name, cid |-> cid, held |-> 0, rx |-> FALSE]

Idle == NewTask("none", "idle", None, None, 0)

MonPcs == {"none", "take", "await", "mark", "join", "ensure", "done"}
Monitors == [pc: MonPcs, rx: Cids \cup {0}, held: Cids \cup {0}]
NoMonitor == [pc |-> "none", rx |-> 0, held |-> 0]

\* The maps, the incarnations, the monitors and the requests keep their types:
\* in particular every listed VM has a name (create, start, restore_vms).
TypeOK ==
  /\ vms \in [Ids -> VmInfo \cup {NoEntry}]
  /\ live \in [Ids -> VmLiveState \cup {NoEntry}]
  /\ configs \in [Ids -> Names \cup {None, NoEntry}]
  /\ issued \subseteq Ids
  /\ nextCid \in FirstGuestCid..(MaxCid + 1)
  /\ owner \in [Cids -> Ids \cup {None}]
  /\ thread \in [Cids -> {"none", "running", "exited"}]
  /\ kill \in [Cids -> BOOLEAN]
  /\ acked \in [Cids -> BOOLEAN]
  /\ forward \in [Cids -> BOOLEAN]
  /\ tmp \in [Ids -> BOOLEAN]
  /\ mon \in [Cids -> Monitors]
  /\ task \in [Clients -> Tasks]

\* A backend as daemon::restore_vms leaves it: every persisted VM is Stopped,
\* has its configuration and a name of its own; next_cid is FIRST_GUEST_CID.
\* (Names can repeat after a restart only through the directory of a destroyed
\* VM, which DaemonRestart shows can stay behind.)
Init ==
  \E restored \in SUBSET Ids :
    \E nm \in [restored -> Names] :
      /\ \A i, j \in restored : i # j => nm[i] # nm[j]
      /\ vms = [i \in Ids |-> IF i \in restored
                  THEN [state |-> "Stopped", name |-> nm[i], cid |-> 0, exit |-> 0]
                  ELSE NoEntry]
      /\ configs = [i \in Ids |-> IF i \in restored THEN nm[i] ELSE NoEntry]
      /\ issued = restored
      /\ live = [i \in Ids |-> NoEntry]
      /\ nextCid = FirstGuestCid
      /\ owner = [c \in Cids |-> None]
      /\ thread = [c \in Cids |-> "none"]
      /\ kill = [c \in Cids |-> FALSE]
      /\ acked = [c \in Cids |-> FALSE]
      /\ forward = [c \in Cids |-> FALSE]
      /\ tmp = [i \in Ids |-> FALSE]
      /\ mon = [c \in Cids |-> NoMonitor]
      /\ task = [t \in Clients |-> Idle]

-----------------------------------------------------------------------------
(* Helpers. *)

Goto(t, pc) == task' = [task EXCEPT ![t].pc = pc]
Return(t) == task' = [task EXCEPT ![t] = Idle]

At(t, ops, pc) == task[t].op \in ops /\ task[t].pc = pc

Present(id) == vms[id] # NoEntry

\* `if let Some(vm) = vms.get_mut(id) { vm.state = s }`
WithState(id, s) ==
  IF Present(id) THEN [vms EXCEPT ![id].state = s] ELSE vms

\* The same, with exit_code taken from the serial output of incarnation c.
WithExit(id, s, c) ==
  IF Present(id) THEN [vms EXCEPT ![id].state = s, ![id].exit = c] ELSE vms

\* Mutant of DropLive: the rules are not tied to the entry.
DropLiveLeak(l) == forward

\* Dropping a VmLiveState drops its port_forward_handle, which removes the
\* rules; it neither sets kill_flag nor stops the thread.
DropLive(l) ==
  IF l = NoEntry THEN forward ELSE [forward EXCEPT ![l.cid] = FALSE]

\* name_exists
NameExists(n) == \E i \in Ids : Present(i) /\ vms[i].name = n

\* allocate_cid, for VM id.
AllocateCid(id) ==
  /\ nextCid <= MaxCid
  /\ nextCid' = nextCid + 1
  /\ owner' = [owner EXCEPT ![nextCid] = id]

-----------------------------------------------------------------------------
(* create (detached), create of a VM that runs to completion ("run") and   *)
(* create_from_snapshot ("restore").                                       *)

\* Mutant of ChosenNames: a generated name is not looked up.
ChosenNamesUnchecked(requested) ==
  {n \in Names : IF requested = None THEN TRUE ELSE n = requested /\ ~NameExists(n)}

\* choose_unique_vm_name: a requested name must be free; without one a free
\* name is generated.
ChosenNames(requested) ==
  {n \in Names : ~NameExists(n) /\ requested \in {n, None}}

\* The name is chosen and the entry inserted under one write lock of vms.
Create(t, op, requested) ==
  /\ task[t] = Idle
  /\ \E id \in Ids \ issued, n \in ChosenNames(requested) :
       /\ AllocateCid(id)
       /\ vms' = [vms EXCEPT ![id] =
                    [state |-> "Creating", name |-> n, cid |-> nextCid, exit |-> 0]]
       /\ issued' = issued \cup {id}
       /\ task' = [task EXCEPT ![t] = NewTask(op, "config", id, requested, nextCid)]
  /\ UNCHANGED <<live, configs, thread, kill, acked, forward, tmp, mon>>

\* The name is taken, or 32 generated names all were: the CID is spent.
CreateRejected(t, requested) ==
  /\ task[t] = Idle
  /\ IF requested = None THEN \E n \in Names : NameExists(n) ELSE NameExists(requested)
  /\ \E id \in Ids \ issued : AllocateCid(id) /\ issued' = issued \cup {id}
  /\ UNCHANGED <<vms, live, configs, thread, kill, acked, forward, tmp, mon, task>>

StoreConfig(t) ==
  /\ At(t, BootOps \cup {"start"}, "config")
  /\ configs' = [configs EXCEPT ![task[t].id] = task[t].name]
  /\ Goto(t, "build")
  /\ UNCHANGED <<vms, live, issued, nextCid, bootVars, tmp, mon>>

\* pull_and_build_rootfs, resolve_vm_storage: fills visor-{id}.
BuildRootfs(t) ==
  /\ At(t, BootOps \cup {"start"}, "build")
  /\ tmp' = [tmp EXCEPT ![task[t].id] = TRUE]
  /\ Goto(t, IF task[t].op = "run" THEN "running" ELSE "boot")
  /\ UNCHANGED <<mapVars, nextCid, bootVars, mon>>

\* run_pipeline marks the VM Running before it boots it.
MarkRunning(t) ==
  /\ At(t, {"run"}, "running")
  /\ vms' = WithState(task[t].id, "Running")
  /\ Goto(t, "boot")
  /\ UNCHANGED <<live, configs, issued, nextCid, bootVars, tmp, mon>>

\* boot_vm opens the rootfs image in visor-{id}; a snapshot has its own.
Boot(t) ==
  /\ At(t, BootOps \cup {"start"}, "boot")
  /\ tmp[task[t].id] \/ task[t].op = "restore"
  /\ thread' = [thread EXCEPT ![task[t].cid] = "running"]
  /\ Goto(t, "forward")
  /\ UNCHANGED <<mapVars, nextCid, owner, kill, acked, forward, tmp, mon>>

\* create_from_snapshot returns its errors with `?` and leaves the entry as
\* it is; the other pipelines go on to mark the VM Failed.
PipelineError(t) ==
  IF task[t].op = "restore" THEN Return(t) ELSE Goto(t, "fail")

\* The pull fails (the directory may already be there), or the boot does.
BootFails(t) ==
  /\ \E pc \in {"build", "boot"} : At(t, BootOps \cup {"start"}, pc)
  /\ \/ UNCHANGED tmp
     \/ task[t].pc = "build" /\ tmp' = [tmp EXCEPT ![task[t].id] = TRUE]
  /\ PipelineError(t)
  /\ UNCHANGED <<mapVars, nextCid, bootVars, mon>>

SetupForwards(t) ==
  /\ At(t, BootOps \cup {"start"}, "forward")
  /\ forward' = [forward EXCEPT ![task[t].cid] = TRUE]
  /\ Goto(t, IF task[t].op = "run" THEN "await" ELSE "live")
  /\ UNCHANGED <<mapVars, nextCid, owner, thread, kill, acked, tmp, mon>>

\* The early return drops the VmHandle: kill_flag is set, the thread joined.
ForwardsFail(t) ==
  /\ At(t, BootOps \cup {"start"}, "forward")
  /\ kill' = [kill EXCEPT ![task[t].cid] = TRUE]
  /\ thread' = [thread EXCEPT ![task[t].cid] = "exited"]
  /\ PipelineError(t)
  /\ UNCHANGED <<mapVars, nextCid, owner, acked, forward, tmp, mon>>

MarkFailed(t) ==
  /\ At(t, BootOps \cup {"start"}, "fail")
  /\ vms' = WithState(task[t].id, "Failed")
  /\ Return(t)
  /\ UNCHANGED <<live, configs, issued, nextCid, bootVars, tmp, mon>>

\* insert() replaces, and drops, an entry that is already there.
InsertLive(t) ==
  LET id == task[t].id IN
  /\ At(t, BootOps \cup {"start"}, "live")
  /\ forward' = DropLive(live[id])
  /\ live' = [live EXCEPT ![id] = [cid |-> task[t].cid, rx |-> TRUE]]
  /\ Goto(t, "publish")
  /\ UNCHANGED <<vms, configs, issued, nextCid, owner, thread, kill, acked, tmp, mon>>

\* create: the monitor is spawned even if the VM disappeared.
\* create_from_snapshot spawns none.  start returns an error, without a
\* monitor, if the VM disappeared.
Publish(t) ==
  LET id == task[t].id
      spawn == task[t].op = "create" \/ (task[t].op = "start" /\ Present(id))
  IN
  /\ At(t, BootOps \cup {"start"}, "publish")
  /\ vms' = IF ~Present(id) THEN vms
            ELSE IF task[t].op = "start"
                 THEN [vms EXCEPT ![id].state = "Running", ![id].cid = task[t].cid]
                 ELSE [vms EXCEPT ![id].state = "Running"]
  /\ mon' = IF spawn THEN [mon EXCEPT ![task[t].cid].pc = "take"] ELSE mon
  /\ Return(t)
  /\ UNCHANGED <<live, configs, issued, nextCid, bootVars, tmp>>

\* run_pipeline: the handle is dropped and the directory removed on return.
RunCompletes(t) ==
  /\ At(t, {"run"}, "await")
  /\ thread[task[t].cid] = "exited"
  /\ forward' = [forward EXCEPT ![task[t].cid] = FALSE]
  /\ tmp' = [tmp EXCEPT ![task[t].id] = FALSE]
  /\ Goto(t, "finish")
  /\ UNCHANGED <<mapVars, nextCid, owner, thread, kill, acked, mon>>

RunFinishes(t) ==
  /\ At(t, {"run"}, "finish")
  /\ vms' = WithExit(task[t].id, "Stopped", task[t].cid)
  /\ Return(t)
  /\ UNCHANGED <<live, configs, issued, nextCid, bootVars, tmp, mon>>

-----------------------------------------------------------------------------
(* start *)

\* The monitors of the earlier boots of id are finished.
Quiet(id) == \A c \in Cids : owner[c] = id => mon[c].pc \in {"none", "done"}

\* The name a start gives the VM.
StartName(id) == IF configs[id] = None THEN vms[id].name ELSE configs[id]

\* The state check, and the configuration with the name filled in.
Start(t, id) ==
  /\ task[t] = Idle
  /\ Prompt => Quiet(id)
  /\ Present(id) /\ vms[id].state \in {"Stopped", "Failed"}
  /\ configs[id] # NoEntry
  /\ AllocateCid(id)
  /\ task' = [task EXCEPT ![t] = NewTask("start", "drop", id, StartName(id), nextCid)]
  /\ UNCHANGED <<mapVars, thread, kill, acked, forward, tmp, mon>>

StartDrops(t) ==
  LET id == task[t].id IN
  /\ At(t, {"start"}, "drop")
  /\ forward' = DropLive(live[id])
  /\ live' = [live EXCEPT ![id] = NoEntry]
  /\ Goto(t, "mark")
  /\ UNCHANGED <<vms, configs, issued, nextCid, owner, thread, kill, acked, tmp, mon>>

StartMarks(t) ==
  LET id == task[t].id IN
  /\ At(t, {"start"}, "mark")
  /\ IF Present(id)
       THEN /\ vms' = [vms EXCEPT ![id] = [state |-> "Creating", name |-> task[t].name,
                                           cid |-> task[t].cid, exit |-> 0]]
            /\ Goto(t, "config")
       ELSE Return(t) /\ UNCHANGED vms
  /\ UNCHANGED <<live, configs, issued, nextCid, bootVars, tmp, mon>>

-----------------------------------------------------------------------------
(* stop, kill and destroy (destroy is a stop of 10 seconds and a removal). *)

StopOps == {"stop", "kill", "destroy"}

\* A VM that is Stopped or Failed is left alone: stop and kill return.
Stop(t, op, id) ==
  /\ task[t] = Idle
  /\ Present(id)
  /\ LET settled == vms[id].state \in {"Stopped", "Failed"} IN
     /\ settled => op = "destroy"
     /\ task' = [task EXCEPT ![t] =
                   NewTask(op, IF settled THEN "remove" ELSE "take", id, None, 0)]
  /\ UNCHANGED <<mapVars, nextCid, bootVars, tmp, mon>>

\* kill() sets the flag and goes on without the guest.
TakeLive(t) ==
  LET id == task[t].id IN
  /\ At(t, StopOps, "take")
  /\ live' = [live EXCEPT ![id] = NoEntry]
  /\ IF live[id] = NoEntry
       THEN Goto(t, "stopped") /\ UNCHANGED kill
       ELSE LET c == live[id].cid IN
            /\ task' = [task EXCEPT ![t] =
                 [@ EXCEPT !.held = c, !.rx = live[id].rx,
                           !.pc = IF task[t].op = "kill" THEN "capture" ELSE "shutdown"]]
            /\ kill' = IF task[t].op = "kill" THEN [kill EXCEPT ![c] = TRUE] ELSE kill
  /\ UNCHANGED <<vms, configs, issued, nextCid, owner, thread, acked, forward, tmp, mon>>

\* The guest agent answers.  If the monitor has the completion receiver, stop
\* does not wait for the exit, and does not set the flag.
ShutdownAcked(t) ==
  /\ At(t, StopOps, "shutdown")
  /\ thread[task[t].held] = "running"
  /\ acked' = [acked EXCEPT ![task[t].held] = TRUE]
  /\ Goto(t, IF task[t].rx THEN "wait" ELSE "capture")
  /\ UNCHANGED <<mapVars, nextCid, owner, thread, kill, forward, tmp, mon>>

\* No answer, an error, or a timeout of zero; or no exit in 2 s after one.
ForceStop(t) ==
  /\ At(t, StopOps, "shutdown") \/ At(t, StopOps, "wait")
  /\ kill' = [kill EXCEPT ![task[t].held] = TRUE]
  /\ Goto(t, "capture")
  /\ UNCHANGED <<mapVars, nextCid, owner, thread, acked, forward, tmp, mon>>

ExitAfterShutdown(t) ==
  /\ At(t, StopOps, "wait")
  /\ thread[task[t].held] = "exited"
  /\ Goto(t, "capture")
  /\ UNCHANGED <<mapVars, nextCid, bootVars, tmp, mon>>

\* The exit code is read from the serial output, if there is any.
CaptureOutput(t) ==
  LET id == task[t].id IN
  /\ At(t, StopOps, "capture")
  /\ \/ UNCHANGED vms
     \/ Present(id) /\ vms' = [vms EXCEPT ![id].exit = task[t].held]
  /\ Goto(t, "join")
  /\ UNCHANGED <<live, configs, issued, nextCid, bootVars, tmp, mon>>

\* The thread has exited, or 2 s are over and it is detached: both lead here.
JoinAndClean(t) ==
  /\ At(t, StopOps, "join")
  /\ forward' = [forward EXCEPT ![task[t].held] = FALSE]
  /\ tmp' = [tmp EXCEPT ![task[t].id] = FALSE]
  /\ Goto(t, "stopped")
  /\ UNCHANGED <<mapVars, nextCid, owner, thread, kill, acked, mon>>

MarkStopped(t) ==
  /\ At(t, StopOps, "stopped")
  /\ vms' = WithState(task[t].id, "Stopped")
  /\ IF task[t].op = "destroy" THEN Goto(t, "remove") ELSE Return(t)
  /\ UNCHANGED <<live, configs, issued, nextCid, bootVars, tmp, mon>>

\* The lock of vms is held over all three removals.
Remove(t) ==
  LET id == task[t].id IN
  /\ At(t, {"destroy"}, "remove")
  /\ IF Present(id)
       THEN /\ forward' = DropLive(live[id])
            /\ vms' = [vms EXCEPT ![id] = NoEntry]
            /\ live' = [live EXCEPT ![id] = NoEntry]
            /\ configs' = [configs EXCEPT ![id] = NoEntry]
       ELSE UNCHANGED <<forward, vms, live, configs>>
  /\ Return(t)
  /\ UNCHANGED <<issued, nextCid, owner, thread, kill, acked, tmp, mon>>

-----------------------------------------------------------------------------
(* monitor_vm_completion, for the boot with CID c of VM owner[c]. *)

\* It looks the VM up by id: the entry it finds may be of a later boot.
MonitorTakes(c) ==
  LET id == owner[c] IN
  /\ mon[c].pc = "take"
  /\ IF live[id] # NoEntry /\ live[id].rx
       THEN /\ mon' = [mon EXCEPT ![c].pc = "await", ![c].rx = live[id].cid]
            /\ live' = [live EXCEPT ![id].rx = FALSE]
       ELSE mon' = [mon EXCEPT ![c].pc = "done"] /\ UNCHANGED live
  /\ UNCHANGED <<vms, configs, issued, nextCid, bootVars, tmp, task>>

\* Mutant of MonitorClaims: the entry is read and left in live_vms.
MonitorPeeks(c) ==
  LET id == owner[c] IN
  /\ mon[c].pc = "await"
  /\ thread[mon[c].rx] = "exited"
  /\ mon' = IF live[id] = NoEntry
              THEN [mon EXCEPT ![c].pc = "ensure"]
              ELSE [mon EXCEPT ![c].pc = "mark", ![c].held = live[id].cid]
  /\ UNCHANGED <<vms, live, configs, issued, nextCid, bootVars, tmp, task>>

MonitorClaims(c) ==
  LET id == owner[c] IN
  /\ mon[c].pc = "await"
  /\ thread[mon[c].rx] = "exited"
  /\ mon' = IF live[id] = NoEntry
              THEN [mon EXCEPT ![c].pc = "ensure"]
              ELSE [mon EXCEPT ![c].pc = "mark", ![c].held = live[id].cid]
  /\ live' = [live EXCEPT ![id] = NoEntry]
  /\ UNCHANGED <<vms, configs, issued, nextCid, bootVars, tmp, task>>

MonitorMarks(c) ==
  /\ mon[c].pc = "mark"
  /\ vms' = WithExit(owner[c], "Stopped", mon[c].held)
  /\ mon' = [mon EXCEPT ![c].pc = "join"]
  /\ UNCHANGED <<live, configs, issued, nextCid, bootVars, tmp, task>>

\* Mutant of MonitorCleans: the rules are left to somebody else.
MonitorCleansDirOnly(c) ==
  /\ mon[c].pc = "join"
  /\ thread[mon[c].held] = "exited"
  /\ tmp' = [tmp EXCEPT ![owner[c]] = FALSE]
  /\ mon' = [mon EXCEPT ![c].pc = "done"]
  /\ UNCHANGED <<mapVars, nextCid, bootVars, task>>

MonitorCleans(c) ==
  /\ mon[c].pc = "join"
  /\ thread[mon[c].held] = "exited"
  /\ forward' = [forward EXCEPT ![mon[c].held] = FALSE]
  /\ tmp' = [tmp EXCEPT ![owner[c]] = FALSE]
  /\ mon' = [mon EXCEPT ![c].pc = "done"]
  /\ UNCHANGED <<mapVars, nextCid, owner, thread, kill, acked, task>>

MonitorEnsures(c) ==
  LET id == owner[c] IN
  /\ mon[c].pc = "ensure"
  /\ vms' = IF Present(id) /\ vms[id].state = "Running" THEN WithState(id, "Stopped") ELSE vms
  /\ mon' = [mon EXCEPT ![c].pc = "done"]
  /\ UNCHANGED <<live, configs, issued, nextCid, bootVars, tmp, task>>

-----------------------------------------------------------------------------
\* The guest powers off, or run_loop sees kill_flag.
ThreadExits(c) ==
  /\ thread[c] = "running"
  /\ thread' = [thread EXCEPT ![c] = "exited"]
  /\ UNCHANGED <<mapVars, nextCid, owner, kill, acked, forward, tmp, mon, task>>

Request(t) ==
  \/ \E op \in BootOps \cap Ops, n \in Names \cup {None} : Create(t, op, n)
  \/ BootOps \cap Ops # {} /\ \E n \in Names \cup {None} : CreateRejected(t, n)
  \/ "start" \in Ops /\ \E id \in Ids : Start(t, id)
  \/ \E op \in StopOps \cap Ops, id \in Ids : Stop(t, op, id)

Step(t) ==
  \/ StoreConfig(t) \/ BuildRootfs(t) \/ MarkRunning(t) \/ Boot(t) \/ BootFails(t)
  \/ SetupForwards(t) \/ ForwardsFail(t) \/ MarkFailed(t) \/ InsertLive(t) \/ Publish(t)
  \/ RunCompletes(t) \/ RunFinishes(t) \/ StartDrops(t) \/ StartMarks(t)
  \/ TakeLive(t) \/ ShutdownAcked(t) \/ ForceStop(t) \/ ExitAfterShutdown(t)
  \/ CaptureOutput(t) \/ JoinAndClean(t) \/ MarkStopped(t) \/ Remove(t)

MonitorStep(c) ==
  MonitorTakes(c) \/ MonitorClaims(c) \/ MonitorMarks(c) \/ MonitorCleans(c) \/ MonitorEnsures(c)

Next ==
  \/ \E t \in Clients : Request(t) \/ Step(t)
  \/ \E c \in Cids : MonitorStep(c) \/ ThreadExits(c)

Spec == Init /\ [][Next]_vars

\* The runtime polls every task that can go on; a vCPU thread whose kill flag
\* is set leaves run_loop at its next exit.  Nothing makes a client send a
\* request, and nothing makes a guest power off by itself.
Fairness ==
  /\ \A t \in Clients : WF_vars(Step(t))
  /\ \A c \in Cids : WF_vars(MonitorStep(c)) /\ WF_vars(kill[c] /\ ThreadExits(c))

FairSpec == Spec /\ Fairness

-----------------------------------------------------------------------------
(* Properties of every interleaving. *)

\* Two VMs in the map never have the same name, although start writes back a
\* name it read several awaits earlier (choose_unique_vm_name, start).
NamesUnique ==
  \A i, j \in Ids : Present(i) /\ Present(j) /\ vms[i].name = vms[j].name => i = j

\* The places that own the port_forward_handle of incarnation c.
HeldByLive(c) == \E i \in Ids : live[i] # NoEntry /\ live[i].cid = c
HeldByTask(c) == \E t \in Clients :
  \/ task[t].cid = c /\ task[t].pc \in {"live", "await"}
  \/ task[t].held = c /\ task[t].pc \in {"shutdown", "wait", "capture", "join"}
HeldByMonitor(c) == \E d \in Cids : mon[d].held = c /\ mon[d].pc \in {"mark", "join"}

\* Installed port-forward rules always have an owner that will remove them
\* when it is dropped: no path through the requests and the monitor leaks them.
ForwardOwned ==
  \A c \in Cids : forward[c] => HeldByLive(c) \/ HeldByTask(c) \/ HeldByMonitor(c)

-----------------------------------------------------------------------------
(* Properties of one client that waits for the monitor before a start. *)

Busy(id) == \E t \in Clients : task[t].id = id

\* A vCPU thread that nobody has told to stop is reachable: a request is
\* booting or stopping it, or live_vms holds it under a VM that is listed.
NoOrphan ==
  \A c \in Cids : thread[c] = "running" /\ ~kill[c] /\ ~acked[c] =>
    \/ \E t \in Clients : c \in {task[t].cid, task[t].held}
    \/ Present(owner[c]) /\ live[owner[c]] # NoEntry /\ live[owner[c]].cid = c

\* Between requests the two maps agree: a Running VM has the live state of the
\* boot that vms shows (or the monitor has just claimed it), the others none.
MapsAgree ==
  \A id \in Ids : ~Busy(id) =>
    IF Present(id) /\ vms[id].state = "Running"
      THEN LET c == vms[id].cid IN
           \/ live[id] # NoEntry /\ live[id].cid = c
           \/ mon[c].pc = "mark" /\ mon[c].held = c
      ELSE live[id] = NoEntry

\* The recorded exit code belongs to the boot that vms shows.
ExitOfThisBoot ==
  \A id \in Ids : Present(id) => vms[id].exit \in {0, vms[id].cid}

\* create_from_snapshot spawns no monitor: a restored boot that it has published
\* is in live_vms and nothing awaits its exit.
Unwatched(c) ==
  /\ mon[c].pc = "none" /\ \A t \in Clients : task[t].cid # c
  /\ owner[c] # None /\ live[owner[c]] # NoEntry /\ live[owner[c]].cid = c

\* An exit is reported: a VM whose vCPU thread has ended does not stay Running,
\* unless it was restored from a snapshot, which stays Running until it is stopped.
ExitReported ==
  \A c \in Cids : \A id \in Ids :
    (thread[c] = "exited" /\ owner[c] = id)
      ~> (Unwatched(c) \/ ~(Present(id) /\ vms[id].state = "Running" /\ vms[id].cid = c))

\* stop, kill and destroy return, whatever the guest does with the request.
StopAnswered == \A t \in Clients : task[t].op \in StopOps ~> task[t] = Idle

\* After an exit the rules go away; those of a restored VM, with its stop.
ForwardReleased == \A c \in Cids : (thread[c] = "exited") ~> (~forward[c] \/ Unwatched(c))

-----------------------------------------------------------------------------
(* What the comments of the code say and some interleaving breaks. *)

\* "transition state from Running to Stopped when the vCPU exits": when the
\* monitor marks the VM Stopped, the vCPU whose entry it claimed has exited.
ClaimAfterExit ==
  \A c \in Cids : mon[c].pc = "mark" => thread[mon[c].held] = "exited"

\* "Destroy a VM, removing all associated resources": when no request is at
\* work on a VM that is gone, no vCPU thread of it runs on unstopped.
DestroyedIsGone ==
  \A c \in Cids :
    owner[c] # None /\ ~Present(owner[c]) /\ ~Busy(owner[c])
      => ~(thread[c] = "running" /\ ~kill[c] /\ ~acked[c])

\* "If the grace period expires (or is 0), sets the kill flag": a VM shown as
\* Stopped, with no request at work, has no thread without the kill flag.
StopForces ==
  \A id \in Ids : Present(id) /\ ~Busy(id) /\ vms[id].state = "Stopped" =>
    \A c \in Cids : owner[c] = id /\ thread[c] = "running" => kill[c]


(* What the backend shows of a VM is true of its present boot: no vCPU       *)
(* thread runs that nothing would stop, the maps of entries and of live      *)
(* states agree between requests, and the exit code shown is not that of an  *)
(* earlier boot (backend.rs boot_and_register, start, stop and               *)
(* spawn_vm_monitor).                                                        *)
BootTruthful ==
  NoOrphan /\ MapsAgree /\ ExitOfThisBoot

(* Under fair scheduling an exit is reported and the port-forward rules of a *)
(* VM that ended are removed, except for a VM restored from a snapshot, for  *)
(* which backend.rs create_from_snapshot spawns no monitor; stop, kill and   *)
(* destroy are answered for every VM.                                        *)
RequestsSettle ==
  ExitReported /\ ForwardReleased /\ StopAnswered
----------------------------------------------------------------------------
(* VMs, names and clients are interchangeable (runs of safety properties). *)
Symmetry == Permutations(Ids) \cup Permutations(Names) \cup Permutations(Clients)
=============================================================================
