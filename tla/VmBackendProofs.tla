--------------------------- MODULE VmBackendProofs --------------------------
(***************************************************************************)
(* Proofs about VmBackend for every set of VMs, names and clients.         *)
(***************************************************************************)
EXTENDS VmBackend, TLAPS

(* The leaves are first-order and go to Zenon; those that count cite the   *)
(* SMT solver.                                                            *)
USE ZenonT(60)

\* What the types of the steps rest on: a request works on an issued VM, a
\* boot has the CID it allocated, a monitor belongs to a VM.
TaskOK ==
  \A t \in Clients :
    /\ task[t].op # "none" => task[t].id \in Ids
    /\ task[t].op \in BootOps \cup {"start"} =>
         task[t].cid \in Cids /\ owner[task[t].cid] \in Ids
    /\ task[t].op = "start" => task[t].name \in Names

MonitorOK == \A c \in Cids : mon[c].pc # "none" => owner[c] \in Ids

TypeInv == TypeOK /\ TaskOK /\ MonitorOK

-----------------------------------------------------------------------------
(* The steps change a record in one field, or return to Idle. *)

\* A request that goes on keeps all of its task but the program counter.
LEMMA GotoFacts ==
  ASSUME task \in [Clients -> Tasks], NEW t \in Clients, NEW pc \in Pcs, Goto(t, pc)
  PROVE  /\ task' \in [Clients -> Tasks]
         /\ task'[t].pc = pc
         /\ \A u \in Clients :
              /\ task'[u].op = task[u].op /\ task'[u].id = task[u].id
              /\ task'[u].name = task[u].name /\ task'[u].cid = task[u].cid
              /\ task'[u].held = task[u].held
              /\ u # t => task'[u] = task[u]
  BY DEF Goto, Tasks

\* A request that returns leaves the other tasks alone.
LEMMA ReturnFacts ==
  ASSUME task \in [Clients -> Tasks], NEW t \in Clients, Return(t)
  PROVE  /\ task' \in [Clients -> Tasks]
         /\ task'[t] = Idle
         /\ \A u \in Clients \ {t} : task'[u] = task[u]
  BY DEF Return, Tasks, Idle, NewTask, Pcs, AllOps

\* The fields of the idle task.
LEMMA IdleFacts ==
  Idle.op = "none" /\ Idle.pc = "idle" /\ Idle.id = None /\ Idle.cid = 0 /\ Idle.held = 0
  BY DEF Idle, NewTask

\* The fields of a task.
LEMMA TaskFields ==
  ASSUME task \in [Clients -> Tasks], NEW t \in Clients
  PROVE  /\ task[t].id \in Ids \cup {None} /\ task[t].name \in Names \cup {None}
         /\ task[t].cid \in Cids \cup {0} /\ task[t].held \in Cids \cup {0}
  BY DEF Tasks

\* Writing the state, or state and exit code, of a listed VM keeps the map's
\* type, its domain and its names.
LEMMA WithStateFacts ==
  ASSUME vms \in [Ids -> VmInfo \cup {NoEntry}], NEW id \in Ids, NEW s \in VmStates
  PROVE  /\ WithState(id, s) \in [Ids -> VmInfo \cup {NoEntry}]
         /\ \A c \in Cids \cup {0} : WithExit(id, s, c) \in [Ids -> VmInfo \cup {NoEntry}]
  BY DEF WithState, WithExit, Present, VmInfo

-----------------------------------------------------------------------------
(* Types. *)

\* What TakeLive does to the tasks when it finds a live state.
LEMMA TakeLiveTask ==
  ASSUME TypeInv, NEW t \in Clients, TakeLive(t), live[task[t].id] # NoEntry
  PROVE  /\ live[task[t].id].cid \in Cids
         /\ task' \in [Clients -> Tasks]
         /\ task'[t].pc \in {"capture", "shutdown"} /\ task'[t].held = live[task[t].id].cid
         /\ \A u \in Clients :
              /\ task'[u].op = task[u].op /\ task'[u].id = task[u].id
              /\ task'[u].name = task[u].name /\ task'[u].cid = task[u].cid
              /\ u # t => task'[u] = task[u]
<1> DEFINE id == task[t].id
<1>1. id \in Ids /\ live[id] \in VmLiveState
  BY DEF TakeLive, TypeInv, TypeOK, TaskOK, StopOps, At
<1> DEFINE pc == IF task[t].op = "kill" THEN "capture" ELSE "shutdown"
           new == [task[t] EXCEPT !.held = live[id].cid, !.rx = live[id].rx, !.pc = pc]
<1>2. task' = [task EXCEPT ![t] = new]
  BY DEF TakeLive
<1>3. live[id].cid \in Cids /\ live[id].rx \in BOOLEAN /\ pc \in Pcs /\ task \in [Clients -> Tasks]
  BY <1>1 DEF VmLiveState, Pcs, TypeInv, TypeOK
<1>4. QED
  <2>1. /\ new \in Tasks /\ new.pc = pc /\ new.held = live[id].cid /\ new.op = task[t].op
        /\ new.id = task[t].id /\ new.name = task[t].name /\ new.cid = task[t].cid
    BY <1>3 DEF Tasks
  <2> HIDE DEF new
  <2>2. QED
    BY <1>2, <1>3, <2>1

\* Every step of a request keeps the type invariant.
LEMMA StepTypeInv ==
  ASSUME TypeInv, NEW t \in Clients, Step(t)
  PROVE  TypeInv'
<1> USE DEF TypeInv, TypeOK
<1>0. /\ task[t].id \in Ids \cup {None} /\ task[t].name \in Names \cup {None}
      /\ task[t].cid \in Cids \cup {0} /\ task[t].held \in Cids \cup {0}
  BY TaskFields
<1>a. ASSUME NEW pc \in Pcs, Goto(t, pc), owner' = owner PROVE task' \in [Clients -> Tasks] /\ TaskOK'
  <2>1. /\ task' \in [Clients -> Tasks]
        /\ \A u \in Clients :
              /\ task'[u].op = task[u].op /\ task'[u].id = task[u].id
              /\ task'[u].name = task[u].name /\ task'[u].cid = task[u].cid
    BY <1>a, GotoFacts
  <2>2. QED
    BY <2>1, <1>a DEF TaskOK
<1>b. ASSUME Return(t), owner' = owner PROVE task' \in [Clients -> Tasks] /\ TaskOK'
  <2>1. task' \in [Clients -> Tasks] /\ task'[t] = Idle /\ \A u \in Clients \ {t} : task'[u] = task[u]
    BY <1>b, ReturnFacts
  <2>2. QED
    BY <2>1, <1>b, IdleFacts DEF TaskOK, BootOps
<1>1. CASE StoreConfig(t)
  BY <1>1, <1>0, <1>a
  DEF StoreConfig, At, TaskOK, MonitorOK, mapVars, bootVars, BootOps, StopOps, Pcs
<1>2. CASE BuildRootfs(t)
  BY <1>2, <1>0, <1>a
  DEF BuildRootfs, At, TaskOK, MonitorOK, mapVars, bootVars, BootOps, StopOps, Pcs
<1>3. CASE MarkRunning(t)
  BY <1>3, <1>0, <1>a, WithStateFacts
  DEF MarkRunning, At, TaskOK, MonitorOK, mapVars, bootVars, BootOps, StopOps, Pcs, VmStates
<1>4. CASE Boot(t)
  BY <1>4, <1>0, <1>a
  DEF Boot, At, TaskOK, MonitorOK, mapVars, bootVars, BootOps, StopOps, Pcs
<1>5. CASE BootFails(t)
  BY <1>5, <1>0, <1>a, <1>b
  DEF BootFails, At, PipelineError, TaskOK, MonitorOK, mapVars, bootVars, BootOps, StopOps, Pcs
<1>6. CASE SetupForwards(t)
  BY <1>6, <1>0, <1>a
  DEF SetupForwards, At, TaskOK, MonitorOK, mapVars, bootVars, BootOps, StopOps, Pcs
<1>7. CASE ForwardsFail(t)
  BY <1>7, <1>0, <1>a, <1>b
  DEF ForwardsFail, At, PipelineError, TaskOK, MonitorOK, mapVars, bootVars, BootOps, StopOps, Pcs
<1>8. CASE MarkFailed(t)
  BY <1>8, <1>0, <1>b, WithStateFacts
  DEF MarkFailed, At, TaskOK, MonitorOK, mapVars, bootVars, BootOps, StopOps, VmStates
<1>9. CASE InsertLive(t)
  BY <1>9, <1>0, <1>a
  DEF InsertLive, At, DropLive, VmLiveState, TaskOK, MonitorOK, mapVars, bootVars, BootOps, StopOps, Pcs
<1>10. CASE Publish(t)
  <2> USE <1>10, <1>0 DEF At
  <2>1. vms' \in [Ids -> VmInfo \cup {NoEntry}]
    BY SMTT(60) DEF Publish, Present, TaskOK, BootOps, VmInfo, VmStates
  <2>2. mon' \in [Cids -> Monitors] /\ MonitorOK'
    BY DEF Publish, TaskOK, MonitorOK, BootOps, Monitors, MonPcs, bootVars
  <2>3. QED
    BY <2>1, <2>2, <1>b DEF Publish, mapVars, bootVars
<1>11. CASE RunCompletes(t)
  BY <1>11, <1>0, <1>a
  DEF RunCompletes, At, TaskOK, MonitorOK, mapVars, bootVars, BootOps, StopOps, Pcs
<1>12. CASE RunFinishes(t)
  BY <1>12, <1>0, <1>b, WithStateFacts
  DEF RunFinishes, At, TaskOK, MonitorOK, mapVars, bootVars, BootOps, StopOps, VmStates
<1>13. CASE StartDrops(t)
  BY <1>13, <1>0, <1>a
  DEF StartDrops, At, DropLive, TaskOK, MonitorOK, mapVars, bootVars, BootOps, StopOps, Pcs
<1>14. CASE StartMarks(t)
  BY <1>14, <1>0, <1>a, <1>b, SMTT(60)
  DEF StartMarks, At, VmInfo, VmStates, TaskOK, MonitorOK, mapVars, bootVars, BootOps, StopOps, Pcs
<1>15. CASE TakeLive(t)
  <2> DEFINE id == task[t].id
  <2> USE <1>15, <1>0 DEF At
  <2>1. id \in Ids /\ live[id] \in VmLiveState \cup {NoEntry}
    BY DEF TakeLive, TaskOK, StopOps
  <2>2. task' \in [Clients -> Tasks] /\ TaskOK'
    <3>1. CASE live[id] = NoEntry
      BY <3>1, <1>a DEF TakeLive, Pcs
    <3>2. CASE live[id] # NoEntry
      <4>1. /\ task' \in [Clients -> Tasks]
            /\ \A u \in Clients :
                 /\ task'[u].op = task[u].op /\ task'[u].id = task[u].id
                 /\ task'[u].name = task[u].name /\ task'[u].cid = task[u].cid
        BY <3>2, TakeLiveTask
      <4>2. QED
        BY <4>1 DEF TakeLive, TaskOK
    <3>3. QED
      BY <3>1, <3>2
  <2>3. live' \in [Ids -> VmLiveState \cup {NoEntry}] /\ kill' \in [Cids -> BOOLEAN]
    BY <2>1 DEF TakeLive
  <2>4. QED
    BY <2>2, <2>3 DEF TakeLive, MonitorOK
<1>16. CASE ShutdownAcked(t)
  BY <1>16, <1>0, <1>a
  DEF ShutdownAcked, At, TaskOK, MonitorOK, mapVars, bootVars, BootOps, StopOps, Pcs
<1>17. CASE ForceStop(t)
  BY <1>17, <1>0, <1>a
  DEF ForceStop, At, TaskOK, MonitorOK, mapVars, bootVars, BootOps, StopOps, Pcs
<1>18. CASE ExitAfterShutdown(t)
  BY <1>18, <1>0, <1>a
  DEF ExitAfterShutdown, At, TaskOK, MonitorOK, mapVars, bootVars, BootOps, StopOps, Pcs
<1>19. CASE CaptureOutput(t)
  BY <1>19, <1>0, <1>a, SMTT(60)
  DEF CaptureOutput, At, Present, VmInfo, TaskOK, MonitorOK, mapVars, bootVars, BootOps, StopOps, Pcs
<1>20. CASE JoinAndClean(t)
  BY <1>20, <1>0, <1>a
  DEF JoinAndClean, At, TaskOK, MonitorOK, mapVars, bootVars, BootOps, StopOps, Pcs
<1>21. CASE MarkStopped(t)
  BY <1>21, <1>0, <1>a, <1>b, WithStateFacts
  DEF MarkStopped, At, TaskOK, MonitorOK, mapVars, bootVars, BootOps, StopOps, Pcs, VmStates
<1>22. CASE Remove(t)
  BY <1>22, <1>0, <1>b
  DEF Remove, At, DropLive, TaskOK, MonitorOK, mapVars, bootVars, BootOps, StopOps
<1>23. QED
  BY <1>1, <1>2, <1>3, <1>4, <1>5, <1>6, <1>7, <1>8, <1>9, <1>10, <1>11, <1>12, <1>13, <1>14, <1>15, <1>16, <1>17, <1>18, <1>19, <1>20, <1>21, <1>22 DEF Step

\* A request that arrives keeps the type invariant.
LEMMA RequestTypeInv ==
  ASSUME TypeInv, NEW t \in Clients, Request(t)
  PROVE  TypeInv'
<1> USE BackendAssumption DEF TypeInv, TypeOK
<1>a. ASSUME NEW op \in AllOps, NEW pc \in Pcs, NEW id \in Ids, NEW n \in Names \cup {None},
             NEW c \in Cids \cup {0},
             op \in BootOps \cup {"start"} => c \in Cids /\ owner'[c] \in Ids,
             op = "start" => n \in Names,
             \A d \in Cids : owner[d] \in Ids => owner'[d] \in Ids,
             task' = [task EXCEPT ![t] = NewTask(op, pc, id, n, c)]
      PROVE  task' \in [Clients -> Tasks] /\ TaskOK'
  <2> DEFINE new == NewTask(op, pc, id, n, c)
  <2>1. new \in Tasks /\ new.op = op /\ new.id = id /\ new.name = n /\ new.cid = c
    BY DEF Tasks, NewTask
  <2> HIDE DEF new
  <2>2. task' = [task EXCEPT ![t] = new]
    BY <1>a DEF new
  <2>3. task' \in [Clients -> Tasks] /\ task'[t] = new /\ \A u \in Clients \ {t} : task'[u] = task[u]
    BY <2>1, <2>2
  <2>4. QED
    BY <2>1, <2>3, <1>a DEF TaskOK
<1>b. ASSUME NEW id \in Ids, AllocateCid(id)
      PROVE  /\ nextCid' \in FirstGuestCid..(MaxCid + 1) /\ nextCid \in Cids
             /\ owner' \in [Cids -> Ids \cup {None}] /\ owner'[nextCid] = id
             /\ \A d \in Cids : owner[d] \in Ids => owner'[d] \in Ids
  BY <1>b, SMTT(60) DEF AllocateCid, FirstGuestCid, Cids
<1>1. ASSUME NEW op \in BootOps \cap Ops, NEW n \in Names \cup {None}, Create(t, op, n)
      PROVE  TypeInv'
  <2>1. PICK id \in Ids \ issued, m \in ChosenNames(n) :
          /\ AllocateCid(id)
          /\ vms' = [vms EXCEPT ![id] =
                       [state |-> "Creating", name |-> m, cid |-> nextCid, exit |-> 0]]
          /\ issued' = issued \cup {id}
          /\ task' = [task EXCEPT ![t] = NewTask(op, "config", id, n, nextCid)]
    BY <1>1 DEF Create
  <2>2. task' \in [Clients -> Tasks] /\ TaskOK'
    <3>1. /\ op \in AllOps /\ op # "start" /\ "config" \in Pcs /\ nextCid \in Cids
          /\ owner'[nextCid] \in Ids /\ id \in Ids
          /\ \A d \in Cids : owner[d] \in Ids => owner'[d] \in Ids
      BY <2>1, <1>b DEF Pcs, BootOps, AllOps
    <3>2. QED
      BY ONLY <3>1, <2>1, <1>a, n \in Names \cup {None}, ZenonT(60)
  <2>3. vms' \in [Ids -> VmInfo \cup {NoEntry}]
    BY <2>1, <1>b DEF ChosenNames, VmInfo, VmStates
  <2>4. QED
    BY <1>1, <2>1, <2>2, <2>3, <1>b DEF Create, MonitorOK
<1>2. ASSUME NEW n \in Names \cup {None}, CreateRejected(t, n)
      PROVE  TypeInv'
  <2>1. TaskOK'
    BY <1>2, <1>b DEF CreateRejected, TaskOK
  <2>2. QED
    BY <1>2, <2>1, <1>b DEF CreateRejected, MonitorOK
<1>3. ASSUME NEW id \in Ids, Start(t, id)
      PROVE  TypeInv'
  <2>1. StartName(id) \in Names
    BY <1>3 DEF Start, StartName, Present, VmInfo
  <2>2. task' = [task EXCEPT ![t] = NewTask("start", "drop", id, StartName(id), nextCid)]
    BY <1>3 DEF Start
  <2>3. AllocateCid(id)
    BY <1>3 DEF Start
  <2>4. task' \in [Clients -> Tasks] /\ TaskOK'
    <3>1. /\ "start" \in AllOps /\ "drop" \in Pcs /\ nextCid \in Cids /\ owner'[nextCid] \in Ids
          /\ \A d \in Cids : owner[d] \in Ids => owner'[d] \in Ids
          /\ StartName(id) \in Names \cup {None}
      BY <2>1, <2>3, <1>b DEF Pcs, AllOps
    <3>2. QED
      BY ONLY <3>1, <2>1, <2>2, <1>a, id \in Ids, ZenonT(60)
  <2>5. QED
    BY <1>3, <2>3, <2>4, <1>b DEF Start, MonitorOK, mapVars
<1>4. ASSUME NEW op \in StopOps \cap Ops, NEW id \in Ids, Stop(t, op, id)
      PROVE  TypeInv'
  <2>1. PICK pc \in {"remove", "take"} :
          task' = [task EXCEPT ![t] = NewTask(op, pc, id, None, 0)]
    BY <1>4 DEF Stop
  <2>2. task' \in [Clients -> Tasks] /\ TaskOK'
    <3>1. /\ op \in AllOps /\ op \notin BootOps \cup {"start"} /\ op # "start" /\ pc \in Pcs
          /\ 0 \in Cids \cup {0} /\ None \in Names \cup {None}
      BY DEF StopOps, AllOps, BootOps, Pcs
    <3>2. \A d \in Cids : owner[d] \in Ids => owner'[d] \in Ids
      BY <1>4 DEF Stop, bootVars
    <3>3. QED
      BY ONLY <2>1, <3>1, <3>2, <1>a, id \in Ids, ZenonT(60)
  <2>3. QED
    BY <1>4, <2>2 DEF Stop, MonitorOK, mapVars, bootVars
<1>5. QED
  BY <1>1, <1>2, <1>3, <1>4 DEF Request

\* A monitor that goes on keeps its type and touches no other monitor.
LEMMA MonitorFacts ==
  ASSUME mon \in [Cids -> Monitors], NEW c \in Cids, NEW pc \in MonPcs \ {"none"},
         NEW d \in Cids \cup {0}, mon[c].pc # "none",
         \/ mon' = [mon EXCEPT ![c].pc = pc]
         \/ mon' = [mon EXCEPT ![c].pc = pc, ![c].rx = d]
         \/ mon' = [mon EXCEPT ![c].pc = pc, ![c].held = d]
  PROVE  /\ mon' \in [Cids -> Monitors]
         /\ \A e \in Cids : mon'[e].pc # "none" => mon[e].pc # "none"
  BY SMTT(60) DEF Monitors

\* The monitor and the exit of a vCPU thread keep the type invariant.
LEMMA MonitorTypeInv ==
  ASSUME TypeInv, NEW c \in Cids, MonitorStep(c) \/ ThreadExits(c)
  PROVE  TypeInv'
<1> USE DEF TypeInv, TypeOK
<1>a. mon[c].held \in Cids \cup {0} /\ (mon[c].pc # "none" => owner[c] \in Ids)
  BY DEF Monitors, MonitorOK
<1>b. ASSUME NEW pc \in MonPcs \ {"none"}, NEW d \in Cids \cup {0}, mon[c].pc # "none",
             owner' = owner,
             \/ mon' = [mon EXCEPT ![c].pc = pc]
             \/ mon' = [mon EXCEPT ![c].pc = pc, ![c].rx = d]
             \/ mon' = [mon EXCEPT ![c].pc = pc, ![c].held = d]
      PROVE  mon' \in [Cids -> Monitors] /\ MonitorOK'
  <2>1. /\ mon' \in [Cids -> Monitors]
        /\ \A e \in Cids : mon'[e].pc # "none" => mon[e].pc # "none"
    BY <1>b, MonitorFacts
  <2>2. QED
    BY <2>1, <1>b DEF MonitorOK
<1>1. CASE MonitorTakes(c)
  <2>1. owner[c] \in Ids
    BY <1>1, <1>a DEF MonitorTakes
  <2>2. mon' \in [Cids -> Monitors] /\ MonitorOK'
    BY <1>1, <1>b, <2>1 DEF MonitorTakes, MonPcs, VmLiveState, bootVars
  <2>3. live' \in [Ids -> VmLiveState \cup {NoEntry}]
    <3>1. \/ live' = live
          \/ live[owner[c]] # NoEntry /\ live' = [live EXCEPT ![owner[c]].rx = FALSE]
      BY <1>1 DEF MonitorTakes
    <3>2. [live EXCEPT ![owner[c]].rx = FALSE] \in [Ids -> VmLiveState \cup {NoEntry}]
            \/ live[owner[c]] = NoEntry
      BY <2>1 DEF VmLiveState
    <3>3. QED
      BY <3>1, <3>2
  <2>4. QED
    BY <1>1, <2>2, <2>3 DEF MonitorTakes, bootVars, TaskOK
<1>2. CASE MonitorClaims(c)
  <2>1. owner[c] \in Ids
    BY <1>2, <1>a DEF MonitorClaims
  <2>2. mon' \in [Cids -> Monitors] /\ MonitorOK'
    <3>1. CASE live[owner[c]] = NoEntry
      BY <1>2, <1>b, <3>1 DEF MonitorClaims, MonPcs, bootVars
    <3>2. CASE live[owner[c]] # NoEntry
      <4>1. live[owner[c]].cid \in Cids
        BY <2>1, <3>2 DEF VmLiveState
      <4>2. mon' = [mon EXCEPT ![c].pc = "mark", ![c].held = live[owner[c]].cid]
        BY <1>2, <3>2 DEF MonitorClaims
      <4>3. "mark" \in MonPcs \ {"none"} /\ mon[c].pc # "none" /\ owner' = owner
        BY <1>2 DEF MonitorClaims, MonPcs, bootVars
      <4>4. QED
        BY ONLY <4>1, <4>2, <4>3, <1>b, ZenonT(60)
    <3>3. QED
      BY <3>1, <3>2
  <2>3. live' \in [Ids -> VmLiveState \cup {NoEntry}]
    BY <1>2, <2>1 DEF MonitorClaims
  <2>4. TaskOK' /\ UNCHANGED <<vms, configs, issued, nextCid, owner, thread, kill, acked, forward, tmp, task>>
    BY <1>2 DEF MonitorClaims, bootVars, TaskOK
  <2>5. QED
    BY <2>2, <2>3, <2>4
<1>3. CASE MonitorMarks(c)
  <2>1. mon' \in [Cids -> Monitors] /\ MonitorOK'
    BY <1>3, <1>b DEF MonitorMarks, MonPcs, bootVars
  <2>2. vms' \in [Ids -> VmInfo \cup {NoEntry}]
    BY <1>3, <1>a, WithStateFacts DEF MonitorMarks, VmStates
  <2>3. QED
    BY <1>3, <2>1, <2>2 DEF MonitorMarks, bootVars, TaskOK
<1>4. CASE MonitorCleans(c)
  <2>1. mon' \in [Cids -> Monitors] /\ MonitorOK'
    BY <1>4, <1>b DEF MonitorCleans, MonPcs
  <2>2. QED
    BY <1>4, <2>1 DEF MonitorCleans, mapVars, TaskOK
<1>5. CASE MonitorEnsures(c)
  <2>1. mon' \in [Cids -> Monitors] /\ MonitorOK'
    BY <1>5, <1>b DEF MonitorEnsures, MonPcs, bootVars
  <2>2. vms' \in [Ids -> VmInfo \cup {NoEntry}]
    BY <1>5, <1>a, WithStateFacts DEF MonitorEnsures, VmStates
  <2>3. QED
    BY <1>5, <2>1, <2>2 DEF MonitorEnsures, bootVars, TaskOK
<1>6. CASE ThreadExits(c)
  BY <1>6 DEF ThreadExits, TaskOK, MonitorOK, mapVars
<1>7. QED
  BY <1>1, <1>2, <1>3, <1>4, <1>5, <1>6 DEF MonitorStep

\* The type invariant holds initially.
LEMMA InitTypeInv == Init => TypeInv
<1> SUFFICES ASSUME Init PROVE TypeInv
  OBVIOUS
<1>1. Idle \in Tasks
  BY DEF Idle, NewTask, Tasks, Pcs, AllOps
<1>2. task \in [Clients -> Tasks] /\ TaskOK
  BY <1>1, IdleFacts DEF Init, TaskOK, BootOps
<1>3. vms \in [Ids -> VmInfo \cup {NoEntry}]
  BY SMTT(60) DEF Init, VmInfo, VmStates
<1>4. mon \in [Cids -> Monitors] /\ MonitorOK
  BY SMTT(60) DEF Init, Monitors, MonPcs, NoMonitor, MonitorOK
<1>5. nextCid \in FirstGuestCid..(MaxCid + 1)
  BY BackendAssumption, SMTT(60) DEF Init, FirstGuestCid
<1>6. QED
  BY <1>2, <1>3, <1>4, <1>5, SMTT(60) DEF Init, TypeInv, TypeOK

\* The strengthened type invariant is inductive.
LEMMA NextTypeInv == TypeInv /\ [Next]_vars => TypeInv'
<1> SUFFICES ASSUME TypeInv, [Next]_vars PROVE TypeInv'
  OBVIOUS
<1>1. CASE UNCHANGED vars
  BY <1>1 DEF vars, mapVars, bootVars, TypeInv, TypeOK, TaskOK, MonitorOK
<1>2. QED
  BY <1>1, StepTypeInv, RequestTypeInv, MonitorTypeInv DEF Next

\* Type correctness of the backend, for every number of VMs and clients.
THEOREM TypeCorrect == Spec => []TypeOK
<1>1. TypeInv => TypeOK
  BY DEF TypeInv
<1>2. QED
  BY <1>1, InitTypeInv, NextTypeInv, PTL DEF Spec
-----------------------------------------------------------------------------
(* A CID belongs to one boot. *)

Booting(t) == task[t].op \in BootOps \cup {"start"}

\* The boots in progress have distinct CIDs, all of them allocated, and their
\* monitors are not there yet.
CidInv ==
  /\ \A t \in Clients : Booting(t) => task[t].cid < nextCid /\ mon[task[t].cid].pc = "none"
  /\ \A t, u \in Clients : Booting(t) /\ Booting(u) /\ task[t].cid = task[u].cid => t = u
  /\ \A c \in Cids : c >= nextCid => mon[c].pc = "none"

\* A step of a request that allocates no CID and spawns no monitor keeps the
\* CIDs apart.
LEMMA StepCidInv ==
  ASSUME TypeInv, CidInv, NEW t \in Clients, Step(t)
  PROVE  CidInv'
<1> USE DEF TypeInv, TypeOK
<1>a. ASSUME NEW pc \in Pcs, Goto(t, pc), nextCid' = nextCid, mon' = mon PROVE CidInv'
  <2>1. \A u \in Clients : task'[u].op = task[u].op /\ task'[u].cid = task[u].cid
    BY <1>a, GotoFacts
  <2>2. QED
    BY <2>1, <1>a DEF CidInv, Booting
<1>b. ASSUME Return(t), nextCid' = nextCid, mon' = mon PROVE CidInv'
  <2>1. task'[t] = Idle /\ \A u \in Clients \ {t} : task'[u] = task[u]
    BY <1>b, ReturnFacts
  <2>2. QED
    BY <2>1, <1>b, IdleFacts, SMTT(60) DEF CidInv, Booting, BootOps
<1>1. CASE StoreConfig(t)
  BY <1>1, <1>a DEF StoreConfig, Pcs
<1>2. CASE BuildRootfs(t)
  BY <1>2, <1>a DEF BuildRootfs, Pcs
<1>3. CASE MarkRunning(t)
  BY <1>3, <1>a DEF MarkRunning, Pcs
<1>4. CASE Boot(t)
  BY <1>4, <1>a DEF Boot, Pcs
<1>5. CASE BootFails(t)
  BY <1>5, <1>a, <1>b DEF BootFails, Pcs, PipelineError
<1>6. CASE SetupForwards(t)
  BY <1>6, <1>a DEF SetupForwards, Pcs
<1>7. CASE ForwardsFail(t)
  BY <1>7, <1>a, <1>b DEF ForwardsFail, Pcs, PipelineError
<1>8. CASE MarkFailed(t)
  BY <1>8, <1>b DEF MarkFailed
<1>9. CASE InsertLive(t)
  BY <1>9, <1>a DEF InsertLive, Pcs
<1>10. CASE Publish(t)
  <2>1. task'[t] = Idle /\ \A u \in Clients \ {t} : task'[u] = task[u]
    BY <1>10, ReturnFacts DEF Publish
  <2>2. Booting(t) /\ task[t].cid \in Cids
    BY <1>10 DEF Publish, At, Booting, TaskOK
  <2>3. nextCid' = nextCid /\ \A c \in Cids \ {task[t].cid} : mon'[c] = mon[c]
    BY <1>10 DEF Publish
  <2>4. ~Booting(t)' /\ \A u \in Clients \ {t} : Booting(u)' = Booting(u)
    BY <2>1, IdleFacts DEF Booting, BootOps
  <2>5. \A u \in Clients \ {t} : Booting(u) => task[u].cid \in Cids \ {task[t].cid}
    BY <2>2 DEF CidInv, Booting, TaskOK
  <2>6. \A u \in Clients : Booting(u)' => u # t /\ Booting(u) /\ task'[u] = task[u]
    BY <2>1, <2>4
  <2>7. \A u \in Clients : Booting(u)' => task'[u].cid < nextCid' /\ mon'[task'[u].cid].pc = "none"
    BY <2>3, <2>5, <2>6, SMTT(60) DEF CidInv
  <2>8. \A c \in Cids : c >= nextCid' => mon'[c].pc = "none"
    <3>1. task[t].cid < nextCid
      BY <2>2 DEF CidInv
    <3>2. \A c \in Cids : c \in Int
      BY BackendAssumption, SMTT(60) DEF Cids, FirstGuestCid
    <3>3. nextCid \in Int
      BY BackendAssumption, SMTT(60) DEF FirstGuestCid
    <3>4. QED
      BY <2>2, <2>3, <3>1, <3>2, <3>3, SMTT(60) DEF CidInv
  <2>9. QED
    BY <2>6, <2>7, <2>8 DEF CidInv
<1>11. CASE RunCompletes(t)
  BY <1>11, <1>a DEF RunCompletes, Pcs
<1>12. CASE RunFinishes(t)
  BY <1>12, <1>b DEF RunFinishes
<1>13. CASE StartDrops(t)
  BY <1>13, <1>a DEF StartDrops, Pcs
<1>14. CASE StartMarks(t)
  BY <1>14, <1>a, <1>b DEF StartMarks, Pcs
<1>15. CASE TakeLive(t)
  <2>1. CASE live[task[t].id] = NoEntry
    BY <1>15, <2>1, <1>a DEF TakeLive, Pcs
  <2>2. CASE live[task[t].id] # NoEntry
    <3>1. \A u \in Clients : task'[u].op = task[u].op /\ task'[u].cid = task[u].cid
      BY <1>15, <2>2, TakeLiveTask
    <3>2. QED
      BY <1>15, <3>1 DEF TakeLive, CidInv, Booting
  <2>3. QED
    BY <2>1, <2>2
<1>16. CASE ShutdownAcked(t)
  BY <1>16, <1>a DEF ShutdownAcked, Pcs
<1>17. CASE ForceStop(t)
  BY <1>17, <1>a DEF ForceStop, Pcs
<1>18. CASE ExitAfterShutdown(t)
  BY <1>18, <1>a DEF ExitAfterShutdown, Pcs
<1>19. CASE CaptureOutput(t)
  BY <1>19, <1>a DEF CaptureOutput, Pcs
<1>20. CASE JoinAndClean(t)
  BY <1>20, <1>a DEF JoinAndClean, Pcs
<1>21. CASE MarkStopped(t)
  BY <1>21, <1>a, <1>b DEF MarkStopped, Pcs
<1>22. CASE Remove(t)
  BY <1>22, <1>b DEF Remove
<1>23. QED
  BY <1>1, <1>2, <1>3, <1>4, <1>5, <1>6, <1>7, <1>8, <1>9, <1>10, <1>11, <1>12, <1>13, <1>14, <1>15, <1>16, <1>17, <1>18, <1>19, <1>20, <1>21, <1>22 DEF Step
\* A request starts on an idle client, gives it a task that holds nothing yet
\* and, if it boots a VM, the CID that next_cid had.
RequestFrame(t) ==
  /\ task[t] = Idle
  /\ \A u \in Clients \ {t} : task'[u] = task[u]
  /\ task'[t].pc \in {"idle", "config", "drop", "take", "remove"}
  /\ nextCid' \in {nextCid, nextCid + 1}
  /\ Booting(t)' => task'[t].cid = nextCid /\ nextCid' = nextCid + 1 /\ nextCid \in Cids
  /\ UNCHANGED <<live, configs, forward, mon>>

\* What a request that arrives changes: its own task and, for a create, one entry.
LEMMA RequestEffect ==
  ASSUME TypeInv, NEW t \in Clients, Request(t)
  PROVE  RequestFrame(t)
<1> USE BackendAssumption DEF TypeInv, TypeOK
<1>a. ASSUME NEW op, NEW pc, NEW id, NEW n, NEW c,
             task' = [task EXCEPT ![t] = NewTask(op, pc, id, n, c)]
      PROVE  /\ \A u \in Clients \ {t} : task'[u] = task[u]
             /\ task'[t].op = op /\ task'[t].pc = pc /\ task'[t].cid = c
  BY <1>a DEF NewTask
<1>b. ASSUME NEW id \in Ids, AllocateCid(id)
      PROVE  nextCid' = nextCid + 1 /\ nextCid \in Cids
  BY <1>b, SMTT(60) DEF AllocateCid, FirstGuestCid, Cids
<1>1. ASSUME NEW op \in BootOps \cap Ops, NEW n \in Names \cup {None}, Create(t, op, n)
      PROVE  RequestFrame(t)
  <2>1. PICK id \in Ids :
          AllocateCid(id) /\ task' = [task EXCEPT ![t] = NewTask(op, "config", id, n, nextCid)]
    BY <1>1 DEF Create
  <2>2. /\ \A u \in Clients \ {t} : task'[u] = task[u]
        /\ task'[t].pc = "config" /\ task'[t].cid = nextCid
    BY <2>1, <1>a
  <2>3. QED
    BY <1>1, <2>1, <2>2, <1>b DEF Create, RequestFrame
<1>2. ASSUME NEW n \in Names \cup {None}, CreateRejected(t, n)
      PROVE  RequestFrame(t)
  BY <1>2, <1>b, IdleFacts DEF CreateRejected, RequestFrame, Booting, BootOps
<1>3. ASSUME NEW id \in Ids, Start(t, id)
      PROVE  RequestFrame(t)
  <2>1. AllocateCid(id) /\ task' = [task EXCEPT ![t] = NewTask("start", "drop", id, StartName(id), nextCid)]
    BY <1>3 DEF Start
  <2>2. /\ \A u \in Clients \ {t} : task'[u] = task[u]
        /\ task'[t].pc = "drop" /\ task'[t].cid = nextCid
    BY <2>1, <1>a
  <2>3. QED
    BY <1>3, <2>1, <2>2, <1>b DEF Start, RequestFrame, mapVars
<1>4. ASSUME NEW op \in StopOps \cap Ops, NEW id \in Ids, Stop(t, op, id)
      PROVE  RequestFrame(t)
  <2>1. PICK pc \in {"remove", "take"} : task' = [task EXCEPT ![t] = NewTask(op, pc, id, None, 0)]
    BY <1>4 DEF Stop
  <2>2. /\ \A u \in Clients \ {t} : task'[u] = task[u]
        /\ task'[t].op = op /\ task'[t].pc = pc
    BY <2>1, <1>a
  <2>3. QED
    BY <1>4, <2>2 DEF Stop, RequestFrame, Booting, BootOps, StopOps, mapVars, bootVars
<1>5. QED
  BY <1>1, <1>2, <1>3, <1>4 DEF Request

\* A request that arrives keeps the CIDs in use apart.
LEMMA RequestCidInv ==
  ASSUME TypeInv, CidInv, NEW t \in Clients, Request(t)
  PROVE  CidInv'
<1>1. RequestFrame(t) /\ ~Booting(t)
  BY RequestEffect, IdleFacts DEF RequestFrame, Booting, BootOps
<1>2. nextCid \in Int /\ \A c \in Cids : c \in Int
  BY BackendAssumption, SMTT(60) DEF TypeInv, TypeOK, Cids, FirstGuestCid
<1>3. \A u \in Clients : Booting(u) => task[u].cid \in Cids
  BY DEF TypeInv, TaskOK, Booting
<1>4. \A u \in Clients \ {t} : Booting(u)' => Booting(u) /\ task'[u] = task[u]
  BY <1>1 DEF RequestFrame, Booting
<1>5. mon' = mon /\ nextCid' \in {nextCid, nextCid + 1}
  BY <1>1 DEF RequestFrame
<1>6. Booting(t)' => task'[t].cid = nextCid /\ nextCid' = nextCid + 1 /\ nextCid \in Cids
  BY <1>1 DEF RequestFrame
<1>7. \A u \in Clients : Booting(u)' => task'[u].cid < nextCid' /\ mon'[task'[u].cid].pc = "none"
  BY <1>2, <1>3, <1>4, <1>5, <1>6, SMTT(60) DEF CidInv
<1>8. \A u, v \in Clients : Booting(u)' /\ Booting(v)' /\ task'[u].cid = task'[v].cid => u = v
  BY <1>2, <1>3, <1>4, <1>6, SMTT(60) DEF CidInv
<1>9. \A c \in Cids : c >= nextCid' => mon'[c].pc = "none"
  BY <1>2, <1>5, SMTT(60) DEF CidInv
<1>10. QED
  BY <1>7, <1>8, <1>9 DEF CidInv

\* The monitor allocates no CID.
LEMMA MonitorCidInv ==
  ASSUME TypeInv, CidInv, NEW c \in Cids, MonitorStep(c) \/ ThreadExits(c)
  PROVE  CidInv'
<1>1. task' = task /\ nextCid' = nextCid
  BY DEF MonitorStep, ThreadExits, MonitorTakes, MonitorClaims, MonitorMarks, MonitorCleans, MonitorEnsures
<1>2. \A d \in Cids : mon[d].pc = "none" => mon'[d].pc = "none"
  BY DEF MonitorStep, ThreadExits, MonitorTakes, MonitorClaims, MonitorMarks, MonitorCleans, MonitorEnsures,
         TypeInv, TypeOK
<1>3. \A u \in Clients : Booting(u) => task[u].cid \in Cids
  BY DEF TypeInv, TaskOK, Booting
<1>4. QED
  BY <1>1, <1>2, <1>3 DEF CidInv, Booting

\* No CID is in use initially.
LEMMA InitCidInv == Init => CidInv
  BY IdleFacts, SMTT(60) DEF Init, CidInv, Booting, BootOps, NoMonitor

\* The invariant on CIDs is inductive, given the types.
LEMMA NextCidInv == TypeInv /\ CidInv /\ [Next]_vars => CidInv'
<1> SUFFICES ASSUME TypeInv, CidInv, [Next]_vars PROVE CidInv'
  OBVIOUS
<1>1. CASE UNCHANGED vars
  BY <1>1 DEF vars, CidInv, Booting
<1>2. QED
  BY <1>1, StepCidInv, RequestCidInv, MonitorCidInv DEF Next
-----------------------------------------------------------------------------
(* Port-forward rules are always owned. *)

TaskHolds(t, c) ==
  \/ task[t].cid = c /\ task[t].pc \in {"live", "await"}
  \/ task[t].held = c /\ task[t].pc \in {"shutdown", "wait", "capture", "join"}

\* A step of one client keeps the rules owned if ownership only moves between
\* its task and the live state, and rules that nobody owns any more are gone.
LEMMA ForwardFrame ==
  ASSUME ForwardOwned, NEW t \in Clients,
         \A u \in Clients \ {t} : task'[u] = task[u],
         \A c \in Cids : forward'[c] => forward[c] \/ TaskHolds(t, c)',
         \A c \in Cids : forward'[c] /\ HeldByLive(c) => HeldByLive(c)' \/ TaskHolds(t, c)',
         \A c \in Cids : forward'[c] /\ TaskHolds(t, c) => TaskHolds(t, c)' \/ HeldByLive(c)',
         \A c \in Cids : HeldByMonitor(c) => HeldByMonitor(c)'
  PROVE  ForwardOwned'
<1> SUFFICES ASSUME NEW c \in Cids, forward'[c]
             PROVE  HeldByLive(c)' \/ HeldByTask(c)' \/ HeldByMonitor(c)'
  BY DEF ForwardOwned
<1>1. CASE TaskHolds(t, c)' \/ HeldByLive(c)'
  BY <1>1 DEF TaskHolds, HeldByTask
<1>2. CASE ~TaskHolds(t, c)' /\ ~HeldByLive(c)'
  <2>1. HeldByTask(c) \/ HeldByMonitor(c)
    BY <1>2 DEF ForwardOwned
  <2>2. CASE HeldByMonitor(c)
    BY <2>2
  <2>3. CASE HeldByTask(c)
    <3>1. PICK u \in Clients : TaskHolds(u, c)
      BY <2>3 DEF HeldByTask, TaskHolds
    <3>2. u # t
      BY <1>2, <3>1
    <3>3. QED
      BY <3>1, <3>2 DEF HeldByTask, TaskHolds
  <2>4. QED
    BY <2>1, <2>2, <2>3
<1>3. QED
  BY <1>1, <1>2

\* Every step of a request leaves installed rules with an owner.
LEMMA StepForwardOwned ==
  ASSUME TypeInv, CidInv, ForwardOwned, NEW t \in Clients, Step(t)
  PROVE  ForwardOwned'
<1> USE DEF TypeInv, TypeOK
<1>a. ASSUME NEW pc \in Pcs, Goto(t, pc)
      PROVE  /\ task'[t].pc = pc /\ task'[t].cid = task[t].cid /\ task'[t].held = task[t].held
             /\ \A u \in Clients \ {t} : task'[u] = task[u]
  BY <1>a, GotoFacts
<1>b. ASSUME Return(t)
      PROVE  task'[t].pc = "idle" /\ \A u \in Clients \ {t} : task'[u] = task[u]
  BY <1>b, ReturnFacts, IdleFacts
<1>c. ASSUME live' = live, mon' = mon,
             \A u \in Clients \ {t} : task'[u] = task[u],
             \A c \in Cids : forward'[c] => forward[c] \/ TaskHolds(t, c)',
             \A c \in Cids : forward'[c] /\ TaskHolds(t, c) => TaskHolds(t, c)'
      PROVE  ForwardOwned'
  BY <1>c, ForwardFrame DEF HeldByLive, HeldByMonitor
<1>1. CASE StoreConfig(t)
  BY <1>1, <1>c, <1>a DEF StoreConfig, At, TaskHolds, mapVars, bootVars, Pcs
<1>2. CASE BuildRootfs(t)
  BY <1>2, <1>c, <1>a DEF BuildRootfs, At, TaskHolds, mapVars, bootVars, Pcs
<1>3. CASE MarkRunning(t)
  BY <1>3, <1>c, <1>a DEF MarkRunning, At, TaskHolds, mapVars, bootVars, Pcs
<1>4. CASE Boot(t)
  BY <1>4, <1>c, <1>a DEF Boot, At, TaskHolds, mapVars, bootVars, Pcs
<1>5. CASE BootFails(t)
  BY <1>5, <1>c, <1>a, <1>b DEF BootFails, At, TaskHolds, mapVars, bootVars, Pcs, PipelineError
<1>6. CASE SetupForwards(t)
  BY <1>6, <1>c, <1>a DEF SetupForwards, At, TaskHolds, mapVars, bootVars, Pcs
<1>7. CASE ForwardsFail(t)
  BY <1>7, <1>c, <1>a, <1>b DEF ForwardsFail, At, TaskHolds, mapVars, bootVars, Pcs, PipelineError
<1>8. CASE MarkFailed(t)
  BY <1>8, <1>c, <1>b DEF MarkFailed, At, TaskHolds, mapVars, bootVars
<1>9. CASE InsertLive(t)
  <2> DEFINE id == task[t].id
  <2>1. id \in Ids /\ task[t].cid \in Cids
    BY <1>9 DEF InsertLive, At, TaskOK, BootOps
  <2>2. /\ task'[t].pc = "publish" /\ task[t].pc = "live" /\ mon' = mon
        /\ \A u \in Clients \ {t} : task'[u] = task[u]
    BY <1>9, <1>a DEF InsertLive, At, Pcs
  <2>3. /\ live'[id] = [cid |-> task[t].cid, rx |-> TRUE]
        /\ \A j \in Ids \ {id} : live'[j] = live[j]
    BY <1>9, <2>1 DEF InsertLive
  <2>4. live'[id] # NoEntry /\ live'[id].cid = task[t].cid
    <3>1. [cid |-> task[t].cid, rx |-> TRUE] \in VmLiveState
      BY <2>1 DEF VmLiveState
    <3>2. [cid |-> task[t].cid, rx |-> TRUE].cid = task[t].cid
      OBVIOUS
    <3>3. QED
      BY <2>3, <3>1, <3>2, EntryAssumption
  <2>5. \A c \in Cids : forward'[c] => forward[c] /\ ~(live[id] # NoEntry /\ live[id].cid = c)
    BY <1>9, <2>1 DEF InsertLive, DropLive
  <2>6. \A c \in Cids : forward'[c] /\ HeldByLive(c) => HeldByLive(c)'
    BY <2>3, <2>5 DEF HeldByLive
  <2>7. \A c \in Cids : TaskHolds(t, c) => HeldByLive(c)'
    BY <2>1, <2>2, <2>4 DEF TaskHolds, HeldByLive
  <2>8. QED
    BY <2>2, <2>5, <2>6, <2>7, ForwardFrame DEF HeldByMonitor
<1>10. CASE Publish(t)
  <2>1. task[t].cid \in Cids /\ mon[task[t].cid].pc = "none"
    BY <1>10 DEF Publish, At, TaskOK, CidInv, Booting
  <2>2. \A d \in Cids : mon[d].pc # "none" => mon'[d] = mon[d]
    BY <1>10, <2>1 DEF Publish
  <2>3. task[t].pc = "publish" /\ task'[t].pc = "idle" /\ \A u \in Clients \ {t} : task'[u] = task[u]
    BY <1>10, <1>b DEF Publish, At
  <2>4. live' = live /\ forward' = forward
    BY <1>10 DEF Publish, bootVars
  <2>5. \A c \in Cids : HeldByMonitor(c) => HeldByMonitor(c)'
    BY <2>2 DEF HeldByMonitor
  <2>6. QED
    BY <2>3, <2>4, <2>5, ForwardFrame DEF HeldByLive, TaskHolds
<1>11. CASE RunCompletes(t)
  BY <1>11, <1>c, <1>a DEF RunCompletes, At, TaskHolds, mapVars, bootVars, Pcs
<1>12. CASE RunFinishes(t)
  BY <1>12, <1>c, <1>b DEF RunFinishes, At, TaskHolds, mapVars, bootVars
<1>13. CASE StartDrops(t)
  <2> DEFINE id == task[t].id
  <2>1. id \in Ids
    BY <1>13 DEF StartDrops, At, TaskOK
  <2>2. /\ task'[t].pc = "mark" /\ task[t].pc = "drop" /\ mon' = mon
        /\ \A u \in Clients \ {t} : task'[u] = task[u]
    BY <1>13, <1>a DEF StartDrops, At, Pcs
  <2>3. \A j \in Ids \ {id} : live'[j] = live[j]
    BY <1>13, <2>1 DEF StartDrops
  <2>4. \A c \in Cids : forward'[c] => forward[c] /\ ~(live[id] # NoEntry /\ live[id].cid = c)
    BY <1>13, <2>1 DEF StartDrops, DropLive
  <2>5. \A c \in Cids : forward'[c] /\ HeldByLive(c) => HeldByLive(c)'
    BY <2>3, <2>4 DEF HeldByLive
  <2>6. QED
    BY <2>2, <2>4, <2>5, ForwardFrame DEF HeldByMonitor, TaskHolds
<1>14. CASE StartMarks(t)
  BY <1>14, <1>c, <1>a, <1>b DEF StartMarks, At, TaskHolds, mapVars, bootVars, Pcs
<1>15. CASE TakeLive(t)
  <2> DEFINE id == task[t].id
  <2>1. id \in Ids /\ task[t].pc = "take" /\ forward' = forward /\ mon' = mon
    BY <1>15 DEF TakeLive, At, TaskOK, StopOps
  <2>2. live'[id] = NoEntry /\ \A j \in Ids \ {id} : live'[j] = live[j]
    BY <1>15, <2>1 DEF TakeLive
  <2>3. \A u \in Clients \ {t} : task'[u] = task[u]
    <3>1. CASE live[id] = NoEntry
      BY <1>15, <3>1, <1>a DEF TakeLive, Pcs
    <3>2. CASE live[id] # NoEntry
      BY <1>15, <3>2, TakeLiveTask
    <3>3. QED
      BY <3>1, <3>2
  <2>4. ASSUME NEW c \in Cids, live[id] # NoEntry, live[id].cid = c PROVE TaskHolds(t, c)'
    <3>1. task'[t].pc \in {"capture", "shutdown"} /\ task'[t].held = c
      BY <1>15, <2>4, TakeLiveTask
    <3>2. QED
      BY <3>1 DEF TaskHolds
  <2>5. \A c \in Cids : HeldByLive(c) => HeldByLive(c)' \/ TaskHolds(t, c)'
    BY <2>2, <2>4 DEF HeldByLive
  <2>6. \A c \in Cids : ~TaskHolds(t, c)
    BY <2>1 DEF TaskHolds
  <2>7. QED
    BY <2>1, <2>3, <2>5, <2>6, ForwardFrame DEF HeldByMonitor
<1>16. CASE ShutdownAcked(t)
  BY <1>16, <1>c, <1>a DEF ShutdownAcked, At, TaskHolds, mapVars, bootVars, Pcs
<1>17. CASE ForceStop(t)
  BY <1>17, <1>c, <1>a DEF ForceStop, At, TaskHolds, mapVars, bootVars, Pcs
<1>18. CASE ExitAfterShutdown(t)
  BY <1>18, <1>c, <1>a DEF ExitAfterShutdown, At, TaskHolds, mapVars, bootVars, Pcs
<1>19. CASE CaptureOutput(t)
  BY <1>19, <1>c, <1>a DEF CaptureOutput, At, TaskHolds, mapVars, bootVars, Pcs
<1>20. CASE JoinAndClean(t)
  BY <1>20, <1>c, <1>a DEF JoinAndClean, At, TaskHolds, mapVars, bootVars, Pcs
<1>21. CASE MarkStopped(t)
  BY <1>21, <1>c, <1>a, <1>b DEF MarkStopped, At, TaskHolds, mapVars, bootVars, Pcs
<1>22. CASE Remove(t)
  <2> DEFINE id == task[t].id
  <2>1. id \in Ids
    BY <1>22 DEF Remove, At, TaskOK
  <2>2. /\ task'[t].pc = "idle" /\ task[t].pc = "remove" /\ mon' = mon
        /\ \A u \in Clients \ {t} : task'[u] = task[u]
    BY <1>22, <1>b DEF Remove, At
  <2>3. \A j \in Ids \ {id} : live'[j] = live[j]
    BY <1>22, <2>1 DEF Remove
  <2>4. \A c \in Cids : forward'[c] => forward[c] /\ (live[id] # NoEntry /\ live[id].cid = c => live' = live)
    BY <1>22, <2>1 DEF Remove, DropLive
  <2>5. \A c \in Cids : forward'[c] /\ HeldByLive(c) => HeldByLive(c)'
    BY <2>3, <2>4 DEF HeldByLive
  <2>6. QED
    BY <2>2, <2>4, <2>5, ForwardFrame DEF HeldByMonitor, TaskHolds
<1>23. QED
  BY <1>1, <1>2, <1>3, <1>4, <1>5, <1>6, <1>7, <1>8, <1>9, <1>10, <1>11, <1>12, <1>13, <1>14, <1>15, <1>16, <1>17, <1>18, <1>19, <1>20, <1>21, <1>22 DEF Step

\* A request that arrives owns no rules and takes none away.
LEMMA RequestForwardOwned ==
  ASSUME TypeInv, ForwardOwned, NEW t \in Clients, Request(t)
  PROVE  ForwardOwned'
<1>1. RequestFrame(t)
  BY RequestEffect
<1>2. task[t].pc = "idle" /\ task'[t].pc \in {"idle", "config", "drop", "take", "remove"}
  BY <1>1, IdleFacts DEF RequestFrame
<1>3. \A c \in Cids : ~TaskHolds(t, c)
  BY <1>2 DEF TaskHolds
<1>4. live' = live /\ mon' = mon /\ forward' = forward /\ \A u \in Clients \ {t} : task'[u] = task[u]
  BY <1>1 DEF RequestFrame
<1>5. QED
  BY <1>3, <1>4, ForwardFrame DEF HeldByLive, HeldByMonitor

\* The monitor removes the rules of what it drops.
LEMMA MonitorForwardOwned ==
  ASSUME TypeInv, ForwardOwned, NEW c \in Cids, MonitorStep(c) \/ ThreadExits(c)
  PROVE  ForwardOwned'
<1> USE DEF TypeInv, TypeOK
<1>1. SUFFICES ASSUME NEW d \in Cids, forward'[d]
               PROVE  HeldByLive(d)' \/ HeldByTask(d)' \/ HeldByMonitor(d)'
  BY DEF ForwardOwned
<1>2. HeldByTask(d) => HeldByTask(d)'
  BY DEF HeldByTask, MonitorStep, ThreadExits, MonitorTakes, MonitorClaims, MonitorMarks, MonitorCleans,
         MonitorEnsures
<1>a. mon[c].pc # "none" => owner[c] \in Ids
  BY DEF MonitorOK
<1>b. ASSUME \A e \in Cids \ {c} : mon'[e] = mon[e], mon[c].pc \notin {"mark", "join"}, HeldByMonitor(d)
      PROVE  HeldByMonitor(d)'
  BY <1>b DEF HeldByMonitor
<1>3. CASE MonitorTakes(c)
  <2>1. forward' = forward /\ mon[c].pc = "take" /\ \A e \in Cids \ {c} : mon'[e] = mon[e]
    BY <1>3 DEF MonitorTakes, bootVars
  <2>2. \A i \in Ids : live[i] # NoEntry => live'[i] # NoEntry /\ live'[i].cid = live[i].cid
    <3>1. \/ live' = live
          \/ live[owner[c]] # NoEntry /\ live' = [live EXCEPT ![owner[c]].rx = FALSE]
      BY <1>3 DEF MonitorTakes
    <3>2. owner[c] \in Ids
      BY <1>a, <2>1
    <3>3. live[owner[c]] # NoEntry =>
            /\ [live[owner[c]] EXCEPT !.rx = FALSE] \in VmLiveState
            /\ [live[owner[c]] EXCEPT !.rx = FALSE].cid = live[owner[c]].cid
      BY <3>2 DEF VmLiveState
    <3>4. QED
      BY <3>1, <3>2, <3>3, EntryAssumption
  <2>3. HeldByLive(d) => HeldByLive(d)'
    BY <2>2 DEF HeldByLive
  <2>4. QED
    BY <1>1, <1>2, <1>b, <2>1, <2>3 DEF ForwardOwned
<1>4. CASE MonitorClaims(c)
  <2> DEFINE id == owner[c]
  <2>1. forward' = forward /\ mon[c].pc = "await" /\ id \in Ids /\ \A e \in Cids \ {c} : mon'[e] = mon[e]
    BY <1>4, <1>a DEF MonitorClaims, bootVars
  <2>2. \A i \in Ids \ {id} : live'[i] = live[i]
    BY <1>4 DEF MonitorClaims
  <2>3. live[id] # NoEntry => mon'[c].pc = "mark" /\ mon'[c].held = live[id].cid
    BY <1>4 DEF MonitorClaims, Monitors
  <2>4. HeldByLive(d) => HeldByLive(d)' \/ HeldByMonitor(d)'
    BY <2>2, <2>3 DEF HeldByLive, HeldByMonitor
  <2>5. QED
    BY <1>1, <1>2, <1>b, <2>1, <2>4 DEF ForwardOwned
<1>5. CASE MonitorMarks(c)
  <2>1. /\ forward' = forward /\ live' = live /\ mon'[c].pc = "join" /\ mon'[c].held = mon[c].held
        /\ \A e \in Cids \ {c} : mon'[e] = mon[e]
    BY <1>5 DEF MonitorMarks, bootVars, Monitors
  <2>2. QED
    BY <1>1, <1>2, <2>1, SMTT(60) DEF ForwardOwned, HeldByLive, HeldByMonitor
<1>6. CASE MonitorCleans(c)
  <2>1. /\ live' = live /\ forward[d] /\ mon[c].held # d
        /\ \A e \in Cids \ {c} : mon'[e] = mon[e]
    BY <1>1, <1>6 DEF MonitorCleans, mapVars
  <2>2. QED
    BY <1>2, <2>1, SMTT(60) DEF ForwardOwned, HeldByLive, HeldByMonitor
<1>7. CASE MonitorEnsures(c)
  <2>1. forward' = forward /\ live' = live /\ mon[c].pc = "ensure" /\ \A e \in Cids \ {c} : mon'[e] = mon[e]
    BY <1>7 DEF MonitorEnsures, bootVars
  <2>2. QED
    BY <1>1, <1>2, <1>b, <2>1 DEF ForwardOwned, HeldByLive
<1>8. CASE ThreadExits(c)
  BY <1>1, <1>2, <1>8 DEF ThreadExits, mapVars, ForwardOwned, HeldByLive, HeldByMonitor
<1>9. QED
  BY <1>3, <1>4, <1>5, <1>6, <1>7, <1>8 DEF MonitorStep

\* In every interleaving of any number of requests and monitors, installed
\* port-forward rules are owned by a live state, a request or a monitor.
THEOREM ForwardsOwned == Spec => []ForwardOwned
<1> DEFINE Inv == TypeInv /\ CidInv /\ ForwardOwned
<1>1. Init => Inv
  <2>1. Init => ForwardOwned
    BY DEF Init, ForwardOwned
  <2>2. QED
    BY <2>1, InitTypeInv, InitCidInv
<1>2. Inv /\ [Next]_vars => Inv'
  <2>1. ASSUME Inv, [Next]_vars PROVE ForwardOwned'
    <3>1. CASE UNCHANGED vars
      BY <2>1, <3>1 DEF vars, mapVars, bootVars, ForwardOwned, HeldByLive, HeldByTask, HeldByMonitor
    <3>2. QED
      BY <2>1, <3>1, StepForwardOwned, RequestForwardOwned, MonitorForwardOwned DEF Next
  <2>2. QED
    BY <2>1, NextTypeInv, NextCidInv
<1>3. QED
  BY <1>1, <1>2, PTL DEF Spec
-----------------------------------------------------------------------------
(* Names are unique. *)

\* A listed VM has the name it was created with: the configuration and every
\* boot in progress carry that name or none, so a start writes back what is
\* already there.  Ids are not reused.
NameInv ==
  /\ \A i \in Ids : Present(i) => i \in issued
  /\ \A i \in Ids : i \notin issued => configs[i] = NoEntry
  /\ \A i \in Ids : Present(i) => configs[i] \in {None, NoEntry, vms[i].name}
  /\ \A t \in Clients : task[t].op # "none" => task[t].id \in issued
  /\ \A t \in Clients : Booting(t) /\ Present(task[t].id) => task[t].name \in {None, vms[task[t].id].name}
  /\ NamesUnique

KeepsNames == \A i \in Ids : Present(i)' => Present(i) /\ vms'[i].name = vms[i].name
KeepsTasks ==
  \A u \in Clients : \/ task'[u].op = "none"
                     \/ /\ task'[u].op = task[u].op
                        /\ task'[u].id = task[u].id /\ task'[u].name = task[u].name

\* A step that gives no VM, configuration or task a new name.
LEMMA NameFrame ==
  ASSUME TypeInv, NameInv, KeepsNames, KeepsTasks, issued' = issued,
         \A i \in Ids : configs'[i] \in {configs[i], NoEntry}
  PROVE  NameInv'
<1>1. \A u \in Clients : task'[u].op # "none" => task[u].id \in Ids /\ task'[u].id = task[u].id
  BY DEF TypeInv, TaskOK, KeepsTasks
<1>2. \A u \in Clients : task'[u].op # "none" => task'[u].id \in issued'
  BY <1>1 DEF NameInv, KeepsTasks
<1>3. \A u \in Clients : (Booting(u) /\ Present(task[u].id) => task[u].name \in {None, vms[task[u].id].name})'
  BY <1>1, SMTT(60) DEF NameInv, KeepsTasks, KeepsNames, Booting, BootOps, Present
<1>4. NamesUnique'
  BY DEF NameInv, NamesUnique, KeepsNames
<1>5. QED
  BY <1>2, <1>3, <1>4 DEF NameInv, KeepsNames, Present

\* Writing a state, an exit code or a CID, or removing an entry, gives no VM a new name.
LEMMA KeepsNamesFacts ==
  ASSUME TypeInv, NEW id \in Ids, NEW s \in VmStates, NEW c \in Cids \cup {0},
         \/ vms' = vms
         \/ vms' = WithState(id, s)
         \/ vms' = WithExit(id, s, c)
         \/ Present(id) /\ vms' = [vms EXCEPT ![id].exit = c]
         \/ Present(id) /\ vms' = [vms EXCEPT ![id].state = s]
         \/ Present(id) /\ vms' = [vms EXCEPT ![id].state = s, ![id].cid = c]
         \/ vms' = [vms EXCEPT ![id] = NoEntry]
  PROVE  KeepsNames
  BY SMTT(60) DEF TypeInv, TypeOK, VmInfo, KeepsNames, Present, WithState, WithExit

\* Every step of a request keeps names unique.
LEMMA StepNameInv ==
  ASSUME TypeInv, NameInv, NEW t \in Clients, Step(t)
  PROVE  NameInv'
<1> DEFINE id == task[t].id
<1>0. /\ id \in Ids /\ id \in issued /\ task \in [Clients -> Tasks]
      /\ task[t].cid \in Cids \cup {0} /\ task[t].held \in Cids \cup {0} /\ task[t].name \in Names \cup {None}
  <2>1. task[t].op # "none"
    BY DEF Step, At, StoreConfig, BuildRootfs, MarkRunning, Boot, BootFails, SetupForwards, ForwardsFail,
           MarkFailed, InsertLive, Publish, RunCompletes, RunFinishes, StartDrops, StartMarks, TakeLive,
           ShutdownAcked, ForceStop, ExitAfterShutdown, CaptureOutput, JoinAndClean, MarkStopped, Remove,
           BootOps, StopOps
  <2>2. QED
    BY <2>1, TaskFields DEF TypeInv, TypeOK, TaskOK, NameInv
<1>a. ASSUME NEW pc \in Pcs, Goto(t, pc) PROVE KeepsTasks
  BY <1>0, <1>a, GotoFacts DEF KeepsTasks
<1>b. ASSUME Return(t) PROVE KeepsTasks
  BY <1>0, <1>b, ReturnFacts, IdleFacts DEF KeepsTasks
<1>c. ASSUME KeepsTasks, vms' = vms, configs' = configs, issued' = issued PROVE NameInv'
  BY <1>c, NameFrame DEF KeepsNames, Present
<1>d. ASSUME KeepsTasks, configs' = configs, issued' = issued,
             NEW s \in VmStates, NEW c \in Cids \cup {0},
             \/ vms' = vms
             \/ vms' = WithState(id, s)
             \/ vms' = WithExit(id, s, c)
             \/ Present(id) /\ vms' = [vms EXCEPT ![id].exit = c]
             \/ Present(id) /\ vms' = [vms EXCEPT ![id].state = s]
             \/ Present(id) /\ vms' = [vms EXCEPT ![id].state = s, ![id].cid = c]
      PROVE  NameInv'
  <2>1. KeepsNames
    BY <1>0, <1>d, KeepsNamesFacts
  <2>2. QED
    BY <1>d, <2>1, NameFrame
<1>1. CASE StoreConfig(t)
  <2>1. KeepsTasks /\ vms' = vms /\ issued' = issued /\ Booting(t)
    BY <1>1, <1>a DEF StoreConfig, At, Booting, Pcs
  <2>2. /\ configs'[id] = task[t].name
        /\ \A i \in Ids \ {id} : configs'[i] = configs[i]
    BY <1>1, <1>0 DEF StoreConfig, TypeInv, TypeOK
  <2>3. \A i \in Ids : i \notin issued' => configs'[i] = NoEntry
    BY <1>0, <2>1, <2>2 DEF NameInv
  <2>4. \A i \in Ids : Present(i)' => configs'[i] \in {None, NoEntry, vms'[i].name}
    BY <2>1, <2>2 DEF NameInv, Present
  <2>5. \A u \in Clients : task'[u].op # "none" => task'[u].id \in issued'
    BY <2>1 DEF NameInv, KeepsTasks
  <2>6. \A u \in Clients : (Booting(u) /\ Present(task[u].id) => task[u].name \in {None, vms[task[u].id].name})'
    BY <2>1 DEF NameInv, KeepsTasks, Booting, BootOps, Present
  <2>7. QED
    BY <2>1, <2>3, <2>4, <2>5, <2>6 DEF NameInv, NamesUnique, Present
<1>2. CASE BuildRootfs(t)
  BY <1>2, <1>c, <1>a DEF BuildRootfs, mapVars, Pcs
<1>3. CASE MarkRunning(t)
  BY <1>3, <1>0, <1>d, <1>a DEF MarkRunning, VmStates, Pcs
<1>4. CASE Boot(t)
  BY <1>4, <1>c, <1>a DEF Boot, mapVars, Pcs
<1>5. CASE BootFails(t)
  BY <1>5, <1>c, <1>a, <1>b DEF BootFails, mapVars, Pcs, PipelineError
<1>6. CASE SetupForwards(t)
  BY <1>6, <1>c, <1>a DEF SetupForwards, mapVars, Pcs
<1>7. CASE ForwardsFail(t)
  BY <1>7, <1>c, <1>a, <1>b DEF ForwardsFail, mapVars, Pcs, PipelineError
<1>8. CASE MarkFailed(t)
  BY <1>8, <1>0, <1>d, <1>b DEF MarkFailed, VmStates
<1>9. CASE InsertLive(t)
  BY <1>9, <1>c, <1>a DEF InsertLive, mapVars, Pcs
<1>10. CASE Publish(t)
  <2>1. KeepsTasks /\ configs' = configs /\ issued' = issued
    BY <1>10, <1>b DEF Publish
  <2>2. "Running" \in VmStates
    BY DEF VmStates
  <2>3. \/ vms' = vms
        \/ Present(id) /\ vms' = [vms EXCEPT ![id].state = "Running"]
        \/ Present(id) /\ vms' = [vms EXCEPT ![id].state = "Running", ![id].cid = task[t].cid]
    BY <1>10 DEF Publish
  <2>4. QED
    BY <1>0, <2>1, <2>2, <2>3, <1>d
<1>11. CASE RunCompletes(t)
  BY <1>11, <1>c, <1>a DEF RunCompletes, mapVars, Pcs
<1>12. CASE RunFinishes(t)
  BY <1>12, <1>0, <1>d, <1>b DEF RunFinishes, VmStates
<1>13. CASE StartDrops(t)
  BY <1>13, <1>c, <1>a DEF StartDrops, mapVars, Pcs
<1>14. CASE StartMarks(t)
  <2>1. KeepsTasks /\ configs' = configs /\ issued' = issued
    BY <1>14, <1>a, <1>b DEF StartMarks, Pcs
  <2>2. task[t].name \in Names /\ Booting(t)
    BY <1>14 DEF StartMarks, At, TypeInv, TaskOK, Booting
  <2>3. Present(id) => task[t].name = vms[id].name
    BY <2>2, BackendAssumption DEF NameInv
  <2>4. KeepsNames
    <3>1. CASE ~Present(id)
      BY <1>14, <3>1 DEF StartMarks, KeepsNames, Present
    <3>2. CASE Present(id)
      <4> DEFINE new == [state |-> "Creating", name |-> task[t].name, cid |-> task[t].cid, exit |-> 0]
      <4>1. vms' = [vms EXCEPT ![id] = new] /\ new.name = task[t].name
        BY <1>14, <3>2 DEF StartMarks
      <4> HIDE DEF new
      <4>2. \A i \in Ids : vms'[i] = IF i = id THEN new ELSE vms[i]
        BY <4>1 DEF TypeInv, TypeOK
      <4>3. QED
        BY <4>1, <4>2, <2>3, <3>2 DEF KeepsNames, Present
    <3>3. QED
      BY <3>1, <3>2
  <2>5. QED
    BY <2>1, <2>4, NameFrame
<1>15. CASE TakeLive(t)
  <2>1. KeepsTasks
    <3>1. CASE live[id] = NoEntry
      BY <1>15, <3>1, <1>a DEF TakeLive, Pcs
    <3>2. CASE live[id] # NoEntry
      BY <1>15, <3>2, TakeLiveTask DEF KeepsTasks
    <3>3. QED
      BY <3>1, <3>2
  <2>2. QED
    BY <1>15, <2>1, <1>c DEF TakeLive
<1>16. CASE ShutdownAcked(t)
  BY <1>16, <1>c, <1>a DEF ShutdownAcked, mapVars, Pcs
<1>17. CASE ForceStop(t)
  BY <1>17, <1>c, <1>a DEF ForceStop, mapVars, Pcs
<1>18. CASE ExitAfterShutdown(t)
  BY <1>18, <1>c, <1>a DEF ExitAfterShutdown, mapVars, Pcs
<1>19. CASE CaptureOutput(t)
  <2>1. KeepsTasks /\ configs' = configs /\ issued' = issued /\ "Running" \in VmStates
    BY <1>19, <1>a DEF CaptureOutput, Pcs, VmStates
  <2>2. vms' = vms \/ (Present(id) /\ vms' = [vms EXCEPT ![id].exit = task[t].held])
    BY <1>19 DEF CaptureOutput
  <2>3. QED
    BY <1>0, <2>1, <2>2, <1>d
<1>20. CASE JoinAndClean(t)
  BY <1>20, <1>c, <1>a DEF JoinAndClean, mapVars, Pcs
<1>21. CASE MarkStopped(t)
  BY <1>21, <1>0, <1>d, <1>a, <1>b DEF MarkStopped, VmStates, Pcs
<1>22. CASE Remove(t)
  <2>1. KeepsTasks /\ issued' = issued
    BY <1>22, <1>b DEF Remove
  <2>2. KeepsNames
    BY <1>22, <1>0 DEF Remove, KeepsNames, Present, TypeInv, TypeOK
  <2>3. \A i \in Ids : configs'[i] \in {configs[i], NoEntry}
    BY <1>22, <1>0 DEF Remove, TypeInv, TypeOK
  <2>4. QED
    BY <2>1, <2>2, <2>3, NameFrame
<1>23. QED
  BY <1>1, <1>2, <1>3, <1>4, <1>5, <1>6, <1>7, <1>8, <1>9, <1>10, <1>11, <1>12, <1>13, <1>14, <1>15, <1>16, <1>17, <1>18, <1>19, <1>20, <1>21, <1>22 DEF Step
\* A create checks its name and a start reserves the one it read: names stay unique.
LEMMA RequestNameInv ==
  ASSUME TypeInv, NameInv, NEW t \in Clients, Request(t)
  PROVE  NameInv'
<1> USE BackendAssumption
<1>0. /\ vms \in [Ids -> VmInfo \cup {NoEntry}] /\ task \in [Clients -> Tasks] /\ issued \subseteq Ids
      /\ \A u \in Clients : task[u].op # "none" => task[u].id \in Ids
  BY DEF TypeInv, TypeOK, TaskOK
<1>a. ASSUME NEW op, NEW pc, NEW id, NEW n, NEW c,
             task' = [task EXCEPT ![t] = NewTask(op, pc, id, n, c)]
      PROVE  /\ \A u \in Clients \ {t} : task'[u] = task[u]
             /\ task'[t].op = op /\ task'[t].id = id /\ task'[t].name = n
  BY <1>0, <1>a DEF NewTask
<1>1. ASSUME NEW op \in BootOps \cap Ops, NEW n \in Names \cup {None}, Create(t, op, n)
      PROVE  NameInv'
  <2>1. PICK id \in Ids \ issued, m \in ChosenNames(n) :
          /\ vms' = [vms EXCEPT ![id] =
                       [state |-> "Creating", name |-> m, cid |-> nextCid, exit |-> 0]]
          /\ issued' = issued \cup {id}
          /\ task' = [task EXCEPT ![t] = NewTask(op, "config", id, n, nextCid)]
    BY <1>1 DEF Create
  <2>2. configs' = configs
    BY <1>1 DEF Create
  <2> DEFINE new == [state |-> "Creating", name |-> m, cid |-> nextCid, exit |-> 0]
  <2>3. new.name = m /\ \A i \in Ids : vms'[i] = IF i = id THEN new ELSE vms[i]
    BY <1>0, <2>1
  <2> HIDE DEF new
  <2>4. m \in Names /\ n \in {m, None} /\ \A i \in Ids : Present(i) => vms[i].name # m
    BY DEF ChosenNames, NameExists
  <2>5. /\ \A u \in Clients \ {t} : task'[u] = task[u]
        /\ task'[t].id = id /\ task'[t].name = n
    BY <2>1, <1>a
  <2>6. \A i \in Ids : (Present(i) => i \in issued)' /\ (i \notin issued => configs[i] = NoEntry)'
    BY <2>1, <2>2, <2>3 DEF NameInv, Present
  <2>7. \A i \in Ids : (Present(i) => configs[i] \in {None, NoEntry, vms[i].name})'
    BY <2>1, <2>2, <2>3 DEF NameInv, Present
  <2>i. issued' = issued \cup {id} /\ id \notin issued
    BY <2>1
  <2>t. \A u \in Clients : task[u].op # "none" => task[u].id \in issued
    BY DEF NameInv
  <2>8. \A u \in Clients : (task[u].op # "none" => task[u].id \in issued)'
    <3>1. (task[t].op # "none" => task[t].id \in issued)'
      BY ONLY <2>i, <2>5, ZenonT(60)
    <3>2. \A u \in Clients \ {t} : (task[u].op # "none" => task[u].id \in issued)'
      BY ONLY <2>i, <2>5, <2>t, ZenonT(60)
    <3>3. QED
      BY ONLY <3>1, <3>2, ZenonT(60)
  <2>b. \A u \in Clients : Booting(u) /\ Present(task[u].id) => task[u].name \in {None, vms[task[u].id].name}
    BY DEF NameInv
  <2>9. \A u \in Clients : (Booting(u) /\ Present(task[u].id) => task[u].name \in {None, vms[task[u].id].name})'
    <3>1. (Booting(t) /\ Present(task[t].id) => task[t].name \in {None, vms[task[t].id].name})'
      BY <2>3, <2>4, <2>5
    <3>2. ASSUME NEW u \in Clients \ {t}
          PROVE  (Booting(u) /\ Present(task[u].id) => task[u].name \in {None, vms[task[u].id].name})'
      <4>1. Booting(u) => task[u].id \in Ids \ {id}
        BY ONLY <1>0, <2>t, <2>i, ZenonT(60) DEF Booting, BootOps
      <4>2. task'[u] = task[u]
        BY ONLY <2>5, ZenonT(60)
      <4>3. Booting(u) => vms'[task[u].id] = vms[task[u].id]
        BY ONLY <2>3, <4>1, ZenonT(60)
      <4>4. QED
        BY ONLY <2>b, <4>2, <4>3, ZenonT(60) DEF Booting, Present
    <3>3. QED
      BY <3>1, <3>2
  <2>10. NamesUnique'
    BY <2>3, <2>4 DEF NameInv, NamesUnique, Present
  <2>11. QED
    BY <2>6, <2>7, <2>8, <2>9, <2>10 DEF NameInv
<1>2. ASSUME NEW n \in Names \cup {None}, CreateRejected(t, n)
      PROVE  NameInv'
  <2>1. vms' = vms /\ configs' = configs /\ task' = task /\ issued \subseteq issued'
    BY <1>2 DEF CreateRejected
  <2>2. QED
    BY <2>1 DEF NameInv, NamesUnique, Present, Booting
<1>3. ASSUME NEW id \in Ids, Start(t, id)
      PROVE  NameInv'
  <2>1. vms' = vms /\ configs' = configs /\ issued' = issued /\ Present(id)
    BY <1>3 DEF Start, mapVars
  <2>2. /\ \A u \in Clients \ {t} : task'[u] = task[u]
        /\ task'[t].id = id /\ task'[t].name = StartName(id)
    <3>1. task' = [task EXCEPT ![t] = NewTask("start", "drop", id, StartName(id), nextCid)]
      BY <1>3 DEF Start
    <3>2. QED
      BY <3>1, <1>a
  <2>3. StartName(id) = vms[id].name
    BY <1>3, <2>1 DEF StartName, Start, NameInv
  <2>4. \A u \in Clients : (task[u].op # "none" => task[u].id \in issued)'
    BY <2>1, <2>2 DEF NameInv
  <2>5. \A u \in Clients : (Booting(u) /\ Present(task[u].id) => task[u].name \in {None, vms[task[u].id].name})'
    BY <2>1, <2>2, <2>3 DEF NameInv, Booting, Present
  <2>6. QED
    BY <2>1, <2>4, <2>5 DEF NameInv, NamesUnique, Present
<1>4. ASSUME NEW op \in StopOps \cap Ops, NEW id \in Ids, Stop(t, op, id)
      PROVE  NameInv'
  <2>1. vms' = vms /\ configs' = configs /\ issued' = issued /\ Present(id)
    BY <1>4 DEF Stop, mapVars
  <2>2. PICK pc : task' = [task EXCEPT ![t] = NewTask(op, pc, id, None, 0)]
    BY <1>4 DEF Stop
  <2>3. /\ \A u \in Clients \ {t} : task'[u] = task[u]
        /\ task'[t].op = op /\ task'[t].id = id
    BY <2>2, <1>a
  <2>4. \A u \in Clients : (task[u].op # "none" => task[u].id \in issued)'
    BY <2>1, <2>3 DEF NameInv
  <2>5. ~Booting(t)'
    BY <2>3 DEF Booting, BootOps, StopOps
  <2>6. \A u \in Clients : (Booting(u) /\ Present(task[u].id) => task[u].name \in {None, vms[task[u].id].name})'
    BY <2>1, <2>3, <2>5 DEF NameInv, Booting, Present
  <2>7. QED
    BY <2>1, <2>4, <2>6 DEF NameInv, NamesUnique, Present
<1>5. QED
  BY <1>1, <1>2, <1>3, <1>4 DEF Request

\* The monitor changes no name.
LEMMA MonitorNameInv ==
  ASSUME TypeInv, NameInv, NEW c \in Cids, MonitorStep(c) \/ ThreadExits(c)
  PROVE  NameInv'
<1>1. task' = task /\ configs' = configs /\ issued' = issued
  BY DEF MonitorStep, ThreadExits, MonitorTakes, MonitorClaims, MonitorMarks, MonitorCleans, MonitorEnsures, mapVars
<1>2. KeepsTasks
  BY <1>1 DEF KeepsTasks
<1>a. mon[c].held \in Cids \cup {0} /\ (mon[c].pc # "none" => owner[c] \in Ids)
  BY DEF TypeInv, TypeOK, Monitors, MonitorOK
<1>3. KeepsNames
  <2>1. CASE MonitorTakes(c) \/ MonitorClaims(c) \/ MonitorCleans(c) \/ ThreadExits(c)
    BY <2>1 DEF MonitorTakes, MonitorClaims, MonitorCleans, ThreadExits, mapVars, KeepsNames, Present
  <2>2. CASE MonitorMarks(c)
    BY <1>a, <2>2, KeepsNamesFacts DEF MonitorMarks, VmStates
  <2>3. CASE MonitorEnsures(c)
    BY <1>a, <2>3, KeepsNamesFacts DEF MonitorEnsures, VmStates
  <2>4. QED
    BY <2>1, <2>2, <2>3 DEF MonitorStep
<1>4. QED
  BY <1>1, <1>2, <1>3, NameFrame

\* Restored VMs have distinct names.
LEMMA InitNameInv == Init => NameInv
<1> SUFFICES ASSUME Init PROVE NameInv
  OBVIOUS
<1>1. PICK restored \in SUBSET Ids : \E nm \in [restored -> Names] :
        /\ \A i, j \in restored : i # j => nm[i] # nm[j]
        /\ vms = [i \in Ids |-> IF i \in restored
                    THEN [state |-> "Stopped", name |-> nm[i], cid |-> 0, exit |-> 0]
                    ELSE NoEntry]
        /\ configs = [i \in Ids |-> IF i \in restored THEN nm[i] ELSE NoEntry]
        /\ issued = restored
  BY DEF Init
<1>2. PICK nm \in [restored -> Names] :
        /\ \A i, j \in restored : i # j => nm[i] # nm[j]
        /\ vms = [i \in Ids |-> IF i \in restored
                    THEN [state |-> "Stopped", name |-> nm[i], cid |-> 0, exit |-> 0]
                    ELSE NoEntry]
        /\ configs = [i \in Ids |-> IF i \in restored THEN nm[i] ELSE NoEntry]
        /\ issued = restored
  BY <1>1
<1>3. \A i \in Ids : Present(i) => i \in restored /\ vms[i].name = nm[i]
  BY <1>2 DEF Present
<1>4. \A t \in Clients : task[t].op = "none"
  BY IdleFacts DEF Init
<1>5. NamesUnique
  BY <1>2, <1>3 DEF NamesUnique
<1>6. QED
  BY <1>2, <1>3, <1>4, <1>5 DEF NameInv, Booting, BootOps

\* No interleaving of any number of requests gives two VMs the same name.
THEOREM NamesStayUnique == Spec => []NamesUnique
<1> DEFINE Inv == TypeInv /\ NameInv
<1>1. Init => Inv
  BY InitTypeInv, InitNameInv
<1>2. Inv /\ [Next]_vars => Inv'
  <2>1. ASSUME Inv, [Next]_vars PROVE NameInv'
    <3>1. CASE UNCHANGED vars
      BY <2>1, <3>1 DEF vars, mapVars, NameInv, NamesUnique, Present, Booting
    <3>2. QED
      BY <2>1, <3>1, StepNameInv, RequestNameInv, MonitorNameInv DEF Next
  <2>2. QED
    BY <2>1, NextTypeInv
<1>3. Inv => NamesUnique
  BY DEF NameInv
<1>4. QED
  BY <1>1, <1>2, <1>3, PTL DEF Spec
=============================================================================
