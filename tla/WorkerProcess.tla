---------------------------- MODULE WorkerProcess ----------------------------
(***************************************************************************)
(* One VM under the two implementations of VmLifecycle (visor-runtime      *)
(* lifecycle/): WorkerProcessLifecycle with its child process              *)
(* (worker_process.rs, vm_worker.rs, worker_protocol.rs), and              *)
(* InProcessLifecycle with its vCPU thread (in_process.rs).  The parent    *)
(* boots, then runs to completion, stops or kills; the guest may end or    *)
(* hang at any time; timeouts race the answers.  Then the health loop that *)
(* watches the running VMs.                                                *)
(***************************************************************************)
EXTENDS Integers, Sequences

CONSTANT Modes      \* of "worker" (macOS) and "thread" (elsewhere)

ASSUME ModesAssumption == Modes \subseteq {"worker", "thread"}

VARIABLES mode,
          ppc,        \* the parent: where boot(), stop(), kill() or run stands
          wpc,        \* the worker process
          guest,      \* the vCPU thread: "none", "running", "hung", "ended"
          killFlag,
          toWorker, toParent,   \* messages on the control socket
          parentEnd, workerEnd, \* the two ends of the socket are open
          exitRx,     \* the worker still holds the guest's completion receiver
          inMap,      \* the handle is in WorkerProcessLifecycle.workers
          monitor,    \* spawn_worker_monitor: "off", "polling", "ended"
          completion, \* what VmLiveState.completion_rx yields: "none", "pending", "sent",
                      \* "failed", "dropped", or "watched" when another task holds it
          forwards, tmpDir,     \* resources of the boot
          answer      \* what the last operation returned

workerVars == <<mode, ppc, wpc, guest, killFlag, toWorker, toParent, parentEnd, workerEnd,
                exitRx, inMap, monitor, completion, forwards, tmpDir, answer>>

WorkerInit ==
  /\ mode \in Modes /\ ppc = "idle" /\ wpc = "none" /\ guest = "none" /\ killFlag = FALSE
  /\ toWorker = <<>> /\ toParent = <<>> /\ parentEnd = FALSE /\ workerEnd = FALSE
  /\ exitRx = FALSE /\ inMap = FALSE /\ monitor = "off" /\ completion = "none"
  /\ forwards = FALSE /\ tmpDir = TRUE /\ answer = "none"

parentPart == <<ppc, parentEnd, inMap, forwards, tmpDir, answer>>
monitorPart == <<monitor, completion>>
workerPart == <<wpc, workerEnd, exitRx>>
guestPart == <<guest, killFlag>>
wires == <<toWorker, toParent>>

----------------------------------------------------------------------------
(* The guest ends by itself, hangs, or sees the kill flag at its next exit. *)
GuestEnds ==
  /\ guest = "running" /\ guest' = "ended"
  /\ UNCHANGED <<mode, killFlag, wires, parentPart, monitorPart, workerPart>>

GuestHangs ==
  /\ guest = "running" /\ guest' = "hung"
  /\ UNCHANGED <<mode, killFlag, wires, parentPart, monitorPart, workerPart>>

GuestKilled ==
  /\ guest \in {"running", "hung"} /\ killFlag /\ guest' = "ended"
  /\ UNCHANGED <<mode, killFlag, wires, parentPart, monitorPart, workerPart>>

----------------------------------------------------------------------------
(* WorkerProcessLifecycle::boot. *)
BootFails ==
  /\ ppc' = "off" /\ parentEnd' = FALSE /\ forwards' = FALSE /\ answer' = "error"
  /\ UNCHANGED <<inMap, tmpDir>>

Spawn ==
  /\ mode = "worker" /\ ppc = "idle"
  /\ \/ /\ ppc' = "accept" /\ wpc' = "connect" /\ forwards' = TRUE
        /\ UNCHANGED <<parentEnd, inMap, tmpDir, answer>>
     \/ BootFails /\ UNCHANGED wpc          \* socket, forwards, memory or spawn
  /\ UNCHANGED <<mode, guestPart, wires, monitorPart, workerEnd, exitRx>>

(* accept_and_wait_for_ready: 30 s for the connection, 30 s for Ready. *)
Accept ==
  /\ ppc = "accept" /\ wpc = "connected" /\ ppc' = "ready" /\ parentEnd' = TRUE
  /\ UNCHANGED <<mode, guestPart, wires, monitorPart, workerPart, inMap, forwards, tmpDir, answer>>

ReadyTimeout ==
  /\ ppc \in {"accept", "ready"} /\ BootFails
  /\ UNCHANGED <<mode, guestPart, wires, monitorPart, workerPart>>

Insert ==
  /\ ppc' = "booted" /\ inMap' = TRUE /\ answer' = "booted"
  /\ monitor' = "polling" /\ completion' = "pending"
  /\ UNCHANGED <<parentEnd, forwards, tmpDir>>

ReadReady ==
  /\ ppc = "ready"
  /\ \/ /\ toParent # <<>> /\ toParent' = Tail(toParent)
        /\ IF Head(toParent) = "ready" THEN Insert ELSE BootFails /\ UNCHANGED monitorPart
     \/ /\ toParent = <<>> /\ ~workerEnd           \* closed: end of file
        /\ BootFails /\ UNCHANGED <<monitorPart, toParent>>
  /\ UNCHANGED <<mode, guestPart, toWorker, workerPart>>

(* InProcessLifecycle::boot: the guest runs on a thread of the daemon. *)
BootThread ==
  /\ mode = "thread" /\ ppc = "idle"
  /\ \/ /\ ppc' = "booted" /\ guest' = "running" /\ forwards' = TRUE /\ completion' = "pending"
        /\ answer' = "booted" /\ UNCHANGED <<parentEnd, inMap, tmpDir>>
     \/ BootFails /\ UNCHANGED <<guest, completion>>
  /\ UNCHANGED <<mode, killFlag, wires, monitor, workerPart>>

(* monitor_detached_vm of the backend takes the completion receiver out of *)
(* the live state.                                                         *)
WatcherTakes ==
  /\ mode = "thread" /\ ppc = "booted" /\ completion = "pending" /\ completion' = "watched"
  /\ UNCHANGED <<mode, guestPart, wires, monitor, workerPart, parentPart>>

(* spawn_worker_monitor, every 500 ms: the child has exited, is running,   *)
(* or its handle was taken by another operation.                           *)
MonitorIgnoresMap ==
  /\ monitor = "polling" /\ wpc = "exited"
  /\ monitor' = "ended" /\ completion' = "sent" /\ inMap' = FALSE
  /\ UNCHANGED <<mode, guestPart, wires, workerPart, ppc, parentEnd, forwards, tmpDir, answer>>

MonitorPoll ==
  /\ monitor = "polling"
  /\ \/ /\ inMap /\ wpc = "exited"
        /\ inMap' = FALSE /\ parentEnd' = FALSE /\ monitor' = "ended" /\ completion' = "sent"
     \/ /\ ~inMap /\ monitor' = "ended" /\ completion' = "dropped" /\ UNCHANGED <<inMap, parentEnd>>
  /\ UNCHANGED <<mode, guestPart, wires, workerPart, ppc, forwards, tmpDir, answer>>

(* try_wait fails: the handle is dropped, which closes the socket and kills *)
(* nothing.                                                                 *)
MonitorFails ==
  /\ monitor = "polling" /\ inMap
  /\ inMap' = FALSE /\ parentEnd' = FALSE /\ monitor' = "ended" /\ completion' = "failed"
  /\ UNCHANGED <<mode, guestPart, wires, workerPart, ppc, forwards, tmpDir, answer>>

----------------------------------------------------------------------------
(* run_worker: configuration, connection, boot, Ready, event loop.  A      *)
(* process that ends takes its guest with it and closes its end.           *)
ProcessExit ==
  /\ wpc' = "exited" /\ workerEnd' = FALSE /\ exitRx' = FALSE
  /\ guest' = (IF guest = "none" THEN "none" ELSE "ended") /\ UNCHANGED killFlag

WorkerConnect ==
  /\ wpc = "connect"
  /\ \/ /\ ppc = "accept" /\ wpc' = "connected" /\ workerEnd' = TRUE /\ UNCHANGED <<exitRx, guestPart>>
     \/ ProcessExit                           \* refused, or bad configuration
  /\ UNCHANGED <<mode, wires, parentPart, monitorPart>>

BootWorkerVm ==
  /\ wpc = "connected"
  /\ \/ /\ wpc' = "sendReady" /\ guest' = "running" /\ exitRx' = TRUE
        /\ UNCHANGED <<workerEnd, killFlag, wires>>
     \/ ProcessExit /\ toParent' = Append(toParent, "error") /\ UNCHANGED toWorker
     \/ ProcessExit /\ UNCHANGED wires        \* the shared memory does not open
  /\ UNCHANGED <<mode, parentPart, monitorPart>>

(* A write to a socket whose other end is closed is an error. *)
Reachable == parentEnd \/ ppc = "accept"

SendReady ==
  /\ wpc = "sendReady"
  /\ \/ /\ Reachable /\ toParent' = Append(toParent, "ready") /\ wpc' = "loop"
        /\ UNCHANGED <<workerEnd, exitRx, guestPart>>
     \/ ~Reachable /\ ProcessExit /\ UNCHANGED toParent
  /\ UNCHANGED <<mode, toWorker, parentPart, monitorPart>>

(* The select! of worker_event_loop: a message, the end of the socket, or  *)
(* the guest's completion.                                                 *)
ReadStop ==
  /\ wpc = "loop" /\ toWorker # <<>> /\ Head(toWorker) = "stop" /\ toWorker' = Tail(toWorker)
  /\ wpc' = "shutdown" /\ UNCHANGED <<mode, guestPart, toParent, parentPart, monitorPart, workerEnd, exitRx>>

ReadKill ==
  /\ wpc = "loop" /\ toWorker # <<>> /\ Head(toWorker) = "kill" /\ toWorker' = Tail(toWorker)
  /\ killFlag' = TRUE /\ wpc' = "join"
  /\ UNCHANGED <<mode, guest, toParent, parentPart, monitorPart, workerEnd, exitRx>>

SocketClosed ==
  /\ wpc = "loop" /\ toWorker = <<>> /\ ~Reachable
  /\ killFlag' = TRUE /\ wpc' = "joinQuiet"
  /\ UNCHANGED <<mode, guest, wires, parentPart, monitorPart, workerEnd, exitRx>>

GuestCompletion ==
  /\ wpc = "loop" /\ exitRx /\ guest = "ended" /\ exitRx' = FALSE /\ wpc' = "join"
  /\ UNCHANGED <<mode, guestPart, wires, parentPart, monitorPart, workerEnd>>

(* handle_stop: the shutdown request reaches the guest, or fails or times  *)
(* out and the flag is set.                                                *)
HandleStop ==
  /\ wpc = "shutdown" /\ wpc' = "join"
  /\ \/ guest \in {"running", "ended"} /\ guest' = "ended" /\ UNCHANGED killFlag
     \/ guest = "running" /\ UNCHANGED guestPart      \* acknowledged, not obeyed
     \/ killFlag' = TRUE /\ UNCHANGED guest
  /\ UNCHANGED <<mode, wires, parentPart, monitorPart, workerEnd, exitRx>>

(* join_vcpu_thread and the VmExit message; then the process ends. *)
SendVmExit ==
  /\ wpc \in {"join", "joinQuiet"} /\ guest = "ended" /\ wpc' = "exiting"
  /\ toParent' = IF wpc = "join" /\ Reachable THEN Append(toParent, "vmExit") ELSE toParent
  /\ UNCHANGED <<mode, guestPart, toWorker, parentPart, monitorPart, workerEnd, exitRx>>

WorkerReturns ==
  /\ wpc = "exiting" /\ ProcessExit
  /\ UNCHANGED <<mode, wires, parentPart, monitorPart>>

----------------------------------------------------------------------------
(* stop() and kill() take the handle out of the map first. *)
TakeHandle == ppc = "booted" /\ inMap /\ inMap' = FALSE

ReleaseAll(a) ==
  /\ ppc' = "off" /\ parentEnd' = FALSE /\ forwards' = FALSE /\ tmpDir' = FALSE /\ answer' = a

StopSend ==
  /\ mode = "worker" /\ TakeHandle
  /\ \/ /\ workerEnd /\ toWorker' = Append(toWorker, "stop") /\ ppc' = "stopWait"
        /\ UNCHANGED <<parentEnd, forwards, tmpDir, answer>>
     \/ /\ ~workerEnd /\ ppc' = "off" /\ parentEnd' = FALSE /\ forwards' = FALSE
        /\ answer' = "error" /\ UNCHANGED <<tmpDir, toWorker>>
  /\ UNCHANGED <<mode, guestPart, toParent, monitorPart, workerPart>>

(* Whatever is read, the child is waited for; on a timeout it is killed. *)
StopWait ==
  /\ ppc = "stopWait" /\ (toParent # <<>> \/ ~workerEnd) /\ wpc = "exited" /\ ReleaseAll("stopped")
  /\ UNCHANGED <<mode, guestPart, wires, monitorPart, workerPart, inMap>>

StopTimeoutNoKill ==
  /\ ppc = "stopWait" /\ toParent = <<>> /\ wpc = "exited" /\ ReleaseAll("stopped")
  /\ UNCHANGED <<mode, guestPart, wires, monitorPart, workerPart, inMap>>

StopTimeout ==
  /\ ppc = "stopWait" /\ toParent = <<>> /\ wpc # "exited" /\ ProcessExit /\ ReleaseAll("stopped")
  /\ UNCHANGED <<mode, wires, monitorPart, inMap>>

(* kill() sends Kill if the socket takes it, and kills the process anyway. *)
KillSend ==
  /\ mode = "worker" /\ TakeHandle /\ ppc' = "killing"
  /\ toWorker' = IF workerEnd THEN Append(toWorker, "kill") ELSE toWorker
  /\ UNCHANGED <<mode, guestPart, toParent, monitorPart, workerPart, parentEnd, forwards, tmpDir, answer>>

KillChild ==
  /\ ppc = "killing" /\ ProcessExit /\ ReleaseAll("stopped")
  /\ UNCHANGED <<mode, wires, monitorPart, inMap>>

(* stop() or kill() after the monitor saw the child exit: no handle left. *)
StopGone ==
  /\ mode = "worker" /\ ppc = "booted" /\ ~inMap /\ ReleaseAll("stopped")
  /\ UNCHANGED <<mode, guestPart, wires, monitorPart, workerPart, inMap>>

(* run_to_completion takes the handle and reads VmExit without a timeout. *)
RunTake ==
  /\ mode = "worker" /\ ppc = "booted" /\ answer = "booted"
  /\ IF inMap THEN ppc' = "runRead" /\ inMap' = FALSE /\ UNCHANGED <<parentEnd, forwards, tmpDir, answer>>
     ELSE /\ ppc' = "off" /\ parentEnd' = FALSE /\ forwards' = FALSE /\ answer' = "error"
          /\ UNCHANGED <<inMap, tmpDir>>
  /\ UNCHANGED <<mode, guestPart, wires, monitorPart, workerPart>>

RunRead ==
  /\ ppc = "runRead"
  /\ \/ toParent # <<>> /\ wpc = "exited" /\ ReleaseAll("ran")
     \/ /\ toParent = <<>> /\ ~workerEnd /\ ppc' = "off" /\ parentEnd' = FALSE /\ forwards' = FALSE
        /\ answer' = "error" /\ UNCHANGED tmpDir
  /\ UNCHANGED <<mode, guestPart, wires, monitorPart, workerPart, inMap>>

----------------------------------------------------------------------------
(* InProcessLifecycle: stop() asks the guest and waits 2 s for it to end.  *)
(* A refusal, a timeout, or a guest that does not obey has the flag set;   *)
(* but a guest that acknowledged is not waited for, and the flag not set,  *)
(* when the receiver was taken.  kill() sets the flag at once.  Both join  *)
(* for 2 s at most and release the rest.                                   *)
StopThread ==
  /\ mode = "thread" /\ ppc = "booted"
  /\ \/ /\ guest \in {"running", "ended"} /\ guest' = "ended" /\ UNCHANGED killFlag
     \/ /\ killFlag' = TRUE /\ UNCHANGED guest
     \/ /\ guest = "running" /\ completion = "watched" /\ UNCHANGED guestPart
  /\ ppc' = "threadJoin"
  /\ UNCHANGED <<mode, wires, monitorPart, workerPart, parentEnd, inMap, forwards, tmpDir, answer>>

KillThread ==
  /\ mode = "thread" /\ ppc = "booted" /\ killFlag' = TRUE /\ ppc' = "threadJoin"
  /\ UNCHANGED <<mode, guest, wires, monitorPart, workerPart, parentEnd, inMap, forwards, tmpDir, answer>>

StopThreadJoin ==
  /\ ppc = "threadJoin" /\ guest = "ended" /\ ReleaseAll("stopped")
  /\ UNCHANGED <<mode, guestPart, wires, monitorPart, workerPart, inMap>>

StopThreadDetach ==
  /\ ppc = "threadJoin" /\ guest # "ended" /\ ReleaseAll("detached")
  /\ UNCHANGED <<mode, guestPart, wires, monitorPart, workerPart, inMap>>

RunThread ==
  /\ mode = "thread" /\ ppc = "booted" /\ guest = "ended"
  /\ completion = "pending" /\ completion' = "sent" /\ ReleaseAll("ran")
  /\ UNCHANGED <<mode, guestPart, wires, monitor, workerPart, inMap>>

ParentSteps ==
  \/ Spawn \/ Accept \/ ReadReady \/ MonitorPoll \/ StopWait \/ KillChild \/ RunRead
  \/ StopThreadJoin
Timeouts == ReadyTimeout \/ StopTimeout \/ StopThreadDetach
WorkerSteps ==
  \/ WorkerConnect \/ BootWorkerVm \/ SendReady \/ ReadStop \/ ReadKill \/ SocketClosed
  \/ GuestCompletion \/ HandleStop \/ SendVmExit \/ WorkerReturns
Requests ==
  \/ BootThread \/ WatcherTakes \/ StopSend \/ KillSend \/ StopGone \/ RunTake
  \/ StopThread \/ KillThread \/ RunThread

WorkerNext ==
  \/ GuestEnds \/ GuestHangs \/ GuestKilled \/ MonitorFails
  \/ ParentSteps \/ Timeouts \/ WorkerSteps \/ Requests

WorkerSpec == WorkerInit /\ [][WorkerNext]_workerVars

----------------------------------------------------------------------------
(* What stop(), kill() or a completed run leave behind when they succeed:  *)
(* no process, no forwarding rule, no temporary directory.  Two things can *)
(* be left.  A thread that did not join in time, with the kill flag set    *)
(* unless the guest acknowledged the shutdown while the backend's monitor  *)
(* held the receiver stop() would have waited on.  And a worker whose      *)
(* status could not be read, which has lost its socket and ends.           *)
StopLeavesNothing ==
  answer \in {"stopped", "ran", "detached"} =>
    /\ ~forwards /\ ~tmpDir
    /\ mode = "worker" => ~inMap /\ (wpc = "exited" \/ (completion = "failed" /\ ~parentEnd))
    /\ mode = "thread" =>
         guest = "ended" \/ killFlag \/ (answer = "detached" /\ completion = "watched")

(* The monitor reports an exit only of a process that is gone, and never   *)
(* on behalf of an operation that took the handle over; an exit it could   *)
(* not verify is reported as an error, and the socket is closed.           *)
ExitReportedOnce ==
  completion \in {"sent", "failed"} /\ mode = "worker" =>
    /\ ~inMap /\ answer # "none" /\ ppc \notin {"stopWait", "killing", "runRead"}
    /\ IF completion = "sent" THEN wpc = "exited" ELSE ~parentEnd

(* Whatever becomes of the parent's operation, the worker does not outlive *)
(* it: a boot that failed or timed out, or a monitor that gave up, closes  *)
(* the socket, and the worker ends its guest and itself.                   *)
NoOrphanWorker ==
  (mode = "worker" /\ (ppc = "off" \/ completion = "failed")) ~> wpc \in {"none", "exited"}

(* stop() and kill() answer, whatever the guest does.                                *)
StopAnswers == ppc \in {"stopWait", "killing", "threadJoin"} ~> ppc = "off"

-----------------------------------------------------------------------------
(***************************************************************************)
(* HealthCheckLoop (visor-runtime pool/health.rs): every tick reads the    *)
(* running VMs from the backend, forgets the others and pings each in      *)
(* turn; VMs start, stop, hang and recover between any two of these steps. *)
(***************************************************************************)

CONSTANTS HealthVms, Threshold, MaxFailures, MaxHealthBoots

ASSUME HealthAssumption ==
  Threshold \in Nat \ {0} /\ MaxFailures \in Nat /\ MaxFailures >= Threshold

VARIABLES up,         \* VM -> 0 when not running, else the number of its boot
          responsive, \* VMs whose agent answers a ping in time
          boots,      \* VM -> boots so far
          hstates,    \* VM with an entry -> consecutive failures, notified
          sweep,      \* running VMs of this tick not pinged yet
          sweeping,   \* check_all() holds the locks
          alarm       \* what the listeners of the events believe of each VM

healthVars == <<up, responsive, boots, hstates, sweep, sweeping, alarm>>

NewHealthState == [failures |-> 0, notified |-> FALSE]

HealthInit ==
  /\ up = [v \in HealthVms |-> 0] /\ responsive = {} /\ boots = [v \in HealthVms |-> 0]
  /\ hstates = <<>> /\ sweep = {} /\ sweeping = FALSE
  /\ alarm = [v \in HealthVms |-> "unknown"]

(* The backend and the guests. *)
HealthVmStarts(v) ==
  /\ up[v] = 0 /\ boots[v] < MaxHealthBoots
  /\ boots' = [boots EXCEPT ![v] = @ + 1] /\ up' = [up EXCEPT ![v] = boots[v] + 1]
  /\ responsive' = responsive \union {v}
  /\ UNCHANGED <<hstates, sweep, sweeping, alarm>>

HealthVmStops(v) ==
  /\ up[v] # 0 /\ up' = [up EXCEPT ![v] = 0] /\ responsive' = responsive \ {v}
  /\ UNCHANGED <<boots, hstates, sweep, sweeping, alarm>>

AgentHangs(v) ==
  /\ v \in responsive /\ responsive' = responsive \ {v}
  /\ UNCHANGED <<up, boots, hstates, sweep, sweeping, alarm>>

AgentRecovers(v) ==
  /\ up[v] # 0 /\ v \notin responsive /\ responsive' = responsive \union {v}
  /\ UNCHANGED <<up, boots, hstates, sweep, sweeping, alarm>>

(* running_vms() and the retain() at the head of check_all(). *)
Tick ==
  /\ ~sweeping /\ sweeping' = TRUE
  /\ sweep' = {v \in HealthVms : up[v] # 0}
  /\ hstates' = [v \in DOMAIN hstates \intersect sweep' |-> hstates[v]]
  /\ UNCHANGED <<up, responsive, boots, alarm>>

Entry(v) == IF v \in DOMAIN hstates THEN hstates[v] ELSE NewHealthState
SetEntry(v, e) == hstates' = [x \in DOMAIN hstates \union {v} |-> IF x = v THEN e ELSE hstates[x]]
Bounded(n) == IF n > MaxFailures THEN MaxFailures ELSE n

(* The ping succeeds: a VM that was announced unhealthy is announced       *)
(* recovered.                                                              *)
CheckHealthy(v) ==
  /\ SetEntry(v, NewHealthState)
  /\ alarm' = IF Entry(v).notified THEN [alarm EXCEPT ![v] = "recovered"] ELSE alarm

(* It fails: the announcement is made once, at the threshold. *)
CheckUnhealthy(v) ==
  LET n == Bounded(Entry(v).failures + 1)
      announce == n >= Threshold /\ ~Entry(v).notified IN
  /\ SetEntry(v, [failures |-> n, notified |-> Entry(v).notified \/ announce])
  /\ alarm' = IF announce THEN [alarm EXCEPT ![v] = "unhealthy"] ELSE alarm

CheckVm(v) ==
  /\ sweeping /\ v \in sweep /\ sweep' = sweep \ {v}
  /\ IF v \in responsive THEN CheckHealthy(v) ELSE CheckUnhealthy(v)
  /\ UNCHANGED <<up, responsive, boots, sweeping>>

SweepDone ==
  /\ sweeping /\ sweep = {} /\ sweeping' = FALSE
  /\ UNCHANGED <<up, responsive, boots, hstates, sweep, alarm>>

HealthProgress == Tick \/ SweepDone \/ \E v \in HealthVms : CheckVm(v)

HealthNext ==
  \/ \E v \in HealthVms : HealthVmStarts(v) \/ HealthVmStops(v) \/ AgentHangs(v) \/ AgentRecovers(v)
  \/ HealthProgress

HealthSpec == HealthInit /\ [][HealthNext]_healthVars

----------------------------------------------------------------------------
(* An entry is marked notified exactly when it counts Threshold failures   *)
(* in a row, and then the listeners, who only see the events, believe the  *)
(* VM unhealthy: no announcement is lost, early or forgotten.              *)
AlarmMatches ==
  \A v \in DOMAIN hstates :
    /\ hstates[v].notified => alarm[v] = "unhealthy" /\ hstates[v].failures >= Threshold
    /\ ~hstates[v].notified => hstates[v].failures < Threshold

(* A recovery is announced only to listeners who were told of a failure,   *)
(* and a failure is not announced twice while the VM stays in the sweeps.  *)
EventsAlternate ==
  [][\A v \in HealthVms :
       /\ alarm'[v] = "recovered" /\ alarm[v] # "recovered" => alarm[v] = "unhealthy"
       /\ v \in DOMAIN hstates /\ hstates[v].notified /\ v \notin responsive /\ v \in DOMAIN hstates'
            => hstates'[v].notified]_healthVars

(* A VM that stays up with a hung agent is announced unhealthy, unless it  *)
(* recovers or stops first.                                                *)
HangAnnounced ==
  \A v \in HealthVms :
    up[v] # 0 /\ v \notin responsive ~> alarm[v] = "unhealthy" \/ up[v] = 0 \/ v \in responsive

(* The state of a stopped VM is forgotten, or the VM is up again.          *)
ForgottenAfterStop ==
  \A v \in HealthVms : up[v] = 0 ~> v \notin DOMAIN hstates \/ up[v] # 0

(* What watches VMs tells the truth: an unhealthy flag means that many       *)
(* failures in a row, an exit is reported once, and a stop that returned has *)
(* left no process behind.                                                   *)
WatchersTruthful ==
  AlarmMatches /\ StopLeavesNothing /\ ExitReportedOnce
=============================================================================
