-------------------------- MODULE DockerContainers --------------------------
(***************************************************************************)
(* The container half of the Docker API (visor-docker handlers.rs).  A     *)
(* container is a record; starting it creates a VM of the backend.  Every  *)
(* handler works on a copy of the record and awaits between its steps, so  *)
(* handlers of several requests interleave with each other, with VMs that  *)
(* exit by themselves, and with the polling tasks behind /events, /wait    *)
(* and /attach.                                                            *)
(***************************************************************************)
EXTENDS Integers, FiniteSets, FiniteSetsExt

CONSTANTS Containers,      \* identifiers container_create hands out
          Named,           \* those created with a name the backend keeps unique
          DockerVms,       \* identifiers of the backend's VMs
          ServiceNames,
          Archives,        \* tar archives a client uploads
          Slots,           \* requests that can be in flight
          MaxDockerFaults,
          Absent, Nobody   \* no record; no container

NoVm == 0

VARIABLES nameOf,       \* container -> its service name
          records,      \* DockerState.containers
          dvms,         \* the backend
          dns,          \* service discovery: name -> VM
          calls,        \* slot -> the request in progress
          accepted,     \* container -> archives it should still have
          lost,         \* VMs a failing handler left behind unrecorded
          overtaken,    \* VMs whose record or name an overlapping request spoiled
          dockerFaults,
          poller,       \* the task behind GET /events
          waiter,       \* the task behind POST /containers/{id}/wait
          attacher      \* the task behind POST /containers/{id}/attach

handlerVars == <<nameOf, records, dvms, dns, calls, accepted, lost, overtaken, dockerFaults>>
watchVars == <<poller, waiter, attacher>>
dockerVars == <<handlerVars, watchVars>>

Record == [vm: DockerVms \cup {NoVm}, pending: SUBSET Archives,
           hosts: [ServiceNames -> DockerVms \cup {NoVm}]]
VmStates == {"unused", "running", "stopped", "failed", "gone"}
IdleCall == [op |-> "none", c |-> Nobody, pc |-> "idle", rec |-> Absent, vm |-> NoVm, todo |-> {}]

Exists(v) == v # NoVm /\ dvms[v].st \in {"running", "stopped", "failed"}
Running(v) == v # NoVm /\ dvms[v].st = "running"
Busy(c) == \E s \in Slots : calls[s].c = c
Watcher == [st |-> "off", c |-> Nobody, saw |-> FALSE, late |-> FALSE, code |-> "none"]

(* used: VMs earlier clients created and destroyed.                        *)
DockerInit(used) ==
  /\ nameOf \in [Containers -> ServiceNames]
  /\ records = [c \in Containers |-> Absent]
  /\ dvms = [v \in DockerVms |-> [st |-> IF v \in used THEN "gone" ELSE "unused", of |-> Nobody, files |-> {}, info |-> FALSE]]
  /\ dns = [n \in ServiceNames |-> NoVm]
  /\ calls = [s \in Slots |-> IdleCall]
  /\ accepted = [c \in Containers |-> {}]
  /\ lost = {} /\ overtaken = {} /\ dockerFaults = 0
  /\ poller = [pc |-> "off", list |-> {}, prev |-> {}, heard |-> {}]
  /\ waiter = Watcher /\ attacher = Watcher

----------------------------------------------------------------------------
(* Plumbing of a request.                                                  *)
Free(s) == calls[s] = IdleCall
Starting(c) == \E s \in Slots : calls[s].op = "start" /\ calls[s].c = c
Enter(s, op, pc, c) ==
  calls' = [calls EXCEPT ![s] = [IdleCall EXCEPT !.op = op, !.pc = pc, !.c = c,
                                 !.rec = records[c], !.vm = records[c].vm]]
Goto(s, pc) == calls' = [calls EXCEPT ![s].pc = pc]
Answer(s) == calls' = [calls EXCEPT ![s] = IdleCall]
At(s, op, pc) == calls[s].op = op /\ calls[s].pc = pc
Fault == dockerFaults < MaxDockerFaults /\ dockerFaults' = dockerFaults + 1

SetVm(v, st) == dvms' = [dvms EXCEPT ![v].st = st]
Unregister(c) == dns' = [dns EXCEPT ![nameOf[c]] = NoVm]

Smallest(S) == CHOOSE v \in S : \A w \in S : v <= w
Unused == {v \in DockerVms : dvms[v].st = "unused"}
NameTaken(c) == c \in Named /\ \E v \in DockerVms : Exists(v) /\ dvms[v].of = c

(* container_create: a record and nothing else; the name is not checked    *)
(* against other records.                                                  *)
ContainerCreate(c) ==
  /\ records[c] = Absent /\ accepted[c] = {} /\ ~Busy(c)
  /\ \A v \in DockerVms : dvms[v].of # c
  /\ records' = [records EXCEPT ![c] = [vm |-> NoVm, pending |-> {},
                                        hosts |-> [n \in ServiceNames |-> NoVm]]]
  /\ UNCHANGED <<nameOf, dvms, dns, calls, accepted, lost, overtaken, dockerFaults>>

----------------------------------------------------------------------------
(* container_start.                                                        *)
StartLoad(s, c) ==
  /\ Free(s) /\ records[c] # Absent
  /\ Enter(s, "start", "check", c)
  /\ UNCHANGED <<nameOf, records, dvms, dns, accepted, lost, overtaken, dockerFaults>>

StartCheck(s) ==
  /\ At(s, "start", "check")
  /\ LET v == calls[s].vm IN
       \/ Running(v) /\ Answer(s) /\ UNCHANGED dns
       \/ Exists(v) /\ ~Running(v) /\ Unregister(calls[s].c) /\ Goto(s, "destroy")
       \/ ~Exists(v) /\ Goto(s, "create") /\ UNCHANGED dns
  /\ UNCHANGED <<nameOf, records, dvms, accepted, lost, overtaken, dockerFaults>>

StartDestroy(s) ==
  /\ At(s, "start", "destroy")
  /\ \/ /\ Exists(calls[s].vm) /\ SetVm(calls[s].vm, "gone")
        /\ accepted' = [accepted EXCEPT ![calls[s].c] = {}]
        /\ Goto(s, "create") /\ UNCHANGED dockerFaults
     \/ Fault /\ Answer(s) /\ UNCHANGED <<dvms, accepted>>
     \/ ~Exists(calls[s].vm) /\ Answer(s) /\ UNCHANGED <<dvms, accepted, dockerFaults>>
  /\ UNCHANGED <<nameOf, records, dns, lost, overtaken>>

(* populate_discovered_extra_hosts for a compose project: every peer whose *)
(* record names a VM the backend knows is added, unless the name is one's  *)
(* own or already listed.                                                  *)
PeersOf(n) == {p \in Containers : records[p] # Absent /\ Exists(records[p].vm) /\ nameOf[p] = n}

DiscoveredHosts(c, hosts) ==
  [n \in ServiceNames |->
     IF n = nameOf[c] \/ hosts[n] # NoVm \/ PeersOf(n) = {} THEN hosts[n]
     ELSE Smallest({records[p].vm : p \in PeersOf(n)})]

StartCreate(s) ==
  /\ At(s, "start", "create")
  /\ LET c == calls[s].c
         rec == [calls[s].rec EXCEPT !.hosts = DiscoveredHosts(c, @)] IN
       \/ \E v \in Unused :
            /\ ~NameTaken(c) /\ v = Smallest(Unused)
            /\ dvms' = [dvms EXCEPT ![v] = [@ EXCEPT !.st = "running", !.of = c]]
            /\ calls' = [calls EXCEPT ![s] = [@ EXCEPT !.pc = "copy", !.rec = rec, !.vm = v,
                                                       !.todo = rec.pending]]
            /\ UNCHANGED dockerFaults
       \/ NameTaken(c) /\ Answer(s) /\ UNCHANGED <<dvms, dockerFaults>>
       \/ Fault /\ Answer(s) /\ UNCHANGED dvms
  /\ UNCHANGED <<nameOf, records, dns, accepted, lost, overtaken>>

(* The pending archives are copied one after the other; an error answers   *)
(* 500 with the VM running and the record as it was.                       *)
StartCopy(s) ==
  /\ At(s, "start", "copy") /\ calls[s].todo # {}
  /\ LET v == calls[s].vm
         a == CHOOSE x \in calls[s].todo : TRUE IN
       \/ /\ Running(v) /\ dvms' = [dvms EXCEPT ![v].files = @ \cup {a}]
          /\ calls' = [calls EXCEPT ![s].todo = @ \ {a}]
          /\ UNCHANGED <<lost, overtaken, dockerFaults>>
       \/ Fault /\ lost' = lost \cup {v} /\ Answer(s) /\ UNCHANGED dvms
       \/ ~Running(v) /\ lost' = lost \cup {v} /\ Answer(s) /\ UNCHANGED <<dvms, dockerFaults>>
  /\ UNCHANGED <<nameOf, records, dns, accepted, overtaken>>

(* The copy of the record made at the beginning is written back whole.     *)
Displaced(s) == {records[calls[s].c].vm} \ {NoVm, calls[s].rec.vm}

StartRecordOldVm(s) ==
  /\ At(s, "start", "copy") /\ calls[s].todo = {}
  /\ records' = [records EXCEPT ![calls[s].c] =
                   [vm |-> calls[s].rec.vm, pending |-> {}, hosts |-> calls[s].rec.hosts]]
  /\ overtaken' = IF records[calls[s].c] = Absent THEN overtaken ELSE overtaken \cup Displaced(s)
  /\ Goto(s, "register")
  /\ UNCHANGED <<nameOf, dvms, dns, accepted, lost, dockerFaults>>

StartRecord(s) ==
  /\ At(s, "start", "copy") /\ calls[s].todo = {}
  /\ records' = [records EXCEPT ![calls[s].c] =
                   [vm |-> calls[s].vm, pending |-> {}, hosts |-> calls[s].rec.hosts]]
  /\ overtaken' = IF records[calls[s].c] = Absent THEN overtaken ELSE overtaken \cup Displaced(s)
  /\ Goto(s, "register")
  /\ UNCHANGED <<nameOf, dvms, dns, accepted, lost, dockerFaults>>

(* Another request destroyed the VM, or a restart is about to.             *)
Discarded(v) == ~Exists(v) \/ \E t \in Slots : At(t, "start", "destroy") /\ calls[t].vm = v

StartRegister(s) ==
  /\ At(s, "start", "register")
  /\ dns' = [dns EXCEPT ![nameOf[calls[s].c]] = calls[s].vm]
  /\ overtaken' = IF Discarded(calls[s].vm) THEN overtaken \cup {calls[s].vm} ELSE overtaken
  /\ Answer(s)
  /\ UNCHANGED <<nameOf, records, dvms, accepted, lost, dockerFaults>>

----------------------------------------------------------------------------
(* container_stop and container_kill differ in the backend call only: a    *)
(* VM the backend does not know, or an error, answers 404.                 *)
StopLoad(s, c) ==
  /\ Free(s) /\ records[c] # Absent /\ records[c].vm # NoVm
  /\ Enter(s, "stop", "stop", c)
  /\ UNCHANGED <<nameOf, records, dvms, dns, accepted, lost, overtaken, dockerFaults>>

StopVm(s) ==
  /\ At(s, "stop", "stop")
  /\ LET v == calls[s].vm IN
       \/ /\ Exists(v) /\ dvms' = [dvms EXCEPT ![v].st = "stopped", ![v].info = @ \/ Running(v)]
          /\ Goto(s, "unregister") /\ UNCHANGED dockerFaults
       \/ Fault /\ Answer(s) /\ UNCHANGED dvms
       \/ ~Exists(v) /\ Answer(s) /\ UNCHANGED <<dvms, dockerFaults>>
  /\ UNCHANGED <<nameOf, records, dns, accepted, lost, overtaken>>

FinishUnregister(s) ==
  /\ calls[s].pc = "unregister"
  /\ Unregister(calls[s].c) /\ Answer(s)
  /\ UNCHANGED <<nameOf, records, dvms, accepted, lost, overtaken, dockerFaults>>

(* container_remove: the record goes first, then the VM, then the name; an *)
(* error of destroy leaves the VM without a record.                        *)
RemoveRecord(s, c) ==
  /\ Free(s) /\ records[c] # Absent
  /\ records' = [records EXCEPT ![c] = Absent]
  /\ accepted' = [accepted EXCEPT ![c] = {}]
  /\ IF records[c].vm = NoVm THEN UNCHANGED calls ELSE Enter(s, "remove", "destroy", c)
  /\ UNCHANGED <<nameOf, dvms, dns, lost, overtaken, dockerFaults>>

RemoveDestroy(s) ==
  /\ At(s, "remove", "destroy")
  /\ LET v == calls[s].vm IN
       \/ Exists(v) /\ SetVm(v, "gone") /\ Goto(s, "unregister") /\ UNCHANGED <<lost, overtaken, dockerFaults>>
       \/ Fault /\ lost' = lost \cup {v} /\ Answer(s) /\ UNCHANGED dvms
       \/ ~Exists(v) /\ Answer(s) /\ UNCHANGED <<dvms, lost, overtaken, dockerFaults>>
  /\ UNCHANGED <<nameOf, records, dns, accepted, overtaken>>

(* container_archive_put: kept in the record until the first start, else   *)
(* copied, after an await, into the guest of the VM the record named.  The *)
(* container should have the archive from then on, if no start was using a *)
(* copy of its record, until a start or a removal discards the VM.         *)
ArchivePut(s, c, a) ==
  /\ Free(s) /\ records[c] # Absent /\ a \notin accepted[c] \cup records[c].pending
  /\ \/ /\ records[c].vm = NoVm /\ records' = [records EXCEPT ![c].pending = @ \cup {a}]
        /\ accepted' = IF Starting(c) THEN accepted ELSE [accepted EXCEPT ![c] = @ \cup {a}]
        /\ UNCHANGED calls
     \/ /\ records[c].vm # NoVm
        /\ calls' = [calls EXCEPT ![s] = [IdleCall EXCEPT !.op = "put", !.pc = "copy", !.c = c,
                                          !.vm = records[c].vm, !.todo = {a}]]
        /\ UNCHANGED <<records, accepted>>
  /\ UNCHANGED <<nameOf, dvms, dns, lost, overtaken, dockerFaults>>

ArchiveCopy(s) ==
  /\ At(s, "put", "copy") /\ Answer(s)
  /\ LET c == calls[s].c
         v == calls[s].vm IN
       \/ /\ Running(v) /\ dvms' = [dvms EXCEPT ![v].files = @ \cup calls[s].todo]
          /\ accepted' = IF Starting(c) \/ records[c] = Absent \/ records[c].vm # v THEN accepted
                         ELSE [accepted EXCEPT ![c] = @ \cup calls[s].todo]
       \/ UNCHANGED <<dvms, accepted>>
  /\ UNCHANGED <<nameOf, records, dns, lost, overtaken, dockerFaults>>

----------------------------------------------------------------------------
(* An identifier no record answers to reaches the backend directly.  Such  *)
(* VMs are the ones other clients create and the ones a handler lost.      *)
Unmanaged(v) == Exists(v) /\ (dvms[v].of = Nobody \/ v \in lost)

OtherClientCreates ==
  /\ \E v \in Unused : v = Smallest(Unused) /\ SetVm(v, "running")
  /\ \A v \in DockerVms : dvms[v].of = Nobody => dvms[v].st = "unused"
  /\ UNCHANGED <<nameOf, records, dns, calls, accepted, lost, overtaken, dockerFaults>>

UnmanagedStart(s) ==
  /\ calls[s] = IdleCall
  /\ \E v \in DockerVms : /\ Unmanaged(v) /\ ~Running(v) /\ SetVm(v, "gone")
  /\ calls' = [calls EXCEPT ![s].op = "recreate", ![s].pc = "create"]
  /\ UNCHANGED <<nameOf, records, dns, accepted, lost, overtaken, dockerFaults>>

UnmanagedRecreate(s) ==
  /\ At(s, "recreate", "create") /\ Answer(s)
  /\ \/ \E v \in Unused : v = Smallest(Unused) /\ SetVm(v, "running") /\ UNCHANGED dockerFaults
     \/ Fault /\ UNCHANGED dvms
  /\ UNCHANGED <<nameOf, records, dns, accepted, lost, overtaken>>

UnmanagedStop(v) ==
  /\ Unmanaged(v) /\ Running(v) /\ SetVm(v, "stopped")
  /\ UNCHANGED <<nameOf, records, dns, calls, accepted, lost, overtaken, dockerFaults>>

UnmanagedRemove(v) ==
  /\ Unmanaged(v) /\ SetVm(v, "gone")
  /\ UNCHANGED <<nameOf, records, dns, calls, accepted, lost, overtaken, dockerFaults>>

(* A guest's main process ends; the monitor publishes the state, with or   *)
(* without captured output and exit code.                                  *)
Outcomes == {"stopped", "failed"} \X BOOLEAN

VmExits(v, o) ==
  /\ Running(v)
  /\ dvms' = [dvms EXCEPT ![v].st = o[1], ![v].info = o[2]]
  /\ UNCHANGED <<nameOf, records, dns, calls, accepted, lost, overtaken, dockerFaults>>

StartStep(s) == StartCheck(s) \/ StartDestroy(s) \/ StartCreate(s) \/ StartCopy(s)
                  \/ StartRecord(s) \/ StartRegister(s)
CallStep(s) == StartStep(s) \/ StopVm(s) \/ FinishUnregister(s) \/ RemoveDestroy(s)
                 \/ ArchiveCopy(s) \/ UnmanagedRecreate(s)

HandlerNext(cs, archives, outcomes) ==
  \/ \E c \in cs : ContainerCreate(c)
  \/ \E s \in Slots, c \in cs :
       StartLoad(s, c) \/ StopLoad(s, c) \/ RemoveRecord(s, c) \/ \E a \in archives : ArchivePut(s, c, a)
  \/ \E s \in Slots : CallStep(s)
  \/ \E v \in DockerVms, o \in outcomes : VmExits(v, o)

UnmanagedNext ==
  \/ OtherClientCreates
  \/ \E s \in Slots : UnmanagedStart(s)
  \/ \E v \in DockerVms : UnmanagedStop(v) \/ UnmanagedRemove(v)

----------------------------------------------------------------------------
(* What the API shows of a container: the state of the VM its record       *)
(* names, "creating" while it names none the backend knows.                *)
View(c) ==
  IF records[c] = Absent THEN Absent
  ELSE IF Exists(records[c].vm) THEN dvms[records[c].vm].st ELSE "creating"
HasInfo(c) == View(c) # Absent /\ Exists(records[c].vm) /\ dvms[records[c].vm].info

Map(f, k) == IF \E p \in f : p[1] = k THEN (CHOOSE p \in f : p[1] = k)[2] ELSE "none"
PutAll(f, g) == {p \in f : \A q \in g : q[1] # p[1]} \cup g

(* list_container_views reads the backend first and the records after.     *)
EventsList ==
  /\ poller.pc \in {"off", "sleep"}
  /\ poller' = [poller EXCEPT !.pc = "listed",
                              !.list = {<<v, dvms[v].st>> : v \in {w \in DockerVms : Exists(w)}}]
  /\ UNCHANGED <<handlerVars, waiter, attacher>>

ListedViews ==
  {<<c, IF Map(poller.list, records[c].vm) = "none" THEN "creating"
        ELSE Map(poller.list, records[c].vm)>> : c \in {d \in Containers : records[d] # Absent}}
  \cup {p \in poller.list : \A c \in Containers : records[c] # Absent => records[c].vm # p[1]}

NextContainerEvent(before, now) ==
  CASE before \in {"none", "creating"} /\ now = "running" -> "start"
    [] before \in {"none", "running", "creating"} /\ now \in {"stopped", "failed"} -> "die"
    [] before = "stopped" /\ now = "failed" -> "die"
    [] OTHER -> "nothing"

EventsPoll ==
  /\ poller.pc = "listed"
  /\ LET said == {<<p[1], NextContainerEvent(Map(poller.prev, p[1]), p[2])>> : p \in ListedViews}
     IN poller' = [pc |-> "sleep", list |-> {}, prev |-> ListedViews,
                   heard |-> PutAll(poller.heard, {e \in said : e[2] # "nothing"})]
  /\ UNCHANGED <<handlerVars, waiter, attacher>>

(* container_wait: an exited container is answered at once; otherwise a    *)
(* task polls, and gives up waiting for a start after thirty seconds.      *)
Answered(code) == waiter' = [waiter EXCEPT !.st = "done", !.code = code]
ExitCode(c) == IF HasInfo(c) THEN "exit" ELSE "zero"

WaitBegin(c) ==
  /\ waiter.st = "off" /\ records[c] # Absent
  /\ waiter' = IF View(c) \in {"stopped", "failed"} /\ HasInfo(c)
               THEN [waiter EXCEPT !.st = "done", !.c = c, !.code = "exit"]
               ELSE [waiter EXCEPT !.st = "on", !.c = c]
  /\ UNCHANGED <<handlerVars, poller, attacher>>

WaitPollIgnoresRemoval ==
  /\ waiter.st = "on"
  /\ LET c == waiter.c IN
       \/ View(c) = "running" /\ waiter' = [waiter EXCEPT !.saw = TRUE]
       \/ /\ View(c) \notin {"running", Absent} /\ (waiter.saw \/ HasInfo(c) \/ waiter.late)
          /\ Answered(ExitCode(c))
  /\ UNCHANGED <<handlerVars, poller, attacher>>

WaitPoll ==
  /\ waiter.st = "on"
  /\ LET c == waiter.c IN
       \/ View(c) = "running" /\ waiter' = [waiter EXCEPT !.saw = TRUE]
       \/ /\ View(c) \notin {"running", Absent} /\ (waiter.saw \/ HasInfo(c) \/ waiter.late)
          /\ Answered(ExitCode(c))
       \/ View(c) = Absent /\ (waiter.saw \/ waiter.late) /\ Answered("137")
  /\ UNCHANGED <<handlerVars, poller, attacher>>

WaitDeadline ==
  /\ waiter.st = "on" /\ ~waiter.late /\ waiter' = [waiter EXCEPT !.late = TRUE]
  /\ UNCHANGED <<handlerVars, poller, attacher>>

(* container_attach: the loop ends when the container is seen exited with  *)
(* output or an exit code, or not running once the deadline has passed;    *)
(* a container that is gone keeps it polling.                              *)
AttachBegin(c) ==
  /\ attacher.st = "off" /\ records[c] # Absent
  /\ attacher' = [attacher EXCEPT !.st = "on", !.c = c]
  /\ UNCHANGED <<handlerVars, poller, waiter>>

AttachPoll ==
  /\ attacher.st = "on"
  /\ LET c == attacher.c IN
       \/ View(c) = "running" /\ attacher' = [attacher EXCEPT !.saw = TRUE]
       \/ /\ View(c) \notin {"running", Absent}
          /\ ~(View(c) = "creating" /\ ~attacher.saw /\ ~attacher.late)
          /\ HasInfo(c) \/ attacher.late
          /\ attacher' = [attacher EXCEPT !.st = "done"]
  /\ UNCHANGED <<handlerVars, poller, waiter>>

AttachDeadline ==
  /\ attacher.st = "on" /\ ~attacher.late /\ attacher' = [attacher EXCEPT !.late = TRUE]
  /\ UNCHANGED <<handlerVars, poller, waiter>>

EventsNext == EventsList \/ EventsPoll
WaitNext == WaitPoll \/ WaitDeadline \/ \E c \in Containers : WaitBegin(c)
AttachNext == AttachPoll \/ AttachDeadline \/ \E c \in Containers : AttachBegin(c)

----------------------------------------------------------------------------
(* Every VM a start created is the one its container's record names, is in *)
(* the hands of a request, was left behind by a request that failed, or    *)
(* was displaced by the write-back of a start that overlapped its own;     *)
(* the backend's unique names keep the last from a named container.        *)
VmOwned ==
  \A v \in DockerVms : Exists(v) /\ dvms[v].of # Nobody =>
    \/ v \in lost
    \/ records[dvms[v].of] # Absent /\ records[dvms[v].of].vm = v
    \/ \E s \in Slots : calls[s].c = dvms[v].of /\ calls[s].vm = v
    \/ v \in overtaken /\ dvms[v].of \notin Named

(* An archive the API accepted while no start of the container was under   *)
(* way waits in the record, or is in the guest of the VM the record names, *)
(* until a start or a removal discards that VM.                            *)
ArchivesKept ==
  \A c \in Containers : records[c] # Absent =>
    \A a \in accepted[c] :
      a \in records[c].pending \/ (records[c].vm # NoVm /\ a \in dvms[records[c].vm].files)

(* A name resolves to an existing VM of a container with that name, unless *)
(* the request that destroyed the VM is about to withdraw it, or another   *)
(* request discarded it before the start that made it registered it.       *)
DnsPointsHome ==
  \A n \in ServiceNames : dns[n] # NoVm =>
    \/ dns[n] \in lost \cup overtaken
    \/ Exists(dns[n]) /\ nameOf[dvms[dns[n]].of] = n
    \/ \E s \in Slots : calls[s].pc = "unregister" /\ nameOf[calls[s].c] = n

(* The hosts a container is started with are its peers: each entry was a   *)
(* VM of the service it names, and none is the container's own name.       *)
HostsNamePeers ==
  \A c \in Containers : records[c] # Absent =>
    \A n \in ServiceNames : records[c].hosts[n] # NoVm =>
      n # nameOf[c] /\ nameOf[dvms[records[c].hosts[n]].of] = n

(* A container the event stream last saw exited was last announced as      *)
(* dead.                                                                   *)
DeathAnnounced ==
  \A p \in poller.prev : p[2] \in {"stopped", "failed"} => Map(poller.heard, p[1]) = "die"

(* A wait ends unless the container keeps running.                         *)
WaitAnswers ==
  \A c \in Containers :
    waiter.st = "on" /\ waiter.c = c ~> waiter.st = "done" \/ View(c) = "running"

(* An attach ends unless the container keeps running or has been removed.  *)
AttachEnds ==
  \A c \in Containers :
    attacher.st = "on" /\ attacher.c = c
      ~> attacher.st = "done" \/ View(c) = "running" \/ records[c] = Absent

(* "Once the container has run at least once, break after it stops": an    *)
(* attach that saw the container run ends, unless it keeps running.        *)
AttachBreaks ==
  \A c \in Containers :
    attacher.st = "on" /\ attacher.c = c /\ attacher.saw
      ~> attacher.st = "done" \/ View(c) = "running"

(* "The response body is streamed later when the container actually        *)
(* exits": a wait is answered for a container that ran.                    *)
WaitForExit ==
  waiter.st = "done" => \E v \in DockerVms : dvms[v].of = waiter.c /\ dvms[v].st # "unused"

(* Records, VMs and names stay together across requests that await in the    *)
(* middle: a VM belongs to a record or a request, an accepted archive is     *)
(* kept, a name points at a VM of its container, hosts are peers, and an     *)
(* exit that was seen was announced.                                         *)
ContainersSound ==
  /\ VmOwned /\ ArchivesKept /\ DnsPointsHome
  /\ HostsNamePeers /\ DeathAnnounced
=============================================================================
