------------------------------- MODULE Compose -------------------------------
(***************************************************************************)
(* The compose orchestrator (visor-runtime compose/orchestrator.rs): up()  *)
(* and down() of one project over the network tables, the address          *)
(* allocator and a backend that may refuse any call.  Every await is a     *)
(* step boundary; the REST API may delete the project's network between,   *)
(* and the VMs no instance knows.  up() may be called again at any time; a *)
(* failed one returns no instance, so all it made is only met by name.     *)
(***************************************************************************)
EXTENDS NetworkTables, SequencesExt

CONSTANTS Services,      \* the services, named in their sort order
          Missing,       \* a name no service has
          ProjectNet,    \* the name of the project's network
          MaxUps         \* bound: calls of up()

ASSUME ComposeAssumption == Services \subseteq Nat /\ Missing \notin Services

VARIABLES depends,    \* depends_on of every service
          awaited,    \* services some other waits for as service_healthy
          phase,      \* where up() or down() is
          order,      \* what dependency_sort returned, from the next service on
          vmOf,       \* the VM with the service's name: "none", "running", "stopped", "failed"
          started,    \* the services of this up() and then of its ComposeInstance
          healthy,    \* services that answered a health ping since they started
          netId,      \* network_ids of the project, a set of at most one
          apiDeleted, \* the REST API deleted the project's network
          ups         \* calls of up() so far

composeVars == <<depends, awaited, phase, order, vmOf, started, healthy, netId, apiDeleted, ups>>
projectVars == <<composeVars, dnsVars, netVars, ipVars>>

----------------------------------------------------------------------------
(* dependency_sort: Kahn's algorithm, ready services in name order. *)

SortNames(S) == SetToSortSeq(S, <)
InDegree(s) == Cardinality(depends[s])
ValidNames == \A s \in Services : depends[s] \subseteq Services

KahnStep(st) ==
  IF st.queue = <<>> THEN st
  ELSE LET s == Head(st.queue)
           deg == [t \in Services |-> IF s \in depends[t] THEN st.degree[t] - 1 ELSE st.degree[t]]
           ready == {t \in Services : s \in depends[t] /\ deg[t] = 0}
       IN  [queue |-> Tail(st.queue) \o SortNames(ready),
            degree |-> deg,
            result |-> Append(st.result, s)]

DependencySort ==
  LET seeds == SortNames({s \in Services : InDegree(s) = 0})
      run[k \in 0..Cardinality(Services)] ==
        IF k = 0
        THEN [queue |-> seeds, degree |-> [s \in Services |-> InDegree(s)], result |-> <<>>]
        ELSE KahnStep(run[k - 1])
  IN  run[Cardinality(Services)].result

SortFails == ~ValidNames \/ Len(DependencySort) # Cardinality(Services)

----------------------------------------------------------------------------
ComposeInit ==
  /\ TablesInit /\ IpInit
  /\ depends \in [Services -> SUBSET (Services \union {Missing})]
  /\ awaited \in {{}, Services}
  /\ phase = "idle" /\ order = <<>> /\ started = {} /\ healthy = {}
  /\ vmOf = [s \in Services |-> "none"]
  /\ netId = {} /\ apiDeleted = FALSE /\ ups = 0

Svc == Head(order)

(* `?' in up(): the maps of services and networks are dropped, what they    *)
(* name stays.                                                              *)
Dropped == phase' = "failed" /\ order' = <<>> /\ started' = {} /\ healthy' = {} /\ netId' = {}
Fails == Dropped /\ UNCHANGED <<vmOf, apiDeleted, ups>>
Keep == UNCHANGED <<depends, awaited, switchVars>>

Up ==
  /\ phase \in {"idle", "failed", "up", "halfDown"} /\ ups < MaxUps
  /\ phase' = "networks" /\ ups' = ups + 1 /\ apiDeleted' = FALSE
  /\ started' = {} /\ healthy' = {} /\ netId' = {}
  /\ UNCHANGED <<order, vmOf, dnsVars, netVars, ipVars>> /\ Keep

CreateNetworks ==
  /\ phase = "networks"
  /\ \/ /\ \E id \in NetIds : CreateNetwork(id, ProjectNet, FALSE) /\ netId' = {id}
        /\ phase' = "sort" /\ UNCHANGED <<order, vmOf, started, healthy, apiDeleted, ups>>
     \/ ProjectNet \in DOMAIN nameIndex /\ Fails /\ UNCHANGED netVars
  /\ UNCHANGED <<dnsVars, ipVars>> /\ Keep

SortServices ==
  /\ phase = "sort"
  /\ \/ ~SortFails /\ order' = DependencySort /\ phase' = "create"
        /\ UNCHANGED <<vmOf, started, healthy, netId, apiDeleted, ups>>
     \/ SortFails /\ Fails
  /\ UNCHANGED <<dnsVars, netVars, ipVars>> /\ Keep

(* The VM has the service's name, which must be free; a boot that fails     *)
(* keeps it.                                                                *)
CreateVm ==
  /\ phase = "create"
  /\ \/ order = <<>> /\ phase' = "up" /\ UNCHANGED <<order, vmOf, started, healthy, netId, apiDeleted, ups>>
     \/ /\ order # <<>> /\ vmOf[Svc] = "none"
        /\ \/ /\ vmOf' = [vmOf EXCEPT ![Svc] = "running"] /\ phase' = "connect"
              /\ UNCHANGED <<order, started, healthy, netId, apiDeleted, ups>>
           \/ vmOf' = [vmOf EXCEPT ![Svc] = "failed"] /\ Dropped /\ UNCHANGED <<apiDeleted, ups>>
     \/ order # <<>> /\ Fails
  /\ UNCHANGED <<dnsVars, netVars, ipVars>> /\ Keep

ConnectService ==
  /\ phase = "connect"
  /\ \/ /\ \E id \in netId : ConnectVm(id, Svc)
        /\ phase' = "register" /\ UNCHANGED <<order, vmOf, started, healthy, netId, apiDeleted, ups>>
     \/ netId \cap DOMAIN nets = {} /\ Fails /\ UNCHANGED netVars
  /\ UNCHANGED <<dnsVars, ipVars>> /\ Keep

(* An allocator error is not an error of up(): the name stays unknown. *)
RegisterService ==
  /\ phase = "register"
  /\ \/ \E o \in Usable : Allocate(o) /\ Register(Svc, o)
     \/ Exhausted /\ UNCHANGED <<dnsVars, ipVars>>
  /\ phase' = "wait"
  /\ UNCHANGED <<order, vmOf, started, healthy, netId, apiDeleted, ups, netVars>> /\ Keep

(* needs_health_wait, wait_for_healthy *)
NeedsHealthWait(s) == s \in awaited /\ \E t \in Services : s \in depends[t]

Started(healthyNow) ==
  /\ started' = started \union {Svc} /\ healthy' = healthyNow
  /\ order' = Tail(order) /\ phase' = "create"
  /\ UNCHANGED <<vmOf, netId, apiDeleted, ups>>

WaitForHealthy ==
  /\ phase = "wait"
  /\ \/ ~NeedsHealthWait(Svc) /\ Started(healthy)
     \/ NeedsHealthWait(Svc) /\ Started(healthy \union {Svc})
     \/ NeedsHealthWait(Svc) /\ Fails
  /\ UNCHANGED <<dnsVars, netVars, ipVars>> /\ Keep

----------------------------------------------------------------------------
(* down(): every name first, then every stop, every destroy, the network.  *)
(* An error leaves the rest undone; the instance may be taken down again,  *)
(* but stop() of a VM that the first attempt destroyed is an error.        *)

DownStopsFirst ==
  /\ phase \in {"up", "halfDown"} /\ phase' = "stop"
  /\ UNCHANGED <<order, vmOf, started, healthy, netId, apiDeleted, ups, dnsVars, netVars, ipVars>> /\ Keep

Down ==
  /\ phase \in {"up", "halfDown"}
  /\ LET gone == {dnsForward[s] : s \in started \cap DOMAIN dnsForward}
     IN  /\ dnsForward' = Restrict(dnsForward, DOMAIN dnsForward \ started)
         /\ dnsReverse' = Restrict(dnsReverse, DOMAIN dnsReverse \ gone)
  /\ phase' = "stop"
  /\ UNCHANGED <<order, vmOf, started, healthy, netId, apiDeleted, ups, netVars, ipVars>> /\ Keep

DownFails == phase' = "halfDown" /\ UNCHANGED <<vmOf, netId>>

StopServices ==
  /\ phase = "stop"
  /\ \/ \E s \in started : vmOf[s] = "running" /\ vmOf' = [vmOf EXCEPT ![s] = "stopped"]
                           /\ UNCHANGED <<phase, netId>>
     \/ (\E s \in started : vmOf[s] # "stopped") /\ DownFails
     \/ (\A s \in started : vmOf[s] = "stopped") /\ phase' = "destroy" /\ UNCHANGED <<vmOf, netId>>
  /\ UNCHANGED <<order, started, healthy, apiDeleted, ups, dnsVars, netVars, ipVars>> /\ Keep

DestroyServices ==
  /\ phase = "destroy"
  /\ \/ \E s \in started : vmOf[s] = "stopped" /\ vmOf' = [vmOf EXCEPT ![s] = "none"]
                           /\ UNCHANGED <<phase, netId>>
     \/ (\E s \in started : vmOf[s] = "stopped") /\ DownFails
     \/ (\A s \in started : vmOf[s] = "none") /\ phase' = "deleteNet" /\ UNCHANGED <<vmOf, netId>>
  /\ UNCHANGED <<order, started, healthy, apiDeleted, ups, dnsVars, netVars, ipVars>> /\ Keep

DeleteNetworks ==
  /\ phase = "deleteNet"
  /\ \/ /\ \E id \in netId : DeleteNetwork(id)
        /\ phase' = "idle" /\ netId' = {} /\ started' = {} /\ UNCHANGED vmOf
     \/ netId \cap DOMAIN nets = {} /\ DownFails /\ UNCHANGED <<started, netVars>>
  /\ UNCHANGED <<order, healthy, apiDeleted, ups, dnsVars, ipVars>> /\ Keep

(* delete_network of the REST API; destroy of a VM that is in no instance.  *)
ApiDeleteNetwork ==
  /\ ~apiDeleted /\ apiDeleted' = TRUE
  /\ ProjectNet \in DOMAIN nameIndex /\ DeleteNetwork(nameIndex[ProjectNet])
  /\ UNCHANGED <<phase, order, vmOf, started, healthy, netId, ups, dnsVars, ipVars>> /\ Keep

ApiDestroyVm ==
  /\ phase = "failed"
  /\ \E s \in Services :
       vmOf[s] # "none" /\ vmOf' = [vmOf EXCEPT ![s] = "none"] /\ Unregister(s)
  /\ UNCHANGED <<phase, order, started, healthy, netId, apiDeleted, ups, netVars, ipVars>>
  /\ Keep

ComposeNext ==
  \/ Up \/ CreateNetworks \/ SortServices \/ CreateVm \/ ConnectService
  \/ RegisterService \/ WaitForHealthy \/ Down \/ StopServices
  \/ DestroyServices \/ DeleteNetworks \/ ApiDeleteNetwork \/ ApiDestroyVm

ComposeSpec == ComposeInit /\ [][ComposeNext]_<<projectVars, switchVars>>

----------------------------------------------------------------------------
(* dependency_sort accepts exactly the projects whose dependencies are     *)
(* defined and acyclic, and then lists every service once, each after all  *)
(* it depends on.                                                          *)
SortCorrect ==
  LET acyclic == \E f \in [Services -> 1..Cardinality(Services)] :
                   \A s \in Services : \A d \in depends[s] : f[d] < f[s]
      pos(s) == CHOOSE i \in 1..Len(DependencySort) : DependencySort[i] = s
  IN  ValidNames =>
        /\ SortFails <=> ~acyclic
        /\ ~SortFails => /\ ToSet(DependencySort) = Services
                         /\ \A s \in Services : \A d \in depends[s] : pos(d) < pos(s)

(* An up() creates a service's VM only after it started everything the     *)
(* service depends on, and saw it healthy if the service waits for that;   *)
(* what an earlier up() left running does not count, and what this up()    *)
(* started still runs.                                                     *)
Created == started \union (IF phase \in {"connect", "register", "wait"} THEN {Svc} ELSE {})

DependenciesFirst ==
  phase \notin {"stop", "destroy", "deleteNet", "halfDown"} =>
    \A s \in Created :
      /\ vmOf[s] = "running"
      /\ \A d \in depends[s] : d \in started /\ (d \in awaited => d \in healthy)

(* No name of the project resolves once its VM was stopped or destroyed by *)
(* down(), also when down() broke off half way.                            *)
NoNameOfStopped ==
  \A s \in Services : (s \in started /\ vmOf[s] # "running") => Resolve(s) = {}

(* Two services never answer to one address, nor does one answer to the    *)
(* address under which a failed up() left another.                         *)
NamesDistinct ==
  ups > 0 => \A s, t \in Services : s # t => Resolve(s) \cap Resolve(t) = {}

(* When up() returns, every service answers a query under its own name --  *)
(* unless the pool of addresses, which down() never refills, is exhausted. *)
UpResolves ==
  phase = "up" =>
    \A s \in Services : Answer(TRUE, TRUE, TRUE, s, FALSE) = "NoError" \/ Exhausted

(* down() deletes the network only after the last VM on it is destroyed.   *)
NetworkOutlivesVms ==
  \A s \in started : (vmOf[s] # "none" /\ ~apiDeleted) => netId \subseteq DOMAIN nets /\ netId # {}

(* A second up() never joins a network it did not create: while the one an *)
(* earlier up() made is there, it starts nothing.                          *)
NetworkOwn ==
  \A s \in Created : netId # {} /\ (ProjectNet \in DOMAIN nameIndex => nameIndex[ProjectNet] \in netId)

(* A project is started and stopped in the order of its dependencies, any    *)
(* call failing: the sort is a topological one or finds the cycle, a service *)
(* starts after what it depends on and gets the address the allocator's scan *)
(* stops at, a finished up resolves every service, no name outlives its VM   *)
(* and no network goes before the VMs on it; an up that meets what an earlier *)
(* one left builds on none of it (orchestrator.rs up, down).                 *)
ProjectOrdered ==
  /\ SortCorrect /\ DependenciesFirst /\ ScanFinds /\ UpResolves /\ NamesDistinct
  /\ NoNameOfStopped /\ NetworkOutlivesVms /\ NetworkOwn
=============================================================================
