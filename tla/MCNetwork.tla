------------------------------ MODULE MCNetwork ------------------------------
(***************************************************************************)
(* Instance for TLC of the network layer: a behaviour exercises one of its *)
(* parts, the tables alone or under the compose orchestrator, the host's   *)
(* devices and rules, the published ports, or the ring that carries the    *)
(* packets of a worker process.                                            *)
(***************************************************************************)
EXTENDS HostNetwork, Compose, PortForward, SharedRing

CONSTANT Parts
VARIABLE part

GuestPopulations == {{"p1", "p2"}, {"g1", "g2"}}

(* Other programs edit FORWARD only beside the private guests, and only as *)
(* long as no command failed.                                              *)
QuietForward ==
  ForwardDisturbed => hosted = {"p1", "p2"} /\ faults = 0

Net(named, default) == [named |-> named, default |-> default]
PortPlans ==
  { [ports |-> <<80>>, servicePorts |-> <<>>, networks |-> <<Net(FALSE, TRUE)>>],
    [ports |-> <<80>>, servicePorts |-> <<9>>, networks |-> <<Net(TRUE, FALSE), Net(FALSE, TRUE)>>],
    [ports |-> <<81>>, servicePorts |-> <<8>>, networks |-> <<Net(TRUE, FALSE), Net(FALSE, FALSE)>>],
    [ports |-> <<>>, servicePorts |-> <<>>, networks |-> <<>>] }

(* The second publisher asks for the first one's port or for none. *)
SecondAsks == asks["w"].ports # <<81>> /\ Len(asks["w"].networks) < 2

(* Every project is sorted; these are also brought up: dependencies along  *)
(* or against the order of the names, a cycle, and one that is not defined. *)
BroughtUp ==
  \/ \A s \in Services : \A d \in depends[s] : d \in Services /\ d < s
  \/ \A s \in Services : \A d \in depends[s] : d \in Services /\ d > s
  \/ depends \in {[s \in Services |-> {Missing}], [s \in Services |-> Services]}

Init ==
  /\ part \in Parts
  /\ HostInit
  /\ part # "host" => hosted = {"p1", "p2"} /\ forward = <<>>
  /\ ComposeInit
  /\ part # "compose" => depends = [s \in Services |-> {}] /\ awaited = {}
  /\ PfInit /\ SecondAsks
  /\ RingInit
  /\ part # "ports" => platform = "linux" /\ \A v \in Publishers : asks[v].ports = <<>>

vars == <<part, hostVars, projectVars, switchVars, pfVars, ringVars>>

InRing == part = "ring" /\ UNCHANGED <<part, hostVars, projectVars, switchVars, pfVars>>

Next ==
  \/ /\ UNCHANGED <<part, ringVars>>
     /\ \/ part = "host" /\ HostNext /\ QuietForward /\ UNCHANGED <<projectVars, switchVars, pfVars>>
        \/ part = "dns" /\ DnsStep /\ UNCHANGED <<hostVars, composeVars, ipVars, pfVars>>
        \/ part = "networks" /\ NetworkStep /\ UNCHANGED <<hostVars, composeVars, ipVars, pfVars>>
        \/ part = "switch" /\ SwitchStep /\ UNCHANGED <<hostVars, composeVars, ipVars, pfVars>>
        \/ part = "addresses" /\ IpNext /\ UNCHANGED <<hostVars, composeVars, tableVars, pfVars>>
        \/ part = "compose" /\ BroughtUp /\ ComposeNext /\ UNCHANGED <<hostVars, pfVars>>
        \/ part = "ports" /\ PfNext /\ UNCHANGED <<hostVars, projectVars, switchVars>>
  \/ InRing /\ RingNext

(* The consumer of a ring polls; nothing else is promised to go on.        *)
Spec == Init /\ [][Next]_vars /\ WF_vars(InRing /\ Consume)
=============================================================================
