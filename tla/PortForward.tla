----------------------------- MODULE PortForward -----------------------------
(***************************************************************************)
(* Published ports: setup_port_forwards (visor-runtime backend.rs) and the *)
(* port-forward handles of net/linux.rs and net/macos.rs.  On Linux a      *)
(* mapping is several iptables rules of its own; on macOS it is the pf     *)
(* anchor of its host port, which every load replaces and every removal    *)
(* flushes.  VMs publish and withdraw on threads of their own.             *)
(***************************************************************************)
EXTENDS Naturals, Sequences, FiniteSets, SequencesExt

CONSTANTS Publishers,   \* VMs with ports
          Plans,        \* what each VM may ask for
          MaxPfFaults   \* bound: commands that fail

VARIABLES platform,    \* "linux" or "macos"
          asks,        \* VM -> [ports, servicePorts, networks] of its VmConfig
          table,       \* Linux: the bag of installed rules (iptables keeps duplicates)
          anchors,     \* macOS: host port -> the mapping its anchor holds
          ppc,         \* VM -> "off", "apply", "undo", "up", "drop"
          pending,     \* VM -> rules still to apply
          held,        \* VM -> applied_rules
          left,        \* the bag of rules whose removal failed
          failedCmds

pfVars == <<platform, asks, table, anchors, ppc, pending, held, left, failedCmds>>

----------------------------------------------------------------------------
(* The network whose address ports are forwarded to: the one with the      *)
(* default route, or else the first.                                       *)
ForwardNetwork(v) ==
  LET ns == asks[v].networks
      IsDefault(n) == n.default
      ds == SelectSeq(ns, IsDefault)
  IN  IF ds # <<>> THEN Head(ds) ELSE Head(ns)

Mapping(v, port, hostIp) == [vm |-> v, port |-> port, hostIp |-> hostIp]

(* build_port_forward_mappings: service ports on an unnamed network only.  *)
Mappings(v) ==
  LET external == [i \in 1..Len(asks[v].ports) |-> Mapping(v, asks[v].ports[i], FALSE)]
      service == [i \in 1..Len(asks[v].servicePorts) |-> Mapping(v, asks[v].servicePorts[i], TRUE)]
  IN  external \o (IF ForwardNetwork(v).named THEN <<>> ELSE service)

(* generate_port_forward_rules, generate_pf_rules *)
RuleKinds(m) == IF m.hostIp
                THEN <<"prerouting", "output", "loopback", "hairpin", "filter">>
                ELSE <<"prerouting", "output", "loopback", "filter">>

LinuxRules(m) == [i \in 1..Len(RuleKinds(m)) |-> [map |-> m, kind |-> RuleKinds(m)[i]]]
PfRules(m) == << [map |-> m, kind |-> "anchor"] >>

RulesFor(v) ==
  FlattenSeq([i \in 1..Len(Mappings(v)) |->
    IF platform = "linux" THEN LinuxRules(Mappings(v)[i]) ELSE PfRules(Mappings(v)[i])])

----------------------------------------------------------------------------
PfInit ==
  /\ platform \in {"linux", "macos"}
  /\ asks \in [Publishers -> Plans]
  /\ table = EmptyBag /\ anchors = << >> /\ left = EmptyBag
  /\ ppc = [v \in Publishers |-> "off"]
  /\ pending = [v \in Publishers |-> <<>>]
  /\ held = [v \in Publishers |-> <<>>]
  /\ failedCmds = 0

PfGoto(v, where) == ppc' = [ppc EXCEPT ![v] = where]
PfFault == failedCmds < MaxPfFaults /\ failedCmds' = failedCmds + 1

ApplyRule(r) ==
  IF platform = "linux" THEN table' = table (+) SetToBag({r}) /\ UNCHANGED anchors
  ELSE /\ anchors' = [p \in DOMAIN anchors \union {r.map.port} |->
                        IF p = r.map.port THEN r.map ELSE anchors[p]]
       /\ UNCHANGED table

(* iptables -D takes one rule away; pfctl -F empties the anchor. *)
RemoveRule(r) ==
  IF platform = "linux" THEN table' = table (-) SetToBag({r}) /\ UNCHANGED anchors
  ELSE /\ anchors' = [p \in DOMAIN anchors \ {r.map.port} |-> anchors[p]]
       /\ UNCHANGED table

(* setup_port_forwards with ports and a network; without ports there is    *)
(* nothing to do, without a network it is an error.                        *)
Publish(v) ==
  /\ ppc[v] = "off" /\ asks[v].ports \o asks[v].servicePorts # <<>> /\ asks[v].networks # <<>>
  /\ pending' = [pending EXCEPT ![v] = RulesFor(v)]
  /\ PfGoto(v, "apply")
  /\ UNCHANGED <<platform, asks, table, anchors, held, left, failedCmds>>

ApplyNext(v) ==
  /\ ppc[v] = "apply" /\ pending[v] # <<>>
  /\ \/ /\ ApplyRule(Head(pending[v]))
        /\ held' = [held EXCEPT ![v] = Append(@, Head(pending[v]))]
        /\ pending' = [pending EXCEPT ![v] = Tail(@)]
        /\ UNCHANGED <<ppc, failedCmds>>
     \/ /\ PfFault /\ PfGoto(v, "undo")
        /\ pending' = [pending EXCEPT ![v] = <<>>]
        /\ UNCHANGED <<table, anchors, held>>
  /\ UNCHANGED <<platform, asks, left>>

Published(v) ==
  /\ ppc[v] = "apply" /\ pending[v] = <<>> /\ PfGoto(v, "up")
  /\ UNCHANGED <<platform, asks, table, anchors, pending, held, left, failedCmds>>

UndoFirstMatching(v) ==
  /\ ppc[v] \in {"undo", "drop"}
  /\ \/ /\ held[v] # <<>>
        /\ LET same(r) == r.map.port = Last(held[v]).map.port /\ r.kind = Last(held[v]).kind
           IN  RemoveRule(IF platform = "linux" THEN CHOOSE r \in BagToSet(table) : same(r)
                          ELSE Last(held[v]))
        /\ held' = [held EXCEPT ![v] = Front(@)] /\ UNCHANGED ppc
     \/ held[v] = <<>> /\ PfGoto(v, "off") /\ UNCHANGED <<table, anchors, held>>
  /\ UNCHANGED <<platform, asks, pending, left, failedCmds>>

(* Roll-back of a failed setup, and teardown of a handle: in reverse.  A    *)
(* removal that fails is ignored or only reported, and the rule forgotten.  *)
UndoNext(v) ==
  /\ ppc[v] \in {"undo", "drop"}
  /\ \/ /\ held[v] # <<>>
        /\ \/ RemoveRule(Last(held[v])) /\ UNCHANGED <<left, failedCmds>>
           \/ /\ PfFault /\ left' = left (+) SetToBag({Last(held[v])})
              /\ UNCHANGED <<table, anchors>>
        /\ held' = [held EXCEPT ![v] = Front(@)] /\ UNCHANGED ppc
     \/ held[v] = <<>> /\ PfGoto(v, "off") /\ UNCHANGED <<table, anchors, held, left, failedCmds>>
  /\ UNCHANGED <<platform, asks, pending>>

Withdraw(v) ==
  /\ ppc[v] = "up" /\ PfGoto(v, "drop")
  /\ UNCHANGED <<platform, asks, table, anchors, pending, held, left, failedCmds>>

PfNext == \E v \in Publishers :
  Publish(v) \/ ApplyNext(v) \/ Published(v) \/ UndoNext(v) \/ Withdraw(v)

PfSpec == PfInit /\ [][PfNext]_pfVars

----------------------------------------------------------------------------
PortsOf(v) == ToSet(asks[v].ports \o asks[v].servicePorts)
PortConflict == \E v, w \in Publishers : v # w /\ PortsOf(v) \cap PortsOf(w) # {}

(* A VM that is up has every rule of every port it publishes, whatever     *)
(* other VMs set up, roll back or tear down meanwhile; on macOS only as    *)
(* long as no other VM asks for one of its host ports.                     *)
PortsServed ==
  \A v \in Publishers : ppc[v] = "up" =>
    IF platform = "linux" THEN ToSet(RulesFor(v)) \subseteq BagToSet(table)
    ELSE PortConflict \/ \A i \in 1..Len(Mappings(v)) :
           LET m == Mappings(v)[i] IN m.port \in DOMAIN anchors /\ anchors[m.port] = m

(* Every rule on the host is accounted for, one by one, also after a setup *)
(* that failed half way: the handle of its VM holds it, or its removal was *)
(* tried and failed.  Nothing retries such a removal.                      *)
HeldCopies(r) == Cardinality({i \in 1..Len(held[r.map.vm]) : held[r.map.vm][i] = r})

ForwardsAccounted ==
  /\ \A r \in BagToSet(table) : CopiesIn(r, table) = HeldCopies(r) + CopiesIn(r, left)
  /\ \A p \in DOMAIN anchors :
       LET r == [map |-> anchors[p], kind |-> "anchor"]
       IN  HeldCopies(r) > 0 \/ BagIn(r, left)

(* The rules on the host are those of the ports that are published: all of   *)
(* them, and no other except where the command that removes one failed       *)
(* (setup_port_forward and teardown, net/linux.rs and net/macos.rs).         *)
PortsExact ==
  PortsServed /\ ForwardsAccounted
=============================================================================
