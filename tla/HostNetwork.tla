----------------------------- MODULE HostNetwork -----------------------------
(***************************************************************************)
(* Host-side networking of one Linux host: the TAP device of every guest,  *)
(* the shared bridge of a named network, and the iptables rules around     *)
(* them (visor-vmm net/linux.rs, driven by vm/linux.rs).                   *)
(*                                                                         *)
(* Every guest has one attachment.  A guest of OnBridge joins the shared   *)
(* bridge; the others have a private TAP with NAT rules of their own.      *)
(* Boots and teardowns run on different threads and overlap freely: only   *)
(* the repair of the FORWARD chain is under a lock.  Every `ip` or         *)
(* `iptables` process is one step, and may fail (Fault).                   *)
(***************************************************************************)
EXTENDS Naturals, Sequences, FiniteSets, SequencesExt

CONSTANTS Guests,     \* the guests, each named like its TAP device
          OnBridge,   \* those attached to the shared bridge
          Populations,\* which sets of guests live on the host together
          MaxFaults,  \* bound: commands that fail
          MaxForward, \* bound: length of FORWARD up to which others insert
          Kinds       \* bound: the kinds of rules that are installed

ASSUME HostNetAssumption ==
  /\ OnBridge \subseteq Guests
  /\ Populations \subseteq SUBSET Guests
  /\ MaxFaults \in Nat /\ MaxForward \in Nat
  /\ "bridge" \notin Guests

VARIABLES hosted,    \* the guests of this host
          taps,      \* TAP devices that exist
          bridge,    \* "none", "bare" (no address yet) or "ready"
          members,   \* TAP devices enslaved to the bridge
          rules,     \* visor's rules in the order they were appended
          forward,   \* the FORWARD chain around visor's rules: hooks and others
          hpc,       \* where the boot or the teardown of each guest is
          todo,      \* rules a guest's thread has still to apply or remove
          applied,   \* LinuxNatHandle.applied_rules of each guest
          stuck,     \* rules whose removal failed and was only logged
          faults,    \* commands that failed so far
          lapped,    \* history: guests whose boot met a removal of the bridge
          ruler,     \* history: the guest alone with the bridge's rules, or "none"
          overlapped \* history: two threads were at work on the bridge at once

hostHistory == <<lapped, ruler, overlapped>>
hostVars == <<hosted, taps, bridge, members, rules, forward, hpc, todo, applied, stuck, faults,
              hostHistory>>

----------------------------------------------------------------------------
(* Rules, in the order the generators list them. *)

Rule(tag, kind) == [tag |-> tag, kind |-> kind]

PrivateRules(g) ==
  LET Modelled(r) == r.kind \in Kinds
  IN  SelectSeq(<< Rule(g, "masquerade"), Rule(g, "in"), Rule(g, "supernet"),
                   Rule(g, "established") >>, Modelled)

SharedRules ==
  LET Modelled(r) == r.kind \in Kinds
  IN  SelectSeq(<< Rule("bridge", "masquerade"), Rule("bridge", "local"), Rule("bridge", "drop"),
                   Rule("bridge", "out"), Rule("bridge", "established") >>, Modelled)

AllRules == ToSet(SharedRules) \union UNION {ToSet(PrivateRules(g)) : g \in Guests}

(* iptables -S, table nat before table filter, reduced to one comment. *)
ListTagged(tag) ==
  LET InNat(r) == r.tag = tag /\ r.kind = "masquerade"
      InFilter(r) == r.tag = tag /\ r.kind # "masquerade"
  IN  SelectSeq(rules, InNat) \o SelectSeq(rules, InFilter)

Present(r) == r \in ToSet(rules)
AppendRule(r) == rules' = Append(rules, r)
DeleteRule(r) == rules' = RemoveFirst(rules, r)

(* What `ip` tells about the bridge, and what makes its commands fail. *)
LinkExists == bridge # "none"
HasAddress == bridge = "ready"
HasMembers == members # {}
BringUpWorks == bridge # "none"
RouteLocalnetWorks == bridge # "none"

(* Rules are removed last first, whoever removes them. *)
RemovalOrderListed(rs) == rs
RemovalOrder(rs) == Reverse(rs)

(* docker_user_hook_repair_plan: one hook, first in FORWARD, or as many    *)
(* removals as there are hooks and one insertion at the head.              *)
IsHook(f) == f = "hook"
Normalised(f) == f # <<>> /\ Head(f) = "hook" /\ ~ \E i \in 2..Len(f) : f[i] = "hook"
RepairPlan(f) ==
  IF Normalised(f) THEN <<>>
  ELSE [i \in 1..Len(SelectSeq(f, IsHook)) |-> Rule("forward", "unhook")]
         \o << Rule("forward", "hook") >>

----------------------------------------------------------------------------
HostInit ==
  /\ hosted \in Populations
  /\ taps = {} /\ bridge = "none" /\ members = {} /\ rules = <<>>
  /\ forward \in { <<>>, <<"hook">> }
  /\ hpc = [g \in Guests |-> "off"]
  /\ todo = [g \in Guests |-> <<>>]
  /\ applied = [g \in Guests |-> <<>>]
  /\ stuck = {} /\ faults = 0
  /\ lapped = {} /\ ruler = "none" /\ overlapped = FALSE

Goto(g, where) == hpc' = [hpc EXCEPT ![g] = where]
Plan(g, rs) == todo' = [todo EXCEPT ![g] = rs]
Fault == faults < MaxFaults /\ faults' = faults + 1

Busy(g) == hpc[g] \notin {"off", "up"}

----------------------------------------------------------------------------
(* create_interface.  Once the TAP exists an error returns without a       *)
(* handle, so that nothing deletes the TAP.                                *)

CreateTap(g) ==
  /\ hpc[g] = "off" /\ g \notin taps
  /\ taps' = taps \union {g}
  /\ Goto(g, IF g \in OnBridge THEN "bridgeExists" ELSE "address")
  /\ UNCHANGED <<bridge, members, rules, forward, todo, applied, stuck, faults>>

InterfaceError(g) == Goto(g, "off") /\ UNCHANGED <<taps, bridge, members>>

BridgeExists(g) ==
  /\ hpc[g] = "bridgeExists"
  /\ Goto(g, IF LinkExists THEN "bridgeHasAddress" ELSE "bridgeAdd")
  /\ UNCHANGED <<taps, bridge, members, rules, forward, todo, applied, stuck, faults>>

BridgeAdd(g) ==
  /\ hpc[g] = "bridgeAdd"
  /\ \/ /\ bridge = "none" /\ bridge' = "bare" /\ Goto(g, "bridgeHasAddress")
        /\ UNCHANGED <<taps, members, faults>>
     \/ bridge # "none" /\ InterfaceError(g) /\ UNCHANGED faults
     \/ Fault /\ InterfaceError(g)
  /\ UNCHANGED <<rules, forward, todo, applied, stuck>>

BridgeHasAddress(g) ==
  /\ hpc[g] = "bridgeHasAddress"
  /\ Goto(g, IF HasAddress THEN "bridgeUp" ELSE "bridgeSetAddress")
  /\ UNCHANGED <<taps, bridge, members, rules, forward, todo, applied, stuck, faults>>

BridgeSetAddress(g) ==
  /\ hpc[g] = "bridgeSetAddress"
  /\ \/ /\ bridge = "bare" /\ bridge' = "ready" /\ Goto(g, "bridgeUp")
        /\ UNCHANGED <<taps, members, faults>>
     \/ bridge # "bare" /\ InterfaceError(g) /\ UNCHANGED faults
     \/ Fault /\ InterfaceError(g)
  /\ UNCHANGED <<rules, forward, todo, applied, stuck>>

(* bring_interface_up(bridge), then set_route_localnet. *)
BringBridgeUp(g) ==
  /\ hpc[g] = "bridgeUp"
  /\ \/ /\ BringUpWorks /\ RouteLocalnetWorks /\ Goto(g, "attach")
        /\ UNCHANGED <<taps, bridge, members, faults>>
     \/ ~LinkExists /\ InterfaceError(g) /\ UNCHANGED faults
     \/ Fault /\ InterfaceError(g)
  /\ UNCHANGED <<rules, forward, todo, applied, stuck>>

AttachToBridge(g) ==
  /\ hpc[g] = "attach"
  /\ \/ /\ LinkExists /\ members' = members \union {g} /\ Goto(g, "tapUp")
        /\ UNCHANGED <<taps, bridge, faults>>
     \/ ~LinkExists /\ InterfaceError(g) /\ UNCHANGED faults
     \/ Fault /\ InterfaceError(g)
  /\ UNCHANGED <<rules, forward, todo, applied, stuck>>

(* An error leaves the TAP enslaved. *)
BringTapUp(g) ==
  /\ hpc[g] = "tapUp"
  /\ \/ Goto(g, "chain") /\ UNCHANGED <<taps, bridge, members, faults>>
     \/ Fault /\ InterfaceError(g)
  /\ UNCHANGED <<rules, forward, todo, applied, stuck>>

ConfigurePrivateTap(g) ==
  /\ hpc[g] = "address"
  /\ \/ Goto(g, "chain") /\ UNCHANGED <<taps, bridge, members, faults>>
     \/ Fault /\ InterfaceError(g)
  /\ UNCHANGED <<rules, forward, todo, applied, stuck>>

----------------------------------------------------------------------------
(* ensure_docker_user_chain, under IPTABLES_SETUP_LOCK: lists FORWARD,     *)
(* then applies the plan.  When a command fails the caller drops the       *)
(* interface.                                                              *)
EnsureDockerUserChain(g) ==
  /\ hpc[g] = "chain" /\ \A h \in Guests : hpc[h] # "repair"
  /\ \/ Plan(g, RepairPlan(forward)) /\ Goto(g, "repair") /\ UNCHANGED faults
     \/ Fault /\ Goto(g, "dropTap") /\ UNCHANGED todo
  /\ UNCHANGED <<taps, bridge, members, rules, forward, applied, stuck>>

RepairStep(g) ==
  /\ hpc[g] = "repair"
  /\ \/ todo[g] = <<>> /\ Goto(g, "list") /\ UNCHANGED <<forward, todo, faults>>
     \/ /\ todo[g] # <<>> /\ Plan(g, Tail(todo[g]))
        /\ forward' = IF Head(todo[g]).kind = "hook" THEN <<"hook">> \o forward
                      ELSE RemoveFirst(forward, "hook")
        /\ UNCHANGED <<hpc, faults>>
     \/ Fault /\ Plan(g, <<>>) /\ Goto(g, "dropTap") /\ UNCHANGED forward
  /\ UNCHANGED <<taps, bridge, members, rules, applied, stuck>>

(* Another program edits FORWARD. *)
ForwardDisturbed ==
  /\ Len(forward) < MaxForward
  /\ \E f \in {"other", "hook"} : forward' = <<f>> \o forward
  /\ UNCHANGED <<taps, bridge, members, rules, hpc, todo, applied, stuck, faults>>

(* ensure_shared_bridge_nat lists what is there before it replaces it;     *)
(* setup_nat starts at once.  iptables prints its own argument order, so   *)
(* a listing that denotes the desired rules need not compare equal.        *)
ListRules(g) ==
  /\ hpc[g] = "list"
  /\ \/ g \notin OnBridge /\ Plan(g, PrivateRules(g)) /\ Goto(g, "install") /\ UNCHANGED faults
     \/ /\ g \in OnBridge /\ ListTagged("bridge") = SharedRules
        /\ Goto(g, "open") /\ UNCHANGED <<todo, faults>>
     \/ /\ g \in OnBridge /\ UNCHANGED faults
        /\ Plan(g, RemovalOrder(ListTagged("bridge"))) /\ Goto(g, "purge")
     \/ g \in OnBridge /\ Fault /\ Goto(g, "dropTap") /\ UNCHANGED todo
  /\ UNCHANGED <<taps, bridge, members, rules, forward, applied, stuck>>

PurgeRule(g) ==
  /\ hpc[g] = "purge"
  /\ \/ /\ todo[g] = <<>> /\ Plan(g, SharedRules) /\ Goto(g, "install")
        /\ UNCHANGED <<rules, faults>>
     \/ /\ todo[g] # <<>> /\ Present(Head(todo[g]))
        /\ DeleteRule(Head(todo[g]))
        /\ Plan(g, Tail(todo[g])) /\ UNCHANGED <<hpc, faults>>
     \/ /\ todo[g] # <<>>
        /\ (~Present(Head(todo[g])) /\ UNCHANGED faults) \/ Fault
        /\ Plan(g, <<>>) /\ Goto(g, "dropTap") /\ UNCHANGED rules
  /\ UNCHANGED <<taps, bridge, members, forward, applied, stuck>>

InstallRule(g) ==
  /\ hpc[g] = "install"
  /\ \/ /\ todo[g] = <<>> /\ Goto(g, "open")
        /\ UNCHANGED <<rules, todo, applied, faults>>
     \/ /\ todo[g] # <<>>
        /\ AppendRule(Head(todo[g])) /\ Plan(g, Tail(todo[g]))
        /\ applied' = IF g \in OnBridge THEN applied
                      ELSE [applied EXCEPT ![g] = Append(@, Head(todo[g]))]
        /\ UNCHANGED <<hpc, faults>>
     \/ /\ todo[g] # <<>> /\ Fault
        /\ Plan(g, <<>>) /\ Goto(g, IF g \in OnBridge THEN "dropTap" ELSE "unwind")
        /\ UNCHANGED <<rules, applied>>
  /\ UNCHANGED <<taps, bridge, members, forward, stuck>>

(* TapPacketIo::open and the irqfd: an error drops the NAT handle first. *)
OpenTap(g) ==
  /\ hpc[g] = "open"
  /\ \/ Goto(g, "up") /\ UNCHANGED faults
     \/ Fault /\ Goto(g, IF g \in OnBridge THEN "dropTap" ELSE "unwind")
  /\ UNCHANGED <<taps, bridge, members, rules, forward, todo, applied, stuck>>

(* Removal of the last rule a handle still holds; errors are ignored.      *)
RemoveLastApplied(g) ==
  LET r == Last(applied[g])
  IN  /\ applied[g] # <<>>
      /\ applied' = [applied EXCEPT ![g] = Front(@)]
      /\ \/ Present(r) /\ DeleteRule(r) /\ UNCHANGED <<stuck, faults>>
         \/ ~Present(r) /\ UNCHANGED <<rules, stuck, faults>>
         \/ Fault /\ stuck' = stuck \union {r} /\ UNCHANGED rules

Unwind(g) ==
  /\ hpc[g] = "unwind"
  /\ \/ RemoveLastApplied(g) /\ UNCHANGED hpc
     \/ applied[g] = <<>> /\ Goto(g, "dropTap") /\ UNCHANGED <<rules, applied, stuck, faults>>
  /\ UNCHANGED <<taps, bridge, members, forward, todo>>

----------------------------------------------------------------------------
(* Teardown: NetworkResources drops its interface, then its NAT handle.    *)

StopGuest(g) ==
  /\ hpc[g] = "up"
  /\ Goto(g, "dropTap")
  /\ UNCHANGED <<taps, bridge, members, rules, forward, todo, applied, stuck, faults>>

DeleteLink(g) == taps' = taps \ {g} /\ members' = members \ {g}

DropTap(g) ==
  /\ hpc[g] = "dropTap"
  /\ \/ DeleteLink(g) /\ UNCHANGED faults
     \/ Fault /\ UNCHANGED <<taps, members>>
  /\ Goto(g, IF g \in OnBridge THEN "bridgeInUse" ELSE "dropNat")
  /\ UNCHANGED <<bridge, rules, forward, todo, applied, stuck>>

DropNat(g) ==
  /\ hpc[g] = "dropNat"
  /\ \/ RemoveLastApplied(g) /\ UNCHANGED hpc
     \/ applied[g] = <<>> /\ Goto(g, "off") /\ UNCHANGED <<rules, applied, stuck, faults>>
  /\ UNCHANGED <<taps, bridge, members, forward, todo>>

(* cleanup_bridge_if_unused *)
BridgeInUse(g) ==
  /\ hpc[g] = "bridgeInUse"
  /\ \/ Goto(g, IF ~LinkExists \/ HasMembers THEN "off" ELSE "bridgeList") /\ UNCHANGED faults
     \/ Fault /\ Goto(g, "off")
  /\ UNCHANGED <<taps, bridge, members, rules, forward, todo, applied, stuck>>

CleanupList(g) ==
  /\ hpc[g] = "bridgeList"
  /\ \/ Plan(g, RemovalOrder(ListTagged("bridge"))) /\ Goto(g, "bridgePurge") /\ UNCHANGED faults
     \/ Fault /\ Goto(g, "off") /\ UNCHANGED todo
  /\ UNCHANGED <<taps, bridge, members, rules, forward, applied, stuck>>

CleanupPurge(g) ==
  /\ hpc[g] = "bridgePurge"
  /\ \/ /\ todo[g] = <<>> /\ Goto(g, "bridgeDelete") /\ UNCHANGED <<rules, todo, stuck, faults>>
     \/ /\ todo[g] # <<>> /\ Plan(g, Tail(todo[g])) /\ UNCHANGED hpc
        /\ \/ /\ rules' = IF Present(Head(todo[g])) THEN RemoveFirst(rules, Head(todo[g]))
                          ELSE rules
              /\ UNCHANGED <<stuck, faults>>
           \/ Fault /\ stuck' = stuck \union {Head(todo[g])} /\ UNCHANGED rules
  /\ UNCHANGED <<taps, bridge, members, forward, applied>>

BridgeDelete(g) ==
  /\ hpc[g] = "bridgeDelete"
  /\ \/ bridge' = "none" /\ members' = {} /\ UNCHANGED faults
     \/ Fault /\ UNCHANGED <<bridge, members>>
  /\ Goto(g, "off")
  /\ UNCHANGED <<taps, rules, forward, todo, applied, stuck>>

(* The daemon dies with its guests; the next one deletes every vsr* link   *)
(* and every rule with visor's comment before it boots a guest.  What a    *)
(* failing listing or deletion leaves is only logged.                      *)
CleanupLinks(failing) ==
  \/ ~failing /\ taps' = {} /\ bridge' = "none" /\ members' = {}
  \/ failing /\ UNCHANGED <<taps, bridge, members>>
  \/ failing /\ bridge' = "none" /\ members' = {} /\ \E t \in taps : taps' = {t}
  \/ failing /\ taps' = {} /\ members' = {} /\ UNCHANGED bridge

CleanupRules(failing) ==
  /\ \/ ~failing /\ rules' = <<>>
     \/ failing /\ UNCHANGED rules
     \/ failing /\ \E i \in 1..Len(rules) : rules' = << rules[i] >>
  /\ stuck' = ToSet(rules')

HostRestart ==
  /\ \E g \in Guests : hpc[g] # "off"
  /\ \/ CleanupLinks(FALSE) /\ CleanupRules(FALSE) /\ UNCHANGED faults
     \/ CleanupLinks(TRUE) /\ CleanupRules(FALSE) /\ Fault
     \/ CleanupLinks(FALSE) /\ CleanupRules(TRUE) /\ Fault
  /\ hpc' = [g \in Guests |-> "off"]
  /\ todo' = [g \in Guests |-> <<>>]
  /\ applied' = [g \in Guests |-> <<>>]
  /\ UNCHANGED forward

HostStep(g) ==
  \/ CreateTap(g) \/ BridgeExists(g) \/ BridgeAdd(g) \/ BridgeHasAddress(g)
  \/ BridgeSetAddress(g) \/ BringBridgeUp(g) \/ AttachToBridge(g) \/ BringTapUp(g)
  \/ ConfigurePrivateTap(g) \/ EnsureDockerUserChain(g) \/ RepairStep(g) \/ ListRules(g) \/ PurgeRule(g) \/ InstallRule(g)
  \/ OpenTap(g) \/ Unwind(g) \/ StopGuest(g) \/ DropTap(g) \/ DropNat(g)
  \/ BridgeInUse(g) \/ CleanupList(g) \/ CleanupPurge(g) \/ BridgeDelete(g)

(* History, kept beside the program's state: what the properties below     *)
(* need to know about overlapping threads.                                 *)
Booting == {"bridgeExists", "bridgeAdd", "bridgeHasAddress", "bridgeSetAddress", "bridgeUp",
            "attach", "tapUp", "chain", "repair", "list", "purge", "install", "open"}
Cleaning == {"bridgeList", "bridgePurge", "bridgeDelete"}
OnRules == {"list", "purge", "install", "bridgeList", "bridgePurge"}

Remember ==
  LET On(where) == {g \in OnBridge : hpc[g] \in where}
      OnNext(where) == {g \in OnBridge : hpc'[g] \in where}
  IN  /\ lapped' = {g \in OnNext(Booting) : OnNext(Cleaning) # {}}
                      \union (lapped \intersect OnNext(Booting \union {"up"}))
      /\ ruler' = IF \E g \in OnBridge : OnNext(OnRules) = {g} /\ (ruler = g \/ On(OnRules) = {})
                  THEN CHOOSE g \in OnBridge : OnNext(OnRules) = {g}
                  ELSE "none"
      /\ overlapped' = (overlapped \/ \E g, h \in OnBridge : g # h /\ Busy(g)' /\ Busy(h)')

HostNext ==
  /\ \/ (\E g \in hosted : HostStep(g)) /\ Remember
     \/ ForwardDisturbed /\ UNCHANGED hostHistory
     \/ HostRestart /\ lapped' = {} /\ ruler' = "none" /\ overlapped' = FALSE
  /\ UNCHANGED hosted

HostSpec == HostInit /\ [][HostNext]_hostVars
----------------------------------------------------------------------------
(* A guest that is up on the shared bridge is enslaved to a bridge that    *)
(* exists and has its address, whichever commands fail and however the     *)
(* boots and teardowns of other guests overlap: the bridge's removal       *)
(* checks for members first.  The exception is the window that check       *)
(* leaves: cleanup_bridge_if_unused looks, then lists, deletes the rules   *)
(* and the bridge without a lock, and a guest whose boot overlaps these    *)
(* commands may lose the bridge it joined.                                 *)
GuestConnected ==
  \A g \in OnBridge \ lapped : hpc[g] = "up" => bridge = "ready" /\ g \in members

(* A boot that has the bridge's rules to itself leaves exactly those of    *)
(* generate_shared_nat_rules, in order, whatever failed commands, races or *)
(* an earlier daemon left there.                                           *)
RulesReplaced ==
  \A g \in OnBridge : (ruler = g /\ hpc[g] \in OnRules /\ hpc'[g] = "open") =>
    ListTagged("bridge")' = SharedRules

(* They stay so while a guest is up, as long as no command fails and no    *)
(* two threads have been at work on the bridge at once: neither another    *)
(* guest's boot nor its teardown takes them away.                          *)
RulesKept ==
  (/\ faults = 0 /\ ~overlapped
   /\ \E g \in OnBridge : hpc[g] = "up"
   /\ \A g \in OnBridge : ~Busy(g)) =>
    ListTagged("bridge") = SharedRules

(* While a guest is up on the bridge, the rule that drops packets towards  *)
(* the other named networks stands before the rule that accepts the rest,  *)
(* even half way through a replacement of the rules and whichever command  *)
(* fails: removal in reverse order is what keeps it so.  Two boots that    *)
(* replace the rules at once can mix them; that case is excluded.          *)
DropPrecedesAccept ==
  (~overlapped /\ \E g \in OnBridge : hpc[g] = "up") =>
    \A i \in 1..Len(rules) : rules[i] = Rule("bridge", "out") =>
      \E j \in 1..(i - 1) : rules[j] = Rule("bridge", "drop")

(* The NAT rules of a private TAP are those its handle holds, in order,    *)
(* through setup, roll-back of a failed setup and teardown; only a rule    *)
(* whose own removal failed is left behind.                                *)
PrivateRulesOwned ==
  \A g \in Guests \ OnBridge :
    LET Owned(r) == r.tag = g /\ r \notin stuck
    IN  ToSet(SelectSeq(rules, Owned)) \subseteq ToSet(applied[g])

(* When every guest is off, no command failed and no two threads were at   *)
(* work on the bridge at once, nothing of visor is left on the host: no    *)
(* TAP, no bridge, no rule.                                                *)
HostClean ==
  (faults = 0 /\ ~overlapped /\ \A g \in Guests : hpc[g] = "off") =>
    taps = {} /\ bridge = "none" /\ members = {} /\ rules = <<>>

(* Once a guest has had FORWARD repaired, the chain jumps to DOCKER-USER,  *)
(* except while a later boot repairs it again or after a command failed:   *)
(* the lock keeps one repair's removals from taking another's hook.        *)
HookKept ==
  (/\ faults = 0 /\ \A g \in Guests : hpc[g] # "repair"
   /\ \E g \in Guests : hpc[g] \in {"list", "purge", "install", "open", "up"}) =>
    "hook" \in ToSet(forward)

HostFits ==
  /\ GuestConnected /\ RulesKept /\ DropPrecedesAccept
  /\ PrivateRulesOwned /\ HostClean /\ HookKept

(* The host's devices and rules fit the guests that exist, whatever command  *)
(* failed and whatever an earlier daemon left: a guest that is set up is     *)
(* connected, nothing accepts what an isolation rule drops, rules of private *)
(* guests have an owner, the last guest leaves nothing behind, and a boot    *)
(* alone with the bridge's rules puts them right.                            *)
HostSound ==
  [][RulesReplaced /\ HostFits']_hostVars
=============================================================================
