------------------------------ MODULE WarmPool ------------------------------
(***************************************************************************)
(* PoolManager (visor-runtime pool/manager.rs) over the backend: clients   *)
(* acquire, the API warms and drains, the refill loop tops up.  The lock   *)
(* of the pools is held only to pop, push, read the sizes or empty them;   *)
(* every backend call happens outside it.                                  *)
(***************************************************************************)
EXTENDS Integers, Sequences, Functions, FiniteSets

CONSTANTS Images, Configured,   \* Configured: keys of PoolConfig.image_configs
          PoolTarget,           \* target size, configured or default
          PoolIds,              \* the VMs the backend may create
          MaxTakes, MaxWarm, MaxDrains, MaxPoolFails

ASSUME PoolAssumption ==
  Configured \subseteq Images /\ PoolTarget \in [Images -> Nat] /\ MaxWarm \in Nat

VARIABLES pools,      \* image -> sequence of VMs, the newest last
          known,      \* images with an entry in the map
          vmIs,       \* VM -> what the backend says of it
          vmConf,     \* VM -> the configuration it was created from
          snaps,      \* configurations with a complete snapshot in the cache
          held,       \* VM a client was given -> the configuration it asked for
          warming,    \* the two callers of warm() -> the call in progress
          refillPlan, \* what refill_once still has to warm
          draining,   \* VMs a drain took out of the pools and has not stopped
          undrained,  \* VMs whose stop failed during a drain
          asked,      \* image -> VMs the API asked warm() for
          takes, drains, poolFails

poolVars == <<pools, known, vmIs, vmConf, snaps, held, warming, refillPlan,
              draining, undrained, asked, takes, drains, poolFails>>

Idle == [image |-> "none", left |-> 0]
Warmers == {"api", "refill"}
Kinds == {"default", "volumes"}
Fresh == {v \in PoolIds : vmIs[v] = "none"}
Pooled == UNION {Range(pools[i]) : i \in Images}

PoolInit ==
  /\ pools = [i \in Images |-> <<>>] /\ known = {}
  /\ vmIs = [v \in PoolIds |-> "none"] /\ vmConf = [v \in PoolIds |-> <<>>]
  /\ snaps = {} /\ held = <<>> /\ warming = [w \in Warmers |-> Idle] /\ refillPlan = {}
  /\ draining = {} /\ undrained = {} /\ asked = [i \in Images |-> 0]
  /\ takes = 0 /\ drains = 0 /\ poolFails = 0

----------------------------------------------------------------------------
(* The backend as the pool uses it: create() and create_from_snapshot()    *)
(* answer a new running VM or an error.                                    *)
BackendCreates(v, conf) ==
  /\ v = CHOOSE x \in Fresh : \A y \in Fresh : x <= y
  /\ vmIs' = [vmIs EXCEPT ![v] = "running"] /\ vmConf' = [vmConf EXCEPT ![v] = conf]
  /\ UNCHANGED poolFails

BackendFails ==
  /\ poolFails < MaxPoolFails /\ poolFails' = poolFails + 1
  /\ UNCHANGED <<vmIs, vmConf>>

VmConfigForImage(i) == <<i, "default">>

SupportsFastPath(conf) == conf[2] # "volumes"

Give(v, conf) == held' = [x \in DOMAIN held \union {v} |-> IF x = v THEN conf ELSE held[x]]

(* acquire_with_config(): the pool holds default VMs only, so it serves no *)
(* other request.                                                          *)
TakePooled(i, conf) ==
  /\ takes < MaxTakes /\ conf = VmConfigForImage(i) /\ pools[i] # <<>>
  /\ pools' = [pools EXCEPT ![i] = SubSeq(@, 1, Len(@) - 1)]
  /\ Give(pools[i][Len(pools[i])], conf)
  /\ takes' = takes + 1
  /\ UNCHANGED <<known, vmIs, vmConf, snaps, warming, refillPlan, draining, undrained, asked, drains, poolFails>>

NotPooled(i, conf) == conf # VmConfigForImage(i) \/ pools[i] = <<>>

(* From a snapshot when one is cached under the key of the configuration,  *)
(* from scratch otherwise.                                                 *)
FromSnapshot(conf) == SupportsFastPath(conf) /\ conf \in snaps

CreateOnDemand(i, conf) ==
  /\ takes < MaxTakes /\ NotPooled(i, conf)
  /\ \/ \E v \in Fresh : BackendCreates(v, conf) /\ Give(v, conf)
     \/ BackendFails /\ UNCHANGED held
  /\ \/ UNCHANGED snaps
     \/ ~FromSnapshot(conf) /\ SupportsFastPath(conf) /\ vmIs' # vmIs /\ snaps' = snaps \union {conf}
  /\ takes' = takes + 1
  /\ UNCHANGED <<pools, known, warming, refillPlan, draining, undrained, asked, drains>>

(* evict(): the directory of one key goes. *)
Evict(conf) ==
  /\ conf \in snaps /\ snaps' = snaps \ {conf}
  /\ UNCHANGED <<pools, known, vmIs, vmConf, held, warming, refillPlan, draining, undrained, asked, takes, drains, poolFails>>

----------------------------------------------------------------------------
(* warm(), called by POST /v1/pool/warm and by refill_once. *)
WarmRequest(i, count) ==
  /\ warming["api"] = Idle /\ (\A j \in Images : asked[j] = 0) /\ count <= MaxWarm
  /\ warming' = [warming EXCEPT !["api"] = [image |-> i, left |-> count]]
  /\ asked' = [asked EXCEPT ![i] = @ + count]
  /\ UNCHANGED <<pools, known, vmIs, vmConf, snaps, held, refillPlan, draining, undrained, takes, drains, poolFails>>

Push(i, v) == pools' = [pools EXCEPT ![i] = Append(@, v)] /\ known' = known \union {i}

Warmed(w) == warming' = [warming EXCEPT ![w] =
               IF @.left = 1 THEN Idle ELSE [image |-> @.image, left |-> @.left - 1]]

WarmOne(w) ==
  LET i == warming[w].image IN
  /\ warming[w] # Idle /\ Warmed(w)
  /\ \/ \E v \in Fresh : BackendCreates(v, VmConfigForImage(i)) /\ Push(i, v)
     \/ BackendFails /\ UNCHANGED <<pools, known>>
  /\ UNCHANGED <<snaps, held, refillPlan, draining, undrained, asked, takes, drains>>

(* refill_once(): reads every size under one lock, then warms what was     *)
(* missing, one image after the other.                                     *)
Missing == {<<i, PoolTarget[i] - Len(pools[i])>> :
              i \in {j \in Configured \union known : Len(pools[j]) < PoolTarget[j]}}

RefillRead ==
  /\ warming["refill"] = Idle /\ refillPlan = {} /\ Missing # {}
  /\ refillPlan' = Missing
  /\ UNCHANGED <<pools, known, vmIs, vmConf, snaps, held, warming, draining, undrained, asked, takes, drains, poolFails>>

RefillNext ==
  /\ warming["refill"] = Idle
  /\ \E p \in refillPlan :
       /\ refillPlan' = refillPlan \ {p}
       /\ warming' = [warming EXCEPT !["refill"] = [image |-> p[1], left |-> p[2]]]
  /\ UNCHANGED <<pools, known, vmIs, vmConf, snaps, held, draining, undrained, asked, takes, drains, poolFails>>

----------------------------------------------------------------------------
(* drain(): takes the VMs and the entries out under the lock, then stops   *)
(* the VMs one by one; an error is logged and the next one tried.          *)
DrainCopiesPools ==
  /\ drains < MaxDrains /\ draining = {} /\ Pooled # {}
  /\ draining' = Pooled /\ drains' = drains + 1
  /\ UNCHANGED <<pools, known, vmIs, vmConf, snaps, held, warming, refillPlan, undrained, asked, takes, poolFails>>

DrainTake ==
  /\ drains < MaxDrains /\ draining = {} /\ Pooled # {}
  /\ draining' = Pooled /\ pools' = [i \in Images |-> <<>>] /\ known' = {}
  /\ drains' = drains + 1
  /\ UNCHANGED <<vmIs, vmConf, snaps, held, warming, refillPlan, undrained, asked, takes, poolFails>>

DrainStop(v) ==
  /\ v \in draining /\ draining' = draining \ {v}
  /\ \/ vmIs[v] = "running" /\ vmIs' = [vmIs EXCEPT ![v] = "stopped"] /\ UNCHANGED <<undrained, poolFails>>
     \/ vmIs[v] # "running" /\ UNCHANGED <<vmIs, undrained, poolFails>>
     \/ /\ vmIs[v] = "running" /\ poolFails < MaxPoolFails /\ poolFails' = poolFails + 1
        /\ undrained' = undrained \union {v} /\ UNCHANGED vmIs
  /\ UNCHANGED <<pools, known, vmConf, snaps, held, warming, refillPlan, asked, takes, drains>>

(* A pooled guest ends by itself: the pool is not told. *)
PooledVmExits(v) ==
  /\ vmIs[v] = "running" /\ v \in Pooled /\ vmIs' = [vmIs EXCEPT ![v] = "stopped"]
  /\ UNCHANGED <<pools, known, vmConf, snaps, held, warming, refillPlan, draining, undrained, asked, takes, drains, poolFails>>

(* The refill loop ticks for ever, a call in progress is answered and a     *)
(* drain goes on; the backend does not refuse for ever (MaxPoolFails).      *)
PoolProgress ==
  \/ \E w \in Warmers : WarmOne(w)
  \/ RefillRead \/ RefillNext
  \/ \E v \in PoolIds : DrainStop(v)

PoolNext ==
  \/ \E i \in Images, k \in Kinds : TakePooled(i, <<i, k>>) \/ CreateOnDemand(i, <<i, k>>) \/ Evict(<<i, k>>)
  \/ \E i \in Images, n \in 1..MaxWarm : WarmRequest(i, n)
  \/ \E w \in Warmers : WarmOne(w)
  \/ RefillRead \/ RefillNext \/ DrainTake
  \/ \E v \in PoolIds : DrainStop(v) \/ PooledVmExits(v)

PoolSpec == PoolInit /\ [][PoolNext]_poolVars

----------------------------------------------------------------------------
(* acquire() hands a VM to one caller: a VM is in the pool once, and never *)
(* while a client has it or a drain is about to stop it.                   *)
HandedOnce ==
  /\ \A i \in Images : IsInjective(pools[i])
  /\ \A i, j \in Images : i # j => Range(pools[i]) \intersect Range(pools[j]) = {}
  /\ Pooled \intersect (DOMAIN held \union draining) = {}
  /\ DOMAIN held \intersect draining = {}

(* acquire_with_config() never answers a VM of another configuration.      *)
ConfigHonoured == \A v \in DOMAIN held : vmConf[v] = held[v]

(* However warm() and refill_once() interleave, the pool of an image grows *)
(* past its target only by what the API asked for.                         *)
PoolBounded == \A i \in Images : Len(pools[i]) <= PoolTarget[i] + asked[i]

(* Every running VM is somebody's: pooled, given to a client, or in the    *)
(* hands of a drain (its stop pending or failed).                          *)
NoVmForgotten ==
  \A v \in PoolIds : vmIs[v] = "running" => v \in Pooled \union DOMAIN held \union draining \union undrained

(* Once clients stop taking and drains stop, the refill loop brings every  *)
(* configured image to its target for good.                                *)
RefillSettles == <>[](\A i \in Configured : Len(pools[i]) >= PoolTarget[i])

(* A pooled VM goes to one client, with the configuration that client asked  *)
(* for; pools stay within their targets and no VM is forgotten.              *)
PoolSound ==
  HandedOnce /\ ConfigHonoured /\ PoolBounded /\ NoVmForgotten
=============================================================================
