--------------------------- MODULE ServicesProofs ---------------------------
(***************************************************************************)
(* The warm pool, the health loop and the lifecycles of a VM, for every    *)
(* set of images, VMs, targets and thresholds.  The pool's invariant says  *)
(* that a VM is in one place, and bounds what is pooled together with what *)
(* is still to be warmed.  The other two say which parts of the state go   *)
(* together.                                                               *)
(***************************************************************************)
EXTENDS WarmPool, WorkerProcess, SequenceTheorems, TLAPS

(* The leaves are first-order and go to Zenon; those that count cite the   *)
(* SMT solver.                                                            *)
USE ZenonT(60)

----------------------------------------------------------------------------
(* The warm pool. *)

Confs == {<<>>} \union (Images \X Kinds)

PoolType ==
  /\ pools \in [Images -> Seq(PoolIds)] /\ known \subseteq Images
  /\ vmIs \in [PoolIds -> {"none", "running", "stopped"}] /\ vmConf \in [PoolIds -> Confs]
  /\ DOMAIN held \subseteq PoolIds /\ draining \subseteq PoolIds /\ undrained \subseteq PoolIds
  /\ asked \in [Images -> Nat]

(* A call of warm() in progress still has a VM to make; what refill_once    *)
(* read is one entry an image, and none for the image it is warming.        *)
WarmType ==
  /\ warming \in [Warmers -> [image : Images \union {"none"}, left : Nat]]
  /\ \A w \in Warmers : warming[w] = Idle \/ (warming[w].image \in Images /\ warming[w].left > 0)
  /\ refillPlan \subseteq Images \X Nat
  /\ \A p \in refillPlan : p[2] > 0
  /\ \A p, q \in refillPlan : p[1] = q[1] => p = q
  /\ warming["refill"] # Idle => \A p \in refillPlan : p[1] # warming["refill"].image

(* Every place in a pool holds a VM of its own, of the image's default      *)
(* configuration, that no client and no drain has.                          *)
PlacesApart ==
  \A i, j \in Images : \A a \in 1..Len(pools[i]), b \in 1..Len(pools[j]) :
    pools[i][a] = pools[j][b] => i = j /\ a = b

PlacesSound ==
  \A i \in Images : \A a \in 1..Len(pools[i]) :
    /\ vmIs[pools[i][a]] # "none" /\ vmConf[pools[i][a]] = VmConfigForImage(i)
    /\ pools[i][a] \notin DOMAIN held /\ pools[i][a] \notin draining

HandsApart ==
  /\ DOMAIN held \intersect draining = {}
  /\ \A v \in DOMAIN held \union draining : vmIs[v] # "none"
  /\ \A v \in DOMAIN held : vmConf[v] = held[v]

InPlace(v) == \E i \in Images : \E a \in 1..Len(pools[i]) : pools[i][a] = v

RunningKept ==
  \A v \in PoolIds : vmIs[v] = "running" =>
    InPlace(v) \/ v \in DOMAIN held \/ v \in draining \/ v \in undrained

(* What an image's pool holds and the API's call will still add.            *)
ApiLeft(i) == IF warming["api"].image = i THEN warming["api"].left ELSE 0
Load(i) == Len(pools[i]) + ApiLeft(i)
Limit(i) == PoolTarget[i] + asked[i]

LoadBounded ==
  \A i \in Images :
    /\ ApiLeft(i) <= asked[i] /\ Load(i) <= Limit(i)
    /\ warming["refill"].image = i => Load(i) + warming["refill"].left <= Limit(i)
    /\ \A p \in refillPlan : p[1] = i => Load(i) + p[2] <= Limit(i)

PoolOwners == PlacesApart /\ PlacesSound /\ HandsApart /\ RunningKept
PoolInv == PoolType /\ WarmType /\ PoolOwners /\ LoadBounded

(* A pooled VM has a place in a pool. *)
LEMMA PooledPlaces == ASSUME PoolType PROVE \A v : v \in Pooled <=> InPlace(v)
  BY SMTT(60) DEF PoolType, Pooled, InPlace, Range

(* What the invariant says of places, hands and loads is PoolSound. *)
LEMMA PoolInvSound == PoolInv => PoolSound
<1> SUFFICES ASSUME PoolInv PROVE PoolSound
  OBVIOUS
<1>0. \A v : v \in Pooled <=> InPlace(v)
  BY PooledPlaces DEF PoolInv
<1>1. HandedOnce
  <2>1. \A i \in Images : DOMAIN pools[i] = 1..Len(pools[i])
    BY SMTT(60) DEF PoolInv, PoolType
  <2>2. \A i \in Images : IsInjective(pools[i])
    BY <2>1, SMTT(60) DEF PoolInv, PoolOwners, PlacesApart, IsInjective
  <2>3. \A i, j \in Images : i # j => Range(pools[i]) \intersect Range(pools[j]) = {}
    BY <2>1, SMTT(60) DEF PoolInv, PoolOwners, PlacesApart, Range
  <2>4. Pooled \intersect (DOMAIN held \union draining) = {}
    BY <1>0, SMTT(60) DEF PoolInv, PoolOwners, PlacesSound, InPlace
  <2> QED BY <2>2, <2>3, <2>4 DEF HandedOnce, PoolInv, PoolOwners, HandsApart
<1>2. ConfigHonoured
  BY DEF PoolInv, PoolOwners, HandsApart, ConfigHonoured
<1>3. PoolBounded
  <2> SUFFICES ASSUME NEW i \in Images PROVE Len(pools[i]) <= PoolTarget[i] + asked[i]
    BY DEF PoolBounded
  <2>1. Len(pools[i]) \in Nat /\ ApiLeft(i) \in Nat /\ Limit(i) \in Nat
    BY PoolAssumption, SMTT(60) DEF PoolInv, PoolType, WarmType, ApiLeft, Warmers, Limit
  <2> QED BY <2>1, SMTT(60) DEF PoolInv, LoadBounded, Load, Limit
<1>4. NoVmForgotten
  BY <1>0 DEF PoolInv, PoolOwners, RunningKept, NoVmForgotten
<1> QED BY <1>1, <1>2, <1>3, <1>4 DEF PoolSound

(* The pools start empty. *)
LEMMA PoolInitInv == PoolInit => PoolInv
<1> SUFFICES ASSUME PoolInit PROVE PoolInv
  OBVIOUS
<1>1. PoolType
  BY SMTT(60) DEF PoolInit, PoolType, Confs
<1>2. WarmType
  BY DEF PoolInit, WarmType, Warmers, Idle
<1>3. PoolOwners
  BY SMTT(60) DEF PoolInit, PoolOwners, PlacesApart, PlacesSound, HandsApart, RunningKept
<1>4. LoadBounded
  BY PoolAssumption, SMTT(60) DEF PoolInit, LoadBounded, Load, Limit, ApiLeft, Warmers, Idle
<1> QED BY <1>1, <1>2, <1>3, <1>4 DEF PoolInv

(* A step that touches no VM and no pool.                                   *)
LEMMA OwnersStay ==
  ASSUME PoolOwners, UNCHANGED <<pools, vmIs, vmConf, held, draining, undrained>>
  PROVE  PoolOwners'
<1>0. PlacesApart'
  BY SMTT(60) DEF PoolOwners, PlacesApart
<1>1. PlacesSound'
  BY DEF PoolOwners, PlacesSound, VmConfigForImage
<1>2. HandsApart'
  BY DEF PoolOwners, HandsApart
<1>3. RunningKept'
  BY DEF PoolOwners, RunningKept, InPlace
<1> QED BY <1>0, <1>1, <1>2, <1>3 DEF PoolOwners

(* The numbers LoadBounded compares are natural numbers.                    *)
LEMMA LoadNumbers ==
  ASSUME PoolType, WarmType, NEW i \in Images
  PROVE  /\ Len(pools[i]) \in Nat /\ ApiLeft(i) \in Nat /\ Load(i) \in Nat /\ Limit(i) \in Nat
         /\ warming["refill"].left \in Nat /\ asked[i] \in Nat /\ PoolTarget[i] \in Nat
         /\ \A p \in refillPlan : p[2] \in Nat
<1>1. Len(pools[i]) \in Nat
  BY SMTT(60) DEF PoolType
<1>2. ApiLeft(i) \in Nat /\ warming["refill"].left \in Nat
  BY DEF WarmType, ApiLeft, Warmers
<1>3. asked[i] \in Nat /\ PoolTarget[i] \in Nat
  BY PoolAssumption DEF PoolType
<1>4. \A p \in refillPlan : p[2] \in Nat
  BY DEF WarmType
<1> QED BY <1>1, <1>2, <1>3, <1>4, SMTT(60) DEF Load, Limit

(* What the bound on the pools says of one image, with the numbers in it.   *)
LEMMA LoadFacts ==
  ASSUME PoolType, WarmType, LoadBounded, NEW i \in Images
  PROVE  /\ ApiLeft(i) \in Nat /\ Load(i) \in Nat /\ Limit(i) \in Nat /\ asked[i] \in Nat
         /\ ApiLeft(i) <= asked[i] /\ Load(i) <= Limit(i)
         /\ warming["refill"].left \in Nat
         /\ warming["refill"].image = i => Load(i) + warming["refill"].left <= Limit(i)
         /\ \A p \in refillPlan : p[2] \in Nat /\ (p[1] = i => Load(i) + p[2] <= Limit(i))
  BY LoadNumbers DEF LoadBounded

(* A step that adds to no pool and to no call leaves the bounds as they are. *)
LEMMA LoadShrinks ==
  ASSUME PoolType, WarmType, LoadBounded, UNCHANGED <<warming, refillPlan, asked>>,
         \A i \in Images : Len(pools'[i]) \in Nat /\ Len(pools'[i]) <= Len(pools[i])
  PROVE  LoadBounded'
<1> SUFFICES ASSUME NEW i \in Images
             PROVE /\ ApiLeft(i)' <= asked'[i] /\ Load(i)' <= Limit(i)'
                   /\ warming'["refill"].image = i => Load(i)' + warming'["refill"].left <= Limit(i)'
                   /\ \A p \in refillPlan' : p[1] = i => Load(i)' + p[2] <= Limit(i)'
  BY DEF LoadBounded
<1>1. ApiLeft(i)' = ApiLeft(i) /\ Limit(i)' = Limit(i)
  BY DEF ApiLeft, Limit
<1>2. Load(i)' \in Nat /\ Load(i)' <= Load(i)
  BY <1>1, LoadNumbers, SMTT(60) DEF Load
<1>3. ApiLeft(i) <= asked[i] /\ Load(i)' <= Limit(i)
  BY <1>2, LoadFacts, SMTT(60)
<1>4. warming["refill"].image = i => Load(i)' + warming["refill"].left <= Limit(i)
  BY <1>2, LoadFacts, SMTT(60)
<1>5. \A p \in refillPlan : p[1] = i => Load(i)' + p[2] <= Limit(i)
  BY <1>2, LoadFacts, SMTT(60)
<1> QED BY <1>1, <1>3, <1>4, <1>5

(* What is left of a sequence when its last element is taken.               *)
LEMMA FrontFacts ==
  ASSUME NEW S, NEW s \in Seq(S), s # <<>>
  PROVE  /\ Len(s) \in Nat /\ Len(s) > 0 /\ s[Len(s)] \in S
         /\ SubSeq(s, 1, Len(s) - 1) \in Seq(S) /\ Len(SubSeq(s, 1, Len(s) - 1)) = Len(s) - 1
         /\ \A a \in 1..(Len(s) - 1) : SubSeq(s, 1, Len(s) - 1)[a] = s[a]
<1>1. Len(s) \in Nat /\ Len(s) > 0 /\ s[Len(s)] \in S
  BY EmptySeq, LenProperties, ElementOfSeq, SMTT(60)
<1>2. PICK n \in Nat : n = Len(s) - 1
  BY <1>1, SMTT(60)
<1>3. \A a \in 1..n : s[a] \in S
  BY <1>1, <1>2, ElementOfSeq, SMTT(60)
<1>4. /\ SubSeq(s, 1, n) \in Seq(S)
      /\ Len(SubSeq(s, 1, n)) = IF 1 <= n THEN n - 1 + 1 ELSE 0
      /\ \A a \in 1..(n - 1 + 1) : SubSeq(s, 1, n)[a] = s[1 + a - 1]
  BY <1>3, SubSeqProperties, SMTT(60)
<1>5. Len(SubSeq(s, 1, n)) = n
  BY <1>4, SMTT(60)
<1>6. \A a \in 1..n : a \in 1..(n - 1 + 1) /\ 1 + a - 1 = a
  BY SMTT(60)
<1>7. \A a \in 1..n : SubSeq(s, 1, n)[a] = s[a]
  BY <1>4, <1>6
<1> QED BY <1>1, <1>2, <1>4, <1>5, <1>7

(* acquire() takes the newest VM out of its place. *)
LEMMA TakeInv ==
  ASSUME PoolInv, NEW i \in Images, NEW k \in Kinds, TakePooled(i, <<i, k>>)
  PROVE  PoolInv'
<1> USE DEF PoolInv, PoolOwners
<1> DEFINE n == Len(pools[i])
           v == pools[i][n]
<1>1. pools[i] \in Seq(PoolIds) /\ n \in Nat /\ n > 0 /\ v \in PoolIds
  BY FrontFacts DEF PoolType, TakePooled
<1>2. pools'[i] \in Seq(PoolIds) /\ Len(pools'[i]) = n - 1 /\ \A a \in 1..(n - 1) : pools'[i][a] = pools[i][a]
  <2>1. pools'[i] = SubSeq(pools[i], 1, Len(pools[i]) - 1) /\ pools[i] # <<>>
    BY DEF TakePooled, PoolType
  <2> QED BY ONLY <2>1, <1>1, FrontFacts, ZenonT(60) DEF n
<1>3. \A j \in Images : j # i => pools'[j] = pools[j]
  BY DEF TakePooled, PoolType
<1>4. pools' \in [Images -> Seq(PoolIds)]
  BY <1>2, <1>3 DEF TakePooled, PoolType
<1>5. /\ DOMAIN held' = DOMAIN held \union {v} /\ held'[v] = VmConfigForImage(i)
      /\ \A x \in DOMAIN held : x # v => held'[x] = held[x]
  BY DEF TakePooled, Give
<1>6. UNCHANGED <<known, vmIs, vmConf, warming, refillPlan, draining, undrained, asked>>
  BY DEF TakePooled
<1> HIDE DEF n, v
<1>7. PoolType'
  BY <1>1, <1>4, <1>5, <1>6 DEF PoolType
<1>8. WarmType'
  BY <1>6 DEF WarmType
<1>9. \A j \in Images : Len(pools'[j]) \in Nat /\ Len(pools'[j]) <= Len(pools[j])
                        /\ \A a \in 1..Len(pools'[j]) : a \in 1..Len(pools[j]) /\ pools'[j][a] = pools[j][a]
  <2> SUFFICES ASSUME NEW j \in Images
               PROVE  Len(pools'[j]) \in Nat /\ Len(pools'[j]) <= Len(pools[j])
                      /\ \A a \in 1..Len(pools'[j]) : a \in 1..Len(pools[j]) /\ pools'[j][a] = pools[j][a]
    OBVIOUS
  <2>1. CASE j # i
    BY <2>1, <1>3, SMTT(60) DEF PoolType
  <2>2. CASE j = i
    BY <2>2, <1>1, <1>2, SMTT(60) DEF n
  <2> QED BY <2>1, <2>2
<1>10. PlacesApart'
  BY <1>9, SMTT(60) DEF PlacesApart
<1>11. n \in 1..Len(pools[i]) /\ pools[i][n] = v
  BY <1>1, SMTT(60) DEF n, v
<1>12. \A j \in Images : \A a \in 1..Len(pools'[j]) : pools'[j][a] # v
  <2> SUFFICES ASSUME NEW j \in Images, NEW a \in 1..Len(pools'[j]), pools'[j][a] = v PROVE FALSE
    OBVIOUS
  <2>1. j = i /\ a = n
    BY <1>9, <1>11, SMTT(60) DEF PlacesApart
  <2> QED BY <2>1, <1>1, <1>2, SMTT(60)
<1>13. PlacesSound'
  <2> SUFFICES ASSUME NEW j \in Images, NEW a \in 1..Len(pools'[j])
               PROVE  /\ vmIs'[pools'[j][a]] # "none" /\ vmConf'[pools'[j][a]] = VmConfigForImage(j)
                      /\ pools'[j][a] \notin DOMAIN held' /\ pools'[j][a] \notin draining'
    BY DEF PlacesSound, VmConfigForImage
  <2>1. a \in 1..Len(pools[j]) /\ pools'[j][a] = pools[j][a] /\ pools'[j][a] # v
    BY <1>9, <1>12
  <2> QED BY <2>1, <1>5, <1>6, SMTT(60) DEF PlacesSound
<1>14. vmIs[v] # "none" /\ vmConf[v] = VmConfigForImage(i) /\ v \notin draining
  BY <1>11 DEF PlacesSound
<1>15. HandsApart'
  BY <1>5, <1>6, <1>14 DEF HandsApart
<1>16. \A x : x # v /\ InPlace(x) => InPlace(x)'
  <2> SUFFICES ASSUME NEW x, x # v, NEW j \in Images, NEW a \in 1..Len(pools[j]), pools[j][a] = x
               PROVE  \E b \in 1..Len(pools'[j]) : pools'[j][b] = x
    BY DEF InPlace
  <2>1. CASE j # i
    BY <2>1, <1>3
  <2>2. CASE j = i
    <3>1. a # n
      BY <2>2, <1>11
    <3>2. a \in 1..(n - 1)
      BY <3>1, <2>2, <1>1, SMTT(60) DEF n
    <3> QED BY <3>2, <2>2, <1>2
  <2> QED BY <2>1, <2>2
<1>17. RunningKept'
  BY <1>5, <1>6, <1>16 DEF RunningKept
<1>18. LoadBounded'
  BY <1>6, <1>9, LoadShrinks
<1> QED BY <1>7, <1>8, <1>10, <1>13, <1>15, <1>17, <1>18

(* A step that leaves the pools and every VM in them alone.                 *)
LEMMA PlacesStay ==
  ASSUME PoolInv, UNCHANGED pools,
         \A v \in PoolIds : InPlace(v) => /\ vmIs'[v] # "none" /\ vmConf'[v] = vmConf[v]
                                         /\ v \notin DOMAIN held' /\ v \notin draining'
  PROVE  PlacesApart' /\ PlacesSound'
<1>1. PlacesApart'
  BY SMTT(60) DEF PoolInv, PoolOwners, PlacesApart
<1>2. \A i \in Images : \A a \in 1..Len(pools[i]) : pools[i][a] \in PoolIds /\ InPlace(pools[i][a])
  BY SMTT(60) DEF PoolInv, PoolType, InPlace
<1>3. PlacesSound'
  BY <1>2 DEF PoolInv, PoolOwners, PlacesSound, VmConfigForImage
<1> QED BY <1>1, <1>3

(* A VM the backend has just created was nobody's.                          *)
LEMMA FreshIsNew ==
  ASSUME PoolInv, NEW v \in Fresh
  PROVE  v \in PoolIds /\ vmIs[v] = "none" /\ ~InPlace(v) /\ v \notin DOMAIN held /\ v \notin draining
  BY DEF PoolInv, PoolOwners, PlacesSound, HandsApart, InPlace, Fresh

(* acquire() creates a VM for its client. *)
LEMMA CreateInv ==
  ASSUME PoolInv, NEW i \in Images, NEW k \in Kinds, CreateOnDemand(i, <<i, k>>)
  PROVE  PoolInv'
<1> DEFINE conf == <<i, k>>
<1>0. conf \in Confs
  BY DEF Confs
<1> HIDE DEF conf
<1>1. UNCHANGED <<pools, known, warming, refillPlan, draining, undrained, asked>>
  BY DEF CreateOnDemand
<1>2. WarmType' /\ LoadBounded'
  BY <1>1 DEF PoolInv, WarmType, LoadBounded, Load, Limit, ApiLeft
<1>3. CASE UNCHANGED <<vmIs, vmConf, held>>
  <2>1. PoolOwners'
    BY <1>1, <1>3, OwnersStay DEF PoolInv
  <2>2. PoolType'
    BY <1>1, <1>3 DEF PoolInv, PoolType
  <2> QED BY <1>2, <2>1, <2>2 DEF PoolInv
<1>4. ASSUME NEW v \in Fresh, BackendCreates(v, conf), Give(v, conf)
      PROVE  PoolInv'
  <2>1. v \in PoolIds /\ vmIs[v] = "none" /\ ~InPlace(v) /\ v \notin DOMAIN held /\ v \notin draining
    BY FreshIsNew
  <2>2. /\ vmIs' \in [PoolIds -> {"none", "running", "stopped"}] /\ vmConf' \in [PoolIds -> Confs]
        /\ vmIs'[v] = "running" /\ vmConf'[v] = conf
        /\ \A x \in PoolIds : x # v => vmIs'[x] = vmIs[x] /\ vmConf'[x] = vmConf[x]
    BY <1>0, <1>4, <2>1 DEF BackendCreates, PoolInv, PoolType
  <2>3. /\ DOMAIN held' = DOMAIN held \union {v} /\ held'[v] = conf
        /\ \A x \in DOMAIN held : x # v => held'[x] = held[x]
    BY <1>4 DEF Give
  <2>4. PoolType'
    BY <1>1, <2>1, <2>2, <2>3 DEF PoolInv, PoolType
  <2>5. \A x \in PoolIds : InPlace(x) => /\ vmIs[x] # "none" /\ x \notin DOMAIN held /\ x \notin draining
    BY DEF PoolInv, PoolOwners, PlacesSound, InPlace
  <2>6. PlacesApart' /\ PlacesSound'
    BY <1>1, <2>1, <2>2, <2>3, <2>5, PlacesStay
  <2>7. HandsApart'
    BY <1>1, <2>1, <2>2, <2>3 DEF PoolInv, PoolOwners, PoolType, HandsApart
  <2>8. RunningKept'
    BY <1>1, <2>1, <2>2, <2>3 DEF PoolInv, PoolOwners, RunningKept, InPlace
  <2> QED BY <1>2, <2>4, <2>6, <2>7, <2>8 DEF PoolInv, PoolOwners
<1> QED BY <1>3, <1>4 DEF CreateOnDemand, BackendFails, conf

(* The numbers of the API's call and of the plan.                           *)
LEMMA WarmRequestInv ==
  ASSUME PoolInv, NEW i \in Images, NEW n \in 1..MaxWarm, WarmRequest(i, n)
  PROVE  PoolInv'
<1> USE DEF PoolInv
<1>1. UNCHANGED <<pools, known, vmIs, vmConf, held, refillPlan, draining, undrained>> /\ warming["api"] = Idle
  BY DEF WarmRequest
<1>2. n \in Nat /\ n > 0
  BY PoolAssumption, SMTT(60)
<1>3. /\ warming'["api"] = [image |-> i, left |-> n] /\ warming'["refill"] = warming["refill"]
      /\ warming' \in [Warmers -> [image : Images \union {"none"}, left : Nat]]
  BY <1>2 DEF WarmRequest, WarmType, Warmers
<1>4. asked' \in [Images -> Nat] /\ asked'[i] = asked[i] + n /\ \A j \in Images : j # i => asked'[j] = asked[j]
  BY <1>2, SMTT(60) DEF WarmRequest, PoolType
<1>5. PoolType'
  BY <1>1, <1>4 DEF PoolType
<1>6. \A w \in Warmers : warming'[w] = Idle \/ (warming'[w].image \in Images /\ warming'[w].left > 0)
  BY <1>2, <1>3, SMTT(60) DEF WarmType, Warmers
<1>7. WarmType'
  BY <1>1, <1>3, <1>6 DEF WarmType
<1>8. PoolOwners'
  BY <1>1, OwnersStay
<1>9. \A j \in Images : ApiLeft(j) = 0
  BY <1>1, SMTT(60) DEF ApiLeft, Idle
<1>10. \A j \in Images : ApiLeft(j)' = IF j = i THEN n ELSE 0
  BY <1>3, SMTT(60) DEF ApiLeft
<1>11. LoadBounded'
  <2> SUFFICES ASSUME NEW j \in Images
               PROVE /\ ApiLeft(j)' <= asked'[j] /\ Load(j)' <= Limit(j)'
                     /\ warming'["refill"].image = j => Load(j)' + warming'["refill"].left <= Limit(j)'
                     /\ \A p \in refillPlan' : p[1] = j => Load(j)' + p[2] <= Limit(j)'
    BY DEF LoadBounded
  <2>1. PICK d \in Nat : Load(j)' = Load(j) + d /\ Limit(j)' = Limit(j) + d /\ ApiLeft(j)' = d /\ asked'[j] = asked[j] + d
    <3>1. PICK d \in Nat : d = IF j = i THEN n ELSE 0
      BY <1>2
    <3>2. ApiLeft(j)' = d /\ asked'[j] = asked[j] + d /\ asked[j] \in Nat
      <4>1. CASE j = i
        BY <4>1, <3>1, <1>4, <1>10 DEF PoolType
      <4>2. CASE j # i
        BY <4>2, <3>1, <1>4, <1>10, SMTT(60) DEF PoolType
      <4> QED BY <4>1, <4>2
    <3>3. Load(j)' = Len(pools[j]) + d /\ Load(j) = Len(pools[j]) + 0
      BY <3>2, <1>1, <1>9 DEF Load
    <3>4. Limit(j)' = PoolTarget[j] + (asked[j] + d) /\ Limit(j) = PoolTarget[j] + asked[j]
      BY <3>2 DEF Limit
    <3>5. Len(pools[j]) \in Nat /\ PoolTarget[j] \in Nat
      BY LoadNumbers
    <3> QED BY <3>2, <3>3, <3>4, <3>5, SMTT(60)
  <2>2. ApiLeft(j)' <= asked'[j] /\ Load(j)' <= Limit(j)'
    BY <2>1, LoadFacts, SMTT(60)
  <2>3. warming["refill"].image = j => Load(j)' + warming["refill"].left <= Limit(j)'
    BY <2>1, LoadFacts, SMTT(60)
  <2>4. \A p \in refillPlan : p[1] = j => Load(j)' + p[2] <= Limit(j)'
    BY <2>1, LoadFacts, SMTT(60)
  <2> QED BY <1>1, <1>3, <2>2, <2>3, <2>4
<1> QED BY <1>5, <1>7, <1>8, <1>11

(* The refill loop plans what is missing. *)
LEMMA RefillReadInv ==
  ASSUME PoolInv, RefillRead
  PROVE  PoolInv'
<1> USE DEF PoolInv
<1>1. UNCHANGED <<pools, known, vmIs, vmConf, held, warming, draining, undrained, asked>>
      /\ warming["refill"] = Idle /\ refillPlan' = Missing
  BY DEF RefillRead
<1>2. PoolType' /\ PoolOwners'
  BY <1>1, OwnersStay DEF PoolType
<1>3. \A p \in Missing : \E j \in Images : /\ p = <<j, PoolTarget[j] - Len(pools[j])>>
                                            /\ Len(pools[j]) < PoolTarget[j]
  BY PoolAssumption DEF Missing, PoolType
<1>4. \A p \in Missing : p[1] \in Images /\ p[2] \in Nat /\ p[2] > 0 /\ p = <<p[1], p[2]>>
                         /\ p[2] = PoolTarget[p[1]] - Len(pools[p[1]])
  BY <1>3, LoadNumbers, SMTT(60)
<1>5. WarmType'
  BY <1>1, <1>4, SMTT(60) DEF WarmType
<1>6. LoadBounded'
  <2> SUFFICES ASSUME NEW j \in Images
               PROVE \A p \in Missing : p[1] = j => Load(j) + p[2] <= Limit(j)
    BY <1>1 DEF LoadBounded, Load, Limit, ApiLeft
  <2> SUFFICES ASSUME NEW p \in Missing, p[1] = j
               PROVE Load(j) + p[2] <= Limit(j)
    OBVIOUS
  <2>1. p[2] = PoolTarget[j] - Len(pools[j])
    BY <1>4
  <2> QED BY <2>1, LoadNumbers, SMTT(60) DEF LoadBounded, Load, Limit
<1> QED BY <1>2, <1>5, <1>6

(* The refill loop begins with the next image of its plan. *)
LEMMA RefillNextInv ==
  ASSUME PoolInv, RefillNext
  PROVE  PoolInv'
<1> USE DEF PoolInv
<1>1. UNCHANGED <<pools, known, vmIs, vmConf, held, draining, undrained, asked>>
  BY DEF RefillNext
<1>2. PICK p \in refillPlan : /\ refillPlan' = refillPlan \ {p}
                              /\ warming' = [warming EXCEPT !["refill"] = [image |-> p[1], left |-> p[2]]]
  BY DEF RefillNext
<1>3. p[1] \in Images /\ p[2] \in Nat /\ p[2] > 0
  BY DEF WarmType
<1>4. /\ warming'["refill"] = [image |-> p[1], left |-> p[2]] /\ warming'["api"] = warming["api"]
      /\ warming' \in [Warmers -> [image : Images \union {"none"}, left : Nat]]
  BY <1>2, <1>3 DEF WarmType, Warmers
<1>5. PoolType' /\ PoolOwners'
  BY <1>1, OwnersStay DEF PoolType
<1>6. WarmType'
  <2>1. \A w \in Warmers : warming'[w] = Idle \/ (warming'[w].image \in Images /\ warming'[w].left > 0)
    BY <1>3, <1>4, SMTT(60) DEF WarmType, Warmers
  <2>2. \A q \in refillPlan' : q \in refillPlan /\ q # p
    BY <1>2
  <2> QED BY <1>2, <1>4, <2>1, <2>2, SMTT(60) DEF WarmType
<1>7. LoadBounded'
  BY <1>1, <1>2, <1>4, SMTT(60) DEF LoadBounded, Load, Limit, ApiLeft
<1> QED BY <1>5, <1>6, <1>7

(* Where warm() stands after one more VM, made or not.                      *)
LEMMA WarmedFacts ==
  ASSUME WarmType, NEW w \in Warmers, warming[w] # Idle, Warmed(w)
  PROVE  /\ warming[w].image \in Images /\ warming[w].left \in Nat \ {0}
         /\ warming' \in [Warmers -> [image : Images \union {"none"}, left : Nat]]
         /\ warming'[w] = Idle \/ (warming[w].left > 1 /\ warming'[w] = [image |-> warming[w].image, left |-> warming[w].left - 1])
         /\ \A u \in Warmers : u # w => warming'[u] = warming[u]
<1>1. warming[w] \in [image : Images \union {"none"}, left : Nat] /\ warming[w].image \in Images /\ warming[w].left \in Nat \ {0}
  BY SMTT(60) DEF WarmType
<1>2. /\ \A u \in Warmers : u # w => warming'[u] = warming[u]
      /\ warming' = [u \in Warmers |-> warming'[u]]
  BY DEF Warmed, WarmType
<1>3. warming[w].left = 1 => warming'[w] = Idle
  BY DEF Warmed, WarmType
<1>3a. warming[w].left # 1 => warming'[w] = [image |-> warming[w].image, left |-> warming[w].left - 1]
  BY DEF Warmed, WarmType
<1>3b. warming[w].left = 1 \/ warming[w].left > 1
  BY <1>1, SMTT(60)
<1>4. warming'[w] = Idle \/ (warming[w].left > 1 /\ warming'[w] = [image |-> warming[w].image, left |-> warming[w].left - 1])
  <2>1. CASE warming[w].left = 1
    BY <2>1, <1>3
  <2>2. CASE warming[w].left # 1
    BY <2>2, <1>3a, <1>3b
  <2> QED BY <2>1, <2>2
<1>5. warming'[w] \in [image : Images \union {"none"}, left : Nat]
  BY <1>1, <1>4, SMTT(60) DEF Idle
<1>6. \A u \in Warmers : warming'[u] \in [image : Images \union {"none"}, left : Nat]
  BY <1>2, <1>5 DEF WarmType
<1>7. warming' \in [Warmers -> [image : Images \union {"none"}, left : Nat]]
  BY <1>2, <1>6
<1> QED BY <1>1, <1>2, <1>4, <1>7

(* The bounds after a step of warm(): g is the VM it made, or none.          *)
LEMMA WarmedLoad ==
  ASSUME PoolType, WarmType, LoadBounded, NEW w \in Warmers, warming[w] # Idle, Warmed(w),
         UNCHANGED <<refillPlan, asked>>, NEW g \in {0, 1},
         Len(pools'[warming[w].image]) = Len(pools[warming[w].image]) + g,
         \A j \in Images : j # warming[w].image => Len(pools'[j]) = Len(pools[j])
  PROVE  WarmType' /\ LoadBounded'
<1>b. PICK i \in Images, l \in Nat \ {0} : warming[w].image = i /\ warming[w].left = l
  BY WarmedFacts
<1>1. /\ warming' \in [Warmers -> [image : Images \union {"none"}, left : Nat]]
      /\ warming'[w] = Idle \/ (l > 1 /\ warming'[w] = [image |-> i, left |-> l - 1])
      /\ \A u \in Warmers : u # w => warming'[u] = warming[u]
  BY <1>b, WarmedFacts
<1>a. Len(pools'[i]) = Len(pools[i]) + g /\ \A j \in Images : j # i => Len(pools'[j]) = Len(pools[j])
  BY <1>b
<1>2. \A u \in Warmers : warming'[u] = Idle \/ (warming'[u].image \in Images /\ warming'[u].left > 0)
  BY <1>1, SMTT(60) DEF WarmType
<1>3. WarmType'
  <2>1. warming'["refill"] # Idle => warming["refill"] # Idle /\ warming'["refill"].image = warming["refill"].image
    BY <1>1, <1>b, SMTT(60) DEF Warmers, Idle
  <2> QED BY <1>1, <1>2, <2>1 DEF WarmType
<1>4. \A j \in Images : Limit(j)' = Limit(j)
  BY DEF Limit
<1>5. CASE w = "api"
  <2>1. warming'["refill"] = warming["refill"]
    BY <1>1, <1>5 DEF Warmers
  <2>2. ApiLeft(i) = l /\ \A j \in Images : j # i => ApiLeft(j) = 0
    BY <1>5, <1>b DEF ApiLeft
  <2>3. ApiLeft(i)' \in Nat /\ ApiLeft(i)' <= l - 1 /\ \A j \in Images : j # i => ApiLeft(j)' = 0
    BY <1>1, <1>5, SMTT(60) DEF ApiLeft, Idle
  <2> SUFFICES ASSUME NEW j \in Images
               PROVE /\ ApiLeft(j)' <= asked[j] /\ Load(j)' <= Limit(j)
                     /\ warming["refill"].image = j => Load(j)' + warming["refill"].left <= Limit(j)
                     /\ \A p \in refillPlan : p[1] = j => Load(j)' + p[2] <= Limit(j)
    BY <1>3, <1>4, <2>1 DEF LoadBounded
  <2>4. Load(j)' \in Nat /\ Load(j)' <= Load(j) /\ ApiLeft(j)' \in Nat /\ ApiLeft(j)' <= ApiLeft(j)
    <3>0. Load(i)' = Len(pools'[i]) + ApiLeft(i)' /\ Load(i) = Len(pools[i]) + l /\ Len(pools[i]) \in Nat
      BY <2>2, LoadNumbers DEF Load
    <3>1. CASE j = i
      BY <3>0, <3>1, <1>a, <2>2, <2>3, SMTT(60)
    <3>2. CASE j # i
      BY <3>2, <1>1, <1>a, <2>2, <2>3, LoadNumbers, SMTT(60) DEF Load
    <3> QED BY <3>1, <3>2
  <2>5. ApiLeft(j)' <= asked[j] /\ Load(j)' <= Limit(j)
    BY <2>4, LoadFacts, SMTT(60)
  <2>6. warming["refill"].image = j => Load(j)' + warming["refill"].left <= Limit(j)
    BY <2>4, LoadFacts, SMTT(60)
  <2>7. \A p \in refillPlan : p[1] = j => Load(j)' + p[2] <= Limit(j)
    BY <2>4, LoadFacts, SMTT(60)
  <2> QED BY <2>5, <2>6, <2>7
<1>6. CASE w = "refill"
  <2>1. warming'["api"] = warming["api"] /\ \A j \in Images : ApiLeft(j)' = ApiLeft(j)
    BY <1>1, <1>6 DEF Warmers, ApiLeft
  <2>2. Load(i)' \in Nat /\ Load(i)' = Load(i) + g /\ \A j \in Images : j # i => Load(j)' = Load(j)
    <3>1. \A j \in Images : Load(j)' = Len(pools'[j]) + ApiLeft(j) /\ Load(j) = Len(pools[j]) + ApiLeft(j)
      BY <2>1 DEF Load
    <3>2. Len(pools[i]) \in Nat /\ ApiLeft(i) \in Nat
      BY LoadNumbers
    <3>3. Load(i)' \in Nat /\ Load(i)' = Load(i) + g
      BY <3>1, <3>2, <1>a, SMTT(60)
    <3>4. \A j \in Images : j # i => Load(j)' = Load(j)
      BY <3>1, <1>a
    <3> QED BY <3>3, <3>4
  <2>3. Load(i) + l <= Limit(i) /\ Load(i) \in Nat /\ Limit(i) \in Nat
    BY <1>1, <1>6, <1>b, LoadNumbers DEF LoadBounded
  <2>4. Load(i)' <= Limit(i) /\ Load(i)' + (l - 1) <= Limit(i)
    BY <1>1, <2>2, <2>3, SMTT(60)
  <2>5. \A p \in refillPlan : p[1] # i
    BY <1>6, <1>b DEF WarmType
  <2> SUFFICES ASSUME NEW j \in Images
               PROVE /\ ApiLeft(j)' <= asked[j] /\ Load(j)' <= Limit(j)
                     /\ warming'["refill"].image = j => Load(j)' + warming'["refill"].left <= Limit(j)
                     /\ \A p \in refillPlan : p[1] = j => Load(j)' + p[2] <= Limit(j)
    BY <1>3, <1>4 DEF LoadBounded
  <2>6. ApiLeft(j)' <= asked[j] /\ \A p \in refillPlan : p[1] = j => Load(j)' + p[2] <= Limit(j)
    BY <2>1, <2>2, <2>5 DEF LoadBounded
  <2>7. Load(j)' <= Limit(j) /\ Load(j)' \in Nat /\ Limit(j) \in Nat
    BY <2>2, <2>4, LoadNumbers DEF LoadBounded
  <2>8. warming'["refill"].image = j => Load(j)' + warming'["refill"].left <= Limit(j)
    <3>1. CASE warming'[w] = Idle
      BY <3>1, <1>6, <2>7, SMTT(60) DEF Idle
    <3>2. CASE warming'[w] = [image |-> i, left |-> l - 1]
      BY <3>2, <1>6, <2>4, SMTT(60)
    <3> QED BY <3>1, <3>2, <1>1
  <2> QED BY <2>6, <2>7, <2>8
<1> QED BY <1>5, <1>6 DEF Warmers

(* warm() pushes the VM it created. *)
LEMMA WarmOneInv ==
  ASSUME PoolInv, NEW w \in Warmers, WarmOne(w)
  PROVE  PoolInv'
<1>0. warming[w] # Idle /\ Warmed(w) /\ UNCHANGED <<held, refillPlan, draining, undrained, asked>>
  BY DEF WarmOne
<1>1. PICK i \in Images : warming[w].image = i
  BY <1>0, WarmedFacts DEF PoolInv
<1>2. CASE BackendFails /\ UNCHANGED <<pools, known>>
  <2>1. PoolOwners' /\ PoolType'
    BY <1>0, <1>2, OwnersStay DEF PoolInv, PoolType, BackendFails
  <2>2. Len(pools[i]) \in Nat
    BY SMTT(60) DEF PoolInv, PoolType
  <2>3. Len(pools'[warming[w].image]) = Len(pools[warming[w].image]) + 0
    BY <1>1, <1>2, <2>2, SMTT(60)
  <2>4. WarmType' /\ LoadBounded'
    BY <1>0, <1>2, <2>3, WarmedLoad DEF PoolInv
  <2> QED BY <2>1, <2>4 DEF PoolInv
<1>3. ASSUME NEW v \in Fresh, BackendCreates(v, VmConfigForImage(i)), Push(i, v)
      PROVE  PoolInv'
  <2>1. v \in PoolIds /\ vmIs[v] = "none" /\ ~InPlace(v) /\ v \notin DOMAIN held /\ v \notin draining
    BY FreshIsNew
  <2>2. PICK n \in Nat : n = Len(pools[i])
    BY SMTT(60) DEF PoolInv, PoolType
  <2>3. /\ pools'[i] = Append(pools[i], v) /\ \A j \in Images : j # i => pools'[j] = pools[j]
        /\ pools' \in [Images -> Seq(PoolIds)] /\ known' \subseteq Images
    BY <1>3, <2>1, SMTT(60) DEF PoolInv, PoolType, Push
  <2>4. /\ Len(pools'[i]) = n + 1 /\ pools'[i][n + 1] = v
        /\ \A a \in 1..n : pools'[i][a] = pools[i][a]
    BY <2>1, <2>2, <2>3, SMTT(60) DEF PoolInv, PoolType
  <2>5. VmConfigForImage(i) \in Confs
    BY DEF VmConfigForImage, Confs, Kinds
  <2>6. /\ vmIs' \in [PoolIds -> {"none", "running", "stopped"}] /\ vmConf' \in [PoolIds -> Confs]
        /\ vmIs'[v] = "running" /\ vmConf'[v] = VmConfigForImage(i)
        /\ \A x \in PoolIds : x # v => vmIs'[x] = vmIs[x] /\ vmConf'[x] = vmConf[x]
    BY <1>3, <2>1, <2>5 DEF BackendCreates, PoolInv, PoolType
  <2>7. PoolType'
    BY <1>0, <2>3, <2>6 DEF PoolInv, PoolType
  <2>8. /\ Len(pools'[warming[w].image]) = Len(pools[warming[w].image]) + 1
        /\ \A j \in Images : j # warming[w].image => Len(pools'[j]) = Len(pools[j])
    BY <1>1, <2>2, <2>3, <2>4
  <2>9. WarmType' /\ LoadBounded'
    BY <1>0, <2>8, WarmedLoad DEF PoolInv
  <2>10. \A j \in Images : \A a \in 1..Len(pools'[j]) :
           \/ j = i /\ a = n + 1 /\ pools'[j][a] = v
           \/ a \in 1..Len(pools[j]) /\ pools'[j][a] = pools[j][a]
    <3> SUFFICES ASSUME NEW j \in Images, NEW a \in 1..Len(pools'[j])
                 PROVE  \/ j = i /\ a = n + 1 /\ pools'[j][a] = v
                        \/ a \in 1..Len(pools[j]) /\ pools'[j][a] = pools[j][a]
      OBVIOUS
    <3>1. CASE j # i
      BY <3>1, <2>3
    <3>2. CASE j = i
      <4>1. a = n + 1 \/ a \in 1..n
        BY <3>2, <2>4, SMTT(60)
      <4> QED BY <4>1, <3>2, <2>2, <2>4
    <3> QED BY <3>1, <3>2
  <2>11. \A j \in Images : \A a \in 1..Len(pools[j]) : pools[j][a] # v /\ pools[j][a] \in PoolIds
    BY <2>1, SMTT(60) DEF InPlace, PoolInv, PoolType
  <2>12. PlacesApart'
    <3> SUFFICES ASSUME NEW j \in Images, NEW h \in Images, NEW a \in 1..Len(pools'[j]), NEW b \in 1..Len(pools'[h]),
                        pools'[j][a] = pools'[h][b]
                 PROVE  j = h /\ a = b
      BY DEF PlacesApart
    <3>1. CASE pools'[j][a] = v
      BY <3>1, <2>10, <2>11
    <3>2. CASE pools'[j][a] # v
      BY <3>2, <2>10, SMTT(60) DEF PoolInv, PoolOwners, PlacesApart
    <3> QED BY <3>1, <3>2
  <2>13. PlacesSound'
    <3> SUFFICES ASSUME NEW j \in Images, NEW a \in 1..Len(pools'[j])
                 PROVE  /\ vmIs'[pools'[j][a]] # "none" /\ vmConf'[pools'[j][a]] = VmConfigForImage(j)
                        /\ pools'[j][a] \notin DOMAIN held' /\ pools'[j][a] \notin draining'
      BY DEF PlacesSound, VmConfigForImage
    <3>1. CASE j = i /\ pools'[j][a] = v
      BY <3>1, <1>0, <2>1, <2>6
    <3>2. CASE a \in 1..Len(pools[j]) /\ pools'[j][a] = pools[j][a]
      BY <3>2, <1>0, <2>6, <2>11 DEF PoolInv, PoolOwners, PlacesSound
    <3> QED BY <3>1, <3>2, <2>10
  <2>14. HandsApart'
    BY <1>0, <2>1, <2>6 DEF PoolInv, PoolOwners, PoolType, HandsApart
  <2>15. \A x : InPlace(x) => InPlace(x)'
    <3> SUFFICES ASSUME NEW x, NEW j \in Images, NEW a \in 1..Len(pools[j]), pools[j][a] = x
                 PROVE  \E b \in 1..Len(pools'[j]) : pools'[j][b] = x
      BY DEF InPlace
    <3>1. CASE j # i
      BY <3>1, <2>3
    <3>2. CASE j = i
      <4>1. a \in 1..n /\ a \in 1..(n + 1)
        BY <3>2, <2>2, SMTT(60)
      <4> QED BY <4>1, <3>2, <2>4
    <3> QED BY <3>1, <3>2
  <2>16. InPlace(v)'
    <3>1. n + 1 \in 1..(n + 1)
      BY SMTT(60)
    <3> QED BY <3>1, <2>4 DEF InPlace
  <2>17. RunningKept'
    BY <1>0, <2>6, <2>15, <2>16 DEF PoolInv, PoolOwners, RunningKept
  <2> QED BY <2>7, <2>9, <2>12, <2>13, <2>14, <2>17 DEF PoolInv, PoolOwners
<1> QED BY <1>1, <1>2, <1>3 DEF WarmOne

(* drain() takes all pools at once. *)
LEMMA DrainTakeInv ==
  ASSUME PoolInv, DrainTake
  PROVE  PoolInv'
<1> USE DEF PoolInv
<1>1. /\ UNCHANGED <<vmIs, vmConf, held, warming, refillPlan, undrained, asked>>
      /\ draining = {} /\ draining' = Pooled /\ pools' = [i \in Images |-> <<>>] /\ known' = {}
  BY DEF DrainTake
<1>2. \A v : v \in Pooled <=> InPlace(v)
  BY PooledPlaces
<1>3. \A v : InPlace(v) => v \in PoolIds /\ vmIs[v] # "none" /\ v \notin DOMAIN held
  BY SMTT(60) DEF InPlace, PoolType, PoolOwners, PlacesSound
<1>4. PoolType'
  BY <1>1, <1>2, <1>3, SMTT(60) DEF PoolType
<1>5. WarmType'
  BY <1>1 DEF WarmType
<1>6. \A i \in Images : Len(pools'[i]) = 0
  BY <1>1
<1>7. PlacesApart' /\ PlacesSound'
  BY <1>6, SMTT(60) DEF PlacesApart, PlacesSound
<1>8. HandsApart' /\ RunningKept'
  BY <1>1, <1>2, <1>3 DEF PoolOwners, HandsApart, RunningKept
<1>9. \A i \in Images : Len(pools'[i]) \in Nat /\ Len(pools'[i]) <= Len(pools[i])
  BY <1>6, LoadNumbers, SMTT(60)
<1>10. LoadBounded'
  BY <1>1, <1>9, LoadShrinks
<1> QED BY <1>4, <1>5, <1>7, <1>8, <1>10 DEF PoolOwners

(* A VM stops or exits in its place. *)
LEMMA StoppedInv ==
  ASSUME PoolInv, NEW v \in PoolIds, DrainStop(v) \/ PooledVmExits(v)
  PROVE  PoolInv'
<1>1. UNCHANGED <<pools, known, vmConf, held, warming, refillPlan, asked>>
  BY DEF DrainStop, PooledVmExits
<1>2. /\ draining' \subseteq draining /\ undrained \subseteq undrained' /\ undrained' \subseteq PoolIds
      /\ \/ UNCHANGED vmIs
         \/ vmIs[v] = "running" /\ vmIs' = [vmIs EXCEPT ![v] = "stopped"]
  BY DEF DrainStop, PooledVmExits, PoolInv, PoolType
<1>3. /\ vmIs' \in [PoolIds -> {"none", "running", "stopped"}]
      /\ \A x \in PoolIds : vmIs[x] # "none" => vmIs'[x] # "none"
      /\ \A x \in PoolIds : vmIs'[x] = "running" => vmIs[x] = "running"
  BY <1>2 DEF PoolInv, PoolType
<1>4. PoolType'
  BY <1>1, <1>2, <1>3 DEF PoolInv, PoolType
<1>5. WarmType' /\ LoadBounded'
  BY <1>1 DEF PoolInv, WarmType, LoadBounded, Load, Limit, ApiLeft
<1>6. \A x \in PoolIds : InPlace(x) => vmIs[x] # "none" /\ x \notin DOMAIN held /\ x \notin draining
  BY DEF PoolInv, PoolOwners, PlacesSound, InPlace
<1>7. PlacesApart' /\ PlacesSound'
  BY <1>1, <1>2, <1>3, <1>6, PlacesStay
<1>8. HandsApart'
  BY <1>1, <1>2, <1>3 DEF PoolInv, PoolOwners, PoolType, HandsApart
<1>9. \A x \in draining : vmIs'[x] = "running" => x \in draining' \union undrained'
  BY DEF DrainStop, PooledVmExits, PoolInv, PoolType
<1>10. RunningKept'
  BY <1>1, <1>2, <1>3, <1>9 DEF PoolInv, PoolOwners, RunningKept, InPlace
<1> QED BY <1>4, <1>5, <1>7, <1>8, <1>10 DEF PoolInv, PoolOwners

(* However acquire(), warm(), the refill loop and drain() interleave, a     *)
(* pooled VM goes to one client and in the configuration asked for, a pool  *)
(* passes its target only by what the API asked, and no running VM is lost. *)
THEOREM PoolIsSound == PoolSpec => []PoolSound
<1>1. PoolInv /\ [PoolNext]_poolVars => PoolInv'
  <2> SUFFICES ASSUME PoolInv, [PoolNext]_poolVars PROVE PoolInv'
    OBVIOUS
  <2>1. ASSUME NEW i \in Images, NEW k \in Kinds, Evict(<<i, k>>) PROVE PoolInv'
    BY <2>1, OwnersStay DEF Evict, PoolInv, PoolType, WarmType, LoadBounded, Load, Limit, ApiLeft
  <2>2. CASE UNCHANGED poolVars
    BY <2>2, OwnersStay DEF poolVars, PoolInv, PoolType, WarmType, LoadBounded, Load, Limit, ApiLeft
  <2> QED
    BY <2>1, <2>2, TakeInv, CreateInv, WarmRequestInv, WarmOneInv, RefillReadInv, RefillNextInv,
       DrainTakeInv, StoppedInv DEF PoolNext
<1> QED BY <1>1, PoolInitInv, PoolInvSound, PTL DEF PoolSpec

----------------------------------------------------------------------------
(* HealthCheckLoop: the entries are counts with a mark, of VMs the backend  *)
(* knows, and the marks agree with the counts and the announcements.        *)
HealthState == [failures : Nat, notified : BOOLEAN]

HealthInv ==
  /\ DOMAIN hstates \subseteq HealthVms /\ sweep \subseteq HealthVms
  /\ \A v \in DOMAIN hstates : hstates[v] \in HealthState
  /\ alarm \in [HealthVms -> {"unknown", "unhealthy", "recovered"}]
  /\ AlarmMatches

(* No VM has an entry at the start. *)
LEMMA HealthInitInv == HealthInit => HealthInv
<1> SUFFICES ASSUME HealthInit PROVE HealthInv
  OBVIOUS
<1>1. DOMAIN hstates = {} /\ sweep = {} /\ alarm = [v \in HealthVms |-> "unknown"]
  BY SMTT(60) DEF HealthInit
<1> QED BY <1>1 DEF HealthInv, AlarmMatches

(* A check of v that writes an entry whose mark agrees with its count and   *)
(* with what the listeners believe keeps the invariant.                     *)
LEMMA SetEntryKeeps ==
  ASSUME HealthInv, NEW v \in HealthVms, NEW m \in Nat, NEW c \in BOOLEAN,
         SetEntry(v, [failures |-> m, notified |-> c]), sweep' \subseteq HealthVms,
         NEW a \in {"unknown", "unhealthy", "recovered"},
         alarm' = [alarm EXCEPT ![v] = a] \/ (alarm' = alarm /\ a = alarm[v]),
         c => a = "unhealthy" /\ m >= Threshold, ~c => m < Threshold
  PROVE  /\ HealthInv'
         /\ DOMAIN hstates' = DOMAIN hstates \union {v}
         /\ \A u \in DOMAIN hstates : u # v => hstates'[u] = hstates[u]
         /\ hstates'[v].notified = c
<1>1. /\ DOMAIN hstates' = DOMAIN hstates \union {v}
      /\ \A u \in DOMAIN hstates : u # v => hstates'[u] = hstates[u]
  BY DEF SetEntry
<1>2. hstates'[v] = [failures |-> m, notified |-> c]
  BY DEF SetEntry
<1>3. hstates'[v].failures = m /\ hstates'[v].notified = c
  BY <1>2, SMTT(60)
<1>4. hstates'[v] \in HealthState
  BY <1>2, SMTT(60) DEF HealthState
<1>5. /\ alarm' \in [HealthVms -> {"unknown", "unhealthy", "recovered"}]
      /\ alarm'[v] = a /\ \A u \in HealthVms : u # v => alarm'[u] = alarm[u]
  BY DEF HealthInv
<1>6. AlarmMatches'
  BY <1>1, <1>3, <1>5 DEF AlarmMatches, HealthInv
<1>7. \A u \in DOMAIN hstates' : hstates'[u] \in HealthState
  BY <1>1, <1>4 DEF HealthInv
<1> QED BY <1>1, <1>3, <1>5, <1>6, <1>7 DEF HealthInv

(* What one check writes, and what it announces.                            *)
LEMMA CheckVmStep ==
  ASSUME HealthInv, NEW v \in HealthVms, CheckVm(v)
  PROVE  /\ HealthInv'
         /\ DOMAIN hstates' = DOMAIN hstates \union {v}
         /\ \A u \in DOMAIN hstates : u # v => hstates'[u] = hstates[u]
         /\ \A u \in HealthVms : alarm'[u] = "recovered" /\ alarm[u] # "recovered" => alarm[u] = "unhealthy"
         /\ v \in DOMAIN hstates /\ hstates[v].notified /\ v \notin responsive => hstates'[v].notified
<1>1. PICK n \in Nat, b \in BOOLEAN :
         /\ Entry(v) = [failures |-> n, notified |-> b]
         /\ b => alarm[v] = "unhealthy" /\ n >= Threshold
         /\ ~b => n < Threshold
         /\ v \in DOMAIN hstates => hstates[v] = [failures |-> n, notified |-> b]
  <2>1. CASE v \in DOMAIN hstates
    <3>1. hstates[v].failures \in Nat /\ hstates[v].notified \in BOOLEAN
          /\ hstates[v] = [failures |-> hstates[v].failures, notified |-> hstates[v].notified]
      BY <2>1 DEF HealthInv, HealthState
    <3> QED BY <2>1, <3>1 DEF Entry, HealthInv, AlarmMatches
  <2>2. CASE v \notin DOMAIN hstates
    <3>1. Entry(v) = [failures |-> 0, notified |-> FALSE]
      BY <2>2 DEF Entry, NewHealthState
    <3>2. 0 \in Nat /\ 0 < Threshold /\ FALSE \in BOOLEAN
      BY HealthAssumption, SMTT(60)
    <3> QED BY <3>1, <3>2, <2>2
  <2> QED BY <2>1, <2>2
<1>2. Entry(v).failures = n /\ Entry(v).notified = b
  BY <1>1, SMTT(60)
<1>3. sweep' \subseteq HealthVms
  BY DEF CheckVm, HealthInv
<1>5. CASE v \in responsive
  <2>1. SetEntry(v, [failures |-> 0, notified |-> FALSE])
    BY <1>5 DEF CheckVm, CheckHealthy, NewHealthState
  <2>2. alarm' = IF b THEN [alarm EXCEPT ![v] = "recovered"] ELSE alarm
    BY <1>2, <1>5 DEF CheckVm, CheckHealthy
  <2>3. PICK a : /\ alarm' = [alarm EXCEPT ![v] = a] \/ (alarm' = alarm /\ a = alarm[v])
                 /\ a \in {"unknown", "unhealthy", "recovered"}
    <3>1. CASE b
      BY <3>1, <2>2
    <3>2. CASE ~b
      BY <3>2, <2>2 DEF HealthInv
    <3> QED BY <3>1, <3>2
  <2>4. HealthInv' /\ DOMAIN hstates' = DOMAIN hstates \union {v} /\ \A u \in DOMAIN hstates : u # v => hstates'[u] = hstates[u]
    <3>1. 0 \in Nat /\ 0 < Threshold /\ FALSE \in BOOLEAN
      BY HealthAssumption, SMTT(60)
    <3> QED BY <1>3, <2>1, <2>3, <3>1, SetEntryKeeps
  <2>5. \A u \in HealthVms : alarm'[u] = "recovered" /\ alarm[u] # "recovered" => alarm[u] = "unhealthy"
    BY <2>2, <1>1 DEF HealthInv
  <2> QED BY <1>5, <2>4, <2>5
<1>6. CASE v \notin responsive
  <2>1. PICK m \in Nat : m = Bounded(n + 1) /\ (n + 1 < Threshold => m < Threshold) /\ (n >= Threshold => m >= Threshold)
    BY HealthAssumption, SMTT(60) DEF Bounded
  <2>2. PICK c \in BOOLEAN : c = (b \/ (m >= Threshold /\ ~b))
    OBVIOUS
  <2>3. SetEntry(v, [failures |-> m, notified |-> c])
    BY <1>2, <1>6, <2>1, <2>2 DEF CheckVm, CheckUnhealthy
  <2>4. alarm' = IF m >= Threshold /\ ~b THEN [alarm EXCEPT ![v] = "unhealthy"] ELSE alarm
    BY <1>2, <1>6, <2>1 DEF CheckVm, CheckUnhealthy
  <2>5. PICK a : /\ alarm' = [alarm EXCEPT ![v] = a] \/ (alarm' = alarm /\ a = alarm[v])
                 /\ a \in {"unknown", "unhealthy", "recovered"} /\ (c => a = "unhealthy")
    <3>1. CASE m >= Threshold /\ ~b
      BY <3>1, <2>4
    <3>2. CASE ~(m >= Threshold /\ ~b)
      BY <3>2, <2>2, <2>4, <1>1 DEF HealthInv
    <3> QED BY <3>1, <3>2
  <2>6. (c => m >= Threshold) /\ (~c => m < Threshold)
    <3>1. m >= Threshold \/ m < Threshold
      BY HealthAssumption, SMTT(60)
    <3>2. b => m >= Threshold
      BY <1>1, <2>1
    <3> QED BY <3>1, <3>2, <2>2
  <2>7. /\ HealthInv' /\ DOMAIN hstates' = DOMAIN hstates \union {v}
        /\ \A u \in DOMAIN hstates : u # v => hstates'[u] = hstates[u]
        /\ hstates'[v].notified = c
    BY <1>3, <2>3, <2>5, <2>6, SetEntryKeeps
  <2>8. \A u \in HealthVms : alarm'[u] = "recovered" /\ alarm[u] # "recovered" => alarm[u] = "unhealthy"
    BY <2>4 DEF HealthInv
  <2>9. v \in DOMAIN hstates /\ hstates[v].notified => c
    BY <1>1, <2>2, SMTT(60)
  <2> QED BY <2>7, <2>8, <2>9
<1> QED BY <1>5, <1>6

(* Every step keeps the entries and what the listeners believe. *)
LEMMA HealthStep ==
  ASSUME HealthInv, [HealthNext]_healthVars
  PROVE  /\ HealthInv'
         /\ \A v \in HealthVms :
              /\ alarm'[v] = "recovered" /\ alarm[v] # "recovered" => alarm[v] = "unhealthy"
              /\ v \in DOMAIN hstates /\ hstates[v].notified /\ v \notin responsive /\ v \in DOMAIN hstates'
                   => hstates'[v].notified
<1>1. CASE UNCHANGED <<hstates, sweep, alarm>>
  BY <1>1 DEF HealthInv, AlarmMatches
<1>2. CASE Tick
  <2>1. /\ sweep' \subseteq HealthVms /\ UNCHANGED alarm
        /\ DOMAIN hstates' \subseteq DOMAIN hstates /\ \A v \in DOMAIN hstates' : hstates'[v] = hstates[v]
    BY <1>2 DEF Tick
  <2> QED BY <2>1 DEF HealthInv, AlarmMatches
<1>3. ASSUME NEW v \in HealthVms, CheckVm(v)
      PROVE  /\ HealthInv'
             /\ \A u \in HealthVms :
                  /\ alarm'[u] = "recovered" /\ alarm[u] # "recovered" => alarm[u] = "unhealthy"
                  /\ u \in DOMAIN hstates /\ hstates[u].notified /\ u \notin responsive /\ u \in DOMAIN hstates'
                       => hstates'[u].notified
  BY <1>3, CheckVmStep
<1> QED BY <1>1, <1>2, <1>3 DEF HealthNext, HealthProgress, HealthVmStarts, HealthVmStops, AgentHangs,
     AgentRecovers, SweepDone, healthVars

(* An entry of the health loop is marked exactly at Threshold failures in a *)
(* row, and then the listeners believe the VM unhealthy.                    *)
THEOREM AlarmsMatch == HealthSpec => []AlarmMatches
<1>1. HealthInv /\ [HealthNext]_healthVars => HealthInv'
  BY HealthStep
<1>2. HealthInv => AlarmMatches
  BY DEF HealthInv
<1> QED BY <1>1, <1>2, HealthInitInv, PTL DEF HealthSpec

(* Recoveries are announced only after failures, and a failure not twice.   *)
THEOREM EventsDoAlternate == HealthSpec => EventsAlternate
<1> DEFINE Alternate ==
      \A v \in HealthVms :
       /\ alarm'[v] = "recovered" /\ alarm[v] # "recovered" => alarm[v] = "unhealthy"
       /\ v \in DOMAIN hstates /\ hstates[v].notified /\ v \notin responsive /\ v \in DOMAIN hstates'
            => hstates'[v].notified
<1>1. HealthInv /\ [HealthNext]_healthVars => HealthInv' /\ [Alternate]_healthVars
  BY HealthStep
<1> QED BY <1>1, HealthInitInv, PTL DEF HealthSpec, EventsAlternate

----------------------------------------------------------------------------
(* One VM's lifecycle: which of its parts may be in which state together.   *)
WorkerInv ==
  /\ mode \in {"worker", "thread"}
  /\ mode = "thread" => wpc = "none" /\ ~inMap /\ ppc \in {"idle", "booted", "threadJoin", "off"}
  /\ mode = "worker" => ppc # "threadJoin"
  /\ inMap => ppc = "booted"
  /\ mode = "worker" /\ ppc = "booted" /\ ~inMap => wpc = "exited" \/ completion = "failed"
  /\ completion = "failed" => mode = "worker" /\ ppc \in {"booted", "off"} /\ ~inMap /\ ~parentEnd
  /\ monitor = "polling" => mode = "worker" /\ completion = "pending"
  /\ ppc \in {"idle", "accept", "ready"} => answer = "none" /\ completion = "none" /\ monitor = "off"
  /\ answer = "none" => ppc \in {"idle", "accept", "ready"}
  /\ ppc = "threadJoin" => guest = "ended" \/ killFlag \/ completion = "watched"
  /\ ppc # "off" => answer \notin {"stopped", "ran", "detached"}
  /\ completion = "sent" /\ mode = "worker" => ppc \in {"booted", "off"} /\ ~inMap /\ wpc = "exited"
  /\ StopLeavesNothing

(* Every step of parent, worker, guest and timers keeps the invariant. *)
LEMMA WorkerStep == WorkerInv /\ [WorkerNext]_workerVars => WorkerInv'
<1> SUFFICES ASSUME WorkerInv, [WorkerNext]_workerVars PROVE WorkerInv'
  OBVIOUS
<1> USE DEF WorkerInv, StopLeavesNothing, parentPart, monitorPart, workerPart, guestPart, wires
<1>1. CASE GuestEnds
  BY <1>1 DEF GuestEnds
<1>2. CASE GuestHangs
  BY <1>2 DEF GuestHangs
<1>3. CASE GuestKilled
  BY <1>3 DEF GuestKilled
<1>4. CASE Spawn
  BY <1>4, SMTT(60) DEF Spawn, BootFails
<1>5. CASE Accept
  BY <1>5 DEF Accept
<1>6. CASE ReadReady
  BY <1>6, SMTT(60) DEF ReadReady, Insert, BootFails
<1>7. CASE MonitorPoll
  BY <1>7, SMTT(60) DEF MonitorPoll
<1>8. CASE StopWait
  BY <1>8 DEF StopWait, ReleaseAll
<1>9. CASE KillChild
  BY <1>9 DEF KillChild, ProcessExit, ReleaseAll
<1>10. CASE RunRead
  BY <1>10 DEF RunRead, ReleaseAll
<1>11. CASE StopThreadJoin
  BY <1>11 DEF StopThreadJoin, ReleaseAll
<1>12. CASE ReadyTimeout
  BY <1>12 DEF ReadyTimeout, BootFails
<1>13. CASE StopTimeout
  BY <1>13 DEF StopTimeout, ProcessExit, ReleaseAll
<1>14. CASE StopThreadDetach
  BY <1>14 DEF StopThreadDetach, ReleaseAll
<1>15. CASE WorkerConnect
  BY <1>15 DEF WorkerConnect, ProcessExit
<1>16. CASE BootWorkerVm
  BY <1>16 DEF BootWorkerVm, ProcessExit
<1>17. CASE SendReady
  BY <1>17 DEF SendReady, ProcessExit
<1>18. CASE ReadStop
  BY <1>18 DEF ReadStop
<1>19. CASE ReadKill
  BY <1>19 DEF ReadKill
<1>20. CASE SocketClosed
  BY <1>20 DEF SocketClosed
<1>21. CASE GuestCompletion
  BY <1>21 DEF GuestCompletion
<1>22. CASE HandleStop
  BY <1>22 DEF HandleStop
<1>23. CASE SendVmExit
  BY <1>23 DEF SendVmExit
<1>24. CASE WorkerReturns
  BY <1>24 DEF WorkerReturns, ProcessExit
<1>25. CASE BootThread
  BY <1>25, SMTT(60) DEF BootThread, BootFails
<1>26. CASE StopSend
  BY <1>26 DEF StopSend, TakeHandle
<1>27. CASE KillSend
  BY <1>27 DEF KillSend, TakeHandle
<1>28. CASE StopGone
  BY <1>28 DEF StopGone, ReleaseAll
<1>29. CASE RunTake
  BY <1>29 DEF RunTake
<1>30. CASE StopThread
  BY <1>30 DEF StopThread
<1>31. CASE KillThread
  BY <1>31 DEF KillThread
<1>32. CASE RunThread
  BY <1>32 DEF RunThread, ReleaseAll
<1>33. CASE UNCHANGED workerVars
  BY <1>33 DEF workerVars
<1>34. CASE WatcherTakes
  BY <1>34 DEF WatcherTakes
<1>35. CASE MonitorFails
  BY <1>35 DEF MonitorFails
<1> QED BY <1>1, <1>2, <1>3, <1>4, <1>5, <1>6, <1>7, <1>8, <1>9, <1>10,
           <1>11, <1>12, <1>13, <1>14, <1>15, <1>16, <1>17, <1>18, <1>19, <1>20,
           <1>21, <1>22, <1>23, <1>24, <1>25, <1>26, <1>27, <1>28, <1>29, <1>30,
           <1>31, <1>32, <1>33, <1>34, <1>35
     DEF WorkerNext, ParentSteps, Timeouts, WorkerSteps, Requests

(* What a stop, a kill or a completed run leaves behind, and whose exit the *)
(* monitor reports.                                                         *)
THEOREM WorkerIsSound == WorkerSpec => [](StopLeavesNothing /\ ExitReportedOnce)
<1>1. WorkerInit => WorkerInv
  BY ModesAssumption DEF WorkerInit, WorkerInv, StopLeavesNothing
<1>2. WorkerInv => StopLeavesNothing /\ ExitReportedOnce
  BY DEF WorkerInv, ExitReportedOnce
<1> QED BY <1>1, <1>2, WorkerStep, PTL DEF WorkerSpec

(* What watches VMs tells the truth: the health loop's alarms, the exit the *)
(* monitor reports, and what a stop says it has left behind.                *)
THEOREM WatchersAreTruthful == HealthSpec /\ WorkerSpec => []WatchersTruthful
<1>1. AlarmMatches /\ StopLeavesNothing /\ ExitReportedOnce => WatchersTruthful
  BY DEF WatchersTruthful
<1> QED BY <1>1, AlarmsMatch, WorkerIsSound, PTL
=============================================================================
