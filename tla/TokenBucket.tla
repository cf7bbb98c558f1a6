----------------------------- MODULE TokenBucket -----------------------------
(***************************************************************************)
(* The rate limiters (visor-vmm rate_limit/mod.rs, disk.rs, net.rs).  A    *)
(* disk limiter has a bucket for operations and one for bytes; a network   *)
(* limiter is a bucket of the second kind per direction.  Tokens are kept  *)
(* scaled by Unit, the nanoseconds of a second; time moves in any steps.   *)
(***************************************************************************)
EXTENDS Integers, FiniteSets

CONSTANTS Unit,      \* NANOS_PER_SEC
          Buckets,   \* the buckets, "iops" and "bytes"
          Rates,     \* the rates a bucket may be given, also its burst
          Sizes,     \* sizes of the requests in bytes, at least one
          MaxTime

ASSUME BucketNumbers == Unit \in Nat \ {0} /\ Rates \subseteq Nat \ {0} /\ Sizes \subseteq Nat

VARIABLES tbNow, rate, tokens, lastRefill,
          granted,   \* tokens each bucket has granted since it was made
          wants, stage,    \* the request that waits: its size, and the bucket it waits for
          since, wakeAt    \* when it began, and when it looks again

waiter == <<wants, stage, since, wakeAt>>
tbVars == <<tbNow, rate, tokens, lastRefill, granted, waiter>>

(* burst = rate in every limiter (TokenBucket::new(rate, rate)). *)
BucketInit ==
  /\ tbNow = 0 /\ rate \in [Buckets -> Rates] /\ tokens = [b \in Buckets |-> rate[b] * Unit]
  /\ lastRefill = [b \in Buckets |-> 0] /\ granted = [b \in Buckets |-> 0]
  /\ wants = 0 /\ stage = "none" /\ since = 0 /\ wakeAt = 0

Least(a, b) == IF a < b THEN a ELSE b

(* refill(): what bucket b holds now. *)
Refilled(b) == Least(tokens[b] + (tbNow - lastRefill[b]) * rate[b], rate[b] * Unit)
Has(b, n) == Refilled(b) >= n * Unit

Refill(bs) == lastRefill' = [b \in Buckets |-> IF b \in bs THEN tbNow ELSE lastRefill[b]]
Cost(b, n) == IF b = "iops" THEN 1 ELSE n

(* Buckets bs are refilled and, if ok, charged for a request of n bytes. *)
Charge(bs, n, ok) ==
  /\ Refill(bs)
  /\ tokens' = [b \in Buckets |-> IF b \notin bs THEN tokens[b]
                                  ELSE IF ok THEN Refilled(b) - Cost(b, n) * Unit ELSE Refilled(b)]
  /\ granted' = [b \in Buckets |-> IF b \in bs /\ ok THEN granted[b] + Cost(b, n) ELSE granted[b]]

(* try_io: both buckets or neither.  A limiter is borrowed for as long as  *)
(* a request waits in it: nobody else draws meanwhile.                     *)
Free == stage = "none"

TryIoEither(n) ==
  /\ Free /\ Charge(Buckets, n, \E b \in Buckets : Has(b, Cost(b, n))) /\ UNCHANGED <<tbNow, rate, waiter>>

TryIo(n) ==
  /\ Free /\ Charge(Buckets, n, \A b \in Buckets : Has(b, Cost(b, n))) /\ UNCHANGED <<tbNow, rate, waiter>>

(* consume of one bucket: try_rx and try_tx.  Zero is granted unseen. *)
TryConsume(n) ==
  /\ Free /\ n > 0 /\ "bytes" \in Buckets /\ Charge({"bytes"}, n, Has("bytes", n)) /\ UNCHANGED <<tbNow, rate, waiter>>

(* wait_for_io: first the operation, then the bytes.  A request that the   *)
(* burst cannot hold is refused when its turn comes, the operation paid.   *)
WaitForIo(n) ==
  /\ Free /\ wants' = n /\ stage' = "iops" /\ since' = tbNow /\ wakeAt' = tbNow
  /\ UNCHANGED <<tbNow, rate, tokens, lastRefill, granted>>

Leave == wants' = 0 /\ stage' = "none" /\ since' = 0 /\ wakeAt' = 0

Refused(b) ==
  /\ stage = b /\ Cost(b, wants) > rate[b] /\ Leave /\ UNCHANGED <<tbNow, rate, tokens, lastRefill, granted>>

Awake(b) == stage = b /\ Cost(b, wants) <= rate[b] /\ tbNow >= wakeAt

Served(b) ==
  /\ Awake(b) /\ Has(b, Cost(b, wants)) /\ Charge({b}, wants, TRUE)
  /\ IF b = "iops" THEN stage' = "bytes" /\ wakeAt' = tbNow /\ UNCHANGED <<wants, since>> ELSE Leave
  /\ UNCHANGED <<tbNow, rate>>

(* The sleep: the time the deficit takes at the rate, at most a second;    *)
(* one shorter than the clock's tick lasts a tick.                         *)
Sleep(b) ==
  LET deficit == Cost(b, wants) * Unit - Refilled(b) IN
  LET nap == Least(deficit \div rate[b], Unit) IN IF nap = 0 THEN 1 ELSE nap

FallAsleep(b) ==
  /\ Awake(b) /\ ~Has(b, Cost(b, wants)) /\ Charge({b}, wants, FALSE) /\ wakeAt' = tbNow + Sleep(b)
  /\ UNCHANGED <<tbNow, rate, wants, stage, since>>

(* A sleeper is woken in time. *)
Elapse ==
  /\ tbNow < MaxTime /\ (Free \/ tbNow < wakeAt) /\ tbNow' = tbNow + 1
  /\ UNCHANGED <<rate, tokens, lastRefill, granted, waiter>>

BucketNext ==
  \/ Elapse
  \/ \E n \in Sizes : TryIo(n) \/ TryConsume(n) \/ WaitForIo(n)
  \/ \E b \in Buckets : Refused(b) \/ Served(b) \/ FallAsleep(b)

BucketSpec == BucketInit /\ [][BucketNext]_tbVars

----------------------------------------------------------------------------
(* A bucket never grants more than its burst plus what the time has earned *)
(* at its rate: the limit it exists for.                                   *)
RateBound == \A b \in Buckets : granted[b] * Unit <= rate[b] * Unit + rate[b] * tbNow

(* ... because what it granted and what it holds are paid for. *)
Paid ==
  \A b \in Buckets :
    /\ 0 <= tokens[b] /\ tokens[b] <= rate[b] * Unit /\ lastRefill[b] <= tbNow
    /\ granted[b] * Unit + tokens[b] <= rate[b] * Unit + rate[b] * lastRefill[b]

(* A request waits at most a second in each bucket, and a tick of rounding *)
(* each: the sleeps add up to the time its tokens take, and what a look    *)
(* finds is kept for the next.                                             *)
WaitBounded == ~Free => tbNow - since <= 2 * (Unit + 1)
=============================================================================
