--------------------------- MODULE MachineProofs ---------------------------
(***************************************************************************)
(* Theorems about parts of the virtual machine monitor that share no       *)
(* state, for every value of their constants: the rate limiters, the       *)
(* serial port, the CPU loop, the snapshot bundle and live migration.      *)
(***************************************************************************)
EXTENDS TokenBucket, Serial, VcpuLoop, Snapshots, SequenceTheorems, TLAPS

(* The leaves are first-order and go to Zenon; those that count cite the   *)
(* SMT solver.                                                            *)
USE ZenonT(60)

----------------------------------------------------------------------------
(* Rate limiters.  A bucket never grants more than its burst plus what the   *)
(* time has earned, because what was granted and what is held were earned by *)
(* the time of the last refill (Paid).                                       *)

BucketType ==
  /\ tbNow \in Nat /\ rate \in [Buckets -> Rates]
  /\ tokens \in [Buckets -> Int] /\ lastRefill \in [Buckets -> Int] /\ granted \in [Buckets -> Int]
  /\ wants \in Nat

BucketInv == BucketType /\ Paid

(* What one bucket must satisfy, with its numbers as parameters. *)
PaidNumbers(g, t, r, l, now) ==
  /\ 0 <= t /\ t <= r * Unit /\ l <= now
  /\ g * Unit + t <= r * Unit + r * l

(* Refilling at time `now` keeps a bucket paid for. *)
LEMMA RefillPaid ==
  ASSUME NEW g \in Int, NEW t \in Int, NEW r \in Nat, NEW l \in Int, NEW now \in Nat,
         PaidNumbers(g, t, r, l, now)
  PROVE  PaidNumbers(g, Least(t + (now - l) * r, r * Unit), r, now, now)
<1> DEFINE e == (now - l) * r
<1> USE BucketNumbers DEF BucketNumbers
<1>1. e \in Int /\ e = r * now - r * l
  BY SMTT(60)
<1>2. e >= 0
  <2>1. now - l \in Nat
    BY SMTT(60) DEF PaidNumbers
  <2>2. QED BY <2>1, SMTT(60)
<1>3. r * Unit \in Int /\ r * l \in Int /\ r * now \in Int /\ g * Unit \in Int /\ r * Unit >= 0
  BY SMTT(60)
<1> HIDE DEF e
<1>4. PaidNumbers(g, Least(t + e, r * Unit), r, now, now)
  BY ONLY <1>1, <1>2, <1>3, g \in Int, t \in Int, now \in Nat, PaidNumbers(g, t, r, l, now), SMTT(60) DEF PaidNumbers, Least
<1>5. QED BY <1>4 DEF e

(* Taking n tokens that are there keeps it paid for. *)
LEMMA GrantPaid ==
  ASSUME NEW g \in Int, NEW t \in Int, NEW r \in Nat, NEW now \in Nat, NEW n \in Nat,
         PaidNumbers(g, t, r, now, now), t >= n * Unit
  PROVE  PaidNumbers(g + n, t - n * Unit, r, now, now)
<1> USE BucketNumbers DEF BucketNumbers
<1>1. (g + n) * Unit = g * Unit + n * Unit
  BY SMTT(60)
<1>2. n * Unit \in Int /\ n * Unit >= 0 /\ g * Unit \in Int /\ r * Unit \in Int /\ r * now \in Int
  BY SMTT(60)
<1>3. QED
  BY ONLY <1>1, <1>2, t \in Int, now \in Nat, PaidNumbers(g, t, r, now, now), t >= n * Unit, SMTT(60) DEF PaidNumbers

(* A refill, with or without a grant, keeps every bucket paid for. *)
LEMMA ChargePaid ==
  ASSUME BucketInv, NEW bs \in SUBSET Buckets, NEW n \in Nat, NEW ok \in BOOLEAN,
         ok => \A b \in bs : Has(b, Cost(b, n)), Charge(bs, n, ok),
         tbNow' = tbNow, rate' = rate
  PROVE  /\ Paid'
         /\ tokens' \in [Buckets -> Int] /\ lastRefill' \in [Buckets -> Int] /\ granted' \in [Buckets -> Int]
<1> USE BucketNumbers DEF BucketNumbers
<1>0. /\ tbNow \in Nat /\ \A b \in Buckets : rate[b] \in Nat /\ tokens[b] \in Int /\ lastRefill[b] \in Int /\ granted[b] \in Int
  BY DEF BucketInv, BucketType
<1>1. \A b \in Buckets : Cost(b, n) \in Nat
  BY DEF Cost
<1>2. \A b \in Buckets : Refilled(b) \in Int
  <2>1. TAKE b \in Buckets
  <2>2. (tbNow - lastRefill[b]) * rate[b] \in Int /\ rate[b] * Unit \in Int
    BY <1>0, SMTT(60)
  <2>3. QED BY <1>0, <2>2, SMTT(60) DEF Refilled, Least
<1>3. \A b \in Buckets : PaidNumbers(granted[b], tokens[b], rate[b], lastRefill[b], tbNow)
  BY DEF BucketInv, Paid, PaidNumbers
<1>4. \A b \in Buckets : PaidNumbers(granted[b], Refilled(b), rate[b], tbNow, tbNow)
  BY <1>0, <1>3, RefillPaid DEF Refilled
<1>5. /\ lastRefill' = [b \in Buckets |-> IF b \in bs THEN tbNow ELSE lastRefill[b]]
      /\ tokens' = [b \in Buckets |-> IF b \notin bs THEN tokens[b]
                                  ELSE IF ok THEN Refilled(b) - Cost(b, n) * Unit ELSE Refilled(b)]
      /\ granted' = [b \in Buckets |-> IF b \in bs /\ ok THEN granted[b] + Cost(b, n) ELSE granted[b]]
  BY DEF Charge, Refill
<1>6. \A b \in Buckets : Cost(b, n) * Unit \in Int
  BY <1>1, SMTT(60)
<1>7. tokens' \in [Buckets -> Int] /\ lastRefill' \in [Buckets -> Int] /\ granted' \in [Buckets -> Int]
  BY <1>0, <1>1, <1>2, <1>5, <1>6, SMTT(60)
<1>8. ASSUME NEW b \in Buckets
      PROVE  PaidNumbers(granted'[b], tokens'[b], rate[b], lastRefill'[b], tbNow)
  <2>1. CASE b \notin bs
    <3>1. granted'[b] = granted[b] /\ tokens'[b] = tokens[b] /\ lastRefill'[b] = lastRefill[b]
      BY <2>1, <1>5
    <3>2. QED BY <3>1, <1>3
  <2>2. CASE b \in bs /\ ~ok
    <3>1. granted'[b] = granted[b] /\ tokens'[b] = Refilled(b) /\ lastRefill'[b] = tbNow
      BY <2>2, <1>5
    <3>2. QED BY <3>1, <1>4
  <2>3. CASE b \in bs /\ ok
    <3>1. /\ granted'[b] = granted[b] + Cost(b, n) /\ tokens'[b] = Refilled(b) - Cost(b, n) * Unit
          /\ lastRefill'[b] = tbNow
      BY <2>3, <1>5
    <3>2. Refilled(b) >= Cost(b, n) * Unit
      BY <2>3 DEF Has
    <3>3. PaidNumbers(granted[b] + Cost(b, n), Refilled(b) - Cost(b, n) * Unit, rate[b], tbNow, tbNow)
      BY <1>0, <1>1, <1>2, <1>4, <3>2, GrantPaid
    <3>4. QED BY <3>1, <3>3
  <2>4. QED BY <2>1, <2>2, <2>3
<1>9. Paid'
  BY <1>8 DEF Paid, PaidNumbers
<1>10. QED BY <1>7, <1>9

(* Every step keeps the invariant. *)
LEMMA BucketStep == BucketInv /\ [BucketNext]_tbVars => BucketInv'
<1> SUFFICES ASSUME BucketInv, [BucketNext]_tbVars PROVE BucketInv'
  OBVIOUS
<1> USE BucketNumbers DEF BucketNumbers
<1>0. /\ tbNow \in Nat /\ wants \in Nat /\ rate \in [Buckets -> Rates]
  BY DEF BucketInv, BucketType
<1>1. CASE UNCHANGED <<tbNow, rate, tokens, lastRefill, granted, wants>>
  BY <1>1 DEF BucketInv, BucketType, Paid
<1>2. ASSUME UNCHANGED <<tokens, lastRefill, granted, rate>>, wants' \in Nat, tbNow' \in Nat, tbNow' >= tbNow
      PROVE  BucketInv'
  <2>1. \A b \in Buckets : lastRefill[b] <= tbNow /\ lastRefill[b] \in Int
    BY DEF BucketInv, BucketType, Paid
  <2>2. \A b \in Buckets : lastRefill[b] <= tbNow'
    BY <2>1, <1>2, <1>0, SMTT(60)
  <2>3. QED BY <1>2, <2>2 DEF BucketInv, BucketType, Paid
<1>3. ASSUME NEW bs \in SUBSET Buckets, NEW n \in Nat, NEW ok \in BOOLEAN,
             ok => \A b \in bs : Has(b, Cost(b, n)), Charge(bs, n, ok), tbNow' = tbNow, rate' = rate, wants' \in Nat
      PROVE  BucketInv'
  BY <1>0, <1>3, ChargePaid DEF BucketInv, BucketType
<1>4. CASE Elapse
  BY <1>4, <1>2, <1>0, SMTT(60) DEF Elapse, waiter
<1>5. ASSUME NEW n \in Sizes, TryIo(n) PROVE BucketInv'
  <2>1. n \in Nat /\ wants' \in Nat /\ tbNow' = tbNow /\ rate' = rate
    BY <1>0, <1>5 DEF TryIo, waiter
  <2> DEFINE ok == \A b \in Buckets : Has(b, Cost(b, n))
  <2>2. ok \in BOOLEAN /\ Charge(Buckets, n, ok)
    BY <1>5 DEF TryIo
  <2>3. QED BY <2>1, <2>2, <1>3
<1>6. ASSUME NEW n \in Sizes, TryConsume(n) PROVE BucketInv'
  <2>1. n \in Nat /\ wants' \in Nat /\ tbNow' = tbNow /\ rate' = rate /\ "bytes" \in Buckets
    BY <1>0, <1>6 DEF TryConsume, waiter
  <2>2. Cost("bytes", n) = n
    BY DEF Cost
  <2> DEFINE ok == Has("bytes", n)
  <2>3. ok \in BOOLEAN /\ Charge({"bytes"}, n, ok)
    BY <1>6, SMTT(60) DEF TryConsume, Has
  <2>4. QED BY <2>1, <2>2, <2>3, <1>3
<1>7. ASSUME NEW n \in Sizes, WaitForIo(n) PROVE BucketInv'
  BY <1>0, <1>2, <1>7, SMTT(60) DEF WaitForIo
<1>8. ASSUME NEW b \in Buckets, Refused(b) PROVE BucketInv'
  BY <1>0, <1>2, <1>8, SMTT(60) DEF Refused, Leave
<1>9. ASSUME NEW b \in Buckets, Served(b) PROVE BucketInv'
  <2>1. wants' \in Nat /\ tbNow' = tbNow /\ rate' = rate
    BY <1>0, <1>9, SMTT(60) DEF Served, Leave
  <2>2. Charge({b}, wants, TRUE) /\ Has(b, Cost(b, wants))
    BY <1>9 DEF Served
  <2>3. QED BY <1>0, <2>1, <2>2, <1>3
<1>10. ASSUME NEW b \in Buckets, FallAsleep(b) PROVE BucketInv'
  <2>1. wants' \in Nat /\ tbNow' = tbNow /\ rate' = rate /\ Charge({b}, wants, FALSE)
    BY <1>0, <1>10 DEF FallAsleep
  <2>2. QED BY <1>0, <2>1, <1>3
<1>11. QED
  BY <1>1, <1>4, <1>5, <1>6, <1>7, <1>8, <1>9, <1>10 DEF BucketNext, tbVars, waiter

(* Paid for always: what a bucket granted and holds was earned by its last *)
(* refill.                                                                 *)
THEOREM BucketPaid == BucketSpec => []BucketInv
<1>1. BucketInit => BucketInv
  <2> SUFFICES ASSUME BucketInit PROVE BucketInv
    OBVIOUS
  <2> USE BucketNumbers DEF BucketNumbers
  <2>0. \A b \in Buckets : rate[b] \in Nat
    BY DEF BucketInit
  <2>1. \A b \in Buckets : rate[b] \in Nat /\ rate[b] * Unit \in Nat
    BY <2>0, SMTT(60)
  <2>2. BucketType
    BY <2>1, SMTT(60) DEF BucketInit, BucketType
  <2>3. ASSUME NEW b \in Buckets PROVE
          /\ 0 <= tokens[b] /\ tokens[b] <= rate[b] * Unit /\ lastRefill[b] <= tbNow
          /\ granted[b] * Unit + tokens[b] <= rate[b] * Unit + rate[b] * lastRefill[b]
    <3>1. tokens[b] = rate[b] * Unit /\ lastRefill[b] = 0 /\ granted[b] = 0 /\ tbNow = 0
      BY DEF BucketInit
    <3>2. 0 * Unit = 0 /\ rate[b] * 0 = 0
      BY <2>1, SMTT(60)
    <3>3. QED BY <2>1, <3>1, <3>2, SMTT(60)
  <2>4. QED BY <2>2, <2>3 DEF BucketInv, Paid
<1>2. QED BY <1>1, BucketStep, PTL DEF BucketSpec

(* The limit: granted tokens never exceed the burst plus what the elapsed  *)
(* time has earned at the rate, whatever the callers do.                   *)
THEOREM BucketRate == BucketSpec => []RateBound
<1>1. BucketInv => RateBound
  <2> SUFFICES ASSUME BucketInv, NEW b \in Buckets
               PROVE granted[b] * Unit <= rate[b] * Unit + rate[b] * tbNow
    BY DEF RateBound
  <2> USE BucketNumbers DEF BucketNumbers
  <2>1. /\ rate[b] \in Nat /\ granted[b] \in Int /\ tokens[b] \in Int /\ lastRefill[b] \in Int /\ tbNow \in Nat
        /\ 0 <= tokens[b] /\ lastRefill[b] <= tbNow
        /\ granted[b] * Unit + tokens[b] <= rate[b] * Unit + rate[b] * lastRefill[b]
    BY DEF BucketInv, BucketType, Paid
  <2>2. rate[b] * lastRefill[b] <= rate[b] * tbNow
    <3>1. tbNow - lastRefill[b] \in Nat
      BY <2>1, SMTT(60)
    <3>2. rate[b] * (tbNow - lastRefill[b]) >= 0
      BY <2>1, <3>1, SMTT(60)
    <3>3. rate[b] * (tbNow - lastRefill[b]) = rate[b] * tbNow - rate[b] * lastRefill[b]
      BY <2>1, SMTT(60)
    <3>4. rate[b] * lastRefill[b] \in Int /\ rate[b] * tbNow \in Int
      BY <2>1, SMTT(60)
    <3>5. QED BY <3>2, <3>3, <3>4, SMTT(60)
  <2>3. granted[b] * Unit \in Int /\ rate[b] * Unit \in Int /\ rate[b] * lastRefill[b] \in Int /\ rate[b] * tbNow \in Int
    BY <2>1, SMTT(60)
  <2>4. QED BY <2>1, <2>2, <2>3, SMTT(60)
<1>2. QED BY <1>1, BucketPaid, PTL

----------------------------------------------------------------------------
(* The serial port.                                                          *)

SerialType ==
  /\ ier \subseteq {"rda", "thr"} /\ iir \subseteq {"rda", "thr"}
  /\ loopback \in BOOLEAN /\ edge \in BOOLEAN /\ late \in BOOLEAN
  /\ isrPc \in {"idle", "iir", "lsr", "rbr"} /\ offered \in Nat
  /\ rxFifo \in Seq(Nat) /\ accepted \in Seq(Nat) /\ received \in Seq(Nat)

(* The driver reads the data register only when there is data; a cause that  *)
(* is identified has signalled, and the data the driver was told about is    *)
(* identified until it looks.                                                *)
HandlerInv ==
  /\ isrPc = "rbr" => rxFifo # <<>>
  /\ iir # {} => edge \/ isrPc = "iir"
  /\ isrPc \in {"idle", "iir"} /\ rxFifo # <<>> /\ "rda" \in ier /\ ~late => "rda" \in iir

SerialInv == SerialType /\ HandlerInv /\ InputInOrder

(* Taking bytes into the FIFO, with the signal that goes with it.            *)
LEMMA AcceptKeeps ==
  ASSUME SerialInv, NEW bytes \in Seq(Nat), Accept(bytes), UNCHANGED <<ier, loopback, isrPc, received>>, offered' \in Nat
  PROVE  SerialInv'
<1> USE DEF SerialInv, SerialType
<1>1. rxFifo \o bytes \in Seq(Nat) /\ accepted \o bytes \in Seq(Nat)
  BY SMTT(60)
<1>2. rxFifo # <<>> => rxFifo \o bytes # <<>>
  BY SMTT(60)
<1>3. SerialType' /\ HandlerInv'
  BY <1>1, <1>2 DEF Accept, Signal, HandlerInv
<1>4. received \o (rxFifo \o bytes) = (received \o rxFifo) \o bytes
  BY SMTT(60)
<1> QED
  BY <1>3, <1>4 DEF Accept, InputInOrder

(* Every register access and every arrival of input keeps the invariant.     *)
LEMMA SerialStep == SerialInv /\ [SerialNext]_serialVars => SerialInv'
<1> SUFFICES ASSUME SerialInv, [SerialNext]_serialVars PROVE SerialInv'
  OBVIOUS
<1> USE DEF SerialInv, SerialType
<1>1. ASSUME NEW n \in 1 .. 2, EnqueueRx(n) PROVE SerialInv'
  <2>0. offered' \in Nat /\ UNCHANGED <<ier, loopback, isrPc, received>>
    BY <1>1, SMTT(60) DEF EnqueueRx
  <2>1. CASE loopback \/ Capacity = 0
    <3>1. UNCHANGED <<rxFifo, accepted, iir, edge, late>>
      BY <1>1, <2>1 DEF EnqueueRx
    <3> QED
      BY <2>0, <3>1 DEF HandlerInv, InputInOrder
  <2>2. CASE ~(loopback \/ Capacity = 0)
    <3>0. PICK g \in Nat : g = Len(rxFifo)
      BY SMTT(60)
    <3>1. PICK k \in Int : k = (IF n < Capacity THEN n ELSE Capacity)
      <4>1. Capacity \in Int
        BY <3>0, FifoNumbers, SMTT(60) DEF Capacity
      <4> QED BY <4>1, SMTT(60)
    <3>2. [i \in 1 .. k |-> offered + i] \in Seq(Nat)
      BY SMTT(60)
    <3>3. Accept([i \in 1 .. k |-> offered + i])
      BY <1>1, <2>2, <3>1 DEF EnqueueRx
    <3> QED
      BY <2>0, <3>2, <3>3, AcceptKeeps
  <2> QED BY <2>1, <2>2
<1>2. CASE WriteThr
  <2>1. <<offered + 1>> \in Seq(Nat) /\ offered' \in Nat
    BY <1>2, SMTT(60) DEF WriteThr
  <2>2. CASE Accept(<<offered + 1>>)
    BY <1>2, <2>1, <2>2, AcceptKeeps DEF WriteThr
  <2>3. CASE ~Accept(<<offered + 1>>)
    BY <1>2, <2>1, <2>3 DEF WriteThr, Signal, HandlerInv, InputInOrder
  <2> QED BY <2>2, <2>3
<1>3. CASE WriteMcr \/ TakeEdge \/ ReadIir \/ ReadLsr
  BY <1>3 DEF WriteMcr, TakeEdge, ReadIir, ReadLsr, HandlerInv, InputInOrder
<1>4. CASE ReadRbr
  <2> USE <1>4
  <2>1. rxFifo # <<>>
    BY DEF ReadRbr, HandlerInv
  <2>2. /\ Head(rxFifo) \in Nat /\ Tail(rxFifo) \in Seq(Nat) /\ Append(received, Head(rxFifo)) \in Seq(Nat)
        /\ Append(received, Head(rxFifo)) \o Tail(rxFifo) = received \o rxFifo
    BY <2>1, SMTT(60)
  <2>3. late' \in BOOLEAN
    BY DEF ReadRbr
  <2>4. SerialType' /\ HandlerInv'
    BY <2>2, <2>3 DEF ReadRbr, HandlerInv
  <2> QED BY <2>2, <2>4 DEF ReadRbr, InputInOrder
<1>5. ASSUME NEW b \in SUBSET {"rda", "thr"}, WriteIer(b) PROVE SerialInv'
  BY <1>5 DEF WriteIer, HandlerInv, InputInOrder
<1>6. CASE UNCHANGED serialVars
  BY <1>6 DEF serialVars, HandlerInv, InputInOrder
<1> QED
  BY <1>1, <1>2, <1>3, <1>4, <1>5, <1>6 DEF SerialNext

(* For every FIFO size: the guest reads what the FIFO accepted, in order and *)
(* without loss, and data it was told about is never left without a signal   *)
(* or a handler that is about to look.                                       *)
THEOREM SerialIsSound == SerialSpec => [](InputInOrder /\ NoSilentData)
<1>1. SerialInit => SerialInv
  <2>1. <<>> \in Seq(Nat) /\ <<>> \o <<>> = <<>>
    BY SMTT(60)
  <2>2. SerialInit => SerialType
    <3>1. SerialInit => loopback \in BOOLEAN /\ edge \in BOOLEAN /\ late \in BOOLEAN
      BY DEF SerialInit
    <3>2. SerialInit => rxFifo \in Seq(Nat) /\ accepted \in Seq(Nat) /\ received \in Seq(Nat)
      BY <2>1 DEF SerialInit
    <3> QED
      BY <3>1, <3>2, SMTT(60) DEF SerialInit, SerialType
  <2>4. SerialInit => HandlerInv
    BY DEF SerialInit, HandlerInv
  <2>3. SerialInit => InputInOrder
    BY <2>1 DEF SerialInit, InputInOrder
  <2> QED
    BY <2>2, <2>3, <2>4 DEF SerialInv
<1>2. SerialInv => InputInOrder /\ NoSilentData
  BY DEF SerialInv, SerialType, HandlerInv, NoSilentData
<1> QED
  BY <1>1, <1>2, SerialStep, PTL DEF SerialSpec

----------------------------------------------------------------------------
(* The CPU loop.                                                             *)

VcpuType ==
  /\ vpc \in Nat
  /\ trap \in [kind : Traps \cup {"none", "vtimer", "reading", "done", "stop"}, at : Nat, reg : Xs \cup {XZR}]
  /\ vstage \in {"enter", "handle", "poll", "stopped"}
  /\ xreg \in [Xs -> {"old", "device", "junk"}]
  /\ timer \in BOOLEAN /\ masked \in BOOLEAN /\ ppi \in BOOLEAN /\ inIrq \in BOOLEAN

(* Where the program counter stands for each kind of exit, and what the      *)
(* decoder has done to it.                                                   *)
CounterInv ==
  /\ vstage = "enter" => trap.kind = "none"
  /\ vstage = "poll" => trap.kind \in {"none", "vtimer", "done"}
  /\ vstage = "handle" => trap.kind # "none"
  /\ trap.kind \in {"hvc", "off", "reading", "done", "stop"} => vpc = trap.at + 1
  /\ trap.kind \in Traps \ {"hvc", "off"} => vpc = trap.at

(* A register is owed an answer only while a read is being completed.        *)
ReadInv ==
  /\ trap.kind = "reading" => due = srt \cap Xs
  /\ trap.kind # "reading" => srt = {}
  /\ trap.kind \notin {"reading", "done"} => due = {}
  /\ trap.kind = "done" => \A x \in due : x \in Xs /\ xreg[x] = "device"

(* The host's mask is down only with no timer interrupt under way.           *)
TimerInv ==
  /\ ppi \/ inIrq => masked /\ timer
  /\ ~(ppi /\ inIrq)
  /\ vstage = "handle" /\ trap.kind = "vtimer" => timer /\ ~masked

VcpuInv == VcpuType /\ CounterInv /\ ReadInv /\ TimerInv

(* Every step of the loop, the guest and the other threads keeps it.         *)
LEMMA VcpuStep == VcpuInv /\ [VcpuNext]_vcpuVars => VcpuInv'
<1> SUFFICES ASSUME VcpuInv, [VcpuNext]_vcpuVars PROVE VcpuInv'
  OBVIOUS
<1> USE DEF VcpuInv, timerVars
<1>1. ASSUME NEW k \in Traps, NEW r \in Xs \cup {XZR}, GuestTraps(k, r) PROVE VcpuInv'
  BY <1>1, SMTT(60) DEF GuestTraps, VcpuType, CounterInv, ReadInv, TimerInv, Traps
<1>2. CASE TimerExpires
  BY <1>2 DEF TimerExpires, VcpuType, CounterInv, ReadInv, TimerInv
<1>3. CASE TimerExit
  BY <1>3 DEF TimerExit, VcpuType, CounterInv, ReadInv, TimerInv, Traps
<1>4. CASE TakeTimer
  BY <1>4 DEF TakeTimer, VcpuType, CounterInv, ReadInv, TimerInv
<1>5. CASE Rearm
  BY <1>5 DEF Rearm, VcpuType, CounterInv, ReadInv, TimerInv
<1>6. ASSUME NEW s \in Sources, Trigger(s) \/ Deassert(s) PROVE VcpuInv'
  BY <1>6, SMTT(60) DEF Trigger, Deassert, VcpuType, CounterInv, ReadInv, TimerInv
<1>7. CASE SetKill \/ Killed
  BY <1>7, SMTT(60) DEF SetKill, Killed, VcpuType, CounterInv, ReadInv, TimerInv
<1>8. CASE HandleVtimer
  BY <1>8 DEF HandleVtimer, VcpuType, CounterInv, ReadInv, TimerInv
<1>9. CASE DecodeException
  <2> USE <1>9
  <2>1. trap.kind \in Traps /\ trap'.at = trap.at /\ trap'.reg = trap.reg
        /\ trap'.kind = IF trap.kind = "read" THEN "reading" ELSE IF trap.kind = "off" THEN "stop" ELSE "done"
    BY DEF DecodeException, VcpuType
  <2>2. masked' \in BOOLEAN /\ ppi' \in BOOLEAN
    BY DEF DecodeException, SyncVtimer, VcpuType
  <2>3. vpc' = trap.at + 1 /\ vpc' \in Nat
    BY SMTT(60) DEF DecodeException, VcpuType, CounterInv, Advanced, Traps
  <2>4. xreg' \in [Xs -> {"old", "device", "junk"}]
    BY DEF DecodeException, VcpuType
  <2>5. VcpuType'
    BY <2>1, <2>2, <2>3, <2>4 DEF DecodeException, VcpuType
  <2>6. CounterInv'
    BY <2>1, <2>3, SMTT(60) DEF DecodeException, CounterInv, Traps
  <2>7. ReadInv'
    BY <2>1, SMTT(60) DEF DecodeException, ReadInv, Traps
  <2>8. TimerInv'
    BY <2>1 DEF DecodeException, SyncVtimer, TimerInv, VcpuType
  <2> QED BY <2>5, <2>6, <2>7, <2>8
<1>10. CASE CompleteRead
  <2> USE <1>10
  <2>1. trap'.kind = "done" /\ trap'.at = trap.at /\ trap'.reg = trap.reg
    BY DEF CompleteRead, VcpuType
  <2>2. VcpuType'
    BY <2>1 DEF CompleteRead, VcpuType
  <2> QED BY <2>1, <2>2 DEF CompleteRead, VcpuType, CounterInv, ReadInv, TimerInv, Traps
<1>11. CASE RunOnce
  <2> USE <1>11
  <2>1. trap.kind \in Traps /\ trap'.at = trap.at /\ trap'.reg = trap.reg
        /\ trap'.kind = IF trap.kind = "off" THEN "stop" ELSE "done"
    BY DEF RunOnce, VcpuType
  <2>2. VcpuType'
    BY <2>1, SMTT(60) DEF RunOnce, VcpuType
  <2>3. CounterInv'
    BY <2>1 DEF RunOnce, CounterInv, VcpuType, Traps
  <2>4. ReadInv'
    BY <2>1, SMTT(60) DEF RunOnce, ReadInv, Traps
  <2>5. TimerInv'
    BY <2>1, SMTT(60) DEF RunOnce, TimerInv
  <2> QED BY <2>2, <2>3, <2>4, <2>5
<1>12. ASSUME NEW b \in BOOLEAN, RunFails(b) PROVE VcpuInv'
  BY <1>12 DEF RunFails, VcpuType, CounterInv, ReadInv, TimerInv
<1>13. CASE HandleExit
  BY <1>13 DEF HandleExit, VcpuType, CounterInv, ReadInv, TimerInv
<1>14. CASE PollIrqs
  BY <1>14 DEF PollIrqs, NoTrap, VcpuType, CounterInv, ReadInv, TimerInv, Traps
<1>15. CASE UNCHANGED vcpuVars
  BY <1>15 DEF vcpuVars, VcpuType, CounterInv, ReadInv, TimerInv
<1> QED
  BY <1>1, <1>2, <1>3, <1>4, <1>5, <1>6, <1>7, <1>8, <1>9, <1>10, <1>11, <1>12, <1>13, <1>14, <1>15 DEF VcpuNext

(* For every set of registers and interrupt sources, and on both hosts: the  *)
(* guest continues after the instruction that trapped, a read is completed   *)
(* into its register, and a timer being handled does not exit again.         *)
THEOREM VcpuIsExact == VcpuSpec => []VcpuExact
<1>1. VcpuInit => VcpuInv
  <2> SUFFICES ASSUME VcpuInit PROVE VcpuInv
    OBVIOUS
  <2>1. VcpuType
    BY DEF VcpuInit, NoTrap, VcpuType
  <2>2. CounterInv /\ ReadInv /\ TimerInv
    BY DEF VcpuInit, NoTrap, CounterInv, ReadInv, TimerInv, Traps
  <2> QED BY <2>1, <2>2 DEF VcpuInv
<1>2. VcpuInv => VcpuExact
  BY DEF VcpuInv, VcpuExact, VcpuType, CounterInv, ReadInv, TimerInv, ResumesAfter, ReadsComplete, NoRepeatedExit
<1> QED
  BY <1>1, <1>2, VcpuStep, PTL DEF VcpuSpec

----------------------------------------------------------------------------
(* The snapshot bundle.                                                      *)

SnapType ==
  /\ file \in [Files -> {"none", "torn", "mixed", "full"}]
  /\ filling \in [Files -> SUBSET Machines]
  /\ phase \in [Machines -> {"off", "s_memory", "s_cpu", "s_rootfs", "r_memory", "r_rootfs", "r_cpu",
                             "running", "failed"}]
  /\ image \in [Machines -> [memory : {"none", "torn", "mixed", "full"}, rootfs : {"none", "torn", "mixed", "full"}]]
  /\ own \in [Machines -> SUBSET Machines]
  /\ marks \subseteq Machines /\ restoredVm \subseteq Machines /\ quiet \subseteq Machines
  /\ cut \subseteq Files /\ crashes \in Nat

(* A machine is restored once; its own disk is untouched until its CPU runs. *)
MachineInv ==
  \A v \in Machines :
    /\ v \in restoredVm => phase[v] \in {"running", "failed"}
    /\ phase[v] = "off" => image[v].memory = "none" /\ image[v].rootfs = "none"
    /\ own[v] # {} => phase[v] \in {"running", "failed"}

(* A file is written by machines that are saving; a torn file has a writer   *)
(* or was left by one that was cut off.                                      *)
WriterInv ==
  \A f \in Files :
    /\ \A v \in filling[f] : phase[v] = Stage(f)
    /\ file[f] = "torn" => filling[f] # {} \/ f \in cut

(* Nobody is quiet while a machine saves: what a quiet machine has mapped    *)
(* was not being written, and nobody has touched it since.                   *)
QuietInv ==
  /\ quiet # {} => Saving = {}
  /\ \A v \in quiet :
       /\ v \in restoredVm \/ phase[v] \in {"r_rootfs", "r_cpu"} => image[v].memory \in {"full", "mixed"}
       /\ image[v].rootfs = "torn" => "rootfs" \in cut

SnapInv == SnapType /\ MachineInv /\ WriterInv /\ QuietInv /\ DiskMatchesMemory

(* Every save, restore, write and crash keeps the invariant.                 *)
LEMMA SnapStep == SnapInv /\ [SnapNext]_snapVars => SnapInv'
<1> SUFFICES ASSUME SnapInv, [SnapNext]_snapVars PROVE SnapInv'
  OBVIOUS
<1> USE DEF SnapInv
<1>1. ASSUME NEW v \in Machines, Acquire(v) PROVE SnapInv'
  BY <1>1, SMTT(60) DEF Acquire, SnapType, MachineInv, WriterInv, QuietInv, DiskMatchesMemory, Saving, Files, Stage
<1>2. ASSUME NEW v \in Machines, Create(v) PROVE SnapInv'
  BY <1>2, SMTT(60) DEF Create, SnapType, MachineInv, WriterInv, QuietInv, DiskMatchesMemory, Saving, Files, Stage
<1>3. ASSUME NEW v \in Machines, NEW f \in Files, Truncate(v, f) PROVE SnapInv'
  BY <1>3, SMTT(60) DEF Truncate, UsersSee, SnapType, MachineInv, WriterInv, QuietInv, DiskMatchesMemory, Saving, Files, Stage
<1>4. ASSUME NEW v \in Machines, NEW f \in Files, Fill(v, f) PROVE SnapInv'
  BY <1>4, SMTT(60) DEF Fill, UsersSee, SnapType, MachineInv, WriterInv, QuietInv, DiskMatchesMemory, Saving, Files, Stage, After
<1>5. ASSUME NEW v \in Machines, NEW f \in Files, SaveFails(v, f) PROVE SnapInv'
  BY <1>5, SMTT(60) DEF SaveFails, SnapType, MachineInv, WriterInv, QuietInv, DiskMatchesMemory, Saving, Files, Stage
<1>6. ASSUME NEW v \in Machines, RestoreMemoryFile(v) PROVE SnapInv'
  <2> USE <1>6
  <2>1. /\ phase[v] = "r_memory" /\ v \notin restoredVm /\ UNCHANGED <<file, filling, marks, own, restoredVm, quiet, cut, crashes>>
        /\ \A w \in Machines \ {v} : phase'[w] = phase[w] /\ image'[w] = image[w]
    BY DEF RestoreMemoryFile, Fails, SnapType, MachineInv
  <2>2. SnapType'
    BY SMTT(60) DEF RestoreMemoryFile, Fails, SnapType, Files
  <2>3. \/ phase'[v] = "failed" /\ image' = image
        \/ /\ phase'[v] = "r_rootfs" /\ image'[v].rootfs = image[v].rootfs
           /\ image'[v].memory = file["memory"] /\ image'[v].memory \in {"full", "mixed"}
    BY SMTT(60) DEF RestoreMemoryFile, Fails, SnapType, Files
  <2>4. MachineInv'
    BY <2>1, <2>3 DEF MachineInv
  <2>5. WriterInv'
    BY <2>1, <2>3, SMTT(60) DEF WriterInv, SnapType, Files, Stage
  <2>6. QuietInv'
    BY <2>1, <2>3, SMTT(60) DEF QuietInv, Saving, SnapType
  <2> QED BY <2>1, <2>2, <2>4, <2>5, <2>6 DEF DiskMatchesMemory
<1>7. ASSUME NEW v \in Machines, OpenRootfs(v) PROVE SnapInv'
  BY <1>7, SMTT(60) DEF OpenRootfs, Fails, SnapType, MachineInv, WriterInv, QuietInv, DiskMatchesMemory, Saving, Files, Stage
<1>8. ASSUME NEW v \in Machines, RestoreCpu(v) PROVE SnapInv'
  BY <1>8, SMTT(60) DEF RestoreCpu, Fails, SnapType, MachineInv, WriterInv, QuietInv, DiskMatchesMemory, Saving, Files, Stage
<1>9. ASSUME NEW v \in Machines, WriteDisk(v) PROVE SnapInv'
  BY <1>9, SMTT(60) DEF WriteDisk, SnapType, MachineInv, WriterInv, QuietInv, DiskMatchesMemory, Saving, Files, Stage
<1>10. ASSUME SnapCrash PROVE SnapInv'
  BY <1>10, SMTT(60) DEF SnapCrash, SnapType, MachineInv, WriterInv, QuietInv, DiskMatchesMemory, Saving, Files, Stage
<1>11. ASSUME UNCHANGED snapVars PROVE SnapInv'
  BY <1>11 DEF snapVars, SnapType, MachineInv, WriterInv, QuietInv, DiskMatchesMemory, Saving
<1> QED
  BY <1>1, <1>2, <1>3, <1>4, <1>5, <1>6, <1>7, <1>8, <1>9, <1>10, <1>11 DEF SnapNext

(* For any number of machines saving to and restoring from one bundle, with  *)
(* crashes at any point: no machine runs on memory cut short, an undisturbed *)
(* bundle is complete, and its disk is the one the saved memory knows.       *)
THEOREM BundleIsSound == SnapSpec => []BundleSound
<1>1. SnapInit => SnapInv
  BY SMTT(60) DEF SnapInit, SnapInv, SnapType, MachineInv, WriterInv, QuietInv, DiskMatchesMemory, Saving, Files
<1>2. SnapInv => BundleSound
  BY DEF SnapInv, SnapType, MachineInv, QuietInv, BundleSound, QuietRestoreWhole
<1> QED
  BY <1>1, <1>2, SnapStep, PTL DEF SnapSpec

----------------------------------------------------------------------------
(* Live migration.                                                           *)

MigType ==
  /\ source \in [Pages -> Nat] /\ dest \in [Pages -> Nat]
  /\ dirtyLog \subseteq Pages /\ snapshot \subseteq Pages /\ round \in Nat
  /\ mstage \in {"run", "send", "pause", "final", "resumed"} /\ driver \in {"keeps", "drops"}

(* Until the guest resumes, a page the destination holds an old version of  *)
(* is in the kernel's log or in the snapshot that is still to be sent; a     *)
(* new snapshot replaces the old one only after that one was sent.           *)
Accounted ==
  /\ mstage # "resumed" => \A p \in Pages : dest[p] # source[p] => p \in dirtyLog \cup snapshot
  /\ mstage = "run" => snapshot = {}

MigInv == MigType /\ Accounted /\ MigratedExactly /\ RoundsBounded

(* The pages are the numbers the size check of dirty_pages lets through.     *)
LEMMA PagesAre == Pages = {n \in Nat : n < NPages}
BY MigrationNumbers, SMTT(60) DEF Pages

(* Every step of the guest and of the driver keeps the invariant.            *)
LEMMA MigStep ==
  ASSUME MigInv, [MigNext]_migVars
  PROVE  MigInv'
<1> USE MigrationNumbers DEF MigInv
<1>1. \A p \in Pages : GuestWrites(p) => MigInv'
  BY SMTT(60) DEF GuestWrites, MigType, Accounted, MigratedExactly, RoundsBounded
<1>2. \A padding \in {{}, Bits \ Pages}, dt \in Intervals : ProcessSnapshot(padding, dt) => MigInv'
  <2> SUFFICES ASSUME NEW padding \in {{}, Bits \ Pages}, NEW dt \in Intervals, ProcessSnapshot(padding, dt)
               PROVE  MigInv'
    OBVIOUS
  <2>1. padding \cap Pages = {} /\ padding \subseteq Nat
    BY SMTT(60) DEF Bits
  <2>2. DirtyPages(dirtyLog \cup padding) = dirtyLog
    BY <2>1, PagesAre DEF DirtyPages, MigType
  <2>3. MigType' /\ Accounted'
    BY <2>2, SMTT(60) DEF ProcessSnapshot, MigType, Accounted
  <2>6. MigratedExactly'
    BY DEF ProcessSnapshot, MigratedExactly
  <2>4. mstage' = "send" => ~ShouldStopAndCopy(dirtyLog \cup padding, dt, round + 1)
    BY DEF ProcessSnapshot
  <2>5. RoundsBounded'
    BY <2>4, SMTT(60) DEF ProcessSnapshot, ShouldStopAndCopy, RoundsBounded, MigType
  <2> QED BY <2>3, <2>5, <2>6
<1>3. SendPages => MigInv'
  BY DEF SendPages, MigType, Accounted, MigratedExactly, RoundsBounded
<1>4. PauseGuest => MigInv'
  BY DEF PauseGuest, MigType, Accounted, MigratedExactly, RoundsBounded
<1>5. SendFinal => MigInv'
  <2> SUFFICES ASSUME SendFinal PROVE MigInv'
    OBVIOUS
  <2>1. DirtyPages(dirtyLog) = dirtyLog
    BY PagesAre DEF DirtyPages, MigType
  <2>2. \A p \in Pages : dest'[p] = source[p] \/ (driver = "drops" /\ p \in snapshot)
    BY <2>1 DEF SendFinal, MigType, Accounted
  <2>3. dest' \in [Pages -> Nat]
    BY DEF SendFinal, MigType
  <2> QED
    BY <2>2, <2>3 DEF SendFinal, MigType, Accounted, MigratedExactly, RoundsBounded
<1>6. UNCHANGED migVars => MigInv'
  BY DEF migVars, MigType, Accounted, MigratedExactly, RoundsBounded
<1> QED
  BY <1>1, <1>2, <1>3, <1>4, <1>5, <1>6 DEF MigNext

(* A guest resumes with the memory it was paused with, after at most         *)
(* max_rounds rounds, for every number of pages, every threshold and every   *)
(* pattern of writes; a driver that sends only what changed after the last   *)
(* snapshot loses pages of that snapshot and no others.                      *)
THEOREM MigrationIsExact == MigSpec => []MigrationExact
<1>1. MigInit => MigInv
  BY MigrationNumbers, SMTT(60) DEF MigInit, MigInv, MigType, Accounted, MigratedExactly, RoundsBounded
<1>2. MigInv => MigrationExact
  BY DEF MigInv, MigrationExact
<1>3. MigInv /\ [MigNext]_migVars => MigInv'
  BY MigStep
<1> QED
  BY <1>1, <1>2, <1>3, PTL DEF MigSpec
============================================================================
