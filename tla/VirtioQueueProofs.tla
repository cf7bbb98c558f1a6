-------------------------- MODULE VirtioQueueProofs --------------------------
(***************************************************************************)
(* VirtioQueue for every size of a queue and every modulus of the ring     *)
(* indices that the size divides.  The invariant counts, from where the    *)
(* driver looks next: the chains it may see (u), those the device has      *)
(* handled (d), and those that are posted (all of drv.order).  Indices and *)
(* slots are these counts modulo Wrap and QSize; no more than QSize chains *)
(* are outstanding because their heads differ, so no slot is reused early. *)
(***************************************************************************)
EXTENDS VirtioQueue, FiniteSetTheorems, TLAPS

(* The leaves are first-order and go to Zenon; those that count cite the   *)
(* SMT solver.                                                            *)
USE ZenonT(60)

Ring == [Heads -> Heads]
Index == 0 .. Wrap - 1

TypeQ ==
  /\ q \in [ready : BOOLEAN, lastAvail : Index, lastUsed : Index]
  /\ used \in [idx : Index, ring : Ring] /\ avail \in [idx : Index, ring : Ring]
  /\ job \in [on : BOOLEAN, limit : Index, did : BOOLEAN, end : BOOLEAN, ok : BOOLEAN]
  /\ "good" \in chains /\ chain \in [Heads -> chains] /\ answer \in [Heads -> Nat]
  /\ drv \in [pc : {"init", "idle", "failed", "irq", "collect"}, order : Seq(Heads), seen : Index,
              kick : BOOLEAN, got : Seq(Nat), broke : BOOLEAN]
  /\ frames \in [sent : Nat, taken : Nat, lost : SUBSET Nat]

(* The transport's status and what follows from it. *)
StatusInv ==
  /\ activated => "driver_ok" \in dstatus
  /\ acked \subseteq Features(devKind)

(* The k-th chain from where the driver looks next. *)
Slot(k) == (drv.seen + k) % QSize
Count(k) == (drv.seen + k) % Wrap

Counted(u, d) ==
  /\ u <= d /\ d <= Len(drv.order)
  /\ used.idx = Count(u) /\ q.lastUsed = Count(d) /\ q.lastAvail = Count(d)
  /\ avail.idx = Count(Len(drv.order))
  /\ (job.on /\ devKind # "balloon") => \E l \in d .. Len(drv.order) : job.limit = Count(l)

Placed(d) ==
  /\ \A i, j \in 1 .. Len(drv.order) : i # j => drv.order[i] # drv.order[j]
  /\ \A k \in 1 .. Len(drv.order) : avail.ring[Slot(k - 1)] = drv.order[k]
  /\ \A k \in 1 .. d : used.ring[Slot(k - 1)] = drv.order[k] /\ answer[drv.order[k]] # 0

(* What is not published yet is the work of a job, unless one broke off.   *)
Published(u, d) ==
  /\ (~drv.broke /\ ~(job.on /\ job.did)) => u = d
  /\ (job.on /\ ~job.ok) => drv.broke

(* The frames handed over and those waiting in answered chains, in order.  *)
FrameOrder(d) ==
  /\ devKind # "rx" => drv.got = <<>>
  /\ \A i, j \in 1 .. Len(drv.got) : i < j => drv.got[i] < drv.got[j]
  /\ \A i \in 1 .. Len(drv.got) : drv.got[i] <= frames.taken
  /\ devKind = "rx" =>
       \A k \in 1 .. d :
         /\ answer[drv.order[k]] <= frames.taken
         /\ \A i \in 1 .. Len(drv.got) : drv.got[i] < answer[drv.order[k]]
         /\ \A j \in 1 .. d : j < k => answer[drv.order[j]] < answer[drv.order[k]]
  /\ chains = {"good"} => frames.lost = {}

QInv ==
  /\ TypeQ /\ StatusInv
  /\ \E u, d \in Nat : Counted(u, d) /\ Placed(d) /\ Published(u, d) /\ FrameOrder(d)

----------------------------------------------------------------------------
(* Arithmetic of the indices. *)

(* A number is its quotient and its residue. *)
LEMMA Divide ==
  ASSUME NEW m \in Nat \ {0}, NEW x \in Nat
  PROVE  \E a \in Nat, r \in 0 .. m - 1 : x = m * a + r /\ x % m = r
<1>1. x \div m \in Nat
  BY SMTT(60)
<1>2. x % m \in 0 .. m - 1
  BY SMTT(60)
<1>3. x = m * (x \div m) + (x % m)
  BY SMTT(60)
<1> QED
  BY <1>1, <1>2, <1>3

(* A residue is its own remainder. *)
LEMMA Residue ==
  ASSUME NEW m \in Nat \ {0}, NEW a \in Nat, NEW r \in 0 .. m - 1
  PROVE  (m * a + r) % m = r
BY SMTT(60)

(* Adding to a residue. *)
LEMMA AddMod ==
  ASSUME NEW m \in Nat \ {0}, NEW x \in Nat, NEW k \in Nat
  PROVE  ((x % m) + k) % m = (x + k) % m
<1>1. PICK a \in Nat, r \in 0 .. m - 1 : x = m * a + r /\ x % m = r
  BY Divide
<1>2. PICK b \in Nat, s \in 0 .. m - 1 : r + k = m * b + s /\ (r + k) % m = s
  <2>1. r + k \in Nat
    BY SMTT(60)
  <2> QED
    BY <2>1, Divide
<1>3. x + k = m * (a + b) + s /\ a + b \in Nat
  BY <1>1, <1>2, SMTT(60)
<1>4. (m * (a + b) + s) % m = s
  BY <1>3, Residue
<1> QED
  BY <1>1, <1>2, <1>3, <1>4

(* QueueGeometry with the quotient named. *)
LEMMA Geometry ==
  /\ QSize \in Nat \ {0} /\ Wrap \in Nat \ {0} /\ QSize < Wrap
  /\ \E t \in Nat : Wrap = QSize * t
<1>1. /\ QSize \in Nat \ {0} /\ Wrap \in Nat \ {0} /\ QSize < Wrap /\ Wrap % QSize = 0
  BY QueueGeometry, SMTT(60)
<1>2. PICK t \in Nat, r \in 0 .. QSize - 1 : Wrap = QSize * t + r /\ Wrap % QSize = r
  BY <1>1, Divide
<1> QED
  BY <1>1, <1>2, SMTT(60)

(* A slot is the same whether or not the index has wrapped. *)
LEMMA SlotOfIndex ==
  ASSUME NEW x \in Nat, NEW k \in Nat
  PROVE  ((x % Wrap) + k) % QSize = (x + k) % QSize
<1>1. PICK t \in Nat : Wrap = QSize * t
  BY Geometry
<1>2. PICK a \in Nat, y \in 0 .. Wrap - 1 : x = Wrap * a + y /\ x % Wrap = y
  BY Divide, Geometry
<1>3. PICK b \in Nat, s \in 0 .. QSize - 1 : y + k = QSize * b + s /\ (y + k) % QSize = s
  <2>1. y + k \in Nat
    BY Geometry, SMTT(60)
  <2> QED
    BY <2>1, Divide, Geometry
<1>4. x + k = QSize * (t * a + b) + s /\ t * a + b \in Nat
  <2>1. x + k = Wrap * a + (QSize * b + s)
    <3>1. Wrap * a \in Nat /\ QSize * b \in Nat
      BY Geometry, SMTT(60)
    <3> QED
      BY <1>2, <1>3, <3>1, SMTT(60)
  <2>2. Wrap * a = QSize * (t * a)
    BY <1>1, Geometry, SMTT(60)
  <2> QED
    BY <2>1, <2>2, Geometry, SMTT(60)
<1>5. (QSize * (t * a + b) + s) % QSize = s
  BY <1>4, Residue, Geometry
<1> QED
  BY <1>2, <1>3, <1>4, <1>5

(* Two numbers less than m apart have different residues. *)
LEMMA Apart ==
  ASSUME NEW m \in Nat \ {0}, NEW x \in Nat, NEW i \in Nat, NEW j \in Nat, i < j, j < i + m
  PROVE  (x + i) % m # (x + j) % m
<1>1. x + i \in Nat /\ x + j \in Nat
  BY SMTT(60)
<1>2. PICK a \in Nat, r \in 0 .. m - 1 : x + i = m * a + r /\ (x + i) % m = r
  BY <1>1, Divide
<1>3. PICK b \in Nat, s \in 0 .. m - 1 : x + j = m * b + s /\ (x + j) % m = s
  BY <1>1, Divide
<1> SUFFICES ASSUME r = s PROVE FALSE
  BY <1>2, <1>3
<1>4. j - i = m * (b - a)
  BY <1>2, <1>3, SMTT(60)
<1>5. b - a < 1 \/ b - a >= 1
  BY SMTT(60)
<1>6. b - a >= 1 => m * (b - a) >= m
  BY SMTT(60)
<1>7. b - a < 1 => m * (b - a) <= 0
  BY SMTT(60)
<1> QED
  BY <1>4, <1>5, <1>6, <1>7, SMTT(60)

(* Ahead is the difference of two counts. *)
LEMMA AheadIs ==
  ASSUME NEW x \in Index, NEW u \in Nat, u <= QSize
  PROVE  Ahead((x + u) % Wrap, x) = u
<1>1. Wrap \in Nat \ {0} /\ u < Wrap /\ x \in Nat /\ x < Wrap
  BY Geometry, SMTT(60) DEF Index
<1>2. CASE x + u < Wrap
  <2>1. (x + u) % Wrap = x + u
    BY <1>1, <1>2, SMTT(60)
  <2>2. (Wrap * 1 + u) % Wrap = u
    BY <1>1, Residue, SMTT(60)
  <2>3. Wrap * 1 + u = (x + u) - x + Wrap
    BY <1>1, SMTT(60)
  <2>4. ((x + u) - x + Wrap) % Wrap = u
    BY <2>2, <2>3
  <2> QED
    BY <2>1, <2>4 DEF Ahead
<1>3. CASE x + u >= Wrap
  <2>1. (x + u) % Wrap = x + u - Wrap
    BY <1>1, <1>3, Residue, SMTT(60)
  <2>2. (x + u - Wrap) - x + Wrap = u /\ u % Wrap = u
    BY <1>1, SMTT(60)
  <2> QED
    BY <2>1, <2>2 DEF Ahead
<1> QED
  BY <1>1, <1>2, <1>3, SMTT(60)

(* Heads that differ are no more than there are. *)
LEMMA FewOutstanding ==
  ASSUME NEW s \in Seq(Heads), \A i, j \in 1 .. Len(s) : i # j => s[i] # s[j]
  PROVE  Len(s) <= QSize
<1>1. s \in Injection(1 .. Len(s), Heads)
  BY SMTT(60) DEF Injection, IsInjective
<1>2. IsFiniteSet(Heads) /\ Cardinality(Heads) = QSize
  BY FS_Interval, Geometry, SMTT(60) DEF Heads
<1>3. Cardinality(1 .. Len(s)) <= Cardinality(Heads)
  BY <1>1, <1>2, FS_Injection
<1>4. Cardinality(1 .. Len(s)) = Len(s)
  BY FS_Interval, SMTT(60)
<1> QED
  BY <1>2, <1>3, <1>4

----------------------------------------------------------------------------
(* Counts and slots. *)

(* Counts are indices, slots are heads, and adding one carries over. *)
LEMMA CountFacts ==
  ASSUME drv.seen \in Index, NEW k \in Nat
  PROVE  /\ Count(k) \in Index /\ Slot(k) \in Heads
         /\ (Count(k) + 1) % Wrap = Count(k + 1)
         /\ Count(k) % QSize = Slot(k)
<1>1. drv.seen + k \in Nat /\ (drv.seen + k) + 1 = drv.seen + (k + 1) /\ drv.seen \in Nat
  BY Geometry, SMTT(60) DEF Index
<1>2. Count(k) \in Index /\ Slot(k) \in Heads
  BY <1>1, Geometry, SMTT(60) DEF Count, Slot, Index, Heads
<1>3. (((drv.seen + k) % Wrap) + 1) % Wrap = ((drv.seen + k) + 1) % Wrap
  BY <1>1, AddMod, Geometry
<1>4. (((drv.seen + k) % Wrap) + 0) % QSize = ((drv.seen + k) + 0) % QSize
  BY <1>1, SlotOfIndex
<1>5. (drv.seen + k) % Wrap \in Nat
  BY <1>2, Geometry, SMTT(60) DEF Count, Index
<1>6. ((drv.seen + k) % Wrap) + 0 = (drv.seen + k) % Wrap /\ (drv.seen + k) + 0 = drv.seen + k
  BY <1>1, <1>5, SMTT(60)
<1>7. (Count(k) + 1) % Wrap = Count(k + 1)
  BY <1>1, <1>3 DEF Count
<1>8. Count(k) % QSize = Slot(k)
  BY <1>4, <1>6 DEF Count, Slot
<1> QED
  BY <1>2, <1>7, <1>8

(* Up to QSize counts from the driver on, indices and slots differ. *)
LEMMA CountsApart ==
  ASSUME drv.seen \in Index, NEW i \in 0 .. QSize, NEW j \in 0 .. QSize, i # j
  PROVE  /\ Count(i) # Count(j)
         /\ i < QSize /\ j < QSize => Slot(i) # Slot(j)
<1>1. drv.seen \in Nat /\ QSize \in Nat \ {0} /\ Wrap \in Nat \ {0} /\ QSize < Wrap /\ i \in Nat /\ j \in Nat
  BY Geometry, SMTT(60) DEF Index
<1>2. CASE i < j
  <2>1. j < i + Wrap
    BY <1>1, SMTT(60)
  <2>2. (drv.seen + i) % Wrap # (drv.seen + j) % Wrap
    BY <1>1, <1>2, <2>1, Apart
  <2>3. j < QSize => (drv.seen + i) % QSize # (drv.seen + j) % QSize
    <3>1. j < QSize => j < i + QSize
      BY <1>1, SMTT(60)
    <3> QED
      BY <1>1, <1>2, <3>1, Apart
  <2> QED
    BY <2>2, <2>3 DEF Count, Slot
<1>3. CASE j < i
  <2>1. i < j + Wrap
    BY <1>1, SMTT(60)
  <2>2. (drv.seen + j) % Wrap # (drv.seen + i) % Wrap
    BY <1>1, <1>3, <2>1, Apart
  <2>3. i < QSize => (drv.seen + j) % QSize # (drv.seen + i) % QSize
    <3>1. i < QSize => i < j + QSize
      BY <1>1, SMTT(60)
    <3> QED
      BY <1>1, <1>3, <3>1, Apart
  <2> QED
    BY <2>2, <2>3 DEF Count, Slot
<1> QED
  BY <1>1, <1>2, <1>3, SMTT(60)

(* Where the driver looks moves on by one. *)
LEMMA CountShift ==
  ASSUME drv.seen \in Index, drv'.seen = (drv.seen + 1) % Wrap, NEW k \in Nat
  PROVE  Count(k)' = Count(k + 1) /\ Slot(k)' = Slot(k + 1)
<1>1. drv.seen + 1 \in Nat /\ (drv.seen + 1) + k = drv.seen + (k + 1)
  BY Geometry, SMTT(60) DEF Index
<1>2. (((drv.seen + 1) % Wrap) + k) % Wrap = ((drv.seen + 1) + k) % Wrap
  BY <1>1, AddMod, Geometry
<1>3. (((drv.seen + 1) % Wrap) + k) % QSize = ((drv.seen + 1) + k) % QSize
  BY <1>1, SlotOfIndex
<1> QED
  BY <1>1, <1>2, <1>3 DEF Count, Slot

RingState(u, d) == Counted(u, d) /\ Placed(d) /\ Published(u, d) /\ FrameOrder(d)

(* What the counts say, in the terms of the code. *)
LEMMA RingFacts ==
  ASSUME TypeQ, NEW u \in Nat, NEW d \in Nat, RingState(u, d)
  PROVE  /\ drv.seen \in Index /\ drv.order \in Seq(Heads) /\ Len(drv.order) \in Nat
         /\ u <= d /\ d <= Len(drv.order) /\ Len(drv.order) <= QSize
         /\ Ahead(used.idx, drv.seen) = u
         /\ (used.idx = drv.seen) <=> (u = 0)
<1>1. drv.seen \in Index /\ drv.order \in Seq(Heads) /\ Len(drv.order) \in Nat
  BY SMTT(60) DEF TypeQ
<1>2. u <= d /\ d <= Len(drv.order) /\ used.idx = Count(u)
  BY DEF RingState, Counted
<1>3. Len(drv.order) <= QSize
  BY <1>1, FewOutstanding DEF RingState, Placed
<1>4. u <= QSize /\ QSize \in Nat /\ Wrap \in Nat
  BY <1>1, <1>2, <1>3, Geometry, SMTT(60)
<1>5. Ahead(used.idx, drv.seen) = u
  BY <1>1, <1>2, <1>4, AheadIs DEF Count
<1>6. Count(0) = drv.seen
  BY <1>1, <1>4, Geometry, SMTT(60) DEF Count, Index
<1>7. (used.idx = drv.seen) <=> (u = 0)
  BY <1>1, <1>2, <1>4, <1>6, CountsApart, SMTT(60)
<1> QED
  BY <1>1, <1>2, <1>3, <1>5, <1>7

----------------------------------------------------------------------------
(* Steps that leave the rings and the counts alone. *)

Untouched ==
  /\ UNCHANGED <<devKind, chains, used, avail, answer>>
  /\ q'.lastAvail = q.lastAvail /\ q'.lastUsed = q.lastUsed
  /\ drv'.order = drv.order /\ drv'.seen = drv.seen /\ drv'.got = drv.got /\ drv'.broke = drv.broke
  /\ frames'.taken = frames.taken /\ frames'.lost = frames.lost

(* A step that leaves the rings and the job alone keeps the counts. *)
LEMMA UntouchedKeeps ==
  ASSUME NEW u \in Nat, NEW d \in Nat, RingState(u, d), Untouched, job' = job
  PROVE  RingState(u, d)'
<1>1. \A k \in Nat : Count(k)' = Count(k) /\ Slot(k)' = Slot(k)
  BY DEF Untouched, Count, Slot
<1>2. Counted(u, d)'
  BY DEF RingState, Counted, Untouched, Count
<1>3. Placed(d)'
  BY SMTT(60) DEF RingState, Placed, Untouched, Slot
<1>4. Published(u, d)'
  BY DEF RingState, Published, Untouched
<1>5. FrameOrder(d)'
  BY DEF RingState, FrameOrder, Untouched
<1> QED
  BY <1>2, <1>3, <1>4, <1>5 DEF RingState

(* process_queue begins with the avail index as it is. *)
LEMMA StartJobKeeps ==
  ASSUME TypeQ, NEW u \in Nat, NEW d \in Nat, RingState(u, d), Locked, StartJob, Untouched
  PROVE  RingState(u, d)'
<1>0. /\ ~job.on /\ job'.limit = avail.idx /\ ~job'.did /\ job'.ok
      /\ d \in 0 .. Len(drv.order) /\ Len(drv.order) \in Nat
  BY RingFacts, SMTT(60) DEF Locked, StartJob, NoJob
<1>1. Counted(u, d)'
  BY <1>0, SMTT(60) DEF RingState, Counted, Untouched, Count
<1>2. Placed(d)'
  BY SMTT(60) DEF RingState, Placed, Untouched, Slot
<1>3. Published(u, d)'
  BY <1>0 DEF RingState, Published, Untouched
<1>4. FrameOrder(d)'
  BY DEF RingState, FrameOrder, Untouched
<1> QED
  BY <1>1, <1>2, <1>3, <1>4 DEF RingState

Quiet ==
  \/ DriverWrites \/ WriteQueue \/ (\E f \in {{"v1"}, {"ro", "other"}} : AckFeatures(f))
  \/ TakeInterrupt \/ InterruptAck \/ Collected \/ FrameArrives

(* Setup, interrupts and the host leave the rings alone. *)
LEMMA QuietKeeps ==
  ASSUME TypeQ, NEW u \in Nat, NEW d \in Nat, RingState(u, d), Quiet
  PROVE  TypeQ' /\ RingState(u, d)' /\ Untouched
<1>1. CASE DriverWrites
  <2>1. PICK s : WriteStatus(s)
    BY <1>1 DEF DriverWrites
  <2>2. TypeQ' /\ Untouched /\ job' = job
    BY <2>1 DEF WriteStatus, TypeQ, Untouched, deviceVars, hostVars
  <2> QED
    BY <2>2, UntouchedKeeps
<1>2. CASE WriteQueue
  <2>1. TypeQ' /\ Untouched /\ job' = job
    BY <1>2 DEF WriteQueue, TypeQ, Untouched, deviceVars, hostVars, guestVars
  <2> QED
    BY <2>1, UntouchedKeeps
<1>3. CASE \E f \in {{"v1"}, {"ro", "other"}} : AckFeatures(f)
  <2>1. TypeQ' /\ Untouched /\ job' = job
    BY <1>3, SMTT(60) DEF AckFeatures, TypeQ, Untouched, deviceVars, hostVars, guestVars
  <2> QED
    BY <2>1, UntouchedKeeps
<1>4. CASE TakeInterrupt
  <2>1. TypeQ' /\ Untouched /\ job' = job
    BY <1>4 DEF TakeInterrupt, TypeQ, Untouched, deviceVars, hostVars
  <2> QED
    BY <2>1, UntouchedKeeps
<1>5. CASE InterruptAck
  <2>1. TypeQ' /\ Untouched /\ job' = job
    BY <1>5 DEF InterruptAck, TypeQ, Untouched, deviceVars, hostVars
  <2> QED
    BY <2>1, UntouchedKeeps
<1>6. CASE Collected
  <2>1. TypeQ' /\ Untouched /\ job' = job
    BY <1>6 DEF Collected, TypeQ, Untouched, deviceVars, hostVars, transportVars
  <2> QED
    BY <2>1, UntouchedKeeps
<1>7. CASE FrameArrives
  <2>1. frames' \in [sent : Nat, taken : Nat, lost : SUBSET Nat]
    <3>1. frames.sent + 1 \in Nat
      BY SMTT(60) DEF TypeQ
    <3> QED
      BY <1>7, <3>1 DEF FrameArrives, TypeQ
  <2>2. frames'.taken = frames.taken /\ frames'.lost = frames.lost
    BY <1>7 DEF FrameArrives, TypeQ
  <2>3. TypeQ' /\ Untouched /\ job' = job
    BY <1>7, <2>1, <2>2 DEF FrameArrives, TypeQ, Untouched, deviceVars, guestVars, transportVars
  <2> QED
    BY <2>3, UntouchedKeeps
<1> QED
  BY <1>1, <1>2, <1>3, <1>4, <1>5, <1>6, <1>7 DEF Quiet

(* The records the driver's state is drawn from. *)
DriverType ==
  [pc : {"init", "idle", "failed", "irq", "collect"}, order : Seq(Heads), seen : Index,
   kick : BOOLEAN, got : Seq(Nat), broke : BOOLEAN]

(* Taking the kick leaves the rest of the driver's record alone. *)
LEMMA KickTyped ==
  ASSUME NEW x \in DriverType, NEW y, y = [x EXCEPT !.kick = FALSE] \/ y = x
  PROVE  /\ y \in DriverType
         /\ y.order = x.order /\ y.seen = x.seen /\ y.got = x.got /\ y.broke = x.broke
  BY DEF DriverType

(* A notification starts a job and moves nothing. *)
LEMMA NotifyKeeps ==
  ASSUME TypeQ, NEW u \in Nat, NEW d \in Nat, RingState(u, d), Notify \/ ProcessExternalQueue
  PROVE  TypeQ' /\ RingState(u, d)' /\ Untouched
<1>1. job' \in [on : BOOLEAN, limit : Index, did : BOOLEAN, end : BOOLEAN, ok : BOOLEAN]
  BY DEF Notify, ProcessExternalQueue, StartJob, NoJob, TypeQ
<1>a. UNCHANGED <<deviceVars, transportVars, avail, chain, hostVars>>
  BY DEF Notify, ProcessExternalQueue, guestVars, deviceVars, transportVars, hostVars
<1>b. drv' = [drv EXCEPT !.kick = FALSE] \/ drv' = drv
  BY DEF Notify, ProcessExternalQueue, guestVars
<1>c. /\ drv' \in DriverType
      /\ drv'.order = drv.order /\ drv'.seen = drv.seen /\ drv'.got = drv.got /\ drv'.broke = drv.broke
  BY <1>b, KickTyped DEF TypeQ, DriverType
<1>2. TypeQ' /\ Untouched
  BY <1>1, <1>a, <1>c DEF TypeQ, Untouched, DriverType, deviceVars, transportVars, hostVars
<1> QED
  BY <1>2, StartJobKeeps DEF Notify, ProcessExternalQueue

(* A reset of the driver starts over. *)
LEMMA ResetKeeps ==
  ASSUME TypeQ, NEW u \in Nat, NEW d \in Nat, RingState(u, d), DriverResets
  PROVE  /\ TypeQ' /\ RingState(0, 0)'
         /\ drv'.order = <<>>
<1>1. /\ drv'.order = <<>> /\ drv'.seen = 0 /\ drv'.got = drv.got /\ ~drv'.broke
      /\ drv' \in [pc : {"init", "idle", "failed", "irq", "collect"}, order : Seq(Heads), seen : Index,
                   kick : BOOLEAN, got : Seq(Nat), broke : BOOLEAN]
  <2>1. 0 \in Index /\ <<>> \in Seq(Heads)
    BY Geometry, SMTT(60) DEF Index
  <2> QED
    BY <2>1 DEF DriverResets, TypeQ
<1>2. /\ 0 \in Index /\ 0 \in Heads /\ Wrap \in Nat /\ 0 % Wrap = 0
  BY Geometry, SMTT(60) DEF Index, Heads
<1>3. q' = FreshQueue /\ used' = EmptyRing /\ avail' = EmptyRing /\ ~job.on /\ job' = job
  BY DEF DriverResets, MmioReset, Locked
<1>4. /\ q' \in [ready : BOOLEAN, lastAvail : Index, lastUsed : Index] /\ q'.lastAvail = 0 /\ q'.lastUsed = 0
      /\ used' \in [idx : Index, ring : Ring] /\ avail' \in [idx : Index, ring : Ring]
      /\ used'.idx = 0 /\ avail'.idx = 0
  BY <1>2, <1>3 DEF FreshQueue, EmptyRing, Ring
<1>5. TypeQ'
  BY <1>1, <1>3, <1>4 DEF DriverResets, TypeQ, deviceVars
<1>6. Len(drv'.order) = 0 /\ Count(0)' = 0
  BY <1>1, <1>2, SMTT(60) DEF Count
<1>7. Counted(0, 0)'
  BY <1>3, <1>4, <1>6, SMTT(60) DEF Counted
<1>8. Placed(0)'
  BY <1>6, SMTT(60) DEF Placed
<1>9. Published(0, 0)'
  BY <1>3 DEF Published
<1>10. FrameOrder(0)'
  BY <1>1, <1>6, SMTT(60) DEF RingState, FrameOrder, DriverResets, deviceVars
<1> QED
  BY <1>1, <1>5, <1>7, <1>8, <1>9, <1>10 DEF RingState

----------------------------------------------------------------------------
(* The driver posts a chain. *)

(* A posted chain is the last one and its head was free. *)
LEMMA PostKeeps ==
  ASSUME TypeQ, NEW u \in Nat, NEW d \in Nat, RingState(u, d),
         NEW h \in Heads, NEW c \in chains, Post(h, c)
  PROVE  /\ TypeQ' /\ RingState(u, d)'
         /\ drv'.order = Append(drv.order, h) /\ drv'.seen = drv.seen /\ UNCHANGED used
         /\ \A i \in 1 .. Len(drv.order) : drv.order[i] # h
<1>1. PICK n \in Nat : n = Len(drv.order)
  BY RingFacts
<1>2. /\ drv.seen \in Index /\ drv.order \in Seq(Heads) /\ u <= d /\ d <= n /\ n <= QSize
  BY <1>1, RingFacts
<1>3. /\ drv'.order = Append(drv.order, h) /\ drv'.seen = drv.seen /\ drv'.got = drv.got
      /\ drv'.broke = drv.broke
      /\ drv' \in [pc : {"init", "idle", "failed", "irq", "collect"}, order : Seq(Heads), seen : Index,
                   kick : BOOLEAN, got : Seq(Nat), broke : BOOLEAN]
  <2>1. Append(drv.order, h) \in Seq(Heads)
    BY <1>2, SMTT(60)
  <2> QED
    BY <2>1 DEF Post, TypeQ
<1>4. \A i \in 1 .. n : drv.order[i] # h
  BY <1>1 DEF Post, Outstanding
<1>5. /\ drv'.order \in Seq(Heads) /\ Len(drv'.order) = n + 1 /\ drv'.order[n + 1] = h
      /\ \A i \in 1 .. n : drv'.order[i] = drv.order[i]
  BY <1>1, <1>2, <1>3, SMTT(60)
<1>6. \A i, j \in 1 .. n + 1 : i # j => drv'.order[i] # drv'.order[j]
  <2>1. \A i, j \in 1 .. n : i # j => drv.order[i] # drv.order[j]
    BY <1>1 DEF RingState, Placed
  <2> QED
    BY <1>4, <1>5, <2>1, SMTT(60)
<1>7. n + 1 <= QSize
  BY <1>5, <1>6, FewOutstanding
<1>8. /\ Count(n) \in Index /\ Slot(n) \in Heads /\ Count(n + 1) \in Index
      /\ (Count(n) + 1) % Wrap = Count(n + 1) /\ Count(n) % QSize = Slot(n)
  <2>1. n \in Nat /\ n + 1 \in Nat
    BY <1>1, SMTT(60)
  <2> QED
    BY <1>2, <2>1, CountFacts
<1>9. avail.idx = Count(n) /\ avail.ring \in Ring
  BY <1>1 DEF RingState, Counted, TypeQ
<1>10. avail' = [idx |-> Count(n + 1), ring |-> [avail.ring EXCEPT ![Slot(n)] = h]]
  BY <1>8, <1>9 DEF Post
<1>11. /\ avail' \in [idx : Index, ring : Ring] /\ avail'.idx = Count(n + 1)
       /\ avail'.ring[Slot(n)] = h
       /\ \A s \in Heads : s # Slot(n) => avail'.ring[s] = avail.ring[s]
  BY <1>8, <1>9, <1>10 DEF Ring
<1>12. /\ answer' = [answer EXCEPT ![h] = 0] /\ answer' \in [Heads -> Nat]
       /\ \A i \in 1 .. n : answer'[drv.order[i]] = answer[drv.order[i]]
  BY <1>1, <1>2, <1>4, SMTT(60) DEF Post, TypeQ
<1>13. /\ UNCHANGED <<devKind, chains, q, job, used, frames>> /\ chain' = [chain EXCEPT ![h] = c]
  BY DEF Post, deviceVars, transportVars
<1>14. TypeQ'
  BY <1>3, <1>11, <1>12, <1>13 DEF TypeQ
<1>15. \A k \in Nat : Count(k)' = Count(k) /\ Slot(k)' = Slot(k)
  BY <1>3 DEF Count, Slot
<1>16. Counted(u, d)'
  <2>1. u <= d /\ d <= n + 1 /\ used'.idx = Count(u) /\ q'.lastUsed = Count(d) /\ q'.lastAvail = Count(d)
    BY <1>1, <1>2, <1>13, SMTT(60) DEF RingState, Counted
  <2>2. (job'.on /\ devKind' # "balloon") => \E l \in d .. n + 1 : job'.limit = Count(l)
    BY <1>1, <1>2, <1>13, SMTT(60) DEF RingState, Counted
  <2>3. (job'.on /\ devKind' # "balloon") => \E l \in d .. n + 1 : job'.limit = Count(l)'
    BY <1>15, <2>2, SMTT(60)
  <2> QED
    BY <1>5, <1>11, <1>15, <2>1, <2>3, SMTT(60) DEF Counted
<1>17. Placed(d)'
  <2>1. ASSUME NEW k \in 1 .. n + 1 PROVE avail'.ring[Slot(k - 1)'] = drv'.order[k]
    <3>1. k - 1 \in 0 .. QSize /\ n \in 0 .. QSize /\ k - 1 \in Nat /\ k - 1 < QSize /\ n < QSize
      BY <1>2, <1>7, Geometry, SMTT(60)
    <3>2. CASE k = n + 1
      <4>1. k - 1 = n
        BY <3>2, SMTT(60)
      <4> QED
        BY <1>5, <1>11, <1>15, <3>2, <4>1
    <3>3. CASE k # n + 1
      <4>1. k \in 1 .. n /\ k - 1 # n
        BY <3>3, SMTT(60)
      <4>2. Slot(k - 1) # Slot(n) /\ Slot(k - 1) \in Heads
        BY <1>2, <3>1, <4>1, CountsApart, CountFacts
      <4>3. avail.ring[Slot(k - 1)] = drv.order[k]
        BY <1>1, <4>1 DEF RingState, Placed
      <4> QED
        BY <1>5, <1>11, <1>15, <3>1, <4>1, <4>2, <4>3
    <3> QED
      BY <3>2, <3>3
  <2>2. ASSUME NEW k \in 1 .. d
        PROVE  used'.ring[Slot(k - 1)'] = drv'.order[k] /\ answer'[drv'.order[k]] # 0
    <3>1. k \in 1 .. n /\ k - 1 \in Nat
      BY <1>2, SMTT(60)
    <3>2. used.ring[Slot(k - 1)] = drv.order[k] /\ answer[drv.order[k]] # 0
      BY DEF RingState, Placed
    <3> QED
      BY <1>5, <1>12, <1>13, <1>15, <3>1, <3>2
  <2> QED
    BY <1>5, <1>6, <2>1, <2>2 DEF Placed
<1>18. Published(u, d)'
  BY <1>3, <1>13 DEF RingState, Published
<1>19. FrameOrder(d)'
  <2>1. \A k \in 1 .. d : answer'[drv'.order[k]] = answer[drv.order[k]]
    <3>1. \A k \in 1 .. d : k \in 1 .. n
      BY <1>1, <1>2, SMTT(60)
    <3> QED
      BY <1>5, <1>12, <3>1
  <2> QED
    BY <1>3, <1>13, <2>1 DEF RingState, FrameOrder
<1> QED
  BY <1>1, <1>3, <1>4, <1>13, <1>14, <1>16, <1>17, <1>18, <1>19 DEF RingState

----------------------------------------------------------------------------
(* process_queue takes the next chain. *)

(* A job that goes on has a posted chain in front of it. *)
LEMMA MoreFacts ==
  ASSUME TypeQ, NEW u \in Nat, NEW d \in Nat, RingState(u, d), job.on, More
  PROVE  /\ d + 1 <= Len(drv.order) /\ d + 1 <= QSize
         /\ Head_ = drv.order[d + 1] /\ Head_ \in Heads
         /\ devKind # "balloon" => \E l \in d + 1 .. Len(drv.order) : job.limit = Count(l)
<1>1. PICK n \in Nat : n = Len(drv.order)
  BY RingFacts
<1>2. /\ drv.seen \in Index /\ drv.order \in Seq(Heads) /\ d <= n /\ n <= QSize /\ d \in 0 .. QSize /\ n \in 0 .. QSize
  BY <1>1, RingFacts, Geometry, SMTT(60)
<1>3. q.lastAvail = Count(d) /\ avail.idx = Count(n)
  BY <1>1 DEF RingState, Counted
<1>4. d + 1 \in 1 .. n /\ (devKind # "balloon" => \E l \in d + 1 .. n : job.limit = Count(l))
  <2>1. CASE devKind = "balloon"
    <3>1. d # n
      BY <1>3, <2>1 DEF More
    <3> QED
      BY <1>2, <2>1, <3>1, SMTT(60)
  <2>2. CASE devKind # "balloon"
    <3>1. PICK l \in d .. n : job.limit = Count(l)
      BY <1>1, <2>2 DEF RingState, Counted
    <3>2. d # l
      BY <1>3, <2>2, <3>1 DEF More
    <3>3. l \in d + 1 .. n /\ d + 1 \in 1 .. n
      BY <1>2, <3>1, <3>2, SMTT(60)
    <3> QED
      BY <3>1, <3>3
  <2> QED
    BY <2>1, <2>2
<1>5. avail.ring[Slot(d)] = drv.order[d + 1]
  <2>1. avail.ring[Slot((d + 1) - 1)] = drv.order[d + 1]
    BY <1>1, <1>4 DEF RingState, Placed
  <2>2. (d + 1) - 1 = d
    BY SMTT(60)
  <2> QED
    BY <2>1, <2>2
<1>6. Head_ = avail.ring[Slot(d)]
  BY <1>2, <1>3, CountFacts DEF Head_
<1>7. drv.order[d + 1] \in Heads
  BY <1>1, <1>2, <1>4, SMTT(60)
<1>8. d + 1 <= n /\ d + 1 <= QSize
  BY <1>2, <1>4, Geometry, SMTT(60)
<1> QED
  BY <1>1, <1>4, <1>5, <1>6, <1>7, <1>8

(* What one pass of the loop leaves alone, and what an Advance of it does. *)
LoopFrame ==
  /\ UNCHANGED <<devKind, chains, avail, chain>>
  /\ drv'.order = drv.order /\ drv'.seen = drv.seen /\ drv'.got = drv.got
  /\ drv.broke => drv'.broke
  /\ ~job'.ok => drv'.broke
  /\ job'.on /\ job'.limit = job.limit

Advanced(value) ==
  /\ Advance(value) /\ job'.did
  /\ devKind = "rx" => value = frames.taken + 1 /\ frames'.taken = frames.taken + 1
  /\ devKind # "rx" => frames'.taken = frames.taken
  /\ frames'.lost = frames.lost

(* What returning a chain writes. *)
LEMMA AdvanceTypes ==
  ASSUME TypeQ, NEW u \in Nat, NEW d \in Nat, RingState(u, d), job.on, More,
         NEW value \in Nat \ {0}, Advance(value)
  PROVE  /\ q' \in [ready : BOOLEAN, lastAvail : Index, lastUsed : Index]
         /\ q'.lastAvail = Count(d + 1) /\ q'.lastUsed = Count(d + 1)
         /\ used' \in [idx : Index, ring : Ring]
         /\ used'.ring[Slot(d)] = drv.order[d + 1]
         /\ \A s \in Heads : s # Slot(d) => used'.ring[s] = used.ring[s]
         /\ used'.idx = IF devKind = "balloon" THEN Count(d + 1) ELSE used.idx
         /\ answer' \in [Heads -> Nat] /\ answer'[drv.order[d + 1]] = value
         /\ \A s \in Heads : s # drv.order[d + 1] => answer'[s] = answer[s]
<1>1. drv.seen \in Index /\ d + 1 \in Nat
  BY RingFacts, SMTT(60)
<1>2. q.lastUsed = Count(d) /\ q.lastAvail = Count(d)
  BY DEF RingState, Counted
<1>3. /\ Count(d + 1) \in Index /\ Slot(d) \in Heads /\ (Count(d) + 1) % Wrap = Count(d + 1)
      /\ Count(d) % QSize = Slot(d)
  BY <1>1, CountFacts
<1>4. Head_ = drv.order[d + 1] /\ Head_ \in Heads
  BY MoreFacts
<1>5. q' = [q EXCEPT !.lastAvail = Count(d + 1), !.lastUsed = Count(d + 1)]
  BY <1>2, <1>3 DEF Advance
<1>6. used' = [used EXCEPT !.ring = [used.ring EXCEPT ![Slot(d)] = Head_],
                           !.idx = IF devKind = "balloon" THEN Count(d + 1) ELSE used.idx]
  BY <1>2, <1>3 DEF Advance, TypeQ
<1>7. used.ring \in Ring /\ used.idx \in Index
  BY DEF TypeQ
<1>8. [used.ring EXCEPT ![Slot(d)] = Head_] \in Ring
  BY <1>4, <1>7 DEF Ring
<1>9. /\ used' \in [idx : Index, ring : Ring] /\ used'.ring = [used.ring EXCEPT ![Slot(d)] = Head_]
      /\ used'.idx = IF devKind = "balloon" THEN Count(d + 1) ELSE used.idx
  BY <1>3, <1>6, <1>7, <1>8 DEF TypeQ
<1>10. /\ used'.ring[Slot(d)] = Head_ /\ \A s \in Heads : s # Slot(d) => used'.ring[s] = used.ring[s]
  BY <1>3, <1>7, <1>9 DEF Ring
<1>11. answer' = [answer EXCEPT ![Head_] = value]
  BY DEF Advance
<1>12. /\ answer' \in [Heads -> Nat] /\ answer'[Head_] = value
       /\ \A s \in Heads : s # Head_ => answer'[s] = answer[s]
  BY <1>4, <1>11 DEF TypeQ
<1>13. /\ q' \in [ready : BOOLEAN, lastAvail : Index, lastUsed : Index]
       /\ q'.lastAvail = Count(d + 1) /\ q'.lastUsed = Count(d + 1)
  BY <1>3, <1>5 DEF TypeQ
<1> QED
  BY <1>4, <1>9, <1>10, <1>12, <1>13

(* Returning a chain counts it as handled, for the balloon as visible too. *)
LEMMA AdvanceKeeps ==
  ASSUME TypeQ, NEW u \in Nat, NEW d \in Nat, RingState(u, d), job.on, More, LoopFrame,
         NEW value \in Nat \ {0}, Advanced(value)
  PROVE  \E v \in {u, d + 1} : RingState(v, d + 1)'
<1>1. PICK n \in Nat : n = Len(drv.order)
  BY RingFacts
<1>2. /\ drv.seen \in Index /\ drv.order \in Seq(Heads) /\ u <= d /\ d + 1 <= n /\ n <= QSize
      /\ d + 1 \in 1 .. n
  BY <1>1, RingFacts, MoreFacts, SMTT(60)
<1>3. /\ q'.lastAvail = Count(d + 1) /\ q'.lastUsed = Count(d + 1)
      /\ used'.ring[Slot(d)] = drv.order[d + 1]
      /\ \A s \in Heads : s # Slot(d) => used'.ring[s] = used.ring[s]
      /\ used'.idx = (IF devKind = "balloon" THEN Count(d + 1) ELSE used.idx)
      /\ answer'[drv.order[d + 1]] = value
      /\ \A s \in Heads : s # drv.order[d + 1] => answer'[s] = answer[s]
  BY AdvanceTypes, SMTT(60) DEF Advanced
<1>4. /\ UNCHANGED <<devKind, chains, avail, chain>>
      /\ drv'.order = drv.order /\ drv'.seen = drv.seen /\ drv'.got = drv.got
      /\ (drv.broke => drv'.broke) /\ (~job'.ok => drv'.broke)
      /\ job'.on /\ job'.did /\ job'.limit = job.limit
  BY DEF LoopFrame, Advanced
<1>5. \A k \in Nat : Count(k)' = Count(k) /\ Slot(k)' = Slot(k)
  BY <1>4 DEF Count, Slot
<1>6. PICK v \in Nat : v \in {u, d + 1} /\ v = IF devKind = "balloon" THEN d + 1 ELSE u
  BY SMTT(60)
<1>7. v <= d + 1 /\ used'.idx = Count(v)
  <2>1. used.idx = Count(u)
    BY DEF RingState, Counted
  <2> QED
    BY <1>2, <1>3, <1>6, <2>1, SMTT(60)
<1>8. Counted(v, d + 1)'
  <2>1. avail'.idx = Count(n)
    BY <1>1, <1>4 DEF RingState, Counted
  <2>2. devKind # "balloon" => \E l \in d + 1 .. n : job'.limit = Count(l)
    BY <1>1, <1>4, MoreFacts
  <2>3. devKind # "balloon" => \E l \in d + 1 .. n : job'.limit = Count(l)'
    BY <1>5, <2>2, SMTT(60)
  <2> QED
    BY <1>1, <1>2, <1>3, <1>4, <1>5, <1>7, <2>1, <2>3, SMTT(60) DEF Counted
<1>9. \A i, j \in 1 .. n : i # j => drv.order[i] # drv.order[j]
  BY <1>1 DEF RingState, Placed
<1>10. \A k \in 1 .. d : k \in 1 .. n /\ drv.order[k] \in Heads /\ drv.order[k] # drv.order[d + 1]
  BY <1>1, <1>2, <1>9, SMTT(60)
<1>11. \A k \in 1 .. d : answer'[drv.order[k]] = answer[drv.order[k]]
  BY <1>3, <1>10
<1>12. Placed(d + 1)'
  <2>1. ASSUME NEW k \in 1 .. d + 1
        PROVE  used'.ring[Slot(k - 1)] = drv.order[k] /\ answer'[drv.order[k]] # 0
    <3>1. CASE k = d + 1
      <4>1. k - 1 = d
        BY <3>1, SMTT(60)
      <4> QED
        BY <1>3, <3>1, <4>1
    <3>2. CASE k # d + 1
      <4>1. k \in 1 .. d /\ k - 1 \in 0 .. QSize /\ d \in 0 .. QSize /\ k - 1 # d /\ k - 1 \in Nat
            /\ k - 1 < QSize /\ d < QSize
        BY <1>2, <3>2, Geometry, SMTT(60)
      <4>2. Slot(k - 1) # Slot(d) /\ Slot(k - 1) \in Heads
        BY <1>2, <4>1, CountsApart, CountFacts
      <4>3. used.ring[Slot(k - 1)] = drv.order[k] /\ answer[drv.order[k]] # 0
        BY <4>1 DEF RingState, Placed
      <4> QED
        BY <1>3, <1>11, <4>1, <4>2, <4>3
    <3> QED
      BY <3>1, <3>2
  <2>2. \A k \in 1 .. d + 1 : used'.ring[Slot(k - 1)'] = drv.order[k] /\ answer'[drv.order[k]] # 0
    <3>1. \A k \in 1 .. d + 1 : k - 1 \in Nat
      BY SMTT(60)
    <3> QED
      BY <1>5, <2>1, <3>1
  <2>3. \A k \in 1 .. n : avail'.ring[Slot(k - 1)'] = drv.order[k]
    <3>1. \A k \in 1 .. n : k - 1 \in Nat
      BY SMTT(60)
    <3>2. \A k \in 1 .. n : avail.ring[Slot(k - 1)] = drv.order[k]
      BY <1>1 DEF RingState, Placed
    <3> QED
      BY <1>4, <1>5, <3>1, <3>2
  <2> QED
    BY <1>1, <1>4, <1>9, <2>2, <2>3, SMTT(60) DEF Placed
<1>13. Published(v, d + 1)'
  BY <1>4 DEF Published
<1>14. FrameOrder(d + 1)'
  <2>1. CASE devKind # "rx"
    <3>1. frames'.taken = frames.taken /\ frames'.lost = frames.lost
      BY <2>1 DEF Advanced
    <3> QED
      BY <1>4, <2>1, <3>1 DEF RingState, FrameOrder
  <2>2. CASE devKind = "rx"
    <3>1. value = frames.taken + 1 /\ frames'.taken = frames.taken + 1 /\ frames'.lost = frames.lost
          /\ frames.taken \in Nat
      BY <2>2 DEF Advanced, TypeQ
    <3>2. /\ \A k \in 1 .. d : answer[drv.order[k]] <= frames.taken /\ answer[drv.order[k]] \in Nat
      BY <1>10, <2>2 DEF RingState, FrameOrder, TypeQ
    <3>3. \A i \in 1 .. Len(drv.got) : drv.got[i] <= frames.taken /\ drv.got[i] \in Nat
      BY SMTT(60) DEF RingState, FrameOrder, TypeQ
    <3>4. ASSUME NEW k \in 1 .. d + 1
          PROVE  /\ answer'[drv.order[k]] <= frames'.taken
                 /\ \A i \in 1 .. Len(drv.got) : drv.got[i] < answer'[drv.order[k]]
                 /\ \A j \in 1 .. d + 1 : j < k => answer'[drv.order[j]] < answer'[drv.order[k]]
      <4>1. CASE k = d + 1
        <5>1. \A j \in 1 .. d + 1 : j < d + 1 => j \in 1 .. d
          BY SMTT(60)
        <5> QED
          BY <1>3, <1>11, <3>1, <3>2, <3>3, <4>1, <5>1, SMTT(60)
      <4>2. CASE k # d + 1
        <5>1. k \in 1 .. d /\ \A j \in 1 .. d + 1 : j < k => j \in 1 .. d
          BY <4>2, SMTT(60)
        <5>2. /\ \A i \in 1 .. Len(drv.got) : drv.got[i] < answer[drv.order[k]]
              /\ \A j \in 1 .. d : j < k => answer[drv.order[j]] < answer[drv.order[k]]
          BY <2>2, <5>1 DEF RingState, FrameOrder
        <5>3. answer'[drv.order[k]] = answer[drv.order[k]]
          BY <1>11, <5>1
        <5>4. answer[drv.order[k]] <= frames'.taken
          BY <3>1, <3>2, <5>1, SMTT(60)
        <5>5. \A j \in 1 .. d + 1 : j < k => answer'[drv.order[j]] < answer'[drv.order[k]]
          BY <1>11, <5>1, <5>2, <5>3
        <5> QED
          BY <5>2, <5>3, <5>4, <5>5
      <4> QED
        BY <4>1, <4>2
    <3>5. \A i \in 1 .. Len(drv.got) : drv.got[i] <= frames'.taken
      BY <3>1, <3>3, SMTT(60)
    <3> QED
      BY <1>4, <2>2, <3>1, <3>4, <3>5 DEF RingState, FrameOrder
  <2> QED
    BY <2>1, <2>2
<1> QED
  BY <1>6, <1>8, <1>12, <1>13, <1>14 DEF RingState

(* A chain that is not returned changes no count. *)
LEMMA NoAdvanceKeeps ==
  ASSUME TypeQ, TypeQ', NEW u \in Nat, NEW d \in Nat, RingState(u, d), job.on, LoopFrame,
         UNCHANGED <<answer, used, q>>, job'.did = job.did, frames'.taken >= frames.taken,
         frames'.lost = frames.lost \/ chains # {"good"}
  PROVE  RingState(u, d)'
<1>1. /\ UNCHANGED <<devKind, chains, avail>> /\ drv'.order = drv.order /\ drv'.seen = drv.seen
      /\ drv'.got = drv.got /\ (drv.broke => drv'.broke) /\ (~job'.ok => drv'.broke)
      /\ job'.on /\ job'.limit = job.limit
  BY DEF LoopFrame
<1>2. Counted(u, d)'
  BY <1>1 DEF RingState, Counted, Count
<1>3. Placed(d)'
  BY <1>1, SMTT(60) DEF RingState, Placed, Slot
<1>4. Published(u, d)'
  BY <1>1 DEF RingState, Published
<1>5. FrameOrder(d)'
  <2>1. frames'.taken \in Nat /\ frames.taken \in Nat
    BY DEF TypeQ
  <2>2. \A i \in 1 .. Len(drv.got) : drv.got[i] \in Nat
    BY SMTT(60) DEF TypeQ
  <2>3. \A k \in 1 .. d : answer[drv.order[k]] \in Nat
    <3>1. drv.order \in Seq(Heads) /\ d <= Len(drv.order) /\ Len(drv.order) \in Nat
      BY RingFacts
    <3>2. answer \in [Heads -> Nat]
      BY DEF TypeQ
    <3> QED
      BY <3>1, <3>2, SMTT(60)
  <2>4. \A i \in 1 .. Len(drv.got) : drv.got[i] <= frames'.taken
    BY <2>1, <2>2, SMTT(60) DEF RingState, FrameOrder
  <2>5. devKind = "rx" => \A k \in 1 .. d : answer[drv.order[k]] <= frames'.taken
    BY <2>1, <2>3, SMTT(60) DEF RingState, FrameOrder
  <2> QED
    BY <1>1, <2>4, <2>5 DEF RingState, FrameOrder
<1> QED
  BY <1>2, <1>3, <1>4, <1>5 DEF RingState

JobType == [on : BOOLEAN, limit : Index, did : BOOLEAN, end : BOOLEAN, ok : BOOLEAN]

(* One chain of a job returns it or leaves it. *)
LEMMA JobChainKeeps ==
  ASSUME TypeQ, NEW u \in Nat, NEW d \in Nat, RingState(u, d), Readable, JobChain
  PROVE  /\ TypeQ'
         /\ RingState(u, d)' \/ \E v \in {u, d + 1} : RingState(v, d + 1)'
         /\ drv'.order = drv.order /\ drv'.seen = drv.seen
<1>1. job.on /\ ~job.end /\ More /\ job \in JobType
  BY DEF JobChain, TypeQ, JobType
<1>2. /\ drv' = [drv EXCEPT !.broke = drv.broke \/ ~job'.ok] /\ drv.broke \in BOOLEAN
  BY DEF JobChain, TypeQ
<1>3. /\ drv'.order = drv.order /\ drv'.seen = drv.seen /\ drv'.got = drv.got
      /\ drv'.broke = (drv.broke \/ ~job'.ok)
      /\ drv' \in [pc : {"init", "idle", "failed", "irq", "collect"}, order : Seq(Heads), seen : Index,
                   kick : BOOLEAN, got : Seq(Nat), broke : BOOLEAN]
  BY <1>2 DEF TypeQ
<1>4. UNCHANGED <<devKind, chains, avail, chain>>
  BY DEF JobChain, deviceVars
<1>5. Head_ \in Heads /\ chain[Head_] \in chains
  BY <1>1, MoreFacts DEF TypeQ
<1>6. ASSUME NEW value \in Nat \ {0}, Advanced(value), job' \in JobType,
             job'.on, job'.limit = job.limit, frames' \in [sent : Nat, taken : Nat, lost : SUBSET Nat]
      PROVE  TypeQ' /\ \E v \in {u, d + 1} : RingState(v, d + 1)'
  <2>1. LoopFrame
    BY <1>3, <1>4, <1>6 DEF LoopFrame
  <2>2. \E v \in {u, d + 1} : RingState(v, d + 1)'
    BY <1>1, <1>6, <2>1, AdvanceKeeps
  <2>3. /\ q' \in [ready : BOOLEAN, lastAvail : Index, lastUsed : Index]
        /\ used' \in [idx : Index, ring : Ring] /\ answer' \in [Heads -> Nat]
    BY <1>1, <1>6, AdvanceTypes DEF Advanced
  <2>4. TypeQ'
    BY <1>3, <1>4, <1>6, <2>3 DEF TypeQ, JobType
  <2> QED
    BY <2>2, <2>4
<1>7. ASSUME UNCHANGED <<answer, used, q>>, job' \in JobType, job'.on, job'.limit = job.limit,
             job'.did = job.did, frames' \in [sent : Nat, taken : Nat, lost : SUBSET Nat],
             frames'.taken >= frames.taken, frames'.lost = frames.lost \/ chains # {"good"}
      PROVE  TypeQ' /\ RingState(u, d)'
  <2>1. LoopFrame
    BY <1>3, <1>4, <1>7 DEF LoopFrame
  <2>2. TypeQ'
    BY <1>3, <1>4, <1>7 DEF TypeQ, JobType
  <2> QED
    BY <1>1, <1>7, <2>1, <2>2, NoAdvanceKeeps
<1>8. frames \in [sent : Nat, taken : Nat, lost : SUBSET Nat] /\ frames.taken \in Nat /\ frames.taken >= frames.taken
  BY SMTT(60) DEF TypeQ
<1>9. CASE BlockRequest
  <2>1. /\ job' \in JobType /\ job'.on /\ job'.did /\ job'.limit = job.limit
        /\ (Advance(1) \/ Advance(2)) /\ frames' = frames /\ devKind = "block"
    BY <1>1, <1>9 DEF BlockRequest, NoStatus, JobType
  <2>2. Advanced(1) \/ Advanced(2)
    BY <2>1 DEF Advanced
  <2>3. 1 \in Nat \ {0} /\ 2 \in Nat \ {0}
    BY SMTT(60)
  <2> QED
    BY <1>3, <1>6, <1>8, <2>1, <2>2, <2>3
<1>10. CASE FsRequest \/ TransmitRequest \/ BalloonRequest
  <2>0. BalloonRequest => devKind = "balloon" /\ Returned
    BY <1>5 DEF BalloonRequest, Readable
  <2>1. /\ job' \in JobType /\ job'.on /\ job'.did /\ job'.limit = job.limit
        /\ Advance(1) /\ frames' = frames /\ devKind \in {"fs", "tx", "balloon"}
    BY <1>1, <1>10, <2>0 DEF FsRequest, TransmitRequest, Returned, JobType
  <2>2. Advanced(1)
    BY <2>1 DEF Advanced
  <2> QED
    BY <1>3, <1>6, <1>8, <2>1, <2>2, SMTT(60)
<1>11. CASE RngRequest
  <2>1. CASE chain[Head_] = "broken"
    <3>1. /\ UNCHANGED <<answer, used, q>> /\ frames' = frames
          /\ job' \in JobType /\ job'.on /\ job'.did = job.did /\ job'.limit = job.limit
      BY <1>1, <1>11, <2>1 DEF RngRequest, JobType
    <3> QED
      BY <1>3, <1>7, <1>8, <3>1
  <2>2. CASE chain[Head_] # "broken"
    <3>1. /\ job' \in JobType /\ job'.on /\ job'.did /\ job'.limit = job.limit
          /\ Advance(1) /\ frames' = frames /\ devKind = "rng"
      BY <1>1, <1>11, <2>2 DEF RngRequest, JobType
    <3>2. Advanced(1)
      BY <3>1 DEF Advanced
    <3> QED
      BY <1>3, <1>6, <1>8, <3>1, <3>2, SMTT(60)
  <2> QED
    BY <2>1, <2>2
<1>12. CASE NetReceive
  <2>1. ASSUME NEW b \in BOOLEAN, NetDrop(b), chain[Head_] # "good"
        PROVE  TypeQ' /\ RingState(u, d)'
    <3>1. /\ UNCHANGED <<answer, used, q>>
          /\ job' \in JobType /\ job'.on /\ job'.did = job.did /\ job'.limit = job.limit
      BY <1>1, <2>1 DEF NetDrop, JobType
    <3>2. frames.taken + 1 \in Nat /\ frames.lost \cup {frames.taken + 1} \in SUBSET Nat
      BY <1>8, SMTT(60)
    <3>3. frames' = [frames EXCEPT !.taken = frames.taken + 1, !.lost = frames.lost \cup {frames.taken + 1}]
      BY <1>8, <2>1 DEF NetDrop
    <3>4. frames' \in [sent : Nat, taken : Nat, lost : SUBSET Nat] /\ frames'.taken = frames.taken + 1
      BY <1>8, <3>2, <3>3
    <3>5. frames'.taken >= frames.taken
      BY <1>8, <3>4, SMTT(60)
    <3>6. chains # {"good"}
      BY <1>5, <2>1
    <3> QED
      BY <1>7, <3>1, <3>4, <3>5, <3>6
  <2>2. CASE /\ chain[Head_] = "good" /\ Advance(frames.taken + 1) /\ job' = [job EXCEPT !.did = TRUE]
             /\ frames' = [frames EXCEPT !.taken = @ + 1]
    <3>1. job' \in JobType /\ job'.on /\ job'.did /\ job'.limit = job.limit
      BY <1>1, <2>2 DEF JobType
    <3>2. frames.taken + 1 \in Nat \ {0}
      BY <1>8, SMTT(60)
    <3>3. /\ frames' \in [sent : Nat, taken : Nat, lost : SUBSET Nat] /\ frames'.taken = frames.taken + 1
          /\ frames'.lost = frames.lost
      BY <1>8, <2>2, <3>2
    <3>4. Advanced(frames.taken + 1)
      BY <1>12, <2>2, <3>1, <3>3 DEF Advanced, NetReceive
    <3> QED
      BY <1>3, <1>6, <3>1, <3>2, <3>3, <3>4
  <2> QED
    BY <1>3, <1>12, <2>1, <2>2 DEF NetReceive
<1>13. CASE NetNoFrame
  <2>1. /\ UNCHANGED <<answer, used, q>> /\ frames' = frames
        /\ job' \in JobType /\ job'.on /\ job'.did = job.did /\ job'.limit = job.limit
    BY <1>1, <1>13 DEF NetNoFrame, JobType
  <2> QED
    BY <1>3, <1>7, <1>8, <2>1
<1> QED
  BY <1>9, <1>10, <1>11, <1>12, <1>13 DEF JobChain

----------------------------------------------------------------------------
(* The call ends and publishes what it did. *)

(* The end of a job publishes what it returned, or nothing. *)
LEMMA JobEndKeeps ==
  ASSUME TypeQ, NEW u \in Nat, NEW d \in Nat, RingState(u, d), JobEnd
  PROVE  /\ TypeQ' /\ (RingState(u, d)' \/ RingState(d, d)')
         /\ UNCHANGED drv
<1>1. /\ job.on /\ job' = NoJob /\ UNCHANGED <<devKind, chains, q, avail, chain, drv, answer, frames>>
  BY DEF JobEnd, deviceVars, guestVars
<1>2. job' \in JobType /\ ~job'.on
  BY <1>1, Geometry, SMTT(60) DEF NoJob, JobType, Index
<1>3. q.lastUsed = Count(d) /\ q.lastUsed \in Index /\ d <= d /\ u <= d /\ job \in JobType
  BY SMTT(60) DEF RingState, Counted, TypeQ, JobType
<1>4. CASE job.did /\ job.ok
  <2>1. used' = [used EXCEPT !.idx = q.lastUsed]
    BY <1>4 DEF JobEnd
  <2>2. used' \in [idx : Index, ring : Ring] /\ used'.idx = Count(d) /\ used'.ring = used.ring
    BY <1>3, <2>1 DEF TypeQ
  <2>3. TypeQ'
    BY <1>1, <1>2, <2>2 DEF TypeQ, JobType
  <2>4. Counted(d, d)'
    BY <1>1, <1>2, <1>3, <2>2 DEF RingState, Counted, Count
  <2>5. Placed(d)'
    BY <1>1, <2>2 DEF RingState, Placed, Slot
  <2>6. Published(d, d)'
    BY <1>2 DEF Published
  <2>7. FrameOrder(d)'
    BY <1>1 DEF RingState, FrameOrder
  <2> QED
    BY <1>1, <2>3, <2>4, <2>5, <2>6, <2>7 DEF RingState
<1>5. CASE ~(job.did /\ job.ok)
  <2>1. used' = used
    BY <1>5 DEF JobEnd
  <2>2. TypeQ'
    BY <1>1, <1>2, <2>1 DEF TypeQ, JobType
  <2>3. Counted(u, d)'
    BY <1>1, <1>2, <2>1 DEF RingState, Counted, Count
  <2>4. Placed(d)'
    BY <1>1, <2>1 DEF RingState, Placed, Slot
  <2>5. Published(u, d)'
    BY <1>1, <1>2, <1>3, <1>5 DEF RingState, Published, JobType
  <2>6. FrameOrder(d)'
    BY <1>1 DEF RingState, FrameOrder
  <2> QED
    BY <1>1, <2>2, <2>3, <2>4, <2>5, <2>6 DEF RingState
<1> QED
  BY <1>4, <1>5

(* The driver takes back the oldest chain. *)

(* Taking the first of distinct heads out leaves the rest. *)
LEMMA WithoutFirst ==
  ASSUME NEW s \in Seq(Heads), Len(s) > 0, \A i, j \in 1 .. Len(s) : i # j => s[i] # s[j]
  PROVE  Without(s, s[1]) = Tail(s)
<1>1. 1 \in 1 .. Len(s) /\ Len(s) \in Nat
  BY SMTT(60)
<1>2. (CHOOSE j \in 1 .. Len(s) : s[j] = s[1]) = 1
  BY <1>1
<1>3. Without(s, s[1]) = [j \in 1 .. Len(s) - 1 |-> IF j < 1 THEN s[j] ELSE s[j + 1]]
  BY <1>1, <1>2 DEF Without
<1>4. \A j \in 1 .. Len(s) - 1 : ~(j < 1)
  BY SMTT(60)
<1>5. Without(s, s[1]) = [j \in 1 .. Len(s) - 1 |-> s[j + 1]]
  BY <1>3, <1>4
<1>6. /\ Tail(s) \in Seq(Heads) /\ Len(Tail(s)) = Len(s) - 1
      /\ \A j \in 1 .. Len(s) - 1 : Tail(s)[j] = s[j + 1]
  <2>1. s # <<>>
    BY <1>1, SMTT(60)
  <2> QED
    BY <2>1, SMTT(60)
<1>7. Tail(s) = [j \in 1 .. Len(Tail(s)) |-> Tail(s)[j]]
  <2>1. ASSUME NEW t \in Seq(Heads) PROVE t = [j \in 1 .. Len(t) |-> t[j]]
    BY SMTT(60)
  <2> QED
    BY <1>6, <2>1
<1> QED
  BY <1>5, <1>6, <1>7

(* The driver takes the first outstanding chain. *)
LEMMA CollectKeeps ==
  ASSUME TypeQ, NEW u \in Nat, NEW d \in Nat, RingState(u, d), Collect
  PROVE  /\ u > 0 /\ TypeQ' /\ RingState(u - 1, d - 1)'
         /\ drv'.order = Tail(drv.order)
<1>1. PICK n \in Nat : n = Len(drv.order)
  BY RingFacts
<1>2. /\ drv.seen \in Index /\ drv.order \in Seq(Heads) /\ u <= d /\ d <= n /\ n <= QSize /\ u > 0
  BY <1>1, RingFacts, SMTT(60) DEF Collect
<1>3. /\ u - 1 \in Nat /\ d - 1 \in Nat /\ n - 1 \in Nat /\ 1 \in 1 .. d /\ 1 \in 1 .. n
      /\ u - 1 <= d - 1 /\ d - 1 <= n - 1
  BY <1>1, <1>2, SMTT(60)
<1>4. PICK h \in Heads : h = used.ring[drv.seen % QSize] /\ h = drv.order[1]
  <2>1. used.ring[Slot(1 - 1)] = drv.order[1]
    BY <1>3 DEF RingState, Placed
  <2>2. Slot(1 - 1) = drv.seen % QSize
    BY <1>2, Geometry, SMTT(60) DEF Slot, Index
  <2>3. drv.order[1] \in Heads
    BY <1>1, <1>2, <1>3, SMTT(60)
  <2> QED
    BY <2>1, <2>2, <2>3
<1>5. \A i, j \in 1 .. n : i # j => drv.order[i] # drv.order[j]
  BY <1>1 DEF RingState, Placed
<1>6. Without(drv.order, h) = Tail(drv.order)
  <2>1. Len(drv.order) > 0
    BY <1>1, <1>3, SMTT(60)
  <2> QED
    BY <1>1, <1>2, <1>4, <1>5, <2>1, WithoutFirst
<1>7. /\ drv' = [drv EXCEPT !.seen = (drv.seen + 1) % Wrap, !.order = Tail(drv.order),
                            !.got = IF devKind = "rx" THEN Append(drv.got, answer[h]) ELSE drv.got]
      /\ chain' = [chain EXCEPT ![h] = "good"] /\ answer' = [answer EXCEPT ![h] = 0]
      /\ UNCHANGED <<devKind, chains, q, job, avail, used, frames>>
  BY <1>4, <1>6 DEF Collect, TypeQ, deviceVars, transportVars
<1>8. /\ (drv.seen + 1) % Wrap \in Index /\ Tail(drv.order) \in Seq(Heads) /\ answer[h] \in Nat
      /\ Append(drv.got, answer[h]) \in Seq(Nat) /\ drv.got \in Seq(Nat)
  <2>1. (drv.seen + 1) % Wrap \in Index
    BY <1>2, Geometry, SMTT(60) DEF Index
  <2>2. drv.order # <<>>
    BY <1>1, <1>3, SMTT(60)
  <2>3. Tail(drv.order) \in Seq(Heads)
    BY <1>2, <2>2, SMTT(60)
  <2>4. answer[h] \in Nat /\ drv.got \in Seq(Nat)
    BY DEF TypeQ
  <2> QED
    BY <2>1, <2>3, <2>4, SMTT(60)
<1>9. /\ drv'.seen = (drv.seen + 1) % Wrap /\ drv'.order = Tail(drv.order) /\ drv'.broke = drv.broke
      /\ drv'.got = (IF devKind = "rx" THEN Append(drv.got, answer[h]) ELSE drv.got)
      /\ drv' \in [pc : {"init", "idle", "failed", "irq", "collect"}, order : Seq(Heads), seen : Index,
                   kick : BOOLEAN, got : Seq(Nat), broke : BOOLEAN]
  BY <1>7, <1>8 DEF TypeQ
<1>10. TypeQ'
  BY <1>7, <1>9 DEF TypeQ
<1>11. \A k \in Nat : Count(k)' = Count(k + 1) /\ Slot(k)' = Slot(k + 1)
  BY <1>2, <1>9, CountShift
<1>12. Len(drv'.order) = n - 1 /\ \A k \in 1 .. n - 1 : k + 1 \in 1 .. n /\ drv'.order[k] = drv.order[k + 1]
  BY <1>1, <1>2, <1>3, <1>9, SMTT(60)
<1>13. Counted(u - 1, d - 1)'
  <2>1. Count(u - 1)' = Count(u) /\ Count(d - 1)' = Count(d) /\ Count(n - 1)' = Count(n)
    <3>1. (u - 1) + 1 = u /\ (d - 1) + 1 = d /\ (n - 1) + 1 = n
      BY <1>3, SMTT(60)
    <3> QED
      BY <1>3, <1>11, <3>1
  <2>2. (job'.on /\ devKind' # "balloon") => \E l \in d - 1 .. n - 1 : job'.limit = Count(l)'
    <3>1. SUFFICES ASSUME job.on, devKind # "balloon" PROVE \E l \in d - 1 .. n - 1 : job.limit = Count(l)'
      BY <1>7
    <3>2. PICK l \in d .. n : job.limit = Count(l)
      BY <1>1, <3>1 DEF RingState, Counted
    <3>3. l - 1 \in d - 1 .. n - 1 /\ l - 1 \in Nat /\ (l - 1) + 1 = l
      BY <1>3, SMTT(60)
    <3>4. Count(l - 1)' = Count(l)
      BY <1>11, <3>3
    <3> QED
      BY <3>2, <3>3, <3>4
  <2>3. used.idx = Count(u) /\ q.lastUsed = Count(d) /\ q.lastAvail = Count(d) /\ avail.idx = Count(n)
    BY <1>1 DEF RingState, Counted
  <2> QED
    BY <1>3, <1>7, <1>12, <2>1, <2>2, <2>3 DEF Counted
<1>14. \A k \in 1 .. d - 1 : /\ k + 1 \in 1 .. d /\ k + 1 \in 1 .. n /\ k \in 1 .. n - 1
                             /\ answer'[drv'.order[k]] = answer[drv.order[k + 1]]
  <2>1. \A k \in 1 .. d - 1 : k + 1 \in 1 .. d /\ k + 1 \in 1 .. n /\ k \in 1 .. n - 1 /\ k + 1 # 1
    BY <1>1, <1>2, SMTT(60)
  <2>2. \A k \in 1 .. d - 1 : drv.order[k + 1] \in Heads /\ drv.order[k + 1] # h
    BY <1>1, <1>2, <1>3, <1>4, <1>5, <2>1, SMTT(60)
  <2>3. \A s \in Heads : s # h => answer'[s] = answer[s]
    BY <1>7 DEF TypeQ
  <2> QED
    BY <1>12, <2>1, <2>2, <2>3
<1>15. Placed(d - 1)'
  <2>1. \A i, j \in 1 .. n - 1 : i # j => drv'.order[i] # drv'.order[j]
    <3> SUFFICES ASSUME NEW i \in 1 .. n - 1, NEW j \in 1 .. n - 1, i # j
                 PROVE  drv'.order[i] # drv'.order[j]
      OBVIOUS
    <3>1. i + 1 \in 1 .. n /\ j + 1 \in 1 .. n /\ i + 1 # j + 1
      BY <1>3, SMTT(60)
    <3> QED
      BY <1>5, <1>12, <3>1
  <2>2. ASSUME NEW k \in 1 .. n - 1 PROVE avail'.ring[Slot(k - 1)'] = drv'.order[k]
    <3>1. k + 1 \in 1 .. n /\ k - 1 \in Nat /\ (k - 1) + 1 = k /\ (k + 1) - 1 = k
      BY <1>3, SMTT(60)
    <3>2. avail.ring[Slot((k + 1) - 1)] = drv.order[k + 1]
      BY <1>1, <3>1 DEF RingState, Placed
    <3> QED
      BY <1>7, <1>11, <1>12, <3>1, <3>2
  <2>3. ASSUME NEW k \in 1 .. d - 1
        PROVE  used'.ring[Slot(k - 1)'] = drv'.order[k] /\ answer'[drv'.order[k]] # 0
    <3>1. k + 1 \in 1 .. d /\ k - 1 \in Nat /\ (k - 1) + 1 = k /\ (k + 1) - 1 = k /\ k \in 1 .. n - 1
      BY <1>14, SMTT(60)
    <3>2. used.ring[Slot((k + 1) - 1)] = drv.order[k + 1] /\ answer[drv.order[k + 1]] # 0
      BY <3>1 DEF RingState, Placed
    <3> QED
      BY <1>7, <1>11, <1>12, <1>14, <3>1, <3>2
  <2> QED
    BY <1>12, <2>1, <2>2, <2>3 DEF Placed
<1>16. Published(u - 1, d - 1)'
  BY <1>2, <1>7, <1>9 DEF RingState, Published
<1>17. FrameOrder(d - 1)'
  <2>1. CASE devKind # "rx"
    <3>1. drv'.got = drv.got
      BY <1>9, <2>1
    <3> QED
      BY <1>7, <2>1, <3>1 DEF RingState, FrameOrder
  <2>2. CASE devKind = "rx"
    <3>1. PICK g \in Nat : g = Len(drv.got)
      BY <1>8, SMTT(60)
    <3>2. /\ Len(drv'.got) = g + 1 /\ drv'.got[g + 1] = answer[h]
          /\ \A i \in 1 .. g : drv'.got[i] = drv.got[i] /\ drv.got[i] \in Nat
      <4>1. drv'.got = Append(drv.got, answer[h])
        BY <1>9, <2>2
      <4>2. ASSUME NEW a \in Nat, NEW s \in Seq(Nat), Len(s) = g
            PROVE  /\ Len(Append(s, a)) = g + 1 /\ Append(s, a)[g + 1] = a
                   /\ \A i \in 1 .. g : Append(s, a)[i] = s[i] /\ s[i] \in Nat
        BY <4>2, SMTT(60)
      <4> QED
        BY <1>8, <3>1, <4>1, <4>2, SMTT(60)
    <3>3. /\ answer[h] <= frames.taken /\ \A i \in 1 .. g : drv.got[i] < answer[h]
      BY <1>3, <1>4, <2>2, <3>1 DEF RingState, FrameOrder
    <3>4. \A i, j \in 1 .. g + 1 : i < j => drv'.got[i] < drv'.got[j]
      <4>1. \A i, j \in 1 .. g : i < j => drv.got[i] < drv.got[j]
        BY <3>1 DEF RingState, FrameOrder
      <4>2. \A i \in 1 .. g + 1 : i < g + 1 => i \in 1 .. g
        BY SMTT(60)
      <4>3. \A i, j \in 1 .. g + 1 : i < j => i \in 1 .. g
        BY SMTT(60)
      <4>4. \A j \in 1 .. g + 1 : j = g + 1 \/ j \in 1 .. g
        BY SMTT(60)
      <4> QED
        BY <3>2, <3>3, <4>1, <4>3, <4>4
    <3>5. \A i \in 1 .. g + 1 : drv'.got[i] <= frames'.taken
      <4>1. \A i \in 1 .. g : drv.got[i] <= frames.taken
        BY <3>1 DEF RingState, FrameOrder
      <4>2. \A j \in 1 .. g + 1 : j = g + 1 \/ j \in 1 .. g
        BY SMTT(60)
      <4> QED
        BY <1>7, <3>2, <3>3, <4>1, <4>2
    <3>6. ASSUME NEW k \in 1 .. d - 1
          PROVE  /\ answer'[drv'.order[k]] <= frames'.taken
                 /\ \A i \in 1 .. g + 1 : drv'.got[i] < answer'[drv'.order[k]]
                 /\ \A j \in 1 .. d - 1 : j < k => answer'[drv'.order[j]] < answer'[drv'.order[k]]
      <4>1. k + 1 \in 1 .. d /\ 1 < k + 1 /\ 1 \in 1 .. d
        BY <1>3, <1>14, SMTT(60)
      <4>2. /\ answer[drv.order[k + 1]] <= frames.taken
            /\ \A i \in 1 .. g : drv.got[i] < answer[drv.order[k + 1]]
            /\ \A j \in 1 .. d : j < k + 1 => answer[drv.order[j]] < answer[drv.order[k + 1]]
        BY <2>2, <3>1, <4>1 DEF RingState, FrameOrder
      <4>3. answer[h] < answer[drv.order[k + 1]]
        BY <1>4, <4>1, <4>2
      <4>4. \A j \in 1 .. g + 1 : j = g + 1 \/ j \in 1 .. g
        BY SMTT(60)
      <4>5. \A j \in 1 .. d - 1 : j < k => j + 1 \in 1 .. d /\ j + 1 < k + 1
        BY <1>3, SMTT(60)
      <4>6. \A j \in 1 .. d - 1 : j < k => answer'[drv'.order[j]] < answer'[drv'.order[k]]
        BY <1>14, <4>2, <4>5
      <4>7. \A i \in 1 .. g + 1 : drv'.got[i] < answer'[drv'.order[k]]
        BY <1>14, <3>2, <4>2, <4>3, <4>4
      <4> QED
        BY <1>7, <1>14, <4>2, <4>6, <4>7
    <3> QED
      BY <1>7, <2>2, <3>2, <3>4, <3>5, <3>6 DEF RingState, FrameOrder
  <2> QED
    BY <2>1, <2>2
<1> QED
  BY <1>2, <1>9, <1>10, <1>13, <1>15, <1>16, <1>17 DEF RingState

----------------------------------------------------------------------------
(* All steps together. *)

(* The step that RequestQueue makes when the visible chains become v.      *)
PromisedStep(u, v) ==
  \/ drv'.order = drv.order /\ v \in u .. Len(drv.order)
  \/ /\ v = u
     /\ \E h \in Heads : (\A i \in 1 .. Len(drv.order) : drv.order[i] # h) /\ drv'.order = Append(drv.order, h)
  \/ u > 0 /\ v = u - 1 /\ drv'.order = Tail(drv.order)
  \/ v = 0 /\ drv'.order = <<>>

(* Every step keeps the counts, and maps to a step of the promise. *)
LEMMA NextKeeps ==
  ASSUME TypeQ, NEW u \in Nat, NEW d \in Nat, RingState(u, d), Readable, VirtioNext
  PROVE  TypeQ' /\ \E v, e \in Nat : RingState(v, e)' /\ PromisedStep(u, v)
<1>1. u <= d /\ d <= Len(drv.order) /\ Len(drv.order) \in Nat
  BY RingFacts
<1>2. CASE Quiet
  BY <1>1, <1>2, QuietKeeps, SMTT(60) DEF Untouched, PromisedStep
<1>3. CASE Notify \/ ProcessExternalQueue
  BY <1>1, <1>3, NotifyKeeps, SMTT(60) DEF Untouched, PromisedStep
<1>4. CASE DriverResets
  BY <1>4, ResetKeeps DEF PromisedStep
<1>5. CASE JobChain
  <2>1. /\ TypeQ' /\ drv'.order = drv.order
        /\ RingState(u, d)' \/ \E v \in {u, d + 1} : RingState(v, d + 1)'
    BY <1>5, JobChainKeeps
  <2>2. d + 1 <= Len(drv.order)
    BY <1>5, MoreFacts DEF JobChain
  <2>3. u \in u .. Len(drv.order) /\ d + 1 \in u .. Len(drv.order) /\ d + 1 \in Nat
    BY <1>1, <2>2, SMTT(60)
  <2>4. ASSUME NEW v \in {u, d + 1} PROVE v \in Nat /\ v \in u .. Len(drv.order)
    BY <2>3
  <2> QED
    BY <2>1, <2>3, <2>4 DEF PromisedStep
<1>6. CASE JobEnd
  <2>1. /\ TypeQ' /\ drv' = drv /\ (RingState(u, d)' \/ RingState(d, d)')
    BY <1>6, JobEndKeeps
  <2>2. u \in u .. Len(drv.order) /\ d \in u .. Len(drv.order)
    BY <1>1, SMTT(60)
  <2> QED
    BY <2>1, <2>2 DEF PromisedStep
<1>7. CASE Collect
  <2>1. u > 0 /\ TypeQ' /\ RingState(u - 1, d - 1)' /\ drv'.order = Tail(drv.order)
    BY <1>7, CollectKeeps
  <2>2. u - 1 \in Nat /\ d - 1 \in Nat
    BY <1>1, <2>1, SMTT(60)
  <2> QED
    BY <2>1, <2>2 DEF PromisedStep
<1>8. ASSUME NEW h \in Heads, NEW c \in chains, Post(h, c)
      PROVE  TypeQ' /\ \E v, e \in Nat : RingState(v, e)' /\ PromisedStep(u, v)
  BY <1>8, PostKeeps DEF PromisedStep
<1> QED
  BY <1>2, <1>3, <1>4, <1>5, <1>6, <1>7, <1>8 DEF VirtioNext, Quiet

(* Every step keeps the status. *)
LEMMA StatusKeeps ==
  ASSUME StatusInv, VirtioNext
  PROVE  StatusInv'
<1>1. CASE UNCHANGED <<devKind, dstatus, acked, activated>>
  BY <1>1 DEF StatusInv
<1>2. CASE DriverResets
  <2>1. devKind' = devKind /\ dstatus' = {} /\ ~activated' /\ acked' \subseteq acked
    BY <1>2 DEF DriverResets, MmioReset, DeviceReset, deviceVars
  <2> QED
    BY <2>1 DEF StatusInv
<1>3. ASSUME NEW f, AckFeatures(f)
      PROVE  StatusInv'
  <2>1. /\ UNCHANGED <<devKind, dstatus, activated>>
        /\ acked' = acked \cup (f \cap Features(devKind))
    BY <1>3 DEF AckFeatures, CheckStatus, deviceVars
  <2> QED
    BY <2>1 DEF StatusInv
<1>4. CASE DriverWrites
  <2>1. PICK s : WriteStatus(s)
    BY <1>4 DEF DriverWrites
  <2>2. /\ UNCHANGED <<devKind, acked>> /\ dstatus' = NextStatus(dstatus, s)
        /\ activated' => activated \/ "driver_ok" \in dstatus'
    BY <2>1 DEF WriteStatus, deviceVars
  <2>3. "driver_ok" \in dstatus => "driver_ok" \in dstatus'
    <3>1. ASSUME NEW n \in 1 .. 4 PROVE "driver_ok" \notin Rung(n - 1)
      BY SMTT(60) DEF Rung, Ladder
    <3> QED
      BY <2>2, <3>1 DEF NextStatus
  <2> QED
    BY <2>2, <2>3 DEF StatusInv
<1>5. ASSUME WriteQueue \/ TakeInterrupt \/ InterruptAck \/ Collected \/ FrameArrives \/ Notify
             \/ ProcessExternalQueue \/ JobChain \/ JobEnd \/ Collect \/ \E h \in Heads, c \in chains : Post(h, c)
      PROVE  UNCHANGED <<devKind, dstatus, acked, activated>>
  BY <1>5 DEF WriteQueue, TakeInterrupt, InterruptAck, Collected, FrameArrives, Notify,
     ProcessExternalQueue, JobChain, JobEnd, Collect, Post, deviceVars, transportVars
<1> QED
  BY <1>1, <1>2, <1>3, <1>4, <1>5 DEF VirtioNext

(* Nothing is posted at the start. *)
LEMMA QInit == VirtioInit => TypeQ /\ StatusInv /\ RingState(0, 0)
<1> SUFFICES ASSUME VirtioInit PROVE TypeQ /\ StatusInv /\ RingState(0, 0)
  OBVIOUS
<1>1. 0 \in Index /\ 0 \in Heads /\ Wrap \in Nat /\ 0 % Wrap = 0
  BY Geometry, SMTT(60) DEF Index, Heads
<1>2. "good" \in chains
  BY DEF VirtioInit, ChainKinds
<1>3. /\ q = FreshQueue /\ used = EmptyRing /\ avail = EmptyRing /\ job = NoJob
      /\ drv = [pc |-> "init", order |-> <<>>, seen |-> 0, kick |-> FALSE, got |-> <<>>, broke |-> FALSE]
      /\ frames = [sent |-> 0, taken |-> 0, lost |-> {}]
      /\ chain = [h \in Heads |-> "good"] /\ answer = [h \in Heads |-> 0]
  BY DEF VirtioInit
<1>4. <<>> \in Seq(Heads) /\ <<>> \in Seq(Nat)
  BY SMTT(60)
<1>5. TypeQ
  BY <1>1, <1>2, <1>3, <1>4 DEF TypeQ, FreshQueue, EmptyRing, NoJob, Ring
<1>6. StatusInv
  BY DEF VirtioInit, StatusInv
<1>7. Count(0) = 0 /\ Len(drv.order) = 0 /\ Len(drv.got) = 0
  BY <1>1, <1>3, SMTT(60) DEF Count
<1>8. Counted(0, 0)
  BY <1>3, <1>7, SMTT(60) DEF Counted, FreshQueue, EmptyRing, NoJob
<1>9. Placed(0) /\ Published(0, 0)
  BY <1>3, <1>7, SMTT(60) DEF Placed, Published, NoJob
<1>10. FrameOrder(0)
  BY <1>3, <1>7, SMTT(60) DEF FrameOrder
<1> QED
  BY <1>5, <1>6, <1>8, <1>9, <1>10 DEF RingState

(* What kind of device it is and of chains its driver makes is settled.    *)
LEMMA ReadableStays == ASSUME [VirtioNext]_vqVars PROVE Readable' <=> Readable
<1>1. UNCHANGED <<devKind, chains>>
  BY DEF VirtioNext, vqVars, deviceVars, DriverResets, DriverWrites, WriteStatus, WriteQueue, Notify,
     ProcessExternalQueue, AckFeatures, JobChain, JobEnd, TakeInterrupt, InterruptAck, Collect,
     Collected, FrameArrives, Post
<1> QED
  BY <1>1 DEF Readable

(* The counts describe every reachable state, where balloon chains can be  *)
(* read: one that cannot sets the two rings apart.                         *)
THEOREM QueueInvariant == VirtioSpec => [](StatusInv /\ (Readable => QInv))
<1>1. VirtioInit => StatusInv /\ QInv
  BY QInit DEF QInv, RingState
<1>2. StatusInv /\ (Readable => QInv) /\ [VirtioNext]_vqVars => (StatusInv /\ (Readable => QInv))'
  <2> SUFFICES ASSUME StatusInv, Readable => QInv, [VirtioNext]_vqVars
               PROVE  StatusInv' /\ (Readable' => QInv')
    OBVIOUS
  <2>0. Readable' <=> Readable
    BY ReadableStays
  <2>1. StatusInv'
    <3>1. CASE VirtioNext
      BY <3>1, StatusKeeps
    <3>2. CASE UNCHANGED vqVars
      BY <3>2 DEF vqVars, StatusInv
    <3> QED
      BY <3>1, <3>2
  <2> SUFFICES ASSUME Readable PROVE QInv'
    BY <2>0, <2>1
  <2>2. PICK u \in Nat, d \in Nat : RingState(u, d)
    BY DEF QInv, RingState
  <2>3. CASE VirtioNext
    <3>1. TypeQ' /\ \E v, e \in Nat : RingState(v, e)'
      BY <2>2, <2>3, NextKeeps DEF QInv
    <3> QED
      BY <2>1, <3>1 DEF QInv, RingState
  <2>4. CASE UNCHANGED vqVars
    <3>1. Untouched /\ job' = job
      BY <2>4 DEF vqVars, Untouched
    <3>2. RingState(u, d)'
      BY <2>2, <3>1, UntouchedKeeps
    <3>3. TypeQ'
      BY <2>4 DEF QInv, vqVars, TypeQ
    <3> QED
      BY <2>1, <3>2, <3>3 DEF QInv, RingState
  <2> QED
    BY <2>3, <2>4
<1> QED
  BY <1>1, <1>2, PTL DEF VirtioSpec

(* What the driver sees as used it had posted, and the device answered it; *)
(* between calls it sees all the device has returned, unless one broke off *)
(* on a chain it could not walk; frames arrive in order, once, and are     *)
(* lost only to chains that cannot take them; and the device is active     *)
(* only behind a driver that finished its setup, with features it offers:  *)
(* for every queue size, under any resets, where the chains of a balloon   *)
(* can be read.                                                            *)
THEOREM QueueIsExact == VirtioSpec => [](Readable => QueueExact)
<1>1. QInv => QueueExact
  <2> SUFFICES ASSUME QInv PROVE QueueExact
    OBVIOUS
  <2>1. PICK u \in Nat, d \in Nat : RingState(u, d)
    BY DEF QInv, RingState
  <2>2. /\ drv.seen \in Index /\ drv.order \in Seq(Heads) /\ Len(drv.order) \in Nat
        /\ u <= d /\ d <= Len(drv.order) /\ Ahead(used.idx, drv.seen) = u
    BY <2>1, RingFacts DEF QInv
  <2>3. UsedAnswered
    <3> SUFFICES ASSUME NEW k \in 1 .. u
                 PROVE  LET h == used.ring[(drv.seen + k - 1) % QSize] IN h \in Outstanding /\ answer[h] # 0
      BY <2>2 DEF UsedAnswered
    <3>1. k \in 1 .. d /\ k \in 1 .. Len(drv.order)
      BY <2>2, SMTT(60)
    <3>2. used.ring[Slot(k - 1)] = drv.order[k] /\ answer[drv.order[k]] # 0
      BY <2>1, <3>1 DEF RingState, Placed
    <3>3. drv.seen + (k - 1) = drv.seen + k - 1
      BY <2>2, Geometry DEF Index
    <3> QED
      BY <3>1, <3>2, <3>3 DEF Slot, Outstanding
  <2>4. BatchVisible
    BY <2>1 DEF BatchVisible, Locked, RingState, Published, Counted
  <2>5. FramesKept
    BY <2>1 DEF FramesKept, RingState, FrameOrder
  <2>6. ActiveBehindDriver
    BY DEF ActiveBehindDriver, QInv, StatusInv
  <2> QED
    BY <2>3, <2>4, <2>5, <2>6 DEF QueueExact
<1> QED
  BY <1>1, QueueInvariant, PTL

(* The counts of the next state, as RingFacts has them. *)
LEMMA NextAhead ==
  ASSUME TypeQ', NEW v \in Nat, NEW e \in Nat, RingState(v, e)'
  PROVE  Ahead(used'.idx, drv'.seen) = v
<1>1. drv'.seen \in Index /\ drv'.order \in Seq(Heads) /\ Len(drv'.order) \in Nat
  BY SMTT(60) DEF TypeQ
<1>2. v <= e /\ e <= Len(drv'.order) /\ used'.idx = (drv'.seen + v) % Wrap
  BY DEF RingState, Counted, Count
<1>3. Len(drv'.order) <= QSize
  BY <1>1, FewOutstanding DEF RingState, Placed
<1>4. v <= QSize
  BY <1>1, <1>2, <1>3, Geometry, SMTT(60)
<1> QED
  BY <1>1, <1>2, <1>4, AheadIs

(* Chains come back in the order they were posted, each once, in batches:  *)
(* the device with its transport, its driver and the host implements       *)
(* RequestQueue, for every queue size and under any resets.                *)
THEOREM QueueKeepsPromise == VirtioSpec => KeepsPromise
<1>1. VirtioInit => Promise!RQInit
  <2> SUFFICES ASSUME VirtioInit PROVE Promise!RQInit
    OBVIOUS
  <2>1. drv.order = <<>>
    BY DEF VirtioInit
  <2>2. Ahead(used.idx, drv.seen) = 0
    BY QInit, RingFacts
  <2> QED
    BY <2>1, <2>2 DEF Promise!RQInit
<1> DEFINE Mapped == <<IF Readable THEN drv.order ELSE <<>>, IF Readable THEN Ahead(used.idx, drv.seen) ELSE 0>>
<1>2. (Readable => QInv) /\ [VirtioNext]_vqVars => [Promise!RQNext]_Mapped
  <2> SUFFICES ASSUME Readable => QInv, [VirtioNext]_vqVars
               PROVE  [Promise!RQNext]_Mapped
    OBVIOUS
  <2>0. Readable' <=> Readable
    BY ReadableStays
  <2> SUFFICES ASSUME Readable PROVE [Promise!RQNext]_Mapped
    BY <2>0
  <2>1. CASE VirtioNext
    <3>1. PICK u \in Nat, d \in Nat : RingState(u, d)
      BY DEF QInv, RingState
    <3>2. TypeQ' /\ \E v, e \in Nat : RingState(v, e)' /\ PromisedStep(u, v)
      BY <2>1, <3>1, NextKeeps DEF QInv
    <3>3. PICK v \in Nat, e \in Nat : RingState(v, e)' /\ PromisedStep(u, v)
      BY <3>2
    <3>4. Ahead(used.idx, drv.seen) = u /\ Len(drv.order) \in Nat
      BY <3>1, RingFacts DEF QInv
    <3>5. Ahead(used'.idx, drv'.seen) = v
      BY <3>2, <3>3, NextAhead
    <3>6. CASE drv'.order = drv.order /\ v \in u .. Len(drv.order)
      <4>1. v = u \/ v \in (u + 1) .. Len(drv.order)
        BY <3>4, <3>6, SMTT(60)
      <4>2. CASE v = u
        BY <2>0, <3>4, <3>5, <3>6, <4>2
      <4>3. CASE v \in (u + 1) .. Len(drv.order)
        BY <2>0, <3>4, <3>5, <3>6, <4>3 DEF Promise!RQNext, Promise!Return
      <4> QED
        BY <4>1, <4>2, <4>3
    <3>7. CASE /\ v = u
               /\ \E h \in Heads : (\A i \in 1 .. Len(drv.order) : drv.order[i] # h)
                                   /\ drv'.order = Append(drv.order, h)
      BY <2>0, <3>4, <3>5, <3>7 DEF Promise!RQNext, Promise!Submit
    <3>8. CASE u > 0 /\ v = u - 1 /\ drv'.order = Tail(drv.order)
      BY <2>0, <3>4, <3>5, <3>8 DEF Promise!RQNext, Promise!Take
    <3>9. CASE v = 0 /\ drv'.order = <<>>
      BY <2>0, <3>5, <3>9 DEF Promise!RQNext, Promise!Abandon
    <3> QED
      BY <3>3, <3>6, <3>7, <3>8, <3>9 DEF PromisedStep
  <2>2. CASE UNCHANGED vqVars
    BY <2>0, <2>2 DEF vqVars, Ahead
  <2> QED
    BY <2>1, <2>2
<1> QED
  BY <1>1, <1>2, QueueInvariant, PTL DEF VirtioSpec, KeepsPromise, Promise!RQSpec
=============================================================================
