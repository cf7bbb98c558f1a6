----------------------------- MODULE VirtioQueue -----------------------------
(***************************************************************************)
(* A virtio device behind its MMIO transport (visor-vmm transport/mmio.rs, *)
(* transport/mod.rs and devices/block.rs, rng.rs, net.rs, fs.rs,           *)
(* balloon.rs), with the guest's driver and the host's poll loop.  One     *)
(* queue; the transport's mutex serialises register writes and polls, the  *)
(* rings in guest memory are shared without a lock.                        *)
(*                                                                         *)
(* A descriptor chain is "good", "bad" (well linked, but with the wrong    *)
(* directions) or "broken" (it, or the array of page numbers that a        *)
(* balloon chain holds, cannot be read to its end).                        *)
(***************************************************************************)
EXTENDS Integers, Sequences, FiniteSets

CONSTANTS DeviceKinds,   \* of "block", "fs", "rng", "tx" and "rx" (of a network device), "balloon"
          QSize,         \* the queue's size
          Wrap,          \* the modulus of the 16-bit ring indices
          MaxFrames,     \* frames the host sends
          Levels         \* whether the interrupt line may be level-triggered (macOS) or not

ASSUME QueueGeometry == QSize \in Nat \ {0} /\ Wrap \in Nat /\ Wrap % QSize = 0 /\ Wrap > QSize

VARIABLES devKind, level, chains,  \* what this device is; the kinds of chains its driver makes
          dstatus, acked, activated, q,   \* transport and device
          isr, line,             \* interrupt status bit, interrupt line
          job,                   \* process_queue in progress
          avail, used,           \* the rings, in guest memory
          chain, answer,         \* what each head's chain is, and what was written into it
          drv,                   \* the guest's driver
          frames                 \* the host side of a network device

vqVars == <<devKind, level, chains, dstatus, acked, activated, q, isr, line, job, avail, used,
            chain, answer, drv, frames>>

Heads == 0 .. QSize - 1
Features(k) == IF k = "block" THEN {"v1", "ro"} ELSE {"v1"}
\* The chains that make a difference to a device.
ChainKinds(k) == CASE k = "rx" -> {{"good"}, {"good", "bad"}, {"good", "broken"}}
                   [] k \in {"block", "rng", "balloon"} -> {{"good"}, {"good", "broken"}}
                   [] OTHER -> {{"good"}}
NoJob == [on |-> FALSE, limit |-> 0, did |-> FALSE, end |-> FALSE, ok |-> TRUE]
FreshQueue == [ready |-> FALSE, lastAvail |-> 0, lastUsed |-> 0]
EmptyRing == [idx |-> 0, ring |-> [s \in Heads |-> 0]]

VirtioInit ==
  /\ devKind \in DeviceKinds /\ level \in Levels /\ chains \in ChainKinds(devKind)
  /\ dstatus = {} /\ acked = {} /\ activated = FALSE /\ q = FreshQueue
  /\ isr = FALSE /\ line = FALSE /\ job = NoJob /\ avail = EmptyRing /\ used = EmptyRing
  /\ chain = [h \in Heads |-> "good"] /\ answer = [h \in Heads |-> 0]
  /\ drv = [pc |-> "init", order |-> <<>>, seen |-> 0, kick |-> FALSE, got |-> <<>>, broke |-> FALSE]
  /\ frames = [sent |-> 0, taken |-> 0, lost |-> {}]

deviceVars == <<devKind, level, chains>>
transportVars == <<dstatus, acked, activated, q, isr, line>>
guestVars == <<avail, chain, drv>>
hostVars == <<used, answer, frames>>

----------------------------------------------------------------------------
(* The registers.  Every access holds the transport's lock.                *)
Locked == ~job.on
CheckStatus(required, forbidden) == required \subseteq dstatus /\ forbidden \cap dstatus = {}

Ladder == <<"acknowledge", "driver", "features_ok", "driver_ok">>
Rung(n) == {Ladder[i] : i \in 1 .. n}

(* set_device_status: what the status becomes when `status` is written and *)
(* no reset is meant.  Exactly one new bit, in its turn, is accepted.      *)
NextStatus(current, status) ==
  IF "failed" \in status THEN current \cup {"failed"}
  ELSE IF \E n \in 1 .. 4 : current = Rung(n - 1) /\ status \ current = {Ladder[n]} THEN status
  ELSE current

(* reset() of the devices: only the balloon forgets the features. *)
DeviceReset == activated' = FALSE /\ acked' = (IF devKind = "balloon" THEN {} ELSE acked)

(* reset() of the transport, with the device and its queues. *)
MmioResetKeepsQueue == dstatus' = {} /\ isr' = FALSE /\ DeviceReset /\ UNCHANGED <<q, line>>

MmioReset == dstatus' = {} /\ isr' = FALSE /\ DeviceReset /\ q' = FreshQueue /\ UNCHANGED line

(* The driver resets the device, whatever it was doing, and forgets its    *)
(* buffers; the rings are cleared before they are used again.              *)
DriverResets ==
  /\ Locked /\ drv.pc # "init" /\ MmioReset
  /\ drv' = [drv EXCEPT !.pc = "init", !.order = <<>>, !.seen = 0, !.kick = FALSE, !.broke = FALSE]
  /\ avail' = EmptyRing /\ used' = EmptyRing
  /\ chain' = [h \in Heads |-> "good"] /\ answer' = [h \in Heads |-> 0]
  /\ UNCHANGED <<deviceVars, job, frames>>

(* activate() of these devices cannot fail. *)
WriteStatus(status) ==
  /\ Locked /\ drv.pc \in {"init", "idle"} /\ status # {}
  /\ dstatus' = NextStatus(dstatus, status)
  /\ activated' = (activated \/ ("driver_ok" \in dstatus' \ dstatus))
  /\ drv' = [drv EXCEPT !.pc = IF "failed" \in dstatus' THEN "failed"
                               ELSE IF "driver_ok" \in dstatus' THEN "idle" ELSE "init"]
  /\ UNCHANGED <<deviceVars, acked, q, isr, line, job, avail, chain, hostVars>>

AckFeatures(f) ==
  /\ Locked /\ drv.pc \in {"init", "idle"} /\ CheckStatus({"driver"}, {"features_ok"})
  /\ acked' = acked \cup (f \cap Features(devKind))
  /\ UNCHANGED <<deviceVars, dstatus, activated, q, isr, line, job, guestVars, hostVars>>

(* update_queue_field: QueueNum, QueueReady and the ring addresses. *)
WriteQueue ==
  /\ Locked /\ drv.pc = "init" /\ CheckStatus({"features_ok"}, {"driver_ok", "failed"})
  /\ q' = [q EXCEPT !.ready = TRUE]
  /\ UNCHANGED <<deviceVars, dstatus, acked, activated, isr, line, job, guestVars, hostVars>>

(* QueueNotify, and process_external_queue from the poll loop.  A queue    *)
(* that is not ready is left alone.                                        *)
StartJob == job' = [NoJob EXCEPT !.on = TRUE, !.limit = avail.idx, !.end = ~q.ready]

Notify ==
  /\ Locked /\ drv.kick /\ drv.pc = "idle" /\ StartJob /\ drv' = [drv EXCEPT !.kick = FALSE]
  /\ UNCHANGED <<deviceVars, transportVars, avail, chain, hostVars>>

ProcessExternalQueue ==
  /\ Locked /\ devKind = "rx" /\ activated /\ StartJob
  /\ q.ready /\ q.lastAvail # avail.idx /\ frames.taken < frames.sent    \* otherwise it changes nothing
  /\ UNCHANGED <<deviceVars, transportVars, guestVars, hostVars>>

----------------------------------------------------------------------------
(* process_queue: the loop over the available chains.                      *)
HeadNewest == avail.ring[(avail.idx + Wrap - 1) % QSize]

Head_ == avail.ring[q.lastAvail % QSize]

More == IF devKind = "balloon" THEN q.lastAvail # avail.idx ELSE q.lastAvail # job.limit

Advance(value) ==
  /\ answer' = [answer EXCEPT ![Head_] = value]
  /\ used' = [used EXCEPT !.ring = [@ EXCEPT ![q.lastUsed % QSize] = Head_],
                          !.idx = IF devKind = "balloon" THEN (q.lastUsed + 1) % Wrap ELSE @]
  /\ q' = [q EXCEPT !.lastAvail = (@ + 1) % Wrap, !.lastUsed = (@ + 1) % Wrap]

(* The block device returns every request and then writes its status byte, *)
(* if only to report an I/O error; when that cannot be written the chain   *)
(* has no status and the call ends.                                        *)
NoStatus == 2

BlockRequest ==
  /\ devKind = "block" /\ Advance(IF chain[Head_] = "broken" THEN NoStatus ELSE 1)
  /\ job' = [job EXCEPT !.did = TRUE, !.ok = chain[Head_] # "broken", !.end = chain[Head_] = "broken"]
  /\ UNCHANGED frames

(* File system requests and transmitted frames are returned whatever the   *)
(* chain holds.                                                            *)
Returned == Advance(1) /\ job' = [job EXCEPT !.did = TRUE] /\ UNCHANGED frames

FsRequest == devKind = "fs" /\ Returned
TransmitRequest == devKind = "tx" /\ Returned

(* next_avail_desc takes the chain off the queue; process_inflate then     *)
(* reads the page numbers, and when it cannot the call ends and the chain  *)
(* is not returned.                                                        *)
BalloonRequest ==
  /\ devKind = "balloon"
  /\ \/ chain[Head_] # "broken" /\ Returned
     \/ /\ chain[Head_] = "broken" /\ q' = [q EXCEPT !.lastAvail = (@ + 1) % Wrap]
        /\ job' = [job EXCEPT !.ok = FALSE, !.end = TRUE] /\ UNCHANGED <<answer, used, frames>>

(* fill_chain fails before the chain is taken off the queue. *)
RngRequest ==
  /\ devKind = "rng"
  /\ IF chain[Head_] = "broken"
     THEN job' = [job EXCEPT !.ok = FALSE, !.end = TRUE] /\ UNCHANGED <<answer, used, q>>
     ELSE Advance(1) /\ job' = [job EXCEPT !.did = TRUE]
  /\ UNCHANGED frames

(* process_rx_queue takes a frame from the host before it looks at the     *)
(* chain; a chain it cannot use costs the frame.                           *)
NetDrop(ok) ==
  /\ job' = [job EXCEPT !.ok = ok, !.end = TRUE]
  /\ frames' = [frames EXCEPT !.taken = @ + 1, !.lost = @ \cup {frames.taken + 1}]
  /\ UNCHANGED <<answer, used, q>>

NetReceive ==
  /\ devKind = "rx" /\ frames.taken < frames.sent
  /\ \/ chain[Head_] = "good" /\ Advance(frames.taken + 1) /\ job' = [job EXCEPT !.did = TRUE]
        /\ frames' = [frames EXCEPT !.taken = @ + 1]
     \/ chain[Head_] = "bad" /\ NetDrop(TRUE)
     \/ chain[Head_] = "broken" /\ NetDrop(FALSE)

NetNoFrame ==
  /\ devKind = "rx" /\ frames.taken = frames.sent
  /\ job' = [job EXCEPT !.end = TRUE] /\ UNCHANGED <<answer, used, q, frames>>

JobChain ==
  /\ job.on /\ ~job.end /\ More
  /\ BlockRequest \/ FsRequest \/ TransmitRequest \/ BalloonRequest \/ RngRequest \/ NetReceive \/ NetNoFrame
  /\ drv' = [drv EXCEPT !.broke = @ \/ ~job'.ok]
  /\ UNCHANGED <<deviceVars, dstatus, acked, activated, isr, line, avail, chain>>

(* The used index is published and the interrupt raised if the call        *)
(* returned Ok(true).                                                      *)
JobEndPublishesOne ==
  /\ job.on /\ (job.end \/ ~More) /\ job' = NoJob
  /\ used' = IF job.did /\ job.ok THEN [used EXCEPT !.idx = (@ + 1) % Wrap] ELSE used
  /\ isr' = (isr \/ (job.did /\ job.ok)) /\ line' = (line \/ (job.did /\ job.ok))
  /\ UNCHANGED <<deviceVars, dstatus, acked, activated, q, guestVars, answer, frames>>

JobEndNoInterrupt ==
  /\ job.on /\ (job.end \/ ~More) /\ job' = NoJob
  /\ used' = IF job.did /\ job.ok THEN [used EXCEPT !.idx = q.lastUsed] ELSE used
  /\ UNCHANGED <<deviceVars, transportVars, guestVars, answer, frames>>

JobEnd ==
  /\ job.on /\ (job.end \/ ~More) /\ job' = NoJob
  /\ used' = IF job.did /\ job.ok THEN [used EXCEPT !.idx = q.lastUsed] ELSE used
  /\ isr' = (isr \/ (job.did /\ job.ok)) /\ line' = (line \/ (job.did /\ job.ok))
  /\ UNCHANGED <<deviceVars, dstatus, acked, activated, q, guestVars, answer, frames>>

----------------------------------------------------------------------------
(* The guest's driver, as virtio drivers are written, and the host.        *)
Outstanding == {drv.order[i] : i \in 1 .. Len(drv.order)}

Post(h, c) ==
  /\ drv.pc = "idle" /\ h \in Heads \ Outstanding /\ c \in chains
  /\ avail' = [idx |-> (avail.idx + 1) % Wrap, ring |-> [avail.ring EXCEPT ![avail.idx % QSize] = h]]
  /\ chain' = [chain EXCEPT ![h] = c]
  /\ answer' = [answer EXCEPT ![h] = 0]
  /\ drv' = [drv EXCEPT !.order = Append(@, h), !.kick = TRUE]
  /\ UNCHANGED <<deviceVars, transportVars, job, used, frames>>

TakeInterrupt ==
  /\ drv.pc = "idle" /\ line /\ line' = (line /\ level) /\ drv' = [drv EXCEPT !.pc = "irq"]
  /\ UNCHANGED <<deviceVars, dstatus, acked, activated, q, isr, job, avail, chain, hostVars>>

(* InterruptACK: the bit is cleared and, nothing being left, the line,     *)
(* even if the bit was not set.                                            *)
InterruptAck ==
  /\ Locked /\ drv.pc = "irq"
  /\ IF CheckStatus({"driver_ok"}, {})
     THEN isr' = FALSE /\ line' = (line /\ ~level) ELSE UNCHANGED <<isr, line>>
  /\ drv' = [drv EXCEPT !.pc = "collect"]
  /\ UNCHANGED <<deviceVars, dstatus, acked, activated, q, job, avail, chain, hostVars>>

(* A driver finds its buffer by the head that the device returned. *)
Without(s, h) ==
  IF \A i \in 1 .. Len(s) : s[i] # h THEN s
  ELSE LET i == CHOOSE j \in 1 .. Len(s) : s[j] = h
       IN  [j \in 1 .. Len(s) - 1 |-> IF j < i THEN s[j] ELSE s[j + 1]]

Collect ==
  /\ drv.pc = "collect" /\ drv.seen # used.idx
  /\ LET h == used.ring[drv.seen % QSize] IN
     /\ drv' = [drv EXCEPT !.seen = (@ + 1) % Wrap, !.order = Without(@, h),
                           !.got = IF devKind = "rx" THEN Append(@, answer[h]) ELSE @]
     /\ chain' = [chain EXCEPT ![h] = "good"] /\ answer' = [answer EXCEPT ![h] = 0]
  /\ UNCHANGED <<deviceVars, transportVars, job, avail, used, frames>>

Collected ==
  /\ drv.pc = "collect" /\ drv.seen = used.idx /\ drv' = [drv EXCEPT !.pc = "idle"]
  /\ UNCHANGED <<deviceVars, transportVars, job, avail, chain, hostVars>>

FrameArrives ==
  /\ devKind = "rx" /\ frames.sent < MaxFrames /\ frames' = [frames EXCEPT !.sent = @ + 1]
  /\ UNCHANGED <<deviceVars, transportVars, job, guestVars, used, answer>>

(* A driver adds a bit, or adds one and drops FEATURES_OK, or gives up. *)
DriverWrites ==
  \E n \in 1 .. 4 :
    \/ WriteStatus(dstatus \cup Rung(n)) \/ WriteStatus(Rung(n) \ {"features_ok"})
    \/ WriteStatus(Rung(n) \cup {"failed"})

VirtioNext ==
  \/ DriverResets \/ DriverWrites \/ WriteQueue \/ Notify \/ ProcessExternalQueue
  \/ \E f \in {{"v1"}, {"ro", "other"}} : AckFeatures(f)
  \/ JobChain \/ JobEnd \/ TakeInterrupt \/ InterruptAck \/ Collect \/ Collected \/ FrameArrives
  \/ \E h \in Heads, c \in chains : Post(h, c)

VirtioSpec == VirtioInit /\ [][VirtioNext]_vqVars

----------------------------------------------------------------------------
Ahead(a, b) == (a - b + Wrap) % Wrap

(* What the guest can see as used is a chain it posted and has not taken   *)
(* back, and the device has answered it (or knows that a block request     *)
(* has no place for its status).                                           *)
UsedAnswered ==
  drv.pc # "init" =>
    \A k \in 1 .. Ahead(used.idx, drv.seen) :
      LET h == used.ring[(drv.seen + k - 1) % QSize] IN h \in Outstanding /\ answer[h] # 0

(* Between calls the guest sees everything the device believes it has      *)
(* returned, unless a call ended on a chain it could not walk.             *)
BatchVisible == Locked /\ drv.pc # "init" /\ ~drv.broke => used.idx = q.lastUsed

(* The device can read every chain of its balloon queue.  One that it      *)
(* cannot read is taken and never returned.                                *)
Readable == devKind = "balloon" => "broken" \notin chains

(* The queue does what its driver relies on: RequestQueue.  The promise is *)
(* kept to a driver whose balloon chains are readable; of other devices a  *)
(* chain that cannot be walked holds the queue up, and breaks no promise.  *)
Promise == INSTANCE RequestQueue WITH
             Requests <- Heads,
             order <- IF Readable THEN drv.order ELSE <<>>,
             ndone <- IF Readable THEN Ahead(used.idx, drv.seen) ELSE 0
KeepsPromise == Promise!RQSpec

(* Frames reach the guest in order and at most once, and one is lost only  *)
(* to a chain that cannot take it.                                         *)
FramesKept ==
  /\ \A i, j \in 1 .. Len(drv.got) : i < j => drv.got[i] < drv.got[j]
  /\ chains = {"good"} => frames.lost = {}

(* The device uses only features it offers, and is active only behind a    *)
(* driver that finished its setup.                                         *)
ActiveBehindDriver == activated => "driver_ok" \in dstatus /\ acked \subseteq Features(devKind)

(* Resetting returns the device to its initial state (transport/mod.rs,    *)
(* VirtioDevice::reset).                                                   *)
ResetIsInitial == dstatus = {} => acked = {} /\ q = FreshQueue /\ ~activated /\ ~isr /\ (level => ~line)

(* A chain the device can take is returned to the driver, unless the       *)
(* driver resets it or gives up.  A receive chain waits for a frame, and   *)
(* one that cannot be read holds up or costs what is behind it.            *)
Completes ==
  \A h \in Heads :
    (/\ drv.pc = "idle" /\ h \in Outstanding /\ q.ready
     /\ devKind # "rx" /\ "broken" \notin chains)
      ~> (h \notin Outstanding \/ drv.pc \in {"init", "failed"})

(* What a queue shows as used was posted and answered and is all it has      *)
(* returned, no frame is lost to its own bookkeeping and it works only       *)
(* behind a driver that is set up, under resets and level or edge interrupts. *)
QueueExact ==
  UsedAnswered /\ BatchVisible /\ FramesKept /\ ActiveBehindDriver
=============================================================================
