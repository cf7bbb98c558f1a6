----------------------------- MODULE SharedRing -----------------------------
(***************************************************************************)
(* The single-producer single-consumer ring of net/shared_ring.rs.          *)
(*                                                                          *)
(* write_idx and read_idx only grow; an index is reduced modulo the         *)
(* capacity when the data area is addressed.  An entry is a length, the     *)
(* payload and padding, and does not wrap: when it does not fit before the  *)
(* end of the area a skip marker is written there and the entry at the      *)
(* start.  The data area is memory that both sides access without a lock;   *)
(* the producer's steps are the load of read_idx, the write of the marker,  *)
(* of the length and of the payload, and the store of write_idx, and the    *)
(* consumer's are the mirror image.  The Release store of an index and its  *)
(* Acquire load order the plain accesses, so a step sees all earlier ones.  *)
(*                                                                          *)
(* Sizes are counted in words of four bytes, the size of the length field.  *)
(* A packet is its length and its number; each word of its payload holds    *)
(* the number.                                                              *)
(***************************************************************************)
EXTENDS Naturals, Sequences

CONSTANTS
    Capacity,    \* words in the data area
    MaxPacket,   \* MAX_PACKET_SIZE
    BufLen,      \* the buffer the consumer passes to try_recv
    MaxSends,    \* bound: packets sent
    Skip         \* SKIP_MARKER, a value that is no length

EntryHeader == 1
EntryAlign == 2

\* align_up()
AlignUp(n) == ((n + EntryAlign - 1) \div EntryAlign) * EntryAlign

EntrySize(len) == AlignUp(EntryHeader + len)

\* from_raw() demands 64 KiB, more than twice the largest entry.
ASSUME RingAssumption ==
    /\ Capacity \in Nat /\ MaxPacket \in Nat /\ BufLen \in Nat /\ MaxSends \in Nat
    /\ Skip \notin Nat
    /\ Capacity >= 2 * EntrySize(MaxPacket)

VARIABLES
    write_idx, read_idx,  \* RingHeader
    data,                 \* the data area
    prod,                 \* try_send: where it is, its packet and its locals
    cons,                 \* try_recv: the same
    sent, received        \* the packets published and returned so far

ringVars == <<write_idx, read_idx, data, prod, cons, sent, received>>

Lengths == 0..MaxPacket
Numbers == 1..MaxSends
Packets == [len: Lengths, num: Numbers]
Cells == 0..(Capacity - 1)
Pos(idx) == idx % Capacity

Idle == [pc |-> "idle"]

RingInit ==
    /\ write_idx = 0 /\ read_idx = 0
    /\ data = [c \in Cells |-> 0]
    /\ prod = Idle /\ cons = Idle
    /\ sent = <<>> /\ received = <<>>

----------------------------------------------------------------------------
(* RingProducer::try_send *)

Gap(w) == Capacity - Pos(w)
Wraps(w, len) == Pos(w) + EntrySize(len) > Capacity

\* What the entry takes of the ring, the words skipped included.
Needed(w, len) == EntrySize(len) + IF Wraps(w, len) THEN Gap(w) ELSE 0

Available(w, r) == Capacity - (w - r)

Fits(w, r, len) == Available(w, r) >= Needed(w, len)

\* Loads both indices and reserves; a packet that does not fit is refused and
\* try_send returns false, which changes nothing.
SendBegins(len) ==
    /\ prod.pc = "idle" /\ Len(sent) < MaxSends
    /\ Fits(write_idx, read_idx, len)
    /\ prod' = [pc |-> IF Wraps(write_idx, len) THEN "skip" ELSE "length",
                packet |-> [len |-> len, num |-> Len(sent) + 1], at |-> write_idx]
    /\ UNCHANGED <<write_idx, read_idx, data, cons, sent, received>>

\* write_skip_marker(), and write_entry() goes on at the start of the area.
SendSkips ==
    /\ prod.pc = "skip"
    /\ data' = [data EXCEPT ![Pos(prod.at)] = Skip]
    /\ prod' = [prod EXCEPT !.pc = "length", !.at = prod.at + Gap(prod.at)]
    /\ UNCHANGED <<write_idx, read_idx, cons, sent, received>>

SendWritesLength ==
    /\ prod.pc = "length"
    /\ data' = [data EXCEPT ![Pos(prod.at)] = prod.packet.len]
    /\ prod' = [prod EXCEPT !.pc = "payload"]
    /\ UNCHANGED <<write_idx, read_idx, cons, sent, received>>

Payload(idx, len) == {Pos(idx) + EntryHeader + i : i \in 0..(len - 1)}

\* A mutant: the last word of the payload is not copied.
SendWritesPayloadShort ==
    /\ prod.pc = "payload"
    /\ data' = [c \in Cells |-> IF prod.packet.len > 0 /\ c \in Payload(prod.at, prod.packet.len - 1)
                                THEN prod.packet.num ELSE data[c]]
    /\ prod' = [prod EXCEPT !.pc = "publish"]
    /\ UNCHANGED <<write_idx, read_idx, cons, sent, received>>

SendWritesPayload ==
    /\ prod.pc = "payload"
    /\ data' = [c \in Cells |-> IF prod.packet.len > 0 /\ c \in Payload(prod.at, prod.packet.len)
                                THEN prod.packet.num ELSE data[c]]
    /\ prod' = [prod EXCEPT !.pc = "publish"]
    /\ UNCHANGED <<write_idx, read_idx, cons, sent, received>>

SendPublishes ==
    /\ prod.pc = "publish"
    /\ write_idx' = prod.at + EntrySize(prod.packet.len)
    /\ sent' = Append(sent, prod.packet)
    /\ prod' = Idle
    /\ UNCHANGED <<read_idx, data, cons, received>>

----------------------------------------------------------------------------
(* RingConsumer::try_recv *)

\* Loads both indices; an empty ring returns None.
RecvBegins ==
    /\ cons.pc = "idle" /\ read_idx < write_idx
    /\ cons' = [pc |-> "length"]
    /\ UNCHANGED <<write_idx, read_idx, data, prod, sent, received>>

\* A mutant: the marker is taken for an empty ring.
RecvSkipsNothing ==
    /\ cons.pc = "length" /\ data[Pos(read_idx)] = Skip
    /\ cons' = Idle
    /\ UNCHANGED <<write_idx, read_idx, data, prod, sent, received>>

\* The marker: read_idx moves to the start of the area and try_recv begins again.
RecvSkips ==
    /\ cons.pc = "length" /\ data[Pos(read_idx)] = Skip
    /\ read_idx' = read_idx + Gap(read_idx)
    /\ cons' = Idle
    /\ UNCHANGED <<write_idx, data, prod, sent, received>>

\* A length that exceeds the buffer returns None and leaves the entry.
RecvReadsLength ==
    /\ cons.pc = "length" /\ data[Pos(read_idx)] # Skip
    /\ LET len == data[Pos(read_idx)] IN
         cons' = IF len > BufLen THEN Idle ELSE [pc |-> "payload", len |-> len]
    /\ UNCHANGED <<write_idx, read_idx, data, prod, sent, received>>

Copied == {data[c] : c \in Payload(read_idx, cons.len) \cap Cells}

\* copy_nonoverlapping() out of the ring.
RecvCopies ==
    /\ cons.pc = "payload"
    /\ cons' = [pc |-> "release", len |-> cons.len, words |-> Copied]
    /\ UNCHANGED <<write_idx, read_idx, data, prod, sent, received>>

\* The buffer holds one number, or is empty; the number of an empty packet is
\* taken from the queue, since there is no word to hold it.
Delivered(len, words) ==
    IF len = 0 THEN [len |-> 0, num |-> Len(received) + 1]
               ELSE [len |-> len, num |-> IF \E n \in words : words = {n}
                                          THEN CHOOSE n \in words : TRUE ELSE 0]

RecvReleases ==
    /\ cons.pc = "release"
    /\ read_idx' = read_idx + EntrySize(cons.len)
    /\ received' = Append(received, Delivered(cons.len, cons.words))
    /\ cons' = Idle
    /\ UNCHANGED <<write_idx, data, prod, sent>>

Produce == (\E len \in Lengths : SendBegins(len)) \/ SendSkips
           \/ SendWritesLength \/ SendWritesPayload \/ SendPublishes

Consume == RecvBegins \/ RecvSkips \/ RecvReadsLength \/ RecvCopies \/ RecvReleases

RingNext == Produce \/ Consume

RingSpec == RingInit /\ [][RingNext]_ringVars

\* A consumer that polls: try_recv is called again and again and runs to its end.
RingFairSpec == RingSpec /\ WF_ringVars(Consume)

----------------------------------------------------------------------------
(* Where try_send and try_recv are, with their locals. *)
ProdStates ==
    {Idle} \cup [pc: {"skip", "length", "payload", "publish"},
                 packet: [len: Lengths, num: Nat], at: Nat]

ConsStates ==
    {Idle} \cup [pc: {"length"}] \cup [pc: {"payload"}, len: Nat]
           \cup [pc: {"release"}, len: Nat, words: SUBSET (Nat \cup {Skip})]

(* Indices, memory and the locals of both sides have their types: the       *)
(* consumer never takes a marker for a length.                              *)
RingTypeOK ==
    /\ write_idx \in Nat /\ read_idx \in Nat
    /\ data \in [Cells -> Nat \cup {Skip}]
    /\ prod \in ProdStates /\ cons \in ConsStates
    /\ sent \in Seq([len: Lengths, num: Nat])

(* The producer, which decides on the read_idx it loaded once, never gets a *)
(* whole ring ahead of the consumer, nor the consumer ahead of it: the      *)
(* subtractions of try_send do not underflow.                               *)
NoOverrun == read_idx <= write_idx /\ write_idx - read_idx <= Capacity

(* An entry that is being written lies inside the data area and in words    *)
(* that the consumer has released ("we've checked space in try_send").      *)
WritesFreeWords ==
    prod.pc \in {"length", "payload", "publish"} =>
        /\ Pos(prod.at) + EntrySize(prod.packet.len) <= Capacity
        /\ prod.at + EntrySize(prod.packet.len) - read_idx <= Capacity

(* A ring that has been emptied accepts every packet, wherever its indices  *)
(* stand: a refusal is always cured by the consumer.                        *)
EmptyAccepts ==
    write_idx = read_idx => \A len \in Lengths : Fits(write_idx, read_idx, len)

(* The ring implements the queue: whatever both sides do at the same time,  *)
(* packets arrive whole, once and in order.                                 *)
Fifo == INSTANCE PacketFifo
ImplementsFifo == Fifo!Spec

(* A published packet is received, if the consumer's buffer holds it.       *)
SentIsReceived ==
    \A n \in 1..MaxSends : (Len(sent) >= n) ~> (Len(received) >= n)

(* try_recv returns None only if the ring is empty.                         *)
NoneMeansEmpty ==
    [][cons.pc = "length" /\ cons'.pc = "idle" /\ read_idx' = read_idx
         => read_idx >= write_idx]_ringVars

(* The ring moves packets: the producer writes only free words, the consumer *)
(* reads only what was published, an emptied ring takes any packet wherever  *)
(* its indices stand, and what was sent is received while the consumer       *)
(* polls.                                                                    *)
RingDelivers ==
  [](NoOverrun /\ WritesFreeWords /\ EmptyAccepts) /\ SentIsReceived
=============================================================================
