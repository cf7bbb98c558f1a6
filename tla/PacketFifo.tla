----------------------------- MODULE PacketFifo -----------------------------
(***************************************************************************)
(* What net/shared_ring.rs promises: a queue from one producer to one      *)
(* consumer.  Packets are received whole, once, in the order in which they  *)
(* were sent.                                                               *)
(***************************************************************************)
EXTENDS Naturals, Sequences

CONSTANT Packets

VARIABLES sent, received

vars == <<sent, received>>

Init == sent = <<>> /\ received = <<>>

Send == \E p \in Packets : sent' = Append(sent, p) /\ UNCHANGED received

Receive ==
    /\ Len(received) < Len(sent)
    /\ received' = Append(received, sent[Len(received) + 1])
    /\ UNCHANGED sent

Next == Send \/ Receive

Spec == Init /\ [][Next]_vars
=============================================================================
