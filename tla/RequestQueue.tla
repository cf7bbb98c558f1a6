---------------------------- MODULE RequestQueue ----------------------------
(***************************************************************************)
(* What a virtqueue promises the driver that uses it: requests come back   *)
(* in the order they were made, each once, in batches of any size.         *)
(* VirtioQueue is shown to implement it.                                   *)
(***************************************************************************)
EXTENDS Naturals, Sequences

CONSTANT Requests

VARIABLES order,   \* the requests the driver has made and not taken back, oldest first
          ndone    \* how many of them the device has returned

RQInit == order = <<>> /\ ndone = 0

Submit == \E r \in Requests : (\A i \in 1 .. Len(order) : order[i] # r) /\ order' = Append(order, r) /\ UNCHANGED ndone
Return == ndone' \in (ndone + 1) .. Len(order) /\ UNCHANGED order
Take == ndone > 0 /\ order' = Tail(order) /\ ndone' = ndone - 1
Abandon == order' = <<>> /\ ndone' = 0

RQNext == Submit \/ Return \/ Take \/ Abandon

RQSpec == RQInit /\ [][RQNext]_<<order, ndone>>
=============================================================================
