-------------------------- MODULE VsockConnection --------------------------
(***************************************************************************)
(* The state machine of one vsock connection between a host stream and a   *)
(* guest socket (crates/visor-vmm/src/devices/vsock.rs).  Buffers are the  *)
(* number of bytes they hold; the free-running byte counters wrap at Wrap, *)
(* which is 2^32 in the code.                                              *)
(***************************************************************************)
EXTENDS Integers

CONSTANTS
  Wrap,       \* the counters are Wrapping<u32>
  BufSize,    \* CONN_TX_BUF_SIZE
  Threshold   \* CONN_CREDIT_UPDATE_THRESHOLD

ASSUME ConnAssumption ==
  /\ {Wrap, BufSize, Threshold} \subseteq Nat \ {0}
  /\ Threshold <= BufSize
  /\ 2 * BufSize <= Wrap

Counter == 0 .. Wrap - 1
Add(a, b) == (a + b) % Wrap
Sub(a, b) == (a - b) % Wrap

ConnStates ==
  {"LocalInit", "PeerInit", "Established", "LocalClosed", "PeerClosed", "Killed"}

PendingRx == {"Request", "Response", "Rst", "Rw", "CreditUpdate"}

\* noRecv and noSend are the two fields of PeerClosed, FALSE in other states.
VsockConnection ==
  [st : ConnStates, noRecv : BOOLEAN, noSend : BOOLEAN,
   tx : 0 .. BufSize, fwd : Counter, lastFwd : Counter,
   rx : Nat, rxCnt : Counter, alloc : Counter, peerFwd : Counter,
   pending : SUBSET PendingRx, expiry : BOOLEAN, hostClosed : BOOLEAN]

NewPeerInit(alloc) ==
  [st |-> "PeerInit", noRecv |-> FALSE, noSend |-> FALSE,
   tx |-> 0, fwd |-> 0, lastFwd |-> 0,
   rx |-> 0, rxCnt |-> 0, alloc |-> alloc, peerFwd |-> 0,
   pending |-> {"Response"}, expiry |-> FALSE, hostClosed |-> FALSE]

NewLocalInit ==
  [NewPeerInit(0) EXCEPT !.st = "LocalInit", !.pending = {"Request"}]

----------------------------------------------------------------------------
(* Credit flow control *)

\* Bytes that may be sent to the guest without overflowing its buffer.
PeerAvailCredit(c) == Sub(c.alloc, Sub(c.rxCnt, c.peerFwd))

\* The guest's view of the free space in tx_buf is stale enough to tell it.
PeerNeedsCreditUpdate(c) == Sub(BufSize, Sub(c.fwd, c.lastFwd)) < Threshold

Pend(c, it) == [c EXCEPT !.pending = @ \cup {it}]
PendIf(c, cond, it) == IF cond THEN Pend(c, it) ELSE c

----------------------------------------------------------------------------
(* The host side: data from, end of, and data for the host stream *)

PushHostData(c, n) == Pend([c EXCEPT !.rx = @ + n], "Rw")

NotifyHostClosed(c) == Pend([c EXCEPT !.hostClosed = TRUE], "Rw")

\* Flushes into a Vec, which takes all of tx_buf.
FlushTxBuf(c) ==
  LET d == [c EXCEPT !.fwd = Add(@, c.tx), !.tx = 0]
      drained == d.st = "PeerClosed" /\ d.noRecv /\ d.noSend
  IN  IF drained
        THEN Pend(d, "Rst")
        ELSE PendIf(d, PeerNeedsCreditUpdate(d), "CreditUpdate")

----------------------------------------------------------------------------
(* Packets.  flags holds the shutdown flags, n the length of the payload. *)

Ops == {"Request", "Response", "Rst", "Shutdown", "Rw", "CreditUpdate",
        "CreditRequest", "NoData"}

TxBufFull(c, p) == c.tx + p.n > BufSize

\* Credit that reaches the host without waking the data that waits for it.
PeerCreditOnly(c, p) == [c EXCEPT !.alloc = p.alloc, !.peerFwd = p.fwd]

\* Every packet carries the guest's credit, and data that waits for it is pending.
PeerCredit(c, p) ==
  LET d == [c EXCEPT !.alloc = p.alloc, !.peerFwd = p.fwd]
  IN  PendIf(d, PeerAvailCredit(d) > 0 /\ d.rx > 0, "Rw")

\* A packet of the guest.  One that does not fit in tx_buf is dropped, and one
\* that is not valid in the connection's state is ignored.
SendPkt(conn, p) ==
  LET c == PeerCredit(conn, p)
      receiving == c.st = "Established" \/ (c.st = "PeerClosed" /\ ~c.noSend)
      shut == [c EXCEPT !.st = "PeerClosed",
                        !.noRecv = @ \/ "RCV" \in p.flags,
                        !.noSend = @ \/ "SEND" \in p.flags]
      both == shut.noRecv /\ shut.noSend
  IN  CASE p.op = "Rw" /\ receiving /\ p.n > 0 /\ ~TxBufFull(c, p) ->
             PendIf([c EXCEPT !.tx = @ + p.n], PeerNeedsCreditUpdate(c), "CreditUpdate")
        [] p.op = "Response" /\ c.st = "LocalInit" ->
             [c EXCEPT !.st = "Established", !.expiry = FALSE]
        [] p.op = "Shutdown" /\ c.st = "Established" ->
             IF both /\ c.tx > 0
               THEN [shut EXCEPT !.expiry = TRUE]
               ELSE PendIf(shut, both, "Rst")
        [] p.op = "Shutdown" /\ c.st = "PeerClosed" ->
             PendIf(shut, both /\ c.tx = 0, "Rst")
        [] p.op = "CreditRequest" /\ (receiving \/ c.st = "PeerInit") ->
             Pend(c, "CreditUpdate")
        [] OTHER -> c

\* What recv_pkt() returns: the packet, or NoData, and the connection after it.
Produces(c, op, n, flags) ==
  [conn |-> c, op |-> op, n |-> n, flags |-> flags, fwd |-> c.fwd]

Min2(a, b) == IF a <= b THEN a ELSE b

\* The data branch without the limit on the guest's credit.
RecvDataPktUnlimited(c, maxLen) ==
  LET n == Min2(maxLen, c.rx)
  IN  IF c.st \in {"LocalInit", "PeerInit"} THEN
        Produces(Pend(c, "Rw"), "NoData", 0, {})
      ELSE IF n = 0 THEN
        Produces(c, "NoData", 0, {})
      ELSE
        Produces([c EXCEPT !.rx = @ - n, !.rxCnt = Add(@, n), !.lastFwd = c.fwd],
                 "Rw", n, {})

\* The data branch of recv_pkt(), with the Rw indication already removed from c.
RecvDataPkt(c, maxLen) ==
  LET told == [c EXCEPT !.lastFwd = c.fwd]
      n == Min2(Min2(maxLen, PeerAvailCredit(c)), c.rx)
  IN  CASE c.st \in {"LocalInit", "PeerInit"} ->
             Produces(Pend(c, "Rw"), "NoData", 0, {})
        [] c.st \in {"LocalClosed", "Killed"} \/ (c.st = "PeerClosed" /\ c.noRecv) ->
             Produces(c, "Rst", 0, {})
        [] OTHER ->
             IF PeerAvailCredit(c) = 0 THEN
               Produces(Pend(told, "Rw"), "CreditRequest", 0, {})
             ELSE IF c.rx = 0 /\ c.hostClosed THEN
               Produces([c EXCEPT !.st = "LocalClosed", !.noSend = FALSE, !.expiry = TRUE],
                        "Shutdown", 0, {"RCV", "SEND"})
             ELSE IF c.rx = 0 THEN
               Produces(c, "NoData", 0, {})
             ELSE IF maxLen = 0 THEN
               Produces(Pend(c, "Rw"), "NoData", 0, {})
             ELSE
               Produces([told EXCEPT !.rx = @ - n, !.rxCnt = Add(@, n)], "Rw", n, {})

\* The next packet for the guest, by priority.
RecvPkt(c, maxLen) ==
  LET without(it) == [c EXCEPT !.pending = @ \ {it}]
  IN  CASE "Rst" \in c.pending ->
             Produces(without("Rst"), "Rst", 0, {})
        [] "Rst" \notin c.pending /\ "Response" \in c.pending ->
             Produces([without("Response") EXCEPT !.st = "Established"], "Response", 0, {})
        [] c.pending \cap {"Rst", "Response"} = {} /\ "Request" \in c.pending ->
             Produces([without("Request") EXCEPT !.expiry = TRUE], "Request", 0, {})
        [] c.pending \subseteq {"Rw", "CreditUpdate"} /\ "Rw" \in c.pending ->
             RecvDataPkt(without("Rw"), maxLen)
        [] c.pending = {"CreditUpdate"} ->
             Produces([without("CreditUpdate") EXCEPT !.lastFwd = c.fwd],
                      "CreditUpdate", 0, {})
        [] c.pending = {} ->
             Produces(c, "NoData", 0, {})
=============================================================================
