----------------------------- MODULE VsockMuxer -----------------------------
(***************************************************************************)
(* The vsock device, the muxer that joins its connections to host streams  *)
(* (crates/visor-vmm/src/devices/vsock.rs and vsock_muxer.rs), a guest     *)
(* driver that keeps to the virtio-vsock protocol, and host clients.       *)
(*                                                                         *)
(* Three parties share the device under its mutex: a vCPU thread that      *)
(* serves a queue notification, the muxer task, and, through the RX kick,  *)
(* the muxer again.  One action is what one of them does under one lock.   *)
(***************************************************************************)
EXTENDS VsockConnection, Sequences, SequencesExt, FiniteSets

CONSTANTS
  NumPorts,       \* size of [LOCAL_PORT_START, LOCAL_PORT_END)
  GuestPorts,     \* host ports that the guest dials
  MaxConnections, \* MAX_CONNECTIONS
  StreamBuf,      \* STREAM_BUF_SIZE
  RxBufs,         \* descriptors in the guest's RX ring
  RxBufLen,       \* payload capacity of one of them
  TxQueue,        \* packets in the guest's TX ring
  GuestAlloc,     \* buf_alloc of a guest socket
  GuestThreshold, \* free space below which the guest sends CREDIT_UPDATE
  SockBuf,        \* bytes a client's socket holds before try_write blocks
  Budgets,        \* bounds on the environment, one of which each behaviour gets
  NoConn          \* no connection under a key

ASSUME MuxerAssumption ==
  /\ NumPorts \in Nat \ {0} /\ GuestPorts \cap (0 .. NumPorts - 1) = {}
  /\ {MaxConnections, StreamBuf, RxBufs, RxBufLen, TxQueue, SockBuf} \subseteq Nat \ {0}
  /\ Budgets \subseteq [connects : Nat, dials : Nat, guest : Nat, host : Nat, resets : Nat]
  /\ GuestAlloc \in 1 .. Wrap - 1 /\ GuestThreshold \in 1 .. GuestAlloc

LocalPorts == 0 .. NumPorts - 1
Ports == LocalPorts \cup GuestPorts

VARIABLES
  activated, conns,          \* VsockDevice
  txq, rxq,                  \* packets in the TX ring; in used RX buffers
  permit,                    \* the stored permit of tx_notify
  pc, cur, work,             \* VsockMuxer::run, and what a sync has to finish
  streams, allocated, nextPort,  \* VsockMuxer
  sock,                      \* the client's end of each stream
  guest,                     \* the guest's sockets
  backlog, budget            \* clients that wait for accept; bounds left

device == <<activated, conns>>
muxer  == <<pc, cur, work, streams, allocated, nextPort>>
vars == <<device, txq, rxq, permit, muxer, sock, guest, backlog, budget>>

NoSock == [open |-> FALSE, toMux |-> 0, ready |-> FALSE, held |-> 0, got |-> 0]
NewSock == [NoSock EXCEPT !.open = TRUE]
NoGuest == [st |-> "none", sent |-> 0, seen |-> 0, unread |-> 0, fwd |-> 0, told |-> 0]
NoWork == [tx |-> [p \in LocalPorts |-> 0], dead |-> {}, kick |-> FALSE]

Packets == [port : Ports, op : Ops \ {"NoData"}, n : Nat, flags : SUBSET {"RCV", "SEND"},
            fwd : Counter, alloc : Counter]

\* The types of the variables; the rings are never over-filled.
TypeOK ==
  /\ activated \in BOOLEAN /\ permit \in BOOLEAN
  /\ conns \in [Ports -> VsockConnection \cup {NoConn}]
  /\ txq \in Seq(Packets) /\ Len(txq) <= TxQueue
  /\ rxq \in Seq(Packets) /\ Len(rxq) <= RxBufs
  /\ pc \in {"loop", "idle", "woken", "wait", "parked", "finish", "kick"}
  /\ cur \in LocalPorts /\ nextPort \in LocalPorts
  /\ work \in [tx : [LocalPorts -> 0 .. BufSize], dead : SUBSET LocalPorts, kick : BOOLEAN]
  /\ streams \subseteq LocalPorts /\ allocated \subseteq LocalPorts
  /\ sock \in [LocalPorts -> [open : BOOLEAN, toMux : Nat, ready : BOOLEAN,
                              held : 0 .. SockBuf, got : Counter]]
  /\ guest \in [Ports -> [st : {"none", "dialing", "open", "half", "shut"},
                          sent : Counter, seen : Counter, unread : Nat,
                          fwd : Counter, told : Counter]]
  /\ backlog \in Nat
  /\ budget \in [connects : Nat, dials : Nat, guest : Nat, host : Nat, resets : Nat]

Init ==
  /\ activated = FALSE /\ conns = [p \in Ports |-> NoConn]
  /\ txq = <<>> /\ rxq = <<>>
  /\ permit = FALSE
  /\ pc = "loop" /\ cur = 0 /\ work = NoWork
  /\ streams = {} /\ allocated = {} /\ nextPort = 0
  /\ sock = [p \in LocalPorts |-> NoSock]
  /\ guest = [p \in Ports |-> NoGuest]
  /\ backlog = 0
  /\ budget \in Budgets

----------------------------------------------------------------------------
(* The device: its two queues *)

\* The connection map iterates in an order of its own.
Orders == SetToSeqs(Ports)

\* One TX descriptor chain.
HandleTxChain(cs, p) ==
  CASE p.op = "Request" /\ cs[p.port] = NoConn ->
         [cs EXCEPT ![p.port] = NewPeerInit(p.alloc)]
    [] p.op = "Rst" -> [cs EXCEPT ![p.port] = NoConn]
    [] p.op \notin {"Request", "Rst"} /\ cs[p.port] # NoConn ->
         [cs EXCEPT ![p.port] = SendPkt(@, p)]
    [] OTHER -> cs

ProcessTx(cs, q) == FoldLeft(HandleTxChain, cs, q)

\* The first connection in the order that has a packet for the guest gives it.
TryConn(acc, p) ==
  IF acc.op # "NoData" \/ acc.cs[p] = NoConn \/ acc.cs[p].pending = {} THEN acc
  ELSE LET r == RecvPkt(acc.cs[p], RxBufLen)
       IN  [cs |-> [acc.cs EXCEPT ![p] = IF r.op = "Rst" THEN NoConn ELSE r.conn],
            op |-> r.op,
            pkt |-> [port |-> p, op |-> r.op, n |-> r.n, flags |-> r.flags,
                     fwd |-> r.fwd, alloc |-> BufSize]]

\* process_rx_queue_inner: fill RX buffers until they or the packets run out.
ProcessRx(cs, q, order) ==
  LET fill(acc, i) ==
        IF acc.done THEN acc
        ELSE LET r == FoldLeft(TryConn, [cs |-> acc.cs, op |-> "NoData", pkt |-> <<>>], order)
             IN  IF r.op = "NoData"
                   THEN [acc EXCEPT !.cs = r.cs, !.done = TRUE]
                   ELSE [acc EXCEPT !.cs = r.cs, !.q = Append(@, r.pkt)]
  IN  FoldLeft(fill, [cs |-> cs, q |-> q, done |-> ~activated],
               [i \in 1 .. RxBufs - Len(q) |-> i])

\* A vCPU serves the TX notification: the TX queue, then the RX queue, then the
\* permit, or the wake-up of the task that waits for one.
NotifyOne ==
  /\ pc' = CASE pc = "idle" -> "woken" [] pc = "parked" -> "wait" [] OTHER -> pc
  /\ permit' = (permit \/ pc \notin {"idle", "parked"})

TxNotified == activated /\ txq # <<>>

ProcessTxQueue ==
  /\ TxNotified
  /\ \E order \in Orders :
       LET r == ProcessRx(ProcessTx(conns, txq), rxq, order)
       IN  conns' = r.cs /\ rxq' = r.q
  /\ txq' = <<>>
  /\ NotifyOne
  /\ UNCHANGED <<activated, cur, work, streams, allocated, nextPort, sock, guest, backlog, budget>>

\* A vCPU serves the notification that RX buffers have been refilled.
RxNotified ==
  /\ activated /\ Len(rxq) < RxBufs
  /\ \E p \in Ports : conns[p] # NoConn /\ conns[p].pending # {}

ProcessRxQueue ==
  /\ RxNotified
  /\ \E order \in Orders :
       LET r == ProcessRx(conns, rxq, order) IN conns' = r.cs /\ rxq' = r.q
  /\ UNCHANGED <<activated, txq, permit, muxer, sock, guest, backlog, budget>>

Activate ==
  /\ ~activated /\ activated' = TRUE
  /\ UNCHANGED <<conns, txq, rxq, permit, muxer, sock, guest, backlog, budget>>

\* The driver resets the device: connections made before it was activated stay.
Reset ==
  /\ budget.resets > 0 /\ budget' = [budget EXCEPT !.resets = @ - 1]
  /\ activated' = FALSE
  /\ conns' = IF activated THEN [p \in Ports |-> NoConn] ELSE conns
  /\ txq' = <<>> /\ rxq' = <<>>
  /\ guest' = [p \in Ports |-> NoGuest]
  /\ UNCHANGED <<permit, muxer, sock, backlog>>

----------------------------------------------------------------------------
(* The muxer: a new connection *)

\* select! in run(): the task is polling, registered with tx_notify, or woken.
\* When another branch wins, a wake-up already received becomes a permit again.
Selecting == pc \in {"loop", "idle", "woken"}
Forwarded == permit \/ pc = "woken"

Park ==
  /\ pc = "loop" /\ ~permit /\ pc' = "idle"
  /\ UNCHANGED <<device, txq, rxq, permit, cur, work, streams, allocated, nextPort,
                 sock, guest, backlog, budget>>

\* Round-robin from nextPort over the ports that are not allocated.
FreePorts == LocalPorts \ allocated
AllocatePort ==
  LET distance(p) == (p - nextPort) % NumPorts
  IN  CHOOSE p \in FreePorts : \A q \in FreePorts : distance(p) <= distance(q)

\* handle_new_connection up to the wait: the client's CONNECT line is in order,
\* the connection is added to the device and the RX queue kicked.
Accept ==
  /\ Selecting /\ backlog > 0
  /\ backlog' = backlog - 1
  /\ Cardinality(streams) < MaxConnections /\ FreePorts # {}
  /\ LET p == AllocatePort
     IN  /\ cur' = p
         /\ allocated' = allocated \cup {p}
         /\ nextPort' = (p + 1) % NumPorts
         /\ sock' = [sock EXCEPT ![p] = NewSock]
         /\ \E order \in Orders :
              LET r == ProcessRx([conns EXCEPT ![p] = NewLocalInit], rxq, order)
              IN  conns' = r.cs /\ rxq' = r.q
  /\ pc' = "wait" /\ permit' = Forwarded
  /\ UNCHANGED <<activated, txq, work, streams, guest, budget>>

\* The connection limit, a bad or late CONNECT line, or no free port.
AcceptFails ==
  /\ Selecting /\ backlog > 0
  /\ backlog' = backlog - 1
  /\ pc' = "loop" /\ permit' = Forwarded
  /\ UNCHANGED <<device, txq, rxq, cur, work, streams, allocated, nextPort,
                 sock, guest, budget>>

\* device.connections().get(&key).map(VsockConnection::state)
StateOf(p) == IF conns[p] = NoConn THEN "None" ELSE conns[p].st

Pending == StateOf(cur) \notin {"Established", "Killed", "None"}

\* wait_for_guest_established: not yet, so wait for the next TX notification.
Wait ==
  /\ pc = "wait" /\ Pending
  /\ permit' = FALSE
  /\ pc' = IF permit THEN "wait" ELSE "parked"
  /\ UNCHANGED <<device, txq, rxq, cur, work, streams, allocated, nextPort,
                 sock, guest, backlog, budget>>

\* Established: answer OK and keep the stream.  A client that has gone makes the
\* answer fail, which returns without undoing what has been done.
Established ==
  /\ pc = "wait" /\ StateOf(cur) = "Established"
  /\ streams' = IF sock[cur].open THEN streams \cup {cur} ELSE streams
  /\ sock' = IF sock[cur].open THEN sock ELSE [sock EXCEPT ![cur] = NoSock]
  /\ pc' = "loop"
  /\ UNCHANGED <<device, txq, rxq, permit, cur, work, allocated, nextPort,
                 guest, backlog, budget>>

\* A drop_pending_connection that forgets the device.
DropPendingPortOnly ==
  /\ allocated' = allocated \ {cur}
  /\ UNCHANGED conns

\* drop_pending_connection, after a refusal or CONNECT_ESTABLISH_TIMEOUT.
DropPending ==
  /\ allocated' = allocated \ {cur}
  /\ conns' = [conns EXCEPT ![cur] = NoConn]

ConnectFails ==
  /\ \/ pc = "wait" /\ StateOf(cur) \in {"Killed", "None"}
     \/ pc \in {"wait", "parked"} /\ Pending
  /\ DropPending
  /\ sock' = [sock EXCEPT ![cur] = NoSock]
  /\ pc' = "loop"
  /\ UNCHANGED <<activated, txq, rxq, permit, cur, work, streams, nextPort,
                 guest, backlog, budget>>

----------------------------------------------------------------------------
(* The muxer: sync_connections *)

\* Without streams a TX notification is consumed and nothing done.
SyncNothing ==
  /\ streams = {}
  /\ \/ pc = "woken" /\ UNCHANGED permit
     \/ pc = "loop" /\ permit /\ permit' = FALSE
  /\ pc' = "loop"
  /\ UNCHANGED <<device, txq, rxq, cur, work, streams, allocated, nextPort,
                 sock, guest, backlog, budget>>

\* try_read from one stream: bytes, the end of the stream, or WouldBlock, which
\* clears the readiness that tokio has recorded.
ReadLen(p) == Min2(sock[p].toMux, StreamBuf)
AtEnd(p) == sock[p].toMux = 0 /\ ~sock[p].open

\* The device lock phase for the connection of one stream.
UpdateConn(p) ==
  LET c1 == IF ReadLen(p) > 0 THEN PushHostData(conns[p], ReadLen(p)) ELSE conns[p]
      c2 == IF AtEnd(p) THEN NotifyHostClosed(c1) ELSE c1
  IN  IF conns[p] = NoConn THEN NoConn ELSE FlushTxBuf(c2)

\* read_and_update_device: both phases, the connections that time out included.
SyncUpdate ==
  /\ Selecting /\ streams # {}
  /\ \/ pc = "woken" /\ UNCHANGED permit
     \/ pc = "loop" /\ permit /\ permit' = FALSE
     \/ (\E p \in streams : sock[p].ready) /\ permit' = Forwarded
  /\ LET cs == [p \in Ports |-> IF p \in streams THEN UpdateConn(p) ELSE conns[p]]
         timed == {p \in Ports : cs[p] # NoConn /\ cs[p].expiry}
     IN  \E expired \in SUBSET timed :
           /\ conns' = [p \in Ports |-> IF p \in expired THEN NoConn ELSE cs[p]]
           /\ work' = [tx |-> [p \in LocalPorts |->
                                 IF p \in streams /\ conns[p] # NoConn THEN conns[p].tx ELSE 0],
                       dead |-> {p \in streams : StateOf(p) \in {"Killed", "None"} \/ AtEnd(p)},
                       kick |-> \/ \E p \in streams : ReadLen(p) > 0 /\ conns[p] # NoConn
                                \/ \E p \in Ports \ expired : cs[p] # NoConn /\ cs[p].pending # {}]
  /\ sock' = [p \in LocalPorts |->
                IF p \notin streams THEN sock[p]
                ELSE [sock[p] EXCEPT !.toMux = @ - ReadLen(p),
                                     !.ready = ReadLen(p) > 0 \/ AtEnd(p)]]
  /\ pc' = "finish"
  /\ UNCHANGED <<activated, txq, rxq, cur, streams, allocated, nextPort, guest, backlog, budget>>

\* try_write takes what fits; the rest of the flushed bytes is dropped.
Written(p) == Min2(work.tx[p], SockBuf - sock[p].held)

\* The write and cleanup phases.  Writing to a client that has gone fails.
SyncFinish ==
  /\ pc = "finish"
  /\ LET dead == work.dead \cup {p \in LocalPorts : work.tx[p] > 0 /\ ~sock[p].open}
     IN  /\ sock' = [p \in LocalPorts |->
                       IF p \in dead THEN NoSock
                       ELSE [sock[p] EXCEPT !.held = @ + Written(p), !.got = Add(@, Written(p))]]
         /\ streams' = streams \ dead
         /\ allocated' = allocated \ dead
         /\ conns' = [p \in Ports |-> IF p \in dead THEN NoConn ELSE conns[p]]
  /\ work' = [NoWork EXCEPT !.kick = work.kick]
  /\ pc' = IF work.kick THEN "kick" ELSE "loop"
  /\ UNCHANGED <<activated, txq, rxq, permit, cur, nextPort, guest, backlog, budget>>

RxKick ==
  /\ pc = "kick"
  /\ \E order \in Orders :
       LET r == ProcessRx(conns, rxq, order) IN conns' = r.cs /\ rxq' = r.q
  /\ work' = NoWork
  /\ pc' = "loop"
  /\ UNCHANGED <<activated, txq, permit, cur, streams, allocated, nextPort,
                 sock, guest, backlog, budget>>

----------------------------------------------------------------------------
(* Host clients *)

ClientConnects ==
  /\ budget.connects > 0 /\ budget' = [budget EXCEPT !.connects = @ - 1]
  /\ backlog' = backlog + 1
  /\ UNCHANGED <<device, txq, rxq, permit, muxer, sock, guest>>

ClientWrites(p) ==
  /\ p \in streams /\ sock[p].open
  /\ \E n \in 1 .. budget.host :
       /\ budget' = [budget EXCEPT !.host = @ - n]
       /\ sock' = [sock EXCEPT ![p].toMux = @ + n, ![p].ready = TRUE]
  /\ UNCHANGED <<device, txq, rxq, permit, muxer, guest, backlog>>

ClientReads(p) ==
  /\ sock[p].held > 0
  /\ sock' = [sock EXCEPT ![p].held = 0]
  /\ UNCHANGED <<device, txq, rxq, permit, muxer, guest, backlog, budget>>

ClientCloses(p) ==
  /\ sock[p].open
  /\ sock' = [sock EXCEPT ![p].open = FALSE, ![p].ready = TRUE]
  /\ UNCHANGED <<device, txq, rxq, permit, muxer, guest, backlog, budget>>

----------------------------------------------------------------------------
(* The guest's vsock driver, not part of the repository: it respects the     *)
(* credit it has been given, reports its own in every packet, and answers    *)
(* RST to a packet for a socket that it does not have.                       *)

GuestPkt(p, g, op, n, flags) ==
  [port |-> p, op |-> op, n |-> n, flags |-> flags, fwd |-> g.fwd, alloc |-> GuestAlloc]

\* The guest moves socket p to g and sends a packet from it.
GuestSends(p, g, op, n, flags) ==
  /\ Len(txq) < TxQueue
  /\ guest' = [guest EXCEPT ![p] = [g EXCEPT !.told = g.fwd]]
  /\ txq' = Append(txq, GuestPkt(p, g, op, n, flags))

GuestQuiet(p, g) == guest' = [guest EXCEPT ![p] = g] /\ UNCHANGED txq

GuestOpens == [NoGuest EXCEPT !.st = "open"]

GuestReceives ==
  /\ rxq # <<>>
  /\ rxq' = Tail(rxq)
  /\ LET pkt == Head(rxq)
         p == pkt.port
         g == [guest[p] EXCEPT !.seen = pkt.fwd]
     IN  CASE guest[p].st = "none" /\ pkt.op = "Request" ->
                \/ GuestSends(p, GuestOpens, "Response", 0, {})
                \/ GuestSends(p, NoGuest, "Rst", 0, {})
           [] guest[p].st = "none" /\ pkt.op \notin {"Request", "Rst"} ->
                GuestSends(p, NoGuest, "Rst", 0, {})
           [] guest[p].st = "dialing" /\ pkt.op = "Response" ->
                GuestQuiet(p, [g EXCEPT !.st = "open"])
           [] guest[p].st \in {"open", "half"} /\ pkt.op = "Rw" ->
                GuestQuiet(p, [g EXCEPT !.unread = @ + pkt.n])
           [] guest[p].st \in {"open", "half", "shut"} /\ pkt.op = "CreditRequest" ->
                GuestSends(p, g, "CreditUpdate", 0, {})
           [] guest[p].st \in {"open", "half"} /\ pkt.op = "Shutdown" ->
                GuestSends(p, NoGuest, "Rst", 0, {})
           [] pkt.op = "Rst" -> GuestQuiet(p, NoGuest)
           [] OTHER -> GuestQuiet(p, IF guest[p].st = "none" THEN NoGuest ELSE g)
  /\ UNCHANGED <<device, permit, muxer, sock, backlog, budget>>

GuestCredit(p) == BufSize - Sub(guest[p].sent, guest[p].seen)

GuestWrites(p) ==
  /\ guest[p].st = "open"
  /\ \E n \in 1 .. Min2(GuestCredit(p), budget.guest) :
       /\ GuestSends(p, [guest[p] EXCEPT !.sent = Add(@, n)], "Rw", n, {})
       /\ budget' = [budget EXCEPT !.guest = @ - n]
  /\ UNCHANGED <<device, rxq, permit, muxer, sock, backlog>>

GuestReads(p) ==
  /\ guest[p].unread > 0
  /\ LET g == [guest[p] EXCEPT !.unread = 0, !.fwd = Add(@, guest[p].unread)]
     IN  IF GuestAlloc - Sub(g.fwd, g.told) < GuestThreshold
           THEN GuestSends(p, g, "CreditUpdate", 0, {})
           ELSE GuestQuiet(p, g)
  /\ UNCHANGED <<device, rxq, permit, muxer, sock, backlog, budget>>

GuestShutsDown(p) ==
  /\ \/ /\ guest[p].st = "open"
        /\ GuestSends(p, [guest[p] EXCEPT !.st = "half"], "Shutdown", 0, {"SEND"})
     \/ /\ guest[p].st \in {"open", "half"}
        /\ GuestSends(p, [guest[p] EXCEPT !.st = "shut"], "Shutdown", 0, {"RCV", "SEND"})
  /\ UNCHANGED <<device, rxq, permit, muxer, sock, backlog, budget>>

GuestDials(p) ==
  /\ activated /\ guest[p].st = "none" /\ conns[p] = NoConn
  /\ budget.dials > 0 /\ budget' = [budget EXCEPT !.dials = @ - 1]
  /\ GuestSends(p, [NoGuest EXCEPT !.st = "dialing"], "Request", 0, {})
  /\ UNCHANGED <<device, rxq, permit, muxer, sock, backlog>>

----------------------------------------------------------------------------
MuxerStep == \/ Park \/ Accept \/ AcceptFails \/ Wait \/ Established \/ ConnectFails
             \/ SyncNothing \/ SyncUpdate \/ SyncFinish \/ RxKick

GuestStep ==
  \/ GuestReceives
  \/ \E p \in Ports : GuestWrites(p) \/ GuestReads(p) \/ GuestShutsDown(p)
  \/ \E p \in GuestPorts : GuestDials(p)

ClientStep ==
  \/ ClientConnects
  \/ \E p \in LocalPorts : ClientWrites(p) \/ ClientReads(p) \/ ClientCloses(p)

Next == MuxerStep \/ ProcessTxQueue \/ ProcessRxQueue \/ Activate \/ Reset
        \/ GuestStep \/ ClientStep

Spec == Init /\ [][Next]_vars

\* The muxer task is scheduled, queue notifications are served, the guest takes
\* what is in its RX buffers and its processes read their sockets, in their turn
\* if the TX ring is busy.  Nobody has to connect, write or close.  Weak fairness of the actions that fill
\* the RX queue is written out, with the guard for ENABLED: serving a refill is
\* owed when some connection has a packet.
RxOwed ==
  /\ RxNotified
  /\ \E p \in Ports : /\ conns[p] # NoConn /\ conns[p].pending # {}
                      /\ RecvPkt(conns[p], RxBufLen).op # "NoData"

Fairness ==
  /\ WF_vars(Park) /\ WF_vars(Wait) /\ WF_vars(Established) /\ WF_vars(ConnectFails)
  /\ WF_vars(SyncNothing) /\ WF_vars(SyncUpdate) /\ WF_vars(SyncFinish)
  /\ WF_vars(Activate) /\ WF_vars(GuestReceives)
  /\ \A p \in Ports : SF_vars(GuestReads(p))
  /\ \A p \in LocalPorts : WF_vars(ClientReads(p))
  /\ []<>(backlog = 0 \/ ~Selecting) \/ []<><<Accept \/ AcceptFails>>_vars
  /\ []<>~TxNotified \/ []<><<ProcessTxQueue>>_vars
  /\ []<>~RxOwed \/ []<><<ProcessRxQueue>>_vars
  /\ []<>(pc # "kick") \/ []<><<RxKick>>_vars

FairSpec == Spec /\ Fairness

----------------------------------------------------------------------------
(* Properties *)

InFlight(q, p) == FoldLeft(LAMBDA a, pkt : IF pkt.port = p /\ pkt.op = "Rw" THEN a + pkt.n ELSE a, 0, q)

\* A guest that keeps to its credit never overflows tx_buf: each data packet in
\* the TX ring fits when its turn comes, if the connection it then meets takes
\* data, so send_pkt() never answers TxBufFull, through any wrap of the counters
\* and with packets of an earlier connection of the port still in the ring.
Receiving(c) == c.st = "Established" \/ (c.st = "PeerClosed" /\ ~c.noSend)

TxBufFits ==
  \A i \in 1 .. Len(txq) :
    LET c == ProcessTx(conns, SubSeq(txq, 1, i - 1))[txq[i].port]
    IN  (txq[i].op = "Rw" /\ c # NoConn /\ Receiving(c)) => ~TxBufFull(c, txq[i])

\* The device never sends more than the guest's socket can hold: what is in the
\* used RX buffers fits behind what the guest's process has not read.
GuestBufferRespected ==
  \A p \in Ports : guest[p].unread + InFlight(rxq, p) <= GuestAlloc

\* Every host-initiated connection in the device holds its port, so a new
\* connection never replaces an old one under the same key after the allocator
\* has wrapped around.
PortsHeld ==
  \A p \in LocalPorts : conns[p] # NoConn => p \in allocated

\* A guest that has used up its credit gets some back once its bytes have been
\* drained, or the connection ends: flush_tx_buf() does not leave the guest with a
\* stale view of an empty buffer, whatever else is pending for it.
OutOfCredit(p) == guest[p].st = "open" /\ GuestCredit(p) = 0
Drained(p) == conns[p] # NoConn /\ conns[p].tx = 0 /\ InFlight(txq, p) = 0

CreditReturned ==
  \A p \in LocalPorts :
    (OutOfCredit(p) /\ Drained(p)) ~> (~OutOfCredit(p) \/ conns[p] = NoConn)

\* A client that has been accepted is answered: the muxer does not wait for the
\* guest for ever.
ConnectAnswered == (pc \in {"wait", "parked"}) ~> (pc = "loop")

\* Bytes of a client that are pending, or that wait for the guest's credit.  Not
\* among them is what a packet left behind that the guest's RX buffer cut short
\* while there was credit: recv_data_pkt() does not re-insert Rw for it, and it
\* stays in rx_buf until the client writes more or the guest reports credit.
Waits(p) ==
  /\ conns[p] # NoConn /\ conns[p].rx > 0
  /\ "Rw" \in conns[p].pending \/ PeerAvailCredit(conns[p]) = 0

\* Such bytes move on into the guest's RX buffers, or the connection ends.
HostDataMoves ==
  \A p \in LocalPorts, n \in Counter :
    (Waits(p) /\ conns[p].rxCnt = n) ~> (conns[p] = NoConn \/ conns[p].rxCnt # n)

\* Bytes the guest sent on a served connection are drained into the stream.
GuestDataDrained ==
  \A p \in LocalPorts :
    (p \in streams /\ conns[p] # NoConn /\ conns[p].tx > 0)
      ~> (p \notin streams \/ conns[p] = NoConn \/ conns[p].tx = 0)

\* Every byte flushed out of tx_buf is written to the stream while it is served.
FlushedIsWritten ==
  \A p \in streams :
    (conns[p] # NoConn /\ sock[p].open) => Sub(conns[p].fwd, sock[p].got) = work.tx[p]

\* A connection is not removed on account of the client's end of stream before
\* the guest has been sent SHUTDOWN.
ShutdownBeforeRemoval ==
  [][\A p \in LocalPorts :
       (pc = "finish" /\ conns[p] # NoConn /\ conns[p].hostClosed /\ conns'[p] = NoConn)
         => conns[p].st = "LocalClosed"]_vars

\* The muxer drops a stream once the connection is gone from the device.
StreamDropped ==
  \A p \in LocalPorts : (p \in streams /\ conns[p] = NoConn) ~> (p \notin streams)

(* Whatever the counters wrap to, neither side ever holds more bytes of the  *)
(* other than it announced room for (send_pkt, recv_pkt and the credit       *)
(* counters of VsockConnection).                                             *)
CreditRespected ==
  TxBufFits /\ GuestBufferRespected

(* A connection does not get stuck: a connect is answered, credit that was   *)
(* used up comes back, and what the host wrote and is pending or waits for    *)
(* the guest's credit is sent (recv_data_pkt, send_pkt).                      *)
TrafficFlows ==
  CreditReturned /\ ConnectAnswered /\ HostDataMoves
----------------------------------------------------------------------------
(* Bounds for the runs. *)
Budget(c, d, g, h, r) == [connects |-> c, dials |-> d, guest |-> g, host |-> h, resets |-> r]

\* A guest that sends more bytes than a counter holds; one that also dials; a
\* client that writes more than a counter holds; one that writes across a driver
\* reset; more connects than ports, across a reset.
SafetyBudgets == {Budget(1, 0, 5, 0, 0), Budget(1, 1, 2, 0, 0), Budget(1, 0, 0, 5, 0),
                  Budget(1, 0, 0, 2, 1), Budget(3, 0, 0, 0, 1)}

\* Traffic both ways on one connection; a client that writes more than the guest
\* has announced room for.
TrafficBudgets == {Budget(1, 0, 1, 2, 0), Budget(1, 0, 0, 3, 0)}
=============================================================================
