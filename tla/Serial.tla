------------------------------- MODULE Serial -------------------------------
(***************************************************************************)
(* The 16550 UART (visor-vmm devices/uart.rs behind devices/serial.rs) and *)
(* the interrupt handler of the driver that uses it.  The device is locked *)
(* during an access, so each register access is one step; input from the   *)
(* host arrives between any two of them.                                   *)
(***************************************************************************)
EXTENDS Integers, Sequences, FiniteSets

CONSTANTS FifoSize,   \* FIFO_SIZE
          MaxBytes    \* bytes of a run, numbered in the order they are offered

ASSUME FifoNumbers == FifoSize \in Nat

VARIABLES ier,        \* interrupts enabled: of "rda", "thr"
          iir,        \* interrupts identified and not yet read
          loopback, rxFifo,
          edge,       \* an interrupt signalled and not yet taken
          isrPc,      \* the driver: "idle", "iir", "lsr", "rbr"
          offered, accepted, received,   \* bytes so far: offered, put in the FIFO, read by the driver
          late        \* the driver turned its interrupt on with data already waiting

serialVars == <<ier, iir, loopback, rxFifo, edge, isrPc, offered, accepted, received, late>>

SerialInit ==
  /\ ier = {} /\ iir = {} /\ loopback = FALSE /\ rxFifo = <<>> /\ edge = FALSE /\ isrPc = "idle"
  /\ offered = 0 /\ accepted = <<>> /\ received = <<>> /\ late = FALSE

(* thr_empty_interrupt and received_data_interrupt: only a cause that is   *)
(* enabled and not already identified signals.                             *)
Signal(cause) ==
  IF cause \in ier /\ cause \notin iir THEN iir' = iir \cup {cause} /\ edge' = TRUE ELSE UNCHANGED <<iir, edge>>

Accept(bytes) ==
  /\ rxFifo' = rxFifo \o bytes /\ accepted' = accepted \o bytes /\ Signal("rda")
  /\ late' = (late \/ "rda" \notin ier)

(* enqueue_raw_bytes: what fits is taken, the rest is refused. *)
Capacity == FifoSize - Len(rxFifo)

EnqueueRx(n) ==
  /\ offered + n <= MaxBytes /\ n > 0 /\ offered' = offered + n
  /\ IF loopback \/ Capacity = 0 THEN UNCHANGED <<rxFifo, accepted, iir, edge, late>>
     ELSE Accept([i \in 1 .. (IF n < Capacity THEN n ELSE Capacity) |-> offered + i])
  /\ UNCHANGED <<ier, loopback, isrPc, received>>

(* A byte written to the data register goes out, or round in loop mode. *)
WriteThr ==
  /\ isrPc = "idle" /\ offered < MaxBytes /\ offered' = offered + 1
  /\ IF loopback
     THEN IF Capacity > 0 THEN Accept(<<offered + 1>>) ELSE UNCHANGED <<rxFifo, accepted, iir, edge, late>>
     ELSE Signal("thr") /\ UNCHANGED <<rxFifo, accepted, late>>
  /\ UNCHANGED <<ier, loopback, isrPc, received>>

WriteIer(bits) ==
  /\ isrPc = "idle" /\ ier' = bits /\ late' = (late \/ (rxFifo # <<>> /\ "rda" \in bits \ ier))
  /\ UNCHANGED <<iir, loopback, rxFifo, edge, isrPc, offered, accepted, received>>

WriteMcr ==
  /\ isrPc = "idle" /\ loopback' = ~loopback
  /\ UNCHANGED <<ier, iir, rxFifo, edge, isrPc, offered, accepted, received, late>>

(* The driver's handler: identify, then read while data is ready. *)
TakeEdge ==
  /\ edge /\ isrPc = "idle" /\ edge' = FALSE /\ isrPc' = "iir"
  /\ UNCHANGED <<ier, iir, loopback, rxFifo, offered, accepted, received, late>>

(* Reading the identification register forgets it. *)
ReadIir ==
  /\ isrPc = "iir" /\ isrPc' = (IF iir = {} THEN "idle" ELSE "lsr") /\ iir' = {}
  /\ UNCHANGED <<ier, loopback, rxFifo, edge, offered, accepted, received, late>>

ReadLsr ==
  /\ isrPc = "lsr" /\ isrPc' = (IF rxFifo # <<>> THEN "rbr" ELSE "idle")
  /\ UNCHANGED <<ier, iir, loopback, rxFifo, edge, offered, accepted, received, late>>

ReadRbr ==
  /\ isrPc = "rbr" /\ iir' = iir \ {"rda"} /\ isrPc' = "lsr"
  /\ received' = Append(received, Head(rxFifo)) /\ rxFifo' = Tail(rxFifo)
  /\ late' = (late /\ Len(rxFifo) > 1)
  /\ UNCHANGED <<ier, loopback, edge, offered, accepted>>

SerialNext ==
  \/ \E n \in 1 .. 2 : EnqueueRx(n)
  \/ WriteThr \/ WriteMcr \/ TakeEdge \/ ReadIir \/ ReadLsr \/ ReadRbr
  \/ \E b \in SUBSET {"rda", "thr"} : WriteIer(b)

SerialSpec == SerialInit /\ [][SerialNext]_serialVars

----------------------------------------------------------------------------
(* What the guest reads is what was accepted, in order, with nothing lost  *)
(* in between.                                                             *)
InputInOrder == received \o rxFifo = accepted

(* Input is never left lying: while the FIFO holds data the driver was     *)
(* told about, it is about to look again or a signal is on its way.        *)
NoSilentData == rxFifo # <<>> /\ "rda" \in ier /\ ~late => isrPc # "idle" \/ edge
=============================================================================
