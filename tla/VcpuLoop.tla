------------------------------ MODULE VcpuLoop ------------------------------
(***************************************************************************)
(* The thread that runs a virtual CPU (visor-vmm vm/macos.rs and           *)
(* vm/linux.rs run_loop, platform/macos.rs, vcpu.rs, devices/mod.rs):      *)
(* enter the guest, decode why it left, answer the access, poll the        *)
(* interrupt sources, enter again.  Under HVF the loop itself steps over   *)
(* the trapped instruction, completes reads into a register and masks the  *)
(* virtual timer while its interrupt is pending; under KVM the kernel does.*)
(***************************************************************************)
EXTENDS Integers, Sequences, FiniteSets

CONSTANTS
  Hosts,       \* subset of {"hvf", "kvm"}
  Sources,     \* interrupt sources: registered event queues
  Xs,          \* registers a guest instruction may name; XZR is not in Xs
  MaxPc        \* bound on the instructions the guest retires

XZR == 31

VARIABLES
  host,
  vpc,         \* the guest's program counter, in instructions
  trap,        \* the exit being handled: [kind, at, reg], kind "none" when idle
  vstage,      \* "enter", "handle", "poll" or "stopped"
  xreg,        \* register -> "old", "device" or "junk"
  srt,         \* last_read_srt: {} or {register}
  due,         \* what the completed read owes: {} or {register}
  kill,        \* the kill flag
  event,       \* sources triggered since they were last polled (EV_CLEAR)
  spi,         \* sources whose line is raised in the interrupt controller
  timer,       \* the guest's timer condition: enabled, unmasked and expired
  masked,      \* vtimer_masked
  ppi,         \* timer interrupt pending in the redistributor
  inIrq        \* the guest is in its timer handler

vcpuVars == <<host, vpc, trap, vstage, xreg, srt, due, kill, event, spi, timer,
              masked, ppi, inIrq>>

timerVars == <<timer, masked, ppi, inIrq>>
NoTrap == [kind |-> "none", at |-> 0, reg |-> XZR]

VcpuInit ==
  /\ host \in Hosts
  /\ vpc = 0 /\ trap = NoTrap /\ vstage = "enter"
  /\ xreg = [x \in Xs |-> "old"] /\ srt = {} /\ due = {}
  /\ kill = FALSE /\ event = {} /\ spi = {}
  /\ timer = FALSE /\ masked = FALSE /\ ppi = FALSE /\ inIrq = FALSE

----------------------------------------------------------------------------
(* The guest between two exits.                                            *)

Traps == {"write", "read", "hvc", "smc", "off", "sysreg", "wfi", "other"}

\* The hardware leaves the counter on the trapped instruction, except for a
\* hypervisor call, which has already retired.
GuestTraps(kind, reg) ==
  /\ vstage = "enter" /\ ~kill /\ vpc < MaxPc
  /\ trap' = [kind |-> kind, at |-> vpc, reg |-> reg]
  /\ vpc' = IF kind \in {"hvc", "off"} THEN vpc + 1 ELSE vpc
  /\ vstage' = "handle"
  /\ UNCHANGED <<host, xreg, srt, due, kill, event, spi>> /\ UNCHANGED timerVars

\* Time passes and the timer expires; with the host's mask down the guest
\* leaves with VTIMER_ACTIVATED at its next entry.
TimerExpires ==
  /\ host = "hvf" /\ ~timer /\ ~inIrq
  /\ timer' = TRUE
  /\ UNCHANGED <<host, vpc, trap, vstage, xreg, srt, due, kill, event, spi,
                 masked, ppi, inIrq>>

TimerExit ==
  /\ vstage = "enter" /\ ~kill /\ timer /\ ~masked
  /\ trap' = [kind |-> "vtimer", at |-> vpc, reg |-> XZR]
  /\ vstage' = "handle"
  /\ UNCHANGED <<host, vpc, xreg, srt, due, kill, event, spi>> /\ UNCHANGED timerVars

\* The guest takes the pending timer interrupt, and in its handler moves the
\* compare value, which ends the condition.
TakeTimer ==
  /\ vstage = "enter" /\ ppi /\ ~inIrq
  /\ ppi' = FALSE /\ inIrq' = TRUE
  /\ UNCHANGED <<host, vpc, trap, vstage, xreg, srt, due, kill, event, spi, timer, masked>>

Rearm ==
  /\ vstage = "enter" /\ inIrq
  /\ timer' = FALSE /\ inIrq' = FALSE
  /\ UNCHANGED <<host, vpc, trap, vstage, xreg, srt, due, kill, event, spi, masked, ppi>>

\* A device raises its interrupt from any thread (MacosEventFd::trigger).
Trigger(s) ==
  /\ event' = event \cup {s}
  /\ UNCHANGED <<host, vpc, trap, vstage, xreg, srt, due, kill, spi>> /\ UNCHANGED timerVars

\* The driver acknowledges and the transport lowers the line.
Deassert(s) ==
  /\ vstage = "enter" /\ s \in spi
  /\ spi' = spi \ {s}
  /\ UNCHANGED <<host, vpc, trap, vstage, xreg, srt, due, kill, event>> /\ UNCHANGED timerVars

\* Another thread stops the machine.
SetKill ==
  /\ ~kill
  /\ kill' = TRUE
  /\ UNCHANGED <<host, vpc, trap, vstage, xreg, srt, due, event, spi>> /\ UNCHANGED timerVars

----------------------------------------------------------------------------
(* Decoding and handling.                                                  *)

\* sync_vtimer: once the guest has dealt with the timer, drop a leftover
\* pending bit and let the host report the next expiry.
SyncVtimer ==
  IF masked /\ ~timer
  THEN masked' = FALSE /\ ppi' = FALSE
  ELSE UNCHANGED <<masked, ppi>>

\* handle_vtimer.
HandleVtimer ==
  /\ trap.kind = "vtimer" /\ vstage = "handle"
  /\ ppi' = TRUE /\ masked' = TRUE
  /\ vstage' = "poll"
  /\ UNCHANGED <<host, vpc, trap, xreg, srt, due, kill, event, spi, timer, inIrq>>

\* advance_pc: over the trapped instruction, but not again over a call.
Advanced(kind) == IF kind \in {"hvc", "off"} THEN 0 ELSE 1

\* decode_exception under HVF: a read remembers its register, a call or a
\* system register read answers in one.
DecodeException ==
  /\ host = "hvf" /\ vstage = "handle" /\ trap.kind \in Traps
  /\ vpc' = vpc + Advanced(trap.kind)
  /\ srt' = IF trap.kind = "read" THEN {trap.reg} ELSE srt
  /\ due' = IF trap.kind = "read" THEN {trap.reg} \cap Xs ELSE due
  /\ xreg' = [x \in Xs |->
       IF trap.kind \in {"sysreg"} /\ x = trap.reg THEN "junk"
       ELSE IF trap.kind \in {"hvc", "smc"} /\ x = 0 THEN "junk" ELSE xreg[x]]
  /\ SyncVtimer
  /\ trap' = [trap EXCEPT !.kind = IF trap.kind = "read" THEN "reading"
                                   ELSE IF trap.kind = "off" THEN "stop" ELSE "done"]
  /\ UNCHANGED <<host, vstage, kill, event, spi, timer, inIrq>>

\* complete_mmio_read without forgetting the register.
CompleteReadSticky ==
  /\ vstage = "handle" /\ trap.kind = "reading"
  /\ xreg' = [x \in Xs |-> IF x \in srt THEN "device" ELSE xreg[x]]
  /\ trap' = [trap EXCEPT !.kind = "done"]
  /\ UNCHANGED <<host, vpc, vstage, srt, due, kill, event, spi>> /\ UNCHANGED timerVars

\* handle_mmio_read fills the buffer from the bus (or with ones), then
\* complete_mmio_read moves it to the register; XZR takes nothing.
CompleteRead ==
  /\ vstage = "handle" /\ trap.kind = "reading"
  /\ xreg' = [x \in Xs |-> IF x \in srt THEN "device" ELSE xreg[x]]
  /\ srt' = {}
  /\ trap' = [trap EXCEPT !.kind = "done"]
  /\ UNCHANGED <<host, vpc, vstage, due, kill, event, spi>> /\ UNCHANGED timerVars

\* run_once_with_handler under KVM: the kernel retires the instruction and
\* moves the answer to its register when the guest is entered again.
RunOnce ==
  /\ host = "kvm" /\ vstage = "handle" /\ trap.kind \in Traps
  /\ vpc' = trap.at + 1
  /\ due' = IF trap.kind = "read" THEN {trap.reg} \cap Xs ELSE {}
  /\ xreg' = [x \in Xs |-> IF trap.kind = "read" /\ x = trap.reg THEN "device" ELSE xreg[x]]
  /\ trap' = [trap EXCEPT !.kind = IF trap.kind = "off" THEN "stop" ELSE "done"]
  /\ UNCHANGED <<host, vstage, srt, kill, event, spi>> /\ UNCHANGED timerVars

\* An interrupted or failed KVM_RUN: EINTR and EAGAIN look like an idle CPU,
\* anything else ends the loop.
RunFails(retry) ==
  /\ host = "kvm" /\ vstage = "enter" /\ ~kill
  /\ vstage' = IF retry THEN "poll" ELSE "stopped"
  /\ UNCHANGED <<host, vpc, trap, xreg, srt, due, kill, event, spi>> /\ UNCHANGED timerVars

\* DeviceManager::handle_exit: a shutdown or a reset ends the loop.
HandleExit ==
  /\ vstage = "handle" /\ trap.kind \in {"done", "stop"}
  /\ vstage' = IF trap.kind = "stop" THEN "stopped" ELSE "poll"
  /\ UNCHANGED <<host, vpc, trap, xreg, srt, due, kill, event, spi>> /\ UNCHANGED timerVars

\* After the exit the loop polls every event queue and raises the line of
\* each that fired (an irqfd does it in the kernel under KVM).
PollIrqs ==
  /\ vstage = "poll"
  /\ spi' = spi \cup event
  /\ event' = {}
  /\ vstage' = "enter" /\ trap' = NoTrap /\ due' = {}
  /\ UNCHANGED <<host, vpc, xreg, srt, kill>> /\ UNCHANGED timerVars

\* The flag is read before the guest is entered.
Killed ==
  /\ vstage = "enter" /\ kill
  /\ vstage' = "stopped"
  /\ UNCHANGED <<host, vpc, trap, xreg, srt, due, kill, event, spi>> /\ UNCHANGED timerVars

VcpuNext ==
  \/ \E k \in Traps, r \in Xs \cup {XZR} : GuestTraps(k, r)
  \/ TimerExpires \/ TimerExit \/ TakeTimer \/ Rearm
  \/ \E s \in Sources : Trigger(s) \/ Deassert(s)
  \/ SetKill \/ Killed
  \/ HandleVtimer \/ DecodeException \/ CompleteRead \/ RunOnce
  \/ \E b \in BOOLEAN : RunFails(b)
  \/ HandleExit \/ PollIrqs

\* The loop runs on its own thread; nothing is assumed of the guest.
VcpuFair ==
  /\ WF_vcpuVars(HandleVtimer) /\ WF_vcpuVars(DecodeException)
  /\ WF_vcpuVars(CompleteRead) /\ WF_vcpuVars(RunOnce)
  /\ WF_vcpuVars(HandleExit) /\ WF_vcpuVars(PollIrqs) /\ WF_vcpuVars(Killed)

VcpuSpec == VcpuInit /\ [][VcpuNext]_vcpuVars /\ VcpuFair

----------------------------------------------------------------------------
(* Properties.                                                             *)

\* When the guest is entered again it continues after the instruction that
\* trapped: none is skipped, none is run twice (advance_pc per exception
\* class, HVC against SMC).
ResumesAfter ==
  vstage = "poll" /\ trap.kind = "done" => vpc = trap.at + 1

\* A device's answer reaches the register the guest's load names before the
\* guest runs on, and no other (last_read_srt, complete_mmio_read).
ReadsComplete ==
  vstage = "poll" => (srt = {} /\ \A x \in due : xreg[x] = "device")

\* The host does not report an expiry while the interrupt for the last one is
\* pending or in the guest's handler: no repeated exits while the guest
\* handles it (handle_vtimer, sync_vtimer).
NoRepeatedExit ==
  vstage = "handle" /\ trap.kind = "vtimer" => ~ppi /\ ~inIrq

\* An interrupt that a device raises while an exit is handled is on its line
\* before the guest runs on, or the loop ends (run_loop's irq_regs).
IrqReachesLine ==
  \A s \in Sources :
    (s \in event /\ vstage \in {"handle", "poll"}) ~> (s \in spi \/ vstage = "stopped")

\* A stop request ends the loop as soon as the exit in progress is handled.
KillEnds == kill /\ vstage \in {"handle", "poll"} ~> vstage = "stopped"

(* Between two entries of the guest its registers are what the trapped       *)
(* instruction should have made of them, and a timer that is being handled   *)
(* does not exit again.                                                      *)
VcpuExact ==
  ResumesAfter /\ ReadsComplete /\ NoRepeatedExit
=============================================================================
