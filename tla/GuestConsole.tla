---------------------------- MODULE GuestConsole ----------------------------
(***************************************************************************)
(* The guest's first process in run mode and what the host reads off the   *)
(* serial console (visor-init main.rs and entrypoint.rs, visor-runtime     *)
(* vm.rs).  The console is the only way back: the begin and end markers    *)
(* frame the workload's output and the exit marker carries its code.  The  *)
(* text is a sequence of atoms: "nl", the markers, decimal digits, a whole *)
(* log line of visor-init without its newline ("log"), what else an error  *)
(* prints ("cause"), the kernel's init and panic lines, and workload       *)
(* output ("out").  A write() to the terminal is not mixed with others; it *)
(* may be short.                                                           *)
(***************************************************************************)
EXTENDS Integers, Sequences, SequencesExt, FiniteSets

CONSTANTS ExitCodes,   \* exit codes a command may have
          MaxSaid,     \* atoms written by the workload and its orphans
          MaxLogs      \* log lines of the background listener

VARIABLES ipc,       \* what visor-init does next
          tty,       \* atoms written by the guest, not yet sent
          console,   \* atoms the host has
          workload,  \* the workload process
          wcode,     \* its exit code
          said,      \* output written before the end marker
          orphan,    \* a child the workload left behind still runs
          exec,      \* one command run by the background listener
          answer,    \* what its caller was told
          wrote, logs, power,
          mimicked   \* history: what the workload's own text looked like, and where

consoleVars == <<ipc, tty, console, workload, wcode, said, orphan, exec, answer,
                 wrote, logs, power, mimicked>>

(* One entry per fallible call of run() before the workload starts; the    *)
(* network and limit steps are skipped when not configured, which is the   *)
(* same as succeeding.                                                     *)
SetupSteps == <<"mounts", "devices", "limit", "networks", "volumes", "resolv",
                "hosts", "signals", "begin">>

InSetup == \E i \in 1..8 : ipc = SetupSteps[i]
AfterSetup == SetupSteps[1 + SelectInSeq(SetupSteps, LAMBDA s : s = ipc)]

Digits(n) ==
  [i \in 1..(IF n < 10 THEN 1 ELSE IF n < 100 THEN 2 ELSE 3) |->
     LET len == IF n < 10 THEN 1 ELSE IF n < 100 THEN 2 ELSE 3
     IN (n \div (IF len - i = 0 THEN 1 ELSE IF len - i = 1 THEN 10 ELSE 100)) % 10]

IsDigit(a) == a \in {[digit |-> d] : d \in 0..9}
Text(n) == [i \in DOMAIN Digits(n) |-> [digit |-> Digits(n)[i]]]
Tok(s) == [word |-> s]
NL == Tok("nl")

(* The maximal runs of atoms between newlines, as str::lines yields them.  *)
NewLines(t) == SelectSeq([i \in DOMAIN t |-> i], LAMBDA i : t[i] = NL)
Lines(t) ==
  LET cut == NewLines(t)
      from(i) == IF i = 1 THEN 1 ELSE cut[i - 1] + 1
      full == [i \in DOMAIN cut |-> SubSeq(t, from(i), cut[i] - 1)]
      rest == SubSeq(t, from(Len(cut) + 1), Len(t))
  IN IF rest = <<>> THEN full ELSE Append(full, rest)

Value(ds) == FoldLeft(LAMBDA acc, a : 10 * acc + a.digit, 0, ds)

ExitLine(line) ==
  /\ Len(line) > 1 /\ Head(line) = Tok("exit")
  /\ \A i \in 2..Len(line) : IsDigit(line[i])

(* The wait status in a panic line: a signal in the low seven bits, or the *)
(* exit code in the next byte.                                             *)
PanicExitCode(line) ==
  LET status == line[Len(line)].status
  IN IF status % 128 = 0 THEN (status \div 256) % 256 ELSE 128 + (status % 128)

IsPanic(line) == Len(line) > 1 /\ line[Len(line) - 1] = Tok("panic")
PanicLine(code) == <<Tok("panic"), [status |-> 256 * code], NL>>

(* The last exit marker wins, then the wait status in a kernel panic, then *)
(* 1.                                                                      *)
ParseExitCode(t) ==
  LET ls == Lines(t)
      marked == {i \in DOMAIN ls : ExitLine(ls[i])}
      last(S) == CHOOSE i \in S : \A j \in S : j <= i
      panics == {i \in DOMAIN ls : IsPanic(ls[i])}
  IN IF marked # {} THEN Value(Tail(ls[last(marked)]))
     ELSE IF panics # {} THEN PanicExitCode(ls[last(panics)])
     ELSE 1

Before(line, a) ==
  IF a \in Range(line) THEN SubSeq(line, 1, SelectInSeq(line, LAMBDA x : x = a) - 1)
  ELSE line

Hidden(line) == line # <<>> /\ Head(line) = Tok("log")

(* From the begin marker up to the end or exit marker, wherever it stands  *)
(* in its line, without visor-init's own log lines.                        *)
MarkedLines(t) ==
  LET ls == Lines(t)
      begin == {i \in DOMAIN ls : ls[i] = <<Tok("begin")>>}
      first == CHOOSE i \in begin : \A j \in begin : i <= j
      stops == {i \in DOMAIN ls : i > first /\ {Tok("end"), Tok("exit")} \cap Range(ls[i]) # {}}
      stop == CHOOSE i \in stops : \A j \in stops : i <= j
      body == IF stops = {} THEN SubSeq(ls, first + 1, Len(ls))
              ELSE Append(SubSeq(ls, first + 1, stop - 1),
                          Before(Before(ls[stop], Tok("end")), Tok("exit")))
  IN IF begin = {} THEN <<>> ELSE SelectSeq(body, LAMBDA l : ~Hidden(l))

(* Without a begin marker: what follows the kernel's line naming init.     *)
LegacyLines(t) ==
  LET ls == Lines(t)
      init == {i \in DOMAIN ls : Tok("kinit") \in Range(ls[i])}
      first == CHOOSE i \in init : \A j \in init : i <= j
      stops == {i \in DOMAIN ls : i > first /\ ls[i] # <<>> /\
                                  Head(ls[i]) \in {Tok("exit"), Tok("panic")}}
      stop == CHOOSE i \in stops : \A j \in stops : i <= j
      upto == IF stops = {} THEN Len(ls) ELSE stop - 1
  IN IF init = {} THEN <<>>
     ELSE SelectSeq(SubSeq(ls, first + 1, upto), LAMBDA l : l # <<>> /\ ~Hidden(l))

ExtractStdout(t) ==
  IF Tok("begin") \in Range(t) THEN MarkedLines(t) ELSE LegacyLines(t)

Outputs(ls) == SelectSeq(FlattenSeq(ls), LAMBDA a : a = Tok("out"))

ConsoleInit ==
  /\ ipc = "mounts" /\ tty = <<>> /\ console = <<Tok("kinit"), NL>>
  /\ workload = "none" /\ wcode = 0 /\ said = <<>> /\ orphan = FALSE
  /\ exec = "none" /\ answer = "none"
  /\ wrote = 0 /\ logs = 0 /\ power = "on" /\ mimicked = {}

On == power = "on"
Put(atoms) == tty' = tty \o atoms

(* A step of the setup sequence succeeds.                                  *)
SetupOk ==
  /\ On /\ InSetup /\ ipc' = AfterSetup
  /\ UNCHANGED <<tty, console, workload, wcode, said, orphan, exec, answer,
                 wrote, logs, power, mimicked>>

(* Any failure up to the end marker is printed with its causes and ends    *)
(* main with exit(1): the kernel panics, with the wait status of init in   *)
(* its message.                                                            *)
Fatal ==
  /\ On /\ (InSetup \/ ipc \in {"begin", "spawn", "wait", "end"})
  /\ Put(<<Tok("log"), NL, Tok("cause"), NL>> \o PanicLine(1))
  /\ ipc' = "fatal"
  /\ UNCHANGED <<console, workload, wcode, said, orphan, exec, answer, wrote, logs, power, mimicked>>

WriteBegin ==
  /\ On /\ ipc = "begin" /\ ipc' = "spawn"
  /\ Put(<<Tok("begin"), NL>>)
  /\ UNCHANGED <<console, workload, wcode, said, orphan, exec, answer, wrote, logs, power, mimicked>>

SpawnWorkload ==
  /\ On /\ ipc = "spawn" /\ ipc' = "wait"
  /\ workload' = "running"
  /\ UNCHANGED <<tty, console, wcode, said, orphan, exec, answer, wrote, logs, power, mimicked>>

(* wait_for_child polls its own child with WNOHANG.                        *)
WaitForChild ==
  /\ On /\ ipc = "wait" /\ workload = "exited"
  /\ workload' = "reaped" /\ ipc' = "end"
  /\ UNCHANGED <<tty, console, wcode, said, orphan, exec, answer, wrote, logs, power, mimicked>>

WriteEnd ==
  /\ On /\ ipc = "end" /\ ipc' = "reap"
  /\ Put(<<Tok("end"), NL>>)
  /\ UNCHANGED <<console, workload, wcode, said, orphan, exec, answer, wrote, logs, power, mimicked>>

(* waitpid(-1) takes every zombie, the listener's command included.        *)
ReapZombies ==
  /\ On /\ ipc = "reap" /\ ipc' = "exit"
  /\ exec' = IF exec = "zombie" THEN "gone" ELSE exec
  /\ UNCHANGED <<tty, console, workload, wcode, said, orphan, answer, wrote, logs, power, mimicked>>

ExitMarkerGlued == <<Tok("exit")>> \o Text(wcode) \o <<NL>>
ExitMarker == <<NL, Tok("exit")>> \o Text(wcode) \o <<NL>>

WriteExitMarker ==
  /\ On /\ ipc = "exit" /\ ipc' = "drain"
  /\ Put(ExitMarker)
  /\ UNCHANGED <<console, workload, wcode, said, orphan, exec, answer, wrote, logs, power, mimicked>>

(* A short write: the loop of write_exit_marker writes the rest, behind    *)
(* whatever others wrote in between.                                       *)
WriteExitShort ==
  /\ On /\ ipc = "exit" /\ ipc' = "rest"
  /\ Put(SubSeq(ExitMarker, 1, 2))
  /\ UNCHANGED <<console, workload, wcode, said, orphan, exec, answer, wrote, logs, power, mimicked>>

WriteExitRest ==
  /\ On /\ ipc = "rest" /\ ipc' = "drain"
  /\ Put(SubSeq(ExitMarker, 3, Len(ExitMarker)))
  /\ UNCHANGED <<console, workload, wcode, said, orphan, exec, answer, wrote, logs, power, mimicked>>

(* tcdrain returns once what was queued has been sent; the grace period    *)
(* follows.                                                                *)
Drained ==
  /\ On /\ ipc = "drain" /\ tty = <<>> /\ ipc' = "grace"
  /\ UNCHANGED <<tty, console, workload, wcode, said, orphan, exec, answer, wrote, logs, power, mimicked>>

(* A failing write or drain is only logged. *)
ExitMarkerFails ==
  /\ On /\ ipc \in {"exit", "rest", "drain"} /\ ipc' = "blind"
  /\ Put(<<Tok("log"), NL>>)
  /\ UNCHANGED <<console, workload, wcode, said, orphan, exec, answer, wrote, logs, power, mimicked>>

(* What is still queued after the grace period is lost. *)
Reboot ==
  /\ On /\ ipc \in {"grace", "blind"}
  /\ ipc' = (IF ipc = "grace" THEN "rebooted" ELSE "unheard") /\ power' = "off"
  /\ UNCHANGED <<tty, console, workload, wcode, said, orphan, exec, answer, wrote, logs, mimicked>>

(* The reboot call fails: init exits with the workload's code instead.     *)
RebootFails ==
  /\ On /\ ipc \in {"grace", "blind"}
  /\ Put(<<Tok("log"), NL>> \o PanicLine(wcode)) /\ ipc' = "panicked"
  /\ UNCHANGED <<console, workload, wcode, said, orphan, exec, answer, wrote, logs, power, mimicked>>

PanicPowerOff ==
  /\ On /\ ipc \in {"fatal", "panicked"} /\ tty = <<>>
  /\ power' = "off"
  /\ UNCHANGED <<ipc, tty, console, workload, wcode, said, orphan, exec, answer, wrote, logs, mimicked>>

(* The UART hands the host one atom at a time.                             *)
SendAtom ==
  /\ On /\ tty # <<>>
  /\ console' = Append(console, Head(tty)) /\ tty' = Tail(tty)
  /\ UNCHANGED <<ipc, workload, wcode, said, orphan, exec, answer, wrote, logs, power, mimicked>>

(* The host stops the VM: what was not sent is lost.                       *)
HostKill ==
  /\ On /\ power' = "off" /\ ipc' = "killed"
  /\ UNCHANGED <<tty, console, workload, wcode, said, orphan, exec, answer, wrote, logs, mimicked>>

-----------------------------------------------------------------------------
(* The workload, its orphans and the background listener.                  *)

\* Nothing runs once the kernel has panicked.
Alive == On /\ ipc \notin {"fatal", "panicked"}
Writers == workload = "running" \/ orphan
BeforeEnd == ipc \in {"wait", "end"}

(* What stands between the two pieces of the exit marker parts it. *)
Between == IF ipc = "rest" THEN {"parted"} ELSE {}

Write(atom) ==
  /\ Alive /\ Writers /\ wrote < MaxSaid /\ wrote' = wrote + 1
  /\ Put(<<atom>>)
  /\ said' = IF BeforeEnd THEN Append(said, atom) ELSE said
  /\ mimicked' = mimicked \cup Between
  /\ UNCHANGED <<ipc, console, workload, wcode, orphan, exec, answer, logs, power>>

(* A line of the workload or an orphan that reads like one of visor-init's *)
(* (it counts as two atoms of output).                                     *)
Mimics == {<<Tok("end"), NL>>, <<Tok("log"), NL>>, <<NL, Tok("exit"), [digit |-> 0], NL>>}

Mimic(line) ==
  /\ Alive /\ Writers /\ wrote + 2 <= MaxSaid /\ wrote' = wrote + 2
  /\ Put(line)
  /\ mimicked' = mimicked \cup Between
       \cup (IF BeforeEnd THEN {"framing"} ELSE {})
       \cup (IF Tok("exit") \in Range(line) THEN {"code"} ELSE {})
       \cup (IF Tok("exit") \in Range(line) /\ ipc \in {"rest", "drain", "grace", "blind"}
             THEN {"late"} ELSE {})
  /\ UNCHANGED <<ipc, console, workload, wcode, said, orphan, exec, answer, logs, power>>

LeaveOrphan ==
  /\ Alive /\ workload = "running" /\ ~orphan /\ orphan' = TRUE
  /\ UNCHANGED <<ipc, tty, console, workload, wcode, said, exec, answer, wrote, logs, power, mimicked>>

WorkloadExit(c) ==
  /\ Alive /\ workload = "running"
  /\ workload' = "exited" /\ wcode' = c
  /\ UNCHANGED <<ipc, tty, console, said, orphan, exec, answer, wrote, logs, power, mimicked>>

Started == ipc \in {"signals", "begin", "spawn", "wait", "end", "reap", "exit", "rest", "drain", "grace", "blind"}

ListenerLog ==
  /\ Alive /\ Started /\ logs < MaxLogs
  /\ Put(<<Tok("log"), NL>>) /\ logs' = logs + 1 /\ mimicked' = mimicked \cup Between
  /\ UNCHANGED <<ipc, console, workload, wcode, said, orphan, exec, answer, wrote, power>>

ExecSpawn ==
  /\ Alive /\ Started /\ exec = "none" /\ exec' = "running"
  /\ UNCHANGED <<ipc, tty, console, workload, wcode, said, orphan, answer, wrote, logs, power, mimicked>>

ExecExit ==
  /\ Alive /\ exec = "running" /\ exec' = "zombie"
  /\ UNCHANGED <<ipc, tty, console, workload, wcode, said, orphan, answer, wrote, logs, power, mimicked>>

(* The listener's own wait: ECHILD when init took the zombie first.        *)
ExecWait ==
  /\ Alive /\ exec \in {"zombie", "gone"} /\ answer = "none"
  /\ answer' = IF exec = "zombie" THEN "code" ELSE "error"
  /\ exec' = "gone"
  /\ UNCHANGED <<ipc, tty, console, workload, wcode, said, orphan, wrote, logs, power, mimicked>>

InitSteps ==
  SetupOk \/ WriteBegin \/ SpawnWorkload \/ WaitForChild \/ WriteEnd \/ ReapZombies
  \/ WriteExitMarker \/ WriteExitRest \/ Drained \/ Reboot \/ PanicPowerOff \/ SendAtom

ConsoleNext ==
  \/ InitSteps \/ Fatal \/ WriteExitShort \/ ExitMarkerFails \/ RebootFails \/ HostKill
  \/ Write(Tok("out")) \/ Write(NL) \/ \E line \in Mimics : Mimic(line)
  \/ LeaveOrphan \/ ListenerLog \/ ExecSpawn \/ ExecExit \/ ExecWait
  \/ \E c \in ExitCodes : WorkloadExit(c)

-----------------------------------------------------------------------------
Rebooted == ~On /\ ipc \in {"rebooted", "panicked"} /\ workload = "reaped"

(* A VM that powered itself off is reported with its workload's exit code, *)
(* whatever the workload, its orphans and the listener were writing: the   *)
(* exit marker stands on a line of its own, was sent before the reboot and *)
(* is the last.  Three things are excepted: writing or draining the marker *)
(* failed; it took two writes and something came between; an orphan wrote  *)
(* an exit marker after it.                                                *)
ExitReported == ipc = "rebooted" /\ mimicked \cap {"parted", "late"} = {} => ParseExitCode(console) = wcode

(* The host reports success only for a workload that exited with 0, also   *)
(* when init failed or the VM was killed in the middle of the marker;      *)
(* unless the guest itself wrote an exit marker.                           *)
ZeroIsSuccess ==
  ~On /\ "code" \notin mimicked /\ ParseExitCode(console) = 0 => workload \in {"exited", "reaped"} /\ wcode = 0

(* The extracted output holds all of the workload's that was written       *)
(* before the end marker, and nothing written after it, a last line        *)
(* without newline included; a VM killed on the way yields a beginning of  *)
(* it.  The workload has not written a line like visor-init's own.         *)
StdoutKept ==
  LET got == Outputs(ExtractStdout(console))
      was == SelectSeq(said, LAMBDA a : a = Tok("out"))
  IN ~On /\ "framing" \notin mimicked => IsPrefix(got, was) /\ (Rebooted => got = was)

(* A command run next to the workload loses its exit code only to the      *)
(* final reaping, when the VM is about to go.                              *)
ExecLostOnlyAtEnd ==
  answer = "error" =>
    ipc \in {"exit", "rest", "drain", "grace", "blind", "rebooted", "unheard", "panicked", "killed"}

(* A workload that exits powers the VM off.                                *)
ExitPowersOff == workload = "exited" ~> ~On

(* What the host reads from the console is what happened in the guest: the   *)
(* exit code, success only for success, the output between the markers; and  *)
(* a command beside the workload loses its code only at the end.             *)
ConsoleTruthful ==
  ExitReported /\ ZeroIsSuccess /\ StdoutKept /\ ExecLostOnlyAtEnd
=============================================================================
