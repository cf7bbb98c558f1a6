------------------------------ MODULE Sessions ------------------------------
(***************************************************************************)
(* The sessions of the API (api/ws.rs) and the commands that use them:     *)
(* `visor shell' (cli/shell.rs) and any other client on the attach route,  *)
(* `visor console' (cli/console.rs) on the logs route.  A client and its   *)
(* handler exchange messages over a connection; the VM behind them prints, *)
(* is stopped, started and destroyed by others at any time.                *)
(***************************************************************************)
EXTENDS Integers, Sequences, FiniteSets, SequencesExt

CONSTANTS Routes,      \* clients: "shell", "raw" (attach route), "console" (logs route)
          MaxLines,    \* messages a client sends
          MaxPrinted,  \* bytes a boot prints
          MaxStarts    \* boots of the VM

ASSUME SessionBounds == {MaxLines, MaxPrinted, MaxStarts} \subseteq Nat

VARIABLES route,
          vmState, boot, console,   \* console: bytes of this boot, "c" or the halves "h", "t"
          inbox, outbox, cliOpen,        \* the connection: messages under way, the client's end open
          srv, reply, job, logCursor,  \* the handler
          cli, asks, heard, seen    \* the client; asks and heard: what it sent and got
sessVars == <<route, vmState, boot, console, inbox, outbox, cliOpen, srv, reply, job, logCursor,
              cli, asks, heard, seen>>
hostSide == <<vmState, boot, console>>
serverSide == <<srv, reply, job, logCursor>>
clientSide == <<cli, cliOpen, asks, heard, seen>>

SessInit ==
  /\ route \in Routes
  /\ vmState = "running" /\ boot = 1 /\ console = <<>>
  /\ inbox = <<>> /\ outbox = <<>> /\ cliOpen = FALSE
  /\ srv = "idle" /\ reply = <<>> /\ job = 0 /\ logCursor = 0
  /\ cli = "check" /\ asks = <<>> /\ heard = <<>> /\ seen = <<>>

Msg(k, n) == [k |-> k, n |-> n]
Attached == route \in {"shell", "raw"}
----------------------------------------------------------------------------
(* The VM. *)

\* One byte; the first half of a character is followed by the second.
GuestPrints ==
  /\ route = "console" /\ vmState = "running" /\ Len(console) < MaxPrinted
  /\ \E b \in IF console # <<>> /\ Last(console) = "h" THEN {"t"} ELSE {"c", "h"} :
       console' = Append(console, b)
  /\ UNCHANGED <<route, vmState, boot, inbox, outbox, serverSide, clientSide>>

\* Every boot has a serial buffer of its own.
VmChanges ==
  /\ \/ vmState = "running" /\ vmState' \in {"stopped", "gone"} /\ UNCHANGED <<boot, console>>
     \/ vmState = "stopped" /\ vmState' = "gone" /\ UNCHANGED <<boot, console>>
     \/ /\ vmState = "stopped" /\ boot < MaxStarts
        /\ vmState' = "running" /\ boot' = boot + 1 /\ console' = <<>>
  /\ UNCHANGED <<route, inbox, outbox, serverSide, clientSide>>
----------------------------------------------------------------------------
(* The handlers.  A send to a client that has gone fails, or is lost; what *)
(* such a client had sent may still be read.                               *)

Send(m, next) ==
  \/ cliOpen /\ outbox' = Append(outbox, m) /\ srv' = next
  \/ ~cliOpen /\ srv' \in {"done", next} /\ UNCHANGED outbox

\* backend.get() knows a stopped VM.
Verify ==
  /\ srv = "verify"
  /\ IF vmState = "gone" THEN Send(Msg("error", 0), "done") ELSE srv' = "greet" /\ UNCHANGED outbox
  /\ UNCHANGED <<route, hostSide, inbox, reply, job, logCursor, clientSide>>

Greet ==
  /\ srv = "greet" /\ Send(Msg("info", 0), IF Attached THEN "recv" ELSE "wait")
  /\ UNCHANGED <<route, hostSide, inbox, reply, job, logCursor, clientSide>>

\* A message of the client: a command, a blank line, a text that is no message,
\* or a frame or message of another type, which is passed over.
AttachRecv ==
  /\ srv = "recv"
  /\ \/ /\ ~cliOpen /\ srv' = "done" /\ UNCHANGED <<inbox, reply, job>>
     \/ /\ inbox # <<>> /\ inbox' = Tail(inbox)
        /\ LET m == Head(inbox)
           IN \/ m.k = "stdin" /\ srv' = "exec" /\ job' = m.n /\ UNCHANGED reply
              \/ m.k = "blank" /\ srv' = "reply" /\ reply' = <<Msg("exit", m.n)>> /\ UNCHANGED job
              \/ m.k = "text" /\ srv' = "reply" /\ reply' = <<Msg("error", m.n)>> /\ UNCHANGED job
              \/ m.k = "other" /\ UNCHANGED <<srv, reply, job>>
  /\ UNCHANGED <<route, hostSide, outbox, logCursor, clientSide>>

\* What exec() on the VM gives: a VM that does not run has no answer but an error.
Outputs(n) == {<<Msg("stdout", n)>>, <<Msg("stderr", n)>>, <<Msg("stdout", n), Msg("stderr", n)>>, <<>>}
Answers(n) ==
  {<<Msg("error", n)>>}
    \cup (IF vmState = "running" THEN {o \o <<Msg("exit", n)>> : o \in Outputs(n)} ELSE {})

AttachExec ==
  /\ srv = "exec" /\ srv' = "reply" /\ reply' \in Answers(job)
  /\ UNCHANGED <<route, hostSide, inbox, outbox, job, logCursor, clientSide>>

AttachReply ==
  /\ srv = "reply"
  /\ Send(Head(reply), IF Len(reply) = 1 THEN "recv" ELSE "reply")
  /\ reply' = Tail(reply)
  /\ UNCHANGED <<route, hostSide, inbox, job, logCursor, clientSide>>

\* 200 ms for the client to close; then the buffer of the VM is read.
LogsWait ==
  /\ srv = "wait" /\ srv' = IF cliOpen THEN "poll" ELSE "done"
  /\ UNCHANGED <<route, hostSide, inbox, outbox, reply, job, logCursor, clientSide>>

\* from_utf8_lossy of the bytes after the cursor: half a character is replaced.
Lossy ==
  [i \in 1..(Len(console) - logCursor) |->
     LET b == console[logCursor + i]
         whole == \/ b = "c"
                  \/ b = "h" /\ logCursor + i < Len(console)
                  \/ b = "t" /\ i > 1
     IN [boot |-> boot, at |-> logCursor + i, whole |-> whole]]

\* console_output() finds a live state.
ConsoleReadable == vmState = "running"

LogsPoll ==
  /\ srv = "poll"
  /\ \/ ~ConsoleReadable /\ Send(Msg("info", 0), "done") /\ UNCHANGED logCursor
     \/ ConsoleReadable /\ Len(console) > logCursor /\ logCursor' = Len(console)
        /\ Send([k |-> "log", n |-> 0, text |-> Lossy], "wait")
     \/ ConsoleReadable /\ Len(console) <= logCursor /\ srv' = "wait" /\ UNCHANGED <<outbox, logCursor>>
  /\ UNCHANGED <<route, hostSide, inbox, reply, job, clientSide>>

ServerStep ==
  Verify \/ Greet \/ AttachRecv \/ AttachExec \/ AttachReply \/ LogsWait \/ LogsPoll
----------------------------------------------------------------------------
(* The clients. *)

HangsUp == cli' = "ended" /\ cliOpen' = FALSE
Closed == outbox = <<>> /\ srv = "done"

VmFound == vmState # "gone"
VmInteractive == vmState = "running"

\* The commands ask for the VM first; another client just connects.
Check ==
  /\ cli = "check"
  /\ cli' = IF route = "raw" \/ (VmFound /\ VmInteractive) THEN "connect" ELSE "ended"
  /\ UNCHANGED <<route, hostSide, inbox, outbox, serverSide, cliOpen, asks, heard, seen>>

OpenSession ==
  /\ cli = "connect" /\ cliOpen' = TRUE /\ srv' = "verify"
  /\ cli' = CASE route = "shell" -> "greeting" [] route = "raw" -> "raw" [] OTHER -> "watch"
  /\ UNCHANGED <<route, hostSide, inbox, outbox, reply, job, logCursor, asks, heard, seen>>

\* The first frame is taken, whatever it is.
ShellGreeting ==
  /\ cli = "greeting" /\ cli' = "prompt"
  /\ \/ outbox # <<>> /\ outbox' = Tail(outbox)
     \/ Closed /\ UNCHANGED outbox
  /\ UNCHANGED <<route, hostSide, inbox, serverSide, cliOpen, asks, heard, seen>>

\* A send on a connection the handler has closed fails, or is lost.
SendUp(k, next) ==
  /\ Len(asks) < MaxLines /\ asks' = Append(asks, k)
  /\ \/ srv # "done" /\ inbox' = Append(inbox, Msg(k, Len(asks) + 1)) /\ cli' = next /\ UNCHANGED cliOpen
     \/ srv = "done" /\ UNCHANGED inbox /\ (HangsUp \/ (cli' = next /\ UNCHANGED cliOpen))
  /\ UNCHANGED <<heard, seen>>

ShellPrompt ==
  /\ cli = "prompt"
  /\ \/ SendUp("stdin", "await")
     \/ HangsUp /\ UNCHANGED <<inbox, asks, heard, seen>>
  /\ UNCHANGED <<route, hostSide, outbox, serverSide>>

\* Frames inbox to an exit or an error belong to the command.
ShellAwait ==
  /\ cli = "await"
  /\ \/ /\ outbox # <<>> /\ outbox' = Tail(outbox) /\ heard' = Append(heard, Head(outbox))
        /\ cli' = IF Head(outbox).k \in {"exit", "error"} THEN "prompt" ELSE "await"
        /\ UNCHANGED cliOpen
     \/ Closed /\ HangsUp /\ UNCHANGED <<outbox, heard>>
  /\ UNCHANGED <<route, hostSide, inbox, serverSide, asks, seen>>

\* Another client of the route may send before it has read.
RawSend ==
  /\ cli = "raw" /\ \E k \in {"stdin", "blank", "text", "other"} : SendUp(k, "raw")
  /\ UNCHANGED <<route, hostSide, outbox, serverSide>>

RawRecv ==
  /\ cli = "raw"
  /\ \/ outbox # <<>> /\ outbox' = Tail(outbox) /\ heard' = Append(heard, Head(outbox)) /\ UNCHANGED <<cli, cliOpen>>
     \/ Closed /\ HangsUp /\ UNCHANGED <<outbox, heard>>
  /\ UNCHANGED <<route, hostSide, inbox, serverSide, asks, seen>>

ConsoleWatch ==
  /\ cli = "watch"
  /\ \/ /\ outbox # <<>> /\ outbox' = Tail(outbox)
        /\ seen' = IF Head(outbox).k = "log" THEN seen \o Head(outbox).text ELSE seen
        /\ IF Head(outbox).k = "error" THEN HangsUp ELSE UNCHANGED <<cli, cliOpen>>
     \/ Closed /\ HangsUp /\ UNCHANGED <<outbox, seen>>
  /\ UNCHANGED <<route, hostSide, inbox, serverSide, asks, heard>>

\* The detach key, an interrupt, or a client that breaks off.
Leave ==
  /\ cliOpen /\ cli # "ended" /\ HangsUp
  /\ UNCHANGED <<route, hostSide, inbox, outbox, serverSide, asks, heard, seen>>

ClientReads == Check \/ OpenSession \/ ShellGreeting \/ ShellAwait \/ RawRecv \/ ConsoleWatch
SessNext ==
  GuestPrints \/ VmChanges \/ ServerStep \/ ClientReads \/ ShellPrompt \/ RawSend \/ Leave
----------------------------------------------------------------------------
Final(m) == m.k \in {"exit", "error"} /\ m.n > 0
Finals(ms) == SelectSeq(ms, Final)

\* A command, a blank line and a text that is no message are each answered once,
\* in the order they were sent, even by a client that sends ahead; what `visor
\* shell' shows for a command is that command's output, although answers carry
\* no number (handle_attach, cli/shell.rs).
AnswersMatched ==
  Attached =>
    /\ LET f == Finals(heard \o outbox)
           owed == SelectSeq([i \in 1..Len(asks) |-> i], LAMBDA i : asks[i] # "other")
       IN IsPrefix([i \in DOMAIN f |-> f[i].n], owed)
    /\ route = "shell" =>
         /\ cli = "await" => \A i \in DOMAIN outbox : outbox[i].n \in {0, Len(asks)}
         /\ cli = "prompt" /\ heard # <<>> => outbox = <<>> /\ Last(heard).n = Len(asks)

\* The console shows a boot's bytes each once, in order and none left out
\* (handle_logs and its cursor); a later boot's output never comes before an
\* earlier one's.  A byte is replaced only as half of a character: the other half
\* is replaced too, was not shown yet, or belongs to no output of that boot.
LogsInOrder ==
  \A i \in DOMAIN seen :
    /\ seen[i].boot = seen[1].boot => seen[i].at = i
    /\ i > 1 => seen[i - 1].boot <= seen[i].boot /\ seen[i].at = seen[i - 1].at + 1
    /\ ~seen[i].whole => i = Len(seen) \/ \E j \in {i - 1, i + 1} \cap DOMAIN seen :
                          ~seen[j].whole \/ seen[j].boot # seen[i].boot

\* A boot is shown from its first byte.  It does not hold: a VM stopped and
\* started again between two polls meets the cursor of the boot before.
BootShownWhole == \A i \in DOMAIN seen : seen[i].at > 1 => seen[i - 1].boot = seen[i].boot

\* A shell that waits for an answer gets one or is told that the connection has
\* closed; a console of a VM that is gone ends.
ClientMovesOn ==
  (cli = "await" \/ (cli = "watch" /\ vmState = "gone")) ~> cli \in {"prompt", "ended"}

\* A handler ends when its client has gone.
HandlerEnds == (cli = "ended" /\ srv # "idle") ~> srv = "done"
=============================================================================
