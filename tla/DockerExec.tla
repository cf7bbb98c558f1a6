----------------------------- MODULE DockerExec -----------------------------
(***************************************************************************)
(* The exec half of the Docker API (visor-docker handlers.rs): a session   *)
(* is created, started, inspected.  A start that upgrades its connection   *)
(* spawns a task: without a terminal and without stdin the command runs to *)
(* its end and its output is sent in frames, otherwise the connection and  *)
(* a guest stream are bridged by two copying tasks.                        *)
(***************************************************************************)
EXTENDS Integers, Sequences, SequencesExt

CONSTANTS MaxInput,    \* bytes the client types
          MaxOutput    \* bytes the command writes

VARIABLES session,     \* [made, result]: the entry of DockerState.exec_sessions
          startReq,    \* the start request: its step, its flags, the input it read first
          client,      \* the upgraded connection as its peer sees it
          guest,       \* the command in the guest
          pumps        \* the two tasks of bridge_exec_stream

execVars == <<session, startReq, client, guest, pumps>>

NoResult == "running"
Flags == [tty: BOOLEAN, stdin: BOOLEAN, upgrade: BOOLEAN]

ExecInit ==
  /\ session = [made |-> FALSE, result |-> NoResult]
  /\ \E f \in Flags : startReq = [pc |-> "none", flags |-> f, first |-> <<>>]
  /\ client = [sent |-> <<>>, unread |-> <<>>, eof |-> FALSE, got |-> 0, shut |-> FALSE, broken |-> FALSE]
  /\ guest = [st |-> "none", input |-> <<>>, inEof |-> FALSE, wrote |-> 0, unread |-> 0]
  /\ pumps = [in |-> "off", out |-> "off"]

Goes(pc) == startReq' = [startReq EXCEPT !.pc = pc]
Store(r) == session' = [session EXCEPT !.result = r] /\ Goes("done")

(* exec_create *)
ExecCreate ==
  /\ ~session.made /\ session' = [session EXCEPT !.made = TRUE]
  /\ UNCHANGED <<startReq, client, guest, pumps>>

(* exec_start: a detached or plain request runs the command itself and     *)
(* keeps nothing when that fails.                                          *)
ExecStart ==
  /\ session.made /\ startReq.pc = "none"
  /\ LET f == startReq.flags IN
       Goes(IF ~f.upgrade THEN "plain" ELSE IF ~f.tty /\ ~f.stdin THEN "output" ELSE "stream")
  /\ UNCHANGED <<session, client, guest, pumps>>

PlainExec ==
  /\ startReq.pc = "plain"
  /\ \/ Goes("exec") /\ guest' = [guest EXCEPT !.st = "runs"] /\ UNCHANGED session
     \/ Goes("failed") /\ UNCHANGED <<session, guest>>
  /\ UNCHANGED <<client, pumps>>

(* spawn_exec_output_bridge and spawn_exec_stream_bridge: the handshake    *)
(* may fail, which is a result too.                                        *)
Upgrade ==
  /\ startReq.pc \in {"output", "stream"}
  /\ \/ Goes(IF startReq.pc = "output" THEN "exec" ELSE "peek")
        /\ guest' = (IF startReq.pc = "output" THEN [guest EXCEPT !.st = "runs"] ELSE guest)
        /\ UNCHANGED session
     \/ Store("1") /\ UNCHANGED guest
  /\ UNCHANGED <<client, pumps>>

(* read_initial_client_input: what the client has sent within the timeout. *)
Peek ==
  /\ startReq.pc = "peek"
  /\ \/ /\ client.unread # <<>> /\ client' = [client EXCEPT !.unread = <<>>]
        /\ startReq' = [startReq EXCEPT !.pc = "open", !.first = client.unread]
        /\ UNCHANGED <<session, guest>>
     \/ client.unread = <<>> /\ ~client.eof /\ Goes("open") /\ UNCHANGED <<session, client, guest>>
     \/ client.unread = <<>> /\ client.eof /\ startReq.flags.tty /\ Goes("open")
        /\ UNCHANGED <<session, client, guest>>
     \/ client.unread = <<>> /\ client.eof /\ ~startReq.flags.tty /\ Goes("exec")
        /\ guest' = [guest EXCEPT !.st = "runs", !.inEof = TRUE] /\ UNCHANGED <<session, client>>
     \/ client.broken /\ Store("1") /\ UNCHANGED <<client, guest>>
  /\ UNCHANGED pumps

(* exec_stream, and the write of what was read first.                      *)
OpenStream ==
  /\ startReq.pc = "open"
  /\ \/ /\ guest' = [guest EXCEPT !.st = "runs", !.input = startReq.first]
        /\ Goes("bridge") /\ pumps' = [in |-> "copy", out |-> "copy"] /\ UNCHANGED session
     \/ Store("1") /\ UNCHANGED <<guest, pumps>>
  /\ UNCHANGED client

(* backend.exec collects the output; the frames go out when it returns.    *)
ExecReturns ==
  /\ startReq.pc = "exec" /\ guest.st \in {"ended", "lost"}
  /\ IF guest.st = "ended"
     THEN /\ Store("exit")
          /\ client' = [client EXCEPT !.shut = TRUE, !.got = IF client.broken THEN @ ELSE guest.wrote]
     ELSE /\ client' = [client EXCEPT !.shut = TRUE]
          /\ IF startReq.flags.upgrade THEN Store("1") ELSE Goes("failed") /\ UNCHANGED session
  /\ UNCHANGED <<guest, pumps>>

----------------------------------------------------------------------------
(* bridge_exec_stream.                                                     *)
PumpIn ==
  /\ pumps.in = "copy"
  /\ \/ /\ client.unread # <<>> /\ guest.st = "runs"
        /\ guest' = [guest EXCEPT !.input = @ \o client.unread]
        /\ client' = [client EXCEPT !.unread = <<>>] /\ UNCHANGED pumps
     \/ /\ client.unread = <<>> /\ client.eof /\ guest' = [guest EXCEPT !.inEof = TRUE]
        /\ pumps' = [pumps EXCEPT !.in = "done"] /\ UNCHANGED client
     \/ /\ client.broken \/ (guest.st # "runs" /\ (client.unread # <<>> \/ client.eof))
        /\ pumps' = [pumps EXCEPT !.in = "error"] /\ UNCHANGED <<client, guest>>
  /\ UNCHANGED <<session, startReq>>

(* A guest that is lost ends the stream like a command that ends, or with  *)
(* an error; shutting a broken connection down may fail.                   *)
PumpOut ==
  /\ pumps.out = "copy"
  /\ \/ /\ guest.unread > 0 /\ ~client.broken
        /\ guest' = [guest EXCEPT !.unread = 0]
        /\ client' = [client EXCEPT !.got = @ + guest.unread] /\ UNCHANGED pumps
     \/ /\ guest.unread = 0 /\ guest.st # "runs" /\ client' = [client EXCEPT !.shut = TRUE]
        /\ pumps' = [pumps EXCEPT !.out = "done"] /\ UNCHANGED guest
     \/ /\ (client.broken /\ (guest.unread > 0 \/ guest.st # "runs")) \/ guest.st = "lost"
        /\ pumps' = [pumps EXCEPT !.out = "error"] /\ UNCHANGED <<client, guest>>
  /\ UNCHANGED <<session, startReq>>

(* The select loop: an error of either task ends the bridge and aborts the *)
(* other; the end of the output ends it; the end of the input does not.    *)
BridgeEndsEither ==
  /\ startReq.pc = "bridge"
  /\ \/ pumps.in = "error" /\ Store("1")
     \/ pumps.out = "error" /\ Store("1")
     \/ "done" \in {pumps.in, pumps.out} /\ Store("0")
  /\ pumps' = [in |-> "off", out |-> "off"] /\ UNCHANGED <<client, guest>>

BridgeEnds ==
  /\ startReq.pc = "bridge"
  /\ \/ pumps.in = "error" /\ Store("1")
     \/ pumps.out = "error" /\ Store("1")
     \/ pumps.out = "done" /\ Store("0")
  /\ pumps' = [in |-> "off", out |-> "off"] /\ UNCHANGED <<client, guest>>

----------------------------------------------------------------------------
(* The peers.                                                              *)
ClientTypes ==
  /\ ~client.eof /\ ~client.broken /\ Len(client.sent) < MaxInput
  /\ LET b == Len(client.sent) + 1 IN
       client' = [client EXCEPT !.sent = Append(@, b), !.unread = Append(@, b)]
  /\ UNCHANGED <<session, startReq, guest, pumps>>

ClientCloses ==
  /\ ~client.eof /\ client' = [client EXCEPT !.eof = TRUE]
  /\ UNCHANGED <<session, startReq, guest, pumps>>

ClientBreaks ==
  /\ ~client.broken /\ client' = [client EXCEPT !.broken = TRUE]
  /\ UNCHANGED <<session, startReq, guest, pumps>>

CommandWrites ==
  /\ guest.st = "runs" /\ guest.wrote < MaxOutput
  /\ guest' = [guest EXCEPT !.wrote = @ + 1, !.unread = @ + 1]
  /\ UNCHANGED <<session, startReq, client, pumps>>

CommandEnds ==
  /\ guest.st = "runs"
  /\ \/ guest' = [guest EXCEPT !.st = "ended"]
     \/ \E n \in 0 .. guest.unread : guest' = [guest EXCEPT !.st = "lost", !.unread = n]
  /\ UNCHANGED <<session, startReq, client, pumps>>

BridgeStep == PlainExec \/ Upgrade \/ Peek \/ OpenStream \/ ExecReturns \/ PumpIn \/ PumpOut \/ BridgeEnds
ExecNext == ExecCreate \/ ExecStart \/ BridgeStep \/ ClientTypes \/ ClientCloses \/ ClientBreaks
              \/ CommandWrites \/ CommandEnds

----------------------------------------------------------------------------
(* Nothing the client typed overtakes, repeats or skips anything else on   *)
(* its way to the command, the bytes read before the stream was open       *)
(* included.                                                               *)
InputInOrder == IsPrefix(guest.input, client.sent)

(* A bridge that reports success has sent the client everything that came  *)
(* out of the guest and has closed the output: all a command wrote before  *)
(* it ended.  A guest lost in the middle is reported as a success too.     *)
OutputComplete ==
  session.result = "0" =>
    /\ guest.st # "runs" /\ guest.unread = 0 /\ client.shut
    /\ guest.st = "ended" => client.got = guest.wrote

(* A started exec on an upgraded connection whose command has ended is     *)
(* given a result.                                                         *)
ExecReported ==
  startReq.flags.upgrade /\ guest.st \in {"ended", "lost"} ~> session.result # NoResult

(* An exec stream passes on what was typed, in order, and a success is       *)
(* reported only after all output.                                           *)
StreamExact ==
  InputInOrder /\ OutputComplete
=============================================================================
