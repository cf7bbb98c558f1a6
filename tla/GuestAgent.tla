----------------------------- MODULE GuestAgent -----------------------------
(***************************************************************************)
(* The agent inside the guest (visor-init listener.rs): one thread per     *)
(* connection, one mutex around the agent state.  A plain exec keeps the   *)
(* mutex for as long as its command runs.  A streaming exec takes over its *)
(* connection: it starts the command, stores its process id for `kill`,    *)
(* answers, and then forwards both output pipes as frames until the        *)
(* command is over.  The client may close the connection at any time.      *)
(***************************************************************************)
EXTENDS Integers, Sequences, SequencesExt, FiniteSets

CONSTANTS Conns,      \* connections
          AgentReqs,  \* requests a client makes: ping, exec, stream, tty, kill, shutdown, bad
          MaxReqs,    \* requests of one connection
          MaxChunks   \* writes of a streamed command on each pipe

ASSUME ConnsAssumption == Conns \subseteq Nat \ {0}

VARIABLES mutex,      \* the connection holding the state lock, or 0
          childPid,   \* the connection whose command `kill` would hit, or 0
          flagged,    \* shutdown_requested
          req, reqs,  \* the request at hand of a connection; how many it made
          st,         \* what the thread of a connection does
          proc,       \* the command of a connection
          peer,       \* the client still has the connection open
          pipe, made, \* chunks in a pipe; chunks the command wrote
          wire,       \* what the client of a stream received
          writer,     \* the forwarding thread that is inside a frame, or 0
          failed,     \* the forwarding threads of a stream that failed
          held,       \* a background process of the ended command has its output open
          alive       \* the agent has not exited

agentVars == <<mutex, childPid, flagged, req, reqs, st, proc, peer, pipe, made, wire,
               writer, failed, held, alive>>

Streams == {1, 2}

AgentInit ==
  /\ mutex = 0 /\ childPid = 0 /\ flagged = FALSE /\ alive = TRUE
  /\ req = [c \in Conns |-> "none"] /\ reqs = [c \in Conns |-> 0]
  /\ st = [c \in Conns |-> "reading"]
  /\ proc = [c \in Conns |-> "none"]
  /\ peer = [c \in Conns |-> TRUE]
  /\ pipe = [c \in Conns |-> [s \in Streams |-> 0]]
  /\ made = [c \in Conns |-> [s \in Streams |-> 0]]
  /\ wire = [c \in Conns |-> <<>>]
  /\ writer = [c \in Conns |-> 0]
  /\ failed = [c \in Conns |-> {}]
  /\ held = [c \in Conns |-> FALSE]

streamVars == <<proc, pipe, made, wire, writer, failed, held>>

(* The process of a command is over; others it started may live on with    *)
(* its output open.                                                        *)
ProcessOver(c) ==
  /\ proc' = [proc EXCEPT ![c] = "zombie"]
  /\ \E b \in BOOLEAN : held' = [held EXCEPT ![c] = b]

Send(c) ==
  /\ alive /\ peer[c] /\ req[c] = "none" /\ st[c] = "reading" /\ reqs[c] < MaxReqs
  /\ \E r \in AgentReqs : req' = [req EXCEPT ![c] = r]
  /\ reqs' = [reqs EXCEPT ![c] = @ + 1]
  /\ UNCHANGED <<mutex, childPid, flagged, st, peer, alive, streamVars>>

ClientClose(c) ==
  /\ alive /\ peer[c] /\ peer' = [peer EXCEPT ![c] = FALSE]
  /\ UNCHANGED <<mutex, childPid, flagged, req, reqs, st, alive, streamVars>>

(* End of file, or an error of the connection thread: it just ends.        *)
ReadEnds(c) ==
  /\ alive /\ ~peer[c] /\ st[c] = "reading" /\ req[c] = "none"
  /\ st' = [st EXCEPT ![c] = "closed"]
  /\ UNCHANGED <<mutex, childPid, flagged, req, reqs, peer, alive, streamVars>>

(* A line that does not parse or names no method is answered at once.      *)
AnswerBad(c) ==
  /\ alive /\ st[c] = "reading" /\ req[c] = "bad"
  /\ req' = [req EXCEPT ![c] = "none"]
  /\ UNCHANGED <<mutex, childPid, flagged, reqs, st, peer, alive, streamVars>>

(* The other methods run under the mutex; afterwards the answer is         *)
(* written without it.                                                     *)
Handle(c) ==
  /\ alive /\ st[c] = "reading" /\ mutex = 0
  /\ \/ /\ req[c] = "ping" /\ UNCHANGED <<flagged, proc, held>>
     \/ /\ req[c] = "shutdown" /\ flagged' = TRUE /\ UNCHANGED <<proc, held>>
     \/ /\ req[c] = "kill" /\ UNCHANGED flagged
        /\ IF childPid # 0 /\ proc[childPid] = "running"
           THEN ProcessOver(childPid) ELSE UNCHANGED <<proc, held>>
  /\ st' = [st EXCEPT ![c] = IF flagged' THEN "answerAndExit" ELSE "answer"]
  /\ UNCHANGED <<mutex, childPid, req, reqs, peer, alive, pipe, made, wire, writer, failed>>

(* A plain exec waits for its command with the mutex held.                 *)
ExecBegin(c) ==
  /\ alive /\ st[c] = "reading" /\ req[c] = "exec" /\ mutex = 0
  /\ mutex' = c /\ st' = [st EXCEPT ![c] = "exec"]
  /\ UNCHANGED <<childPid, flagged, req, reqs, peer, alive, streamVars>>

ExecDone(c) ==
  /\ alive /\ st[c] = "exec"
  /\ mutex' = 0
  /\ st' = [st EXCEPT ![c] = IF flagged THEN "answerAndExit" ELSE "answer"]
  /\ UNCHANGED <<childPid, flagged, req, reqs, peer, alive, streamVars>>

WriteAnswer(c) ==
  /\ alive /\ st[c] \in {"answer", "answerAndExit"}
  /\ IF ~peer[c]
     THEN st' = [st EXCEPT ![c] = "closed"] /\ UNCHANGED <<req, alive>>
     ELSE /\ req' = [req EXCEPT ![c] = "none"]
          /\ st' = [st EXCEPT ![c] = "reading"]
          /\ alive' = (st[c] = "answer")
  /\ UNCHANGED <<mutex, childPid, flagged, reqs, peer, streamVars>>

-----------------------------------------------------------------------------
(* The streaming exec.                                                     *)

(* The lock is taken to read the configuration; a spawn that fails ends    *)
(* the thread.  With a terminal the command has one pipe for all it writes.*)
StreamSpawnTty(c) ==
  /\ alive /\ st[c] = "reading" /\ req[c] = "tty" /\ mutex = 0
  /\ \/ st' = [st EXCEPT ![c] = "spawned"] /\ proc' = [proc EXCEPT ![c] = "running"]
     \/ st' = [st EXCEPT ![c] = "closed"] /\ UNCHANGED proc
  /\ UNCHANGED <<mutex, childPid, flagged, req, reqs, peer, alive, pipe, made, wire,
                 writer, failed, held>>

StreamSpawn(c) ==
  /\ alive /\ st[c] = "reading" /\ req[c] = "stream" /\ mutex = 0
  /\ \/ st' = [st EXCEPT ![c] = "spawned"] /\ proc' = [proc EXCEPT ![c] = "running"]
     \/ st' = [st EXCEPT ![c] = "closed"] /\ UNCHANGED proc
  /\ UNCHANGED <<mutex, childPid, flagged, req, reqs, peer, alive, pipe, made, wire,
                 writer, failed, held>>

(* The process id is stored, then the request answered; if that fails the  *)
(* thread ends and leaves both the id and the command behind.              *)
StreamRegister(c) ==
  /\ alive /\ st[c] = "spawned" /\ mutex = 0
  /\ childPid' = c
  /\ IF peer[c]
     THEN st' = [st EXCEPT ![c] = "streaming"] /\ wire' = [wire EXCEPT ![c] = <<"ok">>]
     ELSE st' = [st EXCEPT ![c] = "dropped"] /\ UNCHANGED wire
  /\ UNCHANGED <<mutex, flagged, req, reqs, peer, alive, proc, pipe, made, writer, failed, held>>

CommandWrites(c, s) ==
  /\ alive /\ (proc[c] = "running" \/ held[c]) /\ made[c][s] < MaxChunks
  /\ req[c] = "tty" => s = 1
  /\ made' = [made EXCEPT ![c][s] = @ + 1]
  /\ pipe' = [pipe EXCEPT ![c][s] = @ + 1]
  /\ UNCHANGED <<mutex, childPid, flagged, req, reqs, st, peer, alive, proc, wire,
                 writer, failed, held>>

CommandExits(c) ==
  /\ alive /\ proc[c] = "running" /\ ProcessOver(c)
  /\ UNCHANGED <<mutex, childPid, flagged, req, reqs, st, peer, alive, pipe, made, wire,
                 writer, failed>>

(* The background process ends, or closes what it inherited.               *)
HolderEnds(c) ==
  /\ alive /\ held[c] /\ held' = [held EXCEPT ![c] = FALSE]
  /\ UNCHANGED <<mutex, childPid, flagged, req, reqs, st, peer, alive, proc, pipe, made,
                 wire, writer, failed>>

(* A thread the function left behind would only meet the closed socket.    *)
Forwarding(c, s) == alive /\ st[c] \in {"streaming", "joining"} /\ s \notin failed[c]

(* A forwarding thread reads a chunk and writes header and payload under   *)
(* the lock of the socket; a closed socket ends it with an error.          *)
FrameBegin(c, s) ==
  /\ Forwarding(c, s) /\ req[c] = "stream" /\ pipe[c][s] > 0 /\ writer[c] = 0
  /\ pipe' = [pipe EXCEPT ![c][s] = @ - 1]
  /\ IF peer[c]
     THEN /\ wire' = [wire EXCEPT ![c] = Append(@, <<"head", s>>)]
          /\ writer' = [writer EXCEPT ![c] = s] /\ UNCHANGED failed
     ELSE failed' = [failed EXCEPT ![c] = @ \cup {s}] /\ UNCHANGED <<wire, writer>>
  /\ UNCHANGED <<mutex, childPid, flagged, req, reqs, st, peer, alive, proc, made, held>>

(* Terminal output goes out as it is read.                                 *)
RawOutput(c) ==
  /\ Forwarding(c, 1) /\ req[c] = "tty" /\ pipe[c][1] > 0
  /\ pipe' = [pipe EXCEPT ![c][1] = @ - 1]
  /\ IF peer[c]
     THEN wire' = [wire EXCEPT ![c] = Append(@, <<"raw", 1>>)] /\ UNCHANGED failed
     ELSE failed' = [failed EXCEPT ![c] = @ \cup {1}] /\ UNCHANGED wire
  /\ UNCHANGED <<mutex, childPid, flagged, req, reqs, st, peer, alive, proc, made, writer, held>>

FrameEnd(c) ==
  /\ alive /\ writer[c] # 0
  /\ IF peer[c]
     THEN wire' = [wire EXCEPT ![c] = Append(@, <<"body", writer[c]>>)] /\ UNCHANGED failed
     ELSE failed' = [failed EXCEPT ![c] = @ \cup {writer[c]}] /\ UNCHANGED wire
  /\ writer' = [writer EXCEPT ![c] = 0]
  /\ UNCHANGED <<mutex, childPid, flagged, req, reqs, st, peer, alive, proc, pipe, made, held>>

StreamWait(c) ==
  /\ alive /\ st[c] = "streaming" /\ proc[c] = "zombie"
  /\ st' = [st EXCEPT ![c] = "joining"] /\ proc' = [proc EXCEPT ![c] = "reaped"]
  /\ UNCHANGED <<mutex, childPid, flagged, req, reqs, peer, alive, pipe, made, wire,
                 writer, failed, held>>

(* A pipe ends once nobody has it open for writing and it is drained.      *)
PipeEnds(c, s) ==
  /\ proc[c] = "reaped" /\ ~held[c] /\ pipe[c][s] = 0 /\ writer[c] # s

(* The forwarding threads are joined, that of standard output first; each  *)
(* is over at the end of its pipe or when it failed, and then the error    *)
(* leaves the function before the process id is cleared.                   *)
StreamJoin(c) ==
  /\ alive /\ st[c] = "joining"
  /\ \/ /\ \A s \in Streams : s \notin failed[c] /\ PipeEnds(c, s)
        /\ st' = [st EXCEPT ![c] = "stopping"]
     \/ /\ \E s \in failed[c] : \A t \in Streams : t < s => PipeEnds(c, t)
        /\ st' = [st EXCEPT ![c] = "dropped"]
  /\ UNCHANGED <<mutex, childPid, flagged, req, reqs, peer, alive, streamVars>>

(* The input thread sees the stop flag, end of file, or an error of the    *)
(* socket, which again ends the function early.                            *)
StreamJoinInputBlocks(c) ==
  /\ alive /\ st[c] = "stopping" /\ ~peer[c]
  /\ st' = [st EXCEPT ![c] = "cleaning"]
  /\ UNCHANGED <<mutex, childPid, flagged, req, reqs, peer, alive, streamVars>>

StreamJoinInput(c) ==
  /\ alive /\ st[c] = "stopping"
  /\ \/ st' = [st EXCEPT ![c] = "cleaning"]
     \/ ~peer[c] /\ st' = [st EXCEPT ![c] = "dropped"]
  /\ UNCHANGED <<mutex, childPid, flagged, req, reqs, peer, alive, streamVars>>

StreamCleanupOwn(c) ==
  /\ alive /\ st[c] = "cleaning" /\ mutex = 0
  /\ childPid' = IF childPid # c THEN 0 ELSE childPid
  /\ st' = [st EXCEPT ![c] = "closed"]
  /\ UNCHANGED <<mutex, flagged, req, reqs, peer, alive, streamVars>>

StreamCleanup(c) ==
  /\ alive /\ st[c] = "cleaning" /\ mutex = 0
  /\ childPid' = 0
  /\ st' = [st EXCEPT ![c] = "closed"]
  /\ UNCHANGED <<mutex, flagged, req, reqs, peer, alive, streamVars>>

ThreadStep(c) ==
  \/ ReadEnds(c) \/ AnswerBad(c) \/ Handle(c) \/ ExecBegin(c) \/ WriteAnswer(c)
  \/ StreamSpawn(c) \/ StreamSpawnTty(c) \/ RawOutput(c) \/ StreamRegister(c) \/ FrameEnd(c) \/ StreamWait(c)
  \/ StreamJoin(c) \/ StreamJoinInput(c) \/ StreamCleanup(c)
  \/ \E s \in Streams : FrameBegin(c, s)

AgentNext ==
  \E c \in Conns : \/ Send(c) \/ ClientClose(c) \/ ThreadStep(c) \/ ExecDone(c)
                   \/ CommandExits(c) \/ HolderEnds(c)
                   \/ \E s \in Streams : CommandWrites(c, s)

AgentSpec == AgentInit /\ [][AgentNext]_agentVars

-----------------------------------------------------------------------------
(* What a stream's client receives is the answer and then whole frames:    *)
(* the two forwarding threads never write into each other's frame.         *)
FramesWhole ==
  \A c \in Conns :
    /\ wire[c] # <<>> => wire[c][1] = "ok"
    /\ req[c] = "stream" => \A i \in 2..Len(wire[c]) :
         IF i % 2 = 0 THEN wire[c][i][1] = "head"
         ELSE wire[c][i] = <<"body", wire[c][i - 1][2]>>

Received(c, s) ==
  Cardinality({i \in 2..Len(wire[c]) : wire[c][i] \in {<<"body", s>>, <<"raw", s>>}})

(* A stream that ended cleanly delivered all its command wrote, on both    *)
(* pipes, as long as the client was there.                                 *)
OutputDelivered ==
  \A c \in Conns :
    st[c] \in {"stopping", "cleaning"} /\ peer[c]
      => \A s \in Streams : Received(c, s) = made[c][s]

(* `kill` can only reach a command whose stream has not ended cleanly: no  *)
(* interleaving of streams leaves the id of a finished one behind.         *)
KillTargetOpen == childPid # 0 => st[childPid] # "closed"

(* While a connection stays open and the agent up, every request on it is  *)
(* answered, also behind a plain exec of another connection; commands end. *)
RequestAnswered ==
  \A c \in Conns : req[c] \notin {"none", "stream", "tty"} ~> (req[c] = "none" \/ ~peer[c] \/ ~alive)

(* A streamed command that exits has its connection closed, once no        *)
(* background process it left has its output open: until then the joins    *)
(* wait for the end of a pipe, for ever if need be.                        *)
StreamEnds ==
  \A c \in Conns :
    proc[c] \in {"zombie", "reaped"} /\ ~held[c] ~> (st[c] \in {"closed", "dropped"} \/ ~alive)

(* The agent's threads do not disturb each other: frames on one socket are   *)
(* whole, all output is delivered before a clean end, and kill reaches only  *)
(* an open stream.                                                           *)
AgentSound ==
  FramesWhole /\ OutputDelivered /\ KillTargetOpen
=============================================================================
