------------------------------ MODULE MCDocker ------------------------------
(***************************************************************************)
(* Instance for TLC of the Docker API and of the sessions of the daemon's  *)
(* own API.  A behaviour exercises one part: requests on two containers;   *)
(* overlapping requests on one container; one container beside VMs it does not manage; one container under the    *)
(* event stream, a wait or an attach; an exec session; the conversions; a  *)
(* session of the daemon's API with its client.                            *)
(***************************************************************************)
EXTENDS DockerContainers, DockerExec, DockerTranslate, Sessions

CONSTANTS c1, c2, Parts
VARIABLE part

MCAmounts == 0..40
Watched == {"events", "wait", "attach"}
AnOutcome == {<<"stopped", TRUE>>}
NoInfoNeeded == {o \in Outcomes : o[2]}

Init ==
  /\ part \in Parts
  /\ DockerInit(IF part \in Watched \cup {"overlap"} THEN {3} ELSE {})
  /\ nameOf[c1] = "web" /\ (part # "handlers" => nameOf[c2] = "web")
  /\ ExecInit
  /\ part # "exec" => startReq.flags = [tty |-> FALSE, stdin |-> FALSE, upgrade |-> FALSE]
  /\ TranslateInit
  /\ part # "convert" => sample = [kind |-> "bytes", bytes |-> 0]
  /\ SessInit
  /\ part # "session" => route = CHOOSE r \in Routes : TRUE

vars == <<part, dockerVars, execVars, translateVars, sessVars>>

Only(p) == part = p /\ UNCHANGED <<part, execVars, translateVars, sessVars>>
InSession == part = "session" /\ UNCHANGED <<part, dockerVars, execVars, translateVars>>

(* Where each client awaits its answer a container has one request at a    *)
(* time, in a slot of its own; "overlap" has two requests on a container.  *)
OwnSlots == \A s \in Slots : calls[s].c \in {Nobody, IF s = 1 THEN c1 ELSE c2}
Handlers(cs, outcomes) == HandlerNext(cs, {}, outcomes) /\ OwnSlots' /\ UNCHANGED watchVars
TwoRequests(c) ==
  /\ HandlerNext({c}, Archives, AnOutcome) /\ UNCHANGED watchVars
  /\ UNCHANGED dockerFaults \/ (c \in Named /\ lost' # lost)
  /\ \A d \in Containers \ {c} : records[d] = Absent

Next ==
  \/ Only("handlers") /\ Handlers(Containers, AnOutcome)
  \/ Only("overlap") /\ \E c \in Containers : TwoRequests(c)
  \/ Only("unmanaged") /\ (Handlers({c1}, AnOutcome) \/ (UnmanagedNext /\ UNCHANGED watchVars))
  \/ Only("events") /\ (Handlers({c1}, NoInfoNeeded) \/ EventsNext)
  \/ Only("wait") /\ (Handlers({c1}, Outcomes) \/ WaitNext)
  \/ Only("attach") /\ (Handlers({c1}, Outcomes) \/ AttachNext)
  \/ part = "exec" /\ ExecNext /\ UNCHANGED <<part, dockerVars, translateVars, sessVars>>
  \/ part = "convert" /\ TranslateNext /\ UNCHANGED <<part, dockerVars, execVars, sessVars>>
  \/ InSession /\ SessNext

(* The runtime resumes every task whose await is ready, and timers fire;   *)
(* the client of a session reads what comes.                               *)
Fairness ==
  /\ WF_vars(Only("wait") /\ WaitPoll) /\ WF_vars(Only("wait") /\ WaitDeadline)
  /\ WF_vars(Only("attach") /\ AttachPoll) /\ WF_vars(Only("attach") /\ AttachDeadline)
  /\ \A s \in Slots : WF_vars(part \in {"wait", "attach"} /\ CallStep(s)
                              /\ UNCHANGED <<part, watchVars, execVars, translateVars, sessVars>>)
  /\ WF_vars(part = "exec" /\ BridgeStep /\ UNCHANGED <<part, dockerVars, translateVars, sessVars>>)
  /\ WF_vars(InSession /\ ServerStep) /\ WF_vars(InSession /\ ClientReads)

Spec == Init /\ [][Next]_vars /\ Fairness

(* Streams carry what was said: the input and output of an exec, the answers *)
(* of a shell, each to its command, and the bytes of a console, in order.    *)
StreamsExact == StreamExact /\ AnswersMatched /\ LogsInOrder

(* Who waits is answered: a wait and an attach end when their container      *)
(* does, an exec gets its result, a shell its answer, the console of a       *)
(* destroyed VM ends, and a session ends with its client.                    *)
WatchersAnswered ==
  WaitAnswers /\ AttachEnds /\ ExecReported /\ ClientMovesOn /\ HandlerEnds
=============================================================================
