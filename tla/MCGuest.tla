------------------------------- MODULE MCGuest -------------------------------
(***************************************************************************)
(* Instance for TLC of what runs inside the guest and what the host makes  *)
(* of it: a behaviour exercises the console of the first process, the      *)
(* agent, a build, a layer, or the guest's configuration.                  *)
(***************************************************************************)
EXTENDS GuestConsole, GuestAgent, BuildSession, GuestConfig

CONSTANT Parts
VARIABLE part

Kinds == {"none", "dir", "f1", "f2", "link", "dev"}

TreeWith(d, f, e) ==
  [p \in Paths |-> CASE p = <<"d">> -> d [] p = <<"d", "f">> -> f
                     [] p = <<"e">> -> e [] OTHER -> "f1"]
FourTrees == {TreeWith("none", "none", "link"), TreeWith("dir", "f1", "dir"),
              TreeWith("f1", "none", "dev"), TreeWith("dir", "f2", "none")}

Stage(refs, instrs) == [refs |-> refs, instrs |-> instrs]
TwoPrograms ==
  {[target |-> 0, stages |-> <<Stage({}, <<"run", "env", "runm">>)>>],
   [target |-> 3, stages |-> <<Stage({}, <<"copy">>), Stage({}, <<"run">>),
                               Stage({1}, <<"runm">>)>>]}

NestedPaths == {<<"a">>, <<"a", "b">>}

Init ==
  /\ part \in Parts
  /\ ConsoleInit /\ AgentInit
  /\ BuildInit /\ (part # "build" => prog.target = 0)
  /\ TreeInit(IF part = "layer" THEN Kinds ELSE {"none"})
  /\ treeBefore[<<"proc">>] = "none"
  /\ ConfigInit
  /\ part # "config" => vmConf.nets = <<>> /\ vmConf.volumes = <<>> /\ ~vmConf.enabled
       /\ vmConf.on = "linux"
  /\ part # "config" \/ Len(vmConf.volumes) > 2
       => vmConf.nets = <<>> /\ ~vmConf.ports /\ ~vmConf.services

vars == <<part, consoleVars, agentVars, buildVars, treeVars, configVars>>

InConsole == part = "console" /\ UNCHANGED <<part, agentVars, buildVars, treeVars, configVars>>
InAgent == part = "agent" /\ UNCHANGED <<part, consoleVars, buildVars, treeVars, configVars>>
InBuild == part = "build" /\ UNCHANGED <<part, consoleVars, agentVars, treeVars, configVars>>
InLayer == part = "layer" /\ UNCHANGED <<part, consoleVars, agentVars, buildVars, configVars>>
InConfig == part = "config" /\ UNCHANGED <<part, consoleVars, agentVars, buildVars, treeVars>>

(* A command beside the workload shares nothing with the text on the       *)
(* console: it is explored with a workload that is silent; and a line of   *)
(* the listener with one that writes little.                               *)
LittleText == IF exec = "none" THEN wrote + logs <= MaxSaid ELSE wrote + logs = 0

(* Connections are interchangeable.  Every request is made beside a plain  *)
(* exec, a stream and a kill of another connection; two that are both a    *)
(* ping, a shutdown, a line that does not parse or a terminal stream are   *)
(* not explored together.                                                  *)
SecondAsks == req[2] \in {"none", "exec", "stream", "kill"}

(* Only the command of the first connection leaves a background process,   *)
(* where it has pipes, and writes on both of them: sockets and pipes of    *)
(* different connections are separate.                                     *)
OneHolder == ~held[2] /\ (held[1] => req[1] = "stream") /\ made[2][2] = 0

Next ==
  \/ InConsole /\ ConsoleNext /\ LittleText'
  \/ InAgent /\ AgentNext /\ SecondAsks' /\ OneHolder'
  \/ InBuild /\ BuildNext
  \/ InLayer /\ TreeNext(Kinds)
  \/ InConfig /\ ConfigNext

(* The first process and the agent's threads run; commands end; the build  *)
(* service goes on and its timeouts fire.  Nothing is assumed of the guest *)
(* a build talks to.                                                       *)
Fairness ==
  /\ WF_vars(InConsole /\ InitSteps)
  /\ \A c \in Conns : WF_vars(InAgent /\ ThreadStep(c)) /\ WF_vars(InAgent /\ ExecDone(c))
  /\ WF_vars(InBuild /\ ServiceSteps)

(* Where a build runs, it ends, and its VM with it, even if the guest      *)
(* never answers.                                                          *)
BuildsEnd == part = "build" => BuildEnds

Spec == Init /\ [][Next]_vars /\ Fairness

(* Nothing in the guest waits for ever: a workload that exits powers the VM  *)
(* off, requests are answered, streams of ended commands close, and a build  *)
(* ends.                                                                     *)
GuestAnswers ==
  ExitPowersOff /\ RequestAnswered /\ StreamEnds /\ BuildsEnd
=============================================================================
