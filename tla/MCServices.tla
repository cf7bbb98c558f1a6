----------------------------- MODULE MCServices -----------------------------
(***************************************************************************)
(* Instance for TLC of the services of the daemon and of the terminal that *)
(* watches it: a behaviour exercises the warm pool, the health loop, the   *)
(* lifecycle of one VM, or the terminal's loop, form or event listener.    *)
(***************************************************************************)
EXTENDS WarmPool, WorkerProcess, Terminal

CONSTANT Parts
VARIABLE part

OneEach == [i \in Images |-> 1]

Init ==
  /\ part \in Parts
  /\ PoolInit /\ HealthInit /\ WorkerInit /\ TermInit /\ FormInit /\ FeedInit
  /\ part # "worker" => mode = CHOOSE m \in Modes : TRUE
  /\ part # "terminal" => daemonVms = [v \in TermVms |-> "none"]

serviceVars == <<poolVars, healthVars, workerVars>>
screenVars == <<termVars, formVars, feedVars>>
vars == <<part, serviceVars, screenVars>>

(* A cached snapshot changes how a VM is made, not which, and a VM with    *)
(* volumes never meets the pools: those of one image are enough.           *)
OneCached ==
  /\ snaps \subseteq {VmConfigForImage(i) : i \in Configured}
  /\ \A v \in DOMAIN held : held[v] = VmConfigForImage(held[v][1]) \/ held[v][1] \in Configured

InPool == part = "pool" /\ UNCHANGED <<part, healthVars, workerVars, screenVars>>
InHealth == part = "health" /\ UNCHANGED <<part, poolVars, workerVars, screenVars>>
InWorker == part = "worker" /\ UNCHANGED <<part, poolVars, healthVars, screenVars>>
InTerm == part = "terminal" /\ UNCHANGED <<part, serviceVars, formVars, feedVars>>
InForm == part = "form" /\ UNCHANGED <<part, serviceVars, termVars, feedVars>>
InFeed == part = "feed" /\ UNCHANGED <<part, serviceVars, termVars, formVars>>

Next ==
  \/ InPool /\ PoolNext /\ OneCached'
  \/ InHealth /\ HealthNext
  \/ InWorker /\ WorkerNext
  \/ InTerm /\ TermNext
  \/ InForm /\ FormNext
  \/ InFeed /\ FeedNext

(* The refill and health loops tick for ever; calls in progress go on;     *)
(* timeouts fire; a vCPU notices the kill flag at its next exit; the       *)
(* listener's thread runs, and its connecting succeeds or fails.           *)
Fairness ==
  /\ WF_vars(InPool /\ PoolProgress) /\ WF_vars(InHealth /\ HealthProgress)
  /\ WF_vars(InWorker /\ ParentSteps) /\ WF_vars(InWorker /\ Timeouts)
  /\ WF_vars(InWorker /\ WorkerSteps) /\ WF_vars(InWorker /\ GuestKilled)
  /\ WF_vars(InFeed /\ ListenerStep) /\ WF_vars(InFeed /\ Joined)

(* Where the pool runs, the refill loop brings every configured image to   *)
(* its target for good once clients and drains stop.                       *)
PoolSettles == part = "pool" => RefillSettles

Spec == Init /\ [][Next]_vars /\ Fairness

(* The loops of the services do what they owe: pools fill, hangs are         *)
(* announced, in turn with recoveries, and forgotten with their VM; a stop   *)
(* is answered, a worker without its parent ends, and quitting the terminal  *)
(* ends.                                                                     *)
ServicesSettle ==
  /\ PoolSettles
  /\ HangAnnounced /\ EventsAlternate /\ ForgottenAfterStop
  /\ StopAnswers /\ NoOrphanWorker
  /\ QuitEnds
=============================================================================
