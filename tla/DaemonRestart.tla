--------------------------- MODULE DaemonRestart ---------------------------
(***************************************************************************)
(* The life of the daemon process across restarts (daemon.rs and           *)
(* state/persistence.rs).  What the backend does with one VM is the subject *)
(* of VmBackend; here a VM is Running or Stopped, and the state that        *)
(* matters is what survives the process: the directories of                 *)
(* $VISOR_HOME/state and the TAP interfaces of the host.                    *)
(*                                                                          *)
(* A start removes the orphan TAPs, removes the directories without a       *)
(* vm_meta.json, and lists every VM whose file can be parsed as Stopped.    *)
(* A clean shutdown lets the requests in flight finish, writes the metadata *)
(* of the Running VMs, one after another, and then kills them.  The process *)
(* may be killed at any point, between the two steps of a write included.   *)
(* The refill loop of the warm pool is told to stop, but a refill it has    *)
(* begun goes on creating VMs.                                              *)
(***************************************************************************)
EXTENDS Naturals, FiniteSets

CONSTANTS
    Ids,      \* identifiers of VMs; a UUID is used once
    Names,    \* names of VMs
    Pool,     \* does a refill of the warm pool run in the background?
    MaxRuns,  \* bound: how often the daemon is started
    NoVm, NoName, NoId

Vm == [st: {"Running", "Stopped"}, name: Names]

ASSUME RestartAssumption == /\ MaxRuns \in Nat /\ Pool \in BOOLEAN
                            /\ NoName \notin Names /\ NoId \notin Ids /\ NoVm \notin Vm
                            /\ Names \cap {"none", "empty", "torn"} = {}

VARIABLES
    phase,    \* "down", "starting", "serving", "persist" or "kill"
    vms,      \* VmmBackend.vms: NoVm, or the state and the name of the VM
    taps,     \* the VMs whose TAP interface exists on the host
    disk,     \* the VM's directory: "none", "empty" (no vm_meta.json), "torn"
              \* (a file that does not parse), or the name in a valid file
    todo,     \* the rest of running_ids of the shutdown loop being run
    writing,  \* the VM whose file is open for writing, or NoId
    issued,   \* the identifiers handed out so far
    runs,     \* starts of the daemon
    clean,    \* history: did the last process end by run_daemon returning?
    owed,     \* history: name of each VM the last shutdown had to persist
    gone      \* history: the VMs that were destroyed

vars == <<phase, vms, taps, disk, todo, writing, issued, runs, clean, owed, gone>>
backend == <<vms, taps>>
history == <<clean, owed, gone>>

NoVms == [id \in Ids |-> NoVm]
Listed == {id \in Ids : vms[id] # NoVm}
Running == {id \in Listed : vms[id].st = "Running"}
Valid(id) == disk[id] \in Names

(* The state is what daemon.rs, the backend and the state directory hold.  *)
TypeOK ==
    /\ phase \in {"down", "starting", "serving", "persist", "kill"}
    /\ vms \in [Ids -> Vm \cup {NoVm}] /\ taps \subseteq Ids
    /\ disk \in [Ids -> Names \cup {"none", "empty", "torn"}]
    /\ todo \subseteq Ids /\ writing \in Ids \cup {NoId}
    /\ issued \subseteq Ids /\ runs \in 0..MaxRuns
    /\ clean \in BOOLEAN /\ owed \in [Ids -> Names \cup {NoName}]
    /\ gone \subseteq Ids

Init ==
    /\ phase = "down" /\ vms = NoVms /\ taps = {}
    /\ disk = [id \in Ids |-> "none"]
    /\ todo = {} /\ writing = NoId /\ issued = {} /\ runs = 0
    /\ clean = TRUE /\ owed = [id \in Ids |-> NoName] /\ gone = {}

----------------------------------------------------------------------------
(* Starting. *)

\* run_daemon() begins: no VM lives, every vsr* interface is an orphan.
Boot ==
    /\ phase = "down" /\ runs < MaxRuns
    /\ phase' = "starting" /\ runs' = runs + 1
    /\ taps' = {}
    /\ UNCHANGED <<vms, disk, todo, writing, issued, history>>

\* cleanup_incomplete() removes one directory that has no vm_meta.json.
CleanupIncomplete(id) ==
    /\ phase = "starting" /\ disk[id] = "empty"
    /\ disk' = [disk EXCEPT ![id] = "none"]
    /\ UNCHANGED <<phase, vms, taps, todo, writing, issued, runs, history>>

\* restore_vms() after the cleanup: a file that does not parse is only warned of.
RestoreVms ==
    /\ phase = "starting" /\ \A id \in Ids : disk[id] # "empty"
    /\ vms' = [id \in Ids |-> IF Valid(id) THEN [st |-> "Stopped", name |-> disk[id]]
                                           ELSE NoVm]
    /\ phase' = "serving"
    /\ UNCHANGED <<taps, disk, todo, writing, issued, runs, history>>

----------------------------------------------------------------------------
(* Serving: each API call as it ends, and a guest that powers off. *)

\* create(): choose_unique_vm_name() looks at the listed VMs.
NewVm(id, n) ==
    /\ id \notin issued /\ \A other \in Listed : vms[other].name # n
    /\ issued' = issued \cup {id}
    /\ vms' = [vms EXCEPT ![id] = [st |-> "Running", name |-> n]]
    /\ taps' = taps \cup {id}
    /\ UNCHANGED <<phase, disk, todo, writing, runs, history>>

Create(id, n) == phase = "serving" /\ NewVm(id, n)

\* A refill that had begun when the daemon was told to stop.
RefillCreates(id, n) == Pool /\ phase \in {"persist", "kill"} /\ NewVm(id, n)

Starts(id) ==
    /\ phase = "serving" /\ id \in Listed \ Running
    /\ vms' = [vms EXCEPT ![id].st = "Running"] /\ taps' = taps \cup {id}
    /\ UNCHANGED <<phase, disk, todo, writing, issued, runs, history>>

\* The VM stops and its threads release the TAP.
Halt(id) ==
    /\ vms' = [vms EXCEPT ![id].st = "Stopped"] /\ taps' = taps \ {id}
    /\ UNCHANGED <<phase, disk, writing, issued, runs, history>>

\* stop() and kill() in service; the monitor of a guest that exits, at any time.
Stops(id) ==
    /\ phase \in {"serving", "persist", "kill"} /\ id \in Running
    /\ Halt(id) /\ UNCHANGED todo

\* destroy(): nothing calls remove_vm_state().
Destroy(id) ==
    /\ phase = "serving" /\ id \in Listed
    /\ vms' = [vms EXCEPT ![id] = NoVm] /\ taps' = taps \ {id}
    /\ gone' = gone \cup {id}
    /\ UNCHANGED <<phase, disk, todo, writing, issued, runs, clean, owed>>

----------------------------------------------------------------------------
(* A clean shutdown. *)

Owed == [id \in Ids |-> IF id \in Running THEN vms[id].name ELSE NoName]

\* A mutant: the VMs are killed first, and none is Running when they are saved.
ShutdownKillsFirst ==
    /\ phase = "serving"
    /\ phase' = "persist" /\ todo' = {} /\ owed' = Owed
    /\ vms' = [id \in Ids |-> IF id \in Running THEN [vms[id] EXCEPT !.st = "Stopped"]
                                                ELSE vms[id]]
    /\ taps' = {}
    /\ UNCHANGED <<disk, writing, issued, runs, clean, gone>>

\* serve() has returned; persist_running_vm_state() reads running_vm_ids().
Shutdown ==
    /\ phase = "serving"
    /\ phase' = "persist" /\ todo' = Running /\ owed' = Owed
    /\ UNCHANGED <<backend, disk, writing, issued, runs, clean, gone>>

\* save_vm_meta() begins: create_dir_all() makes the directory.
SaveMakesDir(id) ==
    /\ phase = "persist" /\ writing = NoId /\ id \in todo
    /\ writing' = id
    /\ disk' = [disk EXCEPT ![id] = IF @ = "none" THEN "empty" ELSE @]
    /\ UNCHANGED <<phase, backend, todo, issued, runs, history>>

\* fs::write() truncates the file in place ...
SaveOpens(id) ==
    /\ phase = "persist" /\ writing = id /\ disk[id] # "torn"
    /\ disk' = [disk EXCEPT ![id] = "torn"]
    /\ UNCHANGED <<phase, backend, todo, writing, issued, runs, history>>

\* ... and then writes it.
SaveWrites(id) ==
    /\ phase = "persist" /\ writing = id /\ disk[id] = "torn"
    /\ disk' = [disk EXCEPT ![id] = vms[id].name]
    /\ writing' = NoId /\ todo' = todo \ {id}
    /\ UNCHANGED <<phase, backend, issued, runs, history>>

\* save_vm_meta() fails in any of its steps: a warning, and the next VM.
SaveFails(id) ==
    /\ phase = "persist" /\ writing = id
    /\ writing' = NoId /\ todo' = todo \ {id}
    /\ owed' = [owed EXCEPT ![id] = NoName]
    /\ UNCHANGED <<phase, backend, disk, issued, runs, clean, gone>>

\* shutdown_all_running_vms() reads running_vm_ids() again ...
Persisted ==
    /\ phase = "persist" /\ todo = {}
    /\ phase' = "kill" /\ todo' = Running
    /\ UNCHANGED <<backend, disk, writing, issued, runs, history>>

\* ... and kills them; a VM that has stopped by itself meanwhile is an error, logged.
Kill(id) ==
    /\ phase = "kill" /\ id \in todo
    /\ todo' = todo \ {id}
    /\ IF id \in Running THEN Halt(id)
                         ELSE UNCHANGED <<phase, backend, disk, writing, issued, runs, history>>

ProcessEnds(c) ==
    /\ phase' = "down" /\ vms' = NoVms /\ todo' = {} /\ writing' = NoId
    /\ clean' = c
    /\ UNCHANGED <<taps, disk, issued, runs, owed, gone>>

Exit == phase = "kill" /\ todo = {} /\ ProcessEnds(TRUE)

\* The process is killed: the interfaces and the files stay as they are.
Crash == phase # "down" /\ ProcessEnds(FALSE)

Next ==
    \/ Boot \/ RestoreVms \/ Shutdown \/ Persisted \/ Exit \/ Crash
    \/ \E id \in Ids :
        \/ CleanupIncomplete(id) \/ Starts(id) \/ Stops(id) \/ Destroy(id)
        \/ SaveMakesDir(id) \/ SaveOpens(id) \/ SaveWrites(id) \/ SaveFails(id)
        \/ Kill(id)
        \/ \E n \in Names : Create(id, n) \/ RefillCreates(id, n)

Spec == Init /\ [][Next]_vars

----------------------------------------------------------------------------
(* Every VM that was Running when a clean shutdown began, and whose save   *)
(* did not fail, is listed under its name, Stopped, by the next start      *)
(* ("the next `visor start` restores those persisted VMs").                *)
CleanRestart ==
    RestoreVms /\ clean =>
        \A id \in Ids : owed[id] # NoName =>
            vms'[id] = [st |-> "Stopped", name |-> owed[id]]

(* While the daemon serves, every TAP on the host belongs to a Running VM, *)
(* after crashes of earlier processes too.                                 *)
TapsOwned == phase = "serving" => taps = Running

(* A VM that was destroyed is not listed again, whatever restarts follow.  *)
DestroyedStaysGone == \A id \in gone : vms[id] = NoVm

(* A daemon that serves has removed every incomplete state directory.      *)
IncompleteRemoved == phase = "serving" => \A id \in Ids : disk[id] \notin {"empty", "torn"}

(* After a clean exit no TAP is left on the host.                          *)
TapsReleased == phase = "down" /\ clean => taps = {}

(* After a clean shutdown the next start restores every VM that ran, and     *)
(* while a daemon serves the TAPs on the host are those of its running VMs,  *)
(* whatever crashed before.                                                  *)
RestartSound ==
  [][CleanRestart /\ TapsOwned']_vars
============================================================================
