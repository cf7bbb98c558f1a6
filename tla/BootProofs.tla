----------------------------- MODULE BootProofs ----------------------------
(***************************************************************************)
(* What the backend shows of a VM is true of its present boot, when one    *)
(* client makes the requests and starts a VM only after the monitors of    *)
(* its earlier boots have finished.  The invariant says, for every VM,     *)
(* what the two maps, the monitors and the vCPU threads know of each other *)
(* (VmInv), and for the request at work, how far it has got (TaskInv).     *)
(***************************************************************************)
EXTENDS VmBackendProofs

USE ZenonT(60)

\* The monitor of boot c is at work.
Active(c) == mon[c].pc \notin {"none", "done"}

\* A monitor that is at work is that of the present boot of its VM.
Watches(c) ==
  LET id == owner[c] IN
  Active(c) =>
    /\ Present(id) => vms[id].cid = c
    /\ mon[c].pc = "await" => mon[c].rx = c
    /\ mon[c].pc \in {"mark", "join"} => mon[c].held = c /\ thread[c] = "exited"
    /\ mon[c].pc \in {"mark", "join", "ensure"} => live[id] = NoEntry

\* A vCPU thread that nobody has told to stop can be found (NoOrphan).
Reachable(c) ==
  thread[c] = "running" /\ ~kill[c] /\ ~acked[c] =>
    \/ \E t \in Clients : c \in {task[t].cid, task[t].held}
    \/ Present(owner[c]) /\ live[owner[c]] # NoEntry /\ live[owner[c]].cid = c

\* The two maps agree on a VM (MapsAgree).
Agree(id) ==
  IF Present(id) /\ vms[id].state = "Running"
    THEN LET c == vms[id].cid IN
         \/ live[id] # NoEntry /\ live[id].cid = c
         \/ mon[c].pc = "mark" /\ mon[c].held = c
    ELSE live[id] = NoEntry

\* The present boot of a VM is one of its own, and is the one whose live state
\* and exit code the maps show; its monitors and threads are accounted for.
VmInv(id) ==
  /\ Present(id) => IF vms[id].cid = 0 THEN vms[id].state # "Running" ELSE owner[vms[id].cid] = id
  /\ live[id] # NoEntry => Present(id) /\ vms[id].cid = live[id].cid
  /\ Present(id) => vms[id].exit \in {0, vms[id].cid}
  /\ ~Busy(id) => Agree(id)
  /\ \A c \in Cids : owner[c] = id => Watches(c) /\ Reachable(c)

\* CIDs and ids that have not been given out are not in use.
FreshInv ==
  /\ \A c \in Cids :
       /\ c >= nextCid => owner[c] = None /\ thread[c] = "none" /\ mon[c].pc = "none"
       /\ thread[c] # "none" => owner[c] \in Ids
  /\ \A id \in Ids \ issued : ~Present(id) /\ \A c \in Cids : owner[c] # id

\* A boot at work: no monitor of its VM is, and the live state appears with
\* the last step but one.
BootTask(t) ==
  LET id == task[t].id
      c == task[t].cid
      pc == task[t].pc
  IN  /\ task[t].held = 0 /\ owner[c] = id
      /\ \A d \in Cids : owner[d] = id => ~Active(d)
      /\ pc \notin {"drop", "mark"} => vms[id].cid = c
      /\ pc = "publish" <=> live[id] # NoEntry
      /\ pc \notin {"forward", "live", "publish", "await"} => thread[c] # "running"
      /\ task[t].op = "restore" => vms[id].state # "Running"

\* A stop at work: it holds the live state of the present boot, or none, and
\* from "capture" on that boot has been told to stop.
StopTask(t) ==
  LET id == task[t].id
      c == task[t].held
      pc == task[t].pc
  IN  /\ task[t].cid = 0
      /\ pc = "take" => c = 0
      /\ pc # "take" => live[id] = NoEntry
      /\ pc \in {"shutdown", "wait", "capture", "join"} => c # 0
      /\ c # 0 => c = vms[id].cid
      /\ c # 0 /\ pc \in {"capture", "join", "stopped", "remove"} => thread[c] # "running" \/ kill[c] \/ acked[c]

\* What is known of the request of a client.
TaskInv(t) ==
  /\ task[t].op = "none" => task[t] = Idle
  /\ task[t].op # "none" => task[t].id \in Ids /\ Present(task[t].id)
  /\ Booting(t) => BootTask(t)
  /\ task[t].op \in StopOps => StopTask(t)

\* The inductive invariant.
SeqInv == FreshInv /\ (\A id \in Ids : VmInv(id)) /\ (\A t \in Clients : TaskInv(t))

\* A VM that a step does not touch keeps its invariant.
LEMMA VmFrame ==
  ASSUME TypeInv, SeqInv, NEW id \in Ids,
         vms'[id] = vms[id], live'[id] = live[id], ~Busy(id)' => ~Busy(id),
         \A c \in Cids : owner[c] = id => owner'[c] = id,
         \A c \in Cids : owner'[c] = id =>
           /\ owner[c] = id /\ thread'[c] = thread[c] /\ mon'[c] = mon[c]
           /\ kill[c] => kill'[c]
           /\ acked[c] => acked'[c]
           /\ (\E t \in Clients : c \in {task[t].cid, task[t].held}) => (\E t \in Clients : c \in {task'[t].cid, task'[t].held})
  PROVE  VmInv(id)'
<1>1. VmInv(id) /\ (Present(id)' <=> Present(id))
  BY DEF SeqInv, Present
<1>2. vms[id].cid \in Cids \cup {0} \/ ~Present(id)
  BY DEF TypeInv, TypeOK, Present, VmInfo
<1>3. \A c \in Cids : owner'[c] = id => (Watches(c) /\ Reachable(c))'
  BY <1>1, SMTT(60) DEF VmInv, Watches, Reachable, Active, Present
<1>4. ~Busy(id)' => Agree(id)'
  BY <1>1, <1>2, SMTT(60) DEF VmInv, Agree, Present
<1> QED
  BY <1>1, <1>2, <1>3, <1>4 DEF VmInv, Present

\* A step of a request that has arrived gives out nothing, and takes back no
\* order to stop.
Same ==
  /\ UNCHANGED <<nextCid, owner, issued>>
  /\ \A c \in Cids : (kill[c] => kill'[c]) /\ (acked[c] => acked'[c])

\* A step of the only client, at work on one VM.
LEMMA StepFrame ==
  ASSUME TypeInv, SeqInv, NEW t \in Clients, \A u \in Clients : u = t, task[t].op # "none",
         NEW id \in Ids, id = task[t].id,
         \A i \in Ids \ {task[t].id} : vms'[i] = vms[i] /\ live'[i] = live[i],
         \A c \in Cids \ {task[t].cid, task[t].held} : thread'[c] = thread[c] /\ mon'[c] = mon[c],
         Same, Booting(t) \/ task[t].op \in StopOps, task'[t].id \in {task[t].id, None},
         VmInv(id)', TaskInv(t)'
  PROVE  SeqInv'
<1>1. id \in Ids /\ Present(id) /\ TaskInv(t) /\ VmInv(id)
  BY DEF SeqInv, TaskInv
<1>2. \A c \in Cids : c \in {task[t].cid, task[t].held} => owner[c] = id
  <2>1. CASE Booting(t)
    BY <1>1, <2>1, BackendAssumption, SMTT(60) DEF TaskInv, BootTask, Cids, FirstGuestCid
  <2>2. CASE task[t].op \in StopOps
    BY <1>1, <2>2, BackendAssumption, SMTT(60) DEF TaskInv, StopTask, VmInv, Cids, FirstGuestCid
  <2> QED BY <2>1, <2>2
<1>3. FreshInv'
  <2>1. \A c \in Cids : owner[c] = None => c \notin {task[t].cid, task[t].held}
    BY <1>1, <1>2, BackendAssumption
  <2>2. nextCid' = nextCid /\ owner' = owner /\ issued' = issued
    BY DEF Same
  <2>3. \A i \in Ids \ issued : ~Present(i)' /\ \A c \in Cids : owner'[c] # i
    BY <1>1, <2>2 DEF SeqInv, FreshInv, Present
  <2> QED
    BY <1>1, <1>2, <2>1, <2>2, <2>3 DEF SeqInv, FreshInv
<1>4. ASSUME NEW i \in Ids \ {id} PROVE VmInv(i)'
  <2>1. \A c \in Cids : owner[c] = i => c \notin {task[t].cid, task[t].held}
    BY <1>2
  <2>2. ~Busy(i)
    BY DEF Busy
  <2>3. owner' = owner /\ \A c \in Cids : (kill[c] => kill'[c]) /\ (acked[c] => acked'[c])
    BY DEF Same
  <2>4. vms'[i] = vms[i] /\ live'[i] = live[i] /\ i \in Ids
    OBVIOUS
  <2>5. \A c \in Cids : owner[c] = i => thread'[c] = thread[c] /\ mon'[c] = mon[c]
    BY <2>1
  <2>6. \A c \in Cids : owner[c] = i => ~(\E u \in Clients : c \in {task[u].cid, task[u].held})
    BY <2>1
  <2> QED
    BY ONLY TypeInv, SeqInv, <2>2, <2>3, <2>4, <2>5, <2>6, VmFrame
<1> QED
  BY <1>3, <1>4 DEF SeqInv

-----------------------------------------------------------------------------
(* Steps of a boot and of a stop, by what they show and where they go on.  *)

\* The step leaves the entry of id with this state, CID and exit code, and the
\* other entries alone.
Shows(id, s, cid, exit) ==
  /\ \A i \in Ids \ {id} : vms'[i] = vms[i]
  /\ vms'[id] # NoEntry /\ vms'[id].state = s /\ vms'[id].cid = cid /\ vms'[id].exit = exit

\* Each way in which the code writes an entry, as what it then shows.
LEMMA ShowsFacts ==
  ASSUME TypeOK, NEW id \in Ids, Present(id), NEW s \in VmStates, NEW c \in Cids \cup {0}, NEW n \in Names
  PROVE  /\ vms' = vms => Shows(id, vms[id].state, vms[id].cid, vms[id].exit)
         /\ vms' = WithState(id, s) => Shows(id, s, vms[id].cid, vms[id].exit)
         /\ vms' = WithExit(id, s, c) => Shows(id, s, vms[id].cid, c)
         /\ vms' = [vms EXCEPT ![id].exit = c] => Shows(id, vms[id].state, vms[id].cid, c)
         /\ vms' = [vms EXCEPT ![id].state = s] => Shows(id, s, vms[id].cid, vms[id].exit)
         /\ vms' = [vms EXCEPT ![id].state = s, ![id].cid = c] => Shows(id, s, c, vms[id].exit)
         /\ vms' = [vms EXCEPT ![id] = [state |-> s, name |-> n, cid |-> c, exit |-> 0]]
              => Shows(id, s, c, 0)
<1>1. /\ vms \in [Ids -> VmInfo \cup {NoEntry}] /\ vms[id] \in VmInfo /\ vms[id] # NoEntry
      /\ NoEntry \notin VmInfo
  BY InfoAssumption DEF TypeOK, Present
<1>2. ASSUME vms' \in [Ids -> VmInfo \cup {NoEntry}], vms'[id] # NoEntry, NEW r \in VmInfo, vms' = [vms EXCEPT ![id] = r]
      PROVE  vms'[id] = r /\ \A i \in Ids \ {id} : vms'[i] = vms[i]
  BY <1>1, <1>2
<1>3. ASSUME vms' = [vms EXCEPT ![id].state = s] PROVE Shows(id, s, vms[id].cid, vms[id].exit)
  <2> DEFINE r == [vms[id] EXCEPT !.state = s]
  <2>1. r \in VmInfo /\ r.state = s /\ r.cid = vms[id].cid /\ r.exit = vms[id].exit
    BY <1>1 DEF VmInfo
  <2>2. vms' = [vms EXCEPT ![id] = r]
    BY <1>3
  <2> HIDE DEF r
  <2> QED BY <1>1, <2>1, <2>2 DEF Shows
<1>4. ASSUME vms' = [vms EXCEPT ![id].state = s, ![id].exit = c] PROVE Shows(id, s, vms[id].cid, c)
  <2> DEFINE r == [vms[id] EXCEPT !.state = s, !.exit = c]
  <2>1. r \in VmInfo /\ r.state = s /\ r.cid = vms[id].cid /\ r.exit = c
    BY <1>1 DEF VmInfo
  <2>2. vms' = [vms EXCEPT ![id] = r]
    BY <1>1, <1>4
  <2> HIDE DEF r
  <2> QED BY <1>1, <2>1, <2>2 DEF Shows
<1>5. ASSUME vms' = [vms EXCEPT ![id].exit = c] PROVE Shows(id, vms[id].state, vms[id].cid, c)
  <2> DEFINE r == [vms[id] EXCEPT !.exit = c]
  <2>1. r \in VmInfo /\ r.state = vms[id].state /\ r.cid = vms[id].cid /\ r.exit = c
    BY <1>1 DEF VmInfo
  <2>2. vms' = [vms EXCEPT ![id] = r]
    BY <1>5
  <2> HIDE DEF r
  <2> QED BY <1>1, <2>1, <2>2 DEF Shows
<1>7. ASSUME vms' = [vms EXCEPT ![id].state = s, ![id].cid = c] PROVE Shows(id, s, c, vms[id].exit)
  <2> DEFINE r == [vms[id] EXCEPT !.state = s, !.cid = c]
  <2>1. r \in VmInfo /\ r.state = s /\ r.cid = c /\ r.exit = vms[id].exit
    BY <1>1 DEF VmInfo
  <2>2. vms' = [vms EXCEPT ![id] = r]
    BY <1>1, <1>7
  <2> HIDE DEF r
  <2> QED BY <1>1, <2>1, <2>2 DEF Shows
<1>8. ASSUME vms' = [vms EXCEPT ![id] = [state |-> s, name |-> n, cid |-> c, exit |-> 0]] PROVE Shows(id, s, c, 0)
  <2> DEFINE r == [state |-> s, name |-> n, cid |-> c, exit |-> 0]
  <2>1. r \in VmInfo /\ r.state = s /\ r.cid = c /\ r.exit = 0
    BY DEF VmInfo
  <2>2. vms' = [vms EXCEPT ![id] = r]
    BY <1>8
  <2> HIDE DEF r
  <2> QED BY <1>1, <2>1, <2>2 DEF Shows
<1>9. /\ WithState(id, s) = [vms EXCEPT ![id].state = s]
      /\ WithExit(id, s, c) = [vms EXCEPT ![id].state = s, ![id].exit = c]
  BY DEF WithState, WithExit
<1>10. vms' = vms => Shows(id, vms[id].state, vms[id].cid, vms[id].exit)
  BY <1>1 DEF Shows
<1> QED
  BY <1>3, <1>4, <1>5, <1>7, <1>8, <1>9, <1>10

\* A thread that runs and has not been told to stop.
Loose(c) == thread[c] = "running" /\ ~kill[c] /\ ~acked[c]

\* While a VM boots, the thread of no other boot of it is loose.
LEMMA BootAlone ==
  ASSUME TypeInv, SeqInv, NEW t \in Clients, \A u \in Clients : u = t, Booting(t),
         NEW id \in Ids, id = task[t].id, NEW c \in Cids, c = task[t].cid
  PROVE  /\ BootTask(t) /\ Present(id) /\ VmInv(id)
         /\ \A d \in Cids : owner[d] = id => ~Active(d)
         /\ \A d \in Cids \ {c} : owner[d] = id => ~Loose(d)
<1>1. BootTask(t) /\ Present(id) /\ VmInv(id)
  BY DEF SeqInv, TaskInv, Booting, BootOps
<1>2. \A d \in Cids : owner[d] = id => ~Active(d)
  BY <1>1 DEF BootTask
<1>3. ASSUME NEW d \in Cids \ {c}, owner[d] = id PROVE ~Loose(d)
  <2>1. d # 0
    BY BackendAssumption, SMTT(60) DEF Cids, FirstGuestCid
  <2>2. Reachable(d)
    BY <1>1, <1>3 DEF VmInv
  <2>3. ~ \E u \in Clients : d \in {task[u].cid, task[u].held}
    BY <1>1, <2>1 DEF BootTask
  <2>4. live[id] # NoEntry => live[id].cid = c
    BY <1>1 DEF BootTask, VmInv
  <2> QED
    BY <1>3, <2>2, <2>3, <2>4 DEF Reachable, Loose
<1> QED
  BY <1>1, <1>2, <1>3

\* What a step of a boot changes outside its own VM and its own task.
BootFrame(id, c) ==
  /\ \A i \in Ids \ {id} : live'[i] = live[i]
  /\ \A d \in Cids \ {c} : thread'[d] = thread[d] /\ mon'[d] = mon[d]
  /\ Same

\* What a boot shows of its VM when it goes on to pc.
BootNext(op, id, c, pc, s, k, x) ==
  /\ IF k = 0 THEN s # "Running" ELSE owner[k] = id
  /\ x \in {0, k}
  /\ pc \notin {"drop", "mark"} => k = c
  /\ pc = "publish" <=> live'[id] # NoEntry
  /\ live'[id] # NoEntry => live'[id].cid = k
  /\ pc \notin {"forward", "live", "publish", "await"} => thread'[c] # "running"
  /\ op = "restore" => s # "Running"

\* A boot that goes on.
LEMMA BootMoves ==
  ASSUME TypeInv, SeqInv, NEW t \in Clients, \A u \in Clients : u = t, Booting(t),
         NEW id \in Ids, id = task[t].id, NEW c \in Cids, c = task[t].cid,
         BootFrame(id, c), mon'[c] = mon[c],
         NEW pc, NEW s, NEW k \in Cids \cup {0}, NEW x, Shows(id, s, k, x),
         task'[t].pc = pc, task'[t].op = task[t].op, task'[t].id = id,
         task'[t].cid = c, task'[t].held = task[t].held,
         BootNext(task[t].op, id, c, pc, s, k, x)
  PROVE  SeqInv'
<1>1. /\ BootTask(t) /\ Present(id) /\ VmInv(id)
      /\ \A d \in Cids : owner[d] = id => ~Active(d)
      /\ \A d \in Cids \ {c} : owner[d] = id => ~Loose(d)
  BY BootAlone
<1>2. owner' = owner /\ \A d \in Cids : (kill[d] => kill'[d]) /\ (acked[d] => acked'[d])
  BY DEF BootFrame, Same
<1>3. \A d \in Cids : mon'[d] = mon[d]
  BY DEF BootFrame
<1>4. Busy(id)'
  BY DEF Busy
<1>5. Present(id)' /\ vms'[id].state = s /\ vms'[id].cid = k /\ vms'[id].exit = x
  BY DEF Shows, Present
<1>6. ASSUME NEW d \in Cids, owner[d] = id PROVE (Watches(d) /\ Reachable(d))'
  <2>1. ~Active(d)'
    BY <1>1, <1>3, <1>6 DEF Active
  <2>2. CASE d = c
    BY <2>1, <2>2 DEF Watches, Reachable
  <2>3. CASE d # c
    <3>1. ~Loose(d)'
      BY <1>1, <1>2, <1>6, <2>3 DEF BootFrame, Loose
    <3> QED
      BY <2>1, <3>1 DEF Watches, Reachable, Loose
  <2> QED
    BY <2>2, <2>3
<1>7. VmInv(id)'
  BY <1>2, <1>4, <1>5, <1>6 DEF VmInv, BootNext
<1>8. TaskInv(t)'
  <2>1. task[t].op # "none" /\ task[t].op \notin StopOps /\ Booting(t)'
    BY DEF Booting, BootOps, StopOps
  <2>2. \A d \in Cids : owner'[d] = id => ~Active(d)'
    BY <1>1, <1>2, <1>3 DEF Active
  <2>3. BootTask(t)'
    BY <1>1, <1>2, <1>5, <2>2 DEF BootTask, BootNext
  <2> QED
    BY <1>5, <2>1, <2>3 DEF TaskInv
<1>9. task[t].held = 0 /\ task[t].op # "none" /\ 0 \notin Cids
  BY <1>1, BackendAssumption, SMTT(60) DEF BootTask, Booting, BootOps, Cids, FirstGuestCid
<1>10. \A i \in Ids \ {task[t].id} : vms'[i] = vms[i] /\ live'[i] = live[i]
  BY DEF Shows, BootFrame
<1>11. \A d \in Cids \ {task[t].cid, task[t].held} : thread'[d] = thread[d] /\ mon'[d] = mon[d]
  BY DEF BootFrame
<1>12. Same /\ task'[t].id \in {task[t].id, None}
  BY DEF BootFrame
<1> QED
  BY ONLY TypeInv, SeqInv, \A u \in Clients : u = t, Booting(t), id = task[t].id,
     <1>7, <1>8, <1>9, <1>10, <1>11, <1>12, StepFrame, ZenonT(60)

\* A boot that is over, with a monitor or a thread that has ended.
LEMMA BootEnds ==
  ASSUME TypeInv, SeqInv, NEW t \in Clients, \A u \in Clients : u = t, Booting(t),
         NEW id \in Ids, id = task[t].id, NEW c \in Cids, c = task[t].cid,
         BootFrame(id, c), task'[t] = Idle,
         NEW s, NEW x \in {0, c}, Shows(id, s, c, x),
         live'[id] = NoEntry <=> s # "Running",
         live'[id] # NoEntry => live'[id].cid = c,
         Loose(c)' => live'[id] # NoEntry,
         mon'[c].pc \in {"none", "done", "take"}
  PROVE  SeqInv'
<1>1. /\ BootTask(t) /\ Present(id) /\ VmInv(id)
      /\ \A d \in Cids : owner[d] = id => ~Active(d)
      /\ \A d \in Cids \ {c} : owner[d] = id => ~Loose(d)
  BY BootAlone
<1>2. owner' = owner /\ \A d \in Cids : (kill[d] => kill'[d]) /\ (acked[d] => acked'[d])
  BY DEF BootFrame, Same
<1>4. c # 0 /\ owner[c] = id
  BY <1>1, BackendAssumption, SMTT(60) DEF BootTask, Cids, FirstGuestCid
<1>5. Present(id)' /\ vms'[id].state = s /\ vms'[id].cid = c /\ vms'[id].exit = x
  BY DEF Shows, Present
<1>6. ASSUME NEW d \in Cids, owner[d] = id PROVE (Watches(d) /\ Reachable(d))'
  <2>2. CASE d = c
    <3>1. Watches(c)'
      BY <1>2, <1>4, <1>5 DEF Watches, Active
    <3>2. Reachable(c)'
      BY <1>2, <1>4, <1>5 DEF Reachable, Loose
    <3> QED
      BY <2>2, <3>1, <3>2
  <2>3. CASE d # c
    <3>1. ~Loose(d)'
      BY <1>1, <1>2, <1>6, <2>3 DEF BootFrame, Loose
    <3>2. ~Active(d)'
      BY <1>1, <1>6, <2>3 DEF Active, BootFrame
    <3> QED
      BY <3>1, <3>2 DEF Watches, Reachable, Loose
  <2> QED
    BY <2>2, <2>3
<1>7. VmInv(id)'
  BY <1>2, <1>4, <1>5, <1>6 DEF VmInv, Agree
<1>8. TaskInv(t)'
  BY IdleFacts DEF TaskInv, Booting, BootOps, StopOps
<1>9. task[t].held = 0 /\ task[t].op # "none" /\ 0 \notin Cids
  BY <1>1, BackendAssumption, SMTT(60) DEF BootTask, Booting, BootOps, Cids, FirstGuestCid
<1>10. \A i \in Ids \ {task[t].id} : vms'[i] = vms[i] /\ live'[i] = live[i]
  BY DEF Shows, BootFrame
<1>11. \A d \in Cids \ {task[t].cid, task[t].held} : thread'[d] = thread[d] /\ mon'[d] = mon[d]
  BY DEF BootFrame
<1>12. Same /\ task'[t].id \in {task[t].id, None}
  BY IdleFacts DEF BootFrame
<1> QED
  BY ONLY TypeInv, SeqInv, \A u \in Clients : u = t, Booting(t), id = task[t].id,
     <1>7, <1>8, <1>9, <1>10, <1>11, <1>12, StepFrame, ZenonT(60)

\* What a step of a stop changes outside its own VM and its own task.
StopFrame(id) ==
  /\ \A i \in Ids \ {id} : live'[i] = live[i]
  /\ thread' = thread /\ mon' = mon
  /\ Same

\* The live state a stop holds when it goes on to pc.
StopNext(id, held, h, pc) ==
  /\ IF live[id] = NoEntry THEN h = held ELSE h = live[id].cid
  /\ pc # "take"
  /\ pc \in {"shutdown", "wait", "capture", "join"} => h # 0
  /\ h # 0 /\ pc \in {"capture", "join", "stopped", "remove"} => ~Loose(h)'

\* A stop, kill or destroy that goes on.
LEMMA StopMoves ==
  ASSUME TypeInv, SeqInv, NEW t \in Clients, \A u \in Clients : u = t, task[t].op \in StopOps,
         NEW id \in Ids, id = task[t].id, NEW h \in Cids \cup {0},
         StopFrame(id), live'[id] = NoEntry,
         NEW pc, NEW s, NEW x \in {0, vms[id].cid}, Shows(id, s, vms[id].cid, x),
         s \in {vms[id].state, "Stopped"},
         task'[t].pc = pc, task'[t].op = task[t].op, task'[t].id = id,
         task'[t].cid = task[t].cid, task'[t].held = h,
         StopNext(id, task[t].held, h, pc)
  PROVE  SeqInv'
<1>1. StopTask(t) /\ Present(id) /\ VmInv(id) /\ 0 \notin Cids
  BY BackendAssumption, SMTT(60) DEF SeqInv, TaskInv, StopOps, Cids, FirstGuestCid
<1>2. owner' = owner /\ \A d \in Cids : (kill[d] => kill'[d]) /\ (acked[d] => acked'[d])
  BY DEF StopFrame, Same
<1>3. thread' = thread /\ mon' = mon
  BY DEF StopFrame
<1>4. Busy(id)'
  BY DEF Busy
<1>5. Present(id)' /\ vms'[id].state = s /\ vms'[id].cid = vms[id].cid /\ vms'[id].exit = x
  BY DEF Shows, Present
<1>6. ASSUME NEW d \in Cids, owner[d] = id PROVE (Watches(d) /\ Reachable(d))'
  <2>1. Watches(d) /\ Reachable(d)
    BY <1>1, <1>6 DEF VmInv
  <2>2. Watches(d)'
    BY <2>1, <1>1, <1>2, <1>3, <1>5, <1>6 DEF Watches, Active
  <2>3. Loose(d)' => Loose(d)
    BY <1>2, <1>3 DEF Loose
  <2>4. Loose(d) => d \in {task[t].cid, task[t].held} \/ (live[id] # NoEntry /\ live[id].cid = d)
    BY <2>1, <1>6 DEF Reachable, Loose
  <2>5. d \in {task[t].cid, task[t].held} => live[id] = NoEntry /\ d = task[t].held
    BY <1>1 DEF StopTask
  <2>6. Loose(d)' => d = h
    BY <2>3, <2>4, <2>5 DEF StopNext
  <2>7. Reachable(d)'
    BY <2>6 DEF Reachable, Loose
  <2> QED
    BY <2>2, <2>7
<1>7. VmInv(id)'
  BY <1>1, <1>2, <1>4, <1>5, <1>6 DEF VmInv
<1>8. TaskInv(t)'
  <2>1. task[t].op # "none" /\ ~Booting(t)'
    BY DEF Booting, BootOps, StopOps
  <2>2. h # 0 => h = vms[id].cid
    BY <1>1 DEF StopTask, VmInv, StopNext
  <2>3. StopTask(t)'
    BY <1>1, <1>2, <1>5, <2>2 DEF StopTask, Loose, StopNext
  <2> QED
    BY <1>5, <2>1, <2>3 DEF TaskInv
<1>9. task[t].op # "none"
  BY DEF StopOps
<1>10. \A i \in Ids \ {task[t].id} : vms'[i] = vms[i] /\ live'[i] = live[i]
  BY DEF Shows, StopFrame
<1>11. \A d \in Cids \ {task[t].cid, task[t].held} : thread'[d] = thread[d] /\ mon'[d] = mon[d]
  BY <1>3
<1>12. Same /\ task'[t].id \in {task[t].id, None}
  BY DEF StopFrame
<1> QED
  BY ONLY TypeInv, SeqInv, \A u \in Clients : u = t, task[t].op \in StopOps, id = task[t].id,
     <1>7, <1>8, <1>9, <1>10, <1>11, <1>12, StepFrame, ZenonT(60)

\* A stop, kill or destroy that is over.
LEMMA StopEnds ==
  ASSUME TypeInv, SeqInv, NEW t \in Clients, \A u \in Clients : u = t, task[t].op \in StopOps,
         NEW id \in Ids, id = task[t].id, StopFrame(id), live'[id] = NoEntry,
         task'[t] = Idle, task[t].pc \in {"stopped", "remove"},
         \A i \in Ids \ {id} : vms'[i] = vms[i],
         vms'[id] = NoEntry \/ Shows(id, "Stopped", vms[id].cid, vms[id].exit)
  PROVE  SeqInv'
<1>1. StopTask(t) /\ Present(id) /\ VmInv(id) /\ 0 \notin Cids /\ live[id] = NoEntry
  BY BackendAssumption, SMTT(60) DEF SeqInv, TaskInv, StopOps, Cids, FirstGuestCid, StopTask
<1>2. owner' = owner /\ \A d \in Cids : (kill[d] => kill'[d]) /\ (acked[d] => acked'[d])
  BY DEF StopFrame, Same
<1>3. thread' = thread /\ mon' = mon
  BY DEF StopFrame
<1>5. Present(id)' => /\ vms'[id].state = "Stopped" /\ vms'[id].cid = vms[id].cid
                      /\ vms'[id].exit = vms[id].exit
  BY DEF Shows, Present
<1>6. ASSUME NEW d \in Cids, owner[d] = id PROVE (Watches(d) /\ Reachable(d))'
  <2>1. Watches(d) /\ Reachable(d)
    BY <1>1, <1>6 DEF VmInv
  <2>2. Watches(d)'
    BY <2>1, <1>1, <1>2, <1>3, <1>5, <1>6 DEF Watches, Active
  <2>3. Loose(d)' => Loose(d)
    BY <1>2, <1>3 DEF Loose
  <2>4. Loose(d) => d = task[t].held
    BY <2>1, <1>1, <1>6 DEF Reachable, Loose, StopTask
  <2>5. d = task[t].held => ~Loose(d)
    BY <1>1 DEF StopTask, Loose
  <2>6. ~Loose(d)'
    BY <2>3, <2>4, <2>5
  <2> QED
    BY <2>2, <2>6 DEF Reachable, Loose
<1>7. VmInv(id)'
  BY <1>1, <1>2, <1>5, <1>6 DEF VmInv, Agree
<1>8. TaskInv(t)'
  BY IdleFacts DEF TaskInv, Booting, BootOps, StopOps
<1>9. task[t].op # "none"
  BY DEF StopOps
<1>10. \A i \in Ids \ {task[t].id} : vms'[i] = vms[i] /\ live'[i] = live[i]
  BY DEF StopFrame
<1>11. \A d \in Cids \ {task[t].cid, task[t].held} : thread'[d] = thread[d] /\ mon'[d] = mon[d]
  BY <1>3
<1>12. Same /\ task'[t].id \in {task[t].id, None}
  BY IdleFacts DEF StopFrame
<1> QED
  BY ONLY TypeInv, SeqInv, \A u \in Clients : u = t, task[t].op \in StopOps, id = task[t].id,
     <1>7, <1>8, <1>9, <1>10, <1>11, <1>12, StepFrame, ZenonT(60)

-----------------------------------------------------------------------------
(* The actions.                                                            *)

\* The steps of a boot.
LEMMA BootStep ==
  ASSUME TypeInv, SeqInv, NEW t \in Clients, \A u \in Clients : u = t, Booting(t), Step(t)
  PROVE  SeqInv'
<1>0. PICK id \in Ids, c \in Cids : id = task[t].id /\ c = task[t].cid
  BY DEF TypeInv, TaskOK, Booting, BootOps
<1>1. /\ BootTask(t) /\ Present(id) /\ VmInv(id)
      /\ \A d \in Cids : owner[d] = id => ~Active(d)
  BY <1>0, BootAlone
<1>2. c # 0 /\ owner[c] = id /\ task[t].op \notin StopOps
  BY <1>0, <1>1, BackendAssumption, SMTT(60) DEF BootTask, Cids, FirstGuestCid, Booting, BootOps,
     StopOps
<1>3. /\ vms[id].state \in VmStates /\ vms[id].cid \in Cids \cup {0}
      /\ IF vms[id].cid = 0 THEN vms[id].state # "Running" ELSE owner[vms[id].cid] = id
      /\ vms[id].exit \in {0, vms[id].cid}
  BY <1>1 DEF VmInv, TypeInv, TypeOK, Present, VmInfo
<1>4. /\ task[t].pc \notin {"drop", "mark"} => vms[id].cid = c
      /\ task[t].pc = "publish" <=> live[id] # NoEntry
      /\ live[id] # NoEntry => live[id].cid = vms[id].cid
      /\ task[t].pc \notin {"forward", "live", "publish", "await"} => thread[c] # "running"
      /\ task[t].op = "restore" => vms[id].state # "Running"
  BY <1>0, <1>1 DEF BootTask, VmInv
<1>s. ASSUME NEW s \in VmStates
      PROVE  /\ vms' = vms => Shows(id, vms[id].state, vms[id].cid, vms[id].exit)
             /\ vms' = WithState(id, s) => Shows(id, s, vms[id].cid, vms[id].exit)
             /\ vms' = WithExit(id, s, c) => Shows(id, s, vms[id].cid, c)
             /\ vms' = [vms EXCEPT ![id].state = s] => Shows(id, s, vms[id].cid, vms[id].exit)
             /\ vms' = [vms EXCEPT ![id].state = s, ![id].cid = c] => Shows(id, s, c, vms[id].exit)
  <2>1. TypeOK /\ \E n \in Names : TRUE
    BY <1>1 DEF TypeInv, TypeOK, Present, VmInfo
  <2> QED BY <1>1, <2>1, ShowsFacts
<1>g. ASSUME NEW pc \in Pcs, Goto(t, pc)
      PROVE  /\ task'[t].pc = pc /\ task'[t].op = task[t].op /\ task'[t].id = id
             /\ task'[t].cid = c /\ task'[t].held = task[t].held
  BY <1>0, <1>g, GotoFacts DEF TypeInv, TypeOK
<1>r. ASSUME Return(t) PROVE task'[t] = Idle
  BY <1>r, ReturnFacts DEF TypeInv, TypeOK
<1>m. ASSUME NEW pc \in Pcs \ {"drop", "mark", "publish"}, Goto(t, pc), vms' = vms, BootFrame(id, c), mon' = mon,
             live' = live, task[t].pc \notin {"drop", "mark", "publish"},
             pc \notin {"forward", "live", "await"} => thread'[c] # "running"
      PROVE  SeqInv'
  <2>1. Shows(id, vms[id].state, vms[id].cid, vms[id].exit)
    BY <1>m, <1>s DEF VmStates
  <2>2. /\ task'[t].pc = pc /\ task'[t].op = task[t].op /\ task'[t].id = id
        /\ task'[t].cid = c /\ task'[t].held = task[t].held
    BY <1>m, <1>g
  <2>3. live'[id] = NoEntry /\ vms[id].cid = c /\ mon'[c] = mon[c]
    BY <1>m, <1>4
  <2>4. BootNext(task[t].op, id, c, pc, vms[id].state, vms[id].cid, vms[id].exit)
    BY <1>2, <1>3, <1>4, <1>m, <2>3 DEF BootNext
  <2> QED
    BY <1>0, <1>3, <1>m, <2>1, <2>2, <2>3, <2>4, BootMoves
<1>e. ASSUME Return(t), BootFrame(id, c), mon' = mon, live' = live, task[t].pc \notin {"drop", "mark", "publish"},
             NEW s \in VmStates \ {"Running"}, NEW x \in {0, c}, Shows(id, s, c, x),
             thread'[c] # "running"
      PROVE  SeqInv'
  <2>1. mon[c].pc \in {"none", "done"}
    BY <1>1, <1>2 DEF Active
  <2>2. ~Loose(c)' /\ live'[id] = NoEntry /\ mon'[c].pc \in {"none", "done", "take"}
    BY <1>4, <1>e, <2>1 DEF Loose
  <2>3. /\ live'[id] = NoEntry <=> s # "Running"
        /\ live'[id] # NoEntry => live'[id].cid = c
        /\ Loose(c)' => live'[id] # NoEntry
        /\ task'[t] = Idle
    BY <1>e, <1>r, <2>2
  <2> QED
    BY ONLY TypeInv, SeqInv, t \in Clients, \A u \in Clients : u = t, Booting(t), <1>0, <2>2, <2>3,
            BootFrame(id, c), Shows(id, s, c, x), x \in {0, c}, BootEnds, ZenonT(60)
<1>f. ASSUME UNCHANGED <<live, owner, nextCid, mon, issued, acked>>,
             kill' = kill \/ kill' = [kill EXCEPT ![c] = TRUE],
             thread' = thread \/ \E v \in {"running", "exited"} : thread' = [thread EXCEPT ![c] = v]
      PROVE  BootFrame(id, c)
  BY <1>f DEF BootFrame, Same, TypeInv, TypeOK
<1> USE DEF At
<1>5. CASE StoreConfig(t)
  <2>1. /\ BootFrame(id, c) /\ vms' = vms /\ live' = live /\ mon' = mon /\ thread' = thread
        /\ task[t].pc = "config"
    BY <1>5, <1>f DEF StoreConfig, bootVars
  <2> QED BY <1>5, <1>4, <2>1, <1>m DEF StoreConfig, Pcs
<1>6. CASE BuildRootfs(t)
  <2>1. /\ BootFrame(id, c) /\ vms' = vms /\ live' = live /\ mon' = mon /\ thread' = thread
        /\ task[t].pc = "build"
    BY <1>6, <1>f DEF BuildRootfs, bootVars, mapVars
  <2> QED BY <1>6, <1>4, <2>1, <1>m DEF BuildRootfs, Pcs
<1>7. CASE MarkRunning(t)
  <2>1. /\ BootFrame(id, c) /\ live' = live /\ mon' = mon /\ thread' = thread
        /\ task[t].pc = "running" /\ task[t].op = "run"
    BY <1>7, <1>f DEF MarkRunning, bootVars
  <2>2. Shows(id, "Running", vms[id].cid, vms[id].exit)
    BY <1>0, <1>7, <1>s DEF MarkRunning, VmStates
  <2>3. /\ task'[t].pc = "boot" /\ task'[t].op = task[t].op /\ task'[t].id = id
        /\ task'[t].cid = c /\ task'[t].held = task[t].held
    BY <1>7, <1>g DEF MarkRunning, Pcs
  <2>4. vms[id].cid = c
    BY <1>4, <2>1
  <2>5. BootNext(task[t].op, id, c, "boot", "Running", vms[id].cid, vms[id].exit)
    BY <1>2, <1>3, <1>4, <2>1, <2>4 DEF BootNext
  <2> QED BY <1>0, <1>3, <2>1, <2>2, <2>3, <2>5, BootMoves
<1>8. CASE Boot(t)
  <2>1. BootFrame(id, c) /\ vms' = vms /\ live' = live /\ mon' = mon /\ task[t].pc = "boot"
    BY <1>0, <1>8, <1>f DEF Boot, mapVars
  <2> QED BY <1>8, <1>4, <2>1, <1>m DEF Boot, Pcs
<1>9. CASE BootFails(t)
  <2>1. /\ BootFrame(id, c) /\ vms' = vms /\ live' = live /\ mon' = mon /\ thread' = thread
        /\ task[t].pc \in {"build", "boot"}
    BY <1>9, <1>f DEF BootFails, bootVars, mapVars
  <2>2. CASE task[t].op = "restore"
    <3>1. Shows(id, vms[id].state, c, vms[id].exit)
      BY <2>1, <1>4, <1>s DEF VmStates
    <3> QED BY <1>3, <1>4, <1>9, <2>1, <2>2, <3>1, <1>e DEF BootFails, PipelineError
  <2>3. CASE task[t].op # "restore"
    BY <1>9, <1>4, <2>1, <2>3, <1>m DEF BootFails, PipelineError, Pcs
  <2> QED BY <2>2, <2>3
<1>10. CASE SetupForwards(t)
  <2>1. /\ BootFrame(id, c) /\ vms' = vms /\ live' = live /\ mon' = mon /\ thread' = thread
        /\ task[t].pc = "forward"
    BY <1>10, <1>f DEF SetupForwards, mapVars
  <2> QED BY <1>10, <1>4, <2>1, <1>m DEF SetupForwards, Pcs
<1>11. CASE ForwardsFail(t)
  <2>1. /\ BootFrame(id, c) /\ vms' = vms /\ live' = live /\ mon' = mon
        /\ task[t].pc = "forward" /\ thread'[c] = "exited"
    BY <1>0, <1>11, <1>f DEF ForwardsFail, mapVars, TypeInv, TypeOK
  <2>2. CASE task[t].op = "restore"
    <3>1. Shows(id, vms[id].state, c, vms[id].exit)
      BY <2>1, <1>4, <1>s DEF VmStates
    <3> QED BY <1>3, <1>4, <1>11, <2>1, <2>2, <3>1, <1>e DEF ForwardsFail, PipelineError
  <2>3. CASE task[t].op # "restore"
    BY <1>11, <1>4, <2>1, <2>3, <1>m DEF ForwardsFail, PipelineError, Pcs
  <2> QED BY <2>2, <2>3
<1>12. CASE MarkFailed(t)
  <2>1. BootFrame(id, c) /\ live' = live /\ mon' = mon /\ thread' = thread /\ task[t].pc = "fail"
    BY <1>12, <1>f DEF MarkFailed, bootVars
  <2>2. Shows(id, "Failed", c, vms[id].exit)
    BY <1>0, <1>4, <2>1, <1>12, <1>s DEF MarkFailed, VmStates
  <2> QED BY <1>3, <1>4, <1>12, <2>1, <2>2, <1>e DEF MarkFailed, VmStates
<1>13. CASE InsertLive(t)
  <2>1. /\ vms' = vms /\ mon' = mon /\ thread' = thread /\ task[t].pc = "live"
        /\ live' = [live EXCEPT ![id] = [cid |-> c, rx |-> TRUE]]
    BY <1>0, <1>13 DEF InsertLive
  <2>2. BootFrame(id, c)
    BY <1>13, <2>1 DEF BootFrame, Same, InsertLive, TypeInv, TypeOK
  <2>3. /\ task'[t].pc = "publish" /\ task'[t].op = task[t].op /\ task'[t].id = id
        /\ task'[t].cid = c /\ task'[t].held = task[t].held
    BY <1>13, <1>g DEF InsertLive, Pcs
  <2>4. [cid |-> c, rx |-> TRUE] # NoEntry
    <3>1. [cid |-> c, rx |-> TRUE] \in VmLiveState
      BY DEF VmLiveState
    <3> QED BY <3>1, EntryAssumption
  <2>5. live'[id] # NoEntry /\ live'[id].cid = c
    BY <2>1, <2>4 DEF TypeInv, TypeOK
  <2>6. Shows(id, vms[id].state, c, vms[id].exit)
    BY <2>1, <1>4, <1>s DEF VmStates
  <2>7. vms[id].cid = c
    BY <1>4, <2>1
  <2>8. BootNext(task[t].op, id, c, "publish", vms[id].state, c, vms[id].exit)
    BY <1>2, <1>3, <1>4, <2>1, <2>5, <2>7 DEF BootNext
  <2> QED BY <1>0, <2>1, <2>2, <2>3, <2>6, <2>8, BootMoves
<1>14. CASE Publish(t)
  <2>1. live' = live /\ thread' = thread /\ task[t].pc = "publish"
    BY <1>14 DEF Publish, bootVars
  <2>2. BootFrame(id, c)
    BY <1>0, <1>14, <2>1 DEF BootFrame, Same, Publish, bootVars, TypeInv, TypeOK
  <2>3. mon'[c].pc \in {"none", "done", "take"}
    <3>1. mon[c].pc \in {"none", "done"} /\ mon \in [Cids -> Monitors]
      BY <1>1, <1>2 DEF Active, TypeInv, TypeOK
    <3>2. mon' = mon \/ mon' = [mon EXCEPT ![c].pc = "take"]
      BY <1>0, <1>14 DEF Publish
    <3> QED BY <3>1, <3>2 DEF Monitors
  <2>4. vms[id].cid = c /\ live[id] # NoEntry /\ live[id].cid = c
    BY <1>4, <2>1
  <2>5. Shows(id, "Running", c, vms[id].exit)
    BY <1>0, <1>1, <1>14, <1>s, <2>4 DEF Publish, VmStates
  <2> QED BY <1>0, <1>3, <1>14, <1>r, <2>1, <2>2, <2>3, <2>4, <2>5, BootEnds DEF Publish
<1>15. CASE RunCompletes(t)
  <2>1. /\ BootFrame(id, c) /\ vms' = vms /\ live' = live /\ mon' = mon /\ thread'[c] = "exited"
        /\ task[t].pc = "await"
    BY <1>0, <1>15, <1>f DEF RunCompletes, mapVars
  <2> QED BY <1>15, <1>4, <2>1, <1>m DEF RunCompletes, Pcs
<1>16. CASE RunFinishes(t)
  <2>1. BootFrame(id, c) /\ live' = live /\ mon' = mon /\ thread' = thread /\ task[t].pc = "finish"
    BY <1>16, <1>f DEF RunFinishes, bootVars
  <2>2. Shows(id, "Stopped", c, c)
    BY <1>0, <1>4, <2>1, <1>16, <1>s DEF RunFinishes, VmStates
  <2> QED BY <1>4, <1>16, <2>1, <2>2, <1>e DEF RunFinishes, VmStates
<1>17. CASE StartDrops(t)
  <2>1. /\ vms' = vms /\ mon' = mon /\ thread' = thread /\ task[t].pc = "drop"
        /\ live' = [live EXCEPT ![id] = NoEntry]
    BY <1>0, <1>17 DEF StartDrops
  <2>2. BootFrame(id, c) /\ live'[id] = NoEntry
    BY <1>17, <2>1 DEF BootFrame, Same, StartDrops, TypeInv, TypeOK
  <2>3. /\ task'[t].pc = "mark" /\ task'[t].op = task[t].op /\ task'[t].id = id
        /\ task'[t].cid = c /\ task'[t].held = task[t].held
    BY <1>17, <1>g DEF StartDrops, Pcs
  <2>4. Shows(id, vms[id].state, vms[id].cid, vms[id].exit)
    BY <2>1, <1>s DEF VmStates
  <2>5. BootNext(task[t].op, id, c, "mark", vms[id].state, vms[id].cid, vms[id].exit)
    BY <1>3, <1>4, <2>1, <2>2 DEF BootNext
  <2> QED BY <1>0, <1>3, <2>1, <2>2, <2>3, <2>4, <2>5, BootMoves
<1>18. CASE StartMarks(t)
  <2>1. live' = live /\ mon' = mon /\ thread' = thread /\ task[t].pc = "mark" /\ task[t].op = "start"
    BY <1>0, <1>18 DEF StartMarks, bootVars
  <2>2. BootFrame(id, c)
    BY <1>18, <1>f DEF StartMarks, bootVars
  <2>3. /\ task'[t].pc = "config" /\ task'[t].op = task[t].op /\ task'[t].id = id
        /\ task'[t].cid = c /\ task'[t].held = task[t].held
    BY <1>0, <1>1, <1>18, <1>g DEF StartMarks, Pcs
  <2>4. PICK n \in Names : n = task[t].name
    BY <2>1 DEF TypeInv, TaskOK
  <2>5. vms' = [vms EXCEPT ![id] = [state |-> "Creating", name |-> n, cid |-> c, exit |-> 0]]
    BY <1>0, <1>1, <1>18, <2>4 DEF StartMarks
  <2>6. TypeOK /\ "Creating" \in VmStates /\ c \in Cids \cup {0}
    BY DEF TypeInv, VmStates
  <2>7. Shows(id, "Creating", c, 0)
    BY <1>1, <2>4, <2>5, <2>6, ShowsFacts
  <2>8. live'[id] = NoEntry
    BY <1>4, <2>1
  <2>9. BootNext(task[t].op, id, c, "config", "Creating", c, 0)
    BY <1>2, <1>4, <2>1, <2>8 DEF BootNext
  <2> QED BY <1>0, <2>1, <2>2, <2>3, <2>6, <2>7, <2>9, BootMoves
<1> QED
  BY <1>2, <1>5, <1>6, <1>7, <1>8, <1>9, <1>10, <1>11, <1>12, <1>13, <1>14, <1>15, <1>16, <1>17, <1>18
  DEF Step, TakeLive, ShutdownAcked, ForceStop, ExitAfterShutdown, CaptureOutput, JoinAndClean,
      MarkStopped, Remove, StopOps

\* The steps of a stop, a kill or a destroy.
LEMMA StopStep ==
  ASSUME TypeInv, SeqInv, NEW t \in Clients, \A u \in Clients : u = t, task[t].op \in StopOps, Step(t)
  PROVE  SeqInv'
<1>0. PICK id \in Ids, h \in Cids \cup {0} : id = task[t].id /\ h = task[t].held
  BY TaskFields DEF TypeInv, TypeOK, TaskOK, StopOps
<1>1. StopTask(t) /\ Present(id) /\ VmInv(id) /\ 0 \notin Cids
  BY <1>0, BackendAssumption, SMTT(60) DEF SeqInv, TaskInv, StopOps, Cids, FirstGuestCid
<1>2. task[t].op \notin BootOps \cup {"start"}
  BY DEF BootOps, StopOps
<1>3. /\ vms[id].cid \in Cids \cup {0} /\ vms[id].state \in VmStates
      /\ vms[id].exit \in {0, vms[id].cid}
  BY <1>1 DEF VmInv, TypeInv, TypeOK, Present, VmInfo
<1>4. /\ task[t].pc = "take" => h = 0
      /\ task[t].pc # "take" => live[id] = NoEntry
      /\ task[t].pc \in {"shutdown", "wait", "capture", "join"} => h # 0
      /\ h # 0 => h = vms[id].cid
      /\ h # 0 /\ task[t].pc \in {"capture", "join", "stopped", "remove"} => ~Loose(h)
  BY <1>0, <1>1 DEF StopTask, Loose
<1>s. ASSUME NEW s \in VmStates
      PROVE  /\ vms' = vms => Shows(id, vms[id].state, vms[id].cid, vms[id].exit)
             /\ vms' = WithState(id, s) => Shows(id, s, vms[id].cid, vms[id].exit)
             /\ vms' = [vms EXCEPT ![id].exit = h] => Shows(id, vms[id].state, vms[id].cid, h)
  <2>1. TypeOK /\ \E n \in Names : TRUE
    BY <1>1 DEF TypeInv, TypeOK, Present, VmInfo
  <2> QED BY <1>1, <2>1, ShowsFacts
<1>f. ASSUME UNCHANGED <<live, owner, nextCid, mon, issued, thread>>,
             kill' = kill \/ kill' = [kill EXCEPT ![h] = TRUE],
             acked' = acked \/ acked' = [acked EXCEPT ![h] = TRUE],
             task[t].pc # "take"
      PROVE  StopFrame(id) /\ live'[id] = NoEntry
  BY <1>4, <1>f DEF StopFrame, Same, TypeInv, TypeOK
<1>m. ASSUME NEW pc \in Pcs \ {"take"}, Goto(t, pc), StopFrame(id), live[id] = NoEntry, live'[id] = NoEntry,
             NEW s \in {vms[id].state, "Stopped"}, NEW x \in {0, vms[id].cid}, Shows(id, s, vms[id].cid, x),
             pc \in {"shutdown", "wait", "capture", "join"} => h # 0,
             h # 0 => pc \notin {"capture", "join", "stopped", "remove"} \/ ~Loose(h)'
      PROVE  SeqInv'
  <2>1. /\ task'[t].pc = pc /\ task'[t].op = task[t].op /\ task'[t].id = id
        /\ task'[t].cid = task[t].cid /\ task'[t].held = h
    BY <1>0, <1>m, GotoFacts DEF TypeInv, TypeOK
  <2>2. StopNext(id, task[t].held, h, pc)
    BY <1>0, <1>m DEF StopNext
  <2> QED
    BY <1>0, <1>m, <2>1, <2>2, StopMoves
<1> USE DEF At
<1>5. CASE TakeLive(t)
  <2>1. /\ vms' = vms /\ thread' = thread /\ mon' = mon /\ acked' = acked
        /\ live' = [live EXCEPT ![id] = NoEntry]
        /\ task[t].pc = "take"
    BY <1>0, <1>5 DEF TakeLive
  <2>2. Shows(id, vms[id].state, vms[id].cid, vms[id].exit)
    BY <2>1, <1>s DEF VmStates
  <2>3. UNCHANGED <<nextCid, owner, issued>>
    BY <1>5 DEF TakeLive
  <2>4. live'[id] = NoEntry /\ \A i \in Ids \ {id} : live'[i] = live[i]
    BY <2>1 DEF TypeInv, TypeOK
  <2>5. CASE live[id] = NoEntry
    <3>1. kill' = kill /\ Goto(t, "stopped")
      BY <1>0, <1>5, <2>5 DEF TakeLive
    <3>2. StopFrame(id)
      BY <2>1, <2>3, <2>4, <3>1 DEF StopFrame, Same
    <3>3. "stopped" \in Pcs \ {"take"} /\ h = 0
      BY <1>4, <2>1 DEF Pcs
    <3>4. "stopped" \in {"shutdown", "wait", "capture", "join"} => h # 0
      OBVIOUS
    <3> QED
      BY <1>3, <2>2, <2>4, <2>5, <3>1, <3>2, <3>3, <3>4, <1>m
  <2>6. CASE live[id] # NoEntry
    <3>1. PICK e \in Cids : e = live[id].cid
      BY <1>0, <1>5, <2>6, TakeLiveTask
    <3>2. kill' = IF task[t].op = "kill" THEN [kill EXCEPT ![e] = TRUE] ELSE kill
      BY <1>0, <1>5, <2>6, <3>1 DEF TakeLive
    <3>3. StopFrame(id)
      BY <2>1, <2>3, <2>4, <3>2 DEF StopFrame, Same, TypeInv, TypeOK
    <3>4. /\ task'[t].pc \in {"capture", "shutdown"} /\ task'[t].held = e
          /\ task'[t].op = task[t].op /\ task'[t].id = id /\ task'[t].cid = task[t].cid
      BY <1>0, <1>5, <2>6, <3>1, TakeLiveTask
    <3>5. task'[t].pc = "capture" => task[t].op = "kill"
      <4> DEFINE pc == IF task[t].op = "kill" THEN "capture" ELSE "shutdown"
                 new == [task[t] EXCEPT !.held = live[id].cid, !.rx = live[id].rx, !.pc = pc]
      <4>1. task' = [task EXCEPT ![t] = new] /\ task \in [Clients -> Tasks]
        BY <1>0, <1>5, <2>6 DEF TakeLive, TypeInv, TypeOK
      <4>2. task[t] \in Tasks => new.pc = pc
        BY DEF Tasks
      <4>3. task'[t] = new
        BY <4>1
      <4>4. pc = "capture" => task[t].op = "kill"
        OBVIOUS
      <4> HIDE DEF new, pc
      <4> QED BY <4>1, <4>2, <4>3, <4>4
    <3>6. task'[t].pc = "capture" => ~Loose(e)'
      BY <3>2, <3>5 DEF Loose, TypeInv, TypeOK
    <3>7. StopNext(id, task[t].held, e, task'[t].pc)
      BY <1>1, <2>6, <3>1, <3>4, <3>6 DEF StopNext
    <3>8. e \in Cids \cup {0} /\ vms[id].state \in {vms[id].state, "Stopped"}
      OBVIOUS
    <3> QED
      BY <1>0, <1>3, <2>2, <2>4, <3>3, <3>4, <3>7, <3>8, StopMoves
  <2> QED BY <2>5, <2>6
<1>6. CASE ShutdownAcked(t)
  <2>1. vms' = vms /\ task[t].pc = "shutdown" /\ thread' = thread /\ acked' = [acked EXCEPT ![h] = TRUE]
    BY <1>0, <1>6 DEF ShutdownAcked, mapVars
  <2>2. StopFrame(id) /\ live'[id] = NoEntry
    BY <1>6, <2>1, <1>f DEF ShutdownAcked, mapVars
  <2>3. ~Loose(h)' /\ h # 0
    BY <1>4, <2>1 DEF Loose, TypeInv, TypeOK
  <2>4. Shows(id, vms[id].state, vms[id].cid, vms[id].exit)
    BY <2>1, <1>s DEF VmStates
  <2> QED
    BY <1>3, <1>4, <1>6, <2>1, <2>2, <2>3, <2>4, <1>m DEF ShutdownAcked, Pcs
<1>7. CASE ForceStop(t)
  <2>1. /\ vms' = vms /\ task[t].pc \in {"shutdown", "wait"} /\ thread' = thread
        /\ kill' = [kill EXCEPT ![h] = TRUE]
    BY <1>0, <1>7 DEF ForceStop, mapVars
  <2>2. StopFrame(id) /\ live'[id] = NoEntry
    BY <1>7, <2>1, <1>f DEF ForceStop, mapVars
  <2>3. ~Loose(h)' /\ h # 0
    BY <1>4, <2>1 DEF Loose, TypeInv, TypeOK
  <2>4. Shows(id, vms[id].state, vms[id].cid, vms[id].exit)
    BY <2>1, <1>s DEF VmStates
  <2> QED
    BY <1>3, <1>4, <1>7, <2>1, <2>2, <2>3, <2>4, <1>m DEF ForceStop, Pcs
<1>8. CASE ExitAfterShutdown(t)
  <2>1. /\ vms' = vms /\ task[t].pc = "wait" /\ thread' = thread /\ thread[h] = "exited"
        /\ kill' = kill /\ acked' = acked
    BY <1>0, <1>8 DEF ExitAfterShutdown, mapVars, bootVars
  <2>2. StopFrame(id) /\ live'[id] = NoEntry
    BY <1>8, <2>1, <1>f DEF ExitAfterShutdown, mapVars, bootVars
  <2>3. ~Loose(h)' /\ h # 0
    BY <1>4, <2>1 DEF Loose
  <2>4. Shows(id, vms[id].state, vms[id].cid, vms[id].exit)
    BY <2>1, <1>s DEF VmStates
  <2> QED
    BY <1>3, <1>4, <1>8, <2>1, <2>2, <2>3, <2>4, <1>m DEF ExitAfterShutdown, Pcs
<1>9. CASE CaptureOutput(t)
  <2>1. task[t].pc = "capture" /\ UNCHANGED <<thread, kill, acked>>
    BY <1>9 DEF CaptureOutput, bootVars
  <2>2. StopFrame(id) /\ live'[id] = NoEntry
    BY <1>9, <2>1, <1>f DEF CaptureOutput, mapVars, bootVars
  <2>3. ~Loose(h)' /\ h # 0 /\ h = vms[id].cid
    BY <1>4, <2>1 DEF Loose
  <2>4. PICK x \in {0, vms[id].cid} : Shows(id, vms[id].state, vms[id].cid, x)
    <3>1. vms' = vms \/ vms' = [vms EXCEPT ![id].exit = h]
      BY <1>0, <1>9 DEF CaptureOutput
    <3> QED
      BY <1>3, <2>3, <3>1, <1>s DEF VmStates
  <2> QED
    BY <1>4, <1>9, <2>1, <2>2, <2>3, <2>4, <1>m DEF CaptureOutput, Pcs
<1>10. CASE JoinAndClean(t)
  <2>1. vms' = vms /\ task[t].pc = "join" /\ UNCHANGED <<thread, kill, acked>>
    BY <1>10 DEF JoinAndClean, mapVars
  <2>2. StopFrame(id) /\ live'[id] = NoEntry
    BY <1>10, <2>1, <1>f DEF JoinAndClean, mapVars
  <2>3. ~Loose(h)' /\ h # 0
    BY <1>4, <2>1 DEF Loose
  <2>4. Shows(id, vms[id].state, vms[id].cid, vms[id].exit)
    BY <2>1, <1>s DEF VmStates
  <2> QED
    BY <1>3, <1>4, <1>10, <2>1, <2>2, <2>3, <2>4, <1>m DEF JoinAndClean, Pcs
<1>11. CASE MarkStopped(t)
  <2>1. task[t].pc = "stopped" /\ UNCHANGED <<thread, kill, acked>>
    BY <1>11 DEF MarkStopped, bootVars
  <2>2. StopFrame(id) /\ live'[id] = NoEntry
    BY <1>11, <2>1, <1>f DEF MarkStopped, mapVars, bootVars
  <2>3. h # 0 => ~Loose(h)'
    BY <1>4, <2>1 DEF Loose
  <2>4. Shows(id, "Stopped", vms[id].cid, vms[id].exit)
    BY <1>0, <1>11, <1>s DEF MarkStopped, VmStates
  <2>5. CASE task[t].op = "destroy"
    <3>1. "remove" \in Pcs \ {"take"} /\ live[id] = NoEntry /\ Goto(t, "remove")
      BY <1>4, <1>11, <2>1, <2>5 DEF Pcs, MarkStopped
    <3>2. "remove" \in {"shutdown", "wait", "capture", "join"} => h # 0
      OBVIOUS
    <3> QED
      BY <1>3, <2>2, <2>3, <2>4, <3>1, <3>2, <1>m
  <2>6. CASE task[t].op # "destroy"
    <3>1. task'[t] = Idle
      BY <1>11, <2>6, ReturnFacts DEF MarkStopped, TypeInv, TypeOK
    <3>2. \A i \in Ids \ {id} : vms'[i] = vms[i]
      BY <2>4 DEF Shows
    <3> QED
      BY <1>0, <2>1, <2>2, <2>4, <3>1, <3>2, StopEnds
  <2> QED BY <2>5, <2>6
<1>12. CASE Remove(t)
  <2>1. /\ task[t].pc = "remove" /\ vms' = [vms EXCEPT ![id] = NoEntry]
        /\ live' = [live EXCEPT ![id] = NoEntry]
    BY <1>0, <1>1, <1>12 DEF Remove
  <2>2. StopFrame(id) /\ live'[id] = NoEntry
    BY <1>12, <2>1 DEF Remove, StopFrame, Same, TypeInv, TypeOK
  <2>3. task'[t] = Idle
    BY <1>12, ReturnFacts DEF Remove, TypeInv, TypeOK
  <2>4. vms'[id] = NoEntry /\ \A i \in Ids \ {id} : vms'[i] = vms[i]
    BY <2>1 DEF TypeInv, TypeOK
  <2> QED
    BY <1>0, <2>1, <2>2, <2>3, <2>4, StopEnds
<1> QED
  BY <1>2, <1>5, <1>6, <1>7, <1>8, <1>9, <1>10, <1>11, <1>12
  DEF Step, StoreConfig, BuildRootfs, MarkRunning, Boot, BootFails, SetupForwards, ForwardsFail,
      MarkFailed,
      InsertLive, Publish, RunCompletes, RunFinishes, StartDrops, StartMarks, BootOps

\* The steps of a request, for a single client.
LEMMA StepSeqInv ==
  ASSUME TypeInv, SeqInv, NEW t \in Clients, \A u \in Clients : u = t, Step(t)
  PROVE  SeqInv'
<1>1. Booting(t) \/ task[t].op \in StopOps
  BY DEF Step, StoreConfig, BuildRootfs, MarkRunning, Boot, BootFails, SetupForwards, ForwardsFail,
     MarkFailed,
      InsertLive, Publish, RunCompletes, RunFinishes, StartDrops, StartMarks, BootOps, Booting, At, StopOps,
      TakeLive, ShutdownAcked, ForceStop, ExitAfterShutdown, CaptureOutput, JoinAndClean, MarkStopped, Remove
<1> QED
  BY <1>1, BootStep, StopStep

\* A request that arrives, when the single client waits for the monitors.
LEMMA RequestSeqInv ==
  ASSUME TypeInv, SeqInv, Prompt, NEW t \in Clients, \A u \in Clients : u = t, Request(t)
  PROVE  SeqInv'
<1>0. task[t] = Idle /\ 0 \notin Cids
  BY BackendAssumption, SMTT(60) DEF Request, Create, CreateRejected, Start, Stop, Cids, FirstGuestCid
<1>1. /\ \A i \in Ids : ~Busy(i)
      /\ \A d \in Cids : ~ \E u \in Clients : d \in {task[u].cid, task[u].held}
  BY <1>0, IdleFacts, BackendAssumption DEF Busy
<1>2. \A i \in Ids : VmInv(i) /\ Agree(i)
  BY <1>1 DEF SeqInv, VmInv
<1>v. ASSUME NEW id \in Ids, UNCHANGED <<live, thread, kill, acked, mon>>,
             \A i \in Ids \ {id} : vms'[i] = vms[i],
             \A d \in Cids : owner'[d] = owner[d] \/ (owner[d] = None /\ owner'[d] = id)
      PROVE  \A i \in Ids \ {id} : VmInv(i)'
  <2> SUFFICES ASSUME NEW i \in Ids \ {id} PROVE VmInv(i)'
    OBVIOUS
  <2>1. i \in Ids /\ vms'[i] = vms[i] /\ live'[i] = live[i] /\ ~Busy(i)
    BY <1>v, <1>1
  <2>2. \A d \in Cids : owner'[d] = i => owner[d] = i
    BY <1>v
  <2>3. \A d \in Cids : owner[d] = i => owner'[d] = i
    BY <1>v, BackendAssumption
  <2> QED
    BY ONLY TypeInv, SeqInv, <2>1, <2>2, <2>3, <1>1, <1>v, VmFrame, ZenonT(60)
<1>n. ASSUME NEW id \in Ids, AllocateCid(id)
      PROVE  /\ nextCid \in Cids /\ owner'[nextCid] = id /\ owner[nextCid] = None
             /\ thread[nextCid] = "none" /\ mon[nextCid].pc = "none"
             /\ \A d \in Cids \ {nextCid} : owner'[d] = owner[d]
             /\ \A d \in Cids : d >= nextCid' => d >= nextCid /\ d # nextCid
  <2>1. nextCid \in Cids /\ \A d \in Cids : d >= nextCid' => d >= nextCid /\ d # nextCid
    BY <1>n, BackendAssumption, SMTT(60) DEF AllocateCid, Cids, FirstGuestCid, TypeInv, TypeOK
  <2>2. nextCid >= nextCid
    BY <2>1, BackendAssumption, SMTT(60) DEF Cids, FirstGuestCid
  <2>3. owner'[nextCid] = id /\ \A d \in Cids \ {nextCid} : owner'[d] = owner[d]
    BY <1>n, <2>1 DEF AllocateCid, TypeInv, TypeOK
  <2> QED
    BY <2>1, <2>2, <2>3 DEF SeqInv, FreshInv
<1>f. ASSUME NEW id \in Ids, AllocateCid(id), UNCHANGED <<thread, mon>>,
             issued' = issued \/ issued' = issued \cup {id}, id \in issued',
             \A i \in Ids \ {id} : vms'[i] = vms[i]
      PROVE  FreshInv'
  <2>1. \A d \in Cids :
          /\ d >= nextCid' => owner'[d] = None /\ thread'[d] = "none" /\ mon'[d].pc = "none"
          /\ thread'[d] # "none" => owner'[d] \in Ids
    BY <1>f, <1>n DEF SeqInv, FreshInv
  <2>2. ASSUME NEW i \in Ids \ issued' PROVE ~Present(i)' /\ \A d \in Cids : owner'[d] # i
    <3>1. i \in Ids \ issued /\ i # id
      BY <1>f, <2>2
    <3> QED
      BY <1>f, <1>n, <3>1 DEF SeqInv, FreshInv, Present
  <2> QED
    BY <2>1, <2>2 DEF FreshInv
\* the new boot of id: its CID is fresh
<1>b. ASSUME NEW id \in Ids, AllocateCid(id), UNCHANGED <<live, thread, kill, acked, mon>>,
             \A d \in Cids : owner[d] = id => mon[d].pc \in {"none", "done"}, live[id] = NoEntry
      PROVE  /\ \A d \in Cids : owner'[d] = id => ~Active(d)' /\ Watches(d)' /\ Reachable(d)'
             /\ thread'[nextCid] # "running"
  <2> SUFFICES ASSUME NEW d \in Cids, owner'[d] = id PROVE ~Active(d)' /\ Watches(d)' /\ Reachable(d)'
    BY <1>b, <1>n
  <2>1. d = nextCid \/ (owner[d] = id /\ d # nextCid)
    BY <1>b, <1>n
  <2>2. ~Active(d)'
    BY <1>b, <1>n, <2>1 DEF Active
  <2>3. d = nextCid => thread[d] = "none"
    BY <1>b, <1>n
  <2>4. owner[d] = id => ~Loose(d)
    BY <1>1, <1>2, <1>b DEF VmInv, Reachable, Loose
  <2>5. ~Loose(d)'
    BY <1>b, <2>1, <2>3, <2>4 DEF Loose
  <2> QED
    BY <2>2, <2>5 DEF Watches, Reachable, Loose
<1>3. ASSUME NEW op \in BootOps \cap Ops, NEW n \in Names \cup {None}, Create(t, op, n)
      PROVE  SeqInv'
  <2>1. PICK id \in Ids \ issued, m \in Names :
          /\ AllocateCid(id) /\ issued' = issued \cup {id}
          /\ vms' = [vms EXCEPT ![id] = [state |-> "Creating", name |-> m, cid |-> nextCid, exit |-> 0]]
          /\ task' = [task EXCEPT ![t] = NewTask(op, "config", id, n, nextCid)]
    BY <1>3 DEF Create, ChosenNames
  <2>2. UNCHANGED <<live, thread, kill, acked, mon>>
    BY <1>3 DEF Create
  <2>3. nextCid \in Cids /\ owner'[nextCid] = id
    BY <2>1, <1>n
  <2>4. ~Present(id) /\ live[id] = NoEntry /\ \A d \in Cids : owner[d] # id
    BY <1>2 DEF SeqInv, FreshInv, VmInv
  <2> DEFINE r == [state |-> "Creating", name |-> m, cid |-> nextCid, exit |-> 0]
  <2>5. r \in VmInfo /\ r.state = "Creating" /\ r.cid = nextCid /\ r.exit = 0
    BY <2>3 DEF VmInfo, VmStates
  <2>6. vms' = [vms EXCEPT ![id] = r]
    BY <2>1
  <2> HIDE DEF r
  <2>7. vms'[id] = r /\ Present(id)' /\ \A i \in Ids \ {id} : vms'[i] = vms[i]
    BY <2>5, <2>6, InfoAssumption DEF TypeInv, TypeOK, Present
  <2>8. /\ \A d \in Cids : owner'[d] = id => ~Active(d)' /\ Watches(d)' /\ Reachable(d)'
        /\ thread'[nextCid] # "running"
    BY <2>1, <2>2, <2>4, <1>b
  <2>9. /\ task'[t].op = op /\ task'[t].pc = "config" /\ task'[t].id = id
        /\ task'[t].cid = nextCid /\ task'[t].held = 0
    BY <2>1 DEF NewTask, TypeInv, TypeOK
  <2>10. VmInv(id)'
    <3>1. Busy(id)'
      BY <2>9 DEF Busy
    <3> QED
      BY <1>0, <2>2, <2>3, <2>4, <2>5, <2>7, <2>8, <3>1 DEF VmInv
  <2>11. TaskInv(t)'
    <3>1. BootTask(t)'
      BY <2>2, <2>3, <2>4, <2>5, <2>7, <2>8, <2>9 DEF BootTask
    <3> QED
      BY <2>7, <2>9, <3>1 DEF TaskInv, BootOps, StopOps
  <2>12. FreshInv'
    BY <1>f, <2>1, <2>2, <2>7
  <2>13. \A d \in Cids : owner'[d] = owner[d] \/ (owner[d] = None /\ owner'[d] = id)
    BY <2>1, <1>n
  <2>14. \A i \in Ids \ {id} : VmInv(i)'
    BY <1>v, <2>2, <2>7, <2>13
  <2> QED
    BY <2>10, <2>11, <2>12, <2>14 DEF SeqInv
<1>4. ASSUME NEW n \in Names \cup {None}, CreateRejected(t, n)
      PROVE  SeqInv'
  <2>1. PICK id \in Ids \ issued : AllocateCid(id) /\ issued' = issued \cup {id}
    BY <1>4 DEF CreateRejected
  <2>2. UNCHANGED <<vms, live, thread, kill, acked, mon, task>>
    BY <1>4 DEF CreateRejected
  <2>3. ~Present(id) /\ live[id] = NoEntry /\ \A d \in Cids : owner[d] # id
    BY <1>2 DEF SeqInv, FreshInv, VmInv
  <2>4. \A d \in Cids : owner'[d] = id => ~Active(d)' /\ Watches(d)' /\ Reachable(d)'
    BY <2>1, <2>2, <2>3, <1>b
  <2>5. VmInv(id)'
    BY <2>2, <2>3, <2>4 DEF VmInv, Agree, Present
  <2>6. \A d \in Cids : owner'[d] = owner[d] \/ (owner[d] = None /\ owner'[d] = id)
    BY <2>1, <1>n
  <2>7. \A i \in Ids \ {id} : VmInv(i)'
    BY <1>v, <2>2, <2>6
  <2>8. FreshInv'
    BY <1>f, <2>1, <2>2
  <2>9. TaskInv(t)'
    BY <1>0, <2>2, IdleFacts DEF TaskInv, Booting, BootOps, StopOps
  <2> QED
    BY <2>5, <2>7, <2>8, <2>9 DEF SeqInv
<1>5. ASSUME NEW id \in Ids, Start(t, id)
      PROVE  SeqInv'
  <2>1. /\ AllocateCid(id) /\ Present(id) /\ vms[id].state \in {"Stopped", "Failed"} /\ Quiet(id)
        /\ task' = [task EXCEPT ![t] = NewTask("start", "drop", id, StartName(id), nextCid)]
    BY <1>5 DEF Start
  <2>2. UNCHANGED <<vms, issued, live, thread, kill, acked, mon>>
    BY <1>5 DEF Start, mapVars
  <2>3. nextCid \in Cids /\ owner'[nextCid] = id
    BY <2>1, <1>n
  <2>4. live[id] = NoEntry
    BY <1>2, <2>1 DEF Agree
  <2>5. \A d \in Cids : owner[d] = id => mon[d].pc \in {"none", "done"}
    BY <2>1 DEF Quiet
  <2>6. /\ \A d \in Cids : owner'[d] = id => ~Active(d)' /\ Watches(d)' /\ Reachable(d)'
        /\ thread'[nextCid] # "running"
    BY <2>1, <2>2, <2>4, <2>5, <1>b
  <2>7. /\ task'[t].op = "start" /\ task'[t].pc = "drop" /\ task'[t].id = id
        /\ task'[t].cid = nextCid /\ task'[t].held = 0
    BY <2>1 DEF NewTask, TypeInv, TypeOK
  <2>8. vms[id].cid \in Cids \cup {0} /\ (vms[id].cid # 0 => owner'[vms[id].cid] = id)
    <3>1. vms[id].cid \in Cids \cup {0} /\ (vms[id].cid # 0 => owner[vms[id].cid] = id)
      <4>1. vms[id] \in VmInfo /\ VmInv(id)
        BY <1>2, <2>1 DEF TypeInv, TypeOK, Present
      <4>2. vms[id].cid \in Cids \cup {0}
        BY <4>1 DEF VmInfo
      <4> QED
        BY <2>1, <4>1, <4>2 DEF VmInv
    <3> QED
      BY <1>n, <2>1, <3>1
  <2>9. VmInv(id)'
    <3>1. Busy(id)'
      BY <2>7 DEF Busy
    <3>2. vms[id].exit \in {0, vms[id].cid} /\ vms[id].state # "Running"
      BY <1>2, <2>1 DEF VmInv
    <3> QED
      BY <2>2, <2>4, <2>6, <2>8, <3>1, <3>2 DEF VmInv
  <2>10. TaskInv(t)'
    <3>1. BootTask(t)'
      BY <2>2, <2>3, <2>4, <2>6, <2>7 DEF BootTask
    <3> QED
      BY <2>1, <2>2, <2>7, <3>1 DEF TaskInv, StopOps, Present
  <2>11. id \in issued
    BY <2>1 DEF SeqInv, FreshInv
  <2>12. FreshInv'
    BY <1>f, <2>1, <2>2, <2>11
  <2>13. \A d \in Cids : owner'[d] = owner[d] \/ (owner[d] = None /\ owner'[d] = id)
    BY <2>1, <1>n
  <2>14. \A i \in Ids \ {id} : VmInv(i)'
    BY <1>v, <2>2, <2>13
  <2> QED
    BY <2>9, <2>10, <2>12, <2>14 DEF SeqInv
<1>6. ASSUME NEW op \in StopOps \cap Ops, NEW id \in Ids, Stop(t, op, id)
      PROVE  SeqInv'
  <2>1. PICK pc \in {"remove", "take"} :
          /\ task' = [task EXCEPT ![t] = NewTask(op, pc, id, None, 0)]
          /\ pc = "remove" => vms[id].state \in {"Stopped", "Failed"}
    BY <1>6 DEF Stop
  <2>2. Present(id) /\ UNCHANGED <<vms, live, issued, nextCid, owner, thread, kill, acked, mon>>
    BY <1>6 DEF Stop, mapVars, bootVars
  <2>3. /\ task'[t].op = op /\ task'[t].pc = pc /\ task'[t].id = id
        /\ task'[t].cid = 0 /\ task'[t].held = 0
    BY <2>1 DEF NewTask, TypeInv, TypeOK
  <2>4. pc = "remove" => live[id] = NoEntry
    BY <1>2, <2>1 DEF Agree
  <2>5. TaskInv(t)'
    <3>1. StopTask(t)'
      BY <2>1, <2>2, <2>3, <2>4 DEF StopTask
    <3> QED
      BY <2>2, <2>3, <3>1 DEF TaskInv, Booting, BootOps, StopOps, Present
  <2>6. ASSUME NEW i \in Ids PROVE VmInv(i)'
    <3>1. vms'[i] = vms[i] /\ live'[i] = live[i] /\ ~Busy(i)
      BY <1>1, <2>2
    <3> QED
      BY ONLY TypeInv, SeqInv, i \in Ids, <3>1, <2>2, <1>1, VmFrame, ZenonT(60)
  <2>7. FreshInv'
    BY <2>2 DEF SeqInv, FreshInv, Present
  <2> QED
    BY <2>5, <2>6, <2>7 DEF SeqInv
<1> QED
  BY <1>3, <1>4, <1>5, <1>6 DEF Request

\* What a step of the monitor writes into its own record.
LEMMA MonitorSets ==
  ASSUME mon \in [Cids -> Monitors], NEW c \in Cids, NEW pc \in MonPcs,
         mon' = [mon EXCEPT ![c].pc = pc]
  PROVE  /\ mon'[c].pc = pc /\ mon'[c].rx = mon[c].rx /\ mon'[c].held = mon[c].held
         /\ \A d \in Cids \ {c} : mon'[d] = mon[d]
<1> DEFINE r == [mon[c] EXCEPT !.pc = pc]
<1>1. r.pc = pc /\ r.rx = mon[c].rx /\ r.held = mon[c].held
  BY DEF Monitors
<1>2. mon' = [mon EXCEPT ![c] = r]
  OBVIOUS
<1> HIDE DEF r
<1> QED BY <1>1, <1>2

\* The same when it takes the completion receiver.
LEMMA MonitorSetsRx ==
  ASSUME mon \in [Cids -> Monitors], NEW c \in Cids, NEW pc \in MonPcs, NEW e \in Cids \cup {0},
         mon' = [mon EXCEPT ![c].pc = pc, ![c].rx = e]
  PROVE  /\ mon'[c].pc = pc /\ mon'[c].rx = e /\ mon'[c].held = mon[c].held
         /\ \A d \in Cids \ {c} : mon'[d] = mon[d]
<1> DEFINE r == [mon[c] EXCEPT !.pc = pc, !.rx = e]
<1>1. r.pc = pc /\ r.rx = e /\ r.held = mon[c].held
  BY DEF Monitors
<1>2. mon' = [mon EXCEPT ![c] = r]
  OBVIOUS
<1> HIDE DEF r
<1> QED BY <1>1, <1>2

\* The same when it claims a live state.
LEMMA MonitorSetsHeld ==
  ASSUME mon \in [Cids -> Monitors], NEW c \in Cids, NEW pc \in MonPcs, NEW e \in Cids \cup {0},
         mon' = [mon EXCEPT ![c].pc = pc, ![c].held = e]
  PROVE  /\ mon'[c].pc = pc /\ mon'[c].rx = mon[c].rx /\ mon'[c].held = e
         /\ \A d \in Cids \ {c} : mon'[d] = mon[d]
<1> DEFINE r == [mon[c] EXCEPT !.pc = pc, !.held = e]
<1>1. r.pc = pc /\ r.rx = mon[c].rx /\ r.held = e
  BY DEF Monitors
<1>2. mon' = [mon EXCEPT ![c] = r]
  OBVIOUS
<1> HIDE DEF r
<1> QED BY <1>1, <1>2

\* A monitor leaves alone all but its own VM, whose entry it does not remove.
MonitorFrame(c, id) ==
  /\ UNCHANGED <<issued, nextCid, owner, thread, kill, acked, task>>
  /\ \A d \in Cids \ {c} : mon'[d] = mon[d]
  /\ \A i \in Ids \ {id} : vms'[i] = vms[i] /\ live'[i] = live[i]
  /\ Present(id)' <=> Present(id)
  /\ Present(id) => vms'[id].cid = vms[id].cid
  /\ live[id] = NoEntry => live'[id] = NoEntry

\* The invariant of its own VM is all that a monitor can disturb.
LEMMA MonitorOthers ==
  ASSUME TypeInv, SeqInv, NEW c \in Cids, NEW id \in Ids, id = owner[c], Active(c),
         MonitorFrame(c, id), VmInv(id)'
  PROVE  SeqInv'
<1>1. ASSUME NEW i \in Ids \ {id} PROVE VmInv(i)'
  <2>1. i \in Ids /\ vms'[i] = vms[i] /\ live'[i] = live[i] /\ (~Busy(i)' => ~Busy(i))
    BY DEF MonitorFrame, Busy
  <2>2. \A d \in Cids : owner[d] = i => d # c
    OBVIOUS
  <2>3. \A d \in Cids : owner[d] = i => mon'[d] = mon[d]
    BY <2>2 DEF MonitorFrame
  <2>4. UNCHANGED <<owner, thread, kill, acked, task>>
    BY DEF MonitorFrame
  <2> QED
    BY ONLY TypeInv, SeqInv, <2>1, <2>3, <2>4, VmFrame, ZenonT(60)
<1>2. FreshInv'
  <2>1. \A d \in Cids :
          /\ d >= nextCid' => owner'[d] = None /\ thread'[d] = "none" /\ mon'[d].pc = "none"
          /\ thread'[d] # "none" => owner'[d] \in Ids
    BY BackendAssumption DEF SeqInv, FreshInv, MonitorFrame
  <2>2. \A i \in Ids \ issued' : ~Present(i)' /\ \A d \in Cids : owner'[d] # i
    BY DEF SeqInv, FreshInv, MonitorFrame, Present
  <2> QED
    BY <2>1, <2>2 DEF FreshInv
<1>3. ASSUME NEW t \in Clients PROVE TaskInv(t)'
  <2>1. /\ TaskInv(t) /\ task' = task /\ owner' = owner /\ thread' = thread /\ kill' = kill
        /\ acked' = acked
    BY DEF SeqInv, MonitorFrame
  <2>2. \A i \in Ids : (Present(i)' <=> Present(i)) /\ (Present(i) => vms'[i].cid = vms[i].cid)
    BY DEF MonitorFrame, Present
  <2>3. \A i \in Ids : live[i] = NoEntry => live'[i] = NoEntry
    BY DEF MonitorFrame
  <2>4. ASSUME Booting(t) PROVE BootTask(t)'
    <3>1. BootTask(t) /\ task[t].id \in Ids
      BY <2>1, <2>4 DEF TaskInv, Booting, BootOps
    <3>2. task[t].id # id
      BY <3>1 DEF BootTask
    <3>3. \A d \in Cids : owner[d] = task[t].id => mon'[d] = mon[d]
      BY <3>2 DEF MonitorFrame
    <3>4. vms'[task[t].id] = vms[task[t].id] /\ live'[task[t].id] = live[task[t].id]
      BY <3>1, <3>2 DEF MonitorFrame
    <3>5. \A d \in Cids : owner'[d] = task[t].id => ~Active(d)'
      BY <2>1, <3>1, <3>3 DEF BootTask, Active
    <3> QED
      BY <2>1, <3>1, <3>4, <3>5 DEF BootTask
  <2>5. ASSUME task[t].op \in StopOps PROVE StopTask(t)'
    <3>1. StopTask(t) /\ task[t].id \in Ids /\ Present(task[t].id)
      BY <2>1, <2>5 DEF TaskInv, StopOps
    <3> QED
      BY <2>1, <2>2, <2>3, <3>1 DEF StopTask
  <2> QED
    BY <2>1, <2>2, <2>4, <2>5 DEF TaskInv, Booting
<1> QED
  BY <1>1, <1>2, <1>3 DEF SeqInv

\* The steps of the monitor.
LEMMA MonitorSeqInv ==
  ASSUME TypeInv, SeqInv, NEW c \in Cids, MonitorStep(c)
  PROVE  SeqInv'
<1>0. Active(c)
  BY DEF MonitorStep, MonitorTakes, MonitorClaims, MonitorMarks, MonitorCleans, MonitorEnsures, Active
<1>1. PICK id \in Ids : id = owner[c]
  BY <1>0 DEF Active, TypeInv, MonitorOK
<1>2. VmInv(id) /\ Watches(c)
  BY <1>1 DEF SeqInv, VmInv
<1>3. /\ Present(id) => vms[id].cid = c
      /\ mon[c].pc = "await" => mon[c].rx = c
      /\ mon[c].pc \in {"mark", "join"} => mon[c].held = c /\ thread[c] = "exited"
      /\ mon[c].pc \in {"mark", "join", "ensure"} => live[id] = NoEntry
  BY <1>0, <1>1, <1>2 DEF Watches
<1>4. live[id] # NoEntry => Present(id) /\ live[id].cid = c
  BY <1>2, <1>3 DEF VmInv
<1>5. UNCHANGED <<issued, nextCid, owner, thread, kill, acked, task>>
  BY DEF MonitorStep, MonitorTakes, MonitorClaims, MonitorMarks, MonitorCleans, MonitorEnsures,
     bootVars, mapVars
<1>6. mon \in [Cids -> Monitors] /\ c # 0 /\ c \in Cids \cup {0}
  BY BackendAssumption, SMTT(60) DEF TypeInv, TypeOK, Cids, FirstGuestCid
<1>s. ASSUME NEW s \in VmStates, Present(id)
      PROVE  /\ vms' = WithState(id, s) => Shows(id, s, vms[id].cid, vms[id].exit)
             /\ vms' = WithExit(id, s, c) => Shows(id, s, vms[id].cid, c)
  <2>1. TypeOK /\ \E n \in Names : TRUE
    BY <1>s DEF TypeInv, TypeOK, Present, VmInfo
  <2> QED BY <1>6, <1>s, <2>1, ShowsFacts
\* what is left to show, once it is known what the monitor writes
<1>v. ASSUME MonitorFrame(c, id), Watches(c)', ~Busy(id)' => Agree(id)',
             Present(id) => /\ vms'[id].state \in {vms[id].state, "Stopped"}
                            /\ vms'[id].exit \in {vms[id].exit, c},
             live'[id] # NoEntry => live[id] # NoEntry /\ live'[id].cid = live[id].cid,
             live'[id] = NoEntry => live[id] = NoEntry \/ thread[c] = "exited"
      PROVE  SeqInv'
  <2>1. \A d \in Cids \ {c} : owner[d] = id => Watches(d)'
    <3> SUFFICES ASSUME NEW d \in Cids \ {c}, owner[d] = id PROVE Watches(d)'
      OBVIOUS
    <3>1. Watches(d) /\ mon'[d] = mon[d] /\ owner' = owner /\ thread' = thread
      BY <1>2, <1>5, <1>v DEF VmInv, MonitorFrame
    <3>2. /\ Present(id)' => Present(id) /\ vms'[id].cid = vms[id].cid
          /\ live[id] = NoEntry => live'[id] = NoEntry
      BY <1>v DEF MonitorFrame
    <3> QED
      BY <3>1, <3>2 DEF Watches, Active
  <2>2. \A d \in Cids : owner[d] = id => Reachable(d)'
    <3> SUFFICES ASSUME NEW d \in Cids, owner[d] = id, Loose(d)
                 PROVE  \/ \E u \in Clients : d \in {task[u].cid, task[u].held}
                        \/ Present(id)' /\ live'[id] # NoEntry /\ live'[id].cid = d
      BY <1>5 DEF Reachable, Loose
    <3>1. \/ \E u \in Clients : d \in {task[u].cid, task[u].held}
          \/ Present(id) /\ live[id] # NoEntry /\ live[id].cid = d
      BY <1>2 DEF VmInv, Reachable, Loose
    <3>2. ASSUME live[id] # NoEntry, live[id].cid = d PROVE live'[id] # NoEntry
      BY <1>4, <1>v, <3>2 DEF Loose
    <3> QED
      BY <1>v, <3>1, <3>2 DEF MonitorFrame
  <2>3. /\ Present(id)' <=> Present(id)
        /\ Present(id) => vms'[id].cid = c /\ vms[id].cid = c
        /\ owner' = owner
    BY <1>3, <1>5, <1>v DEF MonitorFrame
  <2>4. Present(id)' => IF vms'[id].cid = 0 THEN vms'[id].state # "Running" ELSE owner'[vms'[id].cid] = id
    BY <1>1, <1>6, <2>3
  <2>5. live'[id] # NoEntry => Present(id)' /\ vms'[id].cid = live'[id].cid
    BY <1>4, <1>v, <2>3
  <2>6. Present(id)' => vms'[id].exit \in {0, vms'[id].cid}
    BY <1>2, <1>v, <2>3 DEF VmInv
  <2>7. \A d \in Cids : owner'[d] = id => Watches(d)' /\ Reachable(d)'
    BY <1>v, <2>1, <2>2, <2>3
  <2>8. VmInv(id)'
    BY <1>v, <2>4, <2>5, <2>6, <2>7 DEF VmInv
  <2> QED
    BY <1>0, <1>1, <1>v, <2>8, MonitorOthers
<1>7. CASE MonitorTakes(c)
  <2>1. vms' = vms /\ mon[c].pc = "take"
    BY <1>7 DEF MonitorTakes
  <2>2. CASE live[id] # NoEntry /\ live[id].rx
    <3>1. /\ mon' = [mon EXCEPT ![c].pc = "await", ![c].rx = live[id].cid]
          /\ live' = [live EXCEPT ![id].rx = FALSE]
      BY <1>1, <1>7, <2>2 DEF MonitorTakes
    <3>2. mon'[c].pc = "await" /\ mon'[c].rx = c /\ \A d \in Cids \ {c} : mon'[d] = mon[d]
      BY <1>4, <1>6, <2>2, <3>1, MonitorSetsRx DEF MonPcs
    <3>3. live'[id] # NoEntry /\ live'[id].cid = c /\ \A i \in Ids \ {id} : live'[i] = live[i]
      <4> DEFINE r == [live[id] EXCEPT !.rx = FALSE]
      <4>1. live[id] \in VmLiveState /\ live \in [Ids -> VmLiveState \cup {NoEntry}]
        BY <1>1, <2>2 DEF TypeInv, TypeOK
      <4>2. r \in VmLiveState /\ r.cid = live[id].cid
        BY <4>1 DEF VmLiveState
      <4>3. live' = [live EXCEPT ![id] = r]
        BY <3>1
      <4> HIDE DEF r
      <4> QED BY <1>4, <2>2, <4>1, <4>2, <4>3, EntryAssumption
    <3>4. MonitorFrame(c, id)
      BY <1>5, <2>1, <2>2, <3>2, <3>3 DEF MonitorFrame, Present
    <3>5. Watches(c)'
      BY <1>1, <1>3, <1>5, <2>1, <3>2 DEF Watches, Present
    <3>6. ~Busy(id)' => Agree(id)'
      <4>1. ~Busy(id)' => Agree(id)
        BY <1>2, <1>5 DEF VmInv, Busy
      <4>2. Agree(id) => Present(id) /\ vms[id].state = "Running"
        BY <2>2 DEF Agree
      <4> QED
        BY <1>3, <2>1, <3>3, <4>1, <4>2 DEF Agree, Present
    <3> QED
      BY <1>4, <1>v, <2>1, <2>2, <3>3, <3>4, <3>5, <3>6
  <2>3. CASE ~(live[id] # NoEntry /\ live[id].rx)
    <3>1. mon' = [mon EXCEPT ![c].pc = "done"] /\ live' = live
      BY <1>1, <1>7, <2>3 DEF MonitorTakes
    <3>2. mon'[c].pc = "done" /\ \A d \in Cids \ {c} : mon'[d] = mon[d]
      BY <1>6, <3>1, MonitorSets DEF MonPcs
    <3>3. MonitorFrame(c, id)
      BY <1>5, <2>1, <3>1, <3>2 DEF MonitorFrame, Present
    <3>4. Watches(c)'
      BY <3>2 DEF Watches, Active
    <3>5. ~Busy(id)' => Agree(id)'
      <4>1. ~Busy(id)' => Agree(id)
        BY <1>2, <1>5 DEF VmInv, Busy
      <4> QED
        BY <1>3, <2>1, <3>1, <4>1 DEF Agree, Present
    <3> QED
      BY <1>v, <2>1, <3>1, <3>3, <3>4, <3>5
  <2> QED BY <2>2, <2>3
<1>8. CASE MonitorClaims(c)
  <2>1. /\ vms' = vms /\ mon[c].pc = "await" /\ thread[c] = "exited"
        /\ live' = [live EXCEPT ![id] = NoEntry]
    BY <1>1, <1>3, <1>8 DEF MonitorClaims
  <2>2. live'[id] = NoEntry /\ \A i \in Ids \ {id} : live'[i] = live[i]
    BY <2>1 DEF TypeInv, TypeOK
  <2>3. CASE live[id] = NoEntry
    <3>1. mon' = [mon EXCEPT ![c].pc = "ensure"]
      BY <1>1, <1>8, <2>3 DEF MonitorClaims
    <3>2. mon'[c].pc = "ensure" /\ \A d \in Cids \ {c} : mon'[d] = mon[d]
      BY <1>6, <3>1, MonitorSets DEF MonPcs
    <3>3. MonitorFrame(c, id)
      BY <1>5, <2>1, <2>2, <3>2 DEF MonitorFrame, Present
    <3>4. Watches(c)'
      BY <1>1, <1>3, <1>5, <2>1, <2>2, <3>2 DEF Watches, Present
    <3>5. ~Busy(id)' => Agree(id)'
      <4>1. ~Busy(id)' => Agree(id)
        BY <1>2, <1>5 DEF VmInv, Busy
      <4> QED
        BY <1>3, <2>1, <2>2, <2>3, <4>1 DEF Agree, Present
    <3> QED
      BY <1>v, <2>1, <2>2, <2>3, <3>3, <3>4, <3>5
  <2>4. CASE live[id] # NoEntry
    <3>1. mon' = [mon EXCEPT ![c].pc = "mark", ![c].held = live[id].cid]
      BY <1>1, <1>8, <2>4 DEF MonitorClaims
    <3>2. mon'[c].pc = "mark" /\ mon'[c].held = c /\ \A d \in Cids \ {c} : mon'[d] = mon[d]
      BY <1>4, <1>6, <2>4, <3>1, MonitorSetsHeld DEF MonPcs
    <3>3. MonitorFrame(c, id)
      BY <1>5, <2>1, <2>2, <3>2 DEF MonitorFrame, Present
    <3>4. Watches(c)'
      BY <1>1, <1>3, <1>5, <2>1, <2>2, <3>2 DEF Watches, Present
    <3>5. ~Busy(id)' => Agree(id)'
      BY <1>3, <2>1, <2>2, <3>2 DEF Agree, Present
    <3> QED
      BY <1>v, <2>1, <2>2, <3>3, <3>4, <3>5
  <2> QED BY <2>3, <2>4
<1>9. CASE MonitorMarks(c)
  <2>1. /\ live' = live /\ mon[c].pc = "mark" /\ vms' = WithExit(id, "Stopped", c)
        /\ mon' = [mon EXCEPT ![c].pc = "join"]
    BY <1>1, <1>3, <1>9 DEF MonitorMarks
  <2>2. mon'[c].pc = "join" /\ mon'[c].held = c /\ \A d \in Cids \ {c} : mon'[d] = mon[d]
    BY <1>3, <1>6, <2>1, MonitorSets DEF MonPcs
  <2>3. Present(id) => Shows(id, "Stopped", vms[id].cid, c)
    BY <2>1, <1>s DEF VmStates
  <2>4. ~Present(id) => vms' = vms
    BY <2>1 DEF WithExit
  <2>5. MonitorFrame(c, id)
    BY <1>5, <2>1, <2>2, <2>3, <2>4 DEF MonitorFrame, Present, Shows
  <2>6. Watches(c)'
    BY <1>1, <1>3, <1>5, <2>1, <2>2, <2>5 DEF Watches, MonitorFrame
  <2>7. Agree(id)'
    BY <1>3, <2>1, <2>3, <2>4 DEF Agree, Present, Shows
  <2> QED
    BY <1>v, <2>1, <2>3, <2>5, <2>6, <2>7 DEF Shows
<1>10. CASE MonitorCleans(c)
  <2>1. live' = live /\ vms' = vms /\ mon[c].pc = "join" /\ mon' = [mon EXCEPT ![c].pc = "done"]
    BY <1>10 DEF MonitorCleans, mapVars
  <2>2. mon'[c].pc = "done" /\ \A d \in Cids \ {c} : mon'[d] = mon[d]
    BY <1>6, <2>1, MonitorSets DEF MonPcs
  <2>3. MonitorFrame(c, id)
    BY <1>5, <2>1, <2>2 DEF MonitorFrame, Present
  <2>4. Watches(c)'
    BY <2>2 DEF Watches, Active
  <2>5. ~Busy(id)' => Agree(id)'
    <3>1. ~Busy(id)' => Agree(id)
      BY <1>2, <1>5 DEF VmInv, Busy
    <3> QED
      BY <1>3, <2>1, <3>1 DEF Agree, Present
  <2> QED
    BY <1>v, <2>1, <2>3, <2>4, <2>5
<1>11. CASE MonitorEnsures(c)
  <2>1. /\ live' = live /\ mon[c].pc = "ensure" /\ mon' = [mon EXCEPT ![c].pc = "done"]
        /\ live[id] = NoEntry
    BY <1>3, <1>11 DEF MonitorEnsures
  <2>2. mon'[c].pc = "done" /\ \A d \in Cids \ {c} : mon'[d] = mon[d]
    BY <1>6, <2>1, MonitorSets DEF MonPcs
  <2>3. CASE Present(id) /\ vms[id].state = "Running"
    <3>1. Shows(id, "Stopped", vms[id].cid, vms[id].exit)
      BY <1>1, <1>11, <2>3, <1>s DEF MonitorEnsures, VmStates
    <3>2. MonitorFrame(c, id)
      BY <1>5, <2>1, <2>2, <2>3, <3>1 DEF MonitorFrame, Present, Shows
    <3>3. Watches(c)'
      BY <2>2 DEF Watches, Active
    <3>4. Agree(id)'
      BY <2>1, <3>1 DEF Agree, Present, Shows
    <3> QED
      BY <1>v, <2>1, <3>1, <3>2, <3>3, <3>4 DEF Shows
  <2>4. CASE ~(Present(id) /\ vms[id].state = "Running")
    <3>1. vms' = vms
      BY <1>1, <1>11, <2>4 DEF MonitorEnsures
    <3>2. MonitorFrame(c, id)
      BY <1>5, <2>1, <2>2, <3>1 DEF MonitorFrame, Present
    <3>3. Watches(c)'
      BY <2>2 DEF Watches, Active
    <3>4. Agree(id)'
      BY <2>1, <2>4, <3>1 DEF Agree, Present
    <3> QED
      BY <1>v, <2>1, <3>1, <3>2, <3>3, <3>4
  <2> QED BY <2>3, <2>4
<1> QED
  BY <1>7, <1>8, <1>9, <1>10, <1>11 DEF MonitorStep

\* A vCPU thread that ends.
LEMMA ExitSeqInv ==
  ASSUME TypeInv, SeqInv, NEW c \in Cids, ThreadExits(c)
  PROVE  SeqInv'
<1>1. /\ thread[c] = "running" /\ thread' = [thread EXCEPT ![c] = "exited"]
      /\ UNCHANGED <<vms, live, issued, nextCid, owner, kill, acked, mon, task>>
  BY DEF ThreadExits, mapVars
<1>2. thread'[c] = "exited" /\ \A d \in Cids \ {c} : thread'[d] = thread[d]
  BY <1>1 DEF TypeInv, TypeOK
<1>3. FreshInv'
  BY <1>1, <1>2 DEF SeqInv, FreshInv, Present
<1>4. ASSUME NEW id \in Ids PROVE VmInv(id)'
  <2>1. VmInv(id) /\ (Present(id)' <=> Present(id)) /\ (~Busy(id)' => ~Busy(id))
    BY <1>1 DEF SeqInv, Present, Busy
  <2>2. \A d \in Cids : owner[d] = id => Watches(d)' /\ Reachable(d)'
    <3> SUFFICES ASSUME NEW d \in Cids, owner[d] = id PROVE Watches(d)' /\ Reachable(d)'
      OBVIOUS
    <3>1. Watches(d) /\ Reachable(d)
      BY <2>1 DEF VmInv
    <3>2. (thread'[d] = "running" => thread[d] = "running") /\ (thread[d] = "exited" => thread'[d] = "exited")
      BY <1>2
    <3>3. Watches(d)'
      BY <1>1, <2>1, <3>1, <3>2 DEF Watches, Active
    <3>4. Reachable(d)'
      BY <1>1, <2>1, <3>1, <3>2 DEF Reachable
    <3> QED BY <3>3, <3>4
  <2>3. ~Busy(id)' => Agree(id)'
    BY <1>1, <2>1 DEF VmInv, Agree, Present
  <2> QED
    BY <1>1, <2>1, <2>2, <2>3 DEF VmInv
<1>5. ASSUME NEW t \in Clients PROVE TaskInv(t)'
  <2>1. TaskInv(t) /\ task' = task
    BY <1>1 DEF SeqInv
  <2>2. Booting(t) => task[t].cid \in Cids
    BY DEF TypeInv, TaskOK, Booting
  <2>3. task[t].held \in Cids \cup {0}
    BY TaskFields DEF TypeInv, TypeOK
  <2>4. \A d \in Cids : thread'[d] = "running" => thread[d] = "running"
    BY <1>2
  <2>5. \A d \in Cids : Active(d)' <=> Active(d)
    BY <1>1 DEF Active
  <2>6. Booting(t) => BootTask(t)'
    BY <1>1, <2>1, <2>2, <2>4, <2>5 DEF TaskInv, BootTask, Booting
  <2>7. task[t].op \in StopOps => StopTask(t)'
    BY <1>1, <2>1, <2>3, <2>4 DEF TaskInv, StopTask
  <2> QED
    BY <1>1, <2>1, <2>6, <2>7 DEF TaskInv, Booting, Present
<1> QED
  BY <1>3, <1>4, <1>5 DEF SeqInv

\* A restored backend satisfies the invariant.
LEMMA InitSeqInv == Init => SeqInv
<1> SUFFICES ASSUME Init PROVE SeqInv
  OBVIOUS
<1>1. /\ live = [i \in Ids |-> NoEntry] /\ owner = [d \in Cids |-> None]
      /\ thread = [d \in Cids |-> "none"] /\ mon = [d \in Cids |-> NoMonitor]
      /\ task = [t \in Clients |-> Idle]
  BY DEF Init
<1>2. \A id \in Ids : Present(id) => id \in issued /\ vms[id].state = "Stopped" /\ vms[id].cid = 0 /\ vms[id].exit = 0
  <2>1. PICK restored \in SUBSET Ids : \E nm \in [restored -> Names] :
          /\ issued = restored
          /\ vms = [i \in Ids |-> IF i \in restored
                  THEN [state |-> "Stopped", name |-> nm[i], cid |-> 0, exit |-> 0]
                  ELSE NoEntry]
    BY DEF Init
  <2>2. PICK nm \in [restored -> Names] :
          vms = [i \in Ids |-> IF i \in restored
                  THEN [state |-> "Stopped", name |-> nm[i], cid |-> 0, exit |-> 0]
                  ELSE NoEntry]
    BY <2>1
  <2>3. ASSUME NEW id \in Ids, vms[id] # NoEntry
        PROVE  id \in restored /\ vms[id].state = "Stopped" /\ vms[id].cid = 0 /\ vms[id].exit = 0
    <3> DEFINE r == [state |-> "Stopped", name |-> nm[id], cid |-> 0, exit |-> 0]
    <3>1. id \in restored /\ vms[id] = r
      BY <2>2, <2>3
    <3>2. r.state = "Stopped" /\ r.cid = 0 /\ r.exit = 0
      OBVIOUS
    <3> HIDE DEF r
    <3> QED BY <3>1, <3>2
  <2>4. issued = restored
    BY <2>1
  <2> QED
    BY <2>3, <2>4 DEF Present
<1>3. FreshInv
  BY <1>1, <1>2, BackendAssumption DEF FreshInv, NoMonitor
<1>4. \A id \in Ids : VmInv(id)
  BY <1>1, <1>2, BackendAssumption DEF VmInv, Agree
<1>5. \A t \in Clients : TaskInv(t)
  BY <1>1, IdleFacts DEF TaskInv, Booting, BootOps, StopOps
<1> QED
  BY <1>3, <1>4, <1>5 DEF SeqInv

-----------------------------------------------------------------------------
(* The theorem.                                                            *)

\* The backend is asked by one client, which starts a VM only when the monitors
\* of its earlier boots have finished.
OneClient == Prompt /\ \A t, u \in Clients : t = u

\* The invariant is inductive, given the types.
LEMMA NextSeqInv == OneClient /\ TypeInv /\ SeqInv /\ [Next]_vars => SeqInv'
<1> SUFFICES ASSUME OneClient, TypeInv, SeqInv, [Next]_vars PROVE SeqInv'
  OBVIOUS
<1>1. CASE UNCHANGED vars
  <2>1. UNCHANGED <<vms, live, issued, nextCid, owner, thread, kill, acked, mon, task>>
    BY <1>1 DEF vars, mapVars, bootVars
  <2>2. FreshInv'
    BY <2>1 DEF SeqInv, FreshInv, Present
  <2>3. \A id \in Ids : VmInv(id)'
    <3> SUFFICES ASSUME NEW id \in Ids PROVE VmInv(id)'
      OBVIOUS
    <3>1. VmInv(id) /\ (Present(id)' <=> Present(id)) /\ (Busy(id)' <=> Busy(id))
      BY <2>1 DEF SeqInv, Present, Busy
    <3>2. ~Busy(id)' => Agree(id)'
      BY <2>1, <3>1 DEF VmInv, Agree
    <3>3. \A c \in Cids : owner[c] = id => Watches(c)' /\ Reachable(c)'
      <4> SUFFICES ASSUME NEW c \in Cids, owner[c] = id PROVE Watches(c)' /\ Reachable(c)'
        OBVIOUS
      <4>1. Watches(c) /\ Reachable(c)
        BY <3>1 DEF VmInv
      <4>2. Watches(c)'
        BY <2>1, <3>1, <4>1 DEF Watches, Active
      <4>3. Reachable(c)'
        BY <2>1, <3>1, <4>1 DEF Reachable
      <4> QED BY <4>2, <4>3
    <3> QED
      BY <2>1, <3>1, <3>2, <3>3 DEF VmInv
  <2>4. \A t \in Clients : TaskInv(t)'
    BY <2>1 DEF SeqInv, TaskInv, BootTask, StopTask, Booting, Active, Present
  <2> QED
    BY <2>2, <2>3, <2>4 DEF SeqInv
<1>2. ASSUME NEW t \in Clients, Request(t) \/ Step(t) PROVE SeqInv'
  BY <1>2, RequestSeqInv, StepSeqInv DEF OneClient
<1>3. ASSUME NEW c \in Cids, MonitorStep(c) \/ ThreadExits(c) PROVE SeqInv'
  BY <1>3, MonitorSeqInv, ExitSeqInv
<1> QED
  BY <1>1, <1>2, <1>3 DEF Next

\* The invariant is what the property asks for.
LEMMA SeqInvTruthful == TypeInv /\ SeqInv => BootTruthful
<1> SUFFICES ASSUME TypeInv, SeqInv PROVE BootTruthful
  OBVIOUS
<1>1. NoOrphan
  <2> SUFFICES ASSUME NEW c \in Cids, thread[c] = "running", ~kill[c], ~acked[c]
               PROVE  Reachable(c)
    BY DEF NoOrphan, Reachable
  <2>1. owner[c] \in Ids
    BY DEF SeqInv, FreshInv
  <2> QED
    BY <2>1 DEF SeqInv, VmInv
<1>2. MapsAgree
  BY DEF MapsAgree, SeqInv, VmInv, Agree
<1>3. ExitOfThisBoot
  BY DEF ExitOfThisBoot, SeqInv, VmInv, Present
<1> QED
  BY <1>1, <1>2, <1>3 DEF BootTruthful

\* With one client that lets the monitors finish, no vCPU thread runs that
\* nothing would stop, the maps of entries and of live states agree between
\* requests, and the exit code shown is that of the present boot
\* (backend.rs boot_and_register, start, stop and spawn_vm_monitor).
THEOREM BootIsTruthful ==
  ASSUME OneClient PROVE Spec => []BootTruthful
<1>1. TypeInv /\ SeqInv /\ [Next]_vars => TypeInv' /\ SeqInv'
  BY NextTypeInv, NextSeqInv
<1> QED
  BY <1>1, InitTypeInv, InitSeqInv, SeqInvTruthful, PTL DEF Spec
=============================================================================
