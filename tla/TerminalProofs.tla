--------------------------- MODULE TerminalProofs ---------------------------
(***************************************************************************)
(* The terminal's loop, for every finite set of VMs: what the frame shows  *)
(* is still so when the key is read, and what was confirmed is what the    *)
(* dialog said when the key was pressed.                                   *)
(***************************************************************************)
EXTENDS Terminal, FiniteSetTheorems, SequenceTheorems, TLAPS

(* The leaves are first-order and go to Zenon; those that count cite the   *)
(* SMT solver.                                                            *)
USE ZenonT(60)

Requests == [verb : {"none", "stop", "kill", "delete"}, id : TermVms \union {"none"}]
Strokes == [seen : Requests, ahead : BOOLEAN]
Rows == [id : TermVms, st : {"none", "running", "stopped"}]

RowsInv ==
  /\ daemonVms \in [TermVms -> {"none", "running", "stopped"}]
  /\ rows \in Seq(Rows) /\ selected \in Nat /\ MarkInList

(* The frame shows the dialog that is open, or one that was answered since. *)
FrameInv ==
  /\ pending \in Requests /\ confirmed \in Requests /\ frame.dialog \in Requests
  /\ frame.dialog # NoneYet => pending \in {NoneYet, frame.dialog}
  /\ loop = "key" => /\ frame.dialog = pending /\ confirmed = NoneYet
                     /\ view # "logs" => frame.sel = SelectedVm
  /\ confirmed # NoneYet =>
       /\ loop = "act" /\ confirmed = frame.dialog
       /\ key.seen # NoneYet /\ ~key.ahead => confirmed = key.seen

(* A key that was pressed alone, on a dialog, still meets that dialog.      *)
Fits(k, p) == k.seen # NoneYet /\ ~k.ahead => p \in {NoneYet, k.seen}
KeysInv ==
  /\ buffered \in Seq(Strokes)
  /\ \A i \in 2..Len(buffered) : buffered[i].ahead
  /\ buffered # <<>> => Fits(buffered[1], pending)

TermInv == RowsInv /\ FrameInv /\ KeysInv

(* The answer of the daemon is a list of VMs, in some order.                *)
LEMMA PollIsList ==
  ASSUME NEW vms, NEW ids \in PollVms(vms)
  PROVE  ids \in Seq(TermVms)
<1> DEFINE S == {v \in TermVms : vms[v] # "none"}
<1>1. IsFiniteSet(S)
  BY TermBounds, FS_Subset
<1>2. PICK n \in Nat : n = Cardinality(S)
  BY <1>1, FS_CardinalityType
<1>3. ids \in [1..n -> S]
  BY <1>2 DEF PollVms, SetToSeqs
<1>4. ids \in [1..n -> TermVms]
  BY <1>3
<1> HIDE DEF S
<1> QED BY <1>4, SMTT(60)

(* set_vms keeps the mark on a row.                                         *)
LEMMA SetVmsKeeps ==
  ASSUME NEW vms \in [TermVms -> {"none", "running", "stopped"}], NEW ids \in Seq(TermVms),
         selected \in Nat, selected > 0, SetVms(ids, vms)
  PROVE  rows' \in Seq(Rows) /\ selected' \in Nat /\ MarkInList'
<1>1. PICK n \in Nat : n = Len(ids) /\ ids \in [1..n -> TermVms] /\ DOMAIN ids = 1..n
  BY LenProperties
<1>2. \A k \in 1..n : [id |-> ids[k], st |-> vms[ids[k]]] \in Rows
  BY <1>1 DEF Rows
<1>3. rows' = [k \in 1..n |-> [id |-> ids[k], st |-> vms[ids[k]]]]
  BY <1>1 DEF SetVms
<1>4. rows' \in [1..n -> Rows] /\ DOMAIN rows' = 1..n
  BY <1>2, <1>3
<1>5. rows' \in Seq(Rows)
  BY <1>4, SMTT(60)
<1>6. CASE n = 0
  <2>1. ids = <<>> /\ rows' = <<>>
    BY <1>1, <1>4, <1>5, <1>6, EmptySeq, LenProperties, SMTT(60)
  <2> QED BY <2>1, <1>5 DEF SetVms, MarkInList
<1>7. CASE n > 0
  <2>1. ids # <<>>
    BY <1>1, <1>7, EmptySeq, SMTT(60)
  <2>2. selected' = IF selected > n THEN n ELSE selected
    BY <1>1, <2>1 DEF SetVms
  <2>3. selected' \in Nat /\ selected' \in 1..n
    BY <2>2, <1>7, SMTT(60)
  <2> QED BY <2>3, <1>4, <1>5 DEF MarkInList
<1> QED BY <1>6, <1>7, SMTT(60)

(* A refreshed list has the mark in it. *)
LEMMA RefreshKeeps ==
  ASSUME RowsInv, NEW vms \in [TermVms -> {"none", "running", "stopped"}], Refresh(vms)
  PROVE  rows' \in Seq(Rows) /\ selected' \in Nat /\ MarkInList'
<1>1. selected > 0
  BY LenProperties, SMTT(60) DEF RowsInv, MarkInList
<1>2. CASE UNCHANGED <<rows, selected>>
  BY <1>2 DEF RowsInv, MarkInList
<1>3. ASSUME NEW ids \in PollVms(vms), SetVms(ids, vms)
      PROVE  rows' \in Seq(Rows) /\ selected' \in Nat /\ MarkInList'
  BY <1>1, <1>3, PollIsList, SetVmsKeeps DEF RowsInv
<1> QED BY <1>2, <1>3 DEF Refresh

(* A request names the VM of the frame it was made on. *)
LEMMA SendsKeeps ==
  ASSUME RowsInv, NEW verb, NEW id, Sends(verb, id)
  PROVE  RowsInv'
<1>1. daemonVms' \in [TermVms -> {"none", "running", "stopped"}]
  BY DEF Sends, RowsInv
<1> QED BY <1>1, RefreshKeeps DEF Sends, RowsInv

(* Every step keeps the mark in the list. *)
LEMMA RowsStep == TermInv /\ [TermNext]_termVars => RowsInv'
<1> SUFFICES ASSUME TermInv, [TermNext]_termVars PROVE RowsInv'
  OBVIOUS
<1> USE DEF TermInv
<1>1. CASE UNCHANGED <<rows, selected>> /\ daemonVms' \in [TermVms -> {"none", "running", "stopped"}]
  BY <1>1 DEF RowsInv, MarkInList
<1>2. CASE DaemonChanges
  BY <1>2, <1>1 DEF DaemonChanges, appVars, RowsInv
<1>2a. CASE Press
  BY <1>2a, <1>1 DEF Press, appVars, RowsInv
<1>3. CASE Poll
  <2>1. ASSUME NEW ids \in PollVms(daemonVms), SetVms(ids, daemonVms)
        PROVE  rows' \in Seq(Rows) /\ selected' \in Nat /\ MarkInList'
    <3>1. selected > 0
      BY LenProperties, SMTT(60) DEF RowsInv, MarkInList
    <3> QED BY <2>1, <3>1, PollIsList, SetVmsKeeps DEF RowsInv
  <2>2. CASE UNCHANGED <<rows, selected>>
    BY <1>3, <2>2, <1>1 DEF Poll, RowsInv
  <2>3. CASE Refresh(daemonVms)
    BY <1>3, <2>3, RefreshKeeps DEF Poll, RowsInv
  <2> QED BY <1>3, <2>1, <2>2, <2>3 DEF Poll, RowsInv
<1>4. CASE Draw \/ Quits \/ NoKey \/ UNCHANGED termVars
  BY <1>4, <1>1 DEF Draw, Quits, NoKey, appVars, termVars, RowsInv
<1>5. CASE Act
  <2>1. CASE UNCHANGED <<daemonVms, rows, selected, logs, sent>>
    BY <2>1, <1>1 DEF RowsInv
  <2> QED BY <1>5, <2>1, SendsKeeps DEF Act
<1>6. CASE Key
  <2>1. CASE DialogKey \/ ChangesView \/ TogglesLogs \/ AsksToAct \/ OpensForm
    BY <2>1, <1>1 DEF DialogKey, ChangesView, TogglesLogs, AsksToAct, OpensForm, RowsInv
  <2>2. CASE FormKey
    <3>1. daemonVms' \in [TermVms -> {"none", "running", "stopped"}]
      BY <2>2 DEF FormKey, RowsInv
    <3> QED BY <2>2, <3>1, RefreshKeeps DEF FormKey, RowsInv
  <2>3. CASE StartsSelected \/ OpensSurface
    BY <2>3, SendsKeeps DEF StartsSelected, OpensSurface
  <2>4. CASE MovesMark
    <3>1. PICK n \in Nat : n = Len(rows) /\ DOMAIN rows = 1..n
      BY LenProperties DEF RowsInv
    <3>2. /\ UNCHANGED <<daemonVms, rows>>
          /\ \/ selected < n /\ selected' = selected + 1
             \/ selected > 1 /\ selected' = selected - 1
      BY <2>4, <3>1 DEF MovesMark
    <3>3. selected \in 1..n
      <4>1. CASE rows = <<>> /\ selected = 1
        BY <4>1, <3>1, <3>2, EmptySeq, SMTT(60)
      <4> QED BY <4>1, <3>1 DEF RowsInv, MarkInList
    <3>4. selected' \in Nat /\ selected' \in 1..n
      BY <3>2, <3>3, SMTT(60)
    <3> QED BY <3>1, <3>2, <3>4 DEF RowsInv, MarkInList
  <2> QED BY <1>6, <2>1, <2>2, <2>3, <2>4 DEF Key
<1> QED BY <1>2, <1>2a, <1>3, <1>4, <1>5, <1>6 DEF TermNext

(* Refreshing the list keeps the logs with their VM. *)
LEMMA LogsFollow ==
  ASSUME NEW vms, Refresh(vms)
  PROVE  logs'.id = logs.id
<1> DEFINE Same(n) == rows'[n].id = logs.id
<1>1. (\E n \in DOMAIN rows' : Same(n)) => Same(CHOOSE n \in DOMAIN rows' : Same(n))
  OBVIOUS
<1> QED BY <1>1 DEF Refresh, LogsIn

(* The answer about one VM is about that VM. *)
LEMMA PollVmIs == \A v : \A q \in PollVm(v) : q.id = v
<1> SUFFICES ASSUME NEW v, NEW q \in PollVm(v) PROVE q.id = v
  OBVIOUS
<1>1. q = [id |-> v, st |-> daemonVms[v]]
  BY DEF PollVm
<1> QED BY <1>1

(* The mark is on a VM, or nowhere. *)
LEMMA SelectedIs == RowsInv => SelectedVm \in TermVms \union {"none"}
<1>1. ASSUME RowsInv, selected \in DOMAIN rows PROVE rows[selected] \in Rows
  BY <1>1, LenProperties, ElementOfSeq, SMTT(60) DEF RowsInv
<1> QED BY <1>1 DEF SelectedVm, Rows

(* The keys wait in the order they were pressed. *)
LEMMA KeysStep == TermInv /\ [TermNext]_termVars => KeysInv'
<1> SUFFICES ASSUME TermInv, [TermNext]_termVars PROVE KeysInv'
  OBVIOUS
<1> USE DEF TermInv
<1>1. CASE UNCHANGED <<buffered, pending>>
  BY <1>1 DEF KeysInv
<1>2. CASE DaemonChanges \/ Poll \/ Draw \/ Act \/ UNCHANGED termVars
  BY <1>2, <1>1 DEF DaemonChanges, Poll, Draw, Act, appVars, keyboard, termVars
<1>3. CASE Press
  <2> DEFINE e == [seen |-> frame.dialog, ahead |-> buffered # <<>>]
  <2>1. e \in Strokes /\ e.seen = frame.dialog /\ (e.ahead <=> buffered # <<>>)
    BY DEF Strokes, FrameInv
  <2>2. buffered' = Append(buffered, e) /\ pending' = pending
    BY <1>3 DEF Press, appVars
  <2> HIDE DEF e
  <2>3. /\ buffered' \in Seq(Strokes) /\ Len(buffered') = Len(buffered) + 1
        /\ \A i \in 1..Len(buffered) : buffered'[i] = buffered[i]
        /\ buffered'[Len(buffered) + 1] = e
    BY <2>1, <2>2, SMTT(60) DEF KeysInv
  <2>4. PICK n \in Nat : n = Len(buffered)
    BY LenProperties DEF KeysInv
  <2>5. CASE n = 0
    <3>1. buffered = <<>>
      BY <2>4, <2>5, EmptySeq DEF KeysInv
    <3>2. buffered'[1] = e /\ 2..Len(buffered') = {}
      BY <2>3, <2>4, <2>5, SMTT(60)
    <3>3. Fits(e, pending)
      BY <2>1, <3>1 DEF Fits, FrameInv
    <3> QED BY <2>2, <2>3, <3>2, <3>3 DEF KeysInv
  <2>6. CASE n > 0
    <3>1. buffered # <<>> /\ e.ahead
      BY <2>1, <2>4, <2>6, EmptySeq, SMTT(60)
    <3>2. buffered'[1] = buffered[1]
      BY <2>3, <2>4, <2>6, SMTT(60)
    <3>3. ASSUME NEW i \in 2..Len(buffered') PROVE buffered'[i].ahead
      <4>1. i \in 2..n \/ i = n + 1
        BY <2>3, <2>4, SMTT(60)
      <4>2. CASE i \in 2..n
        <5>1. buffered'[i] = buffered[i]
          BY <2>3, <2>4, <4>2, SMTT(60)
        <5> QED BY <5>1, <4>2, <2>4 DEF KeysInv
      <4>3. CASE i = n + 1
        BY <4>3, <2>3, <2>4, <3>1
      <4> QED BY <4>1, <4>2, <4>3
    <3> QED BY <2>2, <2>3, <3>1, <3>2, <3>3 DEF KeysInv
  <2> QED BY <2>4, <2>5, <2>6, SMTT(60)
<1>4. CASE Reads
  <2>1. PICK n \in Nat : n = Len(buffered) /\ n > 0
    BY <1>4, LenProperties, EmptySeq, SMTT(60) DEF Reads, KeysInv
  <2>2. /\ buffered' \in Seq(Strokes) /\ Len(buffered') = n - 1
        /\ \A i \in 1..(n - 1) : buffered'[i] = buffered[i + 1]
    BY <1>4, <2>1, SMTT(60) DEF Reads, KeysInv
  <2>3. ASSUME NEW i \in 1..(n - 1) PROVE buffered'[i].ahead
    <3>1. i + 1 \in 2..Len(buffered)
      BY <2>1, SMTT(60)
    <3> QED BY <3>1, <2>2 DEF KeysInv
  <2>4. buffered' # <<>> => buffered'[1].ahead
    <3>1. buffered' # <<>> => 1 \in 1..(n - 1)
      BY <2>1, <2>2, EmptySeq, SMTT(60)
    <3> QED BY <3>1, <2>3
  <2>5. \A i \in 2..Len(buffered') : buffered'[i].ahead
    <3>1. \A i \in 2..Len(buffered') : i \in 1..(n - 1)
      BY <2>1, <2>2, SMTT(60)
    <3> QED BY <3>1, <2>3
  <2> QED BY <2>2, <2>4, <2>5 DEF KeysInv, Fits
<1> QED BY <1>1, <1>2, <1>3, <1>4 DEF TermNext, Key, Quits, NoKey, appVars

(* Every step keeps what the frame shows, and acts only on it. *)
LEMMA FrameStep ==
  ASSUME TermInv, [TermNext]_termVars
  PROVE  FrameInv' /\ (UNCHANGED termVars \/ (ActsOnShown /\ LogsStay))
<1> USE DEF TermInv
<1>0. NoneYet \in Requests
  BY DEF Requests, NoneYet
<1>1. CASE UNCHANGED termVars
  BY <1>1 DEF termVars, FrameInv, SelectedVm
<1>2. CASE DaemonChanges
  BY <1>2 DEF DaemonChanges, appVars, keyboard, FrameInv, SelectedVm, ActsOnShown, LogsStay
<1>2a. CASE Press
  BY <1>2a DEF Press, appVars, FrameInv, SelectedVm, ActsOnShown, LogsStay
<1>3. CASE Poll
  <2>1. logs'.id = logs.id
    BY <1>3, LogsFollow, PollVmIs DEF Poll
  <2> QED BY <1>3, <2>1 DEF Poll, keyboard, FrameInv, ActsOnShown, LogsStay
<1>4. CASE Draw
  <2>1. UNCHANGED <<appVars, sent>> /\ loop = "draw" /\ loop' = "key" /\ frame'.dialog = pending
        /\ (view # "logs" => frame'.sel = SelectedVm)
    BY <1>4 DEF Draw
  <2> QED BY <2>1 DEF appVars, FrameInv, SelectedVm, ActsOnShown, LogsStay
<1>5. CASE Quits \/ NoKey
  BY <1>5 DEF Quits, NoKey, appVars, FrameInv, ActsOnShown, LogsStay
<1>6. CASE Act
  <2>1. /\ UNCHANGED <<view, pending, frame>> /\ loop = "act" /\ loop' = "poll" /\ confirmed' = NoneYet
        /\ UNCHANGED sent \/ (confirmed # NoneYet /\ sent' = [verb |-> confirmed.verb, id |-> confirmed.id])
        /\ logs'.id = logs.id
    BY <1>6, LogsFollow DEF Act, Sends
  <2>2. sent' = sent \/ (sent' = confirmed /\ confirmed # NoneYet)
    <3>1. \A q \in Requests : q = [verb |-> q.verb, id |-> q.id]
      BY SMTT(60) DEF Requests
    <3>2. confirmed = [verb |-> confirmed.verb, id |-> confirmed.id]
      BY <3>1 DEF FrameInv
    <3> QED BY <2>1, <3>2
  <2> QED BY <1>0, <2>1, <2>2 DEF FrameInv, ActsOnShown, LogsStay
<1>7. CASE Key
  <2>1. /\ loop = "key" /\ loop' = "act" /\ UNCHANGED frame /\ frame.dialog = pending /\ confirmed = NoneYet
        /\ view # "logs" => frame.sel = SelectedVm
        /\ pending \in Requests /\ frame.dialog \in Requests
    BY <1>7 DEF Key, FrameInv
  <2>2. CASE pending # NoneYet /\ DialogKey
    <3>1. Fits(key', pending)
      <4>1. buffered # <<>> /\ key' = buffered[1]
        BY <1>7, SMTT(60) DEF Key, Reads, KeysInv
      <4> QED BY <4>1 DEF KeysInv
    <3>2. /\ confirmed' \in {pending, NoneYet} /\ pending' = NoneYet /\ UNCHANGED <<view, logs, sent>>
      BY <2>1, <2>2 DEF DialogKey
    <3>3. key'.seen # NoneYet /\ ~key'.ahead => pending = key'.seen
      BY <2>2, <3>1 DEF Fits
    <3> QED BY <1>0, <2>1, <3>2, <3>3 DEF FrameInv, ActsOnShown, LogsStay
  <2>3. CASE FormKey \/ MovesMark \/ ChangesView \/ OpensForm
    <3>1. UNCHANGED <<pending, confirmed, sent>> /\ (view' = "logs" => view = "logs" /\ logs'.id = logs.id)
      BY <2>3, LogsFollow DEF FormKey, MovesMark, ChangesView, OpensForm
    <3> QED BY <2>1, <3>1 DEF FrameInv, ActsOnShown, LogsStay
  <2>4. CASE TogglesLogs
    <3>1. UNCHANGED <<pending, confirmed, sent>> /\ (view' = "logs" => view # "logs" /\ logs'.id = SelectedVm)
      <4>1. SelectedVm # "none" => rows[selected].id = SelectedVm
        BY DEF SelectedVm
      <4> QED BY <2>4, <4>1, PollVmIs DEF TogglesLogs
    <3> QED BY <2>1, <3>1 DEF FrameInv, ActsOnShown, LogsStay
  <2>5. CASE pending = NoneYet /\ AsksToAct
    <3>1. PICK verb \in {"stop", "kill", "delete"} : pending' = [verb |-> verb, id |-> SelectedVm]
      BY <2>5 DEF AsksToAct, PrimaryAction
    <3>2. pending' \in Requests
      BY <3>1, SelectedIs DEF Requests
    <3>3. UNCHANGED <<view, logs, confirmed, sent>>
      BY <2>5 DEF AsksToAct
    <3> QED BY <2>1, <2>5, <3>2, <3>3 DEF FrameInv, ActsOnShown, LogsStay
  <2>6. CASE pending = NoneYet /\ (StartsSelected \/ OpensSurface)
    <3>1. PICK verb \in {"start", "surface"} : sent' = [verb |-> verb, id |-> SelectedVm]
      BY <2>6 DEF StartsSelected, OpensSurface, Sends
    <3>2. UNCHANGED <<view, pending, confirmed>> /\ view # "logs"
      BY <2>6 DEF StartsSelected, OpensSurface
    <3>3. ActsOnShown
      BY <2>1, <2>6, <3>1, <3>2 DEF ActsOnShown
    <3> QED BY <2>1, <3>2, <3>3 DEF FrameInv, LogsStay
  <2> QED BY <1>7, <2>2, <2>3, <2>4, <2>5, <2>6 DEF Key
<1> QED BY <1>1, <1>2, <1>2a, <1>3, <1>4, <1>5, <1>6, <1>7 DEF TermNext

(* The first frame is empty. *)
LEMMA TermInitInv == TermInit => TermInv
<1> SUFFICES ASSUME TermInit PROVE TermInv
  OBVIOUS
<1>1. RowsInv
  BY EmptySeq DEF TermInit, RowsInv, MarkInList
<1>2. FrameInv
  BY DEF TermInit, FrameInv, Requests, NoneYet
<1>3. KeysInv
  BY EmptySeq, SMTT(60) DEF TermInit, KeysInv
<1> QED BY <1>1, <1>2, <1>3 DEF TermInv

(* The marked row is a row of the list, however it shrank.                  *)
THEOREM MarkStaysInList == TermSpec => []MarkInList
<1>1. TermInv /\ [TermNext]_termVars => TermInv'
  BY RowsStep, FrameStep, KeysStep DEF TermInv
<1>2. TermInv => MarkInList
  BY DEF TermInv, RowsInv
<1> QED BY <1>1, <1>2, TermInitInv, PTL DEF TermSpec

(* What needs confirming goes to the VM in the dialog the user saw when     *)
(* pressing the key, the rest to the VM marked when the key is read, and a  *)
(* log view stays with the VM it was opened on.                             *)
THEOREM ScreenIsHonest == TermSpec => ScreenHonest
<1>1. TermInv /\ [TermNext]_termVars => TermInv'
  BY RowsStep, FrameStep, KeysStep DEF TermInv
<1>2. TermInv /\ [TermNext]_termVars => [ActsOnShown /\ LogsStay]_termVars
  BY FrameStep
<1> QED BY <1>1, <1>2, TermInitInv, PTL DEF TermSpec, ScreenHonest
=============================================================================
