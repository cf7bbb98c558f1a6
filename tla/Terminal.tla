------------------------------ MODULE Terminal ------------------------------
(* The terminal interface (tui/): one thread that refreshes its list of VMs,   *)
(* draws a frame, takes a key and sends a confirmed action, in that order and  *)
(* over again, while other clients change the VMs on the daemon.  `frame' is   *)
(* what is on the screen; the user presses keys at any time, and the terminal  *)
(* keeps those the thread has not read yet.  Then the form for a new VM, and   *)
(* the thread that listens to the daemon's events.                             *)
EXTENDS Integers, Sequences, FiniteSets, SequencesExt

CONSTANTS TermVms, MaxChanges, MaxKeys, MaxAhead

ASSUME TermBounds ==
  MaxChanges \in Nat /\ MaxKeys \in Nat /\ MaxAhead \in Nat /\ IsFiniteSet(TermVms)

VARIABLES daemonVms,    \* id -> "none", "running" or "stopped"
          rows,         \* App.vms: ids and states, in the order of the last answer
          selected,     \* the index of the marked row, from 1
          logs,         \* App.logs: the VM whose logs are open, as last seen
          view, pending, confirmed, formOpen,
          buffered,        \* keys pressed and not read: the dialog on the screen then,
                        \* and whether other keys were waiting
          key,          \* the key read in this turn of the loop
          frame, loop, sent, changes, keys
termVars == <<daemonVms, rows, selected, view, logs, pending, confirmed, formOpen,
              buffered, key, frame, loop, sent, changes, keys>>
appVars == <<rows, selected, view, logs, pending, confirmed, formOpen>>
keyboard == <<buffered, key, keys>>

NoneYet == [verb |-> "none", id |-> "none"]
NoLogs == [id |-> "none", st |-> "none"]
NoKeyYet == [seen |-> NoneYet, ahead |-> FALSE]

TermInit ==
  /\ daemonVms \in [TermVms -> {"none", "running", "stopped"}]
  /\ rows = <<>> /\ selected = 1 /\ view = "dashboard" /\ logs = NoLogs
  /\ pending = NoneYet /\ confirmed = NoneYet /\ formOpen = FALSE
  /\ frame = [sel |-> "none", dialog |-> NoneYet, form |-> FALSE, logs |-> "none"]
  /\ buffered = <<>> /\ key = NoKeyYet
  /\ loop = "poll" /\ sent = NoneYet /\ changes = 0 /\ keys = 0

SelectedVm == IF selected \in DOMAIN rows THEN rows[selected].id ELSE "none"
SelectedState == IF selected \in DOMAIN rows THEN rows[selected].st ELSE "none"

\* Other clients create, stop, start and destroy VMs at any time.
DaemonChanges ==
  /\ changes < MaxChanges /\ changes' = changes + 1
  /\ \E v \in TermVms, s \in {"none", "running", "stopped"} :
       s # daemonVms[v] /\ daemonVms' = [daemonVms EXCEPT ![v] = s]
  /\ UNCHANGED <<appVars, keyboard, frame, loop, sent>>

\* The user presses a key, looking at the frame.
Press ==
  /\ loop # "ended" /\ keys < MaxKeys /\ keys' = keys + 1 /\ Len(buffered) < MaxAhead
  /\ buffered' = Append(buffered, [seen |-> frame.dialog, ahead |-> buffered # <<>>])
  /\ UNCHANGED <<daemonVms, appVars, key, frame, loop, sent, changes>>

----------------------------------------------------------------------------
(* The list. *)

\* GET /v1/vms: the values of a hash map, in any order.
PollVms(vms) == SetToSeqs({v \in TermVms : vms[v] # "none"})

\* set_vms: the index stays, cut to the new length; open logs follow their VM.
LogsIn(list) ==
  LET Same(n) == list[n].id = logs.id
  IN  IF \E n \in DOMAIN list : Same(n) THEN list[CHOOSE n \in DOMAIN list : Same(n)] ELSE logs

SetVms(ids, vms) ==
  /\ rows' = [n \in DOMAIN ids |-> [id |-> ids[n], st |-> vms[ids[n]]]]
  /\ selected' = IF ids = <<>> THEN 1 ELSE IF selected > Len(ids) THEN Len(ids) ELSE selected

\* A poll that fails leaves the list as it was.
Refresh(vms) ==
  \/ \E ids \in PollVms(vms) : SetVms(ids, vms) /\ logs' = LogsIn(rows')
  \/ UNCHANGED <<rows, selected, logs>>

\* refresh_logs_view asks for the VM whose logs are open, by its id; an error
\* leaves what was shown.
PollVm(v) == IF v \in TermVms /\ daemonVms[v] # "none" THEN {[id |-> v, st |-> daemonVms[v]]} ELSE {}

\* The top of the loop, when two seconds have passed or not.
Poll ==
  /\ loop = "poll" /\ loop' = "draw"
  /\ \/ Refresh(daemonVms)
     \/ /\ view = "logs" /\ logs' \in PollVm(logs.id)
        /\ (\E ids \in PollVms(daemonVms) : SetVms(ids, daemonVms)) \/ UNCHANGED <<rows, selected>>
  /\ sent' = NoneYet
  /\ UNCHANGED <<daemonVms, view, pending, confirmed, formOpen, keyboard, frame, changes>>

\* The frame: the view and, over it, the dialog or else the form.
Draw ==
  /\ loop = "draw" /\ loop' = "key"
  /\ frame' = [sel |-> IF view = "logs" THEN "none" ELSE SelectedVm,
               dialog |-> pending,
               form |-> formOpen /\ pending = NoneYet,
               logs |-> IF view = "logs" THEN logs.id ELSE "none"]
  /\ UNCHANGED <<daemonVms, appVars, keyboard, sent, changes>>

----------------------------------------------------------------------------
(* Keys. *)

MovesMark ==
  /\ view = "dashboard"
  /\ \/ selected < Len(rows) /\ selected' = selected + 1
     \/ selected > 1 /\ selected' = selected - 1
  /\ UNCHANGED <<daemonVms, rows, view, logs, pending, confirmed, formOpen, sent>>

\* Enter and Esc: the details of the marked VM, and back.
ChangesView ==
  /\ \/ view = "dashboard" /\ rows # <<>> /\ view' = "detail" /\ UNCHANGED logs
     \/ view = "detail" /\ view' = "dashboard" /\ UNCHANGED logs
     \/ view = "logs" /\ view' = "dashboard" /\ logs' = NoLogs
  /\ UNCHANGED <<daemonVms, rows, selected, pending, confirmed, formOpen, sent>>

TogglesLogs ==
  /\ \/ view = "logs" /\ view' = "dashboard" /\ logs' = NoLogs
     \/ /\ view # "logs" /\ SelectedVm # "none" /\ view' = "logs"
        /\ logs' \in {rows[selected]} \union PollVm(SelectedVm)
  /\ UNCHANGED <<daemonVms, rows, selected, pending, confirmed, formOpen, sent>>

\* s, x and d on a VM ask first; s on a stopped or
\* failed one (`stopped' here) starts it.
PrimaryAction(st) == IF st = "stopped" THEN "start" ELSE "stop"

AsksToAct ==
  /\ view # "logs" /\ SelectedVm # "none"
  /\ \E verb \in {"kill", "delete"} \cup ({PrimaryAction(SelectedState)} \ {"start"}) :
       pending' = [verb |-> verb, id |-> SelectedVm]
  /\ UNCHANGED <<daemonVms, rows, selected, view, logs, confirmed, formOpen, sent>>

\* The daemon does what it is asked, or refuses; the list is refreshed after.
Sends(verb, id) ==
  /\ sent' = [verb |-> verb, id |-> id]
  /\ \/ UNCHANGED daemonVms
     \/ /\ verb # "surface" /\ daemonVms[id] # "none"
        /\ daemonVms' = [daemonVms EXCEPT ![id] =
              CASE verb = "start" -> "running" [] verb = "delete" -> "none" [] OTHER -> "stopped"]
  /\ Refresh(daemonVms')

\* start_selected_vm: the request is sent at once.
StartsSelected ==
  /\ view # "logs" /\ SelectedVm # "none" /\ PrimaryAction(SelectedState) = "start"
  /\ Sends("start", SelectedVm)
  /\ UNCHANGED <<view, pending, confirmed, formOpen>>

\* run_selected_vm_surface: a shell or console runs in the terminal until it ends.
OpensSurface ==
  /\ view # "logs" /\ SelectedVm # "none"
  /\ Sends("surface", SelectedVm)
  /\ UNCHANGED <<view, pending, confirmed, formOpen>>

OpensForm ==
  /\ view = "dashboard" /\ formOpen' = TRUE
  /\ UNCHANGED <<daemonVms, rows, selected, view, logs, pending, confirmed, sent>>

\* The dialog takes y, n and Esc only.
DialogKey ==
  /\ \/ confirmed' = pending
     \/ UNCHANGED confirmed
  /\ pending' = NoneYet
  /\ UNCHANGED <<daemonVms, rows, selected, view, logs, formOpen, sent>>

\* The form is left by Esc, its Cancel button, or a create that succeeded; what
\* was sent for creation is the form's, below, and the list is refreshed after it.
FormKey ==
  /\ formOpen' \in BOOLEAN
  /\ \/ UNCHANGED daemonVms
     \/ \E v \in TermVms : daemonVms[v] = "none" /\ daemonVms' = [daemonVms EXCEPT ![v] = "running"]
  /\ Refresh(daemonVms')
  /\ UNCHANGED <<view, pending, confirmed, sent>>

\* The keys are read in the order they were pressed.
Reads == buffered # <<>> /\ key' = Head(buffered) /\ buffered' = Tail(buffered)

\* A key goes to the dialog if there is one, else to the form, else to the view.
Key ==
  /\ loop = "key" /\ Reads /\ loop' = "act"
  /\ \/ pending # NoneYet /\ DialogKey
     \/ pending = NoneYet /\ formOpen /\ FormKey
     \/ /\ pending = NoneYet /\ ~formOpen
        /\ MovesMark \/ ChangesView \/ TogglesLogs \/ AsksToAct \/ StartsSelected \/ OpensSurface \/ OpensForm
  /\ UNCHANGED <<frame, changes, keys>>

\* q, where no dialog or form takes it, or a shell that could not be launched,
\* ends the loop.
Quits ==
  /\ loop = "key" /\ Reads /\ pending = NoneYet /\ ~formOpen /\ loop' = "ended"
  /\ UNCHANGED <<daemonVms, appVars, frame, sent, changes, keys>>

\* No key within 100 ms, or one that means nothing here.
NoKey ==
  /\ loop = "key" /\ loop' = "act"
  /\ Reads \/ (buffered = <<>> /\ UNCHANGED <<buffered, key>>)
  /\ UNCHANGED <<daemonVms, appVars, frame, sent, changes, keys>>

----------------------------------------------------------------------------
(* A confirmed action is sent to the VM it was asked for. *)

ActOnSelected ==
  /\ loop = "act" /\ loop' = "poll"
  /\ confirmed' = NoneYet
  /\ \/ confirmed = NoneYet /\ UNCHANGED <<daemonVms, rows, selected, logs, sent>>
     \/ confirmed # NoneYet /\ SelectedVm # "none" /\ Sends(confirmed.verb, SelectedVm)
  /\ key' = NoKeyYet
  /\ UNCHANGED <<view, pending, formOpen, buffered, keys, frame, changes>>

Act ==
  /\ loop = "act" /\ loop' = "poll"
  /\ confirmed' = NoneYet
  /\ \/ confirmed = NoneYet /\ UNCHANGED <<daemonVms, rows, selected, logs, sent>>
     \/ confirmed # NoneYet /\ Sends(confirmed.verb, confirmed.id)
  /\ key' = NoKeyYet
  /\ UNCHANGED <<view, pending, formOpen, buffered, keys, frame, changes>>

TermNext == DaemonChanges \/ Press \/ Poll \/ Draw \/ Key \/ Quits \/ NoKey \/ Act

TermSpec == TermInit /\ [][TermNext]_termVars

----------------------------------------------------------------------------
(* Properties. *)

\* The marked row is a row of the list, however it shrank.
MarkInList == selected \in DOMAIN rows \/ (rows = <<>> /\ selected = 1)

\* A request that needs confirming goes to the VM named in the dialog the user
\* saw when pressing the key, if no other key was waiting: the list having
\* changed on the daemon, or in a refresh since, makes no difference.  (A y buffered
\* before its dialog was drawn confirms the dialog drawn before it is read.)
\* The rest goes to the marked VM of the frame on the screen when the key is
\* read; a key pressed while a poll blocks the thread is read after the next
\* frame, and acts on that one.
ActsOnShown ==
  sent' # sent /\ sent' # NoneYet =>
    \/ /\ sent' = frame.dialog
       /\ key.seen # NoneYet /\ ~key.ahead => sent' = key.seen
    \/ sent'.verb \in {"start", "surface"} /\ sent'.id = frame.sel /\ frame.dialog = NoneYet

\* The log view shows one VM from its opening to its end, however the list is
\* refreshed: the one marked on the frame it was opened from.
LogsStay ==
  /\ view = "logs" /\ view' = "logs" => logs'.id = logs.id
  /\ view # "logs" /\ view' = "logs" => logs'.id = frame.sel

-----------------------------------------------------------------------------
(* The form for a new VM (tui/app.rs CreateVmForm, tui/mod.rs                  *)
(* handle_create_form_key).  Six rows: image, name, memory, vCPUs, command and *)
(* the buttons.  A row's text is the sequence of the widths of its characters  *)
(* in bytes; the cursor is a byte offset into the text of the active row, and  *)
(* slicing a Rust string anywhere but at a character's edge panics.            *)

CONSTANTS Widths, ImagePresets, MemoryPresets, MaxTyped

ASSUME FormBounds == MaxTyped \in Nat /\ {ImagePresets, MemoryPresets} \subseteq Nat \ {0, 1} /\ Widths \subseteq Nat \ {0}

VARIABLES text, custom, preset, row, button, cursor, formError, typed, open
formVars == <<text, custom, preset, row, button, cursor, formError, typed, open>>

ButtonRow == 5
PresetRows == {0, 2}
Presets == [r \in PresetRows |-> IF r = 0 THEN ImagePresets ELSE MemoryPresets]

FormInit ==
  /\ text = [r \in 0..4 |-> IF r = 3 THEN <<1>> ELSE <<>>]
  /\ custom = {} /\ preset = [r \in PresetRows |-> IF r = 0 THEN 0 ELSE 1]
  /\ row = 0 /\ button = 0 /\ cursor = 0 /\ formError = FALSE /\ typed = 0 /\ open = TRUE

Bytes(s) == FoldLeft(LAMBDA a, b : a + b, 0, s)
TextInput(r) == r \in {1, 3, 4} \/ r \in custom
PresetMode == row \in PresetRows \ custom
ActiveText == IF row = ButtonRow THEN <<>> ELSE text[row]
\* The number of characters before byte offset c, where c is the edge of one.
Edges(s) == {Bytes(SubSeq(s, 1, n)) : n \in 0..Len(s)}
CharsBefore(s, c) == CHOOSE n \in 0..Len(s) : Bytes(SubSeq(s, 1, n)) = c

\* sync_cursor: the end of the text, where there is text to edit.
SyncCursor(r) ==
  cursor' = IF TextInput(r) THEN Bytes(text[r]) ELSE 0

MoveUpOnly ==
  /\ row' = IF row > 0 THEN row - 1 ELSE row
  /\ UNCHANGED <<text, custom, preset, button, cursor, formError, typed, open>>

MoveUp ==
  /\ IF row > 0 THEN row' = row - 1 /\ SyncCursor(row - 1) ELSE UNCHANGED <<row, cursor>>
  /\ UNCHANGED <<text, custom, preset, button, formError, typed, open>>

MoveDown ==
  /\ IF row < ButtonRow THEN row' = row + 1 /\ SyncCursor(row + 1) ELSE UNCHANGED <<row, cursor>>
  /\ UNCHANGED <<text, custom, preset, button, formError, typed, open>>

\* Left and right turn the presets and the buttons over, one step round.
Cycle(d) ==
  /\ row = ButtonRow \/ PresetMode
  /\ IF row = ButtonRow THEN button' = 1 - button /\ UNCHANGED preset
     ELSE preset' = [preset EXCEPT ![row] = (@ + d) % Presets[row]] /\ UNCHANGED button
  /\ UNCHANGED <<text, custom, row, cursor, formError, typed, open>>

CursorLeft ==
  /\ ~(row = ButtonRow \/ PresetMode)
  /\ cursor' = IF cursor = 0 THEN 0
               ELSE Bytes(SubSeq(ActiveText, 1, CharsBefore(ActiveText, cursor) - 1))
  /\ UNCHANGED <<text, custom, preset, row, button, formError, typed, open>>

CursorRight ==
  /\ ~(row = ButtonRow \/ PresetMode)
  /\ cursor' = IF cursor >= Bytes(ActiveText) THEN cursor
               ELSE Bytes(SubSeq(ActiveText, 1, CharsBefore(ActiveText, cursor) + 1))
  /\ UNCHANGED <<text, custom, preset, row, button, formError, typed, open>>

\* insert_char: typing on a preset starts a text of one's own.
InsertChar(w) ==
  LET base == IF PresetMode THEN <<>> ELSE text[row]
      at == IF PresetMode THEN 0 ELSE IF cursor < Bytes(base) THEN cursor ELSE Bytes(base)
      n == CharsBefore(base, at) IN
  /\ row # ButtonRow /\ typed < MaxTyped /\ typed' = typed + 1
  /\ custom' = IF PresetMode THEN custom \cup {row} ELSE custom
  /\ text' = [text EXCEPT ![row] = InsertAt(base, n + 1, w)]
  /\ cursor' = at + w
  /\ formError' = FALSE
  /\ UNCHANGED <<preset, row, button, open>>

\* delete_char: at the start of an empty text the presets come back.
DeleteChar ==
  /\ IF cursor = 0
     THEN /\ custom' = IF row \in custom /\ text[row] = <<>> THEN custom \ {row} ELSE custom
          /\ UNCHANGED <<text, cursor>>
     ELSE LET n == CharsBefore(ActiveText, cursor) IN
          /\ text' = [text EXCEPT ![row] = RemoveAt(@, n)]
          /\ cursor' = Bytes(SubSeq(ActiveText, 1, n - 1))
          /\ UNCHANGED custom
  /\ UNCHANGED <<preset, row, button, formError, typed, open>>

\* An own text may or may not be a number that will do: what it says is left open.
BadRow(r) ==
  IF ~TextInput(r) THEN {FALSE} ELSE IF text[r] = <<>> THEN {TRUE} ELSE BOOLEAN

\* submit_create_form: the first field that will not do is marked and the form
\* stays; so it does when the daemon refuses the VM.
Submit ==
  /\ row = ButtonRow /\ button = 0
  /\ \/ \E r \in {0, 2, 3} :
          /\ TRUE \in BadRow(r) /\ \A q \in {0, 2, 3} : q < r => FALSE \in BadRow(q)
          /\ row' = r /\ formError' = TRUE /\ UNCHANGED open
     \/ /\ \A q \in {0, 2, 3} : FALSE \in BadRow(q)
        /\ \/ open' = FALSE /\ UNCHANGED formError
           \/ formError' = TRUE /\ UNCHANGED open
        /\ UNCHANGED row
  /\ UNCHANGED <<text, custom, preset, button, cursor, typed>>

CancelForm ==
  /\ open' = FALSE
  /\ UNCHANGED <<text, custom, preset, row, button, cursor, formError, typed>>

FormNext ==
  /\ open
  /\ \/ MoveUp \/ MoveDown \/ Cycle(1) \/ Cycle(-1) \/ CursorLeft \/ CursorRight
     \/ \E w \in Widths : InsertChar(w)
     \/ DeleteChar \/ Submit \/ CancelForm

\* The cursor is at the edge of a character of the text the next key will slice
\* or insert into, whatever keys came before: no key makes the terminal panic.
CursorAtEdge == cursor \in Edges(ActiveText)

-----------------------------------------------------------------------------
(* The terminal's event listener (tui/mod.rs spawn_event_listener): a thread   *)
(* reads the daemon's server-sent events, cuts the byte stream into frames and *)
(* sends each event to the screen's loop, which keeps the last MaxFeed.  On    *)
(* quitting, the loop sets the stop flag and joins the thread.  A frame is one *)
(* token, an event's number or Comment (the daemon's keep-alive), and two line *)
(* ends; the network delivers the tokens in chunks of any size.                *)

CONSTANTS MaxEvents, MaxFeed, MaxDrops

ASSUME FeedBounds == MaxEvents \in Nat /\ MaxFeed \in Nat \ {0} /\ MaxDrops \in Nat

VARIABLES listener, stop, screen, wire, buffer, channel, feed, emitted, drops,
          arrived, got, drained
feedVars == <<listener, stop, screen, wire, buffer, channel, feed, emitted, drops,
              arrived, got, drained>>

Eol == 0
Comment == -1
Frame(x) == <<x, Eol, Eol>>

\* arrived and got are ghosts: the tokens that came on this connection and the
\* events sent on from it; drained is every event the screen has taken.
FeedInit ==
  /\ listener = "top" /\ stop = FALSE /\ screen = "run"
  /\ wire = <<>> /\ buffer = <<>> /\ channel = <<>> /\ feed = <<>>
  /\ emitted = 0 /\ drops = 0 /\ arrived = <<>> /\ got = <<>> /\ drained = <<>>

\* The daemon's side of the stream: an event or a keep-alive comment is written
\* to whoever is connected, and the connection may be lost.
Emit ==
  /\ emitted < MaxEvents /\ emitted' = emitted + 1
  /\ \E x \in {emitted + 1, Comment} :
        wire' = IF listener = "stream" THEN wire \o Frame(x) ELSE wire
  /\ UNCHANGED <<listener, stop, screen, buffer, channel, feed, drops, arrived, got, drained>>

\* take_sse_frames: every whole frame in the buffer, and what is left of it.
Ends(b) == {n \in 1..Len(b) - 1 : b[n] = Eol /\ b[n + 1] = Eol}
FirstEnd(b) == CHOOSE n \in Ends(b) : \A k \in Ends(b) : n <= k

TakeFrames(b) ==
  FoldLeft(LAMBDA acc, i : IF Ends(acc.rest) = {} THEN acc
             ELSE [frames |-> Append(acc.frames, SubSeq(acc.rest, 1, FirstEnd(acc.rest) - 1)),
                   rest |-> SubSeq(acc.rest, FirstEnd(acc.rest) + 2, Len(acc.rest))],
           [frames |-> <<>>, rest |-> b], [i \in 1..Len(b) |-> i])

\* parse_sse_frame: a frame with no data line gives nothing.
ParseFrames(frames) == SelectSeq(FlattenSeq(frames), LAMBDA x : x > 0)

\* The flag is looked at before and after each connection.
Top ==
  /\ listener = "top"
  /\ listener' = IF stop THEN "done" ELSE "connect"
  /\ UNCHANGED <<stop, screen, wire, buffer, channel, feed, emitted, drops, arrived, got, drained>>

\* Connecting takes its time, whatever the flag says, and may fail.
Connect ==
  /\ listener = "connect"
  /\ \/ listener' = "stream"
     \/ drops < MaxDrops /\ listener' = "ended"
  /\ drops' = IF listener' = "ended" THEN drops + 1 ELSE drops
  /\ wire' = <<>> /\ buffer' = <<>> /\ arrived' = <<>> /\ got' = <<>>
  /\ UNCHANGED <<stop, screen, channel, feed, emitted, drained>>

\* One chunk, of any size, and all the frames it completes.
Chunk ==
  /\ listener = "stream" /\ wire # <<>>
  /\ \E n \in 1..Len(wire) :
        LET taken == TakeFrames(buffer \o SubSeq(wire, 1, n)) IN
        /\ wire' = SubSeq(wire, n + 1, Len(wire))
        /\ arrived' = arrived \o SubSeq(wire, 1, n)
        /\ buffer' = taken.rest
        /\ channel' = channel \o ParseFrames(taken.frames)
        /\ got' = got \o ParseFrames(taken.frames)
  /\ UNCHANGED <<listener, stop, screen, feed, emitted, drops, drained>>

\* The stream ends, or is reset, with tokens still on the way or half a frame read.
Drop ==
  /\ listener = "stream" /\ drops < MaxDrops
  /\ listener' = "ended" /\ drops' = drops + 1
  /\ UNCHANGED <<stop, screen, wire, buffer, channel, feed, emitted, arrived, got, drained>>

\* select! with stop_rx.changed(): the stream is left, the sleep is cut short.
SeeStop ==
  /\ stop /\ listener \in {"stream", "sleep"}
  /\ listener' = IF listener = "stream" THEN "ended" ELSE "done"
  /\ UNCHANGED <<stop, screen, wire, buffer, channel, feed, emitted, drops, arrived, got, drained>>

Ended ==
  /\ listener = "ended"
  /\ listener' = IF stop THEN "done" ELSE "sleep"
  /\ UNCHANGED <<stop, screen, wire, buffer, channel, feed, emitted, drops, arrived, got, drained>>

Wake ==
  /\ listener = "sleep" /\ listener' = "top"
  /\ UNCHANGED <<stop, screen, wire, buffer, channel, feed, emitted, drops, arrived, got, drained>>

\* push_event: the oldest makes room.
PushEvent(f, e) == Append(IF Len(f) >= MaxFeed THEN Tail(f) ELSE f, e)

\* drain_event_receiver takes whatever is there.
Drain ==
  /\ screen = "run" /\ channel # <<>>
  /\ feed' = FoldLeft(PushEvent, feed, channel)
  /\ drained' = drained \o channel /\ channel' = <<>>
  /\ UNCHANGED <<listener, stop, screen, wire, buffer, emitted, drops, arrived, got>>

\* EventListener::stop sets the flag and waits for the thread.
Quit ==
  /\ screen = "run" /\ screen' = "join" /\ stop' = TRUE
  /\ UNCHANGED <<listener, wire, buffer, channel, feed, emitted, drops, arrived, got, drained>>

Joined ==
  /\ screen = "join" /\ listener = "done" /\ screen' = "exit"
  /\ UNCHANGED <<listener, stop, wire, buffer, channel, feed, emitted, drops, arrived, got, drained>>

ListenerStep == Top \/ Connect \/ SeeStop \/ Ended \/ Wake

FeedNext == Emit \/ ListenerStep \/ Chunk \/ Drop \/ Drain \/ Quit \/ Joined

\* Every event whose frame has arrived whole on this connection has been sent on,
\* in order and once, and none before its frame was whole, however the chunks fell
\* across the frames.
FramesDelivered ==
  listener = "stream" =>
    got = SelectSeq([n \in 1..Len(arrived) |->
                       IF n + 2 <= Len(arrived) THEN arrived[n] ELSE Eol], LAMBDA x : x > 0)

\* The screen shows the last events it was sent, never more than it keeps.
FeedIsTail ==
  feed = SubSeq(drained, IF Len(drained) > MaxFeed THEN Len(drained) - MaxFeed + 1 ELSE 1, Len(drained))

\* Quitting ends: the join does not wait for the daemon to say something, provided
\* connecting itself succeeds or fails (it has no time limit and does not look at
\* the flag).
QuitEnds == (screen = "join") ~> (screen = "exit")

(* The terminal's state stays usable under any keys, refreshes and chunks of *)
(* events: the mark is on a row, the cursor at the edge of a character,      *)
(* every whole frame is delivered, and the feed is the end of what came.     *)
TerminalSound ==
  MarkInList /\ CursorAtEdge /\ FramesDelivered /\ FeedIsTail

(* An action acts on the VM the user was shown, and an open log view stays   *)
(* with its VM, whatever refreshes do to the list.                           *)
ScreenHonest ==
  [][ActsOnShown /\ LogsStay]_termVars
=============================================================================
