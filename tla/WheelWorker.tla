---------------------------- MODULE WheelWorker ----------------------------
(***************************************************************************)
(* logi-wheel-gui worker.rs and viewmodel.rs over logi-wheel-core's        *)
(* Device, OnboardEditor and profiles: one thread that owns the wheel and  *)
(* answers the window's requests in order, and that looks, when idle, for  *)
(* changes made behind its back.  A slot of the wheel is written by        *)
(* activating it and writing attributes, one sysfs write each, so anyone   *)
(* at the wheel's own buttons is a concurrent writer.                      *)
(*                                                                         *)
(* One attribute stands for each way the registry treats one: "strength"   *)
(* (any mode, part of an onboard slot), "sens" (desktop only), "brake"     *)
(* (onboard only, part of a slot), "colors" (writing it puts the custom    *)
(* lights on show), "effect" (what is on show, part of a slot).            *)
(***************************************************************************)
EXTENDS Integers, Sequences, FiniteSets, SequencesExt

CONSTANTS Wheels,      \* numbers, in the order sysfs lists them
          Classic,     \* those that are G923s: no slots, no modes
          NSlots,      \* onboard slots
          MaxClicks, MaxPresses, MaxPlugs, MaxFaults   \* bounds of the model

\* What the proofs assume: there is a slot.
SlotsAssumption == NSlots \in Nat \ {0}

None   == 0            \* no wheel, and no slot: slot 0 is the desktop store
Desk   == 0
Custom == 1            \* the effect that shows the custom lights
Store  == 0..NSlots

Attrs        == {"strength", "sens", "brake", "colors", "effect"}
DesktopOnly  == {"sens"}
OnboardOnly  == {"brake"}
OnboardAttrs == {"strength", "brake", "effect"}
Snapshotted  == {"strength", "sens", "effect", "colors"}

VARIABLES
  attached,   \* the wheels plugged in
  wheel,      \* of each: the active slot and the values each slot holds
  queue,      \* the channel to the worker
  job,        \* the request being carried out, write by write
  vm,         \* the wheel of the ViewModel, or None
  key,        \* active_key
  editor,     \* OnboardEditor, or NoEditor
  lastSeen,   \* the drift watcher's last_seen; -1 is no observation
  page,       \* what the window shows: a category and its rows
  picker,     \* the list of wheels the window shows
  saved,      \* the computer profile: attributes and values, or NoFile
  touched,    \* history: changed from outside since the page was last read
  found,      \* history: the slot's content when its editing began
  strayed,    \* history: an onboard write landed in a slot not being edited
  clicks, presses, plugs, faults

device  == <<attached, wheel>>
history == <<touched, found, strayed>>
bounds  == <<clicks, presses, plugs, faults>>
vars == <<attached, wheel, queue, job, vm, key, editor, lastSeen, page, picker,
          saved, touched, found, strayed, clicks, presses, plugs, faults>>

Idle     == [op |-> "idle"]
NoEditor == [slot |-> Desk]
NoFile   == [a \in {} |-> 0]
Gone     == [a \in {} |-> 1]     \* rows without values

(***************************************************************************)
(* Device: what it reads and what it lets through.                         *)
(***************************************************************************)
Alive(w) == w # None /\ w \in attached

\* wheel_profile and wheel_mode are two views of the active slot.
Slot(w) == wheel[w].slot

Values(w) == wheel[w].store[Slot(w)]

\* rows_for: a page is read from the wheel whole.
Rows(w, cat) ==
  IF ~Alive(w) THEN Gone
  ELSE IF cat = "profiles" THEN [slot |-> Slot(w), mode |-> Slot(w) # Desk]
  ELSE Values(w)

ModeAlwaysReads(w) == TRUE

\* drift_snapshot: a G923 has no attribute whose absence would tell.
CanTell(w) == Alive(w) \/ w \in Classic

Snapshot(w) == IF ~CanTell(w) THEN -1 ELSE IF w \in Classic THEN Desk ELSE Slot(w)

\* write_checked gates on the mode; the wheel may refuse what is left.
Writable(w, a) ==
  /\ Alive(w)
  /\ a \in DesktopOnly => Slot(w) = Desk
  /\ a \in OnboardOnly => Slot(w) # Desk
  /\ w \in Classic => a \in {"strength"}

Written(w, a, v) ==
  IF a = "profile" THEN [wheel EXCEPT ![w].slot = v]
  ELSE IF a = "colors"
    THEN [wheel EXCEPT ![w].store[Slot(w)] = [@ EXCEPT !.colors = v, !.effect = Custom]]
    ELSE [wheel EXCEPT ![w].store[Slot(w)] = [@ EXCEPT ![a] = v]]

(***************************************************************************)
(* Discovery.                                                              *)
(***************************************************************************)
\* discover_all: one entry per wheel, whatever nodes it has, in sysfs order.
Discovered == SetToSortSeq(attached, LAMBDA a, b : a < b)

WheelAt(list, i) == IF i \in DOMAIN list THEN list[i] ELSE None

IndexOfKey(list) == IF \E i \in DOMAIN list : list[i] = key
                      THEN CHOOSE i \in DOMAIN list : list[i] = key ELSE 1

FirstIndex(list) == 1

Rediscovered(list) == IndexOfKey(list)

\* announce_wheels puts the managed wheel back where pick took it from, as an
\* entry without a name when there is none.
Announced(rest, at, w) == InsertAt(rest, IF at <= Len(rest) THEN at ELSE Len(rest) + 1, w)

Taken(list, i) == IF i \in DOMAIN list THEN RemoveAt(list, i) ELSE list

Init ==
  /\ attached \in SUBSET Wheels
  /\ wheel = [w \in Wheels |-> [slot |-> Desk,
                store |-> [s \in Store |-> [a \in Attrs |-> IF s = Desk THEN 0 ELSE s % 2]]]]
  /\ page \in [cat : {"settings", "profiles"}, rows : {Gone}]
  /\ queue = << [op |-> "load", cat |-> page.cat] >> /\ job = Idle
  /\ vm = WheelAt(Discovered, 1) /\ key = vm /\ editor = NoEditor
  /\ lastSeen = IF vm = None THEN -1 ELSE Snapshot(vm)
  /\ picker = Announced(Taken(Discovered, 1), 1, vm)
  /\ saved = NoFile /\ touched = TRUE /\ found = NoFile /\ strayed = FALSE
  /\ clicks = 0 /\ presses = 0 /\ plugs = 0 /\ faults = 0

(***************************************************************************)
(* Outside: the driver's hands, and the cable.                             *)
(***************************************************************************)
Pressed == IF job = Idle THEN job ELSE [job EXCEPT !.pressed = TRUE]

ProfileButton ==
  /\ presses < MaxPresses /\ presses' = presses + 1
  /\ \E w \in attached \ Classic, s \in Store :
       s # Slot(w) /\ wheel' = [wheel EXCEPT ![w].slot = s]
  /\ touched' = TRUE /\ job' = Pressed
  /\ UNCHANGED <<attached, queue, vm, key, editor, lastSeen, page, picker, saved,
                 found, strayed, clicks, plugs, faults>>

Plug ==
  /\ plugs < MaxPlugs /\ plugs' = plugs + 1
  /\ \E w \in Wheels : attached' = IF w \in attached THEN attached \ {w} ELSE attached \cup {w}
  /\ touched' = TRUE /\ job' = Pressed
  /\ UNCHANGED <<wheel, queue, vm, key, editor, lastSeen, page, picker, saved,
                 found, strayed, clicks, presses, faults>>

(***************************************************************************)
(* The window: what a click sends.                                         *)
(***************************************************************************)
Load(c)      == [op |-> "load", cat |-> c]
Write(a, v)  == [op |-> "edit", attr |-> a, value |-> v]

Clicks ==
  {<<Load(c)>> : c \in {"settings", "profiles"}}
  \cup {<<[op |-> "discover"], Load(page.cat)>>}
  \cup {<<[op |-> "select", index |-> i]>> : i \in IF Len(picker) > 1 THEN DOMAIN picker ELSE {}}
  \cup {<<[op |-> "setmode", value |-> s], Load(page.cat)>> : s \in {Desk, 1}}
  \cup (IF page.cat = "settings"
        THEN {<<Write(a, 1)>> : a \in Attrs \ {"colors"}}
               \cup {<<Write("colors", 1), Load("settings")>>}
        ELSE IF editor = NoEditor
        THEN {<<[op |-> o]>> : o \in {"save", "apply", "delete"}}
               \cup {<<Write("profile", s)>> : s \in Store}
               \cup {<<[op |-> "begin", slot |-> s]>> : s \in Store \ {Desk}}
        ELSE {<<[op |-> "set", attr |-> a, value |-> 0]>> : a \in OnboardAttrs}
               \cup {<<[op |-> o]>> : o \in {"revert", "copy"}}
               \cup {<<[op |-> "exit", restore |-> b]>> : b \in BOOLEAN})

Click ==
  /\ clicks < MaxClicks /\ queue = <<>> /\ job = Idle /\ clicks' = clicks + 1
  /\ \E c \in Clicks : queue' = c
  /\ UNCHANGED <<device, job, vm, key, editor, lastSeen, page, picker, saved,
                 history, presses, plugs, faults>>

(***************************************************************************)
(* The worker: requests that replace the ViewModel.                        *)
(***************************************************************************)
Manage(list, i) ==
  LET w == WheelAt(list, i)
  IN /\ vm' = w /\ key' = w /\ editor' = NoEditor
     /\ picker' = Announced(Taken(list, i), i, w)
     /\ lastSeen' = IF w = None THEN -1 ELSE Snapshot(w)

Discover ==
  /\ job = Idle /\ queue # <<>> /\ Head(queue).op = "discover" /\ queue' = Tail(queue)
  /\ Manage(Discovered, Rediscovered(Discovered))
  /\ UNCHANGED <<device, job, page, saved, history, bounds>>

\* An index past the end says what is attached and changes nothing.
SelectWheel ==
  /\ job = Idle /\ queue # <<>> /\ Head(queue).op = "select" /\ queue' = Tail(queue)
  /\ LET i == Head(queue).index
     IN IF i \in DOMAIN Discovered
        THEN /\ Manage(Discovered, i)
             /\ page' = [page EXCEPT !.rows = Rows(vm', page.cat)]
             /\ touched' = FALSE
        ELSE /\ picker' = Announced(Discovered, IndexOfKey(picker), key)
             /\ UNCHANGED <<vm, key, editor, lastSeen, page, touched>>
  /\ UNCHANGED <<device, job, saved, found, strayed, bounds>>

(***************************************************************************)
(* The worker: every other request, its checks first and then its writes.  *)
(***************************************************************************)
VerifyStillActive == Alive(vm) /\ Slot(vm) = editor.slot

NotVerified == Alive(vm)

StillActive == VerifyStillActive

Content == [a \in OnboardAttrs |-> Values(vm)[a]]

\* A line of the profile, if it has one for the setting.
Line(a) == IF a \in DOMAIN saved THEN << <<a, saved[a]>> >> ELSE <<>>

\* apply_in: the display selector after everything else.
DisplayLast == Line("strength") \o Line("sens") \o Line("colors") \o Line("effect")

InFileOrder == Line("strength") \o Line("sens") \o Line("effect") \o Line("colors")

ApplyOrder == DisplayLast

SlotLines == Line("strength") \o Line("effect")

SnapshotLines == << <<"strength", editor.snapshot["strength"]>>,
                    <<"brake", editor.snapshot["brake"]>>,
                    <<"effect", editor.snapshot["effect"]>> >>

\* The writes a request makes, once its own checks let it.
Plan(r) ==
  CASE r.op = "edit"    -> << <<r.attr, r.value>> >>
    [] r.op = "setmode" -> IF (Slot(vm) # Desk) = (r.value # Desk) THEN <<>>
                           ELSE << <<"profile", r.value>> >>
    [] r.op = "apply"   -> ApplyOrder
    [] r.op = "begin"   -> << <<"profile", r.slot>>, <<"verify", r.slot>> >>
    [] r.op = "set"     -> IF StillActive THEN << <<r.attr, r.value>> >> ELSE <<>>
    [] r.op = "revert"  -> IF StillActive THEN SnapshotLines ELSE <<>>
    [] r.op = "copy"    -> IF StillActive THEN SlotLines ELSE <<>>
    [] r.op = "exit"    -> IF r.restore /\ editor.previous # editor.slot /\ StillActive
                             THEN << <<"profile", editor.previous>> >> ELSE <<>>
    [] OTHER            -> <<>>

Onboard == {"set", "revert", "copy"}

\* dispatch: with no wheel, the answer is that there is none.
Refuse ==
  /\ job = Idle /\ queue # <<>> /\ vm = None
  /\ Head(queue).op \notin {"discover", "select"} /\ queue' = Tail(queue)
  /\ page' = [cat |-> IF Head(queue).op = "load" THEN Head(queue).cat ELSE page.cat,
              rows |-> Gone]
  /\ UNCHANGED <<device, job, vm, key, editor, lastSeen, picker, saved, history, bounds>>

Take ==
  /\ job = Idle /\ queue # <<>> /\ vm # None
  /\ Head(queue).op \notin {"discover", "select"} /\ queue' = Tail(queue)
  /\ LET r == Head(queue)
         todo == IF Alive(vm) \/ r.op = "edit" THEN Plan(r) ELSE <<>>
     IN job' = [op |-> r.op, req |-> r, todo |-> todo,
                failed |-> IF r.op = "begin" /\ ~Alive(vm) THEN {"profile"} ELSE {},
                previous |-> IF Alive(vm) THEN Slot(vm) ELSE Desk,
                refused |-> r.op \in Onboard /\ todo = <<>>, pressed |-> FALSE]
  /\ UNCHANGED <<device, vm, key, editor, lastSeen, page, picker, saved, history, bounds>>

Fails(a) == [job EXCEPT !.todo = Tail(@), !.failed = @ \cup {a}]

\* One sysfs write; a failure is collected and the rest still tried.
WriteAttr ==
  /\ job # Idle /\ job.todo # <<>> /\ job.todo[1][1] # "verify"
  /\ LET a == job.todo[1][1]  v == job.todo[1][2]
     IN \/ /\ IF a = "profile" THEN Alive(vm) /\ vm \notin Classic ELSE Writable(vm, a)
           /\ wheel' = Written(vm, a, v) /\ job' = [job EXCEPT !.todo = Tail(@)]
           /\ strayed' = (strayed \/ (job.op \in Onboard /\ ~job.pressed
                                        /\ Slot(vm) # editor.slot))
           /\ UNCHANGED faults
        \/ /\ ~(IF a = "profile" THEN Alive(vm) /\ vm \notin Classic ELSE Writable(vm, a))
           /\ job' = Fails(a) /\ UNCHANGED <<wheel, strayed, faults>>
        \/ /\ faults < MaxFaults /\ faults' = faults + 1
           /\ job' = Fails(a) /\ UNCHANGED <<wheel, strayed>>
  /\ UNCHANGED <<attached, queue, vm, key, editor, lastSeen, page, picker, saved,
                 touched, found, clicks, presses, plugs>>

\* OnboardEditor::begin reads the slot back before it goes on.
Verify ==
  /\ job # Idle /\ job.todo # <<>> /\ job.todo[1][1] = "verify"
  /\ job' = IF Alive(vm) /\ "profile" \notin job.failed /\ Slot(vm) = job.todo[1][2]
              THEN [job EXCEPT !.todo = Tail(@)] ELSE Fails("verify")
  /\ UNCHANGED <<device, queue, vm, key, editor, lastSeen, page, picker, saved,
                 history, bounds>>

(***************************************************************************)
(* The replies, and the new baseline of the drift watcher.                 *)
(***************************************************************************)
SnapshotOfSlot == Content

SnapshotOfPrevious == [a \in OnboardAttrs |-> wheel[vm].store[job.previous][a]]

SnapshotTaken == SnapshotOfSlot

EditorAfter ==
  CASE job.op = "begin" /\ job.failed = {} ->
         [slot |-> job.req.slot, previous |-> job.previous, snapshot |-> SnapshotTaken]
    [] job.op = "exit" -> NoEditor
    [] OTHER -> editor

\* A change of slot, mode or effect is a change of every row.
DeviceWide == {"profile", "effect"}

EffectOnly == {"effect"}

DeviceWideAttrs == DeviceWide

RowOnly(a) ==
  IF ~Alive(vm) THEN Gone
  ELSE IF page.rows = Gone THEN page.rows
  ELSE IF page.cat = "profiles" THEN [page.rows EXCEPT !.slot = Slot(vm)]
  ELSE [page.rows EXCEPT ![a] = Values(vm)[a]]

Reloads ==
  \/ job.op \in {"load", "apply", "exit"}
  \/ job.op = "edit" /\ job.req.attr \in DeviceWideAttrs /\ job.failed = {}

\* save_in: what the wheel has of the settings a profile keeps.
SavedValues ==
  [a \in {x \in Snapshotted : vm \notin Classic \/ x = "strength"} |-> Values(vm)[a]]

Finish ==
  /\ job # Idle /\ job.todo = <<>> /\ job' = Idle
  /\ editor' = EditorAfter
  /\ found' = IF job.op = "begin" /\ job.failed = {} THEN Content ELSE found
  /\ saved' = CASE job.op = "save" /\ Alive(vm) -> SavedValues
                [] job.op = "delete" -> NoFile
                [] OTHER -> saved
  /\ LET cat == IF job.op = "load" THEN job.req.cat ELSE page.cat
     IN page' = [cat |-> cat,
                 rows |-> IF Reloads THEN Rows(vm, cat)
                          ELSE IF job.op = "edit" THEN RowOnly(job.req.attr) ELSE page.rows]
  /\ touched' = IF Reloads THEN FALSE ELSE touched
  /\ lastSeen' = Snapshot(vm)
  /\ UNCHANGED <<device, queue, vm, key, picker, strayed, bounds>>

\* check_drift, two seconds after the last request.
CheckDrift ==
  /\ job = Idle /\ queue = <<>> /\ vm # None
  /\ IF ~CanTell(vm)
       THEN /\ vm' = None /\ editor' = NoEditor /\ lastSeen' = -1
            /\ page' = [page EXCEPT !.rows = Gone] /\ UNCHANGED touched
       ELSE /\ lastSeen' = Snapshot(vm)
            /\ IF lastSeen \notin {-1, Snapshot(vm)}
                 THEN page' = [page EXCEPT !.rows = Rows(vm, page.cat)] /\ touched' = FALSE
                 ELSE UNCHANGED <<page, touched>>
            /\ UNCHANGED <<vm, editor>>
  /\ UNCHANGED <<device, queue, job, key, picker, saved, found, strayed, bounds>>

Worker == Discover \/ SelectWheel \/ Refuse \/ Take \/ WriteAttr \/ Verify \/ Finish
Next == ProfileButton \/ Plug \/ Click \/ Worker \/ CheckDrift

\* The worker answers what it is sent and polls when it is sent nothing.
Spec == Init /\ [][Next]_vars /\ WF_vars(Worker) /\ WF_vars(CheckDrift)

-----------------------------------------------------------------------------
(***************************************************************************)
(* Properties.                                                             *)
(***************************************************************************)
(***************************************************************************)
(* What the window shows is what its own edits left on the wheel: with     *)
(* nobody else at the wheel since the page was read, no row is stale once  *)
(* the requests are answered.                                              *)
(***************************************************************************)
PageShowsOwnWork ==
  queue = <<>> /\ job = Idle /\ vm # None /\ ~touched /\ editor = NoEditor
    => page.rows = Rows(vm, page.cat)

(***************************************************************************)
(* "A write can land on the wrong slot if the wheel gets switched at its   *)
(* own OLED mid-flow": it does so only when the switch comes while that    *)
(* very request is being carried out, never for one made before it.        *)
(***************************************************************************)
EditsStayInSlot == ~strayed

(***************************************************************************)
(* Revert gives a slot back the values it had before the editing began,    *)
(* whatever was edited or copied in meanwhile, save for writes the wheel   *)
(* refused.                                                                *)
(***************************************************************************)
RevertDone ==
  job # Idle /\ job' = Idle /\ job.op = "revert" /\ ~job.refused /\ ~job.pressed
    => \A a \in OnboardAttrs : a \in job.failed \/ Values(vm)[a] = found[a]

RevertRestores == [][RevertDone]_vars

(***************************************************************************)
(* A profile applied is the profile saved: every line that did not fail is *)
(* what the wheel holds afterwards, although writing the custom lights     *)
(* changes what is on show (issue #73).                                    *)
(***************************************************************************)
ApplyDone ==
  job # Idle /\ job' = Idle /\ job.op = "apply" /\ ~job.pressed /\ Alive(vm)
    => \A a \in DOMAIN saved : a \in job.failed \/ Values(vm)[a] = saved[a]

ApplyReproduces == [][ApplyDone]_vars

(***************************************************************************)
(* A direct-drive wheel that is unplugged is noticed: the window stops     *)
(* managing it, or it is plugged in again.                                 *)
(***************************************************************************)
Overlooked(w) == vm = w /\ w \notin attached

UnplugNoticed == \A w \in Wheels \ Classic : Overlooked(w) ~> ~Overlooked(w)

(***************************************************************************)
(* The picker "always reflects what is really plugged in" (the comment on  *)
(* Response::Wheels): it never lists one wheel twice.                      *)
(***************************************************************************)
PickerTruthful == \A i, j \in DOMAIN picker : picker[i] = picker[j] => i = j
=============================================================================
