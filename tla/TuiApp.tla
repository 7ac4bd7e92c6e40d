------------------------------- MODULE TuiApp -------------------------------
(***************************************************************************)
(* logi-wheel-tui: one thread, one loop.  A key goes to the topmost prompt *)
(* that is open, else to the navigation, else to the page.  Between keys   *)
(* the loop drains the live monitor, reaps a test sweep, looks for changes *)
(* made at the wheel (only when no key came and nothing is open), looks    *)
(* for a wheel when asked to, and runs the shim installer, which blocks.   *)
(*                                                                         *)
(* A key is named for what it asks.  Rows that behave alike are one row:   *)
(* "value" any plain setting, "curve" the point list an axis shows instead *)
(* of it, "effect", "colors" and "screen" the rows with an editor of their *)
(* own, "action" a row whose Enter writes at once.                         *)
(***************************************************************************)
EXTENDS Integers, Sequences, FiniteSets, SequencesExt

CONSTANTS Wheels,      \* numbers, in the order sysfs lists them
          Classic,     \* the G923s: no modes, slots or lights
          MaxKeys, MaxPresses, MaxPlugs   \* bounds of the model

None == 0
Desk == 0                     \* slot 0 is the desktop store
Slots == {0, 1}
Pages == {"info", "settings", "profiles", "setup"}

VARIABLES
  attached, wheel,  \* outside: the wheels plugged in; each one's slot and values
  profile,          \* a saved computer profile's value, or NoFile
  dev, noWheel,     \* App.device and no_wheel
  page, rows,       \* the view, and the rows its last reload read
  seen,             \* last_drift
  curves,           \* shaping_toggles: the axis shows its curve
  prompt, help,     \* the editor, prompt or confirmation open; the overlay on it
  flow, editor,     \* the onboard flow's stage and its OnboardEditor
  input, monitor,   \* TestView.dev and the wheel whose node is open
  sim, sweep,       \* a force test and a test sweep are playing
  pending, retry,   \* pending_shim and retry_requested
  typed,            \* keys the terminal holds for the loop
  shims, asked,     \* history: installer runs, and requests for one
  quit, keys, presses, plugs

outside == <<attached, wheel, presses, plugs>>
tests   == <<input, monitor, sim, sweep>>
vars == <<attached, wheel, profile, dev, noWheel, page, rows, seen, curves, prompt, help,
          flow, editor, input, monitor, sim, sweep, pending, retry, typed, shims, asked,
          quit, keys, presses, plugs>>

NoFile   == -1
NoPrompt == [kind |-> "none"]
NoEditor == [slot |-> Desk, previous |-> Desk]

(***************************************************************************)
(* Reading the wheel.                                                      *)
(***************************************************************************)
\* wheel_present: some setting of the wheel is there.
WheelPresent(w) == w # None /\ w \in attached

\* drift_observation: a G923 has neither attribute, and reads as gone.
DriftObservation(w) == IF WheelPresent(w) /\ w \notin Classic THEN wheel[w].slot ELSE -1

Discovered == SetToSortSeq(attached, LAMBDA a, b : a < b)

\* rescan_under: only the managed wheel's own node will do.
Scan(w) == IF WheelPresent(w) THEN w ELSE None

\* shaping_rows, lightsync_rows: which rows there are depends on view state and
\* on what the wheel shows.
SettingRows(v) ==
  (IF curves' THEN {"curve"} ELSE {"value"}) \cup {"toggle", "effect", "screen", "action"}
    \cup (IF v.effect = 1 THEN {"colors"} ELSE {})

\* profiles_rows: the wheel's own slots in onboard mode, the computer's else.
ProfilesRows(w, v) ==
  IF v.slot # Desk THEN {"mode", "value"}
  ELSE {"new"} \cup (IF profile' = NoFile THEN {} ELSE {"saved"})
               \cup (IF w \in Classic THEN {} ELSE {"mode", "author"})

OnboardRows(stage) ==
  CASE stage = "picker" -> {"slot"}
    [] stage = "active" -> {"value", "copy", "revert", "exit", "restore"}
    [] stage = "copy"   -> IF profile' = NoFile THEN {} ELSE {"saved"}

Unreadable == [slot |-> Desk, value |-> -1, effect |-> 0]
NoRows     == [values |-> Unreadable, list |-> {}]

\* reload, in the state an action leads to: the rows of the view, and what the
\* wheel reports now as the baseline of the drift check.
Rows(w) ==
  LET v == IF WheelPresent(w) THEN wheel'[w] ELSE Unreadable
  IN [values |-> v,
      list |-> IF page' = "settings" THEN (IF w \in Classic THEN {"value"} ELSE SettingRows(v))
               ELSE IF flow' # "none" THEN OnboardRows(flow') ELSE ProfilesRows(w, v)]

Reload ==
  /\ seen' = IF WheelPresent(dev') /\ dev' \notin Classic THEN wheel'[dev'].slot ELSE -1
  /\ rows' = IF page' \in {"setup", "info"} \/ noWheel' THEN NoRows ELSE Rows(dev')

Init ==
  /\ attached \in SUBSET Wheels
  /\ wheel = [w \in Wheels |-> [slot |-> Desk, value |-> 0, effect |-> 0]]
  /\ profile \in {NoFile, 1}
  /\ dev = (IF attached = {} THEN None ELSE Discovered[1]) /\ noWheel = ~WheelPresent(dev)
  /\ page = "info" /\ rows = NoRows /\ seen = DriftObservation(dev) /\ curves = FALSE
  /\ prompt = NoPrompt /\ help = FALSE /\ flow = "none" /\ editor = NoEditor
  /\ input = Scan(dev) /\ monitor = Scan(dev) /\ sim = FALSE /\ sweep = FALSE
  /\ pending = FALSE /\ retry = FALSE /\ typed = <<>> /\ shims = 0 /\ asked = 0
  /\ quit = FALSE /\ keys = 0 /\ presses = 0 /\ plugs = 0

(***************************************************************************)
(* Outside: the wheel's profile button, and the cable.                     *)
(***************************************************************************)
app == <<profile, dev, noWheel, page, rows, seen, curves, prompt, help, flow, editor,
         tests, pending, retry, typed, shims, asked, quit, keys>>

ProfileButton ==
  /\ presses < MaxPresses /\ presses' = presses + 1
  /\ \E w \in attached \ Classic : wheel' = [wheel EXCEPT ![w].slot = 1 - @]
  /\ UNCHANGED <<attached, plugs, app>>

Plug ==
  /\ plugs < MaxPlugs /\ plugs' = plugs + 1
  /\ \E w \in Wheels : attached' = IF w \in attached THEN attached \ {w} ELSE attached \cup {w}
  /\ UNCHANGED <<wheel, presses, app>>

(***************************************************************************)
(* Keys: who gets one.                                                     *)
(***************************************************************************)
Ready == ~quit /\ ~pending /\ ~retry

\* The next key: one the terminal already holds, or one pressed now.
Press(k) ==
  /\ Ready
  /\ IF typed = <<>> THEN keys < MaxKeys /\ keys' = keys + 1 /\ typed' = typed
     ELSE k = Head(typed) /\ typed' = Tail(typed) /\ keys' = keys

Modal == {"edit", "curve", "colors", "screen", "effect", "popup", "addgame", "confirm",
          "sweep", "sdk", "tf", "name", "delete"}

Confirmations == {"confirm", "sweep", "delete"}     \* y, or anything else
Overlaid      == {"curve", "colors", "effect", "addgame"}

\* The prompts a page's keys go to before its navigation sees them.
SwallowingAll == Modal

SwallowingEditors == Modal \ {"sweep"}

Swallowing == SwallowingAll

ToPrompt == ~help /\ prompt.kind \in Swallowing
ToFlow   == ~help /\ ~ToPrompt /\ flow # "none"
ToPage   == ~help /\ ~ToPrompt /\ ~ToFlow

Open(k, r) == [kind |-> k, row |-> r, page |-> page, wheel |-> dev]

Opened(k, r) == prompt' = Open(k, r)

\* stop_monitor forgets a confirmation that was not answered.
Unconfirmed == IF prompt.kind = "confirm" THEN NoPrompt ELSE prompt

HelpKey ==
  /\ help /\ Press("other") /\ help' = FALSE
  /\ UNCHANGED <<outside, profile, dev, noWheel, page, rows, seen, curves, prompt, flow,
                 editor, tests, pending, retry, shims, asked, quit>>

(***************************************************************************)
(* Prompts.                                                                *)
(***************************************************************************)
Written(row) ==
  CASE row \in {"value", "curve"} -> [wheel EXCEPT ![dev].value = 1]
    [] row = "effect" -> [wheel EXCEPT ![dev].effect = 1]
    [] row = "mode"   -> [wheel EXCEPT ![dev].slot = 1 - @]
    [] OTHER          -> wheel

\* commit_edit asks the onboard editor, which asks the wheel which slot it is on.
MayWrite == WheelPresent(dev) /\ (flow = "active" => wheel[dev].slot = editor.slot)

\* commit_edit, commit_curve_edit, commit_color_picker, commit_effect_edit,
\* commit_screen_editor: one write, which the wheel may refuse, and a reload.
Commit ==
  /\ wheel' \in {wheel} \cup (IF MayWrite THEN {Written(prompt.row)} ELSE {})
  /\ UNCHANGED <<profile, sim, sweep, pending, asked>>

CommitAddGame ==
  /\ pending' = TRUE /\ asked' = asked + (IF typed = <<>> THEN 1 ELSE 0)
  /\ UNCHANGED <<wheel, profile, sim, sweep>>

SaveProfile ==
  /\ profile' = IF WheelPresent(dev) THEN wheel[dev].value ELSE profile
  /\ UNCHANGED <<wheel, sim, sweep, pending, asked>>

DeleteProfile == profile' = NoFile /\ UNCHANGED <<wheel, sim, sweep, pending, asked>>

SpawnSim   == sim' = (sim \/ input # None) /\ UNCHANGED <<wheel, profile, sweep, pending, asked>>
SpawnSweep == sweep' = TRUE /\ UNCHANGED <<wheel, profile, sim, pending, asked>>

Answer ==
  CASE prompt.kind \in {"edit", "curve", "colors", "effect", "screen"} -> Commit
    [] prompt.kind = "addgame" -> CommitAddGame
    [] prompt.kind = "name"    -> SaveProfile
    [] prompt.kind = "delete"  -> DeleteProfile
    [] prompt.kind = "confirm" -> SpawnSim
    [] prompt.kind = "sweep"   -> SpawnSweep
    [] OTHER -> UNCHANGED <<wheel, profile, sim, sweep, pending, asked>>

Reloading == {"edit", "curve", "colors", "effect", "screen", "name", "delete"}

PromptKey ==
  /\ ToPrompt
  /\ UNCHANGED <<attached, presses, plugs, dev, noWheel, page, curves, flow, editor,
                 input, monitor, retry, shims, quit>>
  /\ \/ /\ Press(IF prompt.kind \in Confirmations THEN "y" ELSE "enter")
        /\ Answer /\ prompt' = NoPrompt /\ UNCHANGED help
        /\ IF prompt.kind \in Reloading THEN Reload ELSE UNCHANGED <<rows, seen>>
     \/ /\ Press("esc") /\ prompt' = NoPrompt
        /\ UNCHANGED <<wheel, profile, sim, sweep, pending, asked, help, rows, seen>>
     \/ /\ prompt.kind \in Overlaid /\ Press("?") /\ help' = TRUE
        /\ UNCHANGED <<wheel, profile, sim, sweep, pending, asked, prompt, rows, seen>>

(***************************************************************************)
(* The onboard flow.                                                       *)
(***************************************************************************)
\* verify_still_active.
MayWriteSlot == WheelPresent(dev) /\ wheel[dev].slot = editor.slot

EditorFree == flow' = "none" /\ editor' = NoEditor

\* onboard_pick_slot: begin activates the slot and reads it back.
PickSlot ==
  IF WheelPresent(dev)
  THEN /\ wheel' = [wheel EXCEPT ![dev].slot = 1] /\ flow' = "active"
       /\ editor' = [slot |-> 1, previous |-> wheel[dev].slot]
  ELSE UNCHANGED <<wheel, flow, editor>>

CopySelected ==
  /\ rows.list # {}
  /\ wheel' \in {wheel} \cup (IF MayWriteSlot THEN {[wheel EXCEPT ![dev].value = profile]} ELSE {})
  /\ flow' = "active" /\ UNCHANGED editor

\* onboard_revert: what it writes depends on the wheel being on the slot still.
Revert ==
  /\ wheel' \in {wheel} \cup (IF MayWriteSlot THEN {[wheel EXCEPT ![dev].value = 0]} ELSE {})
  /\ UNCHANGED <<flow, editor>>

ExitFlow(restore) ==
  /\ EditorFree
  /\ wheel' = IF restore /\ MayWriteSlot /\ editor.previous # editor.slot
                THEN [wheel EXCEPT ![dev].slot = editor.previous] ELSE wheel

FlowEnter ==
  CASE flow = "picker" -> PickSlot /\ UNCHANGED prompt
    [] flow = "copy"   -> CopySelected /\ UNCHANGED prompt
    [] flow = "active" ->
         \/ flow' = "copy" /\ UNCHANGED <<wheel, editor, prompt>>
         \/ Revert /\ UNCHANGED prompt
         \/ \E restore \in BOOLEAN : ExitFlow(restore) /\ UNCHANGED prompt
         \/ /\ rows.values # Unreadable /\ Opened("edit", "value")
            /\ UNCHANGED <<wheel, flow, editor>>

FlowEsc ==
  CASE flow = "picker" -> EditorFree /\ UNCHANGED wheel
    [] flow = "copy"   -> flow' = "active" /\ UNCHANGED <<wheel, editor>>
    [] flow = "active" -> ExitFlow(FALSE)

FlowKey ==
  /\ ToFlow
  /\ UNCHANGED <<attached, presses, plugs, profile, dev, noWheel, page, curves, tests,
                 pending, retry, shims, asked, quit>>
  /\ \/ Press("enter") /\ FlowEnter /\ Reload /\ UNCHANGED help
     \/ Press("esc") /\ FlowEsc /\ Reload /\ UNCHANGED <<prompt, help>>
     \/ Press("?") /\ help' = TRUE /\ UNCHANGED <<wheel, flow, editor, prompt, rows, seen>>

(***************************************************************************)
(* Navigation.                                                             *)
(***************************************************************************)
\* set_cat: the monitor runs on the Info page and nowhere else.
SetCat ==
  \E p \in Pages :
    /\ Press(p) /\ page' = p /\ prompt' = Unconfirmed
    /\ IF p = "info" THEN input' = Scan(dev) /\ monitor' = Scan(dev)
       ELSE monitor' = None /\ UNCHANGED input
    /\ UNCHANGED <<outside, profile, dev, noWheel, curves, help, flow, editor, sim, sweep>>
    /\ UNCHANGED quit /\ Reload

\* next_wheel: rediscovers, and goes on from where the managed wheel is listed.
After(list) ==
  LET at == IF \E i \in DOMAIN list : list[i] = dev
              THEN CHOOSE i \in DOMAIN list : list[i] = dev ELSE 1
  IN list[(at % Len(list)) + 1]

MonitorMoves == input' = Scan(dev') /\ monitor' = Scan(dev')

MonitorStays == UNCHANGED <<input, monitor>>

Rescanned == MonitorMoves

NextWheel ==
  /\ Press("w") /\ Len(Discovered) > 1
  /\ dev' = After(Discovered)
  /\ Rescanned /\ prompt' = Unconfirmed
  /\ UNCHANGED <<outside, profile, noWheel, page, curves, help, flow, editor, sim, sweep, quit>>
  /\ Reload

NavKey ==
  /\ ToPage /\ UNCHANGED <<pending, retry, shims, asked>>
  /\ \/ SetCat
     \/ NextWheel
     \/ /\ \/ Press("?") /\ help' = TRUE /\ UNCHANGED quit
           \/ Press("q") /\ quit' = TRUE /\ UNCHANGED help
        /\ UNCHANGED <<outside, profile, dev, noWheel, page, rows, seen, curves, prompt, flow,
                       editor, tests>>

(***************************************************************************)
(* The pages' own keys.                                                    *)
(***************************************************************************)
\* toggle_mode: nothing to switch on a G923.
ToggleMode == wheel' = IF WheelPresent(dev) /\ dev \notin Classic
                         THEN [wheel EXCEPT ![dev].slot = 1 - @] ELSE wheel

InfoKey ==
  /\ ToPage /\ page = "info"
  /\ \/ /\ Press("r") /\ retry' = noWheel /\ input' = Scan(dev) /\ monitor' = Scan(dev)
        /\ prompt' = Unconfirmed /\ UNCHANGED <<wheel, sim>>
     \/ /\ Press("d") /\ ToggleMode /\ UNCHANGED <<retry, prompt, input, monitor, sim>>
     \/ /\ Press("f") /\ input # None /\ ~sim /\ Opened("confirm", "none")
        /\ UNCHANGED <<wheel, retry, input, monitor, sim>>
  /\ UNCHANGED <<attached, presses, plugs, profile, dev, noWheel, page, curves, help, flow,
                 editor, sweep, pending, shims, asked, quit>>
  /\ IF prompt'.kind = "confirm" THEN UNCHANGED <<rows, seen>> ELSE Reload

\* Every shim run goes through pending_shim; the other keys open a prompt.
SetupKey ==
  /\ ToPage /\ page = "setup"
  /\ \/ /\ \E k \in {"addgame", "sdk", "tf"} : Press(k) /\ Opened(k, "none")
        /\ UNCHANGED <<pending, asked>>
     \/ /\ Press("t") /\ ~sweep /\ Opened("sweep", "none") /\ UNCHANGED <<pending, asked>>
     \/ /\ Press("i") /\ pending' = TRUE /\ asked' = asked + (IF typed = <<>> THEN 1 ELSE 0)
        /\ UNCHANGED prompt
  /\ UNCHANGED <<outside, profile, dev, noWheel, page, rows, seen, curves, help, flow, editor,
                 tests, retry, shims, quit>>

\* begin_edit: what Enter does on a row.
BeginEdit(r) ==
  CASE r = "action" -> wheel' = wheel /\ UNCHANGED <<prompt, curves>> /\ Reload
    [] r = "toggle" -> curves' = ~curves /\ UNCHANGED <<wheel, prompt>> /\ Reload
    [] OTHER -> /\ IF r = "effect" THEN WheelPresent(dev) ELSE rows.values # Unreadable
                /\ Opened(IF r \in {"value", "mode"} THEN "edit" ELSE r, r)
                /\ UNCHANGED <<wheel, curves, rows, seen>>

\* apply_profile: every setting written, whatever fails, and a reload.
ApplyProfile ==
  /\ wheel' = IF WheelPresent(dev) THEN [wheel EXCEPT ![dev].value = profile] ELSE wheel
  /\ UNCHANGED <<prompt, curves, flow>> /\ Reload

ListKey ==
  /\ ToPage /\ page \in {"settings", "profiles"}
  /\ UNCHANGED <<attached, presses, plugs, profile, dev, noWheel, page, help, editor, tests,
                 pending, shims, asked, quit>>
  /\ \/ /\ Press("enter")
        /\ \E r \in rows.list :
             CASE r = "saved"  -> ApplyProfile
               [] r = "new"    -> Opened("name", r) /\ UNCHANGED <<wheel, curves, flow, rows, seen>>
               [] r = "author" -> flow' = "picker" /\ UNCHANGED <<wheel, prompt, curves>> /\ Reload
               [] OTHER        -> UNCHANGED flow /\ BeginEdit(r)
        /\ UNCHANGED retry
     \/ /\ Press("d") /\ retry' = retry /\ UNCHANGED <<curves, flow>>
        /\ \/ "saved" \in rows.list /\ Opened("delete", "saved") /\ UNCHANGED <<wheel, rows, seen>>
           \/ ToggleMode /\ UNCHANGED prompt /\ Reload
     \/ /\ Press("i") /\ rows.list # {} /\ Opened("popup", "none")
        /\ UNCHANGED <<wheel, curves, flow, rows, seen, retry>>
     \/ /\ Press("r") /\ retry' = noWheel /\ UNCHANGED <<wheel, prompt, curves, flow>>
        /\ IF noWheel THEN UNCHANGED <<rows, seen>> ELSE Reload

(***************************************************************************)
(* The loop between keys.                                                  *)
(***************************************************************************)
\* TestView::tick: the node went away under us.  Only the Info page ticks it.
MonitorTick ==
  /\ Ready /\ page = "info" /\ monitor # None /\ monitor \notin attached
  /\ monitor' = None /\ input' = None /\ prompt' = Unconfirmed
  /\ UNCHANGED <<outside, profile, dev, noWheel, page, rows, seen, curves, help, flow, editor,
                 sim, sweep, pending, retry, typed, shims, asked, quit, keys>>

\* tick_tf_sweep, and the sequence thread's last words.
TestsEnd ==
  /\ ~quit /\ (sim \/ sweep) /\ sim' \in {sim, FALSE} /\ sweep' \in {sweep, FALSE}
  /\ UNCHANGED <<outside, profile, dev, noWheel, page, rows, seen, curves, prompt, help, flow,
                 editor, input, monitor, pending, retry, typed, shims, asked, quit, keys>>

\* check_drift, two seconds after the last key.
Undisturbed == ~noWheel /\ prompt = NoPrompt /\ ~help /\ flow = "none"

SeenKept == seen

SeenAnyway == DriftObservation(dev)

SeenWhileOpen == SeenKept

CheckDrift ==
  /\ Ready /\ typed = <<>>
  /\ IF ~Undisturbed
     THEN seen' = SeenWhileOpen /\ UNCHANGED <<noWheel, rows, page, flow, wheel, dev, curves, profile>>
     ELSE /\ UNCHANGED <<page, flow, wheel, dev, curves, profile>>
          /\ IF seen = DriftObservation(dev) THEN UNCHANGED <<noWheel, seen, rows>>
             ELSE noWheel' = ~WheelPresent(dev) /\ Reload
  /\ UNCHANGED <<attached, presses, plugs, prompt, help, editor, tests, pending, retry, typed,
                 shims, asked, quit, keys>>

\* A queued re-discovery; adopt_device takes what it finds.
Rediscover ==
  /\ ~quit /\ retry /\ retry' = FALSE
  /\ UNCHANGED <<outside, profile, page, curves, prompt, help, flow, editor, sim, sweep, pending,
                 typed, shims, asked, quit, keys>>
  /\ IF attached = {} THEN UNCHANGED <<dev, noWheel, input, monitor, rows, seen>>
     ELSE /\ dev' = Discovered[1] /\ noWheel' = FALSE
          /\ IF page = "info" THEN input' = Scan(dev') /\ monitor' = Scan(dev')
             ELSE UNCHANGED <<input, monitor>>
          /\ Reload

\* Keys pressed while the installer runs stay with the terminal.
TypeAhead ==
  /\ pending /\ keys < MaxKeys /\ keys' = keys + 1 /\ typed' = Append(typed, "i")
  /\ UNCHANGED <<outside, profile, dev, noWheel, page, rows, seen, curves, prompt, help, flow,
                 editor, tests, pending, retry, shims, asked, quit>>

Drained == <<>>

NotDrained == typed

LeftTyped == Drained

\* run_shim, scan_games, and the keys that queued up meanwhile.
RunShim ==
  /\ ~quit /\ ~retry /\ pending /\ pending' = FALSE /\ shims' = shims + 1
  /\ typed' = LeftTyped
  /\ UNCHANGED <<outside, profile, dev, noWheel, page, rows, seen, curves, prompt, help, flow,
                 editor, tests, retry, asked, quit, keys>>

Next ==
  \/ ProfileButton \/ Plug
  \/ HelpKey \/ PromptKey \/ FlowKey \/ NavKey \/ InfoKey \/ SetupKey \/ ListKey
  \/ MonitorTick \/ TestsEnd \/ CheckDrift \/ Rediscover \/ TypeAhead \/ RunShim

\* The loop goes round on its own every two seconds at the latest.
Spec == Init /\ [][Next]_vars /\ WF_vars(MonitorTick) /\ WF_vars(CheckDrift)
             /\ WF_vars(Rediscover) /\ WF_vars(RunShim)

-----------------------------------------------------------------------------
(***************************************************************************)
(* Properties.                                                             *)
(***************************************************************************)
(***************************************************************************)
(* Nothing is left open behind another page or for another wheel: the      *)
(* prompt a key would answer is one of the page on screen, and what it     *)
(* commits goes to the wheel it was opened for.  A prompt left behind      *)
(* would also keep the drift check from ever running again.                *)
(***************************************************************************)
PromptsAnswerable ==
  /\ prompt # NoPrompt => prompt.page = page /\ prompt.wheel = dev
  /\ flow # "none" => page = "profiles"

(***************************************************************************)
(* "A buffered second 'i' would otherwise re-trigger the installer the     *)
(* moment it finished": keys typed while it runs never start another run.  *)
(***************************************************************************)
ShimOncePerRequest == shims <= asked

(***************************************************************************)
(* The live monitor on the Info page never shows another wheel than the    *)
(* one being managed ("the live monitor would show one wheel's steering    *)
(* while this app managed the other").                                     *)
(***************************************************************************)
MonitorOfManagedWheel == page = "info" => monitor \in {None, dev}

(***************************************************************************)
(* "The check right after it closes still catches up": a profile or mode   *)
(* change made at the wheel reaches the rows on screen, unless a prompt    *)
(* stays open, the wheel goes away or the app is left.                     *)
(***************************************************************************)
Stale == /\ rows # NoRows /\ WheelPresent(dev) /\ dev \notin Classic
         /\ rows.values.slot # wheel[dev].slot
         /\ Undisturbed /\ ~quit

ViewCatchesUp == Stale ~> ~Stale

(***************************************************************************)
(* "Re-probe so the shell flips to its no-wheel state": a direct-drive     *)
(* wheel that is unplugged is noticed, unless a prompt stays open, the     *)
(* wheel comes back or the app is left.                                    *)
(***************************************************************************)
Vanished == dev # None /\ dev \notin Classic /\ ~WheelPresent(dev)

UnplugShown == Vanished /\ ~noWheel ~> noWheel \/ ~Vanished \/ ~Undisturbed \/ quit
=============================================================================
