------------------------------ MODULE TestPage ------------------------------
(***************************************************************************)
(* The live input monitor of logi-wheel-gui's Info page (testio.rs, main.rs *)
(* start_test_monitor) over logi-wheel-core's evtest.rs.  Opening the page, *)
(* picking another wheel or asking for a rescan stops the reader and sends *)
(* a thread to look for the input node; what it finds is posted to the     *)
(* event loop, which starts the reader.  The reader folds the node's       *)
(* events into a snapshot and posts that, at most once per interval.       *)
(*                                                                         *)
(* An H-pattern shifter on a direct-drive base reports one button per gear. *)
(* One HID report can both release a gear and press the next; the events   *)
(* then come in the order of their codes, so the press may come first.     *)
(***************************************************************************)
EXTENDS Integers, Sequences, FiniteSets

CONSTANTS Wheels, Classic,              \* in sysfs order; those that are G923s
          Gears,
          MaxMoves, MaxVisits, MaxPlugs \* bounds of the model

None == 0
Model(w) == IF w \in Classic THEN "classic" ELSE "dd"

VARIABLES
  attached,
  picked,     \* test_usb: the wheel managed
  category,   \* current_category
  scans,      \* the discovery threads under way
  posts,      \* closures the event loop has yet to run
  reader,     \* the reader thread in its cell, or NoReader
  device, model, available,   \* device_cell, model_cell, test-available
  lever, foot,   \* the shifter, and the pedals held down
  events,     \* what the open node holds
  snap, dirty,   \* the reader's snapshot, and whether it was pushed
  shown,      \* what the page shows
  fresh,      \* history: the controls moved under the reader that runs now
  moves, visits, plugs

bounds == <<moves, visits, plugs>>
vars == <<attached, picked, category, scans, posts, reader, device, model, available, lever, foot,
          events, snap, dirty, shown, fresh, moves, visits, plugs>>

AtRest   == [gear |-> 0, bars |-> {}]
NoReader == [wheel |-> None, model |-> "dd", alive |-> FALSE]

First(s) == CHOOSE w \in s : \A v \in s : w <= v

\* resolve_direction: the two engines disagree on what east is.
Resolve(side, m) == IF m = "classic" THEN (IF side = "right" THEN "west" ELSE "east")
                    ELSE (IF side = "right" THEN "east" ELSE "west")

\* What an engine makes of a direction: external, measured on the wheels.
Pulls(raw, m) == IF (raw = "east") = (m = "dd") THEN "right" ELSE "left"

\* pedal_axes: the wheels disagree on the axis a pedal arrives on.
PedalAxes(m) == IF m = "classic" THEN [throttle |-> "z", brake |-> "rz", handbrake |-> "none"]
                ELSE [throttle |-> "rx", brake |-> "ry", handbrake |-> "z"]

BarsOf(m, axis) == {p \in DOMAIN PedalAxes(m) : PedalAxes(m)[p] = axis}

\* gear_from_wheel_code: those codes are other buttons on a G923.
GearOf(m, code) == IF m = "dd" THEN code ELSE 0

Init ==
  /\ attached \in SUBSET Wheels \ {{}} /\ picked \in attached
  /\ category = "info" /\ scans = {[at |-> "start", found |-> None]}
  /\ posts = <<>> /\ reader = NoReader /\ device = None /\ model = "dd" /\ available = FALSE
  /\ lever = 0 /\ foot = {} /\ events = <<>> /\ snap = AtRest /\ dirty = FALSE /\ shown = AtRest /\ fresh = {}
  /\ moves = 0 /\ visits = 0 /\ plugs = 0

(***************************************************************************)
(* Outside: the lever, and the cable.                                      *)
(***************************************************************************)
Event(c, p) == [type |-> "button", code |-> c, axis |-> "none", pressed |-> p]
AxisEvent(a, p) == [type |-> "axis", code |-> 0, axis |-> a, pressed |-> p]

\* The events of a move: the press may come before the release.
Reports(from, to) ==
  LET off == <<Event(from, FALSE)>>
      on  == <<Event(to, TRUE)>>
  IN IF from = 0 THEN {on} ELSE IF to = 0 THEN {off} ELSE {off \o on, on \o off}

\* The shifter is on the wheel whose node is open, when that is a base with one.
MoveLever ==
  /\ moves < MaxMoves /\ moves' = moves + 1
  /\ reader.alive /\ reader.wheel \in attached \ Classic
  /\ \E g \in (Gears \cup {0}) \ {lever} :
       lever' = g /\ \E r \in Reports(lever, g) : events' = events \o r
  /\ fresh' = fresh \cup {"lever"}
  /\ UNCHANGED <<attached, picked, category, scans, posts, reader, device, model, available,
                 foot, snap, dirty, shown, visits, plugs>>

PressPedal ==
  /\ moves < MaxMoves /\ moves' = moves + 1
  /\ reader.alive /\ reader.wheel \in attached
  /\ \E p \in {"throttle", "brake"} :
       /\ foot' = IF p \in foot THEN foot \ {p} ELSE foot \cup {p}
       /\ events' = Append(events, AxisEvent(PedalAxes(Model(reader.wheel))[p], p \in foot'))
       /\ fresh' = fresh \cup {p}
  /\ UNCHANGED <<attached, picked, category, scans, posts, reader, device, model, available,
                 lever, snap, dirty, shown, visits, plugs>>

Plug ==
  /\ plugs < MaxPlugs /\ plugs' = plugs + 1
  /\ \E w \in Wheels : attached' = IF w \in attached THEN attached \ {w} ELSE attached \cup {w}
  /\ UNCHANGED <<picked, category, scans, posts, reader, device, model, available, lever, foot,
                 events, snap, dirty, shown, fresh, moves, visits>>

(***************************************************************************)
(* The window.                                                             *)
(***************************************************************************)
\* stop_test_monitor joins the reader's thread.
Stopped == reader' = NoReader /\ events' = <<>> /\ fresh' = {}

StartTestMonitor == Stopped /\ scans' = scans \cup {[at |-> "start", found |-> None]}

\* on_select_category: the Setup page leaves current_category as it was.
SelectCategory ==
  /\ visits < MaxVisits /\ visits' = visits + 1
  /\ \E c \in {"info", "leds", "setup"} :
       /\ category' = IF c = "setup" THEN category ELSE c
       /\ IF c = "info" THEN StartTestMonitor ELSE Stopped /\ UNCHANGED scans
  /\ UNCHANGED <<attached, picked, posts, device, model, available, lever, foot, snap, dirty, shown,
                 moves, plugs>>

\* Response::Wheels: the managed wheel moved.
WheelsResponse ==
  /\ visits < MaxVisits /\ visits' = visits + 1
  /\ \E w \in attached \ {picked} : picked' = w
  /\ IF category = "info" THEN StartTestMonitor ELSE UNCHANGED <<reader, events, fresh, scans>>
  /\ UNCHANGED <<attached, category, posts, device, model, available, lever, foot, snap, dirty,
                 shown, moves, plugs>>

(***************************************************************************)
(* The discovery thread.                                                   *)
(***************************************************************************)
\* discover_wheel_input_under: the node of the wheel managed now.
ScanInput ==
  /\ \E s \in scans :
       /\ s.at = "start"
       /\ scans' = (scans \ {s}) \cup
                   {[at |-> "model", found |-> IF picked \in attached THEN picked ELSE None]}
  /\ UNCHANGED <<attached, picked, category, posts, reader, device, model, available, lever, foot,
                 events, snap, dirty, shown, fresh, bounds>>

\* Device::discover: the first wheel there is.
ScanModel ==
  /\ \E s \in scans :
       /\ s.at = "model" /\ scans' = scans \ {s}
       /\ model' = IF attached = {} THEN "dd" ELSE Model(First(attached))
       /\ posts' = Append(posts, [kind |-> "scan", wheel |-> s.found, model |-> model'])
  /\ UNCHANGED <<attached, picked, category, reader, device, available, lever, foot, events, snap,
                 dirty, shown, fresh, bounds>>

(***************************************************************************)
(* The event loop.                                                         *)
(***************************************************************************)
\* Reader::start; the reader it replaces is dropped, which joins it.
Start(w, m) ==
  /\ reader' = [wheel |-> w, model |-> m, alive |-> TRUE] /\ device' = w /\ available' = TRUE
  /\ events' = <<>> /\ snap' = AtRest /\ dirty' = TRUE /\ fresh' = {}

RunScan(p) ==
  IF p.wheel # None /\ p.wheel \in attached THEN Start(p.wheel, p.model)
  ELSE device' = None /\ available' = FALSE /\ UNCHANGED <<reader, events, snap, dirty, fresh>>

RunPost ==
  /\ posts # <<>> /\ posts' = Tail(posts)
  /\ LET p == Head(posts)
     IN CASE p.kind = "scan" -> RunScan(p) /\ UNCHANGED shown
          [] p.kind = "snap" -> /\ shown' = p.snap
                                /\ UNCHANGED <<reader, device, available, events, snap, dirty, fresh>>
          [] p.kind = "gone" -> /\ available' = FALSE
                                /\ UNCHANGED <<reader, device, events, snap, dirty, fresh, shown>>
  /\ UNCHANGED <<attached, picked, category, scans, model, lever, foot, bounds>>

(***************************************************************************)
(* The reader.                                                             *)
(***************************************************************************)
\* apply_event: letting go of a gear the lever has already left says nothing.
GearAfter(e, m) ==
  IF GearOf(m, e.code) = 0 THEN snap.gear
  ELSE IF e.pressed THEN GearOf(m, e.code)
  ELSE IF snap.gear = GearOf(m, e.code) THEN 0 ELSE snap.gear

GearAfterRelease(e, m) ==
  IF GearOf(m, e.code) = 0 THEN snap.gear
  ELSE IF e.pressed THEN GearOf(m, e.code) ELSE 0

ButtonApplied(e, m) == GearAfter(e, m)

ApplyEvent(e, m) ==
  IF e.type = "button" THEN [snap EXCEPT !.gear = ButtonApplied(e, m)]
  ELSE [snap EXCEPT !.bars = IF e.pressed THEN @ \cup BarsOf(m, e.axis) ELSE @ \ BarsOf(m, e.axis)]

PollWheelEvents ==
  /\ reader.alive
  /\ IF reader.wheel \notin attached
     THEN /\ reader' = [reader EXCEPT !.alive = FALSE]
          /\ posts' = Append(posts, [kind |-> "gone"]) /\ UNCHANGED <<events, snap, dirty>>
     ELSE /\ events # <<>> /\ events' = Tail(events)
          /\ snap' = ApplyEvent(Head(events), reader.model) /\ dirty' = TRUE
          /\ UNCHANGED <<reader, posts>>
  /\ UNCHANGED <<attached, picked, category, scans, device, model, available, lever, foot, shown,
                 fresh, bounds>>

\* At most one push per interval, and then the latest state.
Push ==
  /\ reader.alive /\ dirty /\ dirty' = FALSE
  /\ posts' = Append(posts, [kind |-> "snap", snap |-> snap])
  /\ UNCHANGED <<attached, picked, category, scans, reader, device, model, available, lever, foot,
                 events, snap, shown, fresh, bounds>>

Scan == ScanInput \/ ScanModel
Next == MoveLever \/ PressPedal \/ Plug \/ SelectCategory \/ WheelsResponse \/ Scan \/ RunPost
          \/ PollWheelEvents \/ Push

\* Threads are scheduled and the event loop runs.
Spec == Init /\ [][Next]_vars /\ WF_vars(Scan) /\ WF_vars(RunPost) /\ WF_vars(PollWheelEvents)
             /\ WF_vars(Push)

-----------------------------------------------------------------------------
(***************************************************************************)
(* Properties.                                                             *)
(***************************************************************************)
(***************************************************************************)
(* The page comes to show the gear the lever is in and the pedals that are *)
(* down, in whatever order a move reports its two buttons, while the       *)
(* reader that saw them move runs on.                                      *)
(***************************************************************************)
Watching(c) == /\ reader.alive /\ reader.wheel \in attached /\ c \in fresh
               /\ reader.model = Model(reader.wheel)

Behind ==
  \/ Watching("lever") /\ shown.gear # lever
  \/ \E p \in {"throttle", "brake"} : Watching(p) /\ (p \in foot) # (p \in shown.bars)

PageFollowsControls == Behind ~> ~Behind

(***************************************************************************)
(* "This is the one place the DD/G923 direction-sign divergence actually   *)
(* matters to playback": a test step named for a side pulls the wheel it   *)
(* plays on to that side.                                                  *)
(***************************************************************************)
TestPullsNamedSide ==
  available /\ device # None /\ scans = {} /\ posts = <<>> =>
    \A side \in {"left", "right"} : Pulls(Resolve(side, model), Model(device)) = side

(***************************************************************************)
(* "Leaving it stops the reader so no fd stays open behind other pages".   *)
(***************************************************************************)
ReaderOnInfoOnly == reader.alive => category = "info"
=============================================================================
