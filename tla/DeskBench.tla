------------------------------- MODULE DeskBench -------------------------------
(***************************************************************************)
(* What the settings programs, the proxy, the query tools and the telemetry*)
(* readers must never do, one component at a time on one bench (see        *)
(* MCTelemetry), through the modules that hold its proofs.                 *)
(***************************************************************************)
EXTENDS Integers, Sequences

VARIABLES part,   \* the component on the bench
          v1, v2, v3, v4, v5, v6, v7, v8, v9, v10, v11, v12, v13, v14, v15,
          v16, v17, v18, v19, v20, v21, v22, v23, v24, v25, v26

vars == <<part, v1, v2, v3, v4, v5, v6, v7, v8, v9, v10, v11, v12, v13, v14,
          v15, v16, v17, v18, v19, v20, v21, v22, v23, v24, v25, v26>>

CONSTANTS
  Wheels, Classic, MaxKeys, MaxPresses, MaxPlugs,
  Width, EffectSlots, Forces, Depth, MaxCreates, MaxAsks, MaxFaults,
  Features, Entities, MaxEntities, Interfaces, Effects, MaxLost,
  Rpms, Redlines,
  Attachable, Prefixes, Threads, MaxClicks,
  Pids, Polls, MaxProbes, MaxStarts,
  Callers, Torques, NaN, Peak, FullScale, EvdevSlots, Foreign, Budget,
  Titles, MaxFrames, Pace, Decay, Major, Steps, MaxRuns,
  Leds, Swatches, Cols, Digits, MaxOutside,
  Hundred, RawMax, IntMin, IntMax, IntStep, Variants, TextLen, NameSlots,
  LightSlots, WindowClicks, MaxTouches,
  CurveFull, CurveHundred, CurveStep, MaxPoints,
  OldFile, NewFile, HandLines, MaxEdits, MaxHand, ProgramStarts,
  LAYOUTS, PRESETS, SAMPLE, NumDigits, OledText, OledCount, TypedKeys, Texts,
  ScreenLen, ScreenKeys, NSlots, WorkerClicks

Desk == INSTANCE DeskProofs WITH
  wheel <- v1, sim <- v2, rows <- v3, plugs <- v4, attached <- v5,
  profile <- v6, dev <- v7, noWheel <- v8, page <- v9, seen <- v10,
  curves <- v11, prompt <- v12, help <- v13, flow <- v14, editor <- v15,
  input <- v16, monitor <- v17, sweep <- v18, pending <- v19, retry <- v20,
  typed <- v21, shims <- v22, asked <- v23, quit <- v24, keys <- v25,
  presses <- v26, proc <- v2, reg <- v3, nextBlock <- v4, lastBlock <- v5,
  queue <- v6, kinds <- v7, params <- v8, ids <- v9, gain <- v10,
  asking <- v11, host <- v12, missed <- v13, report <- v14, virtual <- v15,
  real <- v16, creates <- v17, asks <- v18, faults <- v19, node <- v1,
  tool <- v2, pc <- v3, waiting <- v4, idx <- v5, count <- v6, entry <- v7,
  out <- v8, rounds <- v9, bus <- v10, inbox <- v11, parked <- v12,
  effect <- v13, shown <- v14, owned <- v15, dark <- v16, lost <- v17,
  late <- v18, strays <- v19, owner <- v20, loaded <- v1, paused <- v2,
  rpm <- v3, maxRpm <- v4, throttle <- v5, heard <- v6, game <- v7,
  rig <- v7, caps <- v8, shim <- v9, rev <- v10, relay <- v11, cache <- v12,
  scans <- v13, posts <- v5, cmd <- v14, running <- v1, clicks <- v6,
  procs <- v2, term <- v3, flag <- v4, cell <- v7, thread <- v8,
  probes <- v9, child <- v10,
  evdev <- v1, effect_id <- v2, playing <- v3, last <- v4, status <- v5,
  effects <- v6, place <- v7, failed <- v8, left <- v9,
  title <- v1, mem <- v2, frame <- v3, script <- v4, copied <- v5,
  finished <- v6, credit <- v7, warned <- v8, sample <- v9,
  testing <- v2, plugged <- v3, can <- v4, flags <- v6, plan <- v9,
  stopRow <- v10, dirty <- v11, runs <- v12

Onboard == INSTANCE OnboardProofs WITH
  Typed <- TypedKeys, MaxLen <- ScreenLen, MaxKeys <- ScreenKeys, wheel <- v1,
  row <- v2, editor <- v3, conf <- v4, sent <- v5, told <- v6, keys <- v7,
  MaxClicks <- WorkerClicks, attached <- v1, units <- v2, queue <- v3,
  job <- v4, vm <- v5, key <- v6, onboard <- v7, lastSeen <- v8, page <- v9,
  picker <- v10, saved <- v11, touched <- v12, found <- v13, strayed <- v14,
  clicks <- v15, presses <- v16, plugs <- v17, faults <- v18

Editors == INSTANCE EditorProofs WITH
  strip <- v1, direction <- v2, row <- v3, picker <- v4, painted <- v5,
  paired <- v6, wrote <- v7, outside <- v8, wheel <- v1, kind <- v2,
  file <- v4, saved <- v5, edit <- v6, reqs <- v2, resps <- v3, cat <- v4,
  known <- v5, names <- v6, last <- v7, shown <- v8, curves <- v9,
  editor <- v10, split <- v11, clicks <- v12, faults <- v13, touches <- v14,
  view <- v1, overlay <- v2, curve <- v3, sel <- v4, field <- v5, device <- v6,
  confFile <- v1, proc <- v2, confShown <- v3, left <- v4

\* The variables a component with n of them leaves over.
Spare20 == v21 = 0 /\ v22 = 0 /\ v23 = 0 /\ v24 = 0 /\ v25 = 0 /\ v26 = 0
Spare19 == v20 = 0 /\ Spare20
Spare18 == v19 = 0 /\ Spare19
Spare14 == v15 = 0 /\ v16 = 0 /\ v17 = 0 /\ v18 = 0 /\ Spare18
Spare10 == v11 = 0 /\ v12 = 0 /\ v13 = 0 /\ v14 = 0 /\ Spare14
Spare9 == v10 = 0 /\ Spare10
Spare8 == v9 = 0 /\ Spare9
Spare7 == v8 = 0 /\ Spare8
Spare6 == v7 = 0 /\ Spare7
Spare4 == v5 = 0 /\ v6 = 0 /\ Spare6

\* The force test's own counter of faults is v19.
SpareTests == v13 = 0 /\ v14 = 0 /\ v15 = 0 /\ v16 = 0 /\ v17 = 0 /\ v18 = 0 /\ Spare19

Kept20 == UNCHANGED <<v21, v22, v23, v24, v25, v26>>
Kept19 == UNCHANGED <<v20>> /\ Kept20
Kept18 == UNCHANGED <<v19>> /\ Kept19
Kept14 == UNCHANGED <<v15, v16, v17, v18>> /\ Kept18
Kept10 == UNCHANGED <<v11, v12, v13, v14>> /\ Kept14
Kept9 == UNCHANGED <<v10>> /\ Kept10
Kept8 == UNCHANGED <<v9>> /\ Kept9
Kept7 == UNCHANGED <<v8>> /\ Kept8
Kept6 == UNCHANGED <<v7>> /\ Kept7
Kept4 == UNCHANGED <<v5, v6>> /\ Kept6
KeptTests == UNCHANGED <<v13, v14, v15, v16, v17, v18>> /\ Kept19

Init ==
  \/ part = "kinetic" /\ Desk!Kinetic!Init /\ Spare9
  \/ part = "sections" /\ Desk!Shm!Init /\ Spare9
  \/ part = "scs" /\ Desk!Scs!Init /\ Spare7
  \/ part = "proxy" /\ Desk!Proxy!Init /\ Spare19
  \/ part = "query" /\ Desk!Query!Init /\ Spare20
  \/ part = "worker" /\ Onboard!Worker!Init /\ Spare18
  \/ part = "tui" /\ Desk!Tui!Init
  \/ part = "gui" /\ Editors!Gui!Init /\ Spare14
  \/ part = "curve" /\ Editors!Curve!Init /\ Spare6
  \/ part = "edit" /\ Editors!Edit!Init /\ Spare8
  \/ part = "colors" /\ Editors!Colors!Init /\ Spare8
  \/ part = "screen" /\ Onboard!Init /\ Spare7
  \/ part = "conf" /\ Editors!Conf!Init /\ Spare4
  \/ part = "setup" /\ Desk!Setup!Init /\ Spare14
  \/ part = "sim" /\ Desk!Sim!Init /\ Spare10
  \/ part = "tests" /\ Desk!Tests!Init /\ SpareTests

Next ==
  /\ UNCHANGED part
  /\ \/ part = "kinetic" /\ Desk!Kinetic!Next /\ Kept9
     \/ part = "sections" /\ Desk!Shm!Next /\ Kept9
     \/ part = "scs" /\ Desk!Scs!Next /\ Kept7
     \/ part = "proxy" /\ Desk!Proxy!Next /\ Kept19
     \/ part = "query" /\ Desk!Query!Next /\ Kept20
     \/ part = "worker" /\ Onboard!Worker!Next /\ Kept18
     \/ part = "tui" /\ Desk!Tui!Next
     \/ part = "gui" /\ Editors!Gui!Next /\ Kept14
     \/ part = "curve" /\ Editors!Curve!Next /\ Kept6
     \/ part = "edit" /\ Editors!Edit!Next /\ Kept8
     \/ part = "colors" /\ Editors!Colors!Next /\ Kept8
     \/ part = "screen" /\ Onboard!Next /\ Kept7
     \/ part = "conf" /\ Editors!Conf!Next /\ Kept4
     \/ part = "setup" /\ Desk!Setup!Next /\ Kept14
     \/ part = "sim" /\ Desk!Sim!Next /\ Kept10
     \/ part = "tests" /\ Desk!Tests!Next /\ KeptTests

Spec == Init /\ [][Next]_vars

-----------------------------------------------------------------------------
\* kf.c: as long as no system call failed, the effects that play add up to
\* the torque GetTorqueKF reports, and the status thread never reads from a
\* descriptor that was closed under it.
MotorFollowsCalls ==
  part = "kinetic" =>
    Desk!Kinetic!TypeOK /\ Desk!Kinetic!MotorFollowsCalls /\ Desk!Kinetic!StatusReadsOpenFd

\* logi-tf-relay and logi-tf-scs: a sample is what the game says.  The buffer
\* read from iRacing holds one frame's values, and the truck simulators'
\* last word before a menu or a shutdown is engine off.
SamplesTrue ==
  /\ part = "sections" => Desk!Shm!NewestBufferWhole
  /\ part = "scs" => Desk!Scs!EngineOffInMenus

\* logi-ffb: once the sink has caught up, the real wheel holds and plays what
\* the host set on the virtual one, whatever the wheel refused before, and
\* it is handed back empty and at full gain.
WheelFollowsHost ==
  part = "proxy" => Desk!Proxy!WheelFollowsHost /\ Desk!Proxy!WheelHandedBack

\* hidpp.rs: a probe that was answered lights and darkens the strip (issue
\* #27), and the effect the owner chose is left alone, whichever answers of
\* earlier questions a left-over reader took.
ProbeHarmless ==
  part = "query" => Desk!Query!OwnersEffectKept /\ Desk!Query!LevelReachesStrip

\* worker.rs, onboard.rs, profiles.rs: the window shows what its own edits
\* left on the wheel, no edit lands in another slot than the one it was made
\* for, Revert gives back the values before the editing, and a profile
\* applied is the profile saved (issue #73).
EditsLand ==
  /\ [](part = "worker" => Onboard!Worker!PageShowsOwnWork /\ Onboard!Worker!EditsStayInSlot)
  /\ [][part = "worker" => Onboard!Worker!RevertDone /\ Onboard!Worker!ApplyDone]_vars

\* app.rs: no prompt is left open behind another page or for another wheel,
\* keys typed while the installer runs never start it again, and the live
\* monitor is that of the wheel being managed.
PromptsAnswerable ==
  part = "tui" =>
    Desk!Tui!PromptsAnswerable /\ Desk!Tui!ShimOncePerRequest /\ Desk!Tui!MonitorOfManagedWheel

\* bridge.rs and main.rs of the window: with every reply applied the page
\* shows what the wheel reports, a name is cached for its own slot (unless the
\* page changed between the two rows of a rename), and what the slot editor
\* committed is on the strip.
PageSettles ==
  part = "gui" =>
    /\ Editors!Gui!PageSettles /\ Editors!Gui!NamesOfOwnSlot
    /\ Editors!Gui!StripShowsSlot

\* curve.rs: every sequence of drags, clicks, nudges and dead zones composes
\* to a list the driver's uploader accepts.
ComposedValid == part = "curve" => Editors!Curve!ComposedValid

\* kind.rs, value.rs, edit.rs: what was written is what is read back, a
\* loaded curve is never saved as no curve, and the arrows stop at a value
\* that can be committed.  color_picker.rs: the strip on the wheel is the one
\* that was painted, in pairs where the direction plays pairs.  oled.rs and
\* the screen editors: a plain design that composes is taken by the driver
\* and reads back as it was designed, no key goes to a field that is not
\* there, and the terminal announces a dashboard that is in the file.
ReadsBackAsWritten ==
  /\ part = "edit" =>
       /\ Editors!Edit!TypeOK /\ Editors!Edit!ReadsBackAsWritten
       /\ Editors!Edit!LoadedCurveNotErased /\ Editors!Edit!ArrowsStayValid
  /\ part = "colors" =>
       /\ Editors!Colors!TypeOK /\ Editors!Colors!StripAsCommitted
       /\ Editors!Colors!PairsStayPairs
  /\ part = "screen" =>
       /\ Onboard!FocusInLayout /\ Onboard!PlainFrameTaken
       /\ Onboard!ReadsBackAsDesigned /\ Onboard!DashboardAsTold

\* tfsim.rs and config.rs: an edit of tf-sim.conf no other write overlapped
\* is what both parsers read and leaves every other line alone, and the two
\* parsers agree on every file that can be there.
EditTakes == part = "conf" => Editors!Conf!EditTakes /\ Editors!Conf!ReadersAgree

\* games.rs and the Setup page: raw HID never takes a wheel that cannot be
\* driven through it, one program drives the lights, and the rows describe
\* the wheel being managed whenever a scan posts.
SetupOfManagedWheel == part = "setup" => Desk!Setup!SetupOfManagedWheel

\* main.rs run_tf_sweep: whenever the button offers another sweep, the last
\* one's process is gone and no end of an older run is still to come.
SweepFlagTruthful == part = "sim" => Desk!Sim!TypeOK /\ Desk!Sim!SweepFlagTruthful

\* fftest.rs: however a run ends, nothing of a step is left on the wheel, and
\* a Stop ends it in the row it is in.
TestsEndQuiet ==
  part = "tests" => Desk!Tests!WheelLeftQuiet /\ Desk!Tests!StopsRightThere
=============================================================================
