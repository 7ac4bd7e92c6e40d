----------------------------- MODULE MCDeskLive -----------------------------
(***************************************************************************)
(* What the settings programs, the proxy and the query tools come to in the*)
(* end, one component at a time on one bench (see MCTelemetry). The        *)
(* instances are smaller than those of MCDesk: a liveness question needs   *)
(* few actions of the user and one fault.                                  *)
(***************************************************************************)
EXTENDS Integers, Sequences

VARIABLES part,   \* the component on the bench
          v1, v2, v3, v4, v5, v6, v7, v8, v9, v10, v11, v12, v13, v14, v15,
          v16, v17, v18, v19, v20, v21, v22, v23, v24, v25, v26

vars == <<part, v1, v2, v3, v4, v5, v6, v7, v8, v9, v10, v11, v12, v13, v14,
          v15, v16, v17, v18, v19, v20, v21, v22, v23, v24, v25, v26>>

Proxy == INSTANCE FfbProxy WITH
  Width <- 4, Slots <- 1, Forces <- {0, 1}, Depth <- 2, MaxCreates <- 1,
  MaxAsks <- 4, MaxFaults <- 1, proc <- v1, reg <- v2, nextBlock <- v3,
  lastBlock <- v4, queue <- v5, kinds <- v6, params <- v7, ids <- v8,
  wheel <- v9, gain <- v10, asking <- v11, host <- v12, missed <- v13,
  report <- v14, virtual <- v15, real <- v16, creates <- v17, asks <- v18,
  faults <- v19

Worker == INSTANCE WheelWorker WITH
  Wheels <- {1, 2}, Classic <- {2}, NSlots <- 2, MaxClicks <- 2,
  MaxPresses <- 1, MaxPlugs <- 1, MaxFaults <- 1, attached <- v1, wheel <- v2,
  queue <- v3, job <- v4, vm <- v5, key <- v6, editor <- v7, lastSeen <- v8,
  page <- v9, picker <- v10, saved <- v11, touched <- v12, found <- v13,
  strayed <- v14, clicks <- v15, presses <- v16, plugs <- v17, faults <- v18

Tui == INSTANCE TuiApp WITH
  Wheels <- {1, 2}, Classic <- {2}, MaxKeys <- 4, MaxPresses <- 1,
  MaxPlugs <- 1, attached <- v1, wheel <- v2, profile <- v3, dev <- v4,
  noWheel <- v5, page <- v6, rows <- v7, seen <- v8, curves <- v9,
  prompt <- v10, help <- v11, flow <- v12, editor <- v13, input <- v14,
  monitor <- v15, sim <- v16, sweep <- v17, pending <- v18, retry <- v19,
  typed <- v20, shims <- v21, asked <- v22, quit <- v23, keys <- v24,
  presses <- v25, plugs <- v26

Page == INSTANCE TestPage WITH
  Wheels <- {1, 2}, Classic <- {1}, Gears <- {1, 2}, MaxMoves <- 2,
  MaxVisits <- 1, MaxPlugs <- 1, attached <- v1, picked <- v2, category <- v3,
  scans <- v4, posts <- v5, reader <- v6, device <- v7, model <- v8,
  available <- v9, lever <- v10, foot <- v11, events <- v12, snap <- v13,
  dirty <- v14, shown <- v15, fresh <- v16, moves <- v17, visits <- v18,
  plugs <- v19

Tests == INSTANCE ForceTest WITH
  Steps <- <<"effect", "mixed", "gain", "auto">>, MaxRuns <- 2,
  MaxFaults <- 1, wheel <- v1, plugged <- v2, can <- v3, thread <- v4,
  running <- v5, cell <- v6, flags <- v7, posts <- v8, plan <- v9,
  stopRow <- v10, dirty <- v11, runs <- v12, faults <- v13

Query == INSTANCE HidppQuery WITH
  Features <- <<3, 1, 122>>, Entities <- <<1, 0>>, MaxEntities <- 8,
  Interfaces <- {{1}, {16, 17}, {17, 18}}, Effects <- {0, 6}, MaxFaults <- 1,
  node <- v1, tool <- v2, pc <- v3, waiting <- v4, idx <- v5, count <- v6,
  entry <- v7, out <- v8, rounds <- v9, bus <- v10, inbox <- v11,
  parked <- v12, effect <- v13, shown <- v14, owned <- v15, dark <- v16,
  lost <- v17, late <- v18, strays <- v19, owner <- v20

\* The variables a component with n of them leaves over.
Spare20 == v21 = 0 /\ v22 = 0 /\ v23 = 0 /\ v24 = 0 /\ v25 = 0 /\ v26 = 0
Spare19 == v20 = 0 /\ Spare20
Spare18 == v19 = 0 /\ Spare19
Spare13 == v14 = 0 /\ v15 = 0 /\ v16 = 0 /\ v17 = 0 /\ v18 = 0 /\ Spare18

Kept20 == UNCHANGED <<v21, v22, v23, v24, v25, v26>>
Kept19 == UNCHANGED <<v20>> /\ Kept20
Kept18 == UNCHANGED <<v19>> /\ Kept19
Kept13 == UNCHANGED <<v14, v15, v16, v17, v18>> /\ Kept18

Init ==
  \/ part = "proxy" /\ Proxy!Init /\ Spare19
  \/ part = "worker" /\ Worker!Init /\ Spare18
  \/ part = "tui" /\ Tui!Init
  \/ part = "page" /\ Page!Init /\ Spare19
  \/ part = "tests" /\ Tests!Init /\ Spare13
  \/ part = "query" /\ Query!Init /\ Spare20

Next ==
  /\ UNCHANGED part
  /\ \/ part = "proxy" /\ Proxy!Next /\ Kept19
     \/ part = "worker" /\ Worker!Next /\ Kept18
     \/ part = "tui" /\ Tui!Next
     \/ part = "page" /\ Page!Next /\ Kept19
     \/ part = "tests" /\ Tests!Next /\ Kept13
     \/ part = "query" /\ Query!Next /\ Kept20

\* What each component's own specification is fair to.
Fairness ==
  /\ WF_(Proxy!vars)(part = "proxy" /\ Proxy!ServeCreate)
  /\ WF_(Proxy!vars)(part = "proxy" /\ Proxy!Serve)
  /\ WF_(Proxy!vars)(part = "proxy" /\ Proxy!Apply)
  /\ WF_(Proxy!vars)(part = "proxy" /\ Proxy!Shutdown)
  /\ WF_(Worker!vars)(part = "worker" /\ Worker!Worker)
  /\ WF_(Worker!vars)(part = "worker" /\ Worker!CheckDrift)
  /\ WF_(Tui!vars)(part = "tui" /\ Tui!MonitorTick)
  /\ WF_(Tui!vars)(part = "tui" /\ Tui!CheckDrift)
  /\ WF_(Tui!vars)(part = "tui" /\ Tui!Rediscover)
  /\ WF_(Tui!vars)(part = "tui" /\ Tui!RunShim)
  /\ WF_(Page!vars)(part = "page" /\ Page!Scan)
  /\ WF_(Page!vars)(part = "page" /\ Page!RunPost)
  /\ WF_(Page!vars)(part = "page" /\ Page!PollWheelEvents)
  /\ WF_(Page!vars)(part = "page" /\ Page!Push)
  /\ WF_(Tests!vars)(part = "tests" /\ Tests!Thread)
  /\ WF_(Tests!vars)(part = "tests" /\ Tests!RunPost)
  /\ WF_(Query!vars)(part = "query" /\ Query!Tool)
  /\ WF_(Query!vars)(part = "query" /\ Query!WheelTakes)

Spec == Init /\ [][Next]_vars /\ Fairness

-----------------------------------------------------------------------------
\* Whoever waits for an answer stops waiting: a host of the virtual wheel
\* blocked on a request, one whose report means nothing included (proxy.rs),
\* a page that queried the wheel over HID++ while reports were lost or readers
\* were left behind (hidpp.rs), and the window whose force test was stopped,
\* which gets its buttons back (fftest.rs, main.rs run_test_sim).
RequestsEnd ==
  /\ part = "proxy" /\ Proxy!HostWaits ~> ~(part = "proxy" /\ Proxy!HostWaits)
  /\ <>(part = "query" => Query!Ended)
  /\ part = "tests" /\ Tests!StopAsked ~> (part = "tests" => Tests!ButtonsBack)

\* Window and terminal notice what happens at the wheel: the window stops
\* managing a direct-drive wheel that was unplugged (worker.rs), and a
\* profile or mode chosen at the wheel reaches the terminal's rows once no
\* prompt is open (app.rs check_drift: "the check right after it closes
\* still catches up").
DeskCatchesUp ==
  /\ part = "worker" /\ Worker!Overlooked(1) ~> ~(part = "worker" /\ Worker!Overlooked(1))
  /\ part = "tui" /\ Tui!Stale ~> ~(part = "tui" /\ Tui!Stale)

\* Once the controls rest, the Info page shows the gear the lever is in and
\* the pedals that are down, in whatever order a move reported its buttons
\* (testing.rs).
PageFollowsControls ==
  part = "page" /\ Page!Behind ~> ~(part = "page" /\ Page!Behind)
=============================================================================
