----------------------------- MODULE DeskProofs -----------------------------
(***************************************************************************)
(* Theorems about the settings programs, the query tools, the proxy, the   *)
(* telemetry readers, the kinetic force channel and the force test.  The   *)
(* components have nothing in common; what two of them call alike is       *)
(* declared once.                                                          *)
(***************************************************************************)
EXTENDS Integers, Sequences, SequenceTheorems, WellFoundedInduction, TLAPS

CONSTANTS
  Wheels, Classic, MaxKeys, MaxPresses, MaxPlugs,
  Width, EffectSlots, Forces, Depth, MaxCreates, MaxAsks, MaxFaults,
  Features, Entities, MaxEntities, Interfaces, Effects, MaxLost,
  Rpms, Redlines,
  Attachable, Prefixes, Threads, MaxClicks,
  Pids, Polls, MaxProbes, MaxStarts,
  Callers, Torques, NaN, Peak, FullScale, EvdevSlots, Foreign, Budget,
  Titles, MaxFrames, Pace, Decay, Major,
  Steps, MaxRuns

VARIABLES
  attached, wheel, profile, dev, noWheel, page, rows, seen, curves, prompt,
  help, flow, editor, input, monitor, sim, sweep, pending, retry, typed,
  shims, asked, quit, keys, presses, plugs,
  proc, reg, nextBlock, lastBlock, queue, kinds, params, ids, gain, asking,
  host, missed, report, virtual, real, creates, asks, faults,
  node, tool, pc, waiting, idx, count, entry, out, rounds, bus, inbox, parked,
  effect, shown, owned, dark, lost, late, strays, owner,
  loaded, paused, rpm, maxRpm, throttle, heard, game,
  rig, caps, shim, rev, relay, cache, scans, posts, cmd, running, clicks,
  procs, term, flag, cell, thread, probes, child,
  evdev, effect_id, playing, last, status, effects, place, failed,
  left,
  title, mem, frame, script, copied, finished, credit, warned, sample,
  testing, plugged, can, flags, plan, stopRow, dirty, runs

Tui   == INSTANCE TuiApp
Proxy == INSTANCE FfbProxy WITH Slots <- EffectSlots
Query == INSTANCE HidppQuery WITH MaxFaults <- MaxLost
Scs   == INSTANCE ScsPlugin
Setup == INSTANCE SetupPage WITH Wheels <- Attachable
Sim   == INSTANCE SimPanel WITH MaxClicks <- MaxStarts
Kinetic == INSTANCE KineticForce WITH
             Slots <- EvdevSlots, pc <- place, faults <- failed
Shm   == INSTANCE SharedMemory
Tests == INSTANCE ForceTest WITH running <- testing

(***************************************************************************)
(* The terminal interface.                                                 *)
(***************************************************************************)
\* A prompt that is open is one whose keys the page's navigation never sees,
\* and none is open while a re-discovery is queued.
PromptKinds ==
  /\ prompt = Tui!NoPrompt \/ prompt.kind \in Tui!Modal
  /\ retry => prompt = Tui!NoPrompt

\* The rows of the pages outside the onboard flow.
PageRows == {"value", "curve", "toggle", "effect", "screen", "action", "colors",
             "mode", "new", "saved", "author"}

\* Leaving the flow reloads the rows: none of its own is left on a page.
RowsOfPage ==
  /\ flow \in {"none", "picker", "active", "copy"}
  /\ page \in Tui!Pages
  /\ flow = "none" => rows.list \subseteq PageRows
  /\ "author" \in rows.list => page = "profiles"

\* A run of the installer that is still to come was asked for, and keys queue
\* up only behind one.
RunsAsked ==
  /\ shims \in Nat /\ asked \in Nat
  /\ shims <= asked /\ (pending => shims < asked)
  /\ typed # <<>> => pending

\* What a reload reads for a page outside the flow.
LEMMA ReloadsPageRows ==
  ASSUME Tui!Reload, page' \in Tui!Pages
  PROVE  /\ flow' = "none" => rows'.list \subseteq PageRows
         /\ "author" \in rows'.list => page' = "profiles"
<1>1. Tui!NoRows.list = {}
  BY DEF Tui!NoRows
<1>2. ASSUME NEW w, flow' = "none" PROVE Tui!Rows(w).list \subseteq PageRows
  <2> DEFINE v == IF Tui!WheelPresent(w) THEN wheel'[w] ELSE Tui!Unreadable
  <2>1. Tui!SettingRows(v) \subseteq PageRows
    BY DEF Tui!SettingRows, PageRows
  <2>2. Tui!ProfilesRows(w, v) \subseteq PageRows
    BY DEF Tui!ProfilesRows, PageRows
  <2>3. "value" \in PageRows
    BY DEF PageRows
  <2> QED
    BY <1>2, <2>1, <2>2, <2>3 DEF Tui!Rows
<1>3. ASSUME NEW w, page' = "settings" PROVE "author" \notin Tui!Rows(w).list
  BY <1>3 DEF Tui!Rows, Tui!SettingRows
<1> QED
  BY <1>1, <1>2, <1>3 DEF Tui!Reload, Tui!Pages

LEMMA TuiPromptKinds ==
  PromptKinds /\ RowsOfPage /\ [Tui!Next]_(Tui!vars) => PromptKinds'
<1> SUFFICES ASSUME PromptKinds, RowsOfPage, [Tui!Next]_(Tui!vars)
             PROVE  PromptKinds'
  OBVIOUS
<1> USE DEF PromptKinds, Tui!NoPrompt
<1>1. CASE Tui!PromptKey
  <2>1. prompt' = prompt \/ prompt' = Tui!NoPrompt
    BY <1>1 DEF Tui!PromptKey
  <2>2. UNCHANGED retry
    BY <1>1 DEF Tui!PromptKey
  <2>3. CASE UNCHANGED prompt
    BY <2>2, <2>3
  <2>4. CASE prompt' = Tui!NoPrompt
    BY <2>4
  <2> QED
    BY <2>1, <2>3, <2>4
<1>2. CASE Tui!FlowKey
  <2>1. ~retry /\ UNCHANGED retry
    BY <1>2 DEF Tui!FlowKey, Tui!Press, Tui!Ready
  <2>2. UNCHANGED prompt \/ prompt' = Tui!Open("edit", "value")
    BY <1>2 DEF RowsOfPage, Tui!FlowKey, Tui!ToFlow, Tui!FlowEnter, Tui!Opened
  <2> QED
    BY <2>1, <2>2 DEF Tui!Open, Tui!Modal
<1>3. CASE Tui!NavKey
  BY <1>3 DEF Tui!NavKey, Tui!SetCat, Tui!NextWheel, Tui!Press, Tui!Ready,
     Tui!Unconfirmed
<1>4. CASE Tui!InfoKey
  BY <1>4 DEF Tui!InfoKey, Tui!ToPage, Tui!ToPrompt, Tui!Swallowing,
     Tui!SwallowingAll, Tui!Press, Tui!Ready, Tui!Unconfirmed, Tui!Opened,
     Tui!Open, Tui!Modal
<1>5. CASE Tui!SetupKey
  BY <1>5 DEF Tui!SetupKey, Tui!Press, Tui!Ready, Tui!Opened, Tui!Open,
     Tui!Modal
<1>6. CASE Tui!ListKey
  BY <1>6 DEF Tui!ListKey, RowsOfPage, PageRows, Tui!ToPage, Tui!ToFlow,
     Tui!ToPrompt, Tui!Swallowing, Tui!SwallowingAll, Tui!Press, Tui!Ready,
     Tui!Opened, Tui!Open, Tui!Modal, Tui!ApplyProfile, Tui!BeginEdit
<1>7. CASE Tui!MonitorTick
  BY <1>7 DEF Tui!MonitorTick, Tui!Unconfirmed, Tui!Ready
<1>8. CASE Tui!HelpKey \/ Tui!TestsEnd \/ Tui!CheckDrift \/ Tui!TypeAhead
            \/ Tui!RunShim \/ Tui!Rediscover
  <2>1. prompt' = prompt
    BY <1>8 DEF Tui!HelpKey, Tui!TestsEnd, Tui!CheckDrift, Tui!TypeAhead,
       Tui!RunShim, Tui!Rediscover
  <2>2. retry' = retry \/ retry' = FALSE
    BY <1>8 DEF Tui!HelpKey, Tui!TestsEnd, Tui!CheckDrift, Tui!TypeAhead,
       Tui!RunShim, Tui!Rediscover
  <2> QED
    BY <2>1, <2>2
<1>9. CASE Tui!ProfileButton \/ Tui!Plug
  BY <1>9 DEF Tui!ProfileButton, Tui!Plug, Tui!app
<1>10. CASE UNCHANGED Tui!vars
  BY <1>10 DEF Tui!vars
<1> QED
  BY <1>1, <1>2, <1>3, <1>4, <1>5, <1>6, <1>7, <1>8, <1>9, <1>10 DEF Tui!Next

LEMMA TuiRowsOfPage ==
  PromptKinds /\ RowsOfPage /\ [Tui!Next]_(Tui!vars) => RowsOfPage'
<1> SUFFICES ASSUME PromptKinds, RowsOfPage, [Tui!Next]_(Tui!vars)
             PROVE  RowsOfPage'
  OBVIOUS
<1>a. ASSUME Tui!Reload, flow' \in {"none", "picker", "active", "copy"},
             page' \in Tui!Pages
      PROVE  RowsOfPage'
  BY <1>a, ReloadsPageRows DEF RowsOfPage
<1>b. ASSUME UNCHANGED <<flow, rows, page>> PROVE RowsOfPage'
  BY <1>b DEF RowsOfPage
<1>1. CASE Tui!PromptKey
  BY <1>1, <1>a, <1>b DEF Tui!PromptKey, RowsOfPage
<1>2. CASE Tui!FlowKey
  <2>1. CASE UNCHANGED <<flow, rows, page>>
    BY <2>1, <1>b
  <2>2. CASE Tui!FlowEnter /\ Tui!Reload
    BY <1>2, <2>2, <1>a DEF Tui!FlowKey, Tui!ToFlow, Tui!FlowEnter, Tui!PickSlot,
       Tui!CopySelected, Tui!Revert, Tui!ExitFlow, Tui!EditorFree, RowsOfPage
  <2>3. CASE Tui!FlowEsc /\ Tui!Reload
    BY <1>2, <2>3, <1>a DEF Tui!FlowKey, Tui!ToFlow, Tui!FlowEsc, Tui!ExitFlow,
       Tui!EditorFree, RowsOfPage
  <2> QED
    BY <1>2, <2>1, <2>2, <2>3 DEF Tui!FlowKey
<1>3. CASE Tui!NavKey
  BY <1>3, <1>a, <1>b DEF Tui!NavKey, Tui!SetCat, Tui!NextWheel, RowsOfPage
<1>4. CASE Tui!InfoKey
  BY <1>4, <1>a, <1>b DEF Tui!InfoKey, RowsOfPage
<1>5. CASE Tui!SetupKey
  BY <1>5, <1>b DEF Tui!SetupKey
<1>6. CASE Tui!ListKey
  <2>1. Tui!Reload \/ UNCHANGED rows
    BY <1>6 DEF Tui!ListKey, Tui!ApplyProfile, Tui!BeginEdit
  <2>2. UNCHANGED flow \/ (flow' = "picker" /\ Tui!Reload)
    BY <1>6 DEF Tui!ListKey, Tui!ApplyProfile
  <2>3. UNCHANGED page
    BY <1>6 DEF Tui!ListKey
  <2> QED
    BY <2>1, <2>2, <2>3, <1>a, <1>b DEF RowsOfPage
<1>7. CASE Tui!CheckDrift
  BY <1>7, <1>a, <1>b DEF Tui!CheckDrift, RowsOfPage
<1>8. CASE Tui!Rediscover
  BY <1>8, <1>a, <1>b DEF Tui!Rediscover, RowsOfPage
<1>9. CASE Tui!HelpKey \/ Tui!TestsEnd \/ Tui!MonitorTick \/ Tui!TypeAhead
            \/ Tui!RunShim
  BY <1>9, <1>b DEF Tui!HelpKey, Tui!TestsEnd, Tui!MonitorTick, Tui!TypeAhead,
     Tui!RunShim
<1>10. CASE Tui!ProfileButton \/ Tui!Plug
  BY <1>10, <1>b DEF Tui!ProfileButton, Tui!Plug, Tui!app
<1>11. CASE UNCHANGED Tui!vars
  BY <1>11, <1>b DEF Tui!vars
<1> QED
  BY <1>1, <1>2, <1>3, <1>4, <1>5, <1>6, <1>7, <1>8, <1>9, <1>10, <1>11
  DEF Tui!Next

\* The page changes and another wheel is taken only where no prompt is open.
LEMMA TuiPromptsStay ==
  PromptKinds /\ RowsOfPage /\ Tui!PromptsAnswerable /\ [Tui!Next]_(Tui!vars)
    => Tui!PromptsAnswerable'
<1> SUFFICES ASSUME PromptKinds, RowsOfPage, Tui!PromptsAnswerable,
                    [Tui!Next]_(Tui!vars)
             PROVE  Tui!PromptsAnswerable'
  OBVIOUS
<1>a. ASSUME UNCHANGED <<page, dev, flow>>,
             prompt' \in {prompt, Tui!NoPrompt}
             \/ \E k, r : prompt' = Tui!Open(k, r)
      PROVE  Tui!PromptsAnswerable'
  BY <1>a DEF Tui!PromptsAnswerable, Tui!Open
<1>b. ASSUME Tui!ToPage
      PROVE  prompt = Tui!NoPrompt /\ flow = "none"
  BY <1>b DEF Tui!ToPage, Tui!ToFlow, Tui!ToPrompt, Tui!Swallowing,
     Tui!SwallowingAll, PromptKinds
<1>1. CASE Tui!PromptKey
  BY <1>1, <1>a DEF Tui!PromptKey
<1>2. CASE Tui!FlowKey
  <2>1. flow # "none" /\ UNCHANGED <<page, dev>>
    BY <1>2 DEF Tui!FlowKey, Tui!ToFlow
  <2>2. UNCHANGED prompt \/ prompt' = Tui!Open("edit", "value")
    BY <1>2 DEF RowsOfPage, Tui!FlowKey, Tui!ToFlow, Tui!FlowEnter, Tui!Opened
  <2> QED
    BY <2>1, <2>2 DEF Tui!PromptsAnswerable, Tui!Open
<1>3. CASE Tui!NavKey
  <2>1. prompt' = Tui!NoPrompt /\ UNCHANGED flow
    BY <1>3, <1>b DEF Tui!NavKey, Tui!SetCat, Tui!NextWheel, Tui!Unconfirmed
  <2>2. flow = "none"
    BY <1>3, <1>b DEF Tui!NavKey
  <2> QED
    BY <2>1, <2>2 DEF Tui!PromptsAnswerable
<1>4. CASE Tui!InfoKey
  BY <1>4, <1>a DEF Tui!InfoKey, Tui!Unconfirmed, Tui!Opened
<1>5. CASE Tui!SetupKey
  BY <1>5, <1>a DEF Tui!SetupKey, Tui!Opened
<1>6. CASE Tui!ListKey
  <2>1. UNCHANGED <<page, dev>> /\ prompt = Tui!NoPrompt /\ flow = "none"
    BY <1>6, <1>b DEF Tui!ListKey
  <2>2. UNCHANGED prompt \/ \E k, r : prompt' = Tui!Open(k, r)
    BY <1>6 DEF Tui!ListKey, Tui!ApplyProfile, Tui!BeginEdit, Tui!Opened
  <2>3. UNCHANGED flow \/ page = "profiles"
    BY <1>6 DEF RowsOfPage, Tui!ListKey, Tui!ApplyProfile
  <2> QED
    BY <2>1, <2>2, <2>3 DEF Tui!PromptsAnswerable, Tui!Open
<1>7. CASE Tui!MonitorTick
  BY <1>7, <1>a DEF Tui!MonitorTick, Tui!Unconfirmed
<1>8. CASE Tui!Rediscover
  BY <1>8 DEF Tui!Rediscover, PromptKinds, Tui!PromptsAnswerable
<1>9. CASE Tui!HelpKey \/ Tui!TestsEnd \/ Tui!CheckDrift \/ Tui!TypeAhead
            \/ Tui!RunShim
  BY <1>9, <1>a DEF Tui!HelpKey, Tui!TestsEnd, Tui!CheckDrift, Tui!TypeAhead,
     Tui!RunShim
<1>10. CASE Tui!ProfileButton \/ Tui!Plug
  BY <1>10, <1>a DEF Tui!ProfileButton, Tui!Plug, Tui!app
<1>11. CASE UNCHANGED Tui!vars
  BY <1>11, <1>a DEF Tui!vars
<1> QED
  BY <1>1, <1>2, <1>3, <1>4, <1>5, <1>6, <1>7, <1>8, <1>9, <1>10, <1>11
  DEF Tui!Next

LEMMA TuiRunsAsked == RunsAsked /\ [Tui!Next]_(Tui!vars) => RunsAsked'
<1> SUFFICES ASSUME RunsAsked, [Tui!Next]_(Tui!vars)
             PROVE  RunsAsked'
  OBVIOUS
<1>a. ASSUME UNCHANGED <<shims, asked, typed, pending>> PROVE RunsAsked'
  BY <1>a DEF RunsAsked
<1>b. ASSUME NEW k, Tui!Press(k)
      PROVE  ~pending /\ typed = <<>> /\ typed' = <<>>
  BY <1>b DEF Tui!Press, Tui!Ready, RunsAsked
<1>c. ASSUME typed = <<>>, typed' = <<>>, UNCHANGED shims,
             UNCHANGED <<pending, asked>>
             \/ (pending' = TRUE
                  /\ asked' = asked + (IF typed = <<>> THEN 1 ELSE 0))
      PROVE  RunsAsked'
  BY <1>c DEF RunsAsked
<1>1. CASE Tui!PromptKey
  <2>1. UNCHANGED shims /\ typed = <<>> /\ typed' = <<>>
    BY <1>1, <1>b DEF Tui!PromptKey
  <2>2. \/ UNCHANGED <<pending, asked>>
        \/ (pending' = TRUE
              /\ asked' = asked + (IF typed = <<>> THEN 1 ELSE 0))
    BY <1>1 DEF Tui!PromptKey, Tui!Answer, Tui!Commit, Tui!CommitAddGame,
       Tui!SaveProfile, Tui!DeleteProfile, Tui!SpawnSim, Tui!SpawnSweep
  <2> QED
    BY <2>1, <2>2, <1>c
<1>2. CASE Tui!FlowKey
  BY <1>2, <1>b, <1>c DEF Tui!FlowKey
<1>3. CASE Tui!NavKey
  BY <1>3, <1>b, <1>c DEF Tui!NavKey, Tui!SetCat, Tui!NextWheel
<1>4. CASE Tui!InfoKey
  BY <1>4, <1>b, <1>c DEF Tui!InfoKey
<1>5. CASE Tui!SetupKey
  BY <1>5, <1>b, <1>c DEF Tui!SetupKey
<1>6. CASE Tui!ListKey
  BY <1>6, <1>b, <1>c DEF Tui!ListKey
<1>7. CASE Tui!HelpKey
  BY <1>7, <1>b, <1>c DEF Tui!HelpKey
<1>8. CASE Tui!TypeAhead
  BY <1>8 DEF Tui!TypeAhead, RunsAsked
<1>9. CASE Tui!RunShim
  BY <1>9 DEF Tui!RunShim, Tui!LeftTyped, Tui!Drained, RunsAsked
<1>10. CASE Tui!TestsEnd \/ Tui!MonitorTick \/ Tui!CheckDrift \/ Tui!Rediscover
  BY <1>10, <1>a DEF Tui!TestsEnd, Tui!MonitorTick, Tui!CheckDrift, Tui!Rediscover
<1>11. CASE Tui!ProfileButton \/ Tui!Plug
  BY <1>11, <1>a DEF Tui!ProfileButton, Tui!Plug, Tui!app
<1>12. CASE UNCHANGED Tui!vars
  BY <1>12, <1>a DEF Tui!vars
<1> QED
  BY <1>1, <1>2, <1>3, <1>4, <1>5, <1>6, <1>7, <1>8, <1>9, <1>10, <1>11, <1>12
  DEF Tui!Next

\* The monitor is stopped, or scanned anew for the wheel that is managed,
\* wherever the Info page is entered or the wheel under it changes.
LEMMA TuiMonitor ==
  Tui!MonitorOfManagedWheel /\ [Tui!Next]_(Tui!vars)
    => Tui!MonitorOfManagedWheel'
<1> SUFFICES ASSUME Tui!MonitorOfManagedWheel, [Tui!Next]_(Tui!vars)
             PROVE  Tui!MonitorOfManagedWheel'
  OBVIOUS
<1>a. ASSUME UNCHANGED <<page, dev, monitor>>
      PROVE  Tui!MonitorOfManagedWheel'
  BY <1>a DEF Tui!MonitorOfManagedWheel
<1>b. ASSUME monitor' = Tui!Scan(dev') \/ monitor' = Tui!None \/ page' # "info"
      PROVE  Tui!MonitorOfManagedWheel'
  BY <1>b DEF Tui!MonitorOfManagedWheel, Tui!Scan
<1>1. CASE Tui!NavKey
  <2>1. CASE Tui!SetCat
    BY <2>1, <1>b DEF Tui!SetCat
  <2>2. CASE Tui!NextWheel
    BY <2>2, <1>b DEF Tui!NextWheel, Tui!Rescanned, Tui!MonitorMoves
  <2>3. CASE UNCHANGED <<page, dev, Tui!tests>>
    BY <2>3, <1>a DEF Tui!tests
  <2> QED
    BY <1>1, <2>1, <2>2, <2>3 DEF Tui!NavKey
<1>2. CASE Tui!InfoKey
  BY <1>2, <1>a, <1>b DEF Tui!InfoKey
<1>3. CASE Tui!MonitorTick
  BY <1>3, <1>b DEF Tui!MonitorTick
<1>4. CASE Tui!Rediscover
  BY <1>4, <1>a, <1>b DEF Tui!Rediscover
<1>5. CASE Tui!PromptKey \/ Tui!FlowKey \/ Tui!SetupKey \/ Tui!ListKey
            \/ Tui!HelpKey
  BY <1>5, <1>a DEF Tui!PromptKey, Tui!FlowKey, Tui!SetupKey, Tui!ListKey,
     Tui!HelpKey, Tui!tests
<1>6. CASE Tui!TestsEnd \/ Tui!CheckDrift \/ Tui!TypeAhead \/ Tui!RunShim
  BY <1>6, <1>a DEF Tui!TestsEnd, Tui!CheckDrift, Tui!TypeAhead, Tui!RunShim,
     Tui!tests
<1>7. CASE Tui!ProfileButton \/ Tui!Plug
  BY <1>7, <1>a DEF Tui!ProfileButton, Tui!Plug, Tui!app, Tui!tests
<1>8. CASE UNCHANGED Tui!vars
  BY <1>8, <1>a DEF Tui!vars
<1> QED
  BY <1>1, <1>2, <1>3, <1>4, <1>5, <1>6, <1>7, <1>8 DEF Tui!Next

TuiInv ==
  PromptKinds /\ RowsOfPage /\ RunsAsked
    /\ Tui!PromptsAnswerable /\ Tui!MonitorOfManagedWheel

LEMMA TuiStarts == Tui!Init => TuiInv
<1> SUFFICES ASSUME Tui!Init PROVE TuiInv
  OBVIOUS
<1>1. PromptKinds /\ Tui!PromptsAnswerable
  BY DEF Tui!Init, PromptKinds, Tui!PromptsAnswerable
<1>2. RowsOfPage
  BY DEF Tui!Init, RowsOfPage, Tui!NoRows, Tui!Pages
<1>3. RunsAsked
  BY DEF Tui!Init, RunsAsked
<1>4. Tui!MonitorOfManagedWheel
  BY DEF Tui!Init, Tui!MonitorOfManagedWheel, Tui!Scan
<1> QED
  BY <1>1, <1>2, <1>3, <1>4 DEF TuiInv

LEMMA TuiSteps == TuiInv /\ [Tui!Next]_(Tui!vars) => TuiInv'
  BY TuiPromptKinds, TuiRowsOfPage, TuiPromptsStay, TuiRunsAsked, TuiMonitor
  DEF TuiInv

LEMMA TuiSound ==
  TuiInv => /\ Tui!PromptsAnswerable
            /\ Tui!ShimOncePerRequest
            /\ Tui!MonitorOfManagedWheel
BY DEF TuiInv, RunsAsked, Tui!ShimOncePerRequest

\* app.rs, whatever the wheels, however many keys and however often the cable
\* is pulled: no prompt is left open behind another page or for another wheel
\* and the onboard flow is left through its own keys; every run of the
\* installer was asked for by a key pressed while it did not run; and the
\* monitor on the Info page is that of the wheel being managed.
THEOREM PromptsStayAnswerable ==
  Tui!Spec => [](/\ Tui!PromptsAnswerable
                 /\ Tui!ShimOncePerRequest
                 /\ Tui!MonitorOfManagedWheel)
<1> QED
  BY TuiSound, TuiStarts, TuiSteps, PTL DEF Tui!Spec

(***************************************************************************)
(* The truck simulators' plugin.                                           *)
(***************************************************************************)
\* The plugin believes it is driving only while the game is, and a redline of
\* zero means that no engine speed was ever sent.
PluginAwake ==
  /\ maxRpm \in Nat
  /\ game = "driving" => loaded
  /\ game # "driving" /\ loaded => paused
  /\ maxRpm = 0 => heard \in {<<>>, <<0, 0>>}

ScsInv == PluginAwake /\ Scs!EngineOffInMenus

LEMMA ScsStarts == Scs!Init => ScsInv
BY DEF Scs!Init, ScsInv, PluginAwake, Scs!EngineOffInMenus

LEMMA ScsSteps == Scs!RedlineAssumption /\ ScsInv /\ [Scs!Next]_(Scs!vars) => ScsInv'
<1> SUFFICES ASSUME Scs!RedlineAssumption, ScsInv, [Scs!Next]_(Scs!vars) PROVE ScsInv'
  OBVIOUS
<1> USE DEF ScsInv, PluginAwake, Scs!EngineOffInMenus, Scs!RedlineAssumption
<1>1. CASE Scs!ScsInit
  BY <1>1 DEF Scs!ScsInit
<1>2. CASE Scs!Channel \/ Scs!FrameEnd \/ Scs!Started
  BY <1>2 DEF Scs!Channel, Scs!FrameEnd, Scs!Started
<1>3. CASE Scs!Configuration
  BY <1>3 DEF Scs!Configuration
<1>4. CASE Scs!Paused \/ Scs!ScsShutdown
  BY <1>4 DEF Scs!Paused, Scs!ScsShutdown, Scs!EngineOff
<1>5. CASE UNCHANGED Scs!vars
  BY <1>5 DEF Scs!vars
<1> QED
  BY <1>1, <1>2, <1>3, <1>4, <1>5 DEF Scs!Next

\* lib.rs send_engine_off: whatever the game calls back with and however often
\* the plugin is loaded again, silence follows engine off.
THEOREM EngineOffLast ==
  ASSUME Scs!RedlineAssumption
  PROVE  Scs!Spec => []Scs!EngineOffInMenus
<1>1. Scs!Init => ScsInv  BY ScsStarts
<1>2. ScsInv /\ [Scs!Next]_(Scs!vars) => ScsInv'  BY ScsSteps
<1>3. ScsInv => Scs!EngineOffInMenus  BY DEF ScsInv
<1> QED
  BY <1>1, <1>2, <1>3, PTL DEF Scs!Spec

(***************************************************************************)
(* The HID++ queries.                                                      *)
(***************************************************************************)
\* What a request on its way asks of the wheel, and what an answer on its way
\* tells of it: the display is started only on a wheel that showed nothing.
BusHonest(r) ==
  /\ r.index = 0 => r.arg = Query!Wanted
  /\ r.fn = 3 => dark

AnswerHonest(r) ==
  /\ r.index = 0 => r.val = Query!IndexOf(Query!Wanted)
  /\ r.index = Query!IndexOf(Query!RpmDisplay) /\ r.index # 0 /\ r.fn = 2
       /\ r.val = Query!Off => dark

IsSeq(s) == \E S : s \in Seq(S)

\* Past the first question the tool has the index of its own feature, and it
\* starts the display only when the wheel showed nothing.
ToolKnows ==
  /\ tool \in {"firmware", "features", "probe"}
  /\ pc \in {"resolve", "count", "entry", "arm", "state", "start", "level", "done"}
  /\ waiting => pc \in {"resolve", "count", "entry", "state"}
  /\ pc \notin {"resolve", "done"} =>
       idx = Query!IndexOf(Query!Wanted) /\ idx # 0
  /\ pc \in {"arm", "state", "start", "level"} => tool = "probe"
  /\ pc = "start" => dark
  /\ effect = Query!Off => dark
  /\ dark \in BOOLEAN

Traffic ==
  /\ IsSeq(bus) /\ IsSeq(inbox)
  /\ \A i \in 1..Len(bus) : BusHonest(bus[i])
  /\ \A i \in 1..Len(inbox) : AnswerHonest(inbox[i])

\* Appending keeps the elements and adds one, a tail leaves all but the first.
LEMMA Appended ==
  ASSUME NEW s, NEW x, IsSeq(s)
  PROVE  /\ IsSeq(Append(s, x))
         /\ \A i \in 1..Len(Append(s, x)) :
              Append(s, x)[i] = x \/ (i \in 1..Len(s) /\ Append(s, x)[i] = s[i])
<1>1. PICK S : s \in Seq(S)
  BY DEF IsSeq
<1> DEFINE T == S \cup {x}
<1>2. s \in Seq(T) /\ x \in T
  BY <1>1
<1> HIDE DEF T
<1>3. Append(s, x) \in Seq(T) /\ Len(Append(s, x)) = Len(s) + 1
      /\ Len(s) \in Nat
  BY <1>2, AppendProperties, LenProperties
<1>4. \A i \in 1..Len(s) + 1 : Append(s, x)[i] = IF i <= Len(s) THEN s[i] ELSE x
  BY <1>2, AppendProperties
<1> QED
  BY <1>3, <1>4 DEF IsSeq

LEMMA Joined ==
  ASSUME NEW s, NEW t, IsSeq(s), IsSeq(t)
  PROVE  /\ IsSeq(s \o t)
         /\ \A i \in 1..Len(s \o t) :
              \/ i \in 1..Len(s) /\ (s \o t)[i] = s[i]
              \/ \E k \in 1..Len(t) : (s \o t)[i] = t[k]
<1>1. PICK S : s \in Seq(S)
  BY DEF IsSeq
<1>2. PICK T : t \in Seq(T)
  BY DEF IsSeq
<1> DEFINE U == S \cup T
<1>3. s \in Seq(U) /\ t \in Seq(U)
  BY <1>1, <1>2
<1> HIDE DEF U
<1>4. /\ s \o t \in Seq(U) /\ Len(s \o t) = Len(s) + Len(t)
      /\ Len(s) \in Nat /\ Len(t) \in Nat
  BY <1>3, ConcatProperties, LenProperties
<1>5. \A i \in 1..Len(s) + Len(t) :
        (s \o t)[i] = IF i <= Len(s) THEN s[i] ELSE t[i - Len(s)]
  BY <1>3, ConcatProperties
<1>6. ASSUME NEW i \in 1..Len(s) + Len(t), ~(i <= Len(s))
      PROVE  i - Len(s) \in 1..Len(t)
  BY <1>4, <1>6
<1> QED
  BY <1>4, <1>5, <1>6 DEF IsSeq

LEMMA Taken ==
  ASSUME NEW s, IsSeq(s), s # <<>>
  PROVE  /\ IsSeq(Tail(s)) /\ Head(s) = s[1] /\ 1 \in 1..Len(s)
         /\ \A i \in 1..Len(Tail(s)) : i + 1 \in 1..Len(s) /\ Tail(s)[i] = s[i + 1]
<1>1. PICK S : s \in Seq(S)
  BY DEF IsSeq
<1>2. /\ Tail(s) \in Seq(S) /\ Len(Tail(s)) = Len(s) - 1 /\ Len(s) \in Nat
      /\ Len(s) # 0 /\ Head(s) = s[1]
      /\ \A i \in 1..Len(Tail(s)) : Tail(s)[i] = s[i + 1]
  BY <1>1, HeadTailProperties, EmptySeq, LenProperties
<1> QED
  BY <1>2 DEF IsSeq

\* What the tool concludes from an answer it may believe.
LEMMA ConcludesKnows ==
  ASSUME NEW val, ToolKnows, waiting, Query!Concludes(val), waiting' = FALSE,
         UNCHANGED <<tool, dark, effect>>,
         pc = "resolve" /\ val # Query!None => val = Query!IndexOf(Query!Wanted),
         pc = "state" /\ val = Query!Off => dark
  PROVE  ToolKnows'
<1> USE DEF ToolKnows, Query!Concludes, Query!Wanted
<1>1. CASE pc = "resolve"
  BY <1>1
<1>2. CASE pc = "count"
  BY <1>2
<1>3. CASE pc = "entry"
  BY <1>3 DEF Query!NextEntry
<1>4. CASE pc = "state"
  BY <1>4 DEF Query!Starts, Query!OffOnly
<1> QED
  BY <1>1, <1>2, <1>3, <1>4

LEMMA QueryKnows ==
  ToolKnows /\ Traffic /\ [Query!Next]_(Query!vars) => ToolKnows'
<1> SUFFICES ASSUME ToolKnows, Traffic, [Query!Next]_(Query!vars)
             PROVE  ToolKnows'
  OBVIOUS
<1>a. ASSUME UNCHANGED <<tool, idx, pc, waiting, effect, dark>> PROVE ToolKnows'
  BY <1>a DEF ToolKnows, Query!Wanted
<1>1. CASE Query!Send
  BY <1>1 DEF Query!Send, ToolKnows, Query!Wanted, Query!wheel
<1>2. CASE Query!Receive
  <2>1. waiting /\ inbox # <<>> /\ UNCHANGED <<tool, dark, effect>>
    BY <1>2 DEF Query!Receive, Query!wheel
  <2> DEFINE r == Head(inbox)
  <2>2. AnswerHonest(r)
    BY <2>1, Taken DEF Traffic
  <2> HIDE DEF r
  <2>3. CASE Query!Echoes(r) /\ waiting' = FALSE /\ Query!Concludes(r.val)
    <3>1. ASSUME pc = "resolve" PROVE r.val = Query!IndexOf(Query!Wanted)
      BY <2>2, <2>3, <3>1
      DEF AnswerHonest, Query!Echoes, Query!Request, Query!Report
    <3>2. ASSUME pc = "state", r.val = Query!Off PROVE dark
      <4>1. r.index = idx /\ r.fn = 2
        BY <2>3, <3>2 DEF Query!Echoes, Query!Request, Query!RevSend, Query!Report
      <4>2. idx = Query!IndexOf(Query!RpmDisplay) /\ idx # 0
        BY <3>2 DEF ToolKnows, Query!Wanted
      <4> QED
        BY <4>1, <4>2, <2>2, <3>2 DEF AnswerHonest
    <3> QED
      BY <2>1, <2>3, <3>1, <3>2, ConcludesKnows
  <2>4. CASE UNCHANGED <<waiting, pc, idx>>
    BY <2>1, <2>4, <1>a
  <2>5. CASE waiting' = FALSE /\ Query!Concludes(Query!None)
    <3>1. Query!None # Query!Off
      BY DEF Query!None, Query!Off
    <3> QED
      BY <2>1, <2>5, <3>1, ConcludesKnows
  <2> QED
    BY <1>2, <2>3, <2>4, <2>5 DEF Query!Receive, r
<1>3. CASE Query!Timeout
  <2>1. /\ waiting /\ UNCHANGED <<tool, dark, effect>>
        /\ waiting' = FALSE /\ Query!Concludes(Query!None)
    BY <1>3 DEF Query!Timeout, Query!wheel
  <2>2. Query!None # Query!Off
    BY DEF Query!None, Query!Off
  <2> QED
    BY <2>1, <2>2, ConcludesKnows
<1>4. CASE Query!Arm \/ Query!Start \/ Query!Level
  BY <1>4 DEF Query!Arm, Query!Start, Query!Level, ToolKnows, Query!Wanted,
     Query!wheel
<1>5. CASE Query!WheelTakes
  <2>1. /\ bus # <<>> /\ UNCHANGED <<tool, idx, pc, waiting, dark>>
        /\ \/ UNCHANGED effect
           \/ Query!IsRev(Head(bus), 3)
    BY <1>5 DEF Query!WheelTakes
  <2>2. Query!IsRev(Head(bus), 3) => dark
    BY <2>1, Taken DEF Traffic, BusHonest, Query!IsRev
  <2> QED
    BY <2>1, <2>2 DEF ToolKnows, Query!Wanted
<1>6. CASE Query!OwnerPicks
  BY <1>6 DEF Query!OwnerPicks, ToolKnows, Query!Wanted
<1>7. CASE Query!ParkedTakes \/ Query!Stray
  BY <1>7, <1>a DEF Query!ParkedTakes, Query!Stray, Query!wheel
<1>8. CASE UNCHANGED Query!vars
  BY <1>8, <1>a DEF Query!vars
<1> QED
  BY <1>1, <1>2, <1>3, <1>4, <1>5, <1>6, <1>7, <1>8 DEF Query!Next, Query!Tool

\* What stays on its way stays honest, for a wheel dark once is dark for good.
LEMMA QueryTraffic ==
  ToolKnows /\ Traffic /\ [Query!Next]_(Query!vars) => Traffic'
<1> SUFFICES ASSUME ToolKnows, Traffic, [Query!Next]_(Query!vars)
             PROVE  Traffic'
  OBVIOUS
<1>a. UNCHANGED tool /\ (dark => dark')
  BY DEF Query!Next, Query!Tool, Query!Send, Query!Receive, Query!Timeout,
     Query!Arm, Query!Start, Query!Level, Query!WheelTakes, Query!OwnerPicks,
     Query!ParkedTakes, Query!Stray, Query!vars, Query!wheel, ToolKnows
<1>b. \A r : (BusHonest(r) => BusHonest(r)') /\ (AnswerHonest(r) => AnswerHonest(r)')
  BY <1>a DEF BusHonest, AnswerHonest, Query!Wanted
<1>c. ASSUME IsSeq(bus'), \A i \in 1..Len(bus') : BusHonest(bus'[i]),
             UNCHANGED inbox \/ (inbox # <<>> /\ inbox' = Tail(inbox))
      PROVE  Traffic'
  <2>1. IsSeq(inbox') /\ \A i \in 1..Len(inbox') : AnswerHonest(inbox'[i])
    <3>1. CASE UNCHANGED inbox
      BY <3>1 DEF Traffic
    <3>2. CASE inbox # <<>> /\ inbox' = Tail(inbox)
      <4>1. IsSeq(Tail(inbox)) /\ \A i \in 1..Len(Tail(inbox)) :
              i + 1 \in 1..Len(inbox) /\ Tail(inbox)[i] = inbox[i + 1]
        BY <3>2, Taken DEF Traffic
      <4> QED
        BY <3>2, <4>1 DEF Traffic
    <3> QED
      BY <1>c, <3>1, <3>2
  <2> QED
    BY <1>b, <1>c, <2>1 DEF Traffic
<1>d. ASSUME IsSeq(inbox'), \A i \in 1..Len(inbox') : AnswerHonest(inbox'[i]),
             UNCHANGED bus \/ (bus # <<>> /\ bus' = Tail(bus))
      PROVE  Traffic'
  <2>1. IsSeq(bus') /\ \A i \in 1..Len(bus') : BusHonest(bus'[i])
    <3>1. CASE UNCHANGED bus
      BY <3>1 DEF Traffic
    <3>2. CASE bus # <<>> /\ bus' = Tail(bus)
      <4>1. IsSeq(Tail(bus)) /\ \A i \in 1..Len(Tail(bus)) :
              i + 1 \in 1..Len(bus) /\ Tail(bus)[i] = bus[i + 1]
        BY <3>2, Taken DEF Traffic
      <4> QED
        BY <3>2, <4>1 DEF Traffic
    <3> QED
      BY <1>d, <3>1, <3>2
  <2> QED
    BY <1>b, <1>d, <2>1 DEF Traffic
<1>e. ASSUME UNCHANGED bus,
             UNCHANGED inbox \/ (inbox # <<>> /\ inbox' = Tail(inbox))
      PROVE  Traffic'
  BY <1>c, <1>e DEF Traffic
<1>1. CASE Query!Send
  <2>1. BusHonest(Query!Request)
    BY <1>1 DEF Query!Send, ToolKnows, BusHonest, Query!Request, Query!Report,
       Query!RevSend
  <2>2. bus' = Append(bus, Query!Request) /\ UNCHANGED inbox
    BY <1>1 DEF Query!Send
  <2> QED
    BY <2>1, <2>2, <1>c, Appended DEF Traffic
<1>2. CASE Query!Arm
  <2> DEFINE burst == <<Query!RevSend(0, 0), Query!RevSend(1, 0),
                        Query!RevSend(2, 0), Query!RevSend(0, 0)>>
  <2>1. \A k \in 1..Len(burst) : BusHonest(burst[k])
    <3>1. idx # 0
      BY <1>2 DEF Query!Arm, ToolKnows
    <3>2. \A f \in 0..2 : BusHonest(Query!RevSend(f, 0))
      BY <3>1 DEF BusHonest, Query!RevSend, Query!Report
    <3> QED
      BY <3>2
  <2>2. IsSeq(burst)
    <3>1. burst \in Seq({Query!RevSend(0, 0), Query!RevSend(1, 0), Query!RevSend(2, 0)})
      OBVIOUS
    <3> QED
      BY <3>1 DEF IsSeq
  <2>3. bus' = bus \o burst /\ UNCHANGED inbox
    BY <1>2 DEF Query!Arm
  <2> HIDE DEF burst
  <2> QED
    BY <2>1, <2>2, <2>3, <1>c, Joined DEF Traffic
<1>3. CASE Query!Start
  <2>1. BusHonest(Query!RevSend(3, Query!Display))
    BY <1>3 DEF Query!Start, ToolKnows, BusHonest, Query!Report, Query!RevSend
  <2>2. bus' = Append(bus, Query!RevSend(3, Query!Display)) /\ UNCHANGED inbox
    BY <1>3 DEF Query!Start
  <2> QED
    BY <2>1, <2>2, <1>c, Appended DEF Traffic
<1>4. CASE Query!Level
  <2> DEFINE burst == <<Query!RevSend(2, 0), Query!LevelReport(1 - rounds)>>
  <2>1. \A k \in 1..Len(burst) : BusHonest(burst[k])
    BY <1>4 DEF Query!Level, ToolKnows, BusHonest, Query!RevSend, Query!Report,
       Query!LevelReport
  <2>2. IsSeq(burst)
    <3>1. burst \in Seq({Query!RevSend(2, 0), Query!LevelReport(1 - rounds)})
      OBVIOUS
    <3> QED
      BY <3>1 DEF IsSeq
  <2>3. bus' = bus \o burst /\ UNCHANGED inbox
    BY <1>4 DEF Query!Level
  <2> HIDE DEF burst
  <2> QED
    BY <2>1, <2>2, <2>3, <1>c, Joined DEF Traffic
<1>5. CASE Query!WheelTakes
  <2> DEFINE r == Head(bus)
             a == [index |-> r.index, fn |-> r.fn, val |-> Query!WheelAnswer(r)]
  <2>1. bus # <<>> /\ bus' = Tail(bus)
        /\ (UNCHANGED inbox \/ inbox' = Append(inbox, a))
    BY <1>5 DEF Query!WheelTakes
  <2>2. BusHonest(r)
    BY <2>1, Taken DEF Traffic
  <2>3. AnswerHonest(a)
    BY <2>2 DEF BusHonest, AnswerHonest, Query!WheelAnswer, ToolKnows
  <2> HIDE DEF r, a
  <2>4. IsSeq(inbox') /\ \A i \in 1..Len(inbox') : AnswerHonest(inbox'[i])
    <3>1. IsSeq(inbox) /\ \A i \in 1..Len(inbox) : AnswerHonest(inbox[i])
      BY DEF Traffic
    <3>2. CASE UNCHANGED inbox
      BY <3>1, <3>2
    <3>3. CASE inbox' = Append(inbox, a)
      BY <3>1, <3>3, <2>3, Appended
    <3> QED
      BY <2>1, <3>2, <3>3
  <2> QED
    BY <2>1, <2>4, <1>d
<1>6. CASE Query!Stray
  <2> DEFINE a == [index |-> Query!None, fn |-> Query!None, val |-> Query!None]
  <2>1. AnswerHonest(a)
    BY DEF AnswerHonest, Query!None
  <2>2. inbox' = Append(inbox, a) /\ UNCHANGED bus
    BY <1>6 DEF Query!Stray
  <2> HIDE DEF a
  <2> QED
    BY <2>1, <2>2, <1>d, Appended DEF Traffic
<1>7. CASE Query!Receive \/ Query!Timeout \/ Query!ParkedTakes \/ Query!OwnerPicks
  BY <1>7, <1>e DEF Query!Receive, Query!Timeout, Query!ParkedTakes, Query!OwnerPicks
<1>8. CASE UNCHANGED Query!vars
  BY <1>8, <1>e DEF Query!vars
<1> QED
  BY <1>1, <1>2, <1>3, <1>4, <1>5, <1>6, <1>7, <1>8 DEF Query!Next, Query!Tool

LEMMA QueryEffect ==
  Query!OwnersEffectKept /\ ToolKnows /\ Traffic /\ [Query!Next]_(Query!vars)
    => Query!OwnersEffectKept'
<1> SUFFICES ASSUME Query!OwnersEffectKept, ToolKnows, Traffic,
                    [Query!Next]_(Query!vars)
             PROVE  Query!OwnersEffectKept'
  OBVIOUS
<1>1. CASE Query!WheelTakes
  <2>1. /\ bus # <<>> /\ UNCHANGED <<owned, dark>>
        /\ UNCHANGED effect \/ Query!IsRev(Head(bus), 3)
    BY <1>1 DEF Query!WheelTakes
  <2>2. Query!IsRev(Head(bus), 3) => dark
    BY <2>1, Taken DEF Traffic, BusHonest, Query!IsRev
  <2> QED
    BY <2>1, <2>2 DEF Query!OwnersEffectKept
<1>2. CASE Query!OwnerPicks
  BY <1>2 DEF Query!OwnerPicks, Query!OwnersEffectKept
<1>3. CASE UNCHANGED Query!wheel
  BY <1>3 DEF Query!wheel, Query!OwnersEffectKept
<1> QED
  BY <1>1, <1>2, <1>3 DEF Query!Next, Query!Tool, Query!Send, Query!Receive,
     Query!Timeout, Query!Arm, Query!Start, Query!Level, Query!ParkedTakes,
     Query!Stray, Query!vars, Query!wheel

\* What a report of the tool is framed in, and whether this node takes it.
Frame  == IF Query!LongOnly THEN Query!Long ELSE Query!Short
Framed == Frame \in node
Rev    == Query!IndexOf(Query!RpmDisplay)

\* No answer was lost or late and the owner kept away.
Calm == tool = "probe" /\ lost = 0 /\ late = 0 /\ owner = 0

Counters == lost \in Nat /\ late \in Nat /\ owner \in Nat /\ node \in Interfaces

\* Requests that the node takes name the display; an answer came from a node
\* that takes them, and a wheel that displayed something still does.
Asked(r) ==
  /\ r.id = Frame \/ (r.id = Query!Long /\ Framed)
  /\ r.fn \in {3, 6} => r.index = Rev /\ Rev # 0
  /\ r.fn = 3 => r.arg = Query!Display
  /\ r.fn = 6 => r.arg \in {0, 1}

Told(r) ==
  /\ r.index = 0 => Framed
  /\ r.index = Rev /\ Rev # 0 /\ r.fn = 2 /\ r.val # Query!Off => effect # Query!Off

Honoured ==
  /\ \A i \in 1..Len(bus) : Asked(bus[i])
  /\ \A i \in 1..Len(inbox) : Told(inbox[i])

\* Where the probe is: in its first round or its second, with an index that
\* was answered, and no thread of its own left behind.
Stage ==
  /\ pc \in {"resolve", "arm", "state", "start", "level", "done"}
  /\ pc # "done" => parked = 0
  /\ pc = "resolve" => idx = 0
  /\ idx = 0 => rounds = 0
  /\ idx # 0 => Framed /\ idx = Rev /\ rounds \in 0..2 /\ (pc = "done" <=> rounds = 2)

\* The question about the display is out, or its answer is in.
Awaited ==
  pc = "state" /\ waiting =>
    \/ \E i \in 1..Len(bus) : bus[i].index = Rev /\ bus[i].fn = 2
    \/ \E i \in 1..Len(inbox) : inbox[i].index = Rev /\ inbox[i].fn = 2

\* A level on its way finds a display that is on or about to be.
LitBefore(n) == effect # Query!Off \/ \E i \in 1..n : bus[i].fn = 3
Lit == \A j \in 1..Len(bus) : bus[j].fn = 6 => LitBefore(j - 1)
LitNow == pc = "level" => LitBefore(Len(bus))

\* The levels sent are those shown and those on their way, in order.
Pending(a, i) == i \in 1..Len(bus) /\ bus[i].fn = 6 /\ bus[i].arg = a
Levels ==
  /\ shown \in {<<>>, <<1>>, <<1, 0>>}
  /\ \A a \in {0, 1} : \A i, j \in 1..Len(bus) : Pending(a, i) /\ Pending(a, j) => i = j
  /\ \A i, j \in 1..Len(bus) : Pending(1, i) /\ Pending(0, j) => i < j
  /\ (\E i \in 1..Len(bus) : Pending(1, i)) <=> rounds >= 1 /\ shown = <<>>
  /\ (\E i \in 1..Len(bus) : Pending(0, i)) <=> rounds = 2 /\ shown # <<1, 0>>
  /\ rounds = 0 => shown = <<>>
  /\ shown = <<1, 0>> => rounds = 2

OnItsWay == Honoured /\ Stage /\ Awaited /\ Lit /\ LitNow /\ Levels
ProbeInv == Counters /\ (Calm => OnItsWay)


\* Where the elements of a longer sequence are, and of a shorter one.
LEMMA Grown ==
  ASSUME NEW s, NEW t, IsSeq(s), IsSeq(t)
  PROVE  /\ Len(s \o t) = Len(s) + Len(t) /\ Len(s) \in Nat /\ Len(t) \in Nat
         /\ \A i \in 1..Len(s) : (s \o t)[i] = s[i]
         /\ \A k \in 1..Len(t) : (s \o t)[Len(s) + k] = t[k]
<1>1. PICK S : s \in Seq(S)
  BY DEF IsSeq
<1>2. PICK T : t \in Seq(T)
  BY DEF IsSeq
<1> DEFINE U == S \cup T
<1>3. s \in Seq(U) /\ t \in Seq(U)
  BY <1>1, <1>2
<1> HIDE DEF U
<1>4. /\ Len(s \o t) = Len(s) + Len(t)
      /\ Len(s) \in Nat /\ Len(t) \in Nat
  BY <1>3, ConcatProperties, LenProperties
<1>5. \A i \in 1..Len(s) + Len(t) :
        (s \o t)[i] = IF i <= Len(s) THEN s[i] ELSE t[i - Len(s)]
  BY <1>3, ConcatProperties
<1>6. ASSUME NEW k \in 1..Len(t)
      PROVE  Len(s) + k \in 1..Len(s) + Len(t) /\ ~(Len(s) + k <= Len(s)) /\ Len(s) + k - Len(s) = k
  BY <1>4
<1>7. ASSUME NEW k \in 1..Len(t) PROVE (s \o t)[Len(s) + k] = t[k]
  BY <1>5, <1>6
<1>8. ASSUME NEW i \in 1..Len(s) PROVE (s \o t)[i] = s[i]
  BY <1>4, <1>5
<1> QED
  BY <1>4, <1>7, <1>8

LEMMA GrownByOne ==
  ASSUME NEW s, NEW x, IsSeq(s)
  PROVE  /\ Len(s) \in Nat /\ Len(Append(s, x)) = Len(s) + 1
         /\ \A i \in 1..Len(s) : Append(s, x)[i] = s[i]
         /\ Append(s, x)[Len(s) + 1] = x
<1>1. PICK S : s \in Seq(S)
  BY DEF IsSeq
<1> DEFINE T == S \cup {x}
<1>2. s \in Seq(T) /\ x \in T
  BY <1>1
<1> HIDE DEF T
<1> QED
  BY <1>2, AppendProperties, LenProperties

LEMMA Shortened ==
  ASSUME NEW s, IsSeq(s), s # <<>>
  PROVE  Len(s) \in Nat \ {0} /\ Len(Tail(s)) = Len(s) - 1
<1>1. PICK S : s \in Seq(S)
  BY DEF IsSeq
<1> QED
  BY <1>1, HeadTailProperties, EmptySeq, LenProperties

LEMMA LevelsShown ==
  /\ Append(<<>>, 1) = <<1>> /\ Append(<<1>>, 0) = <<1, 0>>
  /\ <<>> # <<1>> /\ <<>> # <<1, 0>> /\ <<1>> # <<1, 0>>
<1>1. Append(<<>>, 1) = <<1>>  OBVIOUS
<1>2. Append(<<1>>, 0) = <<1, 0>>
  <2>1. <<1>> \in Seq(Nat) /\ <<1, 0>> \in Seq(Nat) /\ Len(<<1>>) = 1 /\ Len(<<1, 0>>) = 2
    OBVIOUS
  <2>2. Append(<<1>>, 0) \in Seq(Nat) /\ Len(Append(<<1>>, 0)) = 2
        /\ Append(<<1>>, 0)[1] = 1 /\ Append(<<1>>, 0)[2] = 0
    BY <2>1, AppendProperties
  <2>3. <<1, 0>>[1] = 1 /\ <<1, 0>>[2] = 0
    OBVIOUS
  <2>4. \A i \in 1..2 : i = 1 \/ i = 2
    OBVIOUS
  <2> QED  BY <2>1, <2>2, <2>3, <2>4, SeqEqual
<1>3. <<>> # <<1>>  OBVIOUS
<1>4. <<>> # <<1, 0>>  OBVIOUS
<1>5. <<1>> # <<1, 0>>
  <2>1. Len(<<1>>) = 1 /\ Len(<<1, 0>>) = 2  OBVIOUS
  <2> QED  BY <2>1
<1> QED  BY <1>1, <1>2, <1>3, <1>4, <1>5

\* Reports that are no level leave the levels where they are.
LEMMA LevelsKept ==
  ASSUME Levels, Len(bus) \in Nat, Len(bus') \in Nat, Len(bus) <= Len(bus'),
         \A i \in 1..Len(bus) : bus'[i] = bus[i],
         \A i \in (Len(bus) + 1)..Len(bus') : bus'[i].fn # 6,
         UNCHANGED <<shown, rounds>>
  PROVE  Levels'
<1>1. ASSUME NEW a \in {0, 1}
      PROVE  /\ \A i \in 1..Len(bus') : Pending(a, i)' => i \in 1..Len(bus) /\ Pending(a, i)
             /\ \A i \in 1..Len(bus) : Pending(a, i) => i \in 1..Len(bus') /\ Pending(a, i)'
  BY DEF Pending
<1> QED  BY <1>1 DEF Levels

\* One level more on its way, the one of this round.
LEMMA LevelsSent ==
  ASSUME Levels, Len(bus) \in Nat, Len(bus') = Len(bus) + 2, rounds \in {0, 1},
         \A i \in 1..Len(bus) : bus'[i] = bus[i],
         bus'[Len(bus) + 1].fn # 6,
         bus'[Len(bus) + 2].fn = 6, bus'[Len(bus) + 2].arg = 1 - rounds,
         rounds' = rounds + 1, UNCHANGED shown
  PROVE  Levels'
<1>0. PICK n : n = Len(bus) + 2
  OBVIOUS
<1>a. \A i \in 1..Len(bus) : i \in 1..n /\ i < n
  BY <1>0
<1>b. n \in 1..n /\ Len(bus') = n
  BY <1>0
<1>c. \A i \in 1..n : i \in 1..Len(bus) \/ i = Len(bus) + 1 \/ i = n
  BY <1>0
<1>d. bus'[n].fn = 6 /\ bus'[n].arg = 1 - rounds
  BY <1>0
<1>1. /\ \A a \in {0, 1} : \A i \in 1..Len(bus) : Pending(a, i)' <=> Pending(a, i)
      /\ \A a \in {0, 1} : Pending(a, n)' <=> a = 1 - rounds
      /\ \A a \in {0, 1} : \A i \in 1..n : Pending(a, i)' => i \in 1..Len(bus) \/ i = n
      /\ n \in 1..n /\ \A i \in 1..Len(bus) : i < n
  <2>1. \A a \in {0, 1} : \A i \in 1..Len(bus) : Pending(a, i)' <=> Pending(a, i)
    BY <1>a, <1>b DEF Pending
  <2>2. \A a \in {0, 1} : Pending(a, n)' <=> a = 1 - rounds
    BY <1>b, <1>d DEF Pending
  <2>3. \A a \in {0, 1} : \A i \in 1..n : Pending(a, i)' => i \in 1..Len(bus) \/ i = n
    BY <1>b, <1>c DEF Pending
  <2> QED  BY <1>a, <1>b, <2>1, <2>2, <2>3
<1>2. Len(bus') = n  BY <1>b
<1>3. CASE rounds = 0
  <2>1. \A a \in {0, 1} : \A i \in 1..Len(bus) : ~Pending(a, i)
    BY <1>3 DEF Levels
  <2>2. shown' = <<>> /\ rounds' = 1
    BY <1>3 DEF Levels
  <2>3. Pending(1, n)' /\ ~Pending(0, n)'
    BY <1>1, <1>3
  <2>4. /\ \A i \in 1..n : Pending(1, i)' => i = n
        /\ \A i \in 1..n : ~Pending(0, i)'
    BY <1>1, <2>1, <2>3
  <2>5. \E i \in 1..n : Pending(1, i)'
    BY <1>1, <2>3
  <2>6. <<>> # <<1, 0>>  BY LevelsShown
  <2>7. \A a \in {0, 1} : \A i, j \in 1..n : Pending(a, i)' /\ Pending(a, j)' => i = j
    BY <2>4
  <2> QED  BY <1>2, <2>2, <2>4, <2>5, <2>6, <2>7 DEF Levels
<1>4. CASE rounds = 1
  <2>1. \A i \in 1..Len(bus) : ~Pending(0, i)
    BY <1>4 DEF Levels
  <2>2. rounds' = 2 /\ shown' = shown /\ shown # <<1, 0>>
    BY <1>4 DEF Levels
  <2>3. ~Pending(1, n)' /\ Pending(0, n)'
    BY <1>1, <1>4
  <2>4. /\ \A i \in 1..n : Pending(0, i)' => i = n
        /\ \A i \in 1..n : Pending(1, i)' <=> i \in 1..Len(bus) /\ Pending(1, i)
        /\ \E i \in 1..n : Pending(0, i)'
    BY <1>a, <1>1, <2>1, <2>3
  <2>5. \A a \in {0, 1} : \A i, j \in 1..n : Pending(a, i)' /\ Pending(a, j)' => i = j
    BY <2>4 DEF Levels
  <2>6. \A i, j \in 1..n : Pending(1, i)' /\ Pending(0, j)' => i < j
    BY <1>a, <2>4
  <2>7. (\E i \in 1..n : Pending(1, i)') <=> shown = <<>>
    <3>1. rounds >= 1  BY <1>4
    <3>2. (\E i \in 1..Len(bus) : Pending(1, i)) <=> shown = <<>>
      BY <3>1 DEF Levels
    <3> QED  BY <1>a, <2>4, <3>2
  <2>8. shown \in {<<>>, <<1>>, <<1, 0>>}  BY DEF Levels
  <2>9. rounds' >= 1 /\ rounds' # 0  BY <2>2
  <2> QED  BY <1>2, <2>2, <2>4, <2>5, <2>6, <2>7, <2>8, <2>9 DEF Levels
<1> QED  BY <1>3, <1>4

\* The wheel takes the first report, and shows its level if it is one.
LEMMA LevelsTaken ==
  ASSUME Levels, rounds \in 0..2, Len(bus) \in Nat \ {0}, Len(bus') = Len(bus) - 1,
         \A i \in 1..Len(bus') : bus'[i] = bus[i + 1],
         bus[1].fn = 6 => bus[1].arg \in {0, 1},
         shown' = IF bus[1].fn = 6 THEN Append(shown, bus[1].arg) ELSE shown,
         UNCHANGED rounds
  PROVE  Levels'
<1>1. \A a \in {0, 1} : \A i \in 1..Len(bus') :
        i + 1 \in 1..Len(bus) /\ (Pending(a, i)' <=> Pending(a, i + 1))
  BY DEF Pending
<1>2. \A a \in {0, 1} : Pending(a, 1) <=> bus[1].fn = 6 /\ bus[1].arg = a
  BY DEF Pending
<1>3. \A i \in 1..Len(bus) : i = 1 \/ (i - 1 \in 1..Len(bus') /\ (i - 1) + 1 = i)
  OBVIOUS
<1>4. \A a \in {0, 1} : (\E i \in 1..Len(bus) : Pending(a, i)) =>
        Pending(a, 1) \/ \E i \in 1..Len(bus') : Pending(a, i)'
  <2> SUFFICES ASSUME NEW a \in {0, 1}, NEW i \in 1..Len(bus), Pending(a, i), i # 1
               PROVE  Pending(a, i - 1)' /\ i - 1 \in 1..Len(bus')
    OBVIOUS
  <2>1. i - 1 \in 1..Len(bus') /\ (i - 1) + 1 = i  BY <1>3
  <2> QED  BY <1>1, <2>1
<1>5. \A a \in {0, 1} : (\E i \in 1..Len(bus') : Pending(a, i)') =>
        ~Pending(a, 1) /\ \E i \in 1..Len(bus) : Pending(a, i)
  <2> SUFFICES ASSUME NEW a \in {0, 1}, NEW i \in 1..Len(bus'), Pending(a, i)'
               PROVE  ~Pending(a, 1) /\ \E k \in 1..Len(bus) : Pending(a, k)
    OBVIOUS
  <2>1. i + 1 \in 1..Len(bus) /\ Pending(a, i + 1) /\ 1 \in 1..Len(bus) /\ i + 1 # 1
    BY <1>1
  <2> QED  BY <2>1 DEF Levels
<1>6. /\ \A a \in {0, 1} : \A i, j \in 1..Len(bus') : Pending(a, i)' /\ Pending(a, j)' => i = j
      /\ \A i, j \in 1..Len(bus') : Pending(1, i)' /\ Pending(0, j)' => i < j
  <2>1. ASSUME NEW a \in {0, 1}, NEW i \in 1..Len(bus'), NEW j \in 1..Len(bus'),
               Pending(a, i)', Pending(a, j)'
        PROVE  i = j
    <3>1. i + 1 = j + 1  BY <1>1, <2>1 DEF Levels
    <3> QED  BY <3>1
  <2>2. ASSUME NEW i \in 1..Len(bus'), NEW j \in 1..Len(bus'), Pending(1, i)', Pending(0, j)'
        PROVE  i < j
    <3>1. i + 1 < j + 1  BY <1>1, <2>2 DEF Levels
    <3> QED  BY <3>1
  <2> QED  BY <2>1, <2>2
<1>7. CASE bus[1].fn # 6
  <2>1. ~Pending(0, 1) /\ ~Pending(1, 1) /\ shown' = shown
    BY <1>2, <1>7
  <2> QED  BY <1>4, <1>5, <1>6, <2>1 DEF Levels
<1>8. CASE bus[1].fn = 6 /\ bus[1].arg = 1
  <2>1. Pending(1, 1) /\ ~Pending(0, 1) /\ 1 \in 1..Len(bus)
    BY <1>2, <1>8
  <2>2. shown = <<>> /\ rounds >= 1
    BY <2>1 DEF Levels
  <2>3. shown' = <<1>>
    BY <1>8, <2>2, LevelsShown
  <2>4. ~\E i \in 1..Len(bus') : Pending(1, i)'
    BY <1>5, <2>1
  <2>5. (\E i \in 1..Len(bus') : Pending(0, i)') <=> rounds = 2
    BY <1>4, <1>5, <2>1, <2>2, LevelsShown DEF Levels
  <2>6. rounds # 0
    BY <2>2
  <2> QED  BY <1>6, <2>2, <2>3, <2>4, <2>5, <2>6, LevelsShown DEF Levels
<1>9. CASE bus[1].fn = 6 /\ bus[1].arg = 0
  <2>1. Pending(0, 1) /\ ~Pending(1, 1) /\ 1 \in 1..Len(bus)
    BY <1>2, <1>9
  <2>2. rounds = 2 /\ shown # <<1, 0>>
    BY <2>1 DEF Levels
  <2>3. ~\E i \in 1..Len(bus) : Pending(1, i)
    BY <2>1 DEF Levels
  <2>4. shown = <<1>>
    <3>1. rounds >= 1  BY <2>2
    <3> QED  BY <2>2, <2>3, <3>1 DEF Levels
  <2>5. shown' = <<1, 0>>
    BY <1>9, <2>4, LevelsShown
  <2>6. ~\E i \in 1..Len(bus') : Pending(0, i)'
    BY <1>5, <2>1
  <2>7. ~\E i \in 1..Len(bus') : Pending(1, i)'
    BY <1>5, <2>3
  <2> QED  BY <1>6, <2>2, <2>5, <2>6, <2>7, LevelsShown DEF Levels
<1> QED  BY <1>7, <1>8, <1>9

LEMMA SeqLen == ASSUME NEW s, IsSeq(s) PROVE Len(s) \in Nat
<1>1. PICK S : s \in Seq(S)
  BY DEF IsSeq
<1> QED
  BY <1>1, LenProperties

\* A node that takes the frame of the tool takes its levels too.
LEMMA LongTaken ==
  ASSUME Query!InterfaceAssumption, node \in Interfaces, Framed
  PROVE  Query!Long \in node
BY DEF Query!InterfaceAssumption, Framed, Frame, Query!LongOnly

LEMMA CountersStep ==
  Counters /\ [Query!Next]_(Query!vars) => Counters' /\ (Calm' => Calm) /\ UNCHANGED <<node, tool>>
<1> SUFFICES ASSUME Counters, [Query!Next]_(Query!vars)
             PROVE  Counters' /\ (Calm' => Calm) /\ UNCHANGED <<node, tool>>
  OBVIOUS
<1>1. /\ UNCHANGED <<node, tool>>
      /\ lost' \in {lost, lost + 1} /\ late' \in {late, late + 1} /\ owner' \in {owner, owner + 1}
  BY DEF Query!Next, Query!Tool, Query!Send, Query!Receive, Query!Timeout,
     Query!Arm, Query!Start, Query!Level, Query!WheelTakes, Query!OwnerPicks,
     Query!ParkedTakes, Query!Stray, Query!vars, Query!limits
<1> QED  BY <1>1 DEF Counters, Calm

\* What the tool sends that is no level leaves the rest of the bus alone.
LEMMA BusGrows ==
  ASSUME Len(bus) \in Nat, Len(bus') \in Nat, Len(bus) <= Len(bus'),
         \A i \in 1..Len(bus) : bus'[i] = bus[i],
         \A i \in (Len(bus) + 1)..Len(bus') : Asked(bus'[i]) /\ bus'[i].fn # 6,
         UNCHANGED <<shown, rounds, effect, node>>,
         \A i \in 1..Len(bus) : Asked(bus[i]), Lit, Levels
  PROVE  /\ \A i \in 1..Len(bus') : Asked(bus[i])'
         /\ Lit' /\ Levels'
         /\ LitBefore(Len(bus)) => LitBefore(Len(bus))'
<1>1. \A i \in 1..Len(bus') : i \in 1..Len(bus) \/ i \in (Len(bus) + 1)..Len(bus')
  OBVIOUS
<1>2. \A i \in 1..Len(bus) : i \in 1..Len(bus')
  OBVIOUS
<1>3. \A r : Asked(r) => Asked(r)'
  BY DEF Asked, Framed, Frame, Query!LongOnly, Rev, Query!IndexOf
<1>4. \A i \in 1..Len(bus') : Asked(bus[i])'
  BY <1>1, <1>3
<1>5. Lit'
  <2> SUFFICES ASSUME NEW j \in 1..Len(bus'), bus'[j].fn = 6, effect = Query!Off
               PROVE  \E i \in 1..(j - 1) : bus'[i].fn = 3
    BY DEF Lit, LitBefore
  <2>1. j \in 1..Len(bus) /\ bus[j].fn = 6
    BY <1>1
  <2>2. PICK i \in 1..(j - 1) : bus[i].fn = 3
    BY <2>1 DEF Lit, LitBefore
  <2>3. i \in 1..Len(bus)
    BY <2>1
  <2> QED  BY <2>2, <2>3
<1>6. Levels'
  BY LevelsKept
<1>7. LitBefore(Len(bus)) => LitBefore(Len(bus))'
  <2> SUFFICES ASSUME NEW i \in 1..Len(bus), bus[i].fn = 3
               PROVE  i \in 1..Len(bus') /\ bus'[i].fn = 3
    BY DEF LitBefore
  <2> QED  BY <1>2
<1> QED  BY <1>4, <1>5, <1>6, <1>7

\* Reports read or added to the buffer that tell the truth.
LEMMA StaysTold ==
  ASSUME UNCHANGED node, effect # Query!Off => effect' # Query!Off
  PROVE  \A r : Told(r) => Told(r)'
BY DEF Told, Framed, Frame, Query!LongOnly, Rev, Query!IndexOf

\* The probe past its first question has the index of the display.
LEMMA ProbeKnows ==
  ASSUME ToolKnows, Calm
  PROVE  /\ Query!Wanted = Query!RpmDisplay
         /\ pc \notin {"resolve", "done"} => idx = Rev /\ Rev # 0
BY DEF ToolKnows, Calm, Query!Wanted, Rev

LEMMA RevSent ==
  ASSUME NEW f, NEW a, f # 6, f # 3 \/ (a = Query!Display /\ idx = Rev /\ Rev # 0)
  PROVE  /\ Asked(Query!RevSend(f, a))
         /\ Query!RevSend(f, a).fn = f /\ Query!RevSend(f, a).index = idx
BY DEF Asked, Query!RevSend, Query!Report, Frame

\* The bus and the buffer after a step that sends nothing and shows nothing.
LEMMA NothingSent ==
  ASSUME OnItsWay, Traffic, UNCHANGED <<bus, shown, rounds, effect, node>>
  PROVE  /\ \A i \in 1..Len(bus') : Asked(bus[i])'
         /\ Lit' /\ Levels'
         /\ LitBefore(Len(bus)) => LitBefore(Len(bus))'
<1>1. Len(bus) \in Nat
  BY SeqLen DEF Traffic
<1>2. \A i \in (Len(bus) + 1)..Len(bus') : FALSE
  BY <1>1
<1>3. Len(bus') \in Nat /\ Len(bus) <= Len(bus') /\ \A i \in 1..Len(bus) : bus'[i] = bus[i]
  BY <1>1
<1>4. (\A i \in 1..Len(bus) : Asked(bus[i])) /\ Lit /\ Levels
  BY DEF OnItsWay, Honoured
<1> QED  BY <1>1, <1>2, <1>3, <1>4, BusGrows

LEMMA InboxRead ==
  ASSUME OnItsWay, Traffic, UNCHANGED <<effect, node>>,
         UNCHANGED inbox \/ (inbox # <<>> /\ inbox' = Tail(inbox))
  PROVE  \A i \in 1..Len(inbox') : Told(inbox[i])'
<1>1. \A r : Told(r) => Told(r)'
  BY StaysTold
<1>2. \A i \in 1..Len(inbox) : Told(inbox[i])
  BY DEF OnItsWay, Honoured
<1>3. CASE UNCHANGED inbox
  BY <1>1, <1>2, <1>3
<1>4. CASE inbox # <<>> /\ inbox' = Tail(inbox)
  <2>1. \A i \in 1..Len(Tail(inbox)) : i + 1 \in 1..Len(inbox) /\ Tail(inbox)[i] = inbox[i + 1]
    BY <1>4, Taken DEF Traffic
  <2>2. \A i \in 1..Len(inbox') : Told(inbox'[i])
    BY <1>2, <1>4, <2>1
  <2> QED  BY <1>1, <2>2
<1> QED  BY <1>3, <1>4

\* Requests of one report: a question, or the start of the display.
LEMMA ProbeAsks ==
  ASSUME OnItsWay, Traffic, ToolKnows, Calm, NEW r, bus' = Append(bus, r),
         Asked(r), r.fn # 6, UNCHANGED <<shown, rounds, effect, node, inbox>>
  PROVE  /\ Honoured' /\ Lit' /\ Levels' /\ (r.fn = 3 => LitBefore(Len(bus))')
         /\ (r.index = Rev /\ r.fn = 2 => \E i \in 1..Len(bus') : bus'[i].index = Rev /\ bus'[i].fn = 2)
<1>3. /\ Len(bus) \in Nat /\ Len(bus') = Len(bus) + 1
      /\ \A i \in 1..Len(bus) : bus'[i] = bus[i]
      /\ bus'[Len(bus) + 1] = r
  BY GrownByOne DEF Traffic
<1>4. PICK n : n = Len(bus) + 1
  OBVIOUS
<1>5. n \in 1..n /\ Len(bus') = n /\ bus'[n] = r
  BY <1>3, <1>4
<1>6. \A i \in (Len(bus) + 1)..Len(bus') : Asked(bus'[i]) /\ bus'[i].fn # 6
  <2>1. \A i \in (Len(bus) + 1)..Len(bus') : i = n
    BY <1>3, <1>4
  <2> QED  BY <1>5, <2>1
<1>7. (\A i \in 1..Len(bus) : Asked(bus[i])) /\ Lit /\ Levels
  BY DEF OnItsWay, Honoured
<1>8. (\A i \in 1..Len(bus') : Asked(bus[i])') /\ Lit' /\ Levels'
  BY <1>3, <1>6, <1>7, BusGrows
<1>9. \A i \in 1..Len(inbox') : Told(inbox[i])'
  BY InboxRead
<1>10. r.fn = 3 => LitBefore(Len(bus))'
  BY <1>5 DEF LitBefore
<1> QED  BY <1>5, <1>8, <1>9, <1>10 DEF Honoured

\* The actions of the tool, one by one.
LEMMA ProbeSends ==
  ASSUME OnItsWay, Traffic, ToolKnows, Calm, UNCHANGED <<node, tool>>,
         Query!Send \/ Query!Start
  PROVE  OnItsWay'
<1> USE DEF OnItsWay
<1>a. Rev' = Rev  BY DEF Rev, Query!IndexOf
<1>1. CASE Query!Send
  <2>1. /\ pc \in {"resolve", "state"} /\ bus' = Append(bus, Query!Request)
        /\ UNCHANGED <<pc, parked, idx, shown, rounds, effect, node, inbox>>
    BY <1>1 DEF Query!Send, Stage, Query!wheel
  <2>2. /\ Asked(Query!Request) /\ Query!Request.fn \notin {3, 6}
        /\ pc = "state" => Query!Request.index = Rev /\ Query!Request.fn = 2
    <3>1. CASE pc = "resolve"
      BY <3>1 DEF Asked, Query!Request, Query!Report, Frame
    <3>2. CASE pc = "state"
      BY <3>2, RevSent, ProbeKnows DEF Query!Request
    <3> QED  BY <2>1, <3>1, <3>2
  <2> DEFINE r == Query!Request
  <2>3. bus' = Append(bus, r) /\ Asked(r) /\ r.fn # 6
    BY <2>1, <2>2
  <2>4. pc = "state" => r.index = Rev /\ r.fn = 2
    BY <2>2
  <2> HIDE DEF r
  <2>5. /\ Honoured' /\ Lit' /\ Levels'
        /\ pc = "state" => \E i \in 1..Len(bus') : bus'[i].index = Rev /\ bus'[i].fn = 2
    BY <2>1, <2>3, <2>4, ProbeAsks
  <2>6. Stage'  BY <1>a, <2>1 DEF Stage, Framed, Frame, Query!LongOnly
  <2>7. Awaited'  BY <1>a, <2>1, <2>5 DEF Awaited
  <2>8. LitNow'  BY <2>1 DEF LitNow
  <2> QED  BY <2>5, <2>6, <2>7, <2>8
<1>2. CASE Query!Start
  <2> DEFINE r == Query!RevSend(3, Query!Display)
  <2>1. /\ pc = "start" /\ pc' = "level" /\ bus' = Append(bus, r)
        /\ UNCHANGED <<parked, idx, shown, rounds, effect, node, inbox>>
    BY <1>2 DEF Query!Start, Query!wheel
  <2>2. Asked(r) /\ r.fn = 3
    BY <2>1, RevSent, ProbeKnows
  <2> HIDE DEF r
  <2>3. Honoured' /\ Lit' /\ Levels' /\ LitBefore(Len(bus))'
    BY <2>1, <2>2, ProbeAsks
  <2>4. Stage'  BY <1>a, <2>1, ProbeKnows DEF Stage, Framed, Frame, Query!LongOnly
  <2>5. Awaited' /\ LitNow'  BY <2>1, <2>3 DEF Awaited, LitNow
  <2> QED  BY <2>3, <2>4, <2>5
<1> QED  BY <1>1, <1>2

LEMMA ProbeArms ==
  ASSUME OnItsWay, Traffic, ToolKnows, Calm, UNCHANGED <<node, tool>>, Query!Arm
  PROVE  OnItsWay'
<1> USE DEF OnItsWay
<1>a. Rev' = Rev  BY DEF Rev, Query!IndexOf
<1> DEFINE burst == <<Query!RevSend(0, 0), Query!RevSend(1, 0),
                      Query!RevSend(2, 0), Query!RevSend(0, 0)>>
<1>1. /\ pc = "arm" /\ pc' = "state" /\ ~waiting' /\ bus' = bus \o burst
      /\ UNCHANGED <<parked, idx, shown, rounds, effect, node, inbox>>
  BY DEF Query!Arm, Query!wheel, ToolKnows
<1>2. IsSeq(burst) /\ Len(burst) = 4
  <2>1. burst \in Seq({Query!RevSend(0, 0), Query!RevSend(1, 0), Query!RevSend(2, 0)})
    OBVIOUS
  <2> QED  BY <2>1 DEF IsSeq
<1>3. \A k \in 1..4 : Asked(burst[k]) /\ burst[k].fn # 6
  <2>1. \A f \in 0..2 : Asked(Query!RevSend(f, 0)) /\ Query!RevSend(f, 0).fn # 6
    BY RevSent
  <2> QED  BY <2>1
<1> HIDE DEF burst
<1>4. /\ Len(bus') = Len(bus) + 4 /\ Len(bus) \in Nat
      /\ \A i \in 1..Len(bus) : bus'[i] = bus[i]
      /\ \A k \in 1..4 : bus'[Len(bus) + k] = burst[k]
  <2>1. IsSeq(bus) /\ IsSeq(burst)
    BY <1>2 DEF Traffic
  <2>2. /\ Len(bus \o burst) = Len(bus) + Len(burst) /\ Len(bus) \in Nat
        /\ \A i \in 1..Len(bus) : (bus \o burst)[i] = bus[i]
        /\ \A k \in 1..Len(burst) : (bus \o burst)[Len(bus) + k] = burst[k]
    BY <2>1, Grown
  <2> QED  BY <1>1, <1>2, <2>2
<1>5. ASSUME NEW i \in (Len(bus) + 1)..Len(bus') PROVE Asked(bus'[i]) /\ bus'[i].fn # 6
  <2>1. i - Len(bus) \in 1..4 /\ Len(bus) + (i - Len(bus)) = i
    BY <1>4
  <2> QED  BY <1>3, <1>4, <2>1
<1>6. (\A i \in 1..Len(bus) : Asked(bus[i])) /\ Lit /\ Levels
  BY DEF Honoured
<1>7. Len(bus') \in Nat /\ Len(bus) <= Len(bus')
  BY <1>4
<1>8. (\A i \in 1..Len(bus') : Asked(bus[i])') /\ Lit' /\ Levels'
  BY <1>1, <1>4, <1>5, <1>6, <1>7, BusGrows
<1>9. \A i \in 1..Len(inbox') : Told(inbox[i])'
  BY <1>1, InboxRead
<1>10. Stage'
  BY <1>a, <1>1, ProbeKnows DEF Stage, Framed, Frame, Query!LongOnly
<1>11. Awaited' /\ LitNow'
  BY <1>1 DEF Awaited, LitNow
<1> QED  BY <1>8, <1>9, <1>10, <1>11 DEF Honoured

LEMMA ProbeLevels ==
  ASSUME OnItsWay, Traffic, ToolKnows, Calm, UNCHANGED <<node, tool>>, Query!Level
  PROVE  OnItsWay'
<1> USE DEF OnItsWay
<1>a. Rev' = Rev  BY DEF Rev, Query!IndexOf
<1> DEFINE burst == <<Query!RevSend(2, 0), Query!LevelReport(1 - rounds)>>
<1>1. /\ pc = "level" /\ pc' = (IF rounds = 1 THEN "done" ELSE "arm")
      /\ ~waiting' /\ bus' = bus \o burst /\ rounds' = rounds + 1
      /\ UNCHANGED <<parked, idx, shown, effect, node, inbox>>
  BY DEF Query!Level, Query!wheel, ToolKnows
<1>2. idx = Rev /\ Rev # 0 /\ rounds \in {0, 1} /\ Framed
  BY <1>1, ProbeKnows DEF Stage
<1>3. IsSeq(burst) /\ Len(burst) = 2
  <2>1. burst \in Seq({Query!RevSend(2, 0), Query!LevelReport(1 - rounds)})
    OBVIOUS
  <2> QED  BY <2>1 DEF IsSeq
<1>4. Asked(burst[1]) /\ burst[1].fn = 2
  BY RevSent
<1>5. Asked(burst[2]) /\ burst[2].fn = 6 /\ burst[2].arg = 1 - rounds
  <2>1. burst[2] = [id |-> Query!Long, index |-> idx, fn |-> 6, arg |-> 1 - rounds]
    BY DEF Query!LevelReport
  <2>2. 1 - rounds \in {0, 1}
    BY <1>2
  <2> HIDE DEF burst
  <2> QED  BY <1>2, <2>1, <2>2 DEF Asked
<1> HIDE DEF burst
<1>6. /\ Len(bus') = Len(bus) + 2 /\ Len(bus) \in Nat
      /\ \A i \in 1..Len(bus) : bus'[i] = bus[i]
      /\ bus'[Len(bus) + 1] = burst[1] /\ bus'[Len(bus) + 2] = burst[2]
  <2>1. /\ Len(bus') = Len(bus) + 2 /\ Len(bus) \in Nat
        /\ \A i \in 1..Len(bus) : bus'[i] = bus[i]
        /\ \A k \in 1..2 : bus'[Len(bus) + k] = burst[k]
    <3>1. IsSeq(bus) /\ IsSeq(burst)
      BY <1>3 DEF Traffic
    <3>2. /\ Len(bus \o burst) = Len(bus) + Len(burst) /\ Len(bus) \in Nat
          /\ \A i \in 1..Len(bus) : (bus \o burst)[i] = bus[i]
          /\ \A k \in 1..Len(burst) : (bus \o burst)[Len(bus) + k] = burst[k]
      BY <3>1, Grown
    <3> QED  BY <1>1, <1>3, <3>2
  <2> QED  BY <2>1
<1>7. Levels'
  BY <1>1, <1>2, <1>4, <1>5, <1>6, LevelsSent
<1>8. \A i \in 1..Len(bus') : i \in 1..Len(bus) \/ i = Len(bus) + 1 \/ i = Len(bus) + 2
  BY <1>6
<1>9. \A r : Asked(r) => Asked(r)'
  BY <1>a DEF Asked, Framed, Frame, Query!LongOnly
<1>10. \A i \in 1..Len(bus') : Asked(bus[i])'
  <2>1. \A i \in 1..Len(bus') : Asked(bus'[i])
    BY <1>4, <1>5, <1>6, <1>8 DEF Honoured
  <2> QED  BY <1>9, <2>1
<1>11. Lit'
  <2> SUFFICES ASSUME NEW j \in 1..Len(bus'), bus'[j].fn = 6, effect = Query!Off
               PROVE  \E i \in 1..(j - 1) : bus'[i].fn = 3
    BY <1>1 DEF Lit, LitBefore
  <2>1. CASE j \in 1..Len(bus)
    <3>1. PICK i \in 1..(j - 1) : bus[i].fn = 3
      BY <1>6, <2>1 DEF Lit, LitBefore
    <3>2. i \in 1..Len(bus)
      BY <2>1
    <3> QED  BY <1>6, <3>1, <3>2
  <2>2. CASE j = Len(bus) + 2
    <3>1. PICK i \in 1..Len(bus) : bus[i].fn = 3
      BY <1>1 DEF LitNow, LitBefore
    <3>2. i \in 1..(j - 1)
      BY <1>6, <2>2
    <3> QED  BY <1>6, <3>1, <3>2
  <2>3. CASE j = Len(bus) + 1
    BY <1>4, <1>6, <2>3
  <2> QED  BY <1>8, <2>1, <2>2, <2>3
<1>12. \A i \in 1..Len(inbox') : Told(inbox[i])'
  BY <1>1, InboxRead
<1>13. Stage'
  <2>1. CASE rounds = 0
    BY <1>a, <1>1, <1>2, <2>1 DEF Stage, Framed, Frame, Query!LongOnly
  <2>2. CASE rounds = 1
    BY <1>a, <1>1, <1>2, <2>2 DEF Stage, Framed, Frame, Query!LongOnly
  <2> QED  BY <1>2, <2>1, <2>2
<1>14. Awaited' /\ LitNow'
  BY <1>1 DEF Awaited, LitNow
<1> QED  BY <1>7, <1>10, <1>11, <1>12, <1>13, <1>14 DEF Honoured

\* The first question went unanswered, and the probe ends before its first round.
LEMMA ProbeEnds ==
  ASSUME OnItsWay, Traffic, Calm, pc = "resolve", pc' = "done", idx' = 0,
         UNCHANGED <<bus, shown, rounds, effect, node>>,
         UNCHANGED inbox \/ (inbox # <<>> /\ inbox' = Tail(inbox))
  PROVE  OnItsWay'
<1>1. /\ \A i \in 1..Len(bus') : Asked(bus[i])'
      /\ Lit' /\ Levels'
  BY NothingSent
<1>2. \A i \in 1..Len(inbox') : Told(inbox[i])'
  BY InboxRead
<1>3. Stage' /\ Awaited' /\ LitNow'
  BY DEF OnItsWay, Stage, Awaited, LitNow
<1> QED  BY <1>1, <1>2, <1>3 DEF OnItsWay, Honoured

LEMMA ProbeReads ==
  ASSUME OnItsWay, Traffic, ToolKnows, Calm, UNCHANGED <<node, tool>>, Query!Receive
  PROVE  OnItsWay'
<1>a. Rev' = Rev  BY DEF Rev, Query!IndexOf
<1> DEFINE r == Head(inbox)
<1>1. /\ waiting /\ inbox # <<>> /\ inbox' = Tail(inbox)
      /\ UNCHANGED <<bus, shown, rounds, effect, node, parked>>
      /\ \/ Query!Echoes(r) /\ waiting' = FALSE /\ Query!Concludes(r.val)
         \/ ~Query!Echoes(r) /\ pc = "state" /\ UNCHANGED <<waiting, pc, idx>>
         \/ ~Query!Echoes(r) /\ pc # "state" /\ waiting' = FALSE /\ Query!Concludes(Query!None)
  BY DEF Query!Receive, Query!wheel
<1>2. pc \in {"resolve", "state"}
  BY <1>1 DEF ToolKnows, OnItsWay, Stage
<1>3. r = inbox[1] /\ Told(r) /\ AnswerHonest(r)
  BY <1>1, Taken DEF Traffic, OnItsWay, Honoured
<1> HIDE DEF r
<1>4. /\ \A i \in 1..Len(bus') : Asked(bus[i])'
      /\ Lit' /\ Levels'
  BY <1>1, NothingSent
<1>5. \A i \in 1..Len(inbox') : Told(inbox[i])'
  BY <1>1, InboxRead
<1>6. ASSUME pc = "resolve", Query!Concludes(Query!None) PROVE OnItsWay'
  <2>1. pc' = "done" /\ idx' = 0
    BY <1>6 DEF Query!Concludes
  <2> QED  BY <1>1, <1>6, <2>1, ProbeEnds
<1>7. ASSUME pc = "resolve", Query!Echoes(r), Query!Concludes(r.val) PROVE OnItsWay'
  <2>1. r.index = 0
    BY <1>7 DEF Query!Echoes, Query!Request, Query!Report
  <2>2. r.val = Rev /\ Framed
    BY <1>3, <2>1, ProbeKnows DEF AnswerHonest, Told, Rev
  <2>3. CASE r.val \in {Query!None, 0}
    <3>1. pc' = "done" /\ idx' = 0
      BY <1>7, <2>3 DEF Query!Concludes
    <3> QED  BY <1>1, <1>7, <3>1, ProbeEnds
  <2>4. CASE r.val \notin {Query!None, 0}
    <3>1. pc' = "arm" /\ idx' = Rev /\ Rev # 0
      BY <1>7, <2>2, <2>4 DEF Query!Concludes, Calm
    <3>2. rounds = 0 /\ parked = 0
      BY <1>7 DEF OnItsWay, Stage
    <3>3. Stage'
      BY <1>a, <1>1, <2>2, <3>1, <3>2 DEF Stage, Framed, Frame, Query!LongOnly
    <3>4. Awaited' /\ LitNow'
      BY <3>1 DEF Awaited, LitNow
    <3> QED  BY <1>4, <1>5, <3>3, <3>4 DEF OnItsWay, Honoured
  <2> QED  BY <2>3, <2>4
<1>8. ASSUME pc = "state", Query!Echoes(r), Query!Concludes(r.val), waiting' = FALSE
      PROVE  OnItsWay'
  <2>1. idx = Rev /\ Rev # 0
    BY <1>8, ProbeKnows
  <2>2. r.index = Rev /\ r.fn = 2
    BY <1>8, <2>1 DEF Query!Echoes, Query!Request, Query!RevSend, Query!Report
  <2>3. UNCHANGED idx /\ pc' = IF r.val # Query!None /\ r.val = Query!Off THEN "start" ELSE "level"
    BY <1>8 DEF Query!Concludes, Query!Starts, Query!OffOnly
  <2>4. pc' = "level" => r.val # Query!Off
    BY <2>3 DEF Query!None, Query!Off
  <2>5. pc' = "level" => effect # Query!Off
    BY <1>3, <2>1, <2>2, <2>4 DEF Told
  <2>6. LitNow'
    BY <1>1, <2>5 DEF LitNow, LitBefore
  <2>7. Stage'
    BY <1>a, <1>1, <1>8, <2>1, <2>3 DEF OnItsWay, Stage, Framed, Frame, Query!LongOnly
  <2>8. Awaited'
    BY <2>3 DEF Awaited
  <2> QED  BY <1>4, <1>5, <2>6, <2>7, <2>8 DEF OnItsWay, Honoured
<1>9. ASSUME pc = "state", ~Query!Echoes(r), UNCHANGED <<waiting, pc, idx>> PROVE OnItsWay'
  <2>1. idx = Rev
    BY <1>9, ProbeKnows
  <2>2. ~(r.index = Rev /\ r.fn = 2)
    BY <1>9, <2>1 DEF Query!Echoes, Query!Request, Query!RevSend, Query!Report
  <2>3. CASE \E i \in 1..Len(bus) : bus[i].index = Rev /\ bus[i].fn = 2
    <3>1. Awaited'  BY <1>a, <1>1, <2>3 DEF Awaited
    <3>2. Stage' /\ LitNow'
      BY <1>a, <1>1, <1>9 DEF OnItsWay, Stage, LitNow, Framed, Frame, Query!LongOnly
    <3> QED  BY <1>4, <1>5, <3>1, <3>2 DEF OnItsWay, Honoured
  <2>4. CASE \E i \in 1..Len(inbox) : inbox[i].index = Rev /\ inbox[i].fn = 2
    <3>1. PICK i \in 1..Len(inbox) : inbox[i].index = Rev /\ inbox[i].fn = 2
      BY <2>4
    <3>2. i # 1
      BY <1>3, <2>2, <3>1
    <3>3. /\ Len(inbox) \in Nat /\ Len(inbox') = Len(inbox) - 1
          /\ \A k \in 1..Len(inbox') : inbox'[k] = inbox[k + 1]
      BY <1>1, Taken, Shortened DEF Traffic
    <3>4. i - 1 \in 1..Len(inbox') /\ (i - 1) + 1 = i
      BY <3>2, <3>3
    <3>5. inbox'[i - 1] = inbox[i]
      BY <3>3, <3>4
    <3>6. Awaited'
      BY <1>a, <3>1, <3>4, <3>5 DEF Awaited
    <3>7. Stage' /\ LitNow'
      BY <1>a, <1>1, <1>9 DEF OnItsWay, Stage, LitNow, Framed, Frame, Query!LongOnly
    <3> QED  BY <1>4, <1>5, <3>6, <3>7 DEF OnItsWay, Honoured
  <2> QED  BY <1>1, <1>9, <2>3, <2>4 DEF OnItsWay, Awaited
<1> QED  BY <1>1, <1>2, <1>6, <1>7, <1>8, <1>9

\* A question to a node that takes it is answered before a timeout is due.
LEMMA ProbeGivesUp ==
  ASSUME OnItsWay, Traffic, ToolKnows, Counters, Calm, Calm', UNCHANGED <<node, tool>>,
         Query!Timeout
  PROVE  OnItsWay'
<1>1. /\ waiting /\ inbox = <<>> /\ Query!Concludes(Query!None)
      /\ late' = IF bus = <<>> THEN late ELSE late + 1
      /\ UNCHANGED <<bus, inbox, shown, rounds, effect, node>>
  BY DEF Query!Timeout, Query!wheel
<1>2. bus = <<>>
  BY <1>1 DEF Calm
<1>3. Len(bus) = 0 /\ Len(inbox) = 0
  BY <1>1, <1>2
<1>4. pc # "state"
  <2>1. \A i \in 1..0 : FALSE
    OBVIOUS
  <2> QED  BY <1>1, <1>3, <2>1 DEF OnItsWay, Awaited
<1>5. pc = "resolve"
  BY <1>1, <1>4 DEF ToolKnows, OnItsWay, Stage
<1>6. pc' = "done" /\ idx' = 0
  BY <1>1, <1>5 DEF Query!Concludes
<1> QED  BY <1>1, <1>5, <1>6, ProbeEnds

\* A report the node does not take is the first question of a probe that gets
\* no answer.
LEMMA ProbeDropped ==
  ASSUME OnItsWay, Traffic, ToolKnows, Calm, UNCHANGED <<node, tool>>, ~Framed,
         bus # <<>>, bus' = Tail(bus),
         UNCHANGED <<pc, waiting, idx, rounds, parked, effect, shown, inbox>>
  PROVE  OnItsWay'
<1>a. Rev' = Rev  BY DEF Rev, Query!IndexOf
<1>1. /\ Len(bus) \in Nat \ {0} /\ Len(bus') = Len(bus) - 1
      /\ \A i \in 1..Len(bus') : i + 1 \in 1..Len(bus) /\ bus'[i] = bus[i + 1]
  BY Taken, Shortened DEF Traffic
<1>2. idx = 0 /\ rounds = 0 /\ pc \in {"resolve", "done"}
  BY ProbeKnows DEF OnItsWay, Stage
<1>3. \A i \in 1..Len(bus) : bus[i].fn # 6
  <2> SUFFICES ASSUME NEW i \in 1..Len(bus), bus[i].fn = 6 PROVE FALSE
    OBVIOUS
  <2>1. bus[i].arg \in {0, 1}
    BY DEF OnItsWay, Honoured, Asked
  <2>2. Pending(0, i) \/ Pending(1, i)
    BY <2>1 DEF Pending
  <2>3. ~(rounds >= 1) /\ rounds # 2
    BY <1>2
  <2> QED  BY <2>2, <2>3 DEF OnItsWay, Levels
<1>4. Levels'
  <2>1. bus[1].fn # 6
    BY <1>1, <1>3
  <2>2. Levels /\ rounds \in 0..2
    BY <1>2 DEF OnItsWay
  <2> QED  BY <1>1, <2>1, <2>2, LevelsTaken
<1>5. Lit'
  BY <1>1, <1>3 DEF Lit
<1>6. \A i \in 1..Len(bus') : Asked(bus[i])'
  <2>1. \A r : Asked(r) => Asked(r)'
    BY <1>a DEF Asked, Framed, Frame, Query!LongOnly
  <2>2. \A i \in 1..Len(bus') : Asked(bus'[i])
    BY <1>1 DEF OnItsWay, Honoured
  <2> QED  BY <2>1, <2>2
<1>7. \A i \in 1..Len(inbox') : Told(inbox[i])'
  BY InboxRead
<1>8. Stage' /\ Awaited' /\ LitNow'
  BY <1>2 DEF OnItsWay, Stage, Awaited, LitNow
<1> QED  BY <1>4, <1>5, <1>6, <1>7, <1>8 DEF OnItsWay, Honoured

\* The wheel takes a report and answers it.
LEMMA ProbeServed ==
  ASSUME OnItsWay, Traffic, ToolKnows, Calm, UNCHANGED <<node, tool>>, Framed,
         NEW r, r = Head(bus), bus # <<>>, bus' = Tail(bus),
         effect' = IF Query!IsRev(r, 3) THEN r.arg ELSE effect,
         shown' = IF Query!IsRev(r, 6) /\ effect # Query!Off THEN Append(shown, r.arg) ELSE shown,
         inbox' = Append(inbox, [index |-> r.index, fn |-> r.fn, val |-> Query!WheelAnswer(r)]),
         UNCHANGED <<pc, waiting, idx, rounds, parked>>
  PROVE  OnItsWay'
<1>a. Rev' = Rev  BY DEF Rev, Query!IndexOf
<1>1. /\ Len(bus) \in Nat \ {0} /\ Len(bus') = Len(bus) - 1 /\ r = bus[1]
      /\ \A i \in 1..Len(bus') : i + 1 \in 1..Len(bus) /\ bus'[i] = bus[i + 1]
  BY Taken, Shortened DEF Traffic
<1>2. Asked(r)
  BY <1>1 DEF OnItsWay, Honoured
<1>3. /\ r.fn = 3 => effect' # Query!Off
      /\ r.fn # 3 => effect' = effect
      /\ effect # Query!Off => effect' # Query!Off
  BY <1>2 DEF Asked, Query!IsRev, Query!Display, Query!Off, Rev
<1>4. shown' = IF r.fn = 6 THEN Append(shown, r.arg) ELSE shown
  <2>1. CASE r.fn = 6
    <3>1. Query!IsRev(r, 6)
      BY <1>2, <2>1 DEF Asked, Query!IsRev, Rev
    <3>2. 1 \in 1..Len(bus) /\ \A i \in 1..(1 - 1) : FALSE
      BY <1>1
    <3>3. effect # Query!Off
      BY <1>1, <2>1, <3>2 DEF OnItsWay, Lit, LitBefore
    <3> QED  BY <2>1, <3>1, <3>3
  <2>2. CASE r.fn # 6
    BY <2>2 DEF Query!IsRev
  <2> QED  BY <2>1, <2>2
<1>5. Levels'
  <2>1. r.fn = 6 => r.arg \in {0, 1}
    BY <1>2 DEF Asked
  <2>2. Levels /\ rounds \in 0..2
    BY DEF OnItsWay, Stage
  <2> QED  BY <1>1, <1>4, <2>1, <2>2, LevelsTaken
<1>6. \A i \in 1..Len(bus') : Asked(bus[i])'
  <2>1. \A q : Asked(q) => Asked(q)'
    BY <1>a DEF Asked, Framed, Frame, Query!LongOnly
  <2>2. \A i \in 1..Len(bus') : Asked(bus'[i])
    BY <1>1 DEF OnItsWay, Honoured
  <2> QED  BY <2>1, <2>2
<1>7. ASSUME NEW n \in 0..(Len(bus) - 1), LitBefore(n + 1),
             \A i \in 1..n : bus'[i] = bus[i + 1]
      PROVE  effect' # Query!Off \/ \E i \in 1..n : bus'[i].fn = 3
  <2>1. CASE effect # Query!Off
    BY <1>3, <2>1
  <2>2. CASE \E i \in 1..(n + 1) : bus[i].fn = 3
    <3>1. PICK i \in 1..(n + 1) : bus[i].fn = 3
      BY <2>2
    <3>2. CASE i = 1
      BY <1>1, <1>3, <3>1, <3>2
    <3>3. CASE i # 1
      <4>1. i - 1 \in 1..n /\ (i - 1) + 1 = i
        BY <1>7, <3>3
      <4>2. bus'[i - 1] = bus[i]
        BY <1>7, <4>1
      <4> QED  BY <3>1, <4>1, <4>2
    <3> QED  BY <3>2, <3>3
  <2> QED  BY <1>7, <2>1, <2>2 DEF LitBefore
<1>8. Lit'
  <2> SUFFICES ASSUME NEW j \in 1..Len(bus'), bus'[j].fn = 6
               PROVE  effect' # Query!Off \/ \E i \in 1..(j - 1) : bus'[i].fn = 3
    BY DEF Lit, LitBefore
  <2>1. j + 1 \in 1..Len(bus) /\ bus[j + 1].fn = 6
    BY <1>1
  <2>2. LitBefore((j + 1) - 1)
    BY <2>1 DEF OnItsWay, Lit
  <2>3. PICK n : n = j - 1
    OBVIOUS
  <2>4. n \in 0..(Len(bus) - 1) /\ (j + 1) - 1 = n + 1
    BY <1>1, <2>3
  <2>5. \A i \in 1..n : i \in 1..Len(bus')
    BY <1>1, <2>3
  <2> QED  BY <1>1, <1>7, <2>2, <2>3, <2>4, <2>5
<1>9. LitNow'
  <2> SUFFICES ASSUME pc = "level"
               PROVE  effect' # Query!Off \/ \E i \in 1..Len(bus') : bus'[i].fn = 3
    BY DEF LitNow, LitBefore
  <2>1. LitBefore(Len(bus))
    BY DEF OnItsWay, LitNow
  <2>2. PICK n : n = Len(bus')
    OBVIOUS
  <2>3. n \in 0..(Len(bus) - 1) /\ Len(bus) = n + 1
    BY <1>1, <2>2
  <2> QED  BY <1>1, <1>7, <2>1, <2>2, <2>3
<1>10. PICK a : a = [index |-> r.index, fn |-> r.fn, val |-> Query!WheelAnswer(r)]
  OBVIOUS
<1>11. Told(a)'
  <2>1. a.index = Rev /\ Rev # 0 /\ a.fn = 2 => a.val = effect
    BY <1>10 DEF Query!WheelAnswer, Rev
  <2>2. a.index = Rev /\ Rev # 0 /\ a.fn = 2 /\ a.val # Query!Off => effect' # Query!Off
    BY <1>3, <2>1
  <2>3. Framed'
    BY DEF Framed, Frame, Query!LongOnly
  <2> QED  BY <1>a, <2>2, <2>3 DEF Told
<1>12. /\ Len(inbox) \in Nat /\ Len(inbox') = Len(inbox) + 1
       /\ \A i \in 1..Len(inbox) : inbox'[i] = inbox[i]
       /\ inbox'[Len(inbox) + 1] = a
  BY <1>10, GrownByOne DEF Traffic
<1>13. \A i \in 1..Len(inbox') : i \in 1..Len(inbox) \/ i = Len(inbox) + 1
  BY <1>12
<1>14. \A i \in 1..Len(inbox') : Told(inbox[i])'
  <2>1. \A q : Told(q) => Told(q)'
    BY <1>3, StaysTold
  <2> SUFFICES ASSUME NEW i \in 1..Len(inbox') PROVE Told(inbox[i])'
    OBVIOUS
  <2>2. CASE i \in 1..Len(inbox)
    <3>1. Told(inbox[i]) /\ inbox'[i] = inbox[i]
      BY <1>12, <2>2 DEF OnItsWay, Honoured
    <3> QED  BY <2>1, <3>1
  <2>3. CASE i = Len(inbox) + 1
    BY <1>11, <1>12, <2>3
  <2> QED  BY <1>13, <2>2, <2>3
<1>15. Awaited'
  <2> SUFFICES ASSUME pc = "state", waiting
               PROVE  \/ \E i \in 1..Len(bus') : bus'[i].index = Rev /\ bus'[i].fn = 2
                      \/ \E i \in 1..Len(inbox') : inbox'[i].index = Rev /\ inbox'[i].fn = 2
    BY <1>a DEF Awaited
  <2>1. CASE \E i \in 1..Len(bus) : bus[i].index = Rev /\ bus[i].fn = 2
    <3>1. PICK i \in 1..Len(bus) : bus[i].index = Rev /\ bus[i].fn = 2
      BY <2>1
    <3>2. CASE i = 1
      <4>1. a.index = Rev /\ a.fn = 2
        BY <1>1, <1>10, <3>1, <3>2
      <4>2. Len(inbox) + 1 \in 1..Len(inbox')
        BY <1>12
      <4> QED  BY <1>12, <4>1, <4>2
    <3>3. CASE i # 1
      <4>1. i - 1 \in 1..Len(bus') /\ (i - 1) + 1 = i
        BY <1>1, <3>3
      <4>2. bus'[i - 1] = bus[i]
        BY <1>1, <4>1
      <4> QED  BY <3>1, <4>1, <4>2
    <3> QED  BY <3>2, <3>3
  <2>2. CASE \E i \in 1..Len(inbox) : inbox[i].index = Rev /\ inbox[i].fn = 2
    <3>1. \A i \in 1..Len(inbox) : i \in 1..Len(inbox')
      BY <1>12
    <3> QED  BY <1>12, <2>2, <3>1
  <2> QED  BY <2>1, <2>2 DEF OnItsWay, Awaited
<1>16. Stage'
  BY <1>a DEF OnItsWay, Stage, Framed, Frame, Query!LongOnly
<1> QED  BY <1>5, <1>6, <1>8, <1>9, <1>14, <1>15, <1>16 DEF OnItsWay, Honoured

LEMMA ProbeTaken ==
  ASSUME Query!InterfaceAssumption, OnItsWay, Traffic, ToolKnows, Counters, Calm, Calm',
         UNCHANGED <<node, tool>>, Query!WheelTakes
  PROVE  OnItsWay'
<1>1. PICK r : r = Head(bus)
  OBVIOUS
<1>2. /\ bus # <<>> /\ bus' = Tail(bus) /\ UNCHANGED <<pc, waiting, idx, rounds, parked>>
      /\ \/ /\ r.id \in node
            /\ effect' = IF Query!IsRev(r, 3) THEN r.arg ELSE effect
            /\ shown' = IF Query!IsRev(r, 6) /\ effect # Query!Off
                        THEN Append(shown, r.arg) ELSE shown
            /\ \/ inbox' = Append(inbox, [index |-> r.index, fn |-> r.fn,
                                          val |-> Query!WheelAnswer(r)])
               \/ lost' = lost + 1
         \/ r.id \notin node /\ UNCHANGED <<effect, shown, inbox>>
  BY <1>1 DEF Query!WheelTakes
<1>3. lost' # lost + 1
  BY DEF Calm
<1>4. Asked(r)
  BY <1>1, <1>2, Taken DEF Traffic, OnItsWay, Honoured
<1>5. CASE Framed
  <2>1. r.id \in node
    BY <1>4, <1>5, LongTaken DEF Counters, Asked, Framed
  <2> QED  BY <1>1, <1>2, <1>3, <1>5, <2>1, ProbeServed
<1>6. CASE ~Framed
  <2>1. r.id \notin node
    BY <1>4, <1>6 DEF Asked, Framed
  <2> QED  BY <1>2, <1>6, <2>1, ProbeDropped
<1> QED  BY <1>5, <1>6

LEMMA ProbeStep ==
  Query!InterfaceAssumption /\ ToolKnows /\ Traffic /\ ProbeInv /\ [Query!Next]_(Query!vars)
    => ProbeInv'
<1> SUFFICES ASSUME Query!InterfaceAssumption, ToolKnows, Traffic, ProbeInv,
                    [Query!Next]_(Query!vars)
             PROVE  ProbeInv'
  OBVIOUS
<1>1. Counters' /\ (Calm' => Calm) /\ UNCHANGED <<node, tool>>
  BY CountersStep DEF ProbeInv
<1> SUFFICES ASSUME Calm' PROVE OnItsWay'
  BY <1>1 DEF ProbeInv
<1>2. Calm /\ OnItsWay /\ Counters
  BY <1>1 DEF ProbeInv
<1>3. CASE Query!Send \/ Query!Start
  BY <1>1, <1>2, <1>3, ProbeSends
<1>4. CASE Query!Arm
  BY <1>1, <1>2, <1>4, ProbeArms
<1>5. CASE Query!Level
  BY <1>1, <1>2, <1>5, ProbeLevels
<1>6. CASE Query!Receive
  BY <1>1, <1>2, <1>6, ProbeReads
<1>7. CASE Query!Timeout
  BY <1>1, <1>2, <1>7, ProbeGivesUp
<1>8. CASE Query!WheelTakes
  BY <1>1, <1>2, <1>8, ProbeTaken
<1>a. Rev' = Rev  BY DEF Rev, Query!IndexOf
<1>9. CASE Query!ParkedTakes
  <2>1. /\ parked > 0 /\ inbox # <<>> /\ inbox' = Tail(inbox) /\ parked' = parked - 1
        /\ UNCHANGED <<pc, waiting, idx, rounds, bus, shown, effect, node>>
    BY <1>9 DEF Query!ParkedTakes, Query!wheel
  <2>2. pc = "done"
    BY <1>2, <2>1 DEF OnItsWay, Stage
  <2>3. (\A i \in 1..Len(bus') : Asked(bus[i])') /\ Lit' /\ Levels'
    BY <1>2, <2>1, NothingSent
  <2>4. \A i \in 1..Len(inbox') : Told(inbox[i])'
    BY <1>2, <2>1, InboxRead
  <2>5. Stage' /\ Awaited' /\ LitNow'
    BY <1>a, <1>2, <2>1, <2>2
    DEF OnItsWay, Stage, Awaited, LitNow, Framed, Frame, Query!LongOnly
  <2> QED  BY <2>3, <2>4, <2>5 DEF OnItsWay, Honoured
<1>10. CASE Query!Stray
  <2>1. PICK a : a = [index |-> Query!None, fn |-> Query!None, val |-> Query!None]
    OBVIOUS
  <2>2. /\ inbox' = Append(inbox, a)
        /\ UNCHANGED <<pc, waiting, idx, rounds, parked, bus, shown, effect, node>>
    BY <1>10, <2>1 DEF Query!Stray, Query!wheel
  <2>3. Told(a)
    BY <2>1 DEF Told, Query!None
  <2>4. /\ Len(inbox) \in Nat /\ Len(inbox') = Len(inbox) + 1
        /\ \A i \in 1..Len(inbox) : inbox'[i] = inbox[i]
        /\ inbox'[Len(inbox) + 1] = a
    BY <2>2, GrownByOne DEF Traffic
  <2>5. /\ \A i \in 1..Len(inbox') : i \in 1..Len(inbox) \/ i = Len(inbox) + 1
        /\ \A i \in 1..Len(inbox) : i \in 1..Len(inbox')
    BY <2>4
  <2>6. \A i \in 1..Len(inbox') : Told(inbox'[i])
    BY <1>2, <2>3, <2>4, <2>5 DEF OnItsWay, Honoured
  <2>7. \A i \in 1..Len(inbox') : Told(inbox[i])'
    BY <2>2, <2>6, StaysTold
  <2>8. (\A i \in 1..Len(bus') : Asked(bus[i])') /\ Lit' /\ Levels'
        /\ (LitBefore(Len(bus)) => LitBefore(Len(bus))')
    BY <1>2, <2>2, NothingSent
  <2>9. Stage'
    BY <1>a, <1>2, <2>2 DEF OnItsWay, Stage, Framed, Frame, Query!LongOnly
  <2>10. Awaited'
    BY <1>a, <1>2, <2>2, <2>4, <2>5 DEF OnItsWay, Awaited
  <2>11. LitNow'
    BY <1>2, <2>2, <2>8 DEF OnItsWay, LitNow
  <2> QED  BY <2>7, <2>8, <2>9, <2>10, <2>11 DEF OnItsWay, Honoured
<1>11. CASE Query!OwnerPicks
  <2>1. owner' = owner + 1
    BY <1>11 DEF Query!OwnerPicks
  <2> QED  BY <1>2, <2>1 DEF Calm
<1>12. CASE UNCHANGED Query!vars
  <2>1. UNCHANGED <<pc, waiting, idx, rounds, parked, bus, inbox, shown, effect, node>>
    BY <1>12 DEF Query!vars
  <2>2. (\A i \in 1..Len(bus') : Asked(bus[i])') /\ Lit' /\ Levels'
        /\ (LitBefore(Len(bus)) => LitBefore(Len(bus))')
    BY <1>2, <2>1, NothingSent
  <2>3. \A i \in 1..Len(inbox') : Told(inbox[i])'
    BY <1>2, <2>1, InboxRead
  <2>4. Stage' /\ Awaited'
    BY <1>a, <1>2, <2>1 DEF OnItsWay, Stage, Awaited, Framed, Frame, Query!LongOnly
  <2>5. LitNow'
    BY <1>2, <2>1, <2>2 DEF OnItsWay, LitNow
  <2> QED  BY <2>2, <2>3, <2>4, <2>5 DEF OnItsWay, Honoured
<1> QED
  BY <1>3, <1>4, <1>5, <1>6, <1>7, <1>8, <1>9, <1>10, <1>11, <1>12 DEF Query!Next, Query!Tool

QueryInv == ToolKnows /\ Traffic /\ Query!OwnersEffectKept /\ ProbeInv

LEMMA QueryStarts == Query!Init => QueryInv
<1> SUFFICES ASSUME Query!Init PROVE QueryInv
  OBVIOUS
<1>1. ToolKnows /\ Query!OwnersEffectKept
  BY DEF Query!Init, ToolKnows, Query!OwnersEffectKept
<1>2. bus = <<>> /\ inbox = <<>> /\ <<>> \in Seq({})
  BY EmptySeq DEF Query!Init
<1>3. Traffic
  BY <1>2 DEF Traffic, IsSeq
<1>4. Counters
  BY DEF Query!Init, Counters
<1>5. Len(bus) = 0 /\ Len(inbox) = 0 /\ \A i \in 1..0 : FALSE
  BY <1>2
<1>6. pc = "resolve" /\ ~waiting /\ idx = 0 /\ rounds = 0 /\ parked = 0 /\ shown = <<>>
  BY DEF Query!Init
<1>7. Honoured /\ Lit
  BY <1>5 DEF Honoured, Lit
<1>8. Stage /\ Awaited /\ LitNow
  BY <1>6 DEF Stage, Awaited, LitNow
<1>9. Levels
  <2>1. ~(rounds >= 1) /\ rounds # 2 /\ <<>> # <<1, 0>>
    BY <1>6, LevelsShown
  <2> QED  BY <1>5, <1>6, <2>1 DEF Levels
<1> QED  BY <1>1, <1>3, <1>4, <1>7, <1>8, <1>9 DEF QueryInv, ProbeInv, OnItsWay

LEMMA QuerySteps ==
  Query!InterfaceAssumption /\ QueryInv /\ [Query!Next]_(Query!vars) => QueryInv'
BY QueryKnows, QueryTraffic, QueryEffect, ProbeStep DEF QueryInv

LEMMA QuerySound == QueryInv => Query!OwnersEffectKept /\ Query!LevelReachesStrip
<1> SUFFICES ASSUME QueryInv, tool = "probe", pc = "done", bus = <<>>, lost + late + owner = 0
             PROVE  shown = (IF idx = 0 THEN <<>> ELSE <<1, 0>>)
  BY DEF QueryInv, Query!LevelReachesStrip
<1>1. Calm
  BY DEF QueryInv, ProbeInv, Counters, Calm
<1>2. OnItsWay
  BY <1>1 DEF QueryInv, ProbeInv
<1>3. Len(bus) = 0 /\ \A i \in 1..0 : FALSE
  OBVIOUS
<1>4. CASE idx = 0
  BY <1>2, <1>4 DEF OnItsWay, Stage, Levels
<1>5. CASE idx # 0
  <2>1. rounds = 2
    BY <1>2, <1>5 DEF OnItsWay, Stage
  <2>2. rounds = 2 => shown = <<1, 0>>
    BY <1>2, <1>3 DEF OnItsWay, Levels
  <2> QED  BY <1>5, <2>1, <2>2
<1> QED  BY <1>4, <1>5

\* hidpp.rs ensure_rev_display_mode, for every feature table, interface and
\* number of lost, late and stray reports: a wheel that has shown something
\* ever since the probe opened it keeps the effect its owner chose.
THEOREM EffectKept == Query!Spec => []Query!OwnersEffectKept
<1> DEFINE Inv == ToolKnows /\ Traffic /\ Query!OwnersEffectKept
<1>1. Query!Init => Inv
  BY QueryStarts DEF QueryInv
<1>2. Inv /\ [Query!Next]_(Query!vars) => Inv'
  BY QueryKnows, QueryTraffic, QueryEffect
<1> QED
  BY <1>1, <1>2, PTL DEF Query!Spec

\* hidpp.rs rev_level_via_lightsync, issue #27, for every feature table, any
\* effect of the wheel and any number of stray reports, on interfaces that take
\* long reports where they take short ones: unless an answer was lost or late or
\* the owner stepped in, a probe that found the display lit the strip and
\* darkened it again.
THEOREM LevelsArrive ==
  ASSUME Query!InterfaceAssumption
  PROVE  Query!Spec => []Query!LevelReachesStrip
<1>1. Query!Init => QueryInv  BY QueryStarts
<1>2. QueryInv /\ [Query!Next]_(Query!vars) => QueryInv'  BY QuerySteps
<1>3. QueryInv => Query!LevelReachesStrip  BY QuerySound
<1> QED  BY <1>1, <1>2, <1>3, PTL DEF Query!Spec

(***************************************************************************)
(* The proxy.                                                              *)
(***************************************************************************)
\* Sink::ids names every effect the real wheel holds, once, so that freeing
\* all it names empties the wheel.
SinkHolds ==
  /\ wheel = [loaded |-> wheel.loaded, playing |-> wheel.playing]
  /\ \A a, b \in DOMAIN ids : ids[a] = ids[b] => a = b
  /\ DOMAIN wheel.loaded = Proxy!Known
  /\ wheel.playing \subseteq Proxy!Known

\* An upload takes the id its block has, or one no block has.
LEMMA UploadHolds ==
  ASSUME NEW b, NEW p, SinkHolds, Proxy!Uploads(b, p)
  PROVE  SinkHolds'
<1>1. PICK id : /\ \/ b \in DOMAIN ids /\ id = ids[b]
                   \/ b \notin DOMAIN ids /\ id \notin DOMAIN wheel.loaded
                /\ ids' = Proxy!With(ids, b, id)
                /\ wheel' = [wheel EXCEPT !.loaded = Proxy!With(@, id, p[b])]
  BY DEF Proxy!Uploads
<1>2. /\ DOMAIN ids' = DOMAIN ids \cup {b} /\ ids'[b] = id
      /\ \A a \in DOMAIN ids \ {b} : ids'[a] = ids[a]
  BY <1>1 DEF Proxy!With
<1>3. /\ wheel' = [loaded |-> wheel'.loaded, playing |-> wheel'.playing]
      /\ DOMAIN wheel'.loaded = DOMAIN wheel.loaded \cup {id}
      /\ wheel'.playing = wheel.playing
  BY <1>1 DEF SinkHolds, Proxy!With
<1>4. \A a \in DOMAIN ids \ {b} : ids[a] # id
  BY <1>1 DEF SinkHolds, Proxy!Known
<1>5. Proxy!Known' = Proxy!Known \cup {id}
  BY <1>1, <1>2 DEF Proxy!Known
<1>6. \A a, c \in DOMAIN ids' : ids'[a] = ids'[c] => a = c
  BY <1>2, <1>4 DEF SinkHolds
<1> QED
  BY <1>3, <1>5, <1>6 DEF SinkHolds

\* The effect of a freed block goes, and no other block's with it.
LEMMA FreeHolds ==
  ASSUME NEW r, SinkHolds, Proxy!ApplyFree(r)
  PROVE  SinkHolds'
<1>1. /\ DOMAIN ids' = DOMAIN ids \ {r.block}
      /\ \A a \in DOMAIN ids' : ids'[a] = ids[a]
  BY DEF Proxy!ApplyFree, Proxy!Without
<1>2. \A a, c \in DOMAIN ids' : ids'[a] = ids'[c] => a = c
  BY <1>1 DEF SinkHolds
<1>3. CASE r.block \notin DOMAIN ids
  <2>1. Proxy!Known' = Proxy!Known
    BY <1>1, <1>3 DEF Proxy!Known
  <2>2. wheel' = wheel
    BY <1>3 DEF Proxy!ApplyFree
  <2> QED
    BY <1>2, <2>1, <2>2 DEF SinkHolds
<1>4. CASE r.block \in DOMAIN ids
  <2>1. Proxy!Known' = Proxy!Known \ {ids[r.block]}
    BY <1>1, <1>4 DEF Proxy!Known, SinkHolds
  <2>2. wheel' = Proxy!Erased(wheel, {ids[r.block]})
    BY <1>4 DEF Proxy!ApplyFree
  <2>3. /\ wheel' = [loaded |-> wheel'.loaded, playing |-> wheel'.playing]
        /\ DOMAIN wheel'.loaded = DOMAIN wheel.loaded \ {ids[r.block]}
        /\ wheel'.playing = wheel.playing \ {ids[r.block]}
    BY <2>2 DEF Proxy!Erased
  <2> QED
    BY <1>2, <2>1, <2>3 DEF SinkHolds
<1> QED
  BY <1>3, <1>4

\* Device Reset and the shutdown leave nothing on the wheel.
LEMMA EmptiedHolds ==
  ASSUME NEW g, SinkHolds, Proxy!Emptied(g)
  PROVE  /\ SinkHolds' /\ wheel'.loaded = Proxy!Map0 /\ wheel'.playing = {}
         /\ gain' = g
<1>1. /\ wheel' = Proxy!Erased(wheel, Proxy!Known) /\ ids' = Proxy!Map0
      /\ gain' = g
  BY DEF Proxy!Emptied
<1>2. /\ wheel' = [loaded |-> wheel'.loaded, playing |-> wheel'.playing]
      /\ wheel'.loaded = [i \in DOMAIN wheel.loaded \ Proxy!Known |-> wheel.loaded[i]]
      /\ wheel'.playing = wheel.playing \ Proxy!Known
  BY <1>1 DEF Proxy!Erased
<1>3. wheel'.loaded = Proxy!Map0 /\ wheel'.playing = {}
  BY <1>2 DEF SinkHolds, Proxy!Map0
<1>4. DOMAIN ids' = {} /\ DOMAIN wheel'.loaded = {} /\ Proxy!Known' = {}
  BY <1>1, <1>3 DEF Proxy!Map0, Proxy!Known
<1> QED
  BY <1>1, <1>2, <1>3, <1>4 DEF SinkHolds

LEMMA ProxyHolds ==
  SinkHolds /\ Proxy!WheelHandedBack /\ [Proxy!Next]_(Proxy!vars)
    => SinkHolds' /\ Proxy!WheelHandedBack'
<1> SUFFICES ASSUME SinkHolds, Proxy!WheelHandedBack, [Proxy!Next]_(Proxy!vars)
             PROVE  SinkHolds' /\ Proxy!WheelHandedBack'
  OBVIOUS
<1>a. ASSUME UNCHANGED <<wheel, ids>> PROVE SinkHolds'
  BY <1>a DEF SinkHolds, Proxy!Known
<1>b. ASSUME proc' # "gone" PROVE Proxy!WheelHandedBack'
  BY <1>b DEF Proxy!WheelHandedBack
<1>1. CASE Proxy!Apply
  <2>1. proc' # "gone"
    BY <1>1 DEF Proxy!Apply
  <2> SUFFICES SinkHolds'
    BY <2>1, <1>b
  <2> DEFINE r == Head(queue)
  <2>2. CASE r.op = "set" /\ Proxy!ApplySet(r)
    BY <2>2, <1>a, UploadHolds DEF Proxy!ApplySet, Proxy!KernelRefuses, Proxy!Refused
  <2>3. CASE r.op \in {"start", "stop"} /\ Proxy!ApplyPlay(r)
    <3>1. CASE UNCHANGED wheel
      BY <2>3, <3>1, <1>a DEF Proxy!ApplyPlay
    <3>2. CASE r.block \in DOMAIN ids /\ wheel' # wheel
      <4>1. /\ UNCHANGED ids /\ ids[r.block] \in Proxy!Known
            /\ wheel' = [wheel EXCEPT !.playing = IF r.op = "start" THEN @ \cup {ids[r.block]}
                                                  ELSE @ \ {ids[r.block]}]
        BY <2>3, <3>2 DEF Proxy!ApplyPlay, Proxy!Known
      <4>2. /\ wheel' = [loaded |-> wheel'.loaded, playing |-> wheel'.playing]
            /\ wheel'.loaded = wheel.loaded
            /\ wheel'.playing \subseteq Proxy!Known
        BY <4>1 DEF SinkHolds
      <4>3. Proxy!Known' = Proxy!Known
        BY <4>1 DEF Proxy!Known
      <4> QED
        BY <4>1, <4>2, <4>3 DEF SinkHolds
    <3> QED
      BY <2>3, <3>1, <3>2 DEF Proxy!ApplyPlay
  <2>4. CASE r.op = "free" /\ Proxy!ApplyFree(r)
    BY <2>4, FreeHolds
  <2>5. CASE /\ wheel' = [wheel EXCEPT !.playing = @ \ Proxy!Known]
             /\ UNCHANGED ids
    <3>1. /\ wheel' = [loaded |-> wheel'.loaded, playing |-> wheel'.playing]
          /\ wheel'.loaded = wheel.loaded /\ wheel'.playing \subseteq Proxy!Known
      BY <2>5 DEF SinkHolds
    <3>2. Proxy!Known' = Proxy!Known
      BY <2>5 DEF Proxy!Known
    <3> QED
      BY <2>5, <3>1, <3>2 DEF SinkHolds
  <2>6. CASE r.op = "reset" /\ Proxy!Emptied(1)
    BY <2>6, EmptiedHolds
  <2>7. CASE UNCHANGED <<wheel, ids>>
    BY <2>7, <1>a
  <2> QED
    BY <1>1, <2>2, <2>3, <2>4, <2>5, <2>6, <2>7 DEF Proxy!Apply
<1>2. CASE Proxy!Shutdown
  BY <1>2, EmptiedHolds DEF Proxy!Shutdown, Proxy!WheelHandedBack,
     Proxy!HandedBackGain, Proxy!FullGain
<1>3. CASE Proxy!Launch
  BY <1>3, <1>a, <1>b DEF Proxy!Launch
<1>4. CASE Proxy!Relaunch
  BY <1>4, <1>a, <1>b DEF Proxy!Relaunch, Proxy!sink
<1>5. CASE Proxy!HostAsks \/ Proxy!ServeCreate \/ Proxy!Serve \/ Proxy!StopLoop
            \/ Proxy!WheelMoves \/ Proxy!ReadSource
  BY <1>5, <1>a, <1>b DEF Proxy!HostAsks, Proxy!Ask, Proxy!ServeCreate,
     Proxy!Serve, Proxy!StopLoop, Proxy!WheelMoves, Proxy!ReadSource, Proxy!sink
<1>6. CASE UNCHANGED Proxy!vars
  BY <1>6, <1>a DEF Proxy!vars, Proxy!WheelHandedBack
<1> QED
  BY <1>1, <1>2, <1>3, <1>4, <1>5, <1>6 DEF Proxy!Next

\* sink.rs Sink::shutdown, for any number of effects and whatever the wheel
\* refused: the real wheel is handed back empty, silent and at full gain.
THEOREM HandedBack == Proxy!Spec => []Proxy!WheelHandedBack
<1> DEFINE Inv == SinkHolds /\ Proxy!WheelHandedBack
<1>1. Proxy!Init => Inv
  BY DEF Proxy!Init, Proxy!Map0, SinkHolds, Proxy!Known, Proxy!WheelHandedBack
<1>2. Inv /\ [Proxy!Next]_(Proxy!vars) => Inv'
  BY ProxyHolds
<1> QED
  BY <1>1, <1>2, PTL DEF Proxy!Spec

\* The sink applies reports the host counted on long before.  That the wheel
\* follows is shown by a replay: the reports still on their way lead from what
\* the sink has to what the host counts on.

\* What a report does to the host's own account of its effects and players.
FxAfter(fx, r) ==
  IF r.op = "create" THEN Proxy!With(fx, r.block, Proxy!Blank)
  ELSE IF r.op = "set" THEN [fx EXCEPT ![r.block] = [@ EXCEPT ![r.field] = r.value]]
  ELSE IF r.op = "free" THEN Proxy!Without(fx, r.block) ELSE fx

PlayersAfter(pl, r) ==
  IF r.op = "start" THEN pl \cup {r.block}
  ELSE IF r.op \in {"stop", "free"} THEN pl \ {r.block}
  ELSE IF r.op = "stopall" THEN {} ELSE pl

\* A report fits the effects there are: it creates a block that is free, works
\* on one that is not, and resets when there is none.
Fits(fx, r) ==
  /\ r.op = "create" => r.block \notin DOMAIN fx
  /\ r.op \in {"set", "start", "stop", "free"} => r.block \in DOMAIN fx
  /\ r.op = "reset" => fx = Proxy!Map0

\* The sink's fields are the host's as of the reports applied, and so are the
\* effects and players of the wheel, but for what the wheel refused.
Agrees(pl) ==
  /\ kinds = DOMAIN params /\ DOMAIN ids \subseteq kinds /\ pl \subseteq kinds
  /\ \A b \in DOMAIN ids :
       /\ <<b, "fields">> \notin missed => wheel.loaded[ids[b]] = params[b]
       /\ <<b, "play">> \notin missed => (ids[b] \in wheel.playing <=> b \in pl)
  /\ \A b \in pl : b \in DOMAIN ids \/ <<b, "play">> \in missed

LEMMA WithoutFacts ==
  ASSUME NEW f, NEW k
  PROVE  /\ DOMAIN Proxy!Without(f, k) = DOMAIN f \ {k}
         /\ \A x \in DOMAIN f \ {k} : Proxy!Without(f, k)[x] = f[x]
BY DEF Proxy!Without

LEMMA CreateAgrees ==
  ASSUME NEW r, NEW pl, SinkHolds, Agrees(pl), Fits(params, r), r.op = "create",
         kinds' = kinds \cup {r.block}, params' = Proxy!Default(params, r.block),
         UNCHANGED <<ids, wheel, gain, missed>>
  PROVE  params' = FxAfter(params, r) /\ Agrees(PlayersAfter(pl, r))'
<1>1. r.block \notin DOMAIN params  BY DEF Fits
<1>2. params' = Proxy!With(params, r.block, Proxy!Blank)  BY <1>1 DEF Proxy!Default
<1>3. params' = FxAfter(params, r)  BY <1>2 DEF FxAfter
<1>4. PlayersAfter(pl, r) = pl  BY DEF PlayersAfter
<1>5. /\ DOMAIN params' = DOMAIN params \cup {r.block}
      /\ \A b \in DOMAIN params : params'[b] = params[b]
  BY <1>1, <1>2 DEF Proxy!With
<1>6. Agrees(pl)'
  BY <1>5, <1>1 DEF Agrees
<1> QED  BY <1>3, <1>4, <1>6

LEMMA SetAgrees ==
  ASSUME NEW r, NEW pl, SinkHolds, Agrees(pl), Fits(params, r), r.op = "set",
           Proxy!ApplySet(r)
  PROVE  params' = FxAfter(params, r) /\ Agrees(PlayersAfter(pl, r))'
<1> DEFINE b == r.block
<1>1. b \in DOMAIN params  BY DEF Fits
<1>2. params' = [params EXCEPT ![b] = [@ EXCEPT ![r.field] = r.value]]
  BY <1>1 DEF Proxy!ApplySet, Proxy!Fields, Proxy!Stored, Proxy!Default
<1>3. params' = FxAfter(params, r)  BY <1>2 DEF FxAfter
<1>4. PlayersAfter(pl, r) = pl  BY DEF PlayersAfter
<1>5. DOMAIN params' = DOMAIN params
        /\ \A a \in DOMAIN params \ {b} : params'[a] = params[a]
  BY <1>2
<1>6. UNCHANGED kinds  BY DEF Proxy!ApplySet
<1>7. CASE Proxy!Uploads(b, params')
  <2>1. PICK id : /\ \/ b \in DOMAIN ids /\ id = ids[b]
                     \/ b \notin DOMAIN ids /\ id \notin DOMAIN wheel.loaded
                  /\ ids' = Proxy!With(ids, b, id)
                  /\ wheel' = [wheel EXCEPT !.loaded = Proxy!With(@, id, params'[b])]
    BY <1>7 DEF Proxy!Uploads
  <2>2. b \in kinds /\ missed' = missed \ {<<b, "fields">>}  BY <1>7 DEF Proxy!Uploads
  <2>3. /\ DOMAIN ids' = DOMAIN ids \cup {b} /\ ids'[b] = id
        /\ \A a \in DOMAIN ids \ {b} : ids'[a] = ids[a]
    BY <2>1 DEF Proxy!With
  <2>4. /\ wheel'.playing = wheel.playing /\ wheel'.loaded[id] = params'[b]
        /\ \A i \in DOMAIN wheel.loaded \ {id} : wheel'.loaded[i] = wheel.loaded[i]
    BY <2>1 DEF Proxy!With, SinkHolds
  <2>5. \A a \in DOMAIN ids \ {b} : ids[a] # id /\ ids[a] \in DOMAIN wheel.loaded
    BY <2>1 DEF SinkHolds, Proxy!Known
  <2>6. \A a \in DOMAIN ids \ {b} :
          /\ <<a, "fields">> \notin missed' => wheel'.loaded[ids'[a]] = params'[a]
          /\ <<a, "play">> \notin missed' => (ids'[a] \in wheel'.playing <=> a \in pl)
    <3> TAKE a \in DOMAIN ids \ {b}
    <3>1. <<a, "fields">> # <<b, "fields">> /\ <<a, "play">> # <<b, "fields">>  OBVIOUS
    <3>2. params'[a] = params[a]  BY <1>5 DEF Agrees
    <3>3. wheel'.loaded[ids'[a]] = wheel.loaded[ids[a]]  BY <2>3, <2>4, <2>5
    <3> QED  BY <3>1, <3>2, <3>3, <2>2, <2>3, <2>4 DEF Agrees
  <2>7. <<b, "play">> \notin missed' => (ids'[b] \in wheel'.playing <=> b \in pl)
    <3>1. <<b, "play">> # <<b, "fields">>  OBVIOUS
    <3>2. <<b, "play">> \notin missed' => <<b, "play">> \notin missed  BY <3>1, <2>2
    <3>3. CASE b \in DOMAIN ids  BY <3>2, <3>3, <2>1, <2>3, <2>4 DEF Agrees
    <3>4. CASE b \notin DOMAIN ids
      <4>1. id \notin wheel.playing  BY <3>4, <2>1 DEF SinkHolds
      <4>2. <<b, "play">> \notin missed => b \notin pl  BY <3>4 DEF Agrees
      <4> QED  BY <3>2, <4>1, <4>2, <2>3, <2>4
    <3> QED  BY <3>3, <3>4
  <2>8. \A a \in pl : a \in DOMAIN ids' \/ <<a, "play">> \in missed'
    <3> TAKE a \in pl
    <3>1. <<a, "play">> # <<b, "fields">>  OBVIOUS
    <3> QED  BY <3>1, <2>2, <2>3 DEF Agrees
  <2>9. kinds' = DOMAIN params' /\ DOMAIN ids' \subseteq kinds' /\ pl \subseteq kinds'
    BY <1>5, <1>6, <2>2, <2>3 DEF Agrees
  <2>10. wheel'.loaded[ids'[b]] = params'[b]  BY <2>3, <2>4
  <2>11. \A a \in DOMAIN ids' : a = b \/ a \in DOMAIN ids \ {b}  BY <2>3
  <2> HIDE DEF b
  <2>12. Agrees(pl)'
    BY <2>6, <2>7, <2>8, <2>9, <2>10, <2>11 DEF Agrees
  <2> QED  BY <2>12, <1>3, <1>4
<1>8. CASE Proxy!Refused(b, "fields")
  <2>1. missed' = missed \cup {<<b, "fields">>} /\ UNCHANGED <<ids, wheel>>
    BY <1>8 DEF Proxy!Refused
  <2>2. \A a \in DOMAIN ids : <<a, "fields">> \notin missed' => a # b  BY <2>1
  <2>3. Agrees(pl)'
    BY <2>1, <2>2, <1>5, <1>6 DEF Agrees
  <2> QED  BY <2>3, <1>3, <1>4
<1> QED  BY <1>7, <1>8 DEF Proxy!ApplySet, Proxy!KernelRefuses

LEMMA PlayAgrees ==
  ASSUME NEW r, NEW pl, SinkHolds, Agrees(pl), Fits(params, r), r.op \in {"start", "stop"},
         Proxy!ApplyPlay(r)
  PROVE  params' = FxAfter(params, r) /\ Agrees(PlayersAfter(pl, r))'
<1> DEFINE b == r.block
<1>1. b \in kinds  BY DEF Fits, Agrees
<1>2. UNCHANGED <<kinds, params, ids>>  BY DEF Proxy!ApplyPlay
<1>3. params' = FxAfter(params, r)  BY <1>2 DEF FxAfter
<1> DEFINE q == PlayersAfter(pl, r)
<1>4. q = IF r.op = "start" THEN pl \cup {b} ELSE pl \ {b}  BY DEF PlayersAfter
<1>5. CASE b \in DOMAIN ids
  <2>1. /\ UNCHANGED missed
        /\ wheel' = [wheel EXCEPT !.playing = IF r.op = "start" THEN @ \cup {ids[b]}
                                              ELSE @ \ {ids[b]}]
    BY <1>5 DEF Proxy!ApplyPlay
  <2>2. /\ wheel'.loaded = wheel.loaded
        /\ wheel'.playing = IF r.op = "start" THEN wheel.playing \cup {ids[b]}
                            ELSE wheel.playing \ {ids[b]}
    BY <2>1 DEF SinkHolds
  <2>3. \A a \in DOMAIN ids : ids[a] = ids[b] => a = b  BY <1>5 DEF SinkHolds
  <2> HIDE DEF b, q
  <2>4. \A a \in DOMAIN ids : <<a, "play">> \notin missed => (ids[a] \in wheel'.playing <=> a \in q)
    BY <2>2, <2>3, <1>4 DEF Agrees
  <2>5. \A a \in q : a \in DOMAIN ids \/ <<a, "play">> \in missed
    BY <1>4, <1>5 DEF Agrees
  <2>6. Agrees(q)'
    BY <2>1, <2>2, <2>4, <2>5, <1>1, <1>2, <1>4 DEF Agrees
  <2> QED  BY <2>6, <1>3 DEF q
<1>6. CASE b \notin DOMAIN ids
  <2>1. missed' = missed \cup {<<b, "play">>} /\ UNCHANGED wheel
    BY <1>6 DEF Proxy!ApplyPlay
  <2> HIDE DEF b, q
  <2>2. \A a \in DOMAIN ids : a # b  BY <1>6
  <2>3. \A a \in q : a \in DOMAIN ids \/ <<a, "play">> \in missed'
    BY <1>4, <2>1 DEF Agrees
  <2>4. Agrees(q)'
    BY <2>1, <2>2, <2>3, <1>1, <1>2, <1>4 DEF Agrees
  <2> QED  BY <2>4, <1>3 DEF q
<1> QED  BY <1>5, <1>6

LEMMA FreeAgrees ==
  ASSUME NEW r, NEW pl, SinkHolds, Agrees(pl), Fits(params, r), r.op = "free",
           Proxy!ApplyFree(r)
  PROVE  params' = FxAfter(params, r) /\ Agrees(PlayersAfter(pl, r))'
<1> DEFINE b == r.block
<1>1. /\ kinds' = kinds \ {b} /\ params' = Proxy!Without(params, b)
           /\ ids' = Proxy!Without(ids, b)
      /\ wheel' = IF b \in DOMAIN ids THEN Proxy!Erased(wheel, {ids[b]}) ELSE wheel
      /\ missed' = {m \in missed : m[1] # b}
  BY DEF Proxy!ApplyFree
<1>2. params' = FxAfter(params, r)  BY <1>1 DEF FxAfter
<1> DEFINE q == PlayersAfter(pl, r)
<1>3. q = pl \ {b}  BY DEF PlayersAfter
<1> HIDE DEF b, q
<1>4. /\ DOMAIN params' = DOMAIN params \ {b}
           /\ \A a \in DOMAIN params' : params'[a] = params[a]
      /\ DOMAIN ids' = DOMAIN ids \ {b} /\ \A a \in DOMAIN ids' : ids'[a] = ids[a]
  BY <1>1, WithoutFacts
<1>5. \A a \in DOMAIN ids' : /\ wheel'.loaded[ids[a]] = wheel.loaded[ids[a]]
                             /\ ids[a] \in wheel'.playing <=> ids[a] \in wheel.playing
  <2>1. CASE b \notin DOMAIN ids  BY <2>1, <1>1
  <2>2. CASE b \in DOMAIN ids
    <3>1. wheel' = [loaded  |-> [i \in DOMAIN wheel.loaded \ {ids[b]} |-> wheel.loaded[i]],
                    playing |-> wheel.playing \ {ids[b]}]
      BY <2>2, <1>1 DEF Proxy!Erased
    <3>2. \A a \in DOMAIN ids' : ids[a] # ids[b] /\ ids[a] \in DOMAIN wheel.loaded
      BY <2>2, <1>4 DEF SinkHolds, Proxy!Known
    <3> QED  BY <3>1, <3>2
  <2> QED  BY <2>1, <2>2
<1>6. \A a, w : a # b => (<<a, w>> \in missed' <=> <<a, w>> \in missed)
  BY <1>1
<1>7. \A a \in DOMAIN ids' : a # b /\ a \in DOMAIN params' BY <1>4 DEF Agrees
<1>8. \A a \in DOMAIN ids' :
        /\ <<a, "fields">> \notin missed' => wheel'.loaded[ids'[a]] = params'[a]
        /\ <<a, "play">> \notin missed' => (ids'[a] \in wheel'.playing <=> a \in q)
  BY <1>3, <1>4, <1>5, <1>6, <1>7 DEF Agrees
<1>9. \A a \in q : a \in DOMAIN ids' \/ <<a, "play">> \in missed'
  BY <1>3, <1>4, <1>6 DEF Agrees
<1>10. Agrees(q)'
  BY <1>1, <1>3, <1>4, <1>8, <1>9 DEF Agrees
<1> QED  BY <1>2, <1>10 DEF q

LEMMA StopAllAgrees ==
  ASSUME NEW r, NEW pl, SinkHolds, Agrees(pl), r.op = "stopall",
         wheel' = [wheel EXCEPT !.playing = @ \ Proxy!Known],
         UNCHANGED <<kinds, params, ids, missed>>
  PROVE  params' = FxAfter(params, r) /\ Agrees(PlayersAfter(pl, r))'
<1>1. wheel'.loaded = wheel.loaded /\ wheel'.playing = {}  BY DEF SinkHolds
<1>2. PlayersAfter(pl, r) = {}  BY DEF PlayersAfter
<1>3. params' = FxAfter(params, r)  BY DEF FxAfter
<1>4. Agrees({})'  BY <1>1 DEF Agrees
<1> QED  BY <1>2, <1>3, <1>4

LEMMA ResetAgrees ==
  ASSUME NEW r, NEW pl, SinkHolds, Agrees(pl), Fits(params, r), r.op = "reset",
           Proxy!Emptied(1)
  PROVE  params' = FxAfter(params, r) /\ Agrees(PlayersAfter(pl, r))'
<1>1. params = Proxy!Map0  BY DEF Fits
<1>2. kinds' = {} /\ params' = Proxy!Map0 /\ ids' = Proxy!Map0  BY DEF Proxy!Emptied
<1>3. pl = {}  BY <1>1 DEF Agrees, Proxy!Map0
<1>4. PlayersAfter(pl, r) = {} /\ FxAfter(params, r) = params
  BY <1>3 DEF PlayersAfter, FxAfter
<1>5. Agrees({})'  BY <1>2 DEF Agrees, Proxy!Map0
<1> QED  BY <1>1, <1>2, <1>4, <1>5

LEMMA GainAgrees ==
  ASSUME NEW r, NEW pl, SinkHolds, Agrees(pl), r.op \in {"disable", "enable"},
         UNCHANGED <<kinds, params, ids, wheel, missed>>
  PROVE  params' = FxAfter(params, r) /\ Agrees(PlayersAfter(pl, r))'
<1>1. PlayersAfter(pl, r) = pl /\ FxAfter(params, r) = params  BY DEF PlayersAfter, FxAfter
<1>2. Agrees(pl)'  BY DEF Agrees
<1> QED  BY <1>1, <1>2

LEMMA ApplyAgrees ==
  ASSUME NEW pl, NEW r, r = Head(queue), SinkHolds, Agrees(pl), Fits(params, r), Proxy!Apply
  PROVE  params' = FxAfter(params, r) /\ Agrees(PlayersAfter(pl, r))'
<1>2. \/ r.op = "create" /\ kinds' = kinds \cup {r.block}
           /\ params' = Proxy!Default(params, r.block)
             /\ UNCHANGED <<ids, wheel, gain, missed, faults>>
      \/ r.op = "set" /\ Proxy!ApplySet(r)
      \/ r.op \in {"start", "stop"} /\ Proxy!ApplyPlay(r)
      \/ r.op = "free" /\ Proxy!ApplyFree(r)
      \/ r.op = "stopall" /\ wheel' = [wheel EXCEPT !.playing = @ \ Proxy!Known]
             /\ UNCHANGED <<kinds, params, ids, gain, missed, faults>>
      \/ r.op \in {"disable", "enable"}
             /\ UNCHANGED <<kinds, params, ids, wheel, missed, faults>>
      \/ r.op = "reset" /\ Proxy!Emptied(1)
  BY DEF Proxy!Apply
<1> QED  BY <1>2, CreateAgrees, SetAgrees, PlayAgrees, FreeAgrees, StopAllAgrees,
            ResetAgrees, GainAgrees

Ops == [op : {"set"}, block : Nat, field : {"shape", "force"}, value : Forces]
         \cup [op : {"create", "start", "stop", "free"}, block : Nat]
         \cup [op : {"stopall", "disable", "enable", "reset"}]

\* The reports the host counts on and the sink has not applied: those queued,
\* and the one the kernel is blocked on.
Queued ==
  IF asking.op \in {"none", "create", "unknown"} THEN queue ELSE Append(queue, asking)

\* F and L lead from what the sink has, report by report, to what the host counts on.
Replay(s, F, L) ==
  /\ F[0] = params /\ Agrees(L[0])
  /\ \A i \in 1 .. Len(s) : /\ Fits(F[i - 1], s[i]) /\ F[i] = FxAfter(F[i - 1], s[i])
                            /\ L[i] = PlayersAfter(L[i - 1], s[i])
  /\ F[Len(s)] = host.fx /\ L[Len(s)] = host.playing

LEMMA ReplayAppend ==
  ASSUME NEW s \in Seq(Ops), NEW r \in Ops, NEW F, NEW L, Replay(s, F, L), Fits(host.fx, r),
         UNCHANGED <<kinds, params, ids, wheel, missed>>,
         host'.fx = FxAfter(host.fx, r), host'.playing = PlayersAfter(host.playing, r)
  PROVE  \E G, M : Replay(Append(s, r), G, M)'
<1>1. PICK n \in Nat : n = Len(s)  BY LenProperties
<1>2. PICK t : t = Append(s, r)  OBVIOUS
<1>3. Len(t) = n + 1 /\ t[n + 1] = r /\ \A i \in 1 .. n : t[i] = s[i]
  BY <1>1, <1>2, AppendProperties
<1>4. PICK G : G = [i \in 0 .. n + 1 |-> IF i <= n THEN F[i] ELSE FxAfter(F[n], r)]  OBVIOUS
<1>5. PICK M : M = [i \in 0 .. n + 1 |-> IF i <= n THEN L[i] ELSE PlayersAfter(L[n], r)]
  OBVIOUS
<1>6. /\ G[n + 1] = FxAfter(F[n], r) /\ M[n + 1] = PlayersAfter(L[n], r)
      /\ \A i \in 0 .. n : G[i] = F[i] /\ M[i] = L[i]
  BY <1>4, <1>5
<1>7. Agrees(L[0])'  BY DEF Replay, Agrees
<1>8. G[0] = params' /\ Agrees(M[0])'
  <2>1. M[0] = L[0] /\ G[0] = F[0]  BY <1>6
  <2> QED  BY <2>1, <1>7 DEF Replay
<1>9. F[n] = host.fx /\ L[n] = host.playing  BY <1>1 DEF Replay
<1>10. ASSUME NEW i \in 1 .. n + 1
       PROVE  /\ Fits(G[i - 1], t[i]) /\ G[i] = FxAfter(G[i - 1], t[i])
              /\ M[i] = PlayersAfter(M[i - 1], t[i])
  <2>1. CASE i = n + 1
    <3>1. i - 1 = n /\ t[i] = r  BY <2>1, <1>3
    <3>2. G[i - 1] = F[n] /\ M[i - 1] = L[n]  BY <3>1, <1>6
    <3> QED  BY <2>1, <3>1, <3>2, <1>6, <1>9
  <2>2. CASE i # n + 1
    <3>1. i \in 1 .. n /\ i \in 0 .. n /\ i - 1 \in 0 .. n  BY <2>2
    <3>2. t[i] = s[i] /\ G[i] = F[i] /\ M[i] = L[i] /\ G[i - 1] = F[i - 1]
            /\ M[i - 1] = L[i - 1]
      BY <3>1, <1>3, <1>6
    <3> QED  BY <3>1, <3>2, <1>1 DEF Replay
  <2> QED  BY <2>1, <2>2
<1>11. G[Len(t)] = host'.fx /\ M[Len(t)] = host'.playing  BY <1>3, <1>6, <1>9
<1>12. Replay(t, G, M)'  BY <1>3, <1>8, <1>10, <1>11 DEF Replay
<1> QED  BY <1>2, <1>12

LEMMA ReplayTail ==
  ASSUME NEW s \in Seq(Ops), s # <<>>, NEW r, r = Head(s), NEW F, NEW L, Replay(s, F, L),
         params' = FxAfter(params, r), Agrees(PlayersAfter(L[0], r))', UNCHANGED host
  PROVE  \E G, M : Replay(Tail(s), G, M)'
<1>1. PICK n \in Nat : n + 1 = Len(s)
  <2>1. Len(s) \in Nat /\ Len(s) # 0  BY LenProperties, EmptySeq
  <2>2. Len(s) - 1 \in Nat /\ (Len(s) - 1) + 1 = Len(s)  BY <2>1
  <2> QED  BY <2>2
<1>2. PICK t : t = Tail(s)  OBVIOUS
<1>3. Len(t) = n /\ s[1] = r /\ \A i \in 1 .. n : t[i] = s[i + 1]
  BY <1>1, <1>2, HeadTailProperties
<1>4. PICK G : G = [i \in 0 .. n |-> F[i + 1]]  OBVIOUS
<1>5. PICK M : M = [i \in 0 .. n |-> L[i + 1]]  OBVIOUS
<1>6. \A i \in 0 .. n : G[i] = F[i + 1] /\ M[i] = L[i + 1]  BY <1>4, <1>5
<1>7. F[1] = FxAfter(params, r) /\ L[1] = PlayersAfter(L[0], r)
  <2>1. 1 \in 1 .. Len(s) /\ 1 - 1 = 0  BY <1>1
  <2>2. F[1] = FxAfter(F[1 - 1], s[1]) /\ L[1] = PlayersAfter(L[1 - 1], s[1])
    BY <2>1 DEF Replay
  <2> QED  BY <2>1, <2>2, <1>3 DEF Replay
<1>8. G[0] = params' /\ Agrees(M[0])'
  <2>1. G[0] = F[1] /\ M[0] = L[1]  BY <1>6
  <2> QED  BY <2>1, <1>7
<1>9. ASSUME NEW i \in 1 .. n
      PROVE  /\ Fits(G[i - 1], t[i]) /\ G[i] = FxAfter(G[i - 1], t[i])
             /\ M[i] = PlayersAfter(M[i - 1], t[i])
  <2>1. /\ i + 1 \in 1 .. Len(s) /\ (i + 1) - 1 = i /\ (i - 1) + 1 = i
        /\ i \in 0 .. n /\ i - 1 \in 0 .. n
    BY <1>1
  <2>2. G[i - 1] = F[i] /\ M[i - 1] = L[i] /\ G[i] = F[i + 1] /\ M[i] = L[i + 1]
          /\ t[i] = s[i + 1]
    BY <2>1, <1>3, <1>6
  <2>3. /\ Fits(F[(i + 1) - 1], s[i + 1]) /\ F[i + 1] = FxAfter(F[(i + 1) - 1], s[i + 1])
        /\ L[i + 1] = PlayersAfter(L[(i + 1) - 1], s[i + 1])
    BY <2>1 DEF Replay
  <2> QED  BY <2>1, <2>2, <2>3
<1>10. G[Len(t)] = host'.fx /\ M[Len(t)] = host'.playing
  <2>1. G[n] = F[n + 1] /\ M[n] = L[n + 1]  BY <1>6
  <2> QED  BY <2>1, <1>1, <1>3 DEF Replay
<1>11. Replay(t, G, M)'  BY <1>3, <1>8, <1>9, <1>10 DEF Replay
<1> QED  BY <1>2, <1>11

\* Creates that have been answered.
Given == IF asking.op = "create" THEN creates - 1 ELSE creates

\* The block the next create is given is free.
Numbered ==
  /\ creates \in 0 .. MaxCreates /\ Given \in Nat
  /\ \/ nextBlock \in 1 .. Given + 1 /\ DOMAIN host.fx \subseteq 1 .. nextBlock - 1
     \/ nextBlock = 0 /\ Given + 1 = Width /\ DOMAIN host.fx \subseteq Nat

\* What is where: the queue holds decoded reports, and between two games there
\* is neither a queue nor a report to answer, and nothing in the sink.
Kept ==
  /\ queue \in Seq(Ops)
  /\ asking \in Ops \/ asking = Proxy!Quiet \/ asking.op \in {"create", "unknown"}
  /\ host = [fx |-> host.fx, playing |-> host.playing]
  /\ proc \in {"start", "gone"} => queue = <<>> /\ asking = Proxy!Quiet
  /\ proc = "gone" => kinds = {} /\ params = Proxy!Map0 /\ ids = Proxy!Map0

Follows == proc # "gone" => \E F, L : Replay(Queued, F, L)

ProxyInv == SinkHolds /\ Proxy!WheelHandedBack /\ Numbered /\ Kept /\ Follows

LEMMA ProxyStarts == ASSUME Proxy!BlockAssumption PROVE Proxy!Init => ProxyInv
<1> SUFFICES ASSUME Proxy!Init PROVE ProxyInv  OBVIOUS
<1>1. SinkHolds /\ Proxy!WheelHandedBack
  BY DEF Proxy!Init, Proxy!Map0, SinkHolds, Proxy!Known, Proxy!WheelHandedBack
<1>2. Numbered
  <2>1. creates = 0 /\ asking.op = "none" /\ nextBlock = 1 % Width /\ DOMAIN host.fx = {}
    BY DEF Proxy!Init, Proxy!Quiet, Proxy!Map0
  <2>2. Given = 0  BY <2>1 DEF Given
  <2>3. CASE Width = 1
    <3>1. nextBlock = 0  BY <2>1, <2>3
    <3> QED  BY <2>1, <2>2, <2>3, <3>1 DEF Numbered, Proxy!BlockAssumption
  <2>4. CASE Width > 1
    <3>1. nextBlock = 1  BY <2>1, <2>4 DEF Proxy!BlockAssumption
    <3> QED  BY <2>1, <2>2, <3>1 DEF Numbered, Proxy!BlockAssumption
  <2> QED  BY <2>3, <2>4 DEF Proxy!BlockAssumption
<1>3. Kept  BY DEF Proxy!Init, Kept, Proxy!Quiet
<1>4. Follows
  <2>1. /\ Queued = <<>> /\ Len(Queued) = 0 /\ params = Proxy!Map0
             /\ host.fx = Proxy!Map0 /\ host.playing = {}
        /\ kinds = {} /\ ids = Proxy!Map0
    BY DEF Proxy!Init, Queued, Proxy!Quiet
  <2>2. Agrees({})  BY <2>1 DEF Agrees, Proxy!Map0
  <2>3. PICK F : F = [i \in {0} |-> Proxy!Map0]  OBVIOUS
  <2>4. PICK L : L = [i \in {0} |-> {}]  OBVIOUS
  <2>5. Replay(Queued, F, L)
    <3>1. F[0] = Proxy!Map0 /\ L[0] = {}  BY <2>3, <2>4
    <3> QED  BY <3>1, <2>1, <2>2 DEF Replay
  <2> QED  BY <2>5 DEF Follows
<1> QED  BY <1>1, <1>2, <1>3, <1>4 DEF ProxyInv

\* A step that leaves the sink, the host's account and the reports alone.
LEMMA ReplayKept ==
  ASSUME NEW s, NEW F, NEW L, Replay(s, F, L), s = Queued',
         UNCHANGED <<kinds, params, ids, wheel, missed, host>>
  PROVE  Replay(Queued, F, L)'
<1>1. Agrees(L[0])'  BY DEF Replay, Agrees
<1>2. Replay(s, F, L)'  BY <1>1 DEF Replay
<1> QED  BY <1>2 DEF Replay

\* What the host asks for is what it counts on from then on.
LEMMA HostWantsIs ==
  ASSUME NEW r \in Proxy!Requests, host = [fx |-> host.fx, playing |-> host.playing],
         DOMAIN host.fx \subseteq Nat
  PROVE  /\ Proxy!HostWants(r)
              = [fx |-> FxAfter(host.fx, r), playing |-> PlayersAfter(host.playing, r)]
         /\ Fits(host.fx, r)
         /\ \/ r \in Ops /\ r.op \notin {"none", "create", "unknown"}
            \/ r.op = "unknown" /\ Proxy!HostWants(r) = host
<1> PICK fx, pl : fx = host.fx /\ pl = host.playing  OBVIOUS
<1>a. /\ \A x : [host EXCEPT !.playing = x] = [fx |-> fx, playing |-> x]
      /\ \A x : [host EXCEPT !.fx = x] = [fx |-> x, playing |-> pl]
      /\ host = [fx |-> fx, playing |-> pl]
  OBVIOUS
<1>1. CASE \E b \in DOMAIN host.fx, f \in {"shape", "force"}, v \in Forces :
             r = [op |-> "set", block |-> b, field |-> f, value |-> v]
  <2>1. r.op = "set" /\ r.block \in DOMAIN host.fx /\ r \in Ops  BY <1>1 DEF Ops
  <2>2. Proxy!HostWants(r) = [host EXCEPT !.fx[r.block] = [@ EXCEPT ![r.field] = r.value]]
    BY <2>1, Zenon DEF Proxy!HostWants
  <2>3. Proxy!HostWants(r) = [host EXCEPT !.fx = FxAfter(host.fx, r)]
    BY <2>1, <2>2 DEF FxAfter
  <2>4. PlayersAfter(pl, r) = pl /\ Fits(fx, r)  BY <2>1 DEF PlayersAfter, Fits
  <2> QED  BY <2>1, <2>3, <2>4, <1>a
<1>2. CASE \E o \in {"start", "stop", "free"}, b \in DOMAIN host.fx : r
        = [op |-> o, block |-> b]
  <2>1. r.op \in {"start", "stop", "free"} /\ r.block \in DOMAIN host.fx /\ r \in Ops
    BY <1>2 DEF Ops
  <2>2. CASE r.op = "start"
    <3>1. Proxy!HostWants(r) = [host EXCEPT !.playing = @ \cup {r.block}]
      BY <2>2, Zenon DEF Proxy!HostWants
    <3>2. FxAfter(fx, r) = fx /\ PlayersAfter(pl, r) = pl \cup {r.block} /\ Fits(fx, r)
      BY <2>1, <2>2 DEF FxAfter, PlayersAfter, Fits
    <3> QED  BY <2>1, <2>2, <3>1, <3>2, <1>a
  <2>3. CASE r.op = "stop"
    <3>1. Proxy!HostWants(r) = [host EXCEPT !.playing = @ \ {r.block}]
      BY <2>3, Zenon DEF Proxy!HostWants
    <3>2. FxAfter(fx, r) = fx /\ PlayersAfter(pl, r) = pl \ {r.block} /\ Fits(fx, r)
      BY <2>1, <2>3 DEF FxAfter, PlayersAfter, Fits
    <3> QED  BY <2>1, <2>3, <3>1, <3>2, <1>a
  <2>4. CASE r.op = "free"
    <3>1. Proxy!HostWants(r)
            = [fx |-> Proxy!Without(host.fx, r.block), playing |-> host.playing \ {r.block}]
      BY <2>4, Zenon DEF Proxy!HostWants
    <3>2. FxAfter(fx, r) = Proxy!Without(fx, r.block)
            /\ PlayersAfter(pl, r) = pl \ {r.block} /\ Fits(fx, r)
      BY <2>1, <2>4 DEF FxAfter, PlayersAfter, Fits
    <3> QED  BY <2>1, <2>4, <3>1, <3>2, <1>a
  <2> QED  BY <2>1, <2>2, <2>3, <2>4
<1>3. CASE \E o \in {"stopall", "disable", "enable", "unknown"} : r = [op |-> o]
  <2>1. r.op \in {"stopall", "disable", "enable", "unknown"}
          /\ (r.op # "unknown" => r \in Ops)
    BY <1>3 DEF Ops
  <2>2. CASE r.op = "stopall"
    <3>1. Proxy!HostWants(r) = [host EXCEPT !.playing = {}]
      BY <2>2, Zenon DEF Proxy!HostWants
    <3>2. FxAfter(fx, r) = fx /\ PlayersAfter(pl, r) = {} /\ Fits(fx, r)
      BY <2>2 DEF FxAfter, PlayersAfter, Fits
    <3> QED  BY <2>1, <2>2, <3>1, <3>2, <1>a
  <2>3. CASE r.op # "stopall"
    <3>1. r.op = "disable" \/ r.op = "enable" \/ r.op = "unknown"  BY <2>1, <2>3
    <3>2. r.op # "set" /\ r.op # "start" /\ r.op # "stop" /\ r.op # "free"
            /\ r.op # "stopall"
      BY <3>1
    <3>3. Proxy!HostWants(r) = host  BY <3>2, Zenon DEF Proxy!HostWants
    <3> QED  BY <2>1, <3>1, <3>2, <3>3 DEF FxAfter, PlayersAfter, Fits
  <2> QED  BY <2>2, <2>3
<1>4. CASE r = [op |-> "reset"] /\ host.fx = Proxy!Map0
  <2>1. r.op = "reset" /\ r \in Ops  BY <1>4 DEF Ops
  <2>2. r.op # "set" /\ r.op # "start" /\ r.op # "stop" /\ r.op # "free" /\ r.op # "stopall"
    BY <2>1
  <2>3. Proxy!HostWants(r) = host  BY <2>2, Zenon DEF Proxy!HostWants
  <2> QED  BY <2>1, <2>3, <1>4 DEF FxAfter, PlayersAfter, Fits
<1> QED  BY <1>1, <1>2, <1>3, <1>4 DEF Proxy!Requests

LEMMA AskSteps == ASSUME Proxy!BlockAssumption, ProxyInv,
  Proxy!HostAsks PROVE Numbered' /\ Kept' /\ Follows'
<1>0. /\ proc = "running" /\ proc' = proc /\ asking = Proxy!Quiet
      /\ UNCHANGED <<nextBlock, queue, kinds, params, ids, wheel, missed>>
  BY DEF Proxy!HostAsks, Proxy!Ask, Proxy!proxy, Proxy!sink
<1>1. asking.op = "none" /\ Queued = queue /\ Given = creates
  BY <1>0 DEF Proxy!Quiet, Queued, Given
<1>2. PICK F, L : Replay(queue, F, L)  BY <1>0, <1>1 DEF ProxyInv, Follows
<1>3. DOMAIN host.fx \subseteq Nat  BY DEF ProxyInv, Numbered
<1>4. CASE \E r \in Proxy!Requests : Proxy!Ask(r) /\ host' = Proxy!HostWants(r)
        /\ UNCHANGED creates
  <2>1. PICK r \in Proxy!Requests : Proxy!Ask(r) /\ host' = Proxy!HostWants(r) /\ UNCHANGED creates
    BY <1>4
  <2>2. asking' = r  BY <2>1 DEF Proxy!Ask
  <2>3. /\ host' = [fx |-> FxAfter(host.fx, r), playing |-> PlayersAfter(host.playing, r)]
        /\ Fits(host.fx, r)
        /\ \/ r \in Ops /\ r.op \notin {"none", "create", "unknown"}
           \/ r.op = "unknown" /\ host' = host
    BY <2>1, <1>3, HostWantsIs DEF ProxyInv, Kept
  <2>4. Given' = creates /\ r.op # "create"  BY <2>1, <2>2, <2>3 DEF Given
  <2>5. DOMAIN host'.fx \subseteq DOMAIN host.fx
    BY <2>3, <2>4 DEF FxAfter, Proxy!Without
  <2>6. Numbered'  BY <2>1, <2>4, <2>5, <1>0, <1>1 DEF ProxyInv, Numbered
  <2>7. Kept'  BY <2>2, <2>3, <1>0 DEF ProxyInv, Kept
  <2>8. CASE r \in Ops /\ r.op \notin {"none", "create", "unknown"}
    <3>1. Queued' = Append(queue, r)  BY <2>2, <2>8, <1>0 DEF Queued
    <3>2. \E G, M : Replay(Append(queue, r), G, M)'
      <4>1. PICK s \in Seq(Ops) : s = queue /\ s = queue'  BY <1>0 DEF ProxyInv, Kept
      <4>2. Replay(s, F, L)  BY <4>1, <1>2
      <4>3. \E G, M : Replay(Append(s, r), G, M)'
        BY <4>2, <2>3, <2>8, <1>0, ReplayAppend
      <4> QED  BY <4>1, <4>3
    <3>3. \E G, M : Replay(Queued, G, M)'  BY <3>1, <3>2, <1>0 DEF Replay
    <3> QED  BY <3>3, <2>6, <2>7 DEF Follows
  <2>9. CASE r.op = "unknown" /\ host' = host
    <3>1. Queued' = queue  BY <2>2, <2>9, <1>0 DEF Queued
    <3>2. Replay(Queued, F, L)'
      <4>1. PICK s : s = queue  OBVIOUS
      <4> QED  BY <4>1, <3>1, <1>0, <1>2, <2>9, ReplayKept
    <3> QED  BY <3>2, <2>6, <2>7 DEF Follows
  <2> QED  BY <2>3, <2>8, <2>9
<1>5. CASE /\ creates < MaxCreates /\ creates' = creates + 1
           /\ Proxy!Ask([op |-> "create"]) /\ UNCHANGED host
  <2>1. asking'.op = "create"  BY <1>5 DEF Proxy!Ask
  <2>2. Given' = creates /\ creates' \in 0 .. MaxCreates
    <3>1. creates \in Nat /\ creates' = creates + 1 /\ creates < MaxCreates
      BY <1>5 DEF ProxyInv, Numbered
    <3> QED  BY <2>1, <3>1 DEF Given, Proxy!BlockAssumption
  <2>3. Numbered'  BY <2>2, <1>0, <1>1, <1>5 DEF ProxyInv, Numbered
  <2>4. Kept'  BY <2>1, <1>0, <1>5 DEF ProxyInv, Kept
  <2>5. Queued' = queue  BY <2>1, <1>0 DEF Queued
  <2>6. Replay(Queued, F, L)'
    <3>1. PICK s : s = queue  OBVIOUS
    <3> QED  BY <3>1, <2>5, <1>0, <1>2, <1>5, ReplayKept
  <2> QED  BY <2>3, <2>4, <2>6 DEF Follows
<1> QED  BY <1>4, <1>5 DEF Proxy!HostAsks

LEMMA ServeCreateSteps ==
  ASSUME Proxy!BlockAssumption, ProxyInv,
           Proxy!ServeCreate PROVE Numbered' /\ Kept' /\ Follows'
<1>0. /\ proc = "running" /\ proc' = proc /\ asking.op = "create" /\ asking' = Proxy!Quiet
      /\ queue' = Append(queue, [op |-> "create", block |-> nextBlock])
      /\ nextBlock' = (nextBlock + 1) % Width
      /\ host' = [host EXCEPT !.fx = Proxy!With(@, nextBlock, Proxy!Blank)]
      /\ UNCHANGED <<kinds, params, ids, wheel, missed, creates>>
  BY DEF Proxy!ServeCreate, Proxy!sink, Proxy!Following, Proxy!AssignedBlock,
       Proxy!Answer, Proxy!Acknowledged
<1>1. PICK b : b = nextBlock  OBVIOUS
<1>2. /\ creates \in Nat /\ creates <= MaxCreates /\ Given = creates - 1 /\ Given \in Nat
      /\ Given' = creates
  BY <1>0 DEF ProxyInv, Numbered, Given, Proxy!Quiet, Proxy!BlockAssumption
<1>3. Given + 1 # Width /\ Given + 1 < Width  BY <1>2 DEF Proxy!BlockAssumption
<1>4. b \in 1 .. Given + 1 /\ DOMAIN host.fx \subseteq 1 .. b - 1
  BY <1>1, <1>3 DEF ProxyInv, Numbered
<1>5. b \notin DOMAIN host.fx /\ b \in Nat  BY <1>4, <1>2
<1>6. PICK r : r = [op |-> "create", block |-> b]  OBVIOUS
<1>7. r \in Ops /\ r.op = "create" /\ r.block = b  BY <1>5, <1>6 DEF Ops
<1>8. /\ host'.fx = Proxy!With(host.fx, b, Proxy!Blank) /\ host'.playing = host.playing
      /\ host' = [fx |-> host'.fx, playing |-> host'.playing]
  BY <1>0, <1>1 DEF ProxyInv, Kept
<1>9. DOMAIN host'.fx = DOMAIN host.fx \cup {b}  BY <1>8 DEF Proxy!With
<1>10. Numbered'
  <2>1. CASE b + 1 < Width
    <3>0. b + 1 \in Nat  BY <1>5
    <3>1. nextBlock' = b + 1  BY <2>1, <3>0, <1>0, <1>1 DEF Proxy!BlockAssumption
    <3>2. nextBlock' \in 1 .. Given' + 1  BY <3>1, <1>2, <1>4
    <3>3. DOMAIN host'.fx \subseteq 1 .. nextBlock' - 1  BY <3>1, <1>9, <1>4, <1>2
    <3> QED  BY <3>2, <3>3, <1>0, <1>2 DEF ProxyInv, Numbered
  <2>2. CASE b + 1 = Width
    <3>1. nextBlock' = 0  BY <2>2, <1>0, <1>1, <1>4, <1>2 DEF Proxy!BlockAssumption
    <3>2. Given' + 1 = Width  BY <2>2, <1>2, <1>4, <1>3
    <3>3. DOMAIN host'.fx \subseteq Nat  BY <1>9, <1>4, <1>5, <1>2
    <3> QED  BY <3>1, <3>2, <3>3, <1>0, <1>2 DEF ProxyInv, Numbered
  <2> QED  BY <2>1, <2>2, <1>2, <1>3, <1>4 DEF Proxy!BlockAssumption
<1>11. Kept'
  <2>1. queue \in Seq(Ops)  BY DEF ProxyInv, Kept
  <2>2. queue' = Append(queue, r)  BY <1>0, <1>1, <1>6
  <2>3. queue' \in Seq(Ops)  BY <2>1, <2>2, <1>7, AppendProperties
  <2> QED  BY <2>3, <1>0, <1>8 DEF Kept, Proxy!Quiet
<1>12. Follows'
  <2>1. Queued = queue /\ Queued' = queue'  BY <1>0 DEF Queued, Proxy!Quiet
  <2>2. PICK s \in Seq(Ops) : s = queue  BY DEF ProxyInv, Kept
  <2>3. PICK F, L : Replay(s, F, L)  BY <1>0, <2>1, <2>2 DEF ProxyInv, Follows
  <2>4. Fits(host.fx, r)  BY <1>5, <1>7 DEF Fits
  <2>5. host'.fx = FxAfter(host.fx, r) /\ host'.playing = PlayersAfter(host.playing, r)
    BY <1>7, <1>8 DEF FxAfter, PlayersAfter
  <2>6. \E G, M : Replay(Append(s, r), G, M)'
    BY <2>3, <2>4, <2>5, <1>0, <1>7, ReplayAppend
  <2>7. Queued' = Append(s, r)  BY <2>1, <2>2, <1>0, <1>1, <1>6
  <2>8. \E G, M : Replay(Queued, G, M)'  BY <2>6, <2>7 DEF Replay
  <2> QED  BY <2>8 DEF Follows
<1> QED  BY <1>10, <1>11, <1>12

LEMMA ServeSteps ==
  ASSUME Proxy!BlockAssumption, ProxyInv, Proxy!Serve PROVE Numbered' /\ Kept' /\ Follows'
<1>0. /\ proc = "running" /\ proc' = proc /\ asking # Proxy!Quiet /\ asking.op # "create"
      /\ asking' = Proxy!Quiet
      /\ queue' = IF asking.op = "unknown" THEN queue ELSE Append(queue, asking)
      /\ nextBlock' = IF asking.op = "reset" THEN 1 ELSE nextBlock
      /\ UNCHANGED <<kinds, params, ids, wheel, missed, creates, host>>
  BY DEF Proxy!Serve, Proxy!sink, Proxy!Restarted, Proxy!Answer, Proxy!Acknowledged
<1>1. Given' = Given /\ Given = creates  BY <1>0 DEF Given, Proxy!Quiet
<1>2. PICK F, L : Replay(Queued, F, L)  BY <1>0 DEF ProxyInv, Follows
<1>3. queue \in Seq(Ops)  BY DEF ProxyInv, Kept
<1>4. asking.op = "reset" => host.fx = Proxy!Map0
  <2> SUFFICES ASSUME asking.op = "reset" PROVE host.fx = Proxy!Map0  OBVIOUS
  <2>1. asking \in Ops /\ Queued = Append(queue, asking)  BY <1>0 DEF ProxyInv, Kept, Queued
  <2>2. PICK n \in Nat : n = Len(queue)  BY <1>3, LenProperties
  <2>3. Len(Queued) = n + 1 /\ Queued[n + 1] = asking
    BY <2>1, <2>2, <1>3, AppendProperties
  <2>4. n + 1 \in 1 .. Len(Queued)  BY <2>3
  <2>5. Fits(F[(n + 1) - 1], asking) /\ F[n + 1] = FxAfter(F[(n + 1) - 1], asking)
    BY <2>3, <2>4, <1>2 DEF Replay
  <2>6. F[n + 1] = Proxy!Map0  BY <2>5 DEF Fits, FxAfter
  <2> QED  BY <2>3, <2>6, <1>2 DEF Replay
<1>5. Numbered'
  <2>1. CASE asking.op = "reset"
    <3>1. nextBlock' = 1 /\ DOMAIN host'.fx = {}  BY <2>1, <1>0, <1>4 DEF Proxy!Map0
    <3>2. Given' \in Nat /\ creates' \in 0 .. MaxCreates
      BY <1>0, <1>1 DEF ProxyInv, Numbered
    <3>3. \A n \in Nat : 1 \in 1 .. n + 1  OBVIOUS
    <3>4. nextBlock' \in 1 .. Given' + 1  BY <3>1, <3>2, <3>3
    <3>5. DOMAIN host'.fx \subseteq 1 .. nextBlock' - 1  BY <3>1
    <3> QED  BY <3>2, <3>4, <3>5 DEF Numbered
  <2>2. CASE asking.op # "reset"  BY <2>2, <1>0, <1>1 DEF ProxyInv, Numbered
  <2> QED  BY <2>1, <2>2
<1>6. Kept'
  <2>1. queue' \in Seq(Ops)
    <3>1. CASE asking.op = "unknown"  BY <3>1, <1>0, <1>3
    <3>2. CASE asking \in Ops /\ asking.op # "unknown"
      BY <3>2, <1>0, <1>3, AppendProperties
    <3> QED  BY <3>1, <3>2, <1>0 DEF ProxyInv, Kept
  <2> QED  BY <2>1, <1>0 DEF ProxyInv, Kept, Proxy!Quiet
<1>7. Follows'
  <2>1. Queued' = Queued
    <3>1. asking.op # "none"  BY <1>0 DEF ProxyInv, Kept, Ops
    <3> QED  BY <3>1, <1>0 DEF Queued, Proxy!Quiet
  <2>2. PICK s : s = Queued  OBVIOUS
  <2>3. Replay(s, F, L) /\ s = Queued'  BY <2>1, <2>2, <1>2
  <2>4. Replay(Queued, F, L)'  BY <2>3, <1>0, ReplayKept
  <2> QED  BY <2>4 DEF Follows
<1> QED  BY <1>5, <1>6, <1>7

LEMMA ApplySteps ==
  ASSUME Proxy!BlockAssumption, ProxyInv, Proxy!Apply PROVE Numbered' /\ Kept' /\ Follows'
<1>0. /\ proc \in {"running", "draining"} /\ queue # <<>> /\ queue' = Tail(queue)
      /\ UNCHANGED <<proc, nextBlock, asking, host, creates>>
  BY DEF Proxy!Apply, Proxy!hostv
<1>1. queue \in Seq(Ops)  BY DEF ProxyInv, Kept
<1>2. Numbered'  BY <1>0 DEF ProxyInv, Numbered, Given
<1>3. Kept'
  <2>1. queue' \in Seq(Ops)  BY <1>0, <1>1, HeadTailProperties
  <2> QED  BY <2>1, <1>0 DEF ProxyInv, Kept
<1>4. Follows'
  <2>1. PICK s : s = Queued  OBVIOUS
  <2>2. PICK r : r = Head(queue)  OBVIOUS
  <2>3. s \in Seq(Ops) /\ s # <<>> /\ Head(s) = r /\ Queued' = Tail(s)
    <3>1. CASE asking.op \in {"none", "create", "unknown"}
      BY <3>1, <2>1, <2>2, <1>0, <1>1 DEF Queued
    <3>2. CASE asking.op \notin {"none", "create", "unknown"}
      <4>1. asking \in Ops  BY <3>2 DEF ProxyInv, Kept, Proxy!Quiet
      <4>2. s = Append(queue, asking) /\ Queued' = Append(Tail(queue), asking)
        BY <3>2, <2>1, <1>0 DEF Queued
      <4> QED  BY <4>1, <4>2, <2>2, <1>0, <1>1
    <3> QED  BY <3>1, <3>2
  <2>4. PICK F, L : Replay(s, F, L)  BY <2>1, <1>0 DEF ProxyInv, Follows
  <2>5. Fits(params, r) /\ Agrees(L[0])
    <3>1. 1 \in 1 .. Len(s) /\ s[1] = r /\ 1 - 1 = 0  BY <2>3, LenProperties, EmptySeq
    <3>2. Fits(F[1 - 1], s[1]) /\ F[0] = params /\ Agrees(L[0])  BY <3>1, <2>4 DEF Replay
    <3> QED  BY <3>1, <3>2
  <2>6. params' = FxAfter(params, r) /\ Agrees(PlayersAfter(L[0], r))'
    <3>1. PICK pl : pl = L[0]  OBVIOUS
    <3>2. params' = FxAfter(params, r) /\ Agrees(PlayersAfter(pl, r))'
      BY <3>1, <2>2, <2>5, ApplyAgrees DEF ProxyInv
    <3> QED  BY <3>1, <3>2
  <2>7. \E G, M : Replay(Tail(s), G, M)'
    BY <2>3, <2>4, <2>6, <1>0, ReplayTail
  <2>8. \E G, M : Replay(Queued, G, M)'  BY <2>3, <2>7 DEF Replay
  <2> QED  BY <2>8 DEF Follows
<1> QED  BY <1>2, <1>3, <1>4

LEMMA ProxySteps ==
  ASSUME Proxy!BlockAssumption PROVE ProxyInv /\ [Proxy!Next]_(Proxy!vars) => ProxyInv'
<1> SUFFICES ASSUME ProxyInv, [Proxy!Next]_(Proxy!vars) PROVE ProxyInv'  OBVIOUS
<1>1. SinkHolds' /\ Proxy!WheelHandedBack'  BY ProxyHolds DEF ProxyInv
<1> SUFFICES Numbered' /\ Kept' /\ Follows'  BY <1>1 DEF ProxyInv
<1>2. ASSUME UNCHANGED <<queue, nextBlock, kinds, params, ids, wheel, missed, asking, host,
                         creates>>,
             proc' = "gone" <=> proc = "gone", proc' = "start" => proc = "start"
      PROVE  Numbered' /\ Kept' /\ Follows'
  <2>1. Numbered'  BY <1>2 DEF ProxyInv, Numbered, Given
  <2>2. Kept'  BY <1>2 DEF ProxyInv, Kept
  <2>3. CASE proc' = "gone"  BY <2>1, <2>2, <2>3 DEF Follows
  <2>4. CASE proc' # "gone"
    <3>1. PICK s : s = Queued /\ s = Queued'  BY <1>2 DEF Queued
    <3>2. PICK F, L : Replay(s, F, L)  BY <3>1, <2>4, <1>2 DEF ProxyInv, Follows
    <3>3. Replay(Queued, F, L)'  BY <3>1, <3>2, <1>2, ReplayKept
    <3> QED  BY <3>3, <2>1, <2>2 DEF Follows
  <2> QED  BY <2>3, <2>4
<1>3. CASE Proxy!Launch  BY <1>2, <1>3 DEF Proxy!Launch, Proxy!proxy, Proxy!hostv
<1>4. CASE Proxy!StopLoop \/ Proxy!WheelMoves \/ Proxy!ReadSource
  BY <1>2, <1>4 DEF Proxy!StopLoop, Proxy!WheelMoves, Proxy!ReadSource, Proxy!proxy,
       Proxy!hostv, Proxy!sink
<1>5. CASE UNCHANGED Proxy!vars  BY <1>2, <1>5 DEF Proxy!vars
<1>6. CASE Proxy!Shutdown
  <2>1. /\ proc' = "gone" /\ queue = <<>> /\ UNCHANGED <<queue, nextBlock, host, creates>>
        /\ asking' = Proxy!Quiet /\ kinds' = {} /\ params' = Proxy!Map0 /\ ids' = Proxy!Map0
    BY <1>6 DEF Proxy!Shutdown, Proxy!Emptied, Proxy!proxy
  <2>2. Kept'  BY <2>1 DEF ProxyInv, Kept
  <2>3. Numbered'
    <3>1. Given' = creates /\ creates \in Nat /\ creates <= MaxCreates
      BY <2>1 DEF Given, Proxy!Quiet, ProxyInv, Numbered, Proxy!BlockAssumption
    <3>2. CASE asking.op = "create"
      <4>1. Given = creates - 1 /\ Given \in Nat  BY <3>2 DEF Given, ProxyInv, Numbered
      <4>2. Given + 1 # Width  BY <4>1, <3>1 DEF Proxy!BlockAssumption
      <4>3. nextBlock \in 1 .. Given + 1 /\ DOMAIN host.fx \subseteq 1 .. nextBlock - 1
        BY <4>2 DEF ProxyInv, Numbered
      <4>4. nextBlock' \in 1 .. Given' + 1  BY <4>1, <4>3, <3>1, <2>1
      <4> QED  BY <4>3, <4>4, <3>1, <2>1 DEF Numbered
    <3>3. CASE asking.op # "create"
      <4>1. Given = creates  BY <3>3 DEF Given
      <4> QED  BY <4>1, <3>1, <2>1 DEF ProxyInv, Numbered
    <3> QED  BY <3>2, <3>3
  <2> QED  BY <2>1, <2>2, <2>3 DEF Follows
<1>7. CASE Proxy!Relaunch
  <2>1. /\ proc = "gone" /\ proc' = "start" /\ nextBlock' = 1 % Width
        /\ host' = [fx |-> Proxy!Map0, playing |-> {}]
        /\ UNCHANGED <<queue, kinds, params, ids, asking, creates>>
    BY <1>7 DEF Proxy!Relaunch, Proxy!sink
  <2>2. queue = <<>> /\ asking = Proxy!Quiet /\ kinds = {} /\ params = Proxy!Map0
          /\ ids = Proxy!Map0
    BY <2>1 DEF ProxyInv, Kept
  <2>3. Kept'  BY <2>1, <2>2 DEF Kept
  <2>4. Numbered'
    <3>1. Given' = creates /\ Given' \in Nat /\ creates' \in 0 .. MaxCreates
            /\ creates' = creates
      BY <2>1, <2>2 DEF Given, Proxy!Quiet, ProxyInv, Numbered
    <3>2. DOMAIN host'.fx = {}  BY <2>1 DEF Proxy!Map0
    <3>3. CASE Width = 1
      <4>1. nextBlock' = 0 /\ Given' + 1 = Width
        BY <3>1, <3>3, <2>1 DEF Proxy!BlockAssumption
      <4> QED  BY <3>1, <3>2, <4>1 DEF Numbered
    <3>4. CASE Width > 1
      <4>1. nextBlock' = 1  BY <2>1, <3>4 DEF Proxy!BlockAssumption
      <4>2. nextBlock' \in 1 .. Given' + 1 /\ DOMAIN host'.fx \subseteq 1 .. nextBlock' - 1
        BY <4>1, <3>1, <3>2
      <4> QED  BY <3>1, <4>2 DEF Numbered
    <3> QED  BY <3>3, <3>4 DEF Proxy!BlockAssumption
  <2>5. Follows'
    <3>1. Queued' = <<>> /\ Len(Queued') = 0 /\ host'.fx = Proxy!Map0 /\ host'.playing = {}
      BY <2>1, <2>2 DEF Queued, Proxy!Quiet
    <3>2. Agrees({})'  BY <2>1, <2>2 DEF Agrees, Proxy!Map0
    <3>3. PICK F : F = [i \in {0} |-> Proxy!Map0]  OBVIOUS
    <3>4. PICK L : L = [i \in {0} |-> {}]  OBVIOUS
    <3>5. F[0] = Proxy!Map0 /\ L[0] = {}  BY <3>3, <3>4
    <3>6. Replay(Queued, F, L)'  BY <3>1, <3>2, <3>5, <2>1, <2>2 DEF Replay
    <3> QED  BY <3>6 DEF Follows
  <2> QED  BY <2>3, <2>4, <2>5
<1> QED
  BY <1>3, <1>4, <1>5, <1>6, <1>7, AskSteps, ServeCreateSteps, ServeSteps, ApplySteps
     DEF Proxy!Next

LEMMA ProxySound == ProxyInv => Proxy!WheelFollowsHost /\ Proxy!WheelHandedBack
<1> SUFFICES ASSUME ProxyInv PROVE Proxy!WheelFollowsHost  BY DEF ProxyInv
<1> SUFFICES ASSUME Proxy!Settled
             PROVE  /\ \A b \in DOMAIN host.fx :
                         /\ b \in kinds
                         /\ b \in DOMAIN ids /\ <<b, "fields">> \notin missed =>
                              wheel.loaded[ids[b]] = host.fx[b]
                         /\ b \in DOMAIN ids /\ <<b, "play">> \notin missed =>
                              (ids[b] \in wheel.playing <=> b \in host.playing)
                    /\ DOMAIN wheel.loaded = Proxy!Known
                         /\ DOMAIN ids \subseteq DOMAIN host.fx
  BY DEF Proxy!WheelFollowsHost
<1>1. Queued = <<>> /\ Len(Queued) = 0 /\ proc # "gone"
  BY DEF Proxy!Settled, Queued, Proxy!Quiet
<1>2. PICK F, L : Replay(Queued, F, L)  BY <1>1 DEF ProxyInv, Follows
<1>3. params = host.fx /\ Agrees(host.playing)  BY <1>1, <1>2 DEF Replay
<1> QED  BY <1>3 DEF Agrees, ProxyInv, SinkHolds

(***************************************************************************)
(* The Setup page.                                                         *)
(***************************************************************************)
\* A set of natural numbers has a least one.
LEMMA LeastOf ==
  ASSUME NEW S, S \subseteq Nat, S # {}
  PROVE  \E m \in S : \A k \in S : m <= k
<1>1. PICK m \in S : \A k \in S : ~(<<k, m>> \in OpToRel(<, Nat))
  BY NatLessThanWellFounded, WFMin
<1>2. \A k \in S : ~(k < m)
  BY <1>1 DEF OpToRel
<1> QED
  BY <1>2

\* hidraw_scope_for names the id of a wheel of the class it is asked for.
LEMMA ScopeNamesClass ==
  ASSUME NEW r, DOMAIN r \subseteq Nat, NEW c, Setup!Nameable(r, c) # {}
  PROVE  \E i \in DOMAIN r : /\ Setup!WheelCaps(r[i]) = c
                             /\ r[i].pid \in Setup!ListedPids
                             /\ Setup!HidrawScopeFor(r, c) = r[i].pid
<1> DEFINE named == Setup!Nameable(r, c)
<1>1. \E i \in named : \A j \in named : i <= j
  BY LeastOf DEF Setup!Nameable
<1>2. PICK i \in named : Setup!HidrawScopeFor(r, c) = r[i].pid
  BY <1>1 DEF Setup!HidrawScopeFor
<1> QED
  BY <1>2 DEF Setup!Nameable

\* Raw HID comes with the shim, and the shim only to a wheel that follows the
\* SDK stream and where the kind of wheel is not in doubt.
LEMMA HidrawOnlyForSdk ==
  ASSUME NEW g, NEW c, NEW a \in BOOLEAN, Setup!ForGame(g, c, a).hidraw
  PROVE  c.sdk /\ ~a
  BY DEF Setup!ForGame, Setup!LaunchOptions, Setup!SetupAction, Setup!NativePlan,
     Setup!SimulatedPlan, Setup!NoPlan, Setup!LightsOnly

LEMMA DriverPlans ==
  ASSUME NEW g \in Setup!Games, NEW c, NEW a \in BOOLEAN
  PROVE  LET p == Setup!ForGame(g, c, a)
         IN (p.merge => p.hidraw /\ ~p.tfsim) /\ (p.relay # "none" => p.tfsim)
  BY DEF Setup!ForGame, Setup!NativePlan, Setup!SimulatedPlan, Setup!NoPlan,
     Setup!LightsOnly, Setup!HasRelayDecoder

LEMMA OneDriverAlways == \A r : Setup!OneDriver(r)
<1> SUFFICES ASSUME NEW r, NEW g \in Setup!Games, NEW arg \in Setup!WheelArgs
             PROVE  LET p == Setup!Printed(r, g, arg).plan
                    IN (p.merge => p.hidraw /\ ~p.tfsim) /\ (p.relay # "none" => p.tfsim)
  BY DEF Setup!OneDriver
<1>1. CASE r = << >> /\ arg = "none"
  <2>1. Setup!Printed(r, g, arg).plan = Setup!NoPlan
    BY <1>1 DEF Setup!Printed
  <2> QED
    BY <2>1 DEF Setup!NoPlan
<1>2. CASE ~(r = << >> /\ arg = "none")
  <2> DEFINE c == Setup!PlanCaps(r, arg)
             a == Setup!Ambiguous(r, arg)
  <2>1. Setup!Printed(r, g, arg).plan = Setup!ForGame(g, c, a)
    BY <1>2 DEF Setup!Printed
  <2>2. a \in BOOLEAN
    BY DEF Setup!Ambiguous
  <2> HIDE DEF c, a
  <2> QED
    BY <2>1, <2>2, DriverPlans
<1> QED
  BY <1>1, <1>2

\* games.rs: for every rig, whatever was named.  Where nothing was named the
\* wheels are all of one kind; where a kind was, its id names no other.
LEMMA SparesClassicAlways ==
  ASSUME Setup!WheelAssumption, NEW r \in Seq(Attachable)
  PROVE  Setup!SparesClassic(r)
<1> SUFFICES ASSUME NEW g \in Setup!Games, NEW arg \in Setup!WheelArgs,
                    arg = "none" \/ Setup!Nameable(r, Setup!Forced(arg)) # {},
                    NEW w \in Setup!HandedOver(r, Setup!Printed(r, g, arg))
             PROVE  Setup!WheelCaps(w).sdk
  BY DEF Setup!SparesClassic
<1> DEFINE c == Setup!PlanCaps(r, arg)
           a == Setup!Ambiguous(r, arg)
           p == Setup!Printed(r, g, arg)
<1>1. p.plan.hidraw
  BY DEF Setup!HandedOver
<1>2. PICK j \in DOMAIN r : w = r[j] /\ p.scope \in {"1", r[j].pid}
  BY DEF Setup!HandedOver
<1>3. ~(r = << >> /\ arg = "none")
  BY <1>2, EmptySeq
<1>4. p.plan = Setup!ForGame(g, c, a) /\ p.scope = Setup!HidrawScopeFor(r, c)
  BY <1>3 DEF Setup!Printed
<1>5. a \in BOOLEAN
  BY DEF Setup!Ambiguous
<1> HIDE DEF p
<1>6. c.sdk /\ ~a
  <2> HIDE DEF c, a
  <2> QED
    BY <1>1, <1>4, <1>5, HidrawOnlyForSdk
<1>7. DOMAIN r = 1..Len(r) /\ Len(r) \in Nat /\ \A i \in DOMAIN r : r[i] \in Attachable
  BY LenProperties, ElementOfSeq
<1>8. CASE arg = "none"
  <2>1. 1 \in DOMAIN r /\ c = Setup!WheelCaps(r[1])
    BY <1>2, <1>7, <1>8 DEF Setup!PlanCaps
  <2>2. c \in Setup!Kinds(r) /\ Setup!WheelCaps(w) \in Setup!Kinds(r)
    BY <1>2, <2>1 DEF Setup!Kinds
  <2>3. Setup!WheelCaps(w) = c
    BY <1>6, <1>8, <2>2 DEF Setup!Ambiguous
  <2> QED
    BY <1>6, <2>3
<1>9. CASE arg # "none"
  <2>1. Setup!Nameable(r, c) # {}
    BY <1>9 DEF Setup!PlanCaps
  <2> HIDE DEF c
  <2>2. PICK i \in DOMAIN r : /\ Setup!WheelCaps(r[i]) = c
                             /\ r[i].pid \in Setup!ListedPids
                             /\ p.scope = r[i].pid
    BY <1>4, <1>7, <2>1, ScopeNamesClass
  <2>3. r[i].pid = r[j].pid
    BY <1>2, <2>2 DEF Setup!ListedPids
  <2>4. Setup!WheelCaps(r[j]) = c
    BY <1>7, <2>2, <2>3 DEF Setup!WheelAssumption
  <2> QED
    BY <1>2, <1>6, <2>4
<1> QED
  BY <1>8, <1>9

\* The rigs of the model are the sequences of at most two wheels.
Rigs == UNION {[1..n -> Attachable] : n \in 0..2}

LEMMA RigIsSeq == \A r : r \in Rigs <=> r \in Seq(Attachable) /\ Len(r) <= 2
<1>1. ASSUME NEW r \in Rigs PROVE r \in Seq(Attachable) /\ Len(r) <= 2
  <2>1. PICK n \in 0..2 : r \in [1..n -> Attachable]
    BY DEF Rigs
  <2>2. r \in Seq(Attachable) /\ Len(r) = n
    BY <2>1, SeqDef, LenProperties
  <2> QED
    BY <2>2
<1>2. ASSUME NEW r \in Seq(Attachable), Len(r) <= 2 PROVE r \in Rigs
  <2>1. Len(r) \in Nat /\ r \in [1..Len(r) -> Attachable]
    BY LenProperties
  <2>2. Len(r) \in 0..2
    BY <1>2, <2>1
  <2> QED
    BY <2>1, <2>2 DEF Rigs
<1> QED
  BY <1>1, <1>2

\* Every wheel is of one of the three kinds.
LEMMA KindsKnown ==
  \A r : Setup!Kinds(r) \subseteq {Setup!DirectDrive, Setup!XboxSdk, Setup!ClassicCaps}
  BY DEF Setup!Kinds, Setup!WheelCaps, Setup!ForWheel

Scans == [at : {"idle", "start", "found", "loaded"}, shim : SUBSET Prefixes,
          sim : BOOLEAN, rev : {"bar", "shift"}]

\* A scan that is idle, and one that was just started.
LEMMA NewScan == Setup!Idle \in Scans /\ [Setup!Idle EXCEPT !.at = "start"] \in Scans
  BY DEF Setup!Idle, Scans

\* What the installer and the scans name are prefixes of discovered games.
SetupNames ==
  /\ cmd = Setup!NoCommand \/ cmd.prefix \in Prefixes
  /\ scans \in [Threads -> Scans]

SetupInv == Setup!TypeOK /\ SetupNames /\ Setup!PageOfManagedWheel

LEMMA SetupStarts == Setup!Init => SetupInv
<1> SUFFICES ASSUME Setup!Init PROVE SetupInv
  OBVIOUS
<1>1. Setup!PageOfManagedWheel
  BY DEF Setup!Init, Setup!PageOfManagedWheel, Setup!Empty
<1>2. SetupNames
  <2>1. PICK t \in Threads : scans = [u \in Threads |->
          IF u = t THEN [Setup!Idle EXCEPT !.at = "start"] ELSE Setup!Idle]
    BY DEF Setup!Init
  <2>2. scans \in [Threads -> Scans]
    BY <2>1, NewScan
  <2> QED
    BY <2>2 DEF Setup!Init, SetupNames
<1>3. \A t \in Threads : scans[t].at \in {"idle", "start", "found", "loaded"}
  BY <1>2 DEF SetupNames, Scans
<1>4. Setup!TypeOK
  BY <1>3 DEF Setup!Init, Setup!TypeOK, Setup!Assumed
<1> QED
  BY <1>1, <1>2, <1>4 DEF SetupInv

\* Unplugging takes one wheel out, plugging puts one at either end.
LEMMA RigReplugged ==
  ASSUME rig \in Rigs, Setup!Replug
  PROVE  rig' \in Rigs
<1>1. rig \in Seq(Attachable) /\ Len(rig) <= 2 /\ Len(rig) \in Nat
      /\ DOMAIN rig = 1..Len(rig)
  BY RigIsSeq, LenProperties
<1>2. ASSUME NEW i \in DOMAIN rig,
             rig' = SubSeq(rig, 1, i - 1) \o SubSeq(rig, i + 1, Len(rig))
      PROVE  rig' \in Rigs
  <2>1. i \in 1..Len(rig)
    BY <1>1
  <2>2. /\ SubSeq(rig, 1, i - 1) \in Seq(Attachable)
        /\ Len(SubSeq(rig, 1, i - 1)) = i - 1
    BY <1>1, <2>1, SubSeqProperties
  <2>3. /\ SubSeq(rig, i + 1, Len(rig)) \in Seq(Attachable)
        /\ Len(SubSeq(rig, i + 1, Len(rig))) = Len(rig) - i
    BY <1>1, <2>1, SubSeqProperties
  <2>4. rig' \in Seq(Attachable) /\ Len(rig') = (i - 1) + (Len(rig) - i)
    BY <1>2, <2>2, <2>3, ConcatProperties
  <2> QED
    BY <1>1, <2>1, <2>4, RigIsSeq
<1>3. ASSUME NEW w \in Attachable, Len(rig) < 2, rig' \in {<<w>> \o rig, rig \o <<w>>}
      PROVE  rig' \in Rigs
  <2>1. <<w>> \in Seq(Attachable) /\ Len(<<w>>) = 1
    OBVIOUS
  <2>2. rig' \in Seq(Attachable) /\ Len(rig') = Len(rig) + 1
    BY <1>1, <1>3, <2>1, ConcatProperties
  <2> QED
    BY <1>1, <1>3, <2>2, RigIsSeq
<1> QED
  BY <1>2, <1>3 DEF Setup!Replug

LEMMA SetupSteps == SetupInv /\ [Setup!Next]_(Setup!vars) => SetupInv'
<1> SUFFICES ASSUME SetupInv, [Setup!Next]_(Setup!vars)
             PROVE  SetupInv'
  OBVIOUS
<1>a. ASSUME UNCHANGED <<rig, caps, shim, sim, rev, relay, cache, scans, cmd, running>>,
             rows'.caps = rows.caps
      PROVE  SetupInv'
  BY <1>a DEF SetupInv, Setup!TypeOK, SetupNames, Setup!PageOfManagedWheel
<1>b. ASSUME Setup!RefreshGames PROVE rows'.caps = caps'
  BY <1>b DEF Setup!RefreshGames, Setup!SetupGames
<1>1. ASSUME NEW t \in Threads,
             Setup!Discover(t) \/ Setup!LoadAndStore(t) \/ Setup!Post(t)
               \/ Setup!InstallerEnds(t) \/ Setup!RescanGames(t)
      PROVE  SetupInv'
  <2>1. SetupNames'
    <3>1. scans \in [Threads -> Scans] /\ scans[t] \in Scans
      BY DEF SetupInv, SetupNames
    <3>2. CASE Setup!Discover(t)
      <4>1. shim \in SUBSET Prefixes
        BY DEF SetupInv, Setup!TypeOK
      <4>2. scans' \in [Threads -> Scans]
        BY <3>1, <3>2, <4>1 DEF Setup!Discover, Scans
      <4> QED
        BY <3>2, <4>2 DEF SetupInv, SetupNames, Setup!Discover
    <3>3. CASE Setup!LoadAndStore(t)
      <4>1. sim \in BOOLEAN
        BY DEF SetupInv, Setup!TypeOK
      <4>2. scans' \in [Threads -> Scans]
        BY <3>1, <3>3, <4>1 DEF Setup!LoadAndStore, Scans
      <4> QED
        BY <3>3, <4>2 DEF SetupInv, SetupNames, Setup!LoadAndStore
    <3>4. CASE Setup!Post(t)
      BY <3>1, <3>4, NewScan DEF SetupInv, SetupNames, Setup!Post
    <3>5. CASE Setup!InstallerEnds(t)
      BY <3>1, <3>5, NewScan DEF SetupNames, Setup!InstallerEnds, Setup!Spawned
    <3>6. CASE Setup!RescanGames(t)
      BY <3>1, <3>6, NewScan DEF SetupInv, SetupNames, Setup!RescanGames, Setup!Spawned
    <3> QED
      BY <1>1, <3>2, <3>3, <3>4, <3>5, <3>6
  <2>2. cache' \subseteq Prefixes /\ shim' \subseteq Prefixes
    BY <1>1 DEF SetupInv, Setup!TypeOK, SetupNames, Scans, Setup!Discover,
       Setup!LoadAndStore, Setup!Post, Setup!InstallerEnds, Setup!RescanGames
  <2>3. UNCHANGED <<rig, caps, sim, rev, relay, rows, running>>
    BY <1>1 DEF Setup!Discover, Setup!LoadAndStore, Setup!Post,
       Setup!InstallerEnds, Setup!RescanGames
  <2>4. \A u \in Threads : scans'[u].at \in {"idle", "start", "found", "loaded"}
    BY <2>1 DEF SetupNames, Scans
  <2> QED
    BY <2>1, <2>2, <2>3, <2>4 DEF SetupInv, Setup!TypeOK, Setup!PageOfManagedWheel
<1>2. CASE Setup!RunPost
  <2>1. UNCHANGED <<rig, caps, shim, sim, rev, relay, cache, scans, cmd>>
    BY <1>2 DEF Setup!RunPost
  <2>2. running' = running \/ running' = FALSE
    BY <1>2 DEF Setup!RunPost
  <2>3. rows'.caps = caps \/ UNCHANGED rows
    BY <1>2 DEF Setup!RunPost, Setup!SetupGames
  <2> QED
    BY <2>1, <2>2, <2>3 DEF SetupInv, Setup!TypeOK, SetupNames, Setup!PageOfManagedWheel
<1>3. ASSUME NEW op \in {"install", "remove"}, NEW p \in Prefixes,
             Setup!RunShimCommand(op, p)
      PROVE  SetupInv'
  BY <1>3 DEF Setup!RunShimCommand, SetupInv, Setup!TypeOK, SetupNames,
     Setup!PageOfManagedWheel
<1>4. CASE Setup!SimGameEnabled \/ Setup!InstallRelay
            \/ \E style \in {"bar", "shift"} : Setup!SetRevLeds(style)
  <2>1. UNCHANGED <<rig, caps, shim, cache, scans, cmd, running>>
        /\ rows'.caps = caps'
    BY <1>4, <1>b DEF Setup!SimGameEnabled, Setup!InstallRelay, Setup!SetRevLeds
  <2>2. sim' \in BOOLEAN /\ rev' \in {"bar", "shift"} /\ relay' \in BOOLEAN
    BY <1>4 DEF Setup!SimGameEnabled, Setup!InstallRelay, Setup!SetRevLeds,
       SetupInv, Setup!TypeOK
  <2> QED
    BY <2>1, <2>2 DEF SetupInv, Setup!TypeOK, SetupNames, Setup!PageOfManagedWheel
<1>5. CASE Setup!Announced
  <2>1. UNCHANGED <<rig, shim, sim, rev, relay, cache, scans, cmd, running>>
    BY <1>5 DEF Setup!Announced
  <2>2. caps' \in {Setup!DirectDrive, Setup!XboxSdk, Setup!ClassicCaps}
    BY <1>5, KindsKnown DEF Setup!Announced, Setup!Assumed
  <2>3. rows'.caps = caps'
    BY <1>5, <1>b DEF Setup!Announced, Setup!Rebuilt, SetupInv,
       Setup!PageOfManagedWheel
  <2> QED
    BY <2>1, <2>2, <2>3 DEF SetupInv, Setup!TypeOK, SetupNames,
       Setup!PageOfManagedWheel
<1>6. CASE Setup!Replug
  <2>1. rig' \in Rigs
    BY <1>6, RigReplugged DEF SetupInv, Setup!TypeOK, Rigs
  <2>2. UNCHANGED <<caps, shim, sim, rev, relay, cache, scans, rows, cmd, running>>
    BY <1>6 DEF Setup!Replug
  <2> QED
    BY <2>1, <2>2 DEF Rigs, SetupInv, Setup!TypeOK, SetupNames,
       Setup!PageOfManagedWheel
<1>7. CASE UNCHANGED Setup!vars
  BY <1>7, <1>a DEF Setup!vars
<1> QED
  BY <1>1, <1>2, <1>3, <1>4, <1>5, <1>6, <1>7 DEF Setup!Next

LEMMA SetupSound ==
  ASSUME Setup!WheelAssumption, SetupInv
  PROVE  Setup!SetupOfManagedWheel
<1> SUFFICES Setup!RawHidSparesClassic /\ Setup!OneLightDriver
  BY DEF SetupInv, Setup!SetupOfManagedWheel
<1>1. rig \in Seq(Attachable)
  BY RigIsSeq DEF SetupInv, Setup!TypeOK, Rigs
<1> QED
  BY <1>1, SparesClassicAlways, OneDriverAlways
  DEF Setup!RawHidSparesClassic, Setup!OneLightDriver

\* main.rs refresh_games, bridge.rs setup_games and games.rs, for any wheels,
\* games and number of scans under way: the rows describe the wheel being
\* managed, raw HID never takes a wheel that cannot be driven through it, and
\* one program drives the lights and the texture.
THEOREM SetupDescribesWheel ==
  ASSUME Setup!WheelAssumption
  PROVE  Setup!Spec => []Setup!SetupOfManagedWheel
<1>1. SetupInv => Setup!SetupOfManagedWheel
  BY SetupSound
<1> QED
  BY <1>1, SetupStarts, SetupSteps, PTL DEF Setup!Spec

(***************************************************************************)
(* The processes the front ends start.                                     *)
(***************************************************************************)
\* A closure queued on the UI thread.
Post == [running : BOOLEAN, end : BOOLEAN]

\* The posts that carry the end of a run.
Ends == {i \in DOMAIN posts : posts[i].end}

SweepTypes ==
  /\ flag \in BOOLEAN /\ posts \in Seq(Post)
  /\ thread \in [at : {"none", "spawn", "wait", "ended"}, pid : Pids \cup {0}]
  /\ procs \in [Pids -> {"unused", "daemon", "sweep", "gone"}]

\* A run of the sweep is in one place until its end has been applied: with the
\* thread, or in one post once the thread is gone.  The flag is up meanwhile,
\* and the pid is parked only while the thread has its child.
RunInOnePlace ==
  /\ thread.at = "none" => thread = Sim!NoThread
  /\ thread # Sim!NoThread => flag /\ Ends = {}
  /\ Ends # {} => flag
  /\ \A i, j \in Ends : i = j
  /\ cell # 0 => thread.at \in {"wait", "ended"}

\* Every sweep that plays is waited for: by the window's thread, or by the
\* terminal that started it.
SweepsWaitedFor ==
  \A p \in Pids : procs[p] = "sweep" =>
    p = child \/ (thread.at = "wait" /\ p = thread.pid)

SweepInv == SweepTypes /\ RunInOnePlace /\ SweepsWaitedFor

\* The queue of closures.
LEMMA PostsAppend ==
  ASSUME posts \in Seq(Post), NEW e \in Post, posts' = Append(posts, e)
  PROVE  /\ posts' \in Seq(Post)
         /\ ~e.end => Ends' = Ends
         /\ e.end => Ends' = Ends \cup {Len(posts) + 1}
<1> DEFINE n == Len(posts)
<1>1. n \in Nat /\ DOMAIN posts = 1..n  BY LenProperties
<1>2. posts' \in Seq(Post)  BY AppendProperties
<1>3. DOMAIN posts' = 1..(n + 1)  BY <1>2, AppendProperties, LenProperties
<1>4. posts'[n + 1] = e /\ \A i \in 1..n : posts'[i] = posts[i]  BY AppendProperties
<1>5. 1..(n + 1) = 1..n \cup {n + 1}  BY <1>1
<1> HIDE DEF n
<1>6. ~e.end => Ends' = Ends  BY <1>1, <1>3, <1>4, <1>5 DEF Ends
<1>7. e.end => Ends' = Ends \cup {n + 1}  BY <1>1, <1>3, <1>4, <1>5 DEF Ends
<1> QED  BY <1>2, <1>6, <1>7 DEF n

LEMMA PostsTail ==
  ASSUME posts \in Seq(Post), posts # << >>, posts' = Tail(posts)
  PROVE  /\ posts' \in Seq(Post) /\ 1 \in DOMAIN posts /\ Head(posts) = posts[1]
         /\ \A i \in Ends' : i + 1 \in Ends /\ i \in Nat \ {0}
<1>1. Len(posts) \in Nat \ {0} /\ DOMAIN posts = 1..Len(posts)
  BY EmptySeq, LenProperties
<1>2. /\ posts' \in Seq(Post) /\ Len(posts') = Len(posts) - 1
      /\ \A i \in 1..Len(posts') : posts'[i] = posts[i + 1]
  BY HeadTailProperties
<1>3. DOMAIN posts' = 1..(Len(posts) - 1)  BY <1>2, LenProperties
<1>4. ASSUME NEW i \in Ends' PROVE i + 1 \in Ends /\ i \in Nat \ {0}
  <2>1. i \in 1..(Len(posts) - 1) /\ posts'[i].end  BY <1>3 DEF Ends
  <2>2. posts[i + 1].end /\ i + 1 \in 1..Len(posts)  BY <1>1, <1>2, <2>1
  <2> QED  BY <1>1, <2>1, <2>2 DEF Ends
<1> QED  BY <1>1, <1>2, <1>4

LEMMA SweepInit == Sim!PidAssumption /\ Sim!Init => SweepInv
<1> SUFFICES ASSUME Sim!PidAssumption, Sim!Init PROVE SweepInv  OBVIOUS
<1>1. posts \in Seq(Post) /\ Ends = {}  BY DEF Sim!Init, Ends
<1>2. SweepTypes  BY <1>1 DEF Sim!Init, SweepTypes, Sim!NoThread
<1>3. RunInOnePlace  BY <1>1 DEF Sim!Init, RunInOnePlace, Sim!NoThread
<1>4. SweepsWaitedFor  BY DEF Sim!Init, SweepsWaitedFor
<1> QED  BY <1>2, <1>3, <1>4 DEF SweepInv

\* Steps that touch neither the run nor the closures.
LEMMA Aside ==
  ASSUME SweepInv, UNCHANGED <<flag, thread, posts, cell>>,
         procs' \in [Pids -> {"unused", "daemon", "sweep", "gone"}], SweepsWaitedFor'
  PROVE  SweepInv'
<1>1. Ends' = Ends  BY DEF Ends
<1> QED  BY <1>1 DEF SweepInv, SweepTypes, RunInOnePlace

\* Starting or ending a process that is no sweep.
LEMMA NoNewSweep ==
  ASSUME SweepInv, NEW p \in Pids, NEW s \in {"daemon", "gone"},
         procs' = [procs EXCEPT ![p] = s], UNCHANGED <<thread, child>>
  PROVE  /\ procs' \in [Pids -> {"unused", "daemon", "sweep", "gone"}]
         /\ SweepsWaitedFor'
BY DEF SweepInv, SweepTypes, SweepsWaitedFor

LEMMA SweepStep ==
  ASSUME Sim!PidAssumption, SweepInv, [Sim!Next]_(Sim!vars)
  PROVE  SweepInv'
<1> USE DEF SweepInv
<1>a. ASSUME UNCHANGED <<procs, thread, child>>
      PROVE  /\ procs' \in [Pids -> {"unused", "daemon", "sweep", "gone"}]
             /\ SweepsWaitedFor'
  BY <1>a DEF SweepTypes, SweepsWaitedFor
<1>1. ASSUME NEW p \in Pids, Sim!Exit(p) PROVE SweepInv'
  BY <1>1, Aside, NoNewSweep DEF Sim!Exit
<1>2. CASE Sim!StartDaemon
  BY <1>2, <1>a, Aside, NoNewSweep DEF Sim!StartDaemon, Sim!Free
<1>3. CASE Sim!StopDaemon  BY <1>3, <1>a, Aside DEF Sim!StopDaemon
<1>4. CASE Sim!Sweep
  <2>1. Ends' = Ends /\ Ends = {} /\ cell' = 0 /\ flag' = TRUE /\ thread = Sim!NoThread
    BY <1>4 DEF Sim!Sweep, Ends, RunInOnePlace, Sim!NoThread
  <2>2. thread' = [at |-> "spawn", pid |-> 0]  BY <1>4 DEF Sim!Sweep
  <2>3. SweepTypes'  BY <1>4, <2>1, <2>2 DEF Sim!Sweep, SweepTypes
  <2>4. RunInOnePlace'  BY <2>1, <2>2 DEF RunInOnePlace
  <2>5. SweepsWaitedFor'  BY <1>4, <2>1 DEF Sim!Sweep, SweepsWaitedFor, Sim!NoThread
  <2> QED  BY <2>3, <2>4, <2>5
<1>5. CASE Sim!SweepStop  BY <1>5, <1>a, Aside DEF Sim!SweepStop
<1>6. ASSUME NEW i \in 1..MaxProbes, Sim!Probe(i) PROVE SweepInv'
  <2>1. CASE UNCHANGED posts  BY <1>6, <2>1, <1>a, Aside DEF Sim!Probe
  <2>2. CASE posts' = Append(posts, [running |-> Sim!DaemonPid # 0, end |-> FALSE])
    <3>1. [running |-> Sim!DaemonPid # 0, end |-> FALSE] \in Post  BY DEF Post
    <3>2. posts' \in Seq(Post) /\ Ends' = Ends
      BY <2>2, <3>1, PostsAppend DEF SweepTypes
    <3> QED  BY <1>6, <1>a, <3>2 DEF Sim!Probe, SweepTypes, RunInOnePlace
  <2> QED  BY <1>6, <2>1, <2>2 DEF Sim!Probe
<1>7. CASE Sim!RunPost
  <2>1. /\ posts' \in Seq(Post) /\ 1 \in DOMAIN posts /\ Head(posts) = posts[1]
        /\ \A i \in Ends' : i + 1 \in Ends /\ i \in Nat \ {0}
    BY <1>7, PostsTail DEF Sim!RunPost, SweepTypes
  <2>2. \A i, j \in Ends' : i = j  BY <2>1 DEF RunInOnePlace
  <2>3. SweepTypes'  BY <1>7, <2>1 DEF Sim!RunPost, SweepTypes
  <2>4. SweepsWaitedFor'  BY <1>7, <1>a DEF Sim!RunPost
  <2>5. CASE Head(posts).end
    <3>1. 1 \in Ends  BY <2>1, <2>5 DEF Ends
    <3>2. Ends' = {}
      <4>1. \A i \in Ends' : i + 1 = 1  BY <2>1, <3>1 DEF RunInOnePlace
      <4> QED  BY <2>1, <4>1
    <3>3. thread = Sim!NoThread  BY <3>1 DEF RunInOnePlace
    <3>4. cell = 0  BY <3>3 DEF RunInOnePlace, Sim!NoThread
    <3>5. RunInOnePlace'  BY <1>7, <3>2, <3>3, <3>4 DEF Sim!RunPost, RunInOnePlace
    <3> QED  BY <2>3, <2>4, <3>5
  <2>6. CASE ~Head(posts).end
    <3>1. flag' = flag /\ thread' = thread /\ cell' = cell  BY <1>7, <2>6 DEF Sim!RunPost
    <3>2. Ends' # {} => Ends # {}  BY <2>1
    <3>3. RunInOnePlace'  BY <2>2, <3>1, <3>2 DEF RunInOnePlace
    <3> QED  BY <2>3, <2>4, <3>3
  <2> QED  BY <2>5, <2>6
<1>8. CASE Sim!SpawnSweep
  <2>1. thread # Sim!NoThread /\ flag /\ Ends = {} /\ cell = 0 /\ flag' = flag /\ child' = child
    BY <1>8 DEF Sim!SpawnSweep, Sim!NoThread, RunInOnePlace
  <2>2. ASSUME NEW p \in Sim!Free, procs' = [procs EXCEPT ![p] = "sweep"],
               thread' = [at |-> "wait", pid |-> p], cell' = p, posts' = posts
        PROVE  SweepInv'
    <3>1. p \in Pids /\ Ends' = Ends  BY <2>2 DEF Sim!Free, Ends
    <3>2. SweepTypes'  BY <2>1, <2>2, <3>1 DEF SweepTypes
    <3>3. RunInOnePlace'  BY <2>1, <2>2, <3>1 DEF RunInOnePlace
    <3>4. SweepsWaitedFor'
      BY <1>8, <2>1, <2>2, <3>1 DEF Sim!SpawnSweep, SweepsWaitedFor, SweepTypes
    <3> QED  BY <3>2, <3>3, <3>4
  <2>3. ASSUME thread' = Sim!NoThread, Sim!PostEnd, UNCHANGED <<procs, cell>>
        PROVE  SweepInv'
    <3>1. [running |-> FALSE, end |-> TRUE] \in Post  BY DEF Post
    <3>2. posts' \in Seq(Post) /\ Ends' = {Len(posts) + 1}
      BY <2>1, <2>3, <3>1, PostsAppend DEF Sim!PostEnd, SweepTypes
    <3>3. SweepTypes'  BY <2>1, <2>3, <3>2 DEF SweepTypes, Sim!NoThread
    <3>4. RunInOnePlace'  BY <2>1, <2>3, <3>2 DEF RunInOnePlace, Sim!NoThread
    <3>5. SweepsWaitedFor'
      BY <1>8, <2>1, <2>3 DEF Sim!SpawnSweep, SweepsWaitedFor
    <3> QED  BY <3>3, <3>4, <3>5
  <2> QED  BY <1>8, <2>2, <2>3 DEF Sim!SpawnSweep
<1>9. CASE Sim!SweepWaited
  <2>1. thread' = [thread EXCEPT !.at = "ended"] /\ thread.at = "wait"
    BY <1>9 DEF Sim!SweepWaited
  <2>2. thread'.at = "ended" /\ thread' # Sim!NoThread /\ thread # Sim!NoThread
        /\ thread' \in [at : {"none", "spawn", "wait", "ended"}, pid : Pids \cup {0}]
    BY <2>1 DEF SweepTypes, Sim!NoThread
  <2>3. Ends' = Ends /\ UNCHANGED <<procs, flag, cell, posts, child>>
    BY <1>9 DEF Sim!SweepWaited, Ends
  <2>4. SweepTypes'  BY <2>2, <2>3 DEF SweepTypes
  <2>5. RunInOnePlace'  BY <2>2, <2>3 DEF RunInOnePlace
  <2>6. SweepsWaitedFor'
    BY <1>9, <2>3 DEF Sim!SweepWaited, Sim!Alive, SweepsWaitedFor
  <2> QED  BY <2>4, <2>5, <2>6
<1>10. CASE Sim!SweepReported
  <2>1. thread # Sim!NoThread /\ flag /\ Ends = {} /\ flag' = flag
    BY <1>10 DEF Sim!SweepReported, Sim!NoThread, RunInOnePlace
  <2>2. [running |-> FALSE, end |-> TRUE] \in Post  BY DEF Post
  <2>3. posts' \in Seq(Post) /\ Ends' = {Len(posts) + 1}
    BY <1>10, <2>1, <2>2, PostsAppend DEF Sim!SweepReported, Sim!PostEnd, SweepTypes
  <2>4. SweepTypes'  BY <1>10, <2>1, <2>3 DEF Sim!SweepReported, SweepTypes, Sim!NoThread
  <2>5. RunInOnePlace'
    BY <1>10, <2>1, <2>3 DEF Sim!SweepReported, RunInOnePlace, Sim!NoThread
  <2>6. SweepsWaitedFor'  BY <1>10 DEF Sim!SweepReported, SweepsWaitedFor
  <2> QED  BY <2>4, <2>5, <2>6
<1>11. CASE Sim!ToggleDaemon
  BY <1>11, <1>a, Aside, NoNewSweep DEF Sim!ToggleDaemon, Sim!Free
<1>12. CASE Sim!TfSpawnSweep
  <2>1. PICK p \in Pids : procs' = [procs EXCEPT ![p] = "sweep"] /\ child' = p
    BY <1>12 DEF Sim!TfSpawnSweep, Sim!Free
  <2>2. child = 0 /\ 0 \notin Pids  BY <1>12 DEF Sim!TfSpawnSweep, Sim!PidAssumption
  <2>3. SweepsWaitedFor'
    BY <1>12, <2>1, <2>2 DEF Sim!TfSpawnSweep, SweepsWaitedFor, SweepTypes
  <2>4. procs' \in [Pids -> {"unused", "daemon", "sweep", "gone"}]
    BY <2>1 DEF SweepTypes
  <2> QED  BY <1>12, <2>3, <2>4, Aside DEF Sim!TfSpawnSweep
<1>13. CASE Sim!TfStopSweep  BY <1>13, <1>a, Aside DEF Sim!TfStopSweep
<1>14. CASE Sim!TickTfSweep
  <2>1. SweepsWaitedFor'  BY <1>14 DEF Sim!TickTfSweep, Sim!Alive, SweepsWaitedFor
  <2>2. procs' \in [Pids -> {"unused", "daemon", "sweep", "gone"}]
    BY <1>14 DEF Sim!TickTfSweep, SweepTypes
  <2> QED  BY <1>14, <2>1, <2>2, Aside DEF Sim!TickTfSweep
<1>15. CASE UNCHANGED Sim!vars  BY <1>15, <1>a, Aside DEF Sim!vars
<1> QED
  BY <1>1, <1>2, <1>3, <1>4, <1>5, <1>6, <1>7, <1>8, <1>9, <1>10, <1>11, <1>12, <1>13,
     <1>14, <1>15 DEF Sim!Next


\* The lowest live pid that the scan finds is a pid.
LEMMA PidFound == Sim!PidAssumption => Sim!DaemonPid \in Pids \cup {0}
<1> SUFFICES ASSUME Sim!PidAssumption, Sim!PidsByComm # {}
             PROVE  Sim!DaemonPid \in Pids
  BY DEF Sim!DaemonPid
<1>1. Sim!PidsByComm \subseteq Nat /\ Sim!PidsByComm \subseteq Pids
  BY DEF Sim!PidsByComm, Sim!PidAssumption
<1>2. \E p \in Sim!PidsByComm : \A q \in Sim!PidsByComm : p <= q
  BY <1>1, LeastOf
<1> QED  BY <1>1, <1>2 DEF Sim!DaemonPid

ProbeOf == [expect : BOOLEAN, left : Int]

PanelTypes ==
  /\ term \subseteq Pids /\ running \in BOOLEAN
  /\ cell \in Pids \cup {0} /\ child \in Pids \cup {0}
  /\ probes \in Seq(ProbeOf) /\ Len(probes) <= MaxProbes

\* A probe that ends leaves the others.
LEMMA ProbeLeaves ==
  ASSUME NEW S, NEW s \in Seq(S), NEW i \in DOMAIN s
  PROVE  Sim!Without(s, i) \in Seq(S) /\ Len(Sim!Without(s, i)) = Len(s) - 1
<1> DEFINE a == SubSeq(s, 1, i - 1)
           b == SubSeq(s, i + 1, Len(s))
<1>1. Len(s) \in Nat /\ i \in 1..Len(s)  BY LenProperties
<1>2. \A j \in 1..Len(s) : s[j] \in S  BY ElementOfSeq
<1>3. a \in Seq(S) /\ Len(a) = i - 1
  <2>1. 1 \in Int /\ i - 1 \in Int /\ \A j \in 1..i - 1 : s[j] \in S  BY <1>1, <1>2
  <2>2. /\ a \in Seq(S)
        /\ Len(a) = IF 1 <= i - 1 THEN (i - 1) - 1 + 1 ELSE 0
    BY <2>1, SubSeqProperties
  <2> QED  BY <1>1, <2>2
<1>4. b \in Seq(S) /\ Len(b) = Len(s) - i
  <2> DEFINE lo == i + 1
             hi == Len(s)
  <2>1. lo \in Int /\ hi \in Int /\ \A j \in lo..hi : s[j] \in S  BY <1>1, <1>2
  <2> HIDE DEF lo, hi
  <2>2. /\ SubSeq(s, lo, hi) \in Seq(S)
        /\ Len(SubSeq(s, lo, hi)) = IF lo <= hi THEN hi - lo + 1 ELSE 0
    BY <2>1, SubSeqProperties
  <2> QED  BY <1>1, <2>2 DEF lo, hi
<1> HIDE DEF a, b
<1>5. a \o b \in Seq(S) /\ Len(a \o b) = Len(a) + Len(b)
  BY <1>3, <1>4, ConcatProperties
<1>6. Sim!Without(s, i) = a \o b  BY DEF Sim!Without, a, b
<1> QED  BY <1>1, <1>3, <1>4, <1>5, <1>6

LEMMA PanelStep ==
  ASSUME Sim!PidAssumption, SweepInv, PanelTypes, [Sim!Next]_(Sim!vars)
  PROVE  PanelTypes'
<1> DEFINE Slots0 == Pids \cup {0}
<1>1. UNCHANGED probes \/ (probes' \in Seq(ProbeOf) /\ Len(probes') <= MaxProbes)
  <2>1. ASSUME NEW e \in BOOLEAN, Sim!RefreshTfDaemon(e)
        PROVE  probes' \in Seq(ProbeOf) /\ Len(probes') <= MaxProbes
    <3>1. [expect |-> e, left |-> Polls] \in ProbeOf
      BY DEF ProbeOf, Sim!PidAssumption
    <3>2. /\ probes' = Append(probes, [expect |-> e, left |-> Polls])
          /\ Len(probes) < MaxProbes
      BY <2>1 DEF Sim!RefreshTfDaemon
    <3>3. Len(probes) \in Nat /\ MaxProbes \in Nat
      BY LenProperties DEF PanelTypes, Sim!PidAssumption
    <3>4. probes' \in Seq(ProbeOf) /\ Len(probes') = Len(probes) + 1
      BY <3>1, <3>2, AppendProperties DEF PanelTypes
    <3> QED  BY <3>2, <3>3, <3>4
  <2>2. ASSUME NEW i, Sim!Probe(i)
        PROVE  probes' \in Seq(ProbeOf) /\ Len(probes') <= MaxProbes
    <3>1. /\ i \in DOMAIN probes /\ probes \in Seq(ProbeOf)
          /\ Len(probes) \in Nat /\ MaxProbes \in Nat /\ Len(probes) <= MaxProbes
      BY <2>2, LenProperties DEF Sim!Probe, PanelTypes, Sim!PidAssumption
    <3>2. CASE probes' = [probes EXCEPT ![i].left = @ - 1]
      <4> DEFINE e == [probes[i] EXCEPT !.left = @ - 1]
      <4>1. probes[i] \in ProbeOf  BY <3>1, ElementOfSeq, LenProperties
      <4>2. e \in ProbeOf  BY <4>1 DEF ProbeOf
      <4>3. probes' = [probes EXCEPT ![i] = e]  BY <3>2
      <4> HIDE DEF e
      <4>4. probes' \in Seq(ProbeOf) /\ Len(probes') = Len(probes)
        BY <3>1, <4>2, <4>3, ExceptSeq, LenProperties
      <4> QED  BY <3>1, <4>4
    <3>3. CASE probes' = Sim!Without(probes, i)
      <4>1. probes' \in Seq(ProbeOf) /\ Len(probes') = Len(probes) - 1
        BY <3>1, <3>3, ProbeLeaves
      <4> QED  BY <3>1, <4>1
    <3> QED  BY <2>2, <3>2, <3>3 DEF Sim!Probe
  <2> QED
    BY <2>1, <2>2 DEF Sim!Next, Sim!Exit, Sim!StartDaemon, Sim!StopDaemon,
       Sim!Sweep, Sim!SweepStop, Sim!RunPost, Sim!SpawnSweep, Sim!SweepWaited,
       Sim!SweepReported, Sim!ToggleDaemon, Sim!TfSpawnSweep, Sim!TfStopSweep,
       Sim!TickTfSweep, Sim!vars
<1>2. term' \subseteq Pids
  <2>1. UNCHANGED term \/ \E p \in Slots0 : Sim!Signal(p)
    BY PidFound DEF PanelTypes, Sim!Next, Sim!Exit, Sim!StartDaemon,
       Sim!StopDaemon, Sim!Sweep, Sim!SweepStop, Sim!Probe, Sim!RunPost,
       Sim!SpawnSweep, Sim!SweepWaited, Sim!SweepReported, Sim!ToggleDaemon,
       Sim!TfSpawnSweep, Sim!TfStopSweep, Sim!TickTfSweep, Sim!vars
  <2> QED  BY <2>1 DEF Sim!Signal, PanelTypes
<1>3. cell' \in Slots0 /\ child' \in Slots0
  BY DEF PanelTypes, Sim!Next, Sim!Exit, Sim!StartDaemon, Sim!StopDaemon,
     Sim!Sweep, Sim!SweepStop, Sim!Probe, Sim!RunPost, Sim!SpawnSweep, Sim!Free,
     Sim!SweepWaited, Sim!SweepReported, Sim!ToggleDaemon, Sim!TfSpawnSweep,
     Sim!TfStopSweep, Sim!TickTfSweep, Sim!vars
<1>4. running' \in BOOLEAN
  <2>1. ASSUME Sim!RunPost, ~Head(posts).end PROVE running' \in BOOLEAN
    <3>1. Head(posts) \in Post
      BY <2>1, PostsTail, ElementOfSeq, LenProperties DEF SweepInv, SweepTypes, Sim!RunPost
    <3> QED  BY <2>1, <3>1 DEF Sim!RunPost, Post
  <2>2. UNCHANGED running \/ (Sim!RunPost /\ ~Head(posts).end)
    BY DEF Sim!Next, Sim!Exit, Sim!StartDaemon, Sim!StopDaemon,
       Sim!Sweep, Sim!SweepStop, Sim!Probe, Sim!RunPost, Sim!SpawnSweep,
       Sim!SweepWaited, Sim!SweepReported, Sim!ToggleDaemon, Sim!TfSpawnSweep,
       Sim!TfStopSweep, Sim!TickTfSweep, Sim!vars
  <2> QED  BY <2>1, <2>2 DEF PanelTypes
<1> QED  BY <1>1, <1>2, <1>3, <1>4 DEF PanelTypes

LEMMA PanelStarts == Sim!PidAssumption /\ Sim!Init => SweepInv /\ PanelTypes
<1> SUFFICES ASSUME Sim!PidAssumption, Sim!Init PROVE SweepInv /\ PanelTypes
  OBVIOUS
<1>1. probes \in Seq(ProbeOf) /\ Len(probes) = 0 /\ MaxProbes \in Nat
  BY EmptySeq DEF Sim!Init, Sim!PidAssumption
<1>2. term = {} /\ running = FALSE /\ cell = 0 /\ child = 0
  BY DEF Sim!Init
<1>3. Len(probes) <= MaxProbes
  BY <1>1
<1>4. running \in BOOLEAN
  BY <1>2
<1>5. PanelTypes
  BY <1>1, <1>2, <1>3, <1>4 DEF PanelTypes
<1> QED
  BY <1>5, SweepInit

LEMMA PanelSound ==
  SweepInv /\ PanelTypes => Sim!TypeOK /\ Sim!SweepFlagTruthful
<1> SUFFICES ASSUME SweepInv, PanelTypes
             PROVE  Sim!TypeOK /\ Sim!SweepFlagTruthful
  OBVIOUS
<1>1. Sim!TypeOK  BY DEF SweepInv, SweepTypes, PanelTypes, Sim!TypeOK
<1>2. ASSUME ~flag PROVE Sim!SweepFlagTruthful
  <2>1. thread = Sim!NoThread /\ Ends = {} /\ cell = 0
    BY <1>2 DEF SweepInv, RunInOnePlace, Sim!NoThread
  <2> QED
    BY <2>1 DEF Sim!SweepFlagTruthful, SweepInv, SweepsWaitedFor, Ends, Sim!NoThread
<1> QED  BY <1>1, <1>2 DEF Sim!SweepFlagTruthful

\* Whenever the window offers another sweep, the last one is over in every
\* respect: its thread, its parked pid, its process and the post of its end
\* (main.rs run_tf_sweep).
THEOREM SweepOver ==
  ASSUME Sim!PidAssumption
  PROVE  Sim!Spec => [](Sim!TypeOK /\ Sim!SweepFlagTruthful)
<1>1. Sim!Init => SweepInv /\ PanelTypes
  BY PanelStarts
<1>2. SweepInv /\ PanelTypes /\ [Sim!Next]_(Sim!vars) => SweepInv' /\ PanelTypes'
  BY SweepStep, PanelStep
<1> QED  BY <1>1, <1>2, PanelSound, PTL DEF Sim!Spec

(***************************************************************************)
(* The kinetic force channel of the library.                               *)
(***************************************************************************)
\* What a sum over no effect, or over one, comes to.
LEMMA SumNone == Kinetic!MapThenSumSet(LAMBDA s : effects[s].level, {}) = 0
<1> DEFINE step(g) == [s \in SUBSET {} |->
       IF s = {} THEN 0
       ELSE effects[CHOOSE x \in s : TRUE].level + g[s \ {CHOOSE x \in s : TRUE}]]
<1> DEFINE f == [s \in SUBSET {} |-> 0]
<1>1. f = step(f)
  OBVIOUS
<1>2. \A g : g = step(g) => g[{}] = 0
  OBVIOUS
<1> HIDE DEF f
<1>3. (CHOOSE g : g = step(g))[{}] = 0
  BY <1>1, <1>2
<1> QED  BY <1>3 DEF Kinetic!MapThenSumSet, Kinetic!MapThenFoldSet

LEMMA SumOne ==
  ASSUME NEW e, effects[e].level \in Int
  PROVE  Kinetic!MapThenSumSet(LAMBDA s : effects[s].level, {e}) = effects[e].level
<1> DEFINE step(g) == [s \in SUBSET {e} |->
       IF s = {} THEN 0
       ELSE effects[CHOOSE x \in s : TRUE].level + g[s \ {CHOOSE x \in s : TRUE}]]
<1> DEFINE f == [s \in SUBSET {e} |-> IF s = {} THEN 0 ELSE effects[e].level]
<1>1. \A s \in SUBSET {e} : s = {} \/ s = {e}
  OBVIOUS
<1>2. (CHOOSE x \in {e} : TRUE) = e /\ {e} \ {e} = {} /\ {} \in SUBSET {e} /\ {e} \in SUBSET {e}
  OBVIOUS
<1>3. effects[e].level + 0 = effects[e].level
  OBVIOUS
<1>4. f = step(f)
  <2>1. f[{}] = 0 /\ f[{e}] = effects[e].level
    BY <1>2
  <2>2. step(f)[{}] = 0  BY <1>2
  <2>3. step(f)[{e}] = effects[e].level + f[{}]  BY <1>2
  <2> QED  BY <1>1, <1>2, <1>3, <2>1, <2>2, <2>3
<1>5. ASSUME NEW g, g = step(g) PROVE g[{e}] = effects[e].level
  <2>1. g[{}] = 0  BY <1>2, <1>5
  <2>2. g[{e}] = effects[e].level + g[{}]  BY <1>2, <1>5
  <2> QED  BY <2>1, <2>2, <1>3
<1> HIDE DEF f, step
<1>6. (CHOOSE g : g = step(g))[{e}] = effects[e].level
  BY <1>4, <1>5
<1> QED  BY <1>6 DEF Kinetic!MapThenSumSet, Kinetic!MapThenFoldSet, step

\* A quotient of what is at most p times f is at most f.
LEMMA ScaledBound ==
  ASSUME NEW p \in Nat \ {0}, NEW f \in Nat, NEW t \in 0..p
  PROVE  (t * f) \div p \in 0..f
<1> DEFINE a == t * f
           q == a \div p
<1>1. a \in Nat /\ a <= p * f
  <2>1. (p - t) * f >= 0  OBVIOUS
  <2>2. (p - t) * f = p * f - t * f  OBVIOUS
  <2> QED  BY <2>1, <2>2
<1> HIDE DEF a
<1>2. q \in Int /\ a % p \in 0..p - 1 /\ a = p * q + (a % p)
  BY <1>1, Z3
<1> HIDE DEF q
<1>3. ASSUME q < 0 PROVE FALSE
  <2>1. p * q <= -p  BY <1>2, <1>3
  <2> QED  BY <1>1, <1>2, <2>1
<1>4. ASSUME q > f PROVE FALSE
  <2>1. p * q >= p * (f + 1)  BY <1>2, <1>4
  <2>2. p * (f + 1) = p * f + p  OBVIOUS
  <2> QED  BY <1>1, <1>2, <2>1, <2>2
<1>5. q \in 0..f  BY <1>2, <1>3, <1>4
<1> QED  BY <1>5 DEF q, a

LEMMA LevelInRange ==
  ASSUME Kinetic!KineticAssumption, NEW t \in -Peak..Peak
  PROVE  Kinetic!Level(t) \in -FullScale..FullScale
<1> USE DEF Kinetic!KineticAssumption
<1>1. CASE t >= 0
  BY <1>1, ScaledBound DEF Kinetic!Level
<1>2. CASE t < 0
  <2>1. -t \in 0..Peak  BY <1>2
  <2>2. (-t * FullScale) \div Peak \in 0..FullScale  BY <2>1, ScaledBound
  <2> DEFINE q == (-t * FullScale) \div Peak
  <2>3. Kinetic!Level(t) = -q  BY <1>2 DEF Kinetic!Level
  <2> HIDE DEF q
  <2> QED  BY <2>2, <2>3 DEF q
<1> QED  BY <1>1, <1>2

LEMMA ClampedInRange ==
  ASSUME Kinetic!KineticAssumption, NEW t \in Torques \cup {NaN}
  PROVE  Kinetic!Clamped(t) \in -Peak..Peak
BY DEF Kinetic!KineticAssumption, Kinetic!Clamped

\* EVIOCSFF gives a new effect a slot of its own, never slot 0.
LEMMA UploadKnown ==
  ASSUME Kinetic!KineticAssumption
  PROVE  /\ effect_id = -1 /\ Kinetic!UploadSlot(-1) # -1
              => Kinetic!UploadSlot(-1) \in EvdevSlots \ Foreign
         /\ \A i : i # -1 => Kinetic!UploadSlot(i) \in {i, -1}
<1>1. ASSUME Kinetic!Free # {} PROVE Kinetic!Min(Kinetic!Free) \in Kinetic!Free
  <2>1. Kinetic!Free \subseteq Nat  BY DEF Kinetic!Free, Kinetic!KineticAssumption
  <2> QED  BY <1>1, <2>1, LeastOf DEF Kinetic!Min
<1> QED  BY <1>1 DEF Kinetic!UploadSlot, Kinetic!Free

\* The library keeps one effect, the one it knows the id of; it has none
\* without a descriptor; and as long as nothing failed that effect plays what
\* GetTorqueKF reports.
OneEffect ==
  /\ DOMAIN effects = IF effect_id = -1 THEN {} ELSE {effect_id}
  /\ effect_id # 0
  /\ evdev = "none" => effect_id = -1
  /\ playing => effect_id # -1
PlaysAsTold ==
  failed = 0 /\ effect_id # -1 =>
    /\ effects[effect_id].on = playing
    /\ playing => effects[effect_id].level = Kinetic!Level(last)
KineticInv == Kinetic!TypeOK /\ OneEffect /\ PlaysAsTold

\* One thread: the status thread is joined before the descriptor is closed.
JoinedFirst ==
  /\ Kinetic!StatusReadsOpenFd
  /\ \A c \in Callers : place[c] \in {"kfClear", "kfClose"} => status = "off"

LEMMA KineticStarts ==
  Kinetic!KineticAssumption /\ Kinetic!Init => KineticInv /\ JoinedFirst
<1> SUFFICES ASSUME Kinetic!KineticAssumption, Kinetic!Init PROVE KineticInv /\ JoinedFirst
  OBVIOUS
<1> USE DEF Kinetic!Init
<1>1. Kinetic!TypeOK
  <2>1. last \in -Peak..Peak /\ failed \in 0..MaxFaults /\ left \in 0..Budget
    BY DEF Kinetic!KineticAssumption
  <2>2. DOMAIN effects = {}
    OBVIOUS
  <2>3. playing \in BOOLEAN
    OBVIOUS
  <2> QED  BY <2>1, <2>2, <2>3 DEF Kinetic!TypeOK
<1>2. OneEffect /\ PlaysAsTold
  <2>1. DOMAIN effects = {} /\ ~playing
    OBVIOUS
  <2> QED  BY <2>1 DEF OneEffect, PlaysAsTold
<1>3. JoinedFirst
  BY DEF JoinedFirst, Kinetic!StatusReadsOpenFd
<1> QED  BY <1>1, <1>2, <1>3 DEF KineticInv

\* A play that goes through, or that stops after the upload.
LEMMA UploadKeeps ==
  ASSUME Kinetic!KineticAssumption, KineticInv, NEW t \in Torques \cup {NaN}, NEW on \in BOOLEAN,
         NEW slot, slot = Kinetic!UploadSlot(effect_id), slot # -1,
         effect_id' = slot,
         effects' = Kinetic!Uploaded(slot, Kinetic!Level(Kinetic!Clamped(t)), on),
         evdev' = "open"
  PROVE  /\ slot \in EvdevSlots \ Foreign
         /\ DOMAIN effects' = {slot}
         /\ effects'[slot] \in [level : -FullScale..FullScale, on : BOOLEAN]
         /\ effects'[slot].level = Kinetic!Level(Kinetic!Clamped(t))
         /\ on => effects'[slot].on
<1> DEFINE level == Kinetic!Level(Kinetic!Clamped(t))
<1>1. level \in -FullScale..FullScale
  BY ClampedInRange, LevelInRange
<1>2. slot \in EvdevSlots \ Foreign /\ DOMAIN effects \cup {slot} = {slot}
  BY UploadKnown DEF KineticInv, Kinetic!TypeOK, OneEffect
<1> HIDE DEF level
<1>3. effects' = [s \in {slot} |->
          [level |-> level,
           on |-> on \/ (slot \in DOMAIN effects /\ effects[slot].on)]]
  BY <1>2 DEF Kinetic!Uploaded, level
<1>4. slot \in DOMAIN effects => effects[slot].on \in BOOLEAN
  BY DEF KineticInv, Kinetic!TypeOK
<1>5. (on \/ (slot \in DOMAIN effects /\ effects[slot].on)) \in BOOLEAN
  BY <1>4
<1> QED  BY <1>1, <1>2, <1>3, <1>5 DEF level

LEMMA SetTorqueKeeps ==
  ASSUME Kinetic!KineticAssumption, KineticInv, NEW c \in Callers, NEW t \in Torques \cup {NaN},
         Kinetic!SetTorque(c, t)
  PROVE  KineticInv'
<1> USE DEF KineticInv
<1>1. left' \in 0..Budget /\ UNCHANGED <<status, place>>
  BY DEF Kinetic!SetTorque, Kinetic!Begin, Kinetic!TypeOK, Kinetic!KineticAssumption
<1>2. Kinetic!IdAfterOpen = effect_id
  BY DEF Kinetic!IdAfterOpen, OneEffect, Kinetic!KineticAssumption
<1> DEFINE slot == Kinetic!UploadSlot(effect_id)
           level == Kinetic!Level(Kinetic!Clamped(t))
<1>3. ASSUME UNCHANGED <<effect_id, playing, last, effects>>,
             evdev' \in {evdev, "open"}, failed' \in {failed, failed + 1}, failed' <= MaxFaults
      PROVE  KineticInv'
  <2>1. Kinetic!TypeOK'
    BY <1>1, <1>3 DEF Kinetic!TypeOK, Kinetic!KineticAssumption
  <2>2. OneEffect'  BY <1>3 DEF OneEffect, Kinetic!TypeOK
  <2>3. failed' = 0 => failed = 0  BY <1>3 DEF Kinetic!TypeOK
  <2>4. PlaysAsTold'  BY <1>3, <2>3 DEF PlaysAsTold, Kinetic!Level
  <2> QED  BY <2>1, <2>2, <2>4
<1>4. ASSUME slot # -1, effect_id' = slot, evdev' = "open", failed' = failed + 1, failed < MaxFaults,
             effects' = Kinetic!Uploaded(slot, level, FALSE), UNCHANGED <<playing, last>>
      PROVE  KineticInv'
  <2>1. /\ slot \in EvdevSlots \ Foreign
        /\ DOMAIN effects' = {slot}
        /\ effects'[slot] \in [level : -FullScale..FullScale, on : BOOLEAN]
    BY <1>4, UploadKeeps
  <2> HIDE DEF slot, level
  <2>2. Kinetic!TypeOK'
    <3>1. failed' \in 0..MaxFaults
      BY <1>4 DEF Kinetic!TypeOK, Kinetic!KineticAssumption
    <3>2. playing' \in BOOLEAN  BY <1>4 DEF Kinetic!TypeOK
    <3> QED  BY <1>1, <1>4, <2>1, <3>1, <3>2 DEF Kinetic!TypeOK
  <2>3. OneEffect'  BY <1>4, <2>1 DEF OneEffect, Kinetic!KineticAssumption
  <2>4. PlaysAsTold'  BY <1>4 DEF PlaysAsTold, Kinetic!TypeOK
  <2> QED  BY <2>2, <2>3, <2>4
<1>5. ASSUME slot # -1, effect_id' = slot, evdev' = "open", UNCHANGED failed,
             effects' = Kinetic!Uploaded(slot, level, TRUE),
             playing' = TRUE, last' = Kinetic!Clamped(t)
      PROVE  KineticInv'
  <2>1. /\ slot \in EvdevSlots \ Foreign
        /\ DOMAIN effects' = {slot}
        /\ effects'[slot] \in [level : -FullScale..FullScale, on : BOOLEAN]
        /\ effects'[slot].level = level
        /\ effects'[slot].on
    BY <1>5, UploadKeeps
  <2>2. last' \in -Peak..Peak  BY <1>5, ClampedInRange
  <2>3. level = Kinetic!Level(last)'  BY <1>5 DEF Kinetic!Level
  <2> HIDE DEF slot, level
  <2>4. Kinetic!TypeOK'
    BY <1>1, <1>5, <2>1, <2>2 DEF Kinetic!TypeOK, Kinetic!KineticAssumption
  <2>5. OneEffect'  BY <1>5, <2>1 DEF OneEffect, Kinetic!KineticAssumption
  <2>6. effects'[slot].on = TRUE  BY <2>1
  <2>7. PlaysAsTold'  BY <1>5, <2>1, <2>3, <2>6 DEF PlaysAsTold
  <2> QED  BY <2>4, <2>5, <2>7
<1> HIDE DEF KineticInv
<1>6. failed \in 0..MaxFaults /\ MaxFaults \in Nat
  BY DEF KineticInv, Kinetic!TypeOK, Kinetic!KineticAssumption
<1>7. \/ /\ UNCHANGED <<effect_id, playing, last, effects>>
         /\ evdev' \in {evdev, "open"} /\ failed' \in {failed, failed + 1} /\ failed' <= MaxFaults
      \/ /\ slot # -1 /\ effect_id' = slot /\ evdev' = "open"
         /\ failed' = failed + 1 /\ failed < MaxFaults
         /\ effects' = Kinetic!Uploaded(slot, level, FALSE) /\ UNCHANGED <<playing, last>>
      \/ /\ slot # -1 /\ effect_id' = slot /\ evdev' = "open" /\ UNCHANGED failed
         /\ effects' = Kinetic!Uploaded(slot, level, TRUE)
         /\ playing' = TRUE /\ last' = Kinetic!Clamped(t)
  <2>1. CASE evdev = "none" /\ Kinetic!MayFail /\ UNCHANGED <<evdev, effect_id, playing, last, effects>>
    BY <1>6, <2>1 DEF Kinetic!MayFail
  <2>2. CASE /\ evdev' = "open"
             /\ slot = -1 \/ failed < MaxFaults
             /\ failed' = IF slot = -1 THEN failed ELSE failed + 1
             /\ effect_id' = effect_id /\ UNCHANGED <<playing, last, effects>>
    <3>1. failed' \in {failed, failed + 1} /\ failed' <= MaxFaults
      BY <1>6, <2>2
    <3> QED  BY <2>2, <3>1
  <2>3. CASE /\ evdev' = "open" /\ slot # -1 /\ Kinetic!MayFail /\ effect_id' = slot
             /\ effects' = Kinetic!Uploaded(slot, level, FALSE) /\ UNCHANGED <<playing, last>>
    BY <1>6, <2>3 DEF Kinetic!MayFail
  <2>4. CASE /\ evdev' = "open" /\ slot # -1 /\ effect_id' = slot
             /\ effects' = Kinetic!Uploaded(slot, level, TRUE)
             /\ playing' = TRUE /\ last' = Kinetic!Clamped(t) /\ UNCHANGED failed
    BY <1>6, <2>4
  <2> QED  BY <1>2, <2>1, <2>2, <2>3, <2>4, Zenon DEF Kinetic!SetTorque
<1> QED  BY <1>3, <1>4, <1>5, <1>7

\* logitf_kf_clear.
LEMMA ClearKeeps ==
  ASSUME Kinetic!KineticAssumption, KineticInv, Kinetic!KfClear,
         UNCHANGED <<evdev, effect_id>>, status' \in {"off", "reading", "stopping"},
         place' \in [Callers -> {"out", "join", "kfClear", "kfClose"}], left' \in 0..Budget
  PROVE  KineticInv'
<1> USE DEF KineticInv
<1>1. CASE evdev = "open" /\ effect_id >= 0 /\ playing
  <2>1. effect_id # -1 /\ effect_id \in DOMAIN effects
    BY <1>1 DEF OneEffect
  <2>2. /\ DOMAIN effects' = DOMAIN effects
        /\ effects'[effect_id] \in [level : -FullScale..FullScale, on : BOOLEAN]
    <3>1. effects[effect_id] \in [level : -FullScale..FullScale, on : BOOLEAN]
      BY <2>1 DEF Kinetic!TypeOK
    <3>2. CASE effects' = [effects EXCEPT ![effect_id].on = FALSE]
      <4>1. effects'[effect_id] = [effects[effect_id] EXCEPT !.on = FALSE]
        BY <2>1, <3>2
      <4> QED  BY <3>1, <3>2, <4>1
    <3> QED  BY <1>1, <3>1, <3>2 DEF Kinetic!KfClear
  <2>3. failed' \in 0..MaxFaults /\ playing' = FALSE /\ last' = 0
        /\ (failed' = 0 => effects'[effect_id].on = FALSE)
    BY <1>1, <2>1 DEF Kinetic!KfClear, Kinetic!MayFail, Kinetic!TypeOK, Kinetic!KineticAssumption
  <2>4. 0 \in -Peak..Peak  BY DEF Kinetic!KineticAssumption
  <2>5. Kinetic!TypeOK'
    BY <2>1, <2>2, <2>3, <2>4 DEF Kinetic!TypeOK, OneEffect
  <2>6. OneEffect' /\ PlaysAsTold'
    BY <2>2, <2>3 DEF OneEffect, PlaysAsTold
  <2> QED  BY <2>5, <2>6
<1>2. CASE ~(evdev = "open" /\ effect_id >= 0 /\ playing)
  <2>1. UNCHANGED <<playing, last, effects, failed>>
    BY <1>2 DEF Kinetic!KfClear
  <2>2. Kinetic!TypeOK'  BY <2>1 DEF Kinetic!TypeOK
  <2>3. OneEffect' /\ PlaysAsTold'  BY <2>1 DEF OneEffect, PlaysAsTold, Kinetic!Level
  <2> QED  BY <2>2, <2>3
<1> QED  BY <1>1, <1>2

LEMMA KineticStep ==
  Kinetic!KineticAssumption /\ KineticInv /\ [Kinetic!Next]_(Kinetic!vars) => KineticInv'
<1> SUFFICES ASSUME Kinetic!KineticAssumption, KineticInv, [Kinetic!Next]_(Kinetic!vars)
             PROVE  KineticInv'
  OBVIOUS
<1> DEFINE Same == UNCHANGED <<effect_id, playing, last, effects>>
<1>1. ASSUME NEW c \in Callers, Kinetic!Begin(c, "") PROVE left' \in 0..Budget
  BY <1>1 DEF Kinetic!Begin, KineticInv, Kinetic!TypeOK, Kinetic!KineticAssumption
<1>2. ASSUME NEW c \in Callers, NEW p \in {"out", "join", "kfClear", "kfClose"},
             place' = [place EXCEPT ![c] = p]
      PROVE  place' \in [Callers -> {"out", "join", "kfClear", "kfClose"}]
  BY <1>2 DEF KineticInv, Kinetic!TypeOK
<1>3. ASSUME Same, evdev' \in {evdev, "open"}, failed' \in {failed, failed + 1},
             failed' <= MaxFaults, status' \in {"off", "reading", "stopping"},
             place' \in [Callers -> {"out", "join", "kfClear", "kfClose"}], left' \in 0..Budget
      PROVE  KineticInv'
  <2> USE DEF KineticInv
  <2>1. Kinetic!TypeOK'
    BY <1>3 DEF Kinetic!TypeOK, Kinetic!KineticAssumption
  <2>2. OneEffect'  BY <1>3 DEF OneEffect, Kinetic!TypeOK
  <2>3. failed' = 0 => failed = 0  BY <1>3 DEF Kinetic!TypeOK
  <2>4. PlaysAsTold'  BY <1>3, <2>3 DEF PlaysAsTold, Kinetic!Level
  <2> QED  BY <2>1, <2>2, <2>4
<1>4. /\ evdev \in {"none", "open"} /\ status \in {"off", "reading", "stopping"}
      /\ place \in [Callers -> {"out", "join", "kfClear", "kfClose"}]
      /\ failed \in 0..MaxFaults /\ left \in 0..Budget /\ MaxFaults \in Nat
  BY DEF KineticInv, Kinetic!TypeOK, Kinetic!KineticAssumption
<1>5. CASE UNCHANGED Kinetic!vars
  BY <1>3, <1>4, <1>5 DEF Kinetic!vars
<1>6. ASSUME NEW c \in Callers, NEW t \in Torques \cup {NaN}, Kinetic!SetTorque(c, t)
      PROVE  KineticInv'
  BY <1>6, SetTorqueKeeps
<1>7. ASSUME NEW c \in Callers, Kinetic!ClearCall(c) PROVE KineticInv'
  <2>1. left' \in 0..Budget
    BY <1>1, <1>7 DEF Kinetic!ClearCall, Kinetic!Begin
  <2> QED  BY <1>4, <1>7, <2>1, ClearKeeps DEF Kinetic!ClearCall
<1>8. ASSUME NEW c \in Callers, Kinetic!AngleCall(c) PROVE KineticInv'
  <2>1. left' \in 0..Budget
    BY <1>1, <1>8 DEF Kinetic!AngleCall, Kinetic!Begin
  <2> QED  BY <1>3, <1>4, <1>8, <2>1 DEF Kinetic!AngleCall, Kinetic!MayFail
<1>9. ASSUME NEW c \in Callers, Kinetic!CloseCall(c) PROVE KineticInv'
  <2>1. left' \in 0..Budget
    BY <1>1, <1>9 DEF Kinetic!CloseCall, Kinetic!Begin
  <2>2. place' \in [Callers -> {"out", "join", "kfClear", "kfClose"}]
    BY <1>2, <1>9 DEF Kinetic!CloseCall
  <2> QED  BY <1>3, <1>4, <1>9, <2>1, <2>2 DEF Kinetic!CloseCall
<1>10. ASSUME NEW c \in Callers, Kinetic!StatusJoin(c) PROVE KineticInv'
  <2>1. place' \in [Callers -> {"out", "join", "kfClear", "kfClose"}]
    BY <1>2, <1>10 DEF Kinetic!StatusJoin
  <2> QED  BY <1>3, <1>4, <1>10, <2>1 DEF Kinetic!StatusJoin
<1>11. ASSUME NEW c \in Callers, Kinetic!CloseClear(c) PROVE KineticInv'
  <2>1. place' \in [Callers -> {"out", "join", "kfClear", "kfClose"}]
    BY <1>2, <1>11 DEF Kinetic!CloseClear
  <2> QED  BY <1>4, <1>11, <2>1, ClearKeeps DEF Kinetic!CloseClear
<1>12. ASSUME NEW c \in Callers, Kinetic!KfClose(c) PROVE KineticInv'
  <2> USE DEF KineticInv
  <2>1. place' \in [Callers -> {"out", "join", "kfClear", "kfClose"}]
    BY <1>2, <1>12 DEF Kinetic!KfClose
  <2>2. effect_id' = -1
    BY <1>4, <1>12 DEF Kinetic!KfClose, OneEffect
  <2>3. DOMAIN effects' = {} /\ playing' = FALSE /\ last' = 0 /\ evdev' = "none"
        /\ UNCHANGED <<status, failed, left>>
    BY <1>12 DEF Kinetic!KfClose
  <2>4. Kinetic!TypeOK'
    <3>1. last' \in -Peak..Peak  BY <2>3 DEF Kinetic!KineticAssumption
    <3>2. playing' \in BOOLEAN  BY <2>3
    <3> QED  BY <2>1, <2>2, <2>3, <3>1, <3>2 DEF Kinetic!TypeOK
  <2>5. OneEffect' /\ PlaysAsTold'
    <3>1. ~playing'  BY <2>3
    <3> QED  BY <2>2, <2>3, <3>1 DEF OneEffect, PlaysAsTold
  <2> QED  BY <2>4, <2>5
<1> QED
  BY <1>5, <1>6, <1>7, <1>8, <1>9, <1>10, <1>11, <1>12 DEF Kinetic!Next

LEMMA StatusStep ==
  Kinetic!OneCaller /\ KineticInv /\ JoinedFirst /\ [Kinetic!Next]_(Kinetic!vars) => JoinedFirst'
<1> SUFFICES ASSUME Kinetic!OneCaller, KineticInv, JoinedFirst, [Kinetic!Next]_(Kinetic!vars)
             PROVE  JoinedFirst'
  OBVIOUS
<1> USE DEF JoinedFirst, Kinetic!StatusReadsOpenFd, Kinetic!OneCaller
<1>1. place \in [Callers -> {"out", "join", "kfClear", "kfClose"}]
  BY DEF KineticInv, Kinetic!TypeOK
<1>2. CASE UNCHANGED Kinetic!vars
  BY <1>2 DEF Kinetic!vars
<1>3. ASSUME NEW c \in Callers, NEW t, Kinetic!SetTorque(c, t) PROVE JoinedFirst'
  BY <1>1, <1>3 DEF Kinetic!SetTorque
<1>4. ASSUME NEW c \in Callers, Kinetic!ClearCall(c) \/ Kinetic!CloseClear(c) PROVE JoinedFirst'
  BY <1>1, <1>4 DEF Kinetic!ClearCall, Kinetic!CloseClear
<1>5. ASSUME NEW c \in Callers, Kinetic!AngleCall(c) PROVE JoinedFirst'
  BY <1>1, <1>5 DEF Kinetic!AngleCall, Kinetic!Begin
<1>6. ASSUME NEW c \in Callers, Kinetic!CloseCall(c) \/ Kinetic!StatusJoin(c) PROVE JoinedFirst'
  BY <1>1, <1>6 DEF Kinetic!CloseCall, Kinetic!StatusJoin
<1>7. ASSUME NEW c \in Callers, Kinetic!KfClose(c) PROVE JoinedFirst'
  BY <1>1, <1>7 DEF Kinetic!KfClose
<1> QED  BY <1>2, <1>3, <1>4, <1>5, <1>6, <1>7 DEF Kinetic!Next

LEMMA KineticSound == KineticInv => Kinetic!TypeOK /\ Kinetic!MotorFollowsCalls
<1> SUFFICES ASSUME KineticInv, failed = 0
             PROVE  Kinetic!MapThenSumSet(LAMBDA s : effects[s].level, Kinetic!Applied)
                      = IF playing THEN Kinetic!Level(last) ELSE 0
  BY DEF KineticInv, Kinetic!MotorFollowsCalls
<1>1. CASE playing
  <2>1. DOMAIN effects = {effect_id} /\ effect_id # -1
    BY <1>1 DEF KineticInv, OneEffect
  <2>2. effects[effect_id].on /\ effects[effect_id].level = Kinetic!Level(last)
    BY <1>1, <2>1 DEF KineticInv, PlaysAsTold
  <2>3. effects[effect_id].level \in Int
    BY <2>1 DEF KineticInv, Kinetic!TypeOK
  <2>4. Kinetic!Applied = {effect_id}
    BY <2>1, <2>2 DEF Kinetic!Applied
  <2> QED  BY <1>1, <2>2, <2>3, <2>4, SumOne
<1>2. CASE ~playing
  <2>1. Kinetic!Applied = {}
    BY <1>2 DEF KineticInv, OneEffect, PlaysAsTold, Kinetic!Applied
  <2> QED  BY <1>2, <2>1, SumNone
<1> QED  BY <1>1, <1>2

\* kf.c: as long as no system call failed, the effects that play add up to what
\* GetTorqueKF reports, and to nothing after a clear; for any torques, slots and
\* callers, where slot 0 is not the library's.
THEOREM MotorDoesAsTold ==
  ASSUME Kinetic!KineticAssumption
  PROVE  Kinetic!Spec => [](Kinetic!TypeOK /\ Kinetic!MotorFollowsCalls)
<1>1. Kinetic!Init => KineticInv  BY KineticStarts
<1>2. KineticInv /\ [Kinetic!Next]_(Kinetic!vars) => KineticInv'  BY KineticStep
<1> QED  BY <1>1, <1>2, KineticSound, PTL DEF Kinetic!Spec

(***************************************************************************)
(* The shared memory of iRacing.                                           *)
(***************************************************************************)
\* The buffer a frame is written to.
SlotOf(f) == (f % 3) + 1

\* The frames the game finished, and those it had finished when the copy under
\* way was begun.
Finished == IF script = <<>> THEN frame ELSE frame - 1
Begun    == Finished - finished

\* c is the count of a frame of slot s, or 0, and no finished frame of that slot
\* up to d is newer.
NewestOf(c, s, d) ==
  /\ c \in 0..Finished /\ (c = 0 \/ SlotOf(c) = s)
  /\ \A g \in 1..d : SlotOf(g) = s => g <= c

Under(s) == script # <<>> /\ SlotOf(frame) = s

\* The section as the game writes it: every slot at rest holds one frame, the
\* newest of that slot; the one under way is written in order.
GameInv ==
  /\ frame \in Nat
  /\ mem = <<>> => frame = 0 /\ script = <<>> /\ copied = <<>>
  /\ script # <<>> => frame > 0 /\ \/ script = Shm!Writes(frame)
                                   \/ script = Tail(Shm!Writes(frame))
                                   \/ script = Tail(Tail(Shm!Writes(frame)))
  /\ mem # <<>> =>
       /\ mem \in [Shm!Range(Shm!Layout) -> Int]
       /\ \A s \in Shm!Slots :
            /\ NewestOf(Shm!Tick(mem, s), s, Finished)
            /\ ~Under(s) => Shm!BufA(mem, s) = Shm!Tick(mem, s)
                 /\ Shm!BufB(mem, s) = Shm!Tick(mem, s)
            /\ Under(s) => /\ Len(script) <= 2 => Shm!BufA(mem, s) = frame
                           /\ Len(script) <= 1 => Shm!BufB(mem, s) = frame

\* The copy: its ticks are at least as new as the section was when it was
\* begun, and a buffer whose tick is that new was copied whole.
CopyInv ==
  /\ copied \in Seq(Int) /\ Len(copied) <= 10
  /\ finished \in 0..Pace
  /\ Begun \in Nat
  /\ \A s \in Shm!Slots : Len(copied) > s =>
       /\ NewestOf(copied[s + 1], s, Begun)
       /\ copied[s + 1] > 0 /\ copied[s + 1] >= Begun =>
            /\ Len(copied) >= 2 * s + 3 => copied[2 * s + 3] = copied[s + 1]
            /\ Len(copied) >= 2 * s + 4 => copied[2 * s + 4] = copied[s + 1]

SectionInv == Shm!NewestBufferWhole /\ (title = "iracing" => GameInv /\ CopyInv)

LEMMA SectionIs == title = "iracing" =>
  /\ Shm!Layout = <<"status", "t1", "t2", "t3", "a1", "b1", "a2", "b2", "a3", "b3">>
  /\ Len(Shm!Layout) = 10
  /\ Shm!Range(Shm!Layout) = {"status", "t1", "t2", "t3", "a1", "b1", "a2", "b2", "a3", "b3"}
<1> SUFFICES ASSUME title = "iracing"
             PROVE /\ Shm!Layout
                        = <<"status", "t1", "t2", "t3", "a1", "b1", "a2", "b2", "a3", "b3">>
                   /\ Len(Shm!Layout) = 10
                   /\ Shm!Range(Shm!Layout)
                        = {"status", "t1", "t2", "t3", "a1", "b1", "a2", "b2", "a3", "b3"}
  OBVIOUS
<1>1. Shm!Layout = <<"status", "t1", "t2", "t3", "a1", "b1", "a2", "b2", "a3", "b3">>
  BY DEF Shm!Layout
<1>2. Len(Shm!Layout) = 10  BY <1>1
<1>3. DOMAIN Shm!Layout = 1..10  BY <1>1
<1>4. Shm!Range(Shm!Layout) = {Shm!Layout[i] : i \in 1..10}  BY <1>3 DEF Shm!Range
<1>5. Shm!Range(Shm!Layout) =
        {Shm!Layout[1], Shm!Layout[2], Shm!Layout[3], Shm!Layout[4], Shm!Layout[5],
         Shm!Layout[6], Shm!Layout[7], Shm!Layout[8], Shm!Layout[9], Shm!Layout[10]}
  BY <1>4
<1> QED  BY <1>1, <1>2, <1>5

LEMMA CopyOf ==
  ASSUME title = "iracing", NEW i \in 1..10
  PROVE  Shm!Copy[Shm!Layout[i]] = copied[i]
<1>1. Shm!Layout[i] \in Shm!Range(Shm!Layout)
  BY SectionIs DEF Shm!Range
<1>2. \A j \in 1..10 : Shm!Layout[j] = Shm!Layout[i] => j = i
  BY SectionIs
<1>3. Len(Shm!Layout) = 10  BY SectionIs
<1> QED  BY <1>1, <1>2, <1>3 DEF Shm!Copy

LEMMA SlotsAre == Shm!Slots = {1, 2, 3}
BY DEF Shm!Slots

LEMMA NewestIs ==
  ASSUME NEW c, \A s \in Shm!Slots : Shm!Tick(c, s) \in Int
  PROVE  /\ Shm!NewestSlot(c) \in Shm!Slots
         /\ \A t \in Shm!Slots : Shm!Tick(c, Shm!NewestSlot(c)) >= Shm!Tick(c, t)
<1>1. PICK s \in Shm!Slots : /\ \A t \in Shm!Slots : Shm!Tick(c, s) >= Shm!Tick(c, t)
                             /\ \A t \in 1..s - 1 : Shm!Tick(c, t) < Shm!Tick(c, s)
  <2>1. Shm!Tick(c, 1) \in Int /\ Shm!Tick(c, 2) \in Int /\ Shm!Tick(c, 3) \in Int
    BY DEF Shm!Slots
  <2>2. CASE Shm!Tick(c, 1) >= Shm!Tick(c, 2) /\ Shm!Tick(c, 1) >= Shm!Tick(c, 3)
    BY <2>1, <2>2 DEF Shm!Slots
  <2>3. CASE Shm!Tick(c, 2) > Shm!Tick(c, 1) /\ Shm!Tick(c, 2) >= Shm!Tick(c, 3)
    <3>1. 2 \in Shm!Slots /\ \A t \in Shm!Slots : Shm!Tick(c, 2) >= Shm!Tick(c, t)
      BY <2>1, <2>3, SlotsAre
    <3>2. \A t \in 1..2 - 1 : Shm!Tick(c, t) < Shm!Tick(c, 2)
      BY <2>1, <2>3
    <3> QED  BY <3>1, <3>2
  <2>4. CASE Shm!Tick(c, 3) > Shm!Tick(c, 1) /\ Shm!Tick(c, 3) > Shm!Tick(c, 2)
    <3>1. 3 \in Shm!Slots /\ \A t \in Shm!Slots : Shm!Tick(c, 3) >= Shm!Tick(c, t)
      BY <2>1, <2>4, SlotsAre
    <3>2. \A t \in 1..3 - 1 : Shm!Tick(c, t) < Shm!Tick(c, 3)
      BY <2>1, <2>4
    <3> QED  BY <3>1, <3>2
  <2> QED  BY <2>1, <2>2, <2>3, <2>4
<1> QED  BY <1>1 DEF Shm!NewestSlot

\* The words of a slot.
TickWord(s) == Shm!Row(<<"t1", "t2", "t3">>, s)
WordA(s)    == Shm!Row(<<"a1", "a2", "a3">>, s)
WordB(s)    == Shm!Row(<<"b1", "b2", "b3">>, s)

LEMMA SlotWords ==
  ASSUME NEW c, NEW s \in Shm!Slots
  PROVE  Shm!Tick(c, s) = c[TickWord(s)] /\ Shm!BufA(c, s) = c[WordA(s)]
           /\ Shm!BufB(c, s) = c[WordB(s)]
BY DEF Shm!Tick, Shm!BufA, Shm!BufB, Shm!Row, TickWord, WordA, WordB, Shm!Slots

LEMMA WordsApart ==
  ASSUME NEW s \in Shm!Slots, NEW t \in Shm!Slots
  PROVE  /\ TickWord(s) # WordA(t) /\ TickWord(s) # WordB(t) /\ WordA(s) # WordB(t)
         /\ s # t => TickWord(s) # TickWord(t) /\ WordA(s) # WordA(t) /\ WordB(s) # WordB(t)
BY DEF Shm!Row, TickWord, WordA, WordB, Shm!Slots

LEMMA WordsOfSection ==
  ASSUME title = "iracing", NEW s \in Shm!Slots
  PROVE  TickWord(s) \in Shm!Range(Shm!Layout) /\ WordA(s) \in Shm!Range(Shm!Layout)
           /\ WordB(s) \in Shm!Range(Shm!Layout)
BY SectionIs DEF Shm!Row, TickWord, WordA, WordB, Shm!Slots

LEMMA SlotOfFrame == ASSUME NEW f \in Nat PROVE SlotOf(f) \in Shm!Slots
BY DEF SlotOf, Shm!Slots

LEMMA FrameWrites ==
  ASSUME title = "iracing", NEW f
  PROVE  Shm!Writes(f)
           = << <<WordA(SlotOf(f)), f>>, <<WordB(SlotOf(f)), f>>, <<TickWord(SlotOf(f)), f>> >>
BY DEF Shm!Writes, SlotOf, WordA, WordB, TickWord

\* Two frames of one slot are three apart.
LEMMA SlotsRotate ==
  ASSUME NEW f \in Nat, NEW g \in Nat, SlotOf(f) = SlotOf(g), f < g
  PROVE  f + 3 <= g
BY DEF SlotOf

LEMMA CopyKept ==
  ASSUME CopyInv, UNCHANGED copied, Begun' = Begun, Finished' \in Int, Finished \in Int,
         Finished' >= Finished, finished' \in 0..Pace
  PROVE  CopyInv'
BY DEF CopyInv, NewestOf

LEMMA SectionStarts == Shm!PaceAssumption /\ Shm!Init => SectionInv
<1> SUFFICES ASSUME Shm!PaceAssumption, Shm!Init PROVE SectionInv
  OBVIOUS
<1>1. Shm!NewestBufferWhole  BY DEF Shm!Init, Shm!NewestBufferWhole
<1>2. GameInv  BY DEF Shm!Init, GameInv
<1>3. CopyInv  BY DEF Shm!Init, CopyInv, Begun, Finished, Shm!PaceAssumption, Shm!Slots
<1> QED  BY <1>1, <1>2, <1>3 DEF SectionInv

\* The script of the frame under way, by what is left of it.
LEMMA ScriptIs ==
  ASSUME title = "iracing", GameInv, script # <<>>
  PROVE  /\ frame > 0 /\ frame \in Nat /\ SlotOf(frame) \in Shm!Slots /\ Head(script)[2] = frame
         /\ \/ /\ Len(script) = 3 /\ Head(script)[1] = WordA(SlotOf(frame))
               /\ Tail(script) = Tail(Shm!Writes(frame)) /\ Len(Tail(script)) = 2
                    /\ Tail(script) # <<>>
            \/ /\ Len(script) = 2 /\ Head(script)[1] = WordB(SlotOf(frame))
               /\ Tail(script) = Tail(Tail(Shm!Writes(frame))) /\ Len(Tail(script)) = 1
               /\ Tail(script) # <<>>
            \/ /\ Len(script) = 1 /\ Head(script)[1] = TickWord(SlotOf(frame))
                    /\ Tail(script) = <<>>
<1>1. frame > 0 /\ frame \in Nat /\ SlotOf(frame) \in Shm!Slots
  BY SlotOfFrame DEF GameInv
<1>2. PICK a, b, t : /\ Shm!Writes(frame) = << <<a, frame>>, <<b, frame>>, <<t, frame>> >>
                     /\ a = WordA(SlotOf(frame)) /\ b = WordB(SlotOf(frame))
                     /\ t = TickWord(SlotOf(frame))
  BY FrameWrites
<1>3. /\ Tail(Shm!Writes(frame)) = << <<b, frame>>, <<t, frame>> >>
      /\ Tail(Tail(Shm!Writes(frame))) = << <<t, frame>> >>
  BY <1>2
<1>4. /\ Len(<< <<b, frame>>, <<t, frame>> >>) = 2 /\ << <<b, frame>>, <<t, frame>> >> # <<>>
      /\ Len(<< <<t, frame>> >>) = 1 /\ << <<t, frame>> >> # <<>>
  OBVIOUS
<1>5. CASE script = Shm!Writes(frame)
  <2>1. Len(script) = 3 /\ Head(script) = <<a, frame>>  BY <1>2, <1>5
  <2>2. Head(script)[1] = a /\ Head(script)[2] = frame  BY <2>1
  <2> QED  BY <1>1, <1>2, <1>3, <1>4, <1>5, <2>1, <2>2
<1>6. CASE script = Tail(Shm!Writes(frame))
  <2>1. script = << <<b, frame>>, <<t, frame>> >>  BY <1>3, <1>6
  <2>2. Len(script) = 2 /\ Head(script) = <<b, frame>>  BY <2>1
  <2>3. Head(script)[1] = b /\ Head(script)[2] = frame  BY <2>2
  <2> QED  BY <1>1, <1>2, <1>3, <1>4, <1>6, <2>2, <2>3
<1>7. CASE script = Tail(Tail(Shm!Writes(frame)))
  <2>1. script = << <<t, frame>> >>  BY <1>3, <1>7
  <2>2. Len(script) = 1 /\ Head(script) = <<t, frame>> /\ Tail(script) = <<>>
    BY <2>1
  <2>3. Head(script)[1] = t /\ Head(script)[2] = frame  BY <2>2
  <2> QED  BY <1>1, <1>2, <2>2, <2>3
<1> QED  BY <1>5, <1>6, <1>7 DEF GameInv

LEMMA BlankIs ==
  ASSUME title = "iracing", NEW v
  PROVE  /\ Shm!Blank(v) \in [Shm!Range(Shm!Layout) -> Int]
         /\ \A s \in Shm!Slots : Shm!Tick(Shm!Blank(v), s) = 0
              /\ Shm!BufA(Shm!Blank(v), s) = 0 /\ Shm!BufB(Shm!Blank(v), s) = 0
<1>1. ASSUME NEW w \in Shm!Range(Shm!Layout), w # "status"
      PROVE  Shm!Blank(v)[w] = 0
  <2>1. w # "version" /\ w # "player"  BY SectionIs
  <2> QED  BY <1>1, <2>1, Zenon DEF Shm!Blank
<1>2. ASSUME "status" \in Shm!Range(Shm!Layout) PROVE Shm!Blank(v)["status"] = 1
  BY <1>2, Zenon DEF Shm!Blank
<1>3. DOMAIN Shm!Blank(v) = Shm!Range(Shm!Layout)
        /\ Shm!Blank(v) = [w \in DOMAIN Shm!Blank(v) |-> Shm!Blank(v)[w]]
  BY Zenon DEF Shm!Blank
<1>4. \A w \in Shm!Range(Shm!Layout) : Shm!Blank(v)[w] \in Int
  BY <1>1, <1>2
<1>5. Shm!Blank(v) \in [Shm!Range(Shm!Layout) -> Int]
  BY <1>3, <1>4
<1>6. \A s \in Shm!Slots : TickWord(s) # "status" /\ WordA(s) # "status" /\ WordB(s) # "status"
  BY DEF TickWord, WordA, WordB, Shm!Row, Shm!Slots
<1>7. \A s \in Shm!Slots : Shm!Blank(v)[TickWord(s)] = 0 /\ Shm!Blank(v)[WordA(s)] = 0
        /\ Shm!Blank(v)[WordB(s)] = 0
  BY <1>1, <1>6, WordsOfSection
<1> QED  BY <1>5, <1>7, SlotWords

LEMMA GameUpKeeps ==
  ASSUME title = "iracing", GameInv, CopyInv, Shm!GameUp
  PROVE  GameInv' /\ CopyInv'
<1>1. PICK v : mem' = Shm!Blank(v)  BY DEF Shm!GameUp
<1>2. /\ frame = 0 /\ script = <<>> /\ copied = <<>>
      /\ UNCHANGED <<title, frame, script, copied, finished>>
  BY DEF Shm!GameUp, GameInv
<1>3. Shm!Layout' = Shm!Layout  BY <1>2 DEF Shm!Layout
<1>4. /\ mem' \in [Shm!Range(Shm!Layout)' -> Int]
      /\ \A s \in Shm!Slots : Shm!Tick(mem', s) = 0 /\ Shm!BufA(mem', s) = 0
           /\ Shm!BufB(mem', s) = 0
  BY <1>1, <1>3, BlankIs
<1>5. Finished' = 0  BY <1>2 DEF Finished
<1>6. GameInv'
  BY <1>2, <1>4, <1>5 DEF GameInv, NewestOf, Under
<1>7. CopyInv'
  BY <1>2, CopyKept DEF Begun, Finished, CopyInv
<1> QED  BY <1>6, <1>7

LEMMA BeginKeeps ==
  ASSUME title = "iracing", GameInv, CopyInv, Shm!BeginFrame
  PROVE  GameInv' /\ CopyInv'
<1>1. /\ frame' = frame + 1 /\ script = <<>> /\ mem # <<>> /\ frame \in Nat
      /\ UNCHANGED <<title, mem, copied, finished>>
      /\ script' = Shm!Writes(frame + 1)
  BY DEF Shm!BeginFrame, GameInv
<1>2. Shm!Layout' = Shm!Layout  BY <1>1 DEF Shm!Layout
<1>3. Len(script') = 3 /\ script' # <<>>  BY <1>1, FrameWrites
<1>4. Finished' = Finished /\ Finished = frame
  BY <1>1, <1>3 DEF Finished
<1>5. script' = Shm!Writes(frame)'
  BY <1>1 DEF Shm!Writes
<1>6. \A s \in Shm!Slots : NewestOf(Shm!Tick(mem, s), s, Finished)' /\ ~Under(s)
  BY <1>1, <1>4 DEF GameInv, NewestOf, Under
<1>7. \A s \in Shm!Slots : Shm!BufA(mem', s) = Shm!Tick(mem', s)
        /\ Shm!BufB(mem', s) = Shm!Tick(mem', s)
  BY <1>1, <1>6 DEF GameInv
<1>8. GameInv'
  <2>1. frame' \in Nat /\ frame' > 0 /\ mem' # <<>>  BY <1>1
  <2>2. mem' \in [Shm!Range(Shm!Layout)' -> Int]  BY <1>1, <1>2 DEF GameInv
  <2>3. ~(Len(script') <= 2) /\ ~(Len(script') <= 1)  BY <1>3
  <2> QED  BY <1>5, <1>6, <1>7, <2>1, <2>2, <2>3 DEF GameInv
<1>9. CopyInv'
  BY <1>1, <1>4, CopyKept DEF Begun, CopyInv
<1> QED  BY <1>8, <1>9

\* One word written: the others are as they were.
LEMMA Stored ==
  ASSUME title = "iracing", NEW m \in [Shm!Range(Shm!Layout) -> Int], NEW n, NEW f \in Int,
         NEW w \in Shm!Range(Shm!Layout), n \in [Shm!Range(Shm!Layout) -> Int],
         \A u \in Shm!Range(Shm!Layout) : n[u] = IF w = u THEN f ELSE m[u]
  PROVE  /\ n # <<>>
         /\ \A s \in Shm!Slots : /\ Shm!Tick(n, s)
                                      = IF w = TickWord(s) THEN f ELSE Shm!Tick(m, s)
                                 /\ Shm!BufA(n, s) = IF w = WordA(s) THEN f ELSE Shm!BufA(m, s)
                                 /\ Shm!BufB(n, s) = IF w = WordB(s) THEN f ELSE Shm!BufB(m, s)
<1>2. DOMAIN n # {}  OBVIOUS
<1>3. n # <<>>
  <2>1. DOMAIN <<>> = {}  OBVIOUS
  <2> QED  BY <1>2, <2>1
<1>5. ASSUME NEW s \in Shm!Slots
      PROVE  /\ Shm!Tick(n, s) = IF w = TickWord(s) THEN f ELSE Shm!Tick(m, s)
             /\ Shm!BufA(n, s) = IF w = WordA(s) THEN f ELSE Shm!BufA(m, s)
             /\ Shm!BufB(n, s) = IF w = WordB(s) THEN f ELSE Shm!BufB(m, s)
  <2>1. TickWord(s) \in Shm!Range(Shm!Layout) /\ WordA(s) \in Shm!Range(Shm!Layout)
          /\ WordB(s) \in Shm!Range(Shm!Layout)
    BY WordsOfSection
  <2>2. /\ n[TickWord(s)] = IF w = TickWord(s) THEN f ELSE m[TickWord(s)]
        /\ n[WordA(s)] = IF w = WordA(s) THEN f ELSE m[WordA(s)]
        /\ n[WordB(s)] = IF w = WordB(s) THEN f ELSE m[WordB(s)]
    BY <2>1
  <2>3. /\ Shm!Tick(n, s) = n[TickWord(s)] /\ Shm!BufA(n, s) = n[WordA(s)]
             /\ Shm!BufB(n, s) = n[WordB(s)]
        /\ Shm!Tick(m, s) = m[TickWord(s)] /\ Shm!BufA(m, s) = m[WordA(s)]
             /\ Shm!BufB(m, s) = m[WordB(s)]
    BY SlotWords
  <2> QED  BY <2>2, <2>3
<1> QED  BY <1>3, <1>5

LEMMA WriteKeeps ==
  ASSUME title = "iracing", Shm!PaceAssumption, GameInv, CopyInv, Shm!WriteWord
  PROVE  GameInv' /\ CopyInv'
<1> DEFINE S == SlotOf(frame)
<1>1. /\ UNCHANGED <<title, frame, copied>> /\ script # <<>> /\ mem # <<>>
      /\ mem \in [Shm!Range(Shm!Layout) -> Int] /\ frame \in Nat /\ frame > 0 /\ S \in Shm!Slots
      /\ script' = Tail(script)
  BY ScriptIs DEF Shm!WriteWord, GameInv
<1>2. Shm!Layout' = Shm!Layout /\ Shm!Writes(frame)' = Shm!Writes(frame) /\ SlotOf(frame)' = S
  BY <1>1 DEF Shm!Layout, Shm!Writes, SlotOf
<1>3. /\ WordA(S) \in Shm!Range(Shm!Layout) /\ WordB(S) \in Shm!Range(Shm!Layout)
           /\ TickWord(S) \in Shm!Range(Shm!Layout)
  BY <1>1, WordsOfSection
<1>4. Finished = frame - 1  BY <1>1 DEF Finished
<1>5. \A s \in Shm!Slots : /\ NewestOf(Shm!Tick(mem, s), s, Finished)
                           /\ s # S => Shm!BufA(mem, s) = Shm!Tick(mem, s)
                                /\ Shm!BufB(mem, s) = Shm!Tick(mem, s)
  BY <1>1 DEF GameInv, Under
<1>9. PICK w, f : mem' = [mem EXCEPT ![w] = f] /\ w = Head(script)[1] /\ f = Head(script)[2]
  BY Zenon DEF Shm!WriteWord
<1>10. f = frame  BY <1>1, <1>9, ScriptIs
<1>11. w \in {WordA(S), WordB(S), TickWord(S)}  BY <1>1, <1>9, ScriptIs
<1>12. w \in Shm!Range(Shm!Layout) /\ f \in Int  BY <1>1, <1>3, <1>10, <1>11
<1>13. /\ mem' \in [Shm!Range(Shm!Layout) -> Int] /\ mem' # <<>>
       /\ \A s \in Shm!Slots : /\ Shm!Tick(mem', s)
                                    = IF w = TickWord(s) THEN f ELSE Shm!Tick(mem, s)
                               /\ Shm!BufA(mem', s)
                                    = IF w = WordA(s) THEN f ELSE Shm!BufA(mem, s)
                               /\ Shm!BufB(mem', s)
                                    = IF w = WordB(s) THEN f ELSE Shm!BufB(mem, s)
  <2>1. mem' = [mem EXCEPT ![w] = f]  BY <1>9
  <2>2. mem \in [Shm!Range(Shm!Layout) -> Int]  BY <1>1
  <2>3. /\ mem' \in [Shm!Range(Shm!Layout) -> Int]
        /\ \A u \in Shm!Range(Shm!Layout) : mem'[u] = IF w = u THEN f ELSE mem[u]
    BY <1>12, <2>1, <2>2
  <2> QED  BY <1>12, <2>2, <2>3, Stored
<1>6. CASE Len(script) = 3
  <2>1. /\ w = WordA(S) /\ script' # <<>> /\ Len(script') = 2
        /\ script' = Tail(Shm!Writes(frame))
    BY <1>1, <1>9, <1>6, ScriptIs
  <2>2. \A s \in Shm!Slots :
          /\ Shm!Tick(mem', s) = Shm!Tick(mem, s) /\ Shm!BufB(mem', s) = Shm!BufB(mem, s)
          /\ Shm!BufA(mem', s) = IF s = S THEN frame ELSE Shm!BufA(mem, s)
    BY <1>1, <1>10, <1>13, <2>1, WordsApart
  <2>4. Finished' = Finished /\ Begun' = Begun
    BY <1>1, <1>4, <1>6, <2>1 DEF Finished, Begun, Shm!WriteWord
  <2>3. \A s \in Shm!Slots :
          /\ NewestOf(Shm!Tick(mem, s), s, Finished)'
          /\ ~Under(s)' => Shm!BufA(mem', s) = Shm!Tick(mem', s)
               /\ Shm!BufB(mem', s) = Shm!Tick(mem', s)
          /\ Under(s)' => s = S
    BY <1>1, <1>2, <1>5, <2>1, <2>2, <2>4 DEF NewestOf, Under
  <2>5. GameInv'
    <3>1. \A s \in Shm!Slots : Under(s)' => /\ Len(script') <= 2 => Shm!BufA(mem', s) = frame'
                                            /\ Len(script') <= 1 => Shm!BufB(mem', s) = frame'
      <4>1. Shm!BufA(mem', S) = frame /\ frame' = frame /\ Len(script') = 2
        BY <1>1, <2>1, <2>2
      <4>2. \A s \in Shm!Slots : Under(s)' => s = S  BY <2>3
      <4>3. ~(Len(script') <= 1)  BY <4>1
      <4> QED  BY <4>1, <4>2, <4>3
    <3> QED  BY <1>1, <1>2, <1>13, <2>1, <2>3, <3>1 DEF GameInv
  <2>6. CopyInv'
    BY <1>1, <1>4, <1>6, <2>4, CopyKept DEF Shm!WriteWord, CopyInv
  <2> QED  BY <2>5, <2>6
<1>7. CASE Len(script) = 2
  <2>1. /\ w = WordB(S) /\ script' # <<>> /\ Len(script') = 1
        /\ script' = Tail(Tail(Shm!Writes(frame))) /\ Shm!BufA(mem, S) = frame
    <3>1. Shm!BufA(mem, S) = frame
      BY <1>1, <1>7 DEF GameInv, Under
    <3> QED  BY <1>1, <1>9, <1>7, <3>1, ScriptIs
  <2>2. \A s \in Shm!Slots :
          /\ Shm!Tick(mem', s) = Shm!Tick(mem, s) /\ Shm!BufA(mem', s) = Shm!BufA(mem, s)
          /\ Shm!BufB(mem', s) = IF s = S THEN frame ELSE Shm!BufB(mem, s)
    BY <1>1, <1>10, <1>13, <2>1, WordsApart
  <2>4. Finished' = Finished /\ Begun' = Begun
    BY <1>1, <1>4, <1>7, <2>1 DEF Finished, Begun, Shm!WriteWord
  <2>3. \A s \in Shm!Slots :
          /\ NewestOf(Shm!Tick(mem, s), s, Finished)'
          /\ ~Under(s)' => Shm!BufA(mem', s) = Shm!Tick(mem', s)
               /\ Shm!BufB(mem', s) = Shm!Tick(mem', s)
          /\ Under(s)' => s = S
    BY <1>1, <1>2, <1>5, <2>1, <2>2, <2>4 DEF NewestOf, Under
  <2>5. GameInv'
    <3>1. \A s \in Shm!Slots : Under(s)' => /\ Len(script') <= 2 => Shm!BufA(mem', s) = frame'
                                            /\ Len(script') <= 1 => Shm!BufB(mem', s) = frame'
      BY <1>1, <2>1, <2>2, <2>3
    <3> QED  BY <1>1, <1>2, <1>13, <2>1, <2>3, <3>1 DEF GameInv
  <2>6. CopyInv'
    BY <1>1, <1>4, <1>7, <2>4, CopyKept DEF Shm!WriteWord, CopyInv
  <2> QED  BY <2>5, <2>6
<1>8. CASE Len(script) = 1
  <2>1. /\ w = TickWord(S) /\ script' = <<>>
        /\ Shm!BufA(mem, S) = frame /\ Shm!BufB(mem, S) = frame
    BY <1>1, <1>9, <1>8, ScriptIs DEF GameInv, Under
  <2>2. \A s \in Shm!Slots :
          /\ Shm!BufA(mem', s) = Shm!BufA(mem, s) /\ Shm!BufB(mem', s) = Shm!BufB(mem, s)
          /\ Shm!Tick(mem', s) = IF s = S THEN frame ELSE Shm!Tick(mem, s)
    BY <1>1, <1>10, <1>13, <2>1, WordsApart
  <2>4. Finished' = frame
    BY <1>1, <2>1 DEF Finished
  <2>5. \A s \in Shm!Slots : NewestOf(Shm!Tick(mem, s), s, Finished)'
    BY <1>1, <1>4, <1>5, <2>2, <2>4 DEF NewestOf
  <2>6. \A s \in Shm!Slots : Shm!BufA(mem', s) = Shm!Tick(mem', s)
          /\ Shm!BufB(mem', s) = Shm!Tick(mem', s)
    BY <1>5, <2>1, <2>2
  <2>7. GameInv'
    BY <1>1, <1>2, <2>1, <1>13, <2>5, <2>6 DEF GameInv, Under
  <2>8. CASE copied # <<>>
    <3>1. finished' = finished + 1 /\ finished < Pace
      BY <1>8, <2>8 DEF Shm!WriteWord
    <3>2. Begun' = Begun /\ finished' \in 0..Pace
      BY <1>1, <1>4, <2>4, <3>1 DEF Begun, Shm!PaceAssumption, CopyInv
    <3> QED  BY <1>1, <1>4, <2>4, <2>7, <3>2, CopyKept
  <2>9. CASE copied = <<>>
    <3>1. finished' = finished  BY <1>8, <2>9 DEF Shm!WriteWord
    <3>2. Begun' = Begun + 1 /\ Begun \in Nat
      BY <1>1, <1>4, <2>4, <3>1 DEF Begun, CopyInv, Shm!PaceAssumption
    <3>3. CopyInv'  BY <1>1, <2>9, <3>1, <3>2 DEF CopyInv, Shm!Slots
    <3> QED  BY <2>7, <3>3
  <2> QED  BY <2>8, <2>9
<1> QED  BY <1>6, <1>7, <1>8, <1>1, ScriptIs

\* A buffer whose tick is not older than the copy is not touched before the
\* copy is over: the game would have to begin the third frame after it, with
\* only one finished meanwhile.
LEMMA StillThere ==
  ASSUME title = "iracing", Shm!PaceAssumption, GameInv, CopyInv, mem # <<>>,
           NEW s \in Shm!Slots,
         NEW c \in Nat, NewestOf(c, s, Begun), c > 0, c >= Begun
  PROVE  Shm!BufA(mem, s) = c /\ Shm!BufB(mem, s) = c
<1>1. /\ Finished \in Nat /\ Begun \in Nat /\ Finished <= Begun + 1 /\ c <= Finished
           /\ SlotOf(c) = s
  BY DEF GameInv, CopyInv, Begun, Finished, Shm!PaceAssumption, NewestOf
<1>2. /\ Shm!Tick(mem, s) \in 0..Finished
           /\ (Shm!Tick(mem, s) = 0 \/ SlotOf(Shm!Tick(mem, s)) = s)
      /\ c <= Shm!Tick(mem, s)
  BY <1>1 DEF GameInv, NewestOf
<1>3. Shm!Tick(mem, s) = c
  BY <1>1, <1>2, SlotsRotate
<1>4. ~Under(s)
  <2> SUFFICES ASSUME Under(s) PROVE FALSE
    OBVIOUS
  <2>1. frame \in Nat /\ frame = Finished + 1 /\ SlotOf(frame) = s
    BY DEF Under, Finished, GameInv
  <2> QED  BY <1>1, <2>1, SlotsRotate
<1> QED  BY <1>3, <1>4 DEF GameInv

LEMMA LayoutWords ==
  ASSUME title = "iracing", NEW s \in Shm!Slots, NEW m
  PROVE  /\ m[Shm!Layout[s + 1]] = Shm!Tick(m, s)
         /\ m[Shm!Layout[2 * s + 3]] = Shm!BufA(m, s)
              /\ m[Shm!Layout[2 * s + 4]] = Shm!BufB(m, s)
<1>1. CASE s = 1  BY <1>1, SectionIs DEF Shm!Tick, Shm!BufA, Shm!BufB, Shm!Row
<1>2. CASE s = 2  BY <1>2, SectionIs DEF Shm!Tick, Shm!BufA, Shm!BufB, Shm!Row
<1>3. CASE s = 3  BY <1>3, SectionIs DEF Shm!Tick, Shm!BufA, Shm!BufB, Shm!Row
<1> QED  BY <1>1, <1>2, <1>3, SlotsAre

LEMMA CopyKeeps ==
  ASSUME title = "iracing", Shm!PaceAssumption, GameInv, CopyInv, Shm!CopyWord
  PROVE  GameInv' /\ CopyInv'
<1>1. /\ UNCHANGED <<title, mem, frame, script, finished>> /\ mem # <<>> /\ Len(copied) < 10
      /\ copied \in Seq(Int) /\ Len(copied) \in Nat /\ mem \in [Shm!Range(Shm!Layout) -> Int]
  <2>1. Len(Shm!Layout) = 10  BY SectionIs
  <2>2. UNCHANGED <<title, mem, frame, script, finished>> /\ mem # <<>> /\ Len(copied) < 10
    BY <2>1 DEF Shm!CopyWord
  <2>3. copied \in Seq(Int)  BY DEF CopyInv
  <2> QED  BY <2>2, <2>3, LenProperties DEF GameInv
<1>2. PICK k, x : k = Len(copied) /\ x = mem[Shm!Layout[k + 1]] /\ copied' = Append(copied, x)
  BY Zenon DEF Shm!CopyWord
<1>3. Shm!Layout' = Shm!Layout /\ Shm!Writes(frame)' = Shm!Writes(frame)
        /\ Finished' = Finished /\ Begun' = Begun
  BY <1>1 DEF Shm!Layout, Shm!Writes, Finished, Begun
<1>4. GameInv'
  BY <1>1, <1>3 DEF GameInv, NewestOf, Under
<1>5. x \in Int
  <2>1. k + 1 \in 1..10
    <3>1. Len(copied) \in Nat /\ Len(copied) < 10  BY <1>1
    <3>2. k = Len(copied)  BY <1>2
    <3> QED  BY <3>1, <3>2
  <2>2. Shm!Layout[k + 1] \in Shm!Range(Shm!Layout)  BY <2>1, SectionIs DEF Shm!Range
  <2> QED  BY <1>1, <1>2, <2>2
<1>6. /\ copied' \in Seq(Int) /\ Len(copied') = k + 1 /\ k \in 0..9 /\ copied'[k + 1] = x
      /\ \A i \in 1..k : copied'[i] = copied[i]
  <2>1. Len(copied) \in Nat /\ Len(copied) < 10  BY <1>1
  <2>2. k = Len(copied)  BY <1>2
  <2>3. k \in 0..9
    <3>1. \A n \in Nat : n < 10 => n \in 0..9  OBVIOUS
    <3> QED  BY <2>1, <2>2, <3>1, Zenon
  <2>4. /\ Append(copied, x) \in Seq(Int) /\ Len(Append(copied, x)) = Len(copied) + 1
        /\ Append(copied, x)[Len(copied) + 1] = x
        /\ \A i \in 1..Len(copied) : Append(copied, x)[i] = copied[i]
    BY <1>1, <1>5, AppendProperties
  <2>5. copied' = Append(copied, x)  BY <1>2
  <2> QED  BY <2>2, <2>3, <2>4, <2>5
<1>7. ASSUME NEW s \in Shm!Slots, Len(copied') > s
      PROVE  NewestOf(copied[s + 1], s, Begun)'
  <2>1. CASE k > s
    BY <1>2, <1>3, <1>6, <2>1 DEF CopyInv, NewestOf, Shm!Slots
  <2>2. CASE k = s
    <3>1. x = Shm!Tick(mem, s)  BY <1>2, <2>2, LayoutWords
    <3>2. NewestOf(x, s, Finished)  BY <1>1, <3>1 DEF GameInv
    <3>3. Begun <= Finished /\ Begun \in Nat /\ Finished \in Nat
      BY DEF Begun, CopyInv, GameInv, Finished, Shm!PaceAssumption
    <3> QED  BY <1>3, <1>6, <2>2, <3>2, <3>3 DEF NewestOf
  <2> QED  BY <1>6, <1>7, <2>1, <2>2 DEF Shm!Slots
<1>8. ASSUME NEW s \in Shm!Slots, Len(copied') > s, copied'[s + 1] > 0, copied'[s + 1] >= Begun'
      PROVE  /\ Len(copied') >= 2 * s + 3 => copied'[2 * s + 3] = copied'[s + 1]
             /\ Len(copied') >= 2 * s + 4 => copied'[2 * s + 4] = copied'[s + 1]
  <2>1. CASE k < 2 * s + 2
    BY <1>6, <2>1 DEF Shm!Slots
  <2>2. CASE k >= 2 * s + 2
    <3>1. /\ copied'[s + 1] = copied[s + 1] /\ NewestOf(copied[s + 1], s, Begun)
          /\ copied[s + 1] > 0 /\ copied[s + 1] >= Begun /\ copied[s + 1] \in Nat
      <4>1. s + 1 \in 1..k /\ k > s  BY <1>6, <2>2 DEF Shm!Slots
      <4>2. NewestOf(copied[s + 1], s, Begun)  BY <1>2, <4>1 DEF CopyInv
      <4>3. copied[s + 1] \in Nat
        BY <4>2 DEF NewestOf, Finished, GameInv
      <4> QED  BY <1>3, <1>6, <1>8, <4>1, <4>2, <4>3
    <3>2. Shm!BufA(mem, s) = copied[s + 1] /\ Shm!BufB(mem, s) = copied[s + 1]
      BY <1>1, <3>1, StillThere
    <3>3. CASE k = 2 * s + 2
      <4>1. k + 1 = 2 * s + 3 /\ Len(copied') < 2 * s + 4  BY <1>6, <3>3 DEF Shm!Slots
      <4>2. x = Shm!BufA(mem, s)  BY <1>2, <4>1, LayoutWords
      <4> QED  BY <1>6, <3>1, <3>2, <4>1, <4>2 DEF Shm!Slots
    <3>4. CASE k = 2 * s + 3
      <4>1. k + 1 = 2 * s + 4 /\ 2 * s + 3 \in 1..k /\ Len(copied) > s
              /\ Len(copied) >= 2 * s + 3
        BY <1>2, <1>6, <3>4 DEF Shm!Slots
      <4>2. x = Shm!BufB(mem, s)  BY <1>2, <4>1, LayoutWords
      <4>3. copied[2 * s + 3] = copied[s + 1]
        BY <3>1, <4>1 DEF CopyInv
      <4> QED  BY <1>6, <3>1, <3>2, <4>1, <4>2, <4>3
    <3>5. CASE k > 2 * s + 3
      <4>1. /\ 2 * s + 3 \in 1..k /\ 2 * s + 4 \in 1..k
            /\ Len(copied) > s /\ Len(copied) >= 2 * s + 3 /\ Len(copied) >= 2 * s + 4
        BY <1>2, <1>6, <3>5 DEF Shm!Slots
      <4>2. copied[2 * s + 3] = copied[s + 1] /\ copied[2 * s + 4] = copied[s + 1]
        BY <3>1, <4>1 DEF CopyInv
      <4> QED  BY <1>6, <3>1, <4>1, <4>2
    <3> QED  BY <1>6, <2>2, <3>3, <3>4, <3>5 DEF Shm!Slots
  <2> QED  BY <1>6, <2>1, <2>2 DEF Shm!Slots
<1>9. CopyInv'
  BY <1>1, <1>3, <1>6, <1>7, <1>8 DEF CopyInv
<1> QED  BY <1>4, <1>9

LEMMA SendKeeps ==
  ASSUME title = "iracing", Shm!PaceAssumption, GameInv, CopyInv, Shm!NewestBufferWhole,
           Shm!Send
  PROVE  GameInv' /\ CopyInv' /\ Shm!NewestBufferWhole'
<1>1. /\ UNCHANGED <<title, mem, frame, script>> /\ Len(copied) = 10
      /\ copied' = <<>> /\ finished' = 0 /\ copied \in Seq(Int)
  BY SectionIs DEF Shm!Send, CopyInv
<1>2. Shm!Layout' = Shm!Layout /\ Shm!Writes(frame)' = Shm!Writes(frame)
        /\ Finished' = Finished /\ Finished \in Nat
  BY <1>1 DEF Shm!Layout, Shm!Writes, Finished, GameInv
<1>3. GameInv'
  BY <1>1, <1>2 DEF GameInv, NewestOf, Under
<1>4. CopyInv'
  BY <1>1, <1>2 DEF CopyInv, Begun, Shm!PaceAssumption, Shm!Slots
<1>5. \A s \in Shm!Slots : /\ Shm!Tick(Shm!Copy, s) = copied[s + 1]
                           /\ Shm!BufA(Shm!Copy, s) = copied[2 * s + 3]
                                /\ Shm!BufB(Shm!Copy, s) = copied[2 * s + 4]
  <2> TAKE s \in Shm!Slots
  <2>1. s + 1 \in 1..10 /\ 2 * s + 3 \in 1..10 /\ 2 * s + 4 \in 1..10  BY DEF Shm!Slots
  <2>2. /\ Shm!Copy[Shm!Layout[s + 1]] = copied[s + 1]
        /\ Shm!Copy[Shm!Layout[2 * s + 3]] = copied[2 * s + 3]
             /\ Shm!Copy[Shm!Layout[2 * s + 4]] = copied[2 * s + 4]
    BY <2>1, CopyOf
  <2> QED  BY <2>2, LayoutWords
<1>6. \A s \in Shm!Slots : NewestOf(copied[s + 1], s, Begun) /\ copied[s + 1] \in Int
  BY <1>1 DEF CopyInv, Shm!Slots, NewestOf
<1>7. PICK n \in Shm!Slots : n = Shm!NewestSlot(Shm!Copy)
        /\ \A t \in Shm!Slots : copied[n + 1] >= copied[t + 1]
  <2>1. \A s \in Shm!Slots : Shm!Tick(Shm!Copy, s) \in Int  BY <1>5, <1>6
  <2>2. /\ Shm!NewestSlot(Shm!Copy) \in Shm!Slots
        /\ \A t \in Shm!Slots :
             Shm!Tick(Shm!Copy, Shm!NewestSlot(Shm!Copy)) >= Shm!Tick(Shm!Copy, t)
    BY <2>1, NewestIs
  <2> QED  BY <1>5, <2>2
<1>8. copied[n + 1] >= Begun
  <2>1. Begun \in Nat  BY DEF CopyInv
  <2>2. CASE Begun = 0
    BY <1>6, <2>2 DEF NewestOf
  <2>3. CASE Begun > 0
    <3>1. SlotOf(Begun) \in Shm!Slots  BY <2>1, SlotOfFrame
    <3>2. copied[SlotOf(Begun) + 1] >= Begun
      BY <1>6, <2>1, <2>3, <3>1 DEF NewestOf
    <3> QED  BY <1>6, <1>7, <2>1, <3>1, <3>2
  <2> QED  BY <2>1, <2>2, <2>3
<1>9. copied[n + 1] # 0 => Shm!BufA(Shm!Copy, n) = Shm!BufB(Shm!Copy, n)
  <2> SUFFICES ASSUME copied[n + 1] # 0 PROVE Shm!BufA(Shm!Copy, n) = Shm!BufB(Shm!Copy, n)
    OBVIOUS
  <2>1. copied[n + 1] > 0  BY <1>6 DEF NewestOf
  <2>2. copied[2 * n + 3] = copied[n + 1] /\ copied[2 * n + 4] = copied[n + 1]
    BY <1>1, <1>8, <2>1 DEF CopyInv, Shm!Slots
  <2> QED  BY <1>5, <2>2
<1>10. Shm!Decoded(Shm!Copy) = Shm!DecodeIracing(Shm!Copy)
  BY Zenon DEF Shm!Decoded
<1>11. Shm!Decoded(Shm!Copy) = Shm!NoSample \/ Shm!Decoded(Shm!Copy).rpm
         = Shm!Decoded(Shm!Copy).redline
  BY <1>5, <1>7, <1>9, <1>10 DEF Shm!DecodeIracing
<1>12. Shm!NewestBufferWhole'
  BY <1>11 DEF Shm!Send, Shm!NewestBufferWhole
<1> QED  BY <1>3, <1>4, <1>12

LEMMA SectionSteps ==
  Shm!PaceAssumption /\ SectionInv /\ [Shm!Next]_(Shm!vars) => SectionInv'
<1> SUFFICES ASSUME Shm!PaceAssumption, SectionInv, [Shm!Next]_(Shm!vars) PROVE SectionInv'
  OBVIOUS
<1>1. UNCHANGED title
  BY DEF Shm!Next, Shm!vars, Shm!GameUp, Shm!BeginFrame, Shm!WriteWord, Shm!NotReadable,
       Shm!CopyWord, Shm!Send
<1>2. CASE title # "iracing"
  BY <1>1, <1>2 DEF SectionInv, Shm!NewestBufferWhole
<1>3. CASE title = "iracing"
  <2> USE <1>3
  <2>1. GameInv /\ CopyInv /\ Shm!NewestBufferWhole  BY DEF SectionInv
  <2>2. UNCHANGED sample => Shm!NewestBufferWhole'
    BY <1>1, <2>1 DEF Shm!NewestBufferWhole
  <2>3. CASE Shm!GameUp
    BY <2>1, <2>2, <2>3, GameUpKeeps DEF SectionInv, Shm!GameUp
  <2>4. CASE Shm!BeginFrame
    BY <2>1, <2>2, <2>4, BeginKeeps DEF SectionInv, Shm!BeginFrame
  <2>5. CASE Shm!WriteWord
    BY <2>1, <2>2, <2>5, WriteKeeps DEF SectionInv, Shm!WriteWord
  <2>6. CASE Shm!CopyWord
    BY <2>1, <2>2, <2>6, CopyKeeps DEF SectionInv, Shm!CopyWord
  <2>7. CASE Shm!Send
    BY <2>1, <2>7, SendKeeps DEF SectionInv
  <2>8. CASE UNCHANGED <<title, mem, frame, script, copied, finished, sample>>
    <3>1. Shm!Layout' = Shm!Layout /\ Shm!Writes(frame)' = Shm!Writes(frame)
            /\ Finished' = Finished /\ Begun' = Begun
      BY <2>8 DEF Shm!Layout, Shm!Writes, Finished, Begun
    <3>2. GameInv'
      BY <2>1, <2>8, <3>1 DEF GameInv, NewestOf, Under
    <3>3. CopyInv'
      BY <2>1, <2>8, <3>1 DEF CopyInv, NewestOf
    <3> QED  BY <2>2, <2>8, <3>2, <3>3 DEF SectionInv
  <2> QED  BY <2>3, <2>4, <2>5, <2>6, <2>7, <2>8 DEF Shm!Next, Shm!vars, Shm!NotReadable
<1> QED  BY <1>2, <1>3

\* iracing.rs newest_buffer, however many frames the game writes and whatever
\* the order of its writes and the reader's: as long as the game completes at
\* most one frame while the section is copied, the buffer the reader picks holds
\* the values of one frame.
THEOREM BuffersWhole ==
  ASSUME Shm!PaceAssumption PROVE Shm!Spec => []Shm!NewestBufferWhole
<1>1. Shm!Init => SectionInv  BY SectionStarts
<1>2. SectionInv /\ [Shm!Next]_(Shm!vars) => SectionInv'  BY SectionSteps
<1>3. SectionInv => Shm!NewestBufferWhole  BY DEF SectionInv
<1> QED  BY <1>1, <1>2, <1>3, PTL DEF Shm!Spec

(***************************************************************************)
(* The force test of the Info page.                                        *)
(***************************************************************************)
Actions  == {"effect", "mixed", "gain", "auto"}
Undoing  == {"stop_a", "stop_b", "erase_a", "erase_b", "gain_full", "auto_off"}
Doing    == {"upload_a", "upload_b", "play_a", "play_b", "gain_demo", "auto_on"}
WheelSet == [gain : {Tests!Unknown, Tests!Demo, Tests!Full}, auto : {Tests!Off, Tests!Full},
             effects : SUBSET {"a", "b"}, playing : SUBSET {"a", "b"}]

ThreadSet ==
  [at : {"ended", "open", "row", "countdown", "step", "undo", "finish", "reset"},
   row : Nat, run : Nat, todo : Seq(Undoing \cup Doing \cup {"wait"}),
   result : {"completed", "cancelled", "failed"}]

\* The calls of a list, and what undoes a call.
Left(calls) == {calls[i] : i \in DOMAIN calls}

UndoOf(call) ==
  IF call \in {"upload_a", "play_a"} THEN "erase_a"
  ELSE IF call \in {"upload_b", "play_b"} THEN "erase_b"
  ELSE IF call = "gain_demo" THEN "gain_full" ELSE "auto_off"

\* These calls clear what is on the wheel.
Undoes(w, calls) ==
  /\ "a" \in w.effects \cup w.playing => "erase_a" \in calls
  /\ "b" \in w.effects \cup w.playing => "erase_b" \in calls
  /\ w.gain = Tests!Demo => "gain_full" \in calls
  /\ w.auto # Tests!Off => "auto_off" \in calls

\* What a step owes the wheel before its k-th call, made or failed.
Owed(action, k) ==
  IF k <= Len(Tests!Body(action)) THEN Left(Tests!Undone(action, Tests!Body(action)[k]))
  ELSE Left(Tests!Cleanup(action))

Reachable == plugged /\ ~dirty

StepOwes ==
  thread.at = "step" =>
    \E k \in 1 .. Len(Tests!Body(Tests!Action)) + 1 :
      /\ thread.todo = SubSeq(Tests!Body(Tests!Action), k, Len(Tests!Body(Tests!Action)))
      /\ Reachable => Undoes(wheel, Owed(Tests!Action, k))

\* Between the steps nothing is owed.
NoneOwed == thread.at \notin {"step", "undo"} /\ Reachable => Undoes(wheel, {})

UndoOwes ==
  thread.at = "undo" =>
    /\ thread.todo \in Seq(Undoing)
    /\ Reachable => Undoes(wheel, Left(thread.todo))

\* One run at a time: of the thread, its flag and the post that ends it.
OneRun ==
  /\ testing \in BOOLEAN
  /\ ~testing => thread = Tests!Ended /\ posts = <<>>
  /\ thread # Tests!Ended => testing /\ posts = <<>>
  /\ testing /\ thread = Tests!Ended => posts = <<"reset">>
  /\ thread.at = "ended" => thread = Tests!Ended
  /\ thread # Tests!Ended => thread.run = runs /\ runs > 0
  /\ cell = IF thread.at \in {"reset", "ended"} THEN Tests!None ELSE thread.run
  /\ thread # Tests!Ended /\ thread.run \in flags => thread.row = stopRow

TestTypes ==
  /\ wheel \in WheelSet /\ plugged \in BOOLEAN /\ dirty \in BOOLEAN
  /\ thread \in ThreadSet
  /\ thread.at \in {"countdown", "step", "undo"} => thread.row \in Tests!Rows
  /\ can \subseteq Tests!Rows /\ runs \in Nat /\ flags \subseteq 1..runs

TestInv == TestTypes /\ StepOwes /\ UndoOwes /\ NoneOwed /\ OneRun

LEMMA LeftOf ==
  /\ Left(<<>>) = {}
  /\ \A x : Left(<<x>>) = {x}
  /\ \A x, y : Left(<<x, y>>) = {x, y}
  /\ \A x, y, z : Left(<<x, y, z>>) = {x, y, z}
  /\ \A x, y, z, u : Left(<<x, y, z, u>>) = {x, y, z, u}
<1>1. Left(<<>>) = {}  BY DEF Left
<1>2. ASSUME NEW x PROVE Left(<<x>>) = {x}  BY DEF Left
<1>3. ASSUME NEW x, NEW y PROVE Left(<<x, y>>) = {x, y}  BY DEF Left
<1>4. ASSUME NEW x, NEW y, NEW z PROVE Left(<<x, y, z>>) = {x, y, z}  BY DEF Left
<1>5. ASSUME NEW x, NEW y, NEW z, NEW u PROVE Left(<<x, y, z, u>>) = {x, y, z, u}  BY DEF Left
<1> QED  BY <1>1, <1>2, <1>3, <1>4, <1>5

\* The table, action by action.
LEMMA TableIs ==
  /\ Tests!Body("effect") = <<"upload_a", "play_a", "wait">>
  /\ Tests!Body("mixed") = <<"upload_a", "upload_b", "play_a", "play_b", "wait">>
  /\ Tests!Body("gain") = <<"upload_a", "play_a", "wait", "gain_demo", "wait">>
  /\ Tests!Body("auto") = <<"auto_on", "wait">>
  /\ Tests!Cleanup("effect") = <<"stop_a", "erase_a">>
  /\ Tests!Cleanup("mixed") = <<"stop_a", "stop_b", "erase_a", "erase_b">>
  /\ Tests!Cleanup("gain") = <<"stop_a", "erase_a", "gain_full">>
  /\ Tests!Cleanup("auto") = <<"auto_off">>
BY DEF Tests!Body, Tests!Cleanup

LEMMA UndoneIs ==
  ASSUME NEW a
  PROVE  /\ Tests!Undone(a, "upload_a") = <<>>
         /\ Tests!Undone(a, "upload_b") = <<"stop_a", "erase_a">>
         /\ \A c : c \notin {"upload_a", "upload_b"} => Tests!Undone(a, c) = Tests!Cleanup(a)
<1>1. Tests!Undone(a, "upload_a") = <<>>  BY DEF Tests!Undone, Tests!UndoneAfter
<1>2. Tests!Undone(a, "upload_b") = <<"stop_a", "erase_a">>  BY DEF Tests!Undone, Tests!UndoneAfter
<1>3. ASSUME NEW c, c \notin {"upload_a", "upload_b"} PROVE Tests!Undone(a, c) = Tests!Cleanup(a)
  BY <1>3 DEF Tests!Undone, Tests!UndoneAfter
<1> QED  BY <1>1, <1>2, <1>3

\* What is owed only grows along a step, with what undoes the call just made.
OwesMore(a, k) ==
  /\ Tests!Body(a)[k] \in Doing \cup {"wait"}
  /\ Owed(a, k) \subseteq Owed(a, k + 1) /\ Owed(a, k) \subseteq Left(Tests!Cleanup(a))
  /\ Tests!Body(a)[k] # "wait" => UndoOf(Tests!Body(a)[k]) \in Owed(a, k + 1)

LEMMA EffectOwes == \A k \in 1..Len(Tests!Body("effect")) : OwesMore("effect", k)
<1>1. PICK b : b = Tests!Body("effect")  OBVIOUS
<1>2. PICK u : u = Left(Tests!Cleanup("effect"))  OBVIOUS
<1>3. b = <<"upload_a", "play_a", "wait">>  BY <1>1, TableIs
<1>4. Len(b) = 3 /\ 1..3 = {1, 2, 3}  BY <1>3
<1>5. b[1] = "upload_a" /\ b[2] = "play_a" /\ b[3] = "wait"  BY <1>3
<1>6. u = {"stop_a", "erase_a"}  BY <1>2, TableIs, LeftOf
<1>7. /\ Owed("effect", 1) = {} /\ Owed("effect", 2) = u /\ Owed("effect", 3) = u
      /\ Owed("effect", 4) = u
  BY <1>1, <1>2, <1>4, <1>5, UndoneIs, LeftOf DEF Owed
<1>8. /\ OwesMore("effect", 1) /\ OwesMore("effect", 2) /\ OwesMore("effect", 3)
  BY <1>1, <1>2, <1>5, <1>6, <1>7 DEF OwesMore, UndoOf, Doing
<1> QED  BY <1>1, <1>4, <1>8, Zenon

LEMMA MixedOwes == \A k \in 1..Len(Tests!Body("mixed")) : OwesMore("mixed", k)
<1>1. PICK b : b = Tests!Body("mixed")  OBVIOUS
<1>2. PICK u : u = Left(Tests!Cleanup("mixed"))  OBVIOUS
<1>3. b = <<"upload_a", "upload_b", "play_a", "play_b", "wait">>  BY <1>1, TableIs
<1>4. Len(b) = 5 /\ 1..5 = {1, 2, 3, 4, 5}  BY <1>3
<1>5. b[1] = "upload_a" /\ b[2] = "upload_b" /\ b[3] = "play_a" /\ b[4] = "play_b" /\ b[5] = "wait"
  BY <1>3
<1>6. u = {"stop_a", "stop_b", "erase_a", "erase_b"}  BY <1>2, TableIs, LeftOf
<1>7. /\ Owed("mixed", 1) = {} /\ Owed("mixed", 2) = {"stop_a", "erase_a"} /\ Owed("mixed", 3) = u
      /\ Owed("mixed", 4) = u /\ Owed("mixed", 5) = u /\ Owed("mixed", 6) = u
  BY <1>1, <1>2, <1>4, <1>5, UndoneIs, LeftOf DEF Owed
<1>8. /\ OwesMore("mixed", 1) /\ OwesMore("mixed", 2) /\ OwesMore("mixed", 3)
      /\ OwesMore("mixed", 4) /\ OwesMore("mixed", 5)
  BY <1>1, <1>2, <1>5, <1>6, <1>7 DEF OwesMore, UndoOf, Doing
<1> QED  BY <1>1, <1>4, <1>8, Zenon

LEMMA GainOwes == \A k \in 1..Len(Tests!Body("gain")) : OwesMore("gain", k)
<1>1. PICK b : b = Tests!Body("gain")  OBVIOUS
<1>2. PICK u : u = Left(Tests!Cleanup("gain"))  OBVIOUS
<1>3. b = <<"upload_a", "play_a", "wait", "gain_demo", "wait">>  BY <1>1, TableIs
<1>4. Len(b) = 5 /\ 1..5 = {1, 2, 3, 4, 5}  BY <1>3
<1>5. b[1] = "upload_a" /\ b[2] = "play_a" /\ b[3] = "wait" /\ b[4] = "gain_demo" /\ b[5] = "wait"
  BY <1>3
<1>6. u = {"stop_a", "erase_a", "gain_full"}  BY <1>2, TableIs, LeftOf
<1>7. /\ Owed("gain", 1) = {} /\ Owed("gain", 2) = u /\ Owed("gain", 3) = u
      /\ Owed("gain", 4) = u /\ Owed("gain", 5) = u /\ Owed("gain", 6) = u
  BY <1>1, <1>2, <1>4, <1>5, UndoneIs, LeftOf DEF Owed
<1>8. /\ OwesMore("gain", 1) /\ OwesMore("gain", 2) /\ OwesMore("gain", 3)
      /\ OwesMore("gain", 4) /\ OwesMore("gain", 5)
  BY <1>1, <1>2, <1>5, <1>6, <1>7 DEF OwesMore, UndoOf, Doing
<1> QED  BY <1>1, <1>4, <1>8, Zenon

LEMMA AutoOwes == \A k \in 1..Len(Tests!Body("auto")) : OwesMore("auto", k)
<1>1. PICK b : b = Tests!Body("auto")  OBVIOUS
<1>2. PICK u : u = Left(Tests!Cleanup("auto"))  OBVIOUS
<1>3. b = <<"auto_on", "wait">>  BY <1>1, TableIs
<1>4. Len(b) = 2 /\ 1..2 = {1, 2}  BY <1>3
<1>5. b[1] = "auto_on" /\ b[2] = "wait"  BY <1>3
<1>6. u = {"auto_off"}  BY <1>2, TableIs, LeftOf
<1>7. /\ Owed("auto", 1) = u /\ Owed("auto", 2) = u /\ Owed("auto", 3) = u
  BY <1>1, <1>2, <1>4, <1>5, UndoneIs, LeftOf DEF Owed
<1>8. /\ OwesMore("auto", 1) /\ OwesMore("auto", 2)
  BY <1>1, <1>2, <1>5, <1>6, <1>7 DEF OwesMore, UndoOf, Doing
<1> QED  BY <1>1, <1>4, <1>8, Zenon

LEMMA StepsOwe == \A a \in Actions : \A k \in 1..Len(Tests!Body(a)) : OwesMore(a, k)
BY EffectOwes, MixedOwes, GainOwes, AutoOwes DEF Actions

\* An undoing call leaves to the others what they undo.
LEMMA UndoCallIs ==
  ASSUME wheel \in WheelSet, NEW S, NEW c \in Undoing, Undoes(wheel, S \cup {c})
  PROVE  Tests!Done(c) \in WheelSet /\ Undoes(Tests!Done(c), S)
<1>1. CASE c = "stop_a"
  <2>1. Tests!Done(c) = [wheel EXCEPT !.playing = wheel.playing \ {"a"}]  BY <1>1 DEF Tests!Done
  <2> QED  BY <1>1, <2>1 DEF WheelSet, Undoes, Tests!Full, Tests!Demo, Tests!Off
<1>2. CASE c = "stop_b"
  <2>1. Tests!Done(c) = [wheel EXCEPT !.playing = wheel.playing \ {"b"}]  BY <1>2 DEF Tests!Done
  <2> QED  BY <1>2, <2>1 DEF WheelSet, Undoes, Tests!Full, Tests!Demo, Tests!Off
<1>3. CASE c = "erase_a"
  <2>1. Tests!Done(c) = [wheel EXCEPT !.effects = wheel.effects \ {"a"},
                               !.playing = wheel.playing \ {"a"}]  BY <1>3 DEF Tests!Done
  <2> QED  BY <1>3, <2>1 DEF WheelSet, Undoes, Tests!Full, Tests!Demo, Tests!Off
<1>4. CASE c = "erase_b"
  <2>1. Tests!Done(c) = [wheel EXCEPT !.effects = wheel.effects \ {"b"},
                               !.playing = wheel.playing \ {"b"}]  BY <1>4 DEF Tests!Done
  <2> QED  BY <1>4, <2>1 DEF WheelSet, Undoes, Tests!Full, Tests!Demo, Tests!Off
<1>5. CASE c = "gain_full"
  <2>1. Tests!Done(c) = [wheel EXCEPT !.gain = Tests!Full]  BY <1>5 DEF Tests!Done
  <2> QED  BY <1>5, <2>1 DEF WheelSet, Undoes, Tests!Full, Tests!Demo, Tests!Off
<1>6. CASE c = "auto_off"
  <2>1. Tests!Done(c) = [wheel EXCEPT !.auto = Tests!Off]  BY <1>6 DEF Tests!Done
  <2> QED  BY <1>6, <2>1 DEF WheelSet, Undoes, Tests!Full, Tests!Demo, Tests!Off
<1> QED  BY <1>1, <1>2, <1>3, <1>4, <1>5, <1>6 DEF Undoing

\* A call of the body puts on the wheel what its own undoing clears.
LEMMA DoCallIs ==
  ASSUME wheel \in WheelSet, NEW S, NEW c \in Doing, Undoes(wheel, S), UndoOf(c) \in S
  PROVE  Tests!Done(c) \in WheelSet /\ Undoes(Tests!Done(c), S)
<1>1. CASE c = "upload_a"
  <2>1. Tests!Done(c) = [wheel EXCEPT !.effects = wheel.effects \cup {"a"}]  BY <1>1 DEF Tests!Done
  <2> QED  BY <1>1, <2>1 DEF WheelSet, Undoes, Tests!Full, Tests!Demo, Tests!Off, UndoOf
<1>2. CASE c = "upload_b"
  <2>1. Tests!Done(c) = [wheel EXCEPT !.effects = wheel.effects \cup {"b"}]  BY <1>2 DEF Tests!Done
  <2> QED  BY <1>2, <2>1 DEF WheelSet, Undoes, Tests!Full, Tests!Demo, Tests!Off, UndoOf
<1>3. CASE c = "play_a"
  <2>1. Tests!Done(c) = [wheel EXCEPT !.playing = wheel.playing \cup {"a"}]  BY <1>3 DEF Tests!Done
  <2> QED  BY <1>3, <2>1 DEF WheelSet, Undoes, Tests!Full, Tests!Demo, Tests!Off, UndoOf
<1>4. CASE c = "play_b"
  <2>1. Tests!Done(c) = [wheel EXCEPT !.playing = wheel.playing \cup {"b"}]  BY <1>4 DEF Tests!Done
  <2> QED  BY <1>4, <2>1 DEF WheelSet, Undoes, Tests!Full, Tests!Demo, Tests!Off, UndoOf
<1>5. CASE c = "gain_demo"
  <2>1. Tests!Done(c) = [wheel EXCEPT !.gain = Tests!Demo]  BY <1>5 DEF Tests!Done
  <2> QED  BY <1>5, <2>1 DEF WheelSet, Undoes, Tests!Full, Tests!Demo, Tests!Off, UndoOf
<1>6. CASE c = "auto_on"
  <2>1. Tests!Done(c) = [wheel EXCEPT !.auto = Tests!Full]  BY <1>6 DEF Tests!Done
  <2> QED  BY <1>6, <2>1 DEF WheelSet, Undoes, Tests!Full, Tests!Demo, Tests!Off, UndoOf
<1> QED  BY <1>1, <1>2, <1>3, <1>4, <1>5, <1>6 DEF Doing

\* Whatever is owed or not, a call leaves a wheel.
LEMMA DoneIs ==
  ASSUME wheel \in WheelSet, NEW c \in Undoing \cup Doing
  PROVE  Tests!Done(c) \in WheelSet
<1>1. PICK S : S = Undoing  OBVIOUS
<1>2. Undoes(wheel, S) /\ Undoes(wheel, S \cup {c})  BY <1>1 DEF Undoes, Undoing
<1>3. CASE c \in Undoing  BY <1>2, <1>3, UndoCallIs
<1>4. CASE c \in Doing
  <2>1. UndoOf(c) \in S  BY <1>1 DEF UndoOf, Undoing
  <2> QED  BY <1>2, <1>4, <2>1, DoCallIs
<1> QED  BY <1>3, <1>4

LEMMA QuietIs ==
  ASSUME NEW w \in WheelSet
  PROVE  Undoes(w, {}) <=> /\ w.effects = {} /\ w.playing = {}
                           /\ w.auto = Tests!Off /\ w.gain # Tests!Demo
<1>1. w.effects \subseteq {"a", "b"} /\ w.playing \subseteq {"a", "b"}  BY DEF WheelSet
<1> QED  BY <1>1 DEF Undoes

LEMMA MoreUndoes ==
  ASSUME NEW w, NEW S, NEW T, S \subseteq T, Undoes(w, S)
  PROVE  Undoes(w, T)
BY DEF Undoes

\* The first call of a list and the rest of it.
LEMMA LeftSplits ==
  ASSUME NEW C, NEW t \in Seq(C), t # <<>>
  PROVE  Left(t) \subseteq Left(Tail(t)) \cup {Head(t)} /\ Head(t) \in C /\ Tail(t) \in Seq(C)
<1>1. /\ Head(t) = t[1] /\ Head(t) \in C /\ Tail(t) \in Seq(C) /\ Len(Tail(t)) = Len(t) - 1
      /\ \A i \in 1..Len(Tail(t)) : Tail(t)[i] = t[i + 1]
  BY HeadTailProperties
<1>2. ASSUME NEW i \in DOMAIN t PROVE t[i] \in Left(Tail(t)) \cup {Head(t)}
  <2>1. i \in 1..Len(t) /\ Len(t) \in Nat  OBVIOUS
  <2>2. CASE i = 1  BY <1>1, <2>2
  <2>3. CASE i # 1
    <3>1. PICK j : j = i - 1  OBVIOUS
    <3>2. j \in 1..Len(Tail(t)) /\ i = j + 1  BY <1>1, <2>1, <2>3, <3>1
    <3>3. Tail(t)[j] = t[i] /\ j \in DOMAIN Tail(t)  BY <1>1, <3>2
    <3> QED  BY <3>3 DEF Left
  <2> QED  BY <2>2, <2>3
<1> QED  BY <1>1, <1>2 DEF Left

LEMMA SuffixIs ==
  ASSUME NEW C, NEW b \in Seq(C), NEW k \in 1..Len(b) + 1
  PROVE  /\ SubSeq(b, k, Len(b)) \in Seq(C)
         /\ k = Len(b) + 1 => SubSeq(b, k, Len(b)) = <<>>
         /\ k <= Len(b) => /\ SubSeq(b, k, Len(b)) # <<>> /\ Head(SubSeq(b, k, Len(b))) = b[k]
                           /\ Tail(SubSeq(b, k, Len(b))) = SubSeq(b, k + 1, Len(b))
<1>1. Len(b) \in Nat /\ k \in Nat /\ k >= 1  OBVIOUS
<1>2. PICK t : t = SubSeq(b, k, Len(b))  OBVIOUS
<1>3. PICK u : u = SubSeq(b, k + 1, Len(b))  OBVIOUS
<1>4. /\ t \in Seq(C) /\ Len(t) = IF k <= Len(b) THEN Len(b) - k + 1 ELSE 0
      /\ \A i \in 1..Len(b) - k + 1 : t[i] = b[k + i - 1]
  BY <1>1, <1>2, SubSeqProperties
<1>5. /\ u \in Seq(C) /\ Len(u) = IF k + 1 <= Len(b) THEN Len(b) - k ELSE 0
      /\ \A i \in 1..Len(b) - k : u[i] = b[k + i]
  BY <1>1, <1>3, SubSeqProperties
<1>6. k = Len(b) + 1 => t = <<>>  BY <1>1, <1>4
<1>7. ASSUME k <= Len(b) PROVE t # <<>> /\ Head(t) = b[k] /\ Tail(t) = u
  <2>1. Len(t) = Len(b) - k + 1 /\ Len(t) >= 1 /\ t[1] = b[k] /\ Len(u) = Len(b) - k
    BY <1>1, <1>4, <1>5, <1>7
  <2>2. t # <<>> /\ Head(t) = b[k]  BY <1>4, <2>1
  <2>3. /\ Tail(t) \in Seq(C) /\ Len(Tail(t)) = Len(t) - 1
        /\ \A i \in 1..Len(Tail(t)) : Tail(t)[i] = t[i + 1]
    BY <1>4, <2>2, HeadTailProperties
  <2>4. PICK v : v = Tail(t)  OBVIOUS
  <2>5. Len(v) = Len(u)  BY <1>1, <2>1, <2>3, <2>4
  <2>6. ASSUME NEW i \in 1..Len(v) PROVE v[i] = u[i]
    <3>1. v[i] = t[i + 1] /\ i + 1 \in 1..Len(b) - k + 1 /\ i \in 1..Len(b) - k
      BY <1>1, <2>1, <2>3, <2>4, <2>5
    <3>2. t[i + 1] = b[k + (i + 1) - 1] /\ u[i] = b[k + i]  BY <1>4, <1>5, <3>1
    <3>3. k + (i + 1) - 1 = k + i  BY <1>1, <3>1
    <3> QED  BY <3>1, <3>2, <3>3
  <2>7. v = u  BY <1>5, <2>3, <2>4, <2>5, <2>6, SeqEqual
  <2> QED  BY <2>2, <2>4, <2>7
<1> QED  BY <1>2, <1>3, <1>4, <1>6, <1>7

LEMMA TableTypes ==
  ASSUME NEW a \in Actions
  PROVE  Tests!Body(a) \in Seq(Doing \cup {"wait"}) /\ Tests!Cleanup(a) \in Seq(Undoing)
<1>1. CASE a = "effect"
  <2>1. <<"upload_a", "play_a", "wait">> \in Seq(Doing \cup {"wait"})  BY DEF Doing
  <2>2. <<"stop_a", "erase_a">> \in Seq(Undoing)  BY DEF Undoing
  <2> QED  BY <1>1, <2>1, <2>2, TableIs
<1>2. CASE a = "mixed"
  <2>1. <<"upload_a", "upload_b", "play_a", "play_b", "wait">> \in Seq(Doing \cup {"wait"})
    BY DEF Doing
  <2>2. <<"stop_a", "stop_b", "erase_a", "erase_b">> \in Seq(Undoing)  BY DEF Undoing
  <2> QED  BY <1>2, <2>1, <2>2, TableIs
<1>3. CASE a = "gain"
  <2>1. <<"upload_a", "play_a", "wait", "gain_demo", "wait">> \in Seq(Doing \cup {"wait"})
    BY DEF Doing
  <2>2. <<"stop_a", "erase_a", "gain_full">> \in Seq(Undoing)  BY DEF Undoing
  <2> QED  BY <1>3, <2>1, <2>2, TableIs
<1>4. CASE a = "auto"
  <2>1. <<"auto_on", "wait">> \in Seq(Doing \cup {"wait"})  BY DEF Doing
  <2>2. <<"auto_off">> \in Seq(Undoing)  BY DEF Undoing
  <2> QED  BY <1>4, <2>1, <2>2, TableIs
<1> QED  BY <1>1, <1>2, <1>3, <1>4 DEF Actions

LEMMA UndoneTypes ==
  ASSUME NEW a \in Actions, NEW c
  PROVE  Tests!Undone(a, c) \in Seq(Undoing)
<1>1. CASE c = "upload_a"
  <2>1. Tests!Undone(a, c) = <<>>  BY <1>1, UndoneIs
  <2> QED  BY <2>1
<1>2. CASE c = "upload_b"
  <2>1. Tests!Undone(a, c) = <<"stop_a", "erase_a">>  BY <1>2, UndoneIs
  <2> QED  BY <2>1 DEF Undoing
<1>3. CASE c \notin {"upload_a", "upload_b"}  BY <1>3, UndoneIs, TableTypes
<1> QED  BY <1>1, <1>2, <1>3

LEMMA ActionIs ==
  ASSUME Tests!StepsAssumption, TestInv, thread.at \in {"countdown", "step", "undo"}
  PROVE  Tests!Action \in Actions
BY DEF Tests!StepsAssumption, TestInv, TestTypes, Tests!Rows, Tests!Action, Actions

LEMMA TestStarts == ASSUME Tests!StepsAssumption, Tests!Init PROVE TestInv
<1>1. thread = Tests!Ended /\ thread \in ThreadSet /\ thread.at = "ended"
  BY DEF Tests!Init, Tests!Ended, ThreadSet, Tests!None
<1>2. wheel \in WheelSet /\ Undoes(wheel, {})
  BY DEF Tests!Init, WheelSet, Undoes, Tests!Unknown, Tests!Off, Tests!Demo
<1>3. TestTypes  BY <1>1, <1>2 DEF Tests!Init, TestTypes
<1>4. StepOwes /\ UndoOwes /\ NoneOwed  BY <1>1, <1>2 DEF StepOwes, UndoOwes, NoneOwed, Tests!Ended
<1>5. OneRun  BY <1>1 DEF Tests!Init, OneRun
<1> QED  BY <1>3, <1>4, <1>5 DEF TestInv

\* The window and the post see a run that goes on.
LEMMA GoesOnAsOne ==
  ASSUME TestInv, thread.at \notin {"reset", "ended"}, thread'.at \notin {"reset", "ended"},
         thread'.run = thread.run, thread'.row = thread.row \/ ~Tests!Cancelled,
         UNCHANGED <<testing, cell, flags, posts, stopRow, runs>>
  PROVE  OneRun'
<1>1. thread # Tests!Ended /\ thread' # Tests!Ended  BY DEF Tests!Ended
<1> QED  BY <1>1 DEF TestInv, OneRun, Tests!Cancelled

\* A step of the thread that leaves the wheel alone, between the steps.
LEMMA BetweenSteps ==
  ASSUME TestInv, thread' \in ThreadSet, thread.at \notin {"step", "undo"},
         thread'.at \notin {"step", "undo"},
         thread'.at = "countdown" => thread'.row \in Tests!Rows,
         UNCHANGED <<wheel, plugged, can, dirty, flags, runs>>
  PROVE  TestTypes' /\ StepOwes' /\ UndoOwes' /\ NoneOwed'
<1>1. TestTypes'  BY DEF TestInv, TestTypes, Tests!Rows
<1> QED  BY <1>1 DEF TestInv, StepOwes, UndoOwes, NoneOwed, Reachable

LEMMA StartStep == ASSUME Tests!StepsAssumption, TestInv, Tests!StartTest PROVE TestInv'
<1>1. thread = Tests!Ended /\ posts = <<>> /\ runs \in Nat
  BY DEF TestInv, OneRun, TestTypes, Tests!StartTest
<1>2. runs' = runs + 1 /\ runs' \in Nat /\ runs' > 0 /\ runs' \notin flags
      /\ flags \subseteq 1..runs'
  BY <1>1 DEF TestInv, TestTypes, Tests!StartTest
<1>3. /\ thread'.at = "open" /\ thread'.row = 0 /\ thread'.run = runs'
      /\ thread' \in ThreadSet
  <2>1. Tests!Ended \in ThreadSet  BY DEF Tests!Ended, ThreadSet, Tests!None
  <2>2. thread' = [Tests!Ended EXCEPT !.at = "open", !.run = runs']  BY DEF Tests!StartTest
  <2> QED  BY <1>2, <2>1, <2>2 DEF ThreadSet, Tests!Ended
<1>4. thread' # Tests!Ended /\ thread.at = "ended"  BY <1>1, <1>3 DEF Tests!Ended
<1>5. TestTypes'  BY <1>2, <1>3 DEF TestInv, TestTypes, Tests!StartTest, Tests!Rows
<1>6. StepOwes' /\ UndoOwes' /\ NoneOwed'
  BY <1>3, <1>4 DEF TestInv, StepOwes, UndoOwes, NoneOwed, Reachable, Tests!StartTest
<1>7. OneRun'  BY <1>1, <1>2, <1>3, <1>4 DEF TestInv, OneRun, Tests!StartTest
<1> QED  BY <1>5, <1>6, <1>7 DEF TestInv

LEMMA StopStep == ASSUME Tests!StepsAssumption, TestInv, Tests!StopTest PROVE TestInv'
<1>1. /\ thread.at \notin {"reset", "ended"} /\ cell = thread.run /\ thread # Tests!Ended
      /\ cell = runs /\ runs \in Nat /\ runs > 0
  BY DEF TestInv, OneRun, TestTypes, Tests!StopTest, Tests!Ended
<1>2. TestTypes'  BY <1>1 DEF TestInv, TestTypes, Tests!StopTest, Tests!Rows, Tests!bounds
<1>3. StepOwes' /\ UndoOwes' /\ NoneOwed'
  BY DEF TestInv, StepOwes, UndoOwes, NoneOwed, Reachable, Tests!StopTest, Tests!Action
<1>4. thread.row = stopRow'  BY <1>1 DEF TestInv, OneRun, Tests!StopTest
<1>5. OneRun'  BY <1>1, <1>4 DEF TestInv, OneRun, Tests!StopTest, Tests!bounds
<1> QED  BY <1>2, <1>3, <1>5 DEF TestInv

LEMMA PostStep == ASSUME Tests!StepsAssumption, TestInv, Tests!RunPost PROVE TestInv'
<1>1. thread = Tests!Ended /\ posts = <<"reset">>  BY DEF TestInv, OneRun, Tests!RunPost
<1>2. posts' = <<>> /\ testing' = FALSE  BY <1>1 DEF Tests!RunPost
<1>3. TestTypes' /\ StepOwes' /\ UndoOwes' /\ NoneOwed'
  BY DEF TestInv, TestTypes, StepOwes, UndoOwes, NoneOwed, Reachable, Tests!RunPost,
       Tests!Action, Tests!Rows, Tests!bounds
<1>4. OneRun'  BY <1>1, <1>2 DEF TestInv, OneRun, Tests!RunPost, Tests!bounds
<1> QED  BY <1>3, <1>4 DEF TestInv

LEMMA UnplugStep == ASSUME Tests!StepsAssumption, TestInv, Tests!Unplug PROVE TestInv'
<1>1. TestTypes' /\ StepOwes' /\ UndoOwes' /\ NoneOwed'
  BY DEF TestInv, TestTypes, StepOwes, UndoOwes, NoneOwed, Reachable, Tests!Unplug,
       Tests!Action, Tests!Rows
<1>2. OneRun'  BY DEF TestInv, OneRun, Tests!Unplug
<1> QED  BY <1>1, <1>2 DEF TestInv

\* A thread that is put somewhere else.
LEMMA AtIs ==
  ASSUME TestInv, NEW p \in {"row", "finish", "reset"}, Tests!At(p)
  PROVE  /\ thread' \in ThreadSet /\ thread'.at = p /\ thread'.row = thread.row
         /\ thread'.run = thread.run
BY DEF TestInv, TestTypes, ThreadSet, Tests!At

LEMMA OpenStep == ASSUME Tests!StepsAssumption, TestInv, Tests!OpenDevice PROVE TestInv'
<1>1. Tests!At("row") \/ Tests!At("finish")  BY DEF Tests!OpenDevice
<1>2. /\ thread' \in ThreadSet /\ thread'.at \in {"row", "finish"}
      /\ thread'.row = thread.row /\ thread'.run = thread.run
  BY <1>1, AtIs
<1>3. /\ thread.at = "open"
      /\ UNCHANGED <<plugged, can, testing, cell, flags, posts, stopRow, dirty, runs>>
  BY DEF Tests!OpenDevice, Tests!window
<1>4. OneRun'  BY <1>2, <1>3, GoesOnAsOne
<1>5. CASE wheel' = wheel
  <2>1. TestTypes' /\ StepOwes' /\ UndoOwes' /\ NoneOwed'  BY <1>2, <1>3, <1>5, BetweenSteps
  <2> QED  BY <1>4, <2>1 DEF TestInv
<1>6. CASE wheel' = Tests!Done("gain_full")
  <2>1. wheel \in WheelSet /\ "gain_full" \in Undoing  BY DEF TestInv, TestTypes, Undoing
  <2>2. wheel' \in WheelSet  BY <1>6, <2>1, DoneIs
  <2>3. ASSUME Reachable PROVE Undoes(wheel', {})
    <3>1. Undoes(wheel, {} \cup {"gain_full"})
      BY <1>3, <2>3, MoreUndoes DEF TestInv, NoneOwed
    <3> QED  BY <1>6, <2>1, <3>1, UndoCallIs
  <2>4. TestTypes'  BY <1>2, <1>3, <2>2 DEF TestInv, TestTypes, Tests!Rows
  <2>5. StepOwes' /\ UndoOwes' /\ NoneOwed'
    BY <1>2, <1>3, <2>3 DEF StepOwes, UndoOwes, NoneOwed, Reachable
  <2> QED  BY <1>4, <2>4, <2>5 DEF TestInv
<1> QED  BY <1>5, <1>6 DEF Tests!OpenDevice, Tests!May, Tests!Cannot

LEMMA RowStep == ASSUME Tests!StepsAssumption, TestInv, Tests!NextRow PROVE TestInv'
<1>1. /\ thread.at = "row" /\ thread \in ThreadSet
      /\ can \subseteq Tests!Rows /\ Tests!Rows \subseteq Nat
      /\ UNCHANGED <<wheel, plugged, can, testing, cell, flags, posts, stopRow, dirty, runs>>
  BY DEF Tests!NextRow, Tests!window, Tests!bounds, TestInv, TestTypes, Tests!Rows,
       Tests!StepsAssumption
<1>2. PICK later : later = {r \in can : r > thread.row}  OBVIOUS
<1>3. CASE later = {} \/ ~Tests!GoesOn
  <2>1. Tests!At("finish")  BY <1>2, <1>3 DEF Tests!NextRow
  <2>2. /\ thread' \in ThreadSet /\ thread'.at = "finish" /\ thread'.row = thread.row
        /\ thread'.run = thread.run
    BY <2>1, AtIs
  <2>3. TestTypes' /\ StepOwes' /\ UndoOwes' /\ NoneOwed'  BY <1>1, <2>2, BetweenSteps
  <2>4. OneRun'  BY <1>1, <2>2, GoesOnAsOne
  <2> QED  BY <2>3, <2>4 DEF TestInv
<1>4. CASE ~(later = {} \/ ~Tests!GoesOn)
  <2>1. PICK r : r = CHOOSE x \in later : \A y \in later : x <= y  OBVIOUS
  <2>2. r \in later
    <3>1. later \subseteq Nat /\ later # {}  BY <1>1, <1>2, <1>4
    <3>2. \E x \in later : \A y \in later : x <= y  BY <3>1, LeastOf
    <3> QED  BY <2>1, <3>2
  <2>3. r \in Tests!Rows /\ r \in Nat  BY <1>1, <1>2, <2>2
  <2>4. thread' = [thread EXCEPT !.at = "countdown", !.row = r]
    BY <1>2, <1>4, <2>1 DEF Tests!NextRow
  <2>5. /\ thread' \in ThreadSet /\ thread'.at = "countdown" /\ thread'.row = r
        /\ thread'.run = thread.run
    BY <1>1, <2>3, <2>4 DEF ThreadSet
  <2>6. TestTypes' /\ StepOwes' /\ UndoOwes' /\ NoneOwed'
    BY <1>1, <2>3, <2>5, BetweenSteps
  <2>7. ~Tests!Cancelled  BY <1>4 DEF Tests!GoesOn
  <2>8. OneRun'  BY <1>1, <2>5, <2>7, GoesOnAsOne
  <2> QED  BY <2>6, <2>8 DEF TestInv
<1> QED  BY <1>3, <1>4

\* Into a step, its whole body to come and nothing owed.
LEMMA CountdownStep == ASSUME Tests!StepsAssumption, TestInv, Tests!Countdown PROVE TestInv'
<1>1. /\ thread.at = "countdown" /\ thread \in ThreadSet /\ thread.row \in Tests!Rows
      /\ UNCHANGED <<wheel, plugged, can, testing, cell, flags, posts, stopRow, dirty, runs>>
  BY DEF Tests!Countdown, Tests!window, Tests!bounds, TestInv, TestTypes
<1>2. CASE Tests!Cancelled
  <2>1. Tests!At("finish")  BY <1>2 DEF Tests!Countdown
  <2>2. /\ thread' \in ThreadSet /\ thread'.at = "finish" /\ thread'.row = thread.row
        /\ thread'.run = thread.run
    BY <2>1, AtIs
  <2>3. TestTypes' /\ StepOwes' /\ UndoOwes' /\ NoneOwed'  BY <1>1, <2>2, BetweenSteps
  <2>4. OneRun'  BY <1>1, <2>2, GoesOnAsOne
  <2> QED  BY <2>3, <2>4 DEF TestInv
<1>3. CASE ~Tests!Cancelled
  <2>1. PICK a : a = Tests!Action  OBVIOUS
  <2>2. a \in Actions  BY <1>1, <2>1, ActionIs
  <2>3. PICK b : b = Tests!Body(a)  OBVIOUS
  <2>4. b \in Seq(Doing \cup {"wait"})  BY <2>2, <2>3, TableTypes
  <2>5. thread' = [thread EXCEPT !.at = "step", !.todo = b]
    BY <1>3, <2>1, <2>3 DEF Tests!Countdown, Tests!Action
  <2>6. b \in Seq(Undoing \cup Doing \cup {"wait"})
    <3>1. \A i \in 1..Len(b) : b[i] \in Undoing \cup Doing \cup {"wait"}  BY <2>4
    <3> QED  BY <2>4, <3>1
  <2>7. /\ thread' \in ThreadSet /\ thread'.at = "step" /\ thread'.row = thread.row
        /\ thread'.run = thread.run /\ thread'.todo = b
    BY <1>1, <2>5, <2>6 DEF ThreadSet
  <2>8. OneRun'  BY <1>1, <2>7, GoesOnAsOne
  <2>9. TestTypes'  BY <1>1, <2>7 DEF TestInv, TestTypes, Tests!Rows
  <2>10. Tests!Action' = a  BY <2>1, <2>7 DEF Tests!Action
  <2>11. StepOwes'
    <3>1. Len(b) \in Nat /\ 1 \in 1..Len(b) + 1  BY <2>4
    <3>2. SubSeq(b, 1, Len(b)) = b  BY <2>4
    <3>3. Reachable' => Undoes(wheel', Owed(a, 1))
      <4>1. Reachable' => Undoes(wheel', {})  BY <1>1 DEF TestInv, NoneOwed, Reachable
      <4> QED  BY <4>1, MoreUndoes
    <3> QED  BY <2>3, <2>7, <2>10, <3>1, <3>2, <3>3 DEF StepOwes
  <2>12. UndoOwes' /\ NoneOwed'  BY <2>7 DEF UndoOwes, NoneOwed
  <2> QED  BY <2>8, <2>9, <2>11, <2>12 DEF TestInv
<1> QED  BY <1>2, <1>3

\* A step under way: its body from the k-th call on.
StepAt(a, b, k) ==
  /\ a = Tests!Action /\ a \in Actions /\ b = Tests!Body(a) /\ b \in Seq(Doing \cup {"wait"})
  /\ k \in 1..Len(b) + 1 /\ thread.todo = SubSeq(b, k, Len(b))
  /\ Reachable => Undoes(wheel, Owed(a, k))

LEMMA StepIs ==
  ASSUME Tests!StepsAssumption, TestInv, thread.at = "step"
  PROVE  \E a, b, k : StepAt(a, b, k)
<1>1. PICK a : a = Tests!Action  OBVIOUS
<1>2. a \in Actions  BY <1>1, ActionIs
<1>3. PICK b : b = Tests!Body(a)  OBVIOUS
<1>4. b \in Seq(Doing \cup {"wait"})  BY <1>2, <1>3, TableTypes
<1>5. PICK k \in 1..Len(b) + 1 : /\ thread.todo = SubSeq(b, k, Len(b))
                                 /\ Reachable => Undoes(wheel, Owed(a, k))
  BY <1>1, <1>3 DEF TestInv, StepOwes
<1> QED  BY <1>1, <1>2, <1>3, <1>4, <1>5 DEF StepAt

\* A step that goes on to its k-th call.
LEMMA StepsOn ==
  ASSUME TestInv, thread.at = "step", NEW a \in Actions, a = Tests!Action, NEW b, b = Tests!Body(a),
         b \in Seq(Doing \cup {"wait"}), NEW k \in 1..Len(b) + 1,
         thread' \in ThreadSet, thread'.at = "step", thread'.row = thread.row,
         thread'.run = thread.run, thread'.todo = SubSeq(b, k, Len(b)),
         wheel' \in WheelSet, Reachable => Undoes(wheel', Owed(a, k)),
         UNCHANGED <<plugged, can, testing, cell, flags, posts, stopRow, dirty, runs>>
  PROVE  TestInv'
<1>1. OneRun'  BY GoesOnAsOne
<1>2. TestTypes'  BY DEF TestInv, TestTypes, Tests!Rows
<1>3. Tests!Action' = a  BY DEF Tests!Action
<1>4. StepOwes'  BY <1>3 DEF StepOwes, Reachable
<1>5. UndoOwes' /\ NoneOwed'  BY DEF UndoOwes, NoneOwed
<1> QED  BY <1>1, <1>2, <1>4, <1>5 DEF TestInv

LEMMA WaitStep == ASSUME Tests!StepsAssumption, TestInv, Tests!Wait PROVE TestInv'
<1>1. /\ thread.at = "step" /\ thread.todo # <<>> /\ Head(thread.todo) = "wait"
      /\ thread \in ThreadSet /\ wheel \in WheelSet
      /\ UNCHANGED <<wheel, plugged, can, testing, cell, flags, posts, stopRow, dirty, runs>>
  BY DEF Tests!Wait, Tests!Call, Tests!window, Tests!bounds, TestInv, TestTypes
<1>2. PICK a, b, k : StepAt(a, b, k)  BY <1>1, StepIs
<1>3. /\ a = Tests!Action /\ a \in Actions /\ b = Tests!Body(a) /\ b \in Seq(Doing \cup {"wait"})
      /\ k \in 1..Len(b) + 1 /\ thread.todo = SubSeq(b, k, Len(b))
      /\ Reachable => Undoes(wheel, Owed(a, k))
  BY <1>2 DEF StepAt
<1>4. Len(b) \in Nat /\ k \in 1..Len(b)  BY <1>1, <1>3, SuffixIs
<1>5. Tail(thread.todo) = SubSeq(b, k + 1, Len(b)) /\ k + 1 \in 1..Len(b) + 1
  BY <1>3, <1>4, SuffixIs
<1>6. OwesMore(a, k)  BY <1>3, <1>4, StepsOwe
<1>7. CASE thread' = [thread EXCEPT !.todo = Tail(@)]
  <2>1. PICK t : t = Tail(thread.todo)  OBVIOUS
  <2>2. t \in Seq(Undoing \cup Doing \cup {"wait"})  BY <1>1, <2>1 DEF ThreadSet
  <2>3. thread' = [thread EXCEPT !.todo = t]  BY <1>7, <2>1
  <2>4. /\ thread' \in ThreadSet /\ thread'.at = "step" /\ thread'.row = thread.row
        /\ thread'.run = thread.run /\ thread'.todo = t
    BY <1>1, <2>2, <2>3 DEF ThreadSet
  <2>5. Reachable => Undoes(wheel', Owed(a, k + 1))
    BY <1>1, <1>3, <1>6, MoreUndoes DEF OwesMore
  <2> QED  BY <1>1, <1>3, <1>5, <2>1, <2>4, <2>5, StepsOn
<1>8. CASE thread' = [thread EXCEPT !.todo = <<>>, !.result = "cancelled"]
  <2>1. /\ thread' \in ThreadSet /\ thread'.at = "step" /\ thread'.row = thread.row
        /\ thread'.run = thread.run /\ thread'.todo = <<>>
    <3>1. PICK e : e = <<>>  OBVIOUS
    <3>2. e \in Seq(Undoing \cup Doing \cup {"wait"})  BY <3>1
    <3>3. thread' = [thread EXCEPT !.todo = e, !.result = "cancelled"]  BY <1>8, <3>1
    <3>4. /\ thread' \in ThreadSet /\ thread'.at = "step" /\ thread'.row = thread.row
          /\ thread'.run = thread.run /\ thread'.todo = e
      BY <1>1, <3>2, <3>3 DEF ThreadSet
    <3> QED  BY <3>1, <3>4
  <2>2. PICK n : n = Len(b) + 1  OBVIOUS
  <2>3. n \in 1..Len(b) + 1 /\ SubSeq(b, n, Len(b)) = <<>>  BY <1>3, <1>4, <2>2, SuffixIs
  <2>4. Owed(a, n) = Left(Tests!Cleanup(a))  BY <1>3, <1>4, <2>2 DEF Owed
  <2>5. Reachable => Undoes(wheel', Owed(a, n))
    BY <1>1, <1>3, <1>6, <2>4, MoreUndoes DEF OwesMore
  <2> QED  BY <1>1, <1>3, <2>1, <2>3, <2>5, StepsOn
<1> QED  BY <1>7, <1>8 DEF Tests!Wait

\* A step that goes over to undoing.
LEMMA StepUndoes ==
  ASSUME TestInv, thread.at = "step", NEW u \in Seq(Undoing),
         thread' \in ThreadSet, thread'.at = "undo", thread'.row = thread.row,
         thread'.run = thread.run, thread'.todo = u, wheel' = wheel,
         Reachable => Undoes(wheel, Left(u)),
         UNCHANGED <<plugged, can, testing, cell, flags, posts, stopRow, dirty, runs>>
  PROVE  TestInv'
<1>1. OneRun'  BY GoesOnAsOne
<1>2. TestTypes'  BY DEF TestInv, TestTypes, Tests!Rows
<1>3. StepOwes' /\ UndoOwes' /\ NoneOwed'  BY DEF StepOwes, UndoOwes, NoneOwed, Reachable
<1> QED  BY <1>1, <1>2, <1>3 DEF TestInv

LEMMA UndoingIs ==
  ASSUME NEW u \in Seq(Undoing) PROVE u \in Seq(Undoing \cup Doing \cup {"wait"})
<1>1. \A i \in 1..Len(u) : u[i] \in Undoing \cup Doing \cup {"wait"}  OBVIOUS
<1> QED  BY <1>1

LEMMA CallStep == ASSUME Tests!StepsAssumption, TestInv, Tests!StepCall PROVE TestInv'
<1>1. /\ thread.at = "step" /\ thread.todo # <<>> /\ Head(thread.todo) # "wait"
      /\ thread \in ThreadSet /\ wheel \in WheelSet
      /\ UNCHANGED <<plugged, can, testing, cell, flags, posts, stopRow, dirty, runs>>
  BY DEF Tests!StepCall, Tests!Call, Tests!window, TestInv, TestTypes
<1>2. PICK a, b, k : StepAt(a, b, k)  BY <1>1, StepIs
<1>3. /\ a = Tests!Action /\ a \in Actions /\ b = Tests!Body(a) /\ b \in Seq(Doing \cup {"wait"})
      /\ k \in 1..Len(b) + 1 /\ thread.todo = SubSeq(b, k, Len(b))
      /\ Reachable => Undoes(wheel, Owed(a, k))
  BY <1>2 DEF StepAt
<1>4. Len(b) \in Nat /\ k \in 1..Len(b)  BY <1>1, <1>3, SuffixIs
<1>5. /\ Tail(thread.todo) = SubSeq(b, k + 1, Len(b)) /\ Head(thread.todo) = b[k]
      /\ k + 1 \in 1..Len(b) + 1
  BY <1>3, <1>4, SuffixIs
<1>6. OwesMore(a, k)  BY <1>3, <1>4, StepsOwe
<1>7. PICK c : c = Tests!Call  OBVIOUS
<1>8. c = b[k] /\ c \in Doing  BY <1>1, <1>3, <1>5, <1>6, <1>7 DEF OwesMore, Tests!Call
<1>9. CASE Tests!May(Tests!Call) /\ thread' = [thread EXCEPT !.todo = Tail(@)]
  <2>1. PICK t : t = Tail(thread.todo)  OBVIOUS
  <2>2. t \in Seq(Undoing \cup Doing \cup {"wait"})  BY <1>1, <2>1 DEF ThreadSet
  <2>3. thread' = [thread EXCEPT !.todo = t]  BY <1>9, <2>1
  <2>4. /\ thread' \in ThreadSet /\ thread'.at = "step" /\ thread'.row = thread.row
        /\ thread'.run = thread.run /\ thread'.todo = t
    BY <1>1, <2>2, <2>3 DEF ThreadSet
  <2>5. wheel' = Tests!Done(c)  BY <1>7, <1>9 DEF Tests!May
  <2>6. wheel' \in WheelSet  BY <1>1, <1>8, <2>5, DoneIs
  <2>7. ASSUME Reachable PROVE Undoes(wheel', Owed(a, k + 1))
    <3>1. Undoes(wheel, Owed(a, k + 1))  BY <1>3, <1>6, <2>7, MoreUndoes DEF OwesMore
    <3>2. UndoOf(c) \in Owed(a, k + 1)  BY <1>1, <1>3, <1>5, <1>6, <1>8 DEF OwesMore
    <3> QED  BY <1>1, <1>8, <2>5, <3>1, <3>2, DoCallIs
  <2> QED  BY <1>1, <1>3, <1>5, <2>1, <2>4, <2>6, <2>7, StepsOn
<1>10. CASE /\ Tests!Cannot
            /\ thread' = [thread EXCEPT
                           !.at = "undo", !.todo
                             = Tests!Undone(Tests!Action, Tests!Call), !.result = "failed"]
  <2>1. PICK u : u = Tests!Undone(a, c)  OBVIOUS
  <2>2. u \in Seq(Undoing)  BY <1>3, <2>1, UndoneTypes
  <2>3. thread' = [thread EXCEPT !.at = "undo", !.todo = u, !.result = "failed"]
    BY <1>3, <1>7, <1>10, <2>1
  <2>4. u \in Seq(Undoing \cup Doing \cup {"wait"})  BY <2>2, UndoingIs
  <2>5. /\ thread' \in ThreadSet /\ thread'.at = "undo" /\ thread'.row = thread.row
        /\ thread'.run = thread.run /\ thread'.todo = u
    BY <1>1, <2>3, <2>4 DEF ThreadSet
  <2>6. Owed(a, k) = Left(u)  BY <1>3, <1>4, <1>8, <2>1 DEF Owed
  <2>7. wheel' = wheel  BY <1>10 DEF Tests!Cannot
  <2> QED  BY <1>1, <1>3, <2>2, <2>5, <2>6, <2>7, StepUndoes
<1> QED  BY <1>9, <1>10 DEF Tests!StepCall

LEMMA BodyEndsStep == ASSUME Tests!StepsAssumption, TestInv, Tests!BodyEnds PROVE TestInv'
<1>1. /\ thread.at = "step" /\ thread.todo = <<>> /\ thread \in ThreadSet
      /\ UNCHANGED <<wheel, plugged, can, testing, cell, flags, posts, stopRow, dirty, runs>>
  BY DEF Tests!BodyEnds, Tests!window, Tests!bounds, TestInv, TestTypes
<1>2. PICK a, b, k : StepAt(a, b, k)  BY <1>1, StepIs
<1>3. /\ a = Tests!Action /\ a \in Actions /\ b = Tests!Body(a) /\ b \in Seq(Doing \cup {"wait"})
      /\ k \in 1..Len(b) + 1 /\ thread.todo = SubSeq(b, k, Len(b))
      /\ Reachable => Undoes(wheel, Owed(a, k))
  BY <1>2 DEF StepAt
<1>4. Len(b) \in Nat /\ k = Len(b) + 1
  <2>1. ~(k <= Len(b))  BY <1>1, <1>3, SuffixIs
  <2> QED  BY <1>3, <2>1
<1>5. PICK u : u = Tests!Cleanup(a)  OBVIOUS
<1>6. u \in Seq(Undoing) /\ Owed(a, k) = Left(u)
  BY <1>3, <1>4, <1>5, TableTypes DEF Owed
<1>7. thread' = [thread EXCEPT !.at = "undo", !.todo = u]  BY <1>3, <1>5 DEF Tests!BodyEnds
<1>8. u \in Seq(Undoing \cup Doing \cup {"wait"})  BY <1>6, UndoingIs
<1>9. /\ thread' \in ThreadSet /\ thread'.at = "undo" /\ thread'.row = thread.row
      /\ thread'.run = thread.run /\ thread'.todo = u
  BY <1>1, <1>7, <1>8 DEF ThreadSet
<1> QED  BY <1>1, <1>3, <1>6, <1>9, StepUndoes

LEMMA UndoStep == ASSUME Tests!StepsAssumption, TestInv, Tests!UndoCall PROVE TestInv'
<1>1. /\ thread.at = "undo" /\ thread.todo # <<>> /\ thread.todo \in Seq(Undoing)
      /\ thread \in ThreadSet /\ wheel \in WheelSet /\ dirty \in BOOLEAN
      /\ Reachable => Undoes(wheel, Left(thread.todo))
      /\ UNCHANGED <<plugged, can, testing, cell, flags, posts, stopRow, runs>>
  BY DEF Tests!UndoCall, Tests!window, TestInv, TestTypes, UndoOwes
<1>2. PICK t : t = Tail(thread.todo)  OBVIOUS
<1>3. PICK c : c = Tests!Call  OBVIOUS
<1>4. Left(thread.todo) \subseteq Left(t) \cup {c} /\ c \in Undoing /\ t \in Seq(Undoing)
  BY <1>1, <1>2, <1>3, LeftSplits DEF Tests!Call
<1>5. t \in Seq(Undoing \cup Doing \cup {"wait"})  BY <1>4, UndoingIs
<1>6. ASSUME thread' \in ThreadSet, thread'.at = "undo", thread'.row = thread.row,
             thread'.run = thread.run, thread'.todo = t, wheel' \in WheelSet,
             dirty' \in BOOLEAN, Reachable' => Undoes(wheel', Left(t))
      PROVE  TestInv'
  <2>1. OneRun'  BY <1>1, <1>6, GoesOnAsOne
  <2>2. TestTypes'  BY <1>1, <1>6 DEF TestInv, TestTypes, Tests!Rows
  <2>3. StepOwes' /\ UndoOwes' /\ NoneOwed'  BY <1>4, <1>6 DEF StepOwes, UndoOwes, NoneOwed
  <2> QED  BY <2>1, <2>2, <2>3 DEF TestInv
<1>7. CASE Tests!May(Tests!Call) /\ thread' = [thread EXCEPT !.todo = Tail(@)] /\ UNCHANGED dirty
  <2>1. thread' = [thread EXCEPT !.todo = t]  BY <1>2, <1>7
  <2>2. /\ thread' \in ThreadSet /\ thread'.at = "undo" /\ thread'.row = thread.row
        /\ thread'.run = thread.run /\ thread'.todo = t
    BY <1>1, <1>5, <2>1 DEF ThreadSet
  <2>3. wheel' = Tests!Done(c) /\ dirty' = dirty  BY <1>3, <1>7 DEF Tests!May
  <2>4. wheel' \in WheelSet  BY <1>1, <1>4, <2>3, DoneIs
  <2>5. ASSUME Reachable PROVE Undoes(wheel', Left(t))
    <3>1. Undoes(wheel, Left(t) \cup {c})  BY <1>1, <1>4, <2>5, MoreUndoes
    <3> QED  BY <1>1, <1>4, <2>3, <3>1, UndoCallIs
  <2>6. Reachable' => Reachable  BY <1>1, <2>3 DEF Reachable
  <2> QED  BY <1>1, <1>6, <2>2, <2>3, <2>4, <2>5, <2>6
<1>8. CASE /\ Tests!Cannot /\ dirty' = TRUE
           /\ thread' = [thread EXCEPT !.todo = Tail(@),
                                       !.result = IF Tests!Call \in {"gain_full", "auto_off"}
                                                  THEN "failed" ELSE @]
  <2>1. PICK f : f = IF c \in {"gain_full", "auto_off"} THEN "failed" ELSE thread.result
    OBVIOUS
  <2>2. f \in {"completed", "cancelled", "failed"}  BY <1>1, <2>1 DEF ThreadSet
  <2>3. thread' = [thread EXCEPT !.todo = t, !.result = f]  BY <1>2, <1>3, <1>8, <2>1
  <2>4. /\ thread' \in ThreadSet /\ thread'.at = "undo" /\ thread'.row = thread.row
        /\ thread'.run = thread.run /\ thread'.todo = t
    BY <1>1, <1>5, <2>2, <2>3 DEF ThreadSet
  <2>5. wheel' = wheel /\ dirty' = TRUE  BY <1>8 DEF Tests!Cannot
  <2>6. ~Reachable'  BY <2>5 DEF Reachable
  <2> QED  BY <1>1, <1>6, <2>4, <2>5, <2>6
<1> QED  BY <1>7, <1>8 DEF Tests!UndoCall

LEMMA EndsStep == ASSUME Tests!StepsAssumption, TestInv, Tests!StepEnds PROVE TestInv'
<1>1. /\ thread.at = "undo" /\ thread.todo = <<>> /\ thread \in ThreadSet
      /\ UNCHANGED <<wheel, plugged, can, testing, cell, flags, posts, stopRow, dirty, runs>>
  BY DEF Tests!StepEnds, Tests!window, Tests!bounds, TestInv, TestTypes
<1>2. PICK p : p = IF thread.result = "completed" THEN "row" ELSE "finish"  OBVIOUS
<1>3. p \in {"row", "finish"}  BY <1>2
<1>4. thread' = [thread EXCEPT !.at = p, !.result = "completed"]  BY <1>2 DEF Tests!StepEnds
<1>5. /\ thread' \in ThreadSet /\ thread'.at = p /\ thread'.row = thread.row
      /\ thread'.run = thread.run
  BY <1>1, <1>3, <1>4 DEF ThreadSet
<1>6. OneRun'  BY <1>1, <1>3, <1>5, GoesOnAsOne
<1>7. TestTypes'  BY <1>1, <1>3, <1>5 DEF TestInv, TestTypes, Tests!Rows
<1>8. Reachable => Undoes(wheel, {})  BY <1>1, LeftOf DEF TestInv, UndoOwes
<1>9. StepOwes' /\ UndoOwes' /\ NoneOwed'
  BY <1>1, <1>3, <1>5, <1>8 DEF StepOwes, UndoOwes, NoneOwed, Reachable
<1> QED  BY <1>6, <1>7, <1>9 DEF TestInv

\* The end of a run: the node is closed, the cell emptied, the window told.
LEMMA FinishStep == ASSUME Tests!StepsAssumption, TestInv, Tests!Finish PROVE TestInv'
<1>1. /\ thread.at \in {"finish", "reset"} /\ thread \in ThreadSet /\ wheel \in WheelSet
      /\ UNCHANGED <<plugged, can, testing, flags, stopRow, dirty, runs>>
  BY DEF Tests!Finish, Tests!Finishing, Tests!bounds, TestInv, TestTypes
<1>2. thread # Tests!Ended /\ testing /\ posts = <<>>  BY <1>1 DEF TestInv, OneRun, Tests!Ended
<1>3. wheel' = [wheel EXCEPT !.effects = {}, !.playing = {}]  BY DEF Tests!Finish
<1>4. wheel' \in WheelSet /\ (Reachable => Undoes(wheel', {}))
  <2>1. Reachable => Undoes(wheel, {})  BY <1>1 DEF TestInv, NoneOwed
  <2> QED  BY <1>1, <1>3, <2>1 DEF WheelSet, Undoes
<1>5. CASE thread.at = "finish" /\ cell' = Tests!None /\ Tests!At("reset") /\ UNCHANGED posts
  <2>1. /\ thread' \in ThreadSet /\ thread'.at = "reset" /\ thread'.row = thread.row
        /\ thread'.run = thread.run
    BY <1>5, AtIs
  <2>2. thread' # Tests!Ended  BY <2>1 DEF Tests!Ended
  <2>3. TestTypes' /\ StepOwes' /\ UndoOwes' /\ NoneOwed'
    BY <1>1, <1>4, <2>1 DEF TestInv, TestTypes, StepOwes, UndoOwes, NoneOwed, Reachable, Tests!Rows
  <2>4. OneRun'  BY <1>1, <1>2, <1>5, <2>1, <2>2 DEF TestInv, OneRun
  <2> QED  BY <2>3, <2>4 DEF TestInv
<1>6. CASE /\ thread.at = "reset" /\ posts' = Append(posts, "reset") /\ thread' = Tests!Ended
           /\ UNCHANGED cell
  <2>1. posts' = <<"reset">>  BY <1>2, <1>6
  <2>2. thread' \in ThreadSet /\ thread'.at = "ended"
    BY <1>6 DEF Tests!Ended, ThreadSet, Tests!None
  <2>3. TestTypes' /\ StepOwes' /\ UndoOwes' /\ NoneOwed'
    BY <1>1, <1>4, <2>2 DEF TestInv, TestTypes, StepOwes, UndoOwes, NoneOwed, Reachable, Tests!Rows
  <2>4. cell = Tests!None  BY <1>6 DEF TestInv, OneRun
  <2>5. OneRun'  BY <1>1, <1>2, <1>6, <2>1, <2>2, <2>4 DEF TestInv, OneRun
  <2> QED  BY <2>3, <2>5 DEF TestInv
<1> QED  BY <1>5, <1>6 DEF Tests!Finish, Tests!Finishing

LEMMA TestSteps == ASSUME Tests!StepsAssumption, TestInv, [Tests!Next]_(Tests!vars) PROVE TestInv'
<1>1. CASE UNCHANGED Tests!vars
  BY <1>1 DEF Tests!vars, TestInv, TestTypes, StepOwes, UndoOwes, NoneOwed, OneRun, Reachable,
              Tests!Action, Tests!Rows
<1> QED
  BY <1>1, StartStep, StopStep, PostStep, UnplugStep, OpenStep, RowStep, CountdownStep, WaitStep,
     CallStep, BodyEndsStep, UndoStep, EndsStep, FinishStep DEF Tests!Next, Tests!Thread

LEMMA TestSound == TestInv => Tests!WheelLeftQuiet /\ Tests!StopsRightThere
<1> SUFFICES ASSUME TestInv PROVE Tests!WheelLeftQuiet /\ Tests!StopsRightThere  OBVIOUS
<1>1. Tests!WheelLeftQuiet
  <2>1. wheel \in WheelSet  BY DEF TestInv, TestTypes
  <2> QED  BY <2>1, QuietIs DEF TestInv, NoneOwed, Reachable, Tests!WheelLeftQuiet
<1>2. Tests!StopsRightThere
  <2> SUFFICES ASSUME thread.run # Tests!None
               PROVE  /\ thread.run \in flags => thread.row = stopRow
                      /\ thread.at \notin {"reset", "ended"} => cell = thread.run
    BY DEF Tests!StopsRightThere
  <2>1. thread # Tests!Ended  BY DEF Tests!Ended
  <2> QED  BY <2>1 DEF TestInv, OneRun
<1> QED  BY <1>1, <1>2
=============================================================================
