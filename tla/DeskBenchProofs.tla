--------------------------- MODULE DeskBenchProofs --------------------------
(***************************************************************************)
(* What DeskProofs, EditorProofs and OnboardProofs show of a component     *)
(* holds of it on the bench, where the runs check it: the component keeps  *)
(* its place there, and a step of the bench is one of its own.             *)
(***************************************************************************)
EXTENDS DeskBench, TLAPS

LEMMA PartStays == [Next]_vars => UNCHANGED part
BY DEF Next, vars

LEMMA TuiOnBench ==
  /\ Init /\ part = "tui" => Desk!Tui!Init
  /\ [Next]_vars /\ part = "tui" => [Desk!Tui!Next]_(Desk!Tui!vars)
BY DEF Init, Next, vars, Desk!Tui!vars

\* app.rs, whatever the wheels, however many keys and however often the cable
\* is pulled: no prompt is left open behind another page or for another wheel,
\* every run of the installer was asked for, and the monitor is that of the
\* wheel being managed.
THEOREM PromptsOnBench == Spec => []PromptsAnswerable
<1> DEFINE Inv == part = "tui" => Desk!TuiInv
<1>1. Init => Inv
  BY TuiOnBench, Desk!TuiStarts
<1>2. Inv /\ [Next]_vars => Inv'
  BY TuiOnBench, PartStays, Desk!TuiSteps
<1>3. Inv => PromptsAnswerable
  BY Desk!TuiSound DEF PromptsAnswerable
<1> QED  BY <1>1, <1>2, <1>3, PTL DEF Spec

LEMMA SetupOnBench ==
  /\ Init /\ part = "setup" => Desk!Setup!Init
  /\ [Next]_vars /\ part = "setup" => [Desk!Setup!Next]_(Desk!Setup!vars)
BY DEF Init, Next, vars, Desk!Setup!vars

\* main.rs refresh_games, bridge.rs setup_games and games.rs, for any one or
\* two wheels, games and number of scans under way: the rows describe the wheel
\* being managed, raw HID never takes a wheel that cannot be driven through it,
\* and one program drives the lights and the texture.
THEOREM SetupOnDesk ==
  ASSUME Desk!Setup!WheelAssumption PROVE Spec => []SetupOfManagedWheel
<1> DEFINE Inv == part = "setup" => Desk!SetupInv
<1>1. Init => Inv
  BY SetupOnBench, Desk!SetupStarts
<1>2. Inv /\ [Next]_vars => Inv'
  BY SetupOnBench, PartStays, Desk!SetupSteps
<1>3. Inv => SetupOfManagedWheel
  BY Desk!SetupSound DEF SetupOfManagedWheel
<1> QED  BY <1>1, <1>2, <1>3, PTL DEF Spec

LEMMA SimOnBench ==
  /\ Init /\ part = "sim" => Desk!Sim!Init
  /\ [Next]_vars /\ part = "sim" => [Desk!Sim!Next]_(Desk!Sim!vars)
BY DEF Init, Next, vars, Desk!Sim!vars

\* main.rs run_tf_sweep, for any number of processes and clicks: whenever the
\* button offers another sweep, the last one's thread, parked pid, process and
\* queued end are gone.
THEOREM SweepOnBench ==
  ASSUME Desk!Sim!PidAssumption PROVE Spec => []SweepFlagTruthful
<1> DEFINE Inv == part = "sim" => Desk!SweepInv /\ Desk!PanelTypes
<1>1. Init => Inv
  BY SimOnBench, Desk!PanelStarts
<1>2. Inv /\ [Next]_vars => Inv'
  BY SimOnBench, PartStays, Desk!SweepStep, Desk!PanelStep
<1>3. Inv => SweepFlagTruthful
  BY Desk!PanelSound DEF SweepFlagTruthful
<1> QED  BY <1>1, <1>2, <1>3, PTL DEF Spec

LEMMA KineticOnBench ==
  /\ Init /\ part = "kinetic" => Desk!Kinetic!Init
  /\ [Next]_vars /\ part = "kinetic" => [Desk!Kinetic!Next]_(Desk!Kinetic!vars)
BY DEF Init, Next, vars, Desk!Kinetic!vars

\* kf.c and status.c, for any torques, peak and slots but slot 0: as long as no
\* system call failed the effects that play add up to what GetTorqueKF reports,
\* and a thread that makes one call at a time never closes the descriptor under
\* the status thread.
THEOREM MotorOnBench ==
  ASSUME Desk!Kinetic!KineticAssumption, Desk!Kinetic!OneCaller
  PROVE  Spec => []MotorFollowsCalls
<1> DEFINE Inv == part = "kinetic" => Desk!KineticInv /\ Desk!JoinedFirst
<1>1. Init => Inv
  BY KineticOnBench, Desk!KineticStarts
<1>2. Inv /\ [Next]_vars => Inv'
  BY KineticOnBench, PartStays, Desk!KineticStep, Desk!StatusStep
<1>3. Inv => MotorFollowsCalls
  BY Desk!KineticSound DEF MotorFollowsCalls, Desk!JoinedFirst
<1> QED  BY <1>1, <1>2, <1>3, PTL DEF Spec

LEMMA QueryOnBench ==
  /\ Init /\ part = "query" => Desk!Query!Init
  /\ [Next]_vars /\ part = "query" => [Desk!Query!Next]_(Desk!Query!vars)
BY DEF Init, Next, vars, Desk!Query!vars

\* hidpp.rs, for every feature table and any number of lost, late and stray
\* reports: a probe that was answered lights and darkens the strip (issue #27),
\* and the effect the owner chose is left alone, whichever answers of earlier
\* questions a left-over reader took.
THEOREM ProbeOnBench ==
  ASSUME Desk!Query!InterfaceAssumption PROVE Spec => []ProbeHarmless
<1> DEFINE Inv == part = "query" => Desk!QueryInv
<1>1. Init => Inv
  BY QueryOnBench, Desk!QueryStarts
<1>2. Inv /\ [Next]_vars => Inv'
  BY QueryOnBench, PartStays, Desk!QuerySteps
<1>3. Inv => ProbeHarmless
  BY Desk!QuerySound DEF ProbeHarmless
<1> QED  BY <1>1, <1>2, <1>3, PTL DEF Spec

LEMMA SectionsOnBench ==
  /\ Init /\ part = "sections" => Desk!Shm!Init
  /\ [Next]_vars /\ part = "sections" => [Desk!Shm!Next]_(Desk!Shm!vars)
BY DEF Init, Next, vars, Desk!Shm!vars

LEMMA ScsOnBench ==
  /\ Init /\ part = "scs" => Desk!Scs!Init
  /\ [Next]_vars /\ part = "scs" => [Desk!Scs!Next]_(Desk!Scs!vars)
BY DEF Init, Next, vars, Desk!Scs!vars

\* iracing.rs and logi-tf-scs, for any number of frames and callbacks: a sample
\* from iRacing is that of one frame as long as the game completes at most one
\* while the section is copied, and the truck simulators' last word before a
\* menu or a shutdown is engine off.
THEOREM SamplesOnBench ==
  ASSUME Desk!Shm!PaceAssumption, Desk!Scs!RedlineAssumption
  PROVE  Spec => []SamplesTrue
<1> DEFINE Inv == /\ part = "sections" => Desk!SectionInv
                  /\ part = "scs" => Desk!ScsInv
<1>1. Init => Inv
  BY SectionsOnBench, ScsOnBench, Desk!SectionStarts, Desk!ScsStarts
<1>2. Inv /\ [Next]_vars => Inv'
  BY SectionsOnBench, ScsOnBench, PartStays, Desk!SectionSteps, Desk!ScsSteps
<1>3. Inv => SamplesTrue
  BY DEF SamplesTrue, Desk!SectionInv, Desk!ScsInv
<1> QED  BY <1>1, <1>2, <1>3, PTL DEF Spec

LEMMA ProxyOnBench ==
  /\ Init /\ part = "proxy" => Desk!Proxy!Init
  /\ [Next]_vars /\ part = "proxy" => [Desk!Proxy!Next]_(Desk!Proxy!vars)
BY DEF Init, Next, vars, Desk!Proxy!vars

\* logi-ffb, for any number of effects, any queue between the poll loop and the
\* sink and whatever the wheel refused: once the sink has caught up the real
\* wheel holds and plays what the host set, as long as no block index is given
\* out twice, and it is handed back empty and at full gain.
THEOREM ProxyOnDesk ==
  ASSUME Desk!Proxy!BlockAssumption PROVE Spec => []WheelFollowsHost
<1> DEFINE Inv == part = "proxy" => Desk!ProxyInv
<1>1. Init => Inv
  BY ProxyOnBench, Desk!ProxyStarts
<1>2. Inv /\ [Next]_vars => Inv'
  BY ProxyOnBench, PartStays, Desk!ProxySteps
<1>3. Inv => WheelFollowsHost
  BY Desk!ProxySound DEF WheelFollowsHost
<1> QED  BY <1>1, <1>2, <1>3, PTL DEF Spec

LEMMA GuiOnBench ==
  /\ Init /\ part = "gui" => Editors!Gui!Init
  /\ [Next]_vars /\ part = "gui" => [Editors!Gui!Next]_(Editors!Gui!vars)
BY DEF Init, Next, vars, Editors!Gui!vars

\* The window, for any number of light slots, clicks, refused writes and
\* replies on their way: with every reply applied the page selected shows what
\* the wheel reports, a name is cached for its own slot unless the page
\* changed between the two rows of a rename, and what the slot editor
\* committed is on the strip.
THEOREM GuiOnDesk ==
  ASSUME Editors!Gui!SlotAssumption PROVE Spec => []PageSettles
<1> DEFINE Inv == part = "gui" => Editors!GuiInv
<1>1. Init => Inv
  BY GuiOnBench, Editors!GuiStarts
<1>2. Inv /\ [Next]_vars => Inv'
  BY GuiOnBench, PartStays, Editors!GuiSteps
<1>3. Inv => PageSettles
  BY Editors!GuiSound DEF PageSettles
<1> QED  BY <1>1, <1>2, <1>3, PTL DEF Spec

LEMMA CurveOnBench ==
  /\ Init /\ part = "curve" => Editors!Curve!Init
  /\ [Next]_vars /\ part = "curve" => [Editors!Curve!Next]_(Editors!Curve!vars)
BY DEF Init, Next, vars, Editors!Curve!vars

\* curve.rs, for every number of points and every resolution of the axes:
\* whatever was dragged, clicked, nudged and set as a dead zone composes to a
\* list the driver's uploader accepts, in order, from nothing to full.
THEOREM CurveOnDesk ==
  ASSUME Editors!Curve!CurveAssumption PROVE Spec => []ComposedValid
<1> DEFINE Inv == part = "curve" => Editors!CurveInv
<1>1. Init => Inv
  BY CurveOnBench, Editors!CurveStarts
<1>2. Inv /\ [Next]_vars => Inv'
  BY CurveOnBench, PartStays, Editors!CurveSteps
<1>3. Inv => ComposedValid
  BY Editors!CurveSound DEF ComposedValid
<1> QED  BY <1>1, <1>2, <1>3, PTL DEF Spec

LEMMA ConfOnBench ==
  /\ Init /\ part = "conf" => Editors!Conf!Init
  /\ [Next]_vars /\ part = "conf" => [Editors!Conf!Next]_(Editors!Conf!vars)
BY DEF Init, Next, vars, Editors!Conf!vars

\* tfsim.rs and config.rs, for every file the user left and every line added
\* by hand, however the programs' reads and writes interleave and whichever
\* write failed: an edit no other write overlapped is what both parsers read
\* and leaves every other line alone, and the parsers agree.
THEOREM ConfOnDesk ==
  ASSUME Editors!Conf!ConfAssumption PROVE Spec => []EditTakes
<1> DEFINE Inv == part = "conf" => Editors!ConfInv
<1>1. Init => Inv
  BY ConfOnBench, Editors!ConfStarts
<1>2. Inv /\ [Next]_vars => Inv'
  BY ConfOnBench, PartStays, Editors!ConfSteps
<1>3. Inv => EditTakes
  BY Editors!ConfSound DEF EditTakes
<1> QED  BY <1>1, <1>2, <1>3, PTL DEF Spec

LEMMA EditOnBench ==
  /\ Init /\ part = "edit" => Editors!Edit!Init
  /\ [Next]_vars /\ part = "edit" => [Editors!Edit!Next]_(Editors!Edit!vars)
BY DEF Init, Next, vars, Editors!Edit!vars

LEMMA ColorsOnBench ==
  /\ Init /\ part = "colors" => Editors!Colors!Init
  /\ [Next]_vars /\ part = "colors" => [Editors!Colors!Next]_(Editors!Colors!vars)
BY DEF Init, Next, vars, Editors!Colors!vars

LEMMA ScreenOnBench ==
  /\ Init /\ part = "screen" => Onboard!Init
  /\ [Next]_vars /\ part = "screen" => [Onboard!Next]_(Onboard!vars)
BY DEF Init, Next, vars, Onboard!vars

\* The inline editor, the color picker and the screen's editors, for every
\* range, step, strip, palette, table of layouts and text typed: a value that
\* was written is what is read back and a loaded curve is never saved as none;
\* the strip is the one that was painted; and a design the driver took reads
\* back as it was designed, which a plain one that composes always is.
THEOREM WrittenOnDesk ==
  ASSUME Editors!Edit!EditAssumption, Editors!Colors!PaletteAssumption,
         Onboard!ScreenAssumption
  PROVE  Spec => []ReadsBackAsWritten
<1> DEFINE Inv == /\ part = "edit" => Editors!EditInv
                  /\ part = "colors" => Editors!PaletteInv
                  /\ part = "screen" => Onboard!ScreenInv
<1>1. Init => Inv
  BY EditOnBench, ColorsOnBench, ScreenOnBench, Editors!EditStarts, Editors!PaletteStarts,
     Onboard!ScreenStarts
<1>2. Inv /\ [Next]_vars => Inv'
  <2> SUFFICES ASSUME Inv, [Next]_vars PROVE Inv'  OBVIOUS
  <2>1. UNCHANGED part  BY PartStays
  <2>2. part = "edit" => Editors!EditInv'  BY EditOnBench, Editors!EditSteps
  <2>3. part = "colors" => Editors!PaletteInv'  BY ColorsOnBench, Editors!PaletteSteps
  <2>4. part = "screen" => Onboard!ScreenInv'  BY ScreenOnBench, Onboard!ScreenSteps
  <2> QED  BY <2>1, <2>2, <2>3, <2>4
<1>3. Inv => ReadsBackAsWritten
  <2> SUFFICES ASSUME Inv PROVE ReadsBackAsWritten  OBVIOUS
  <2>1. part = "edit" => /\ Editors!Edit!TypeOK /\ Editors!Edit!ReadsBackAsWritten
                         /\ Editors!Edit!LoadedCurveNotErased /\ Editors!Edit!ArrowsStayValid
    BY Editors!EditSound
  <2>2. part = "colors" => /\ Editors!Colors!TypeOK /\ Editors!Colors!StripAsCommitted
                           /\ Editors!Colors!PairsStayPairs
    BY Editors!PaletteSound
  <2>3. part = "screen" => /\ Onboard!FocusInLayout /\ Onboard!PlainFrameTaken
                           /\ Onboard!ReadsBackAsDesigned /\ Onboard!DashboardAsTold
    BY Onboard!ScreenSound
  <2> QED  BY <2>1, <2>2, <2>3 DEF ReadsBackAsWritten
<1> QED  BY <1>1, <1>2, <1>3, PTL DEF Spec

LEMMA WorkerOnBench ==
  /\ Init /\ part = "worker" => Onboard!Worker!Init
  /\ [Next]_vars /\ part = "worker" => [Onboard!Worker!Next]_(Onboard!Worker!vars)
BY DEF Init, Next, vars, Onboard!Worker!vars

\* worker.rs, onboard.rs and profiles.rs, for any wheels, number of slots,
\* clicks, presses, unplugging and refused writes: with nobody else at the wheel
\* the window shows what its own requests left there, a write to a slot lands in
\* another only if the slot was switched while that very request was being
\* carried out, Revert gives back the values before the editing, and a profile
\* applied is the profile saved.
THEOREM WorkerOnDesk ==
  ASSUME Onboard!Worker!SlotsAssumption PROVE Spec => EditsLand
<1> DEFINE Inv == part = "worker" => Onboard!WorkerInv
           Landed == part = "worker" => /\ Onboard!Worker!PageShowsOwnWork
                                        /\ Onboard!Worker!EditsStayInSlot
           Answered == part = "worker" => /\ Onboard!Worker!RevertDone
                                          /\ Onboard!Worker!ApplyDone
<1>1. Init => Inv
  BY WorkerOnBench, Onboard!WorkerStarts
<1>2. Inv /\ [Next]_vars => Inv'
  BY WorkerOnBench, PartStays, Onboard!WorkerSteps
<1>3. Inv => Landed
  BY Onboard!WorkerSound
<1>4. Inv /\ [Next]_vars => Answered
  BY WorkerOnBench, Onboard!AnswerSound
<1>5. Inv /\ [Next]_vars => [Answered]_vars
  BY <1>4
<1> HIDE DEF Inv, Landed, Answered
<1>6. Spec => []Landed /\ [][Answered]_vars
  BY <1>1, <1>2, <1>3, <1>5, PTL DEF Spec
<1> QED  BY <1>6, PTL DEF EditsLand, Landed, Answered

LEMMA TestsOnBench ==
  /\ Init /\ part = "tests" => Desk!Tests!Init
  /\ [Next]_vars /\ part = "tests" => [Desk!Tests!Next]_(Desk!Tests!vars)
BY DEF Init, Next, vars, Desk!Tests!vars

\* fftest.rs run_sequence and main.rs run_test_sim, for any table of steps, with
\* any calls failing, the wheel pulled, runs stopped anywhere and started again:
\* between the rows and after a run nothing of a step is left on a wheel that took
\* the calls that undo it, and a stopped run plays no further row, the flag in the
\* cell being its own.
THEOREM TestsOnDesk ==
  ASSUME Desk!Tests!StepsAssumption PROVE Spec => []TestsEndQuiet
<1> DEFINE Inv == part = "tests" => Desk!TestInv
<1>1. Init => Inv
  BY TestsOnBench, Desk!TestStarts
<1>2. Inv /\ [Next]_vars => Inv'
  BY TestsOnBench, PartStays, Desk!TestSteps
<1>3. Inv => TestsEndQuiet
  BY Desk!TestSound DEF TestsEndQuiet
<1> QED  BY <1>1, <1>2, <1>3, PTL DEF Spec
=============================================================================
