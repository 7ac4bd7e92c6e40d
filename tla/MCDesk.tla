------------------------------- MODULE MCDesk -------------------------------
(***************************************************************************)
(* DeskBench for TLC, on instances too large for a liveness check.         *)
(***************************************************************************)
EXTENDS DeskBench

\* The wheels of the launch plan, one no table knows among them.
Plugged(m, p, r) == [model |-> m, pid |-> p, ranged |-> r]
AnyWheel   == {Plugged("dd", "dd", TRUE), Plugged("unknown", "none", TRUE),
               Plugged("g923", "xbox", FALSE), Plugged("g923", "ps", FALSE),
               Plugged("g923", "xboxBoot", FALSE)}

\* HidppQuery: device information, the feature list and the rev display; one
\* interface without HID++ among three.
Table  == <<3, 1, 122>>
Parts  == <<1, 0>>

\* KineticForce: torques within the wheel's peak and beyond it.
Requests == {-9, -3, 0, 5, 12}

\* ForceTest: a row of each action.
TestRows == <<"effect", "mixed", "gain", "auto">>

\* tf-sim.conf: no file, a comment and a key only the daemon knows, or a key
\* set twice; and what a user may add by hand, a misspelt key included.
Line(k, v) == [key |-> k, value |-> v]
NoFile     == <<Line("absent", "")>>
OldFiles   == {NoFile, <<Line("#", ""), Line("port", "250")>>}
NewFiles   == {NoFile, <<Line("intensity", "50"), Line("enabled", "0"),
                         Line("intensity", "0")>>}
Lines      == {Line("enabled", "0"), Line("intensity", "250"),
               Line("intensty", "50"), Line("port", "250")}

\* The screen: a layout of each shape, one the wheel does not have among them,
\* presets with and without telemetry, and what a field may be set to.
Layouts    == << <<>>, <<-1, 2>>, <<1, 3>>, <<-1>> >>
Presets    == << [layout |-> 3, values |-> << <<"{k}">>, <<"{k}">> >>],
                 [layout |-> 2, values |-> << <<"{k}">>, <<"x", " ">> >>],
                 [layout |-> 1, values |-> <<>>] >>
FieldTexts == {<<" ", "0", "9", " ">>, <<"{", "|", "x">>, <<" ", "x", " ">>,
               <<"x", "|">>, <<"x", "e2">>}
Sample     == <<"9">>

\* What the proofs assume of the constants.
ASSUME BenchAssumption ==
  /\ Desk!Sim!PidAssumption /\ Desk!Scs!RedlineAssumption /\ Desk!Setup!WheelAssumption
  /\ Desk!Kinetic!KineticAssumption /\ Desk!Kinetic!OneCaller
  /\ Desk!Query!InterfaceAssumption /\ Desk!Shm!PaceAssumption /\ Desk!Proxy!BlockAssumption
  /\ Editors!Colors!PaletteAssumption /\ Editors!Edit!EditAssumption
  /\ Editors!Gui!SlotAssumption /\ Editors!Curve!CurveAssumption
  /\ Editors!Conf!ConfAssumption /\ Onboard!ScreenAssumption
  /\ Onboard!Worker!SlotsAssumption /\ Desk!Tests!StepsAssumption
=============================================================================
