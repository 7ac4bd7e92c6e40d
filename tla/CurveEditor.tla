------------------------------ MODULE CurveEditor ------------------------------
(***************************************************************************)
(* The response-curve editor: the point-list model both front ends share   *)
(* (logi-wheel-core curve.rs, shaping.rs), the window's drag-and-click     *)
(* editor (logi-wheel-gui main.rs, bridge.rs) and the terminal's           *)
(* field-by-field one (logi-wheel-tui curve_editor.rs), for one axis.      *)
(*                                                                         *)
(* Full stands for 65535, Hundred for 100 percent and Step for the one     *)
(* percent nudge of the terminal.  A screen fraction is the plot           *)
(* coordinate it rounds to.                                                *)
(***************************************************************************)
EXTENDS Integers, Sequences, SequencesExt

CONSTANTS Full, Hundred, Step, MaxPoints

\* Any scale will do, and the dead zones together leave a percent.
CurveAssumption ==
  Full \in Nat \ {0} /\ Hundred \in Nat \ {0} /\ Step \in Nat

VARIABLES
  view,      \* AxisToggles: "simple" shows the sensitivity, "curve" the editor
  editor,    \* the overlay that is open: "none", "window" or "terminal"
  curve,     \* Curve: [pts, lower, upper]
  sel,       \* CurveEditor::sel, from 1
  field,     \* CurveEditor::field
  device     \* whose curve the axis has on the wheel: the last writer's

vars == <<view, editor, curve, sel, field, device>>

Fields == <<"point", "input", "output", "lower", "upper">>

Linear == [pts |-> << <<0, 0>>, <<Full, Full>> >>, lower |-> 0, upper |-> 0]

Clamp(x, lo, hi) == IF x < lo THEN lo ELSE IF x > hi THEN hi ELSE x

(***************************************************************************)
(* The band of inputs the dead zones leave, and the two conversions        *)
(* between a control point's own input and where it is drawn.              *)
(***************************************************************************)
Lo(c) == (c.lower * Full) \div Hundred

Hi(c) == ((Hundred - c.upper) * Full) \div Hundred

Span(c) == IF Hi(c) > Lo(c) THEN Hi(c) - Lo(c) ELSE 0

InputToPlot(c, input) == Lo(c) + (input * Span(c)) \div Full

PlotToInput(c, plot) ==
  IF Span(c) = 0 THEN 0
  ELSE ((Clamp(plot, Lo(c), Hi(c)) - Lo(c)) * Full) \div Span(c)

(***************************************************************************)
(* Composition: the list the driver's uploader is given.                   *)
(***************************************************************************)
\* Mutant: the collision test lets an equal input through.
PushPtDuplicate(out, p) ==
  IF out # <<>> /\ Last(out)[1] > p[1]
  THEN [out EXCEPT ![Len(out)][2] = IF p[2] > @ THEN p[2] ELSE @]
  ELSE Append(out, p)

PushPt(out, p) ==
  IF out # <<>> /\ Last(out)[1] >= p[1]
  THEN [out EXCEPT ![Len(out)][2] = IF p[2] > @ THEN p[2] ELSE @]
  ELSE Append(out, p)

Mapped(c) ==
  LET band[k \in 0 .. Len(c.pts)] ==
        IF k = 0 THEN IF c.lower > 0 THEN << <<0, 0>> >> ELSE <<>>
        ELSE PushPt(band[k - 1], <<InputToPlot(c, c.pts[k][1]), c.pts[k][2]>>)
      all == band[Len(c.pts)]
  IN  IF c.upper > 0 THEN PushPt(all, <<Full, Full>>) ELSE all

PinnedInputs(out) ==
  LET Started == IF out # <<>> /\ Head(out)[1] = 0 THEN out ELSE <<<<0, 0>>>> \o out
  IN  IF Last(Started)[1] = Full THEN Started ELSE PushPt(Started, <<Full, Full>>)

Compose(c) ==
  LET out == PinnedInputs(Mapped(c))
  IN  [out EXCEPT ![1][2] = 0, ![Len(out)][2] = Full]

(***************************************************************************)
(* The edits of the model.                                                 *)
(***************************************************************************)
\* The first of the windows of two points that reaches x.
Window(pts, x) ==
  CHOOSE i \in 1 .. Len(pts) - 1 :
    x <= pts[i + 1][1] /\ \A j \in 1 .. i - 1 : x > pts[j + 1][1]

Interp(pts, x) ==
  LET a == pts[Window(pts, x)]
      b == pts[Window(pts, x) + 1]
  IN  IF x <= pts[1][1] THEN pts[1][2]
      ELSE a[2] + ((x - a[1]) * (b[2] - a[2])) \div (b[1] - a[1])

\* binary_search_by_key gives the place in its order, which is in that window.
AddPoint(c, x) ==
  IF \E i \in DOMAIN c.pts : c.pts[i][1] = x THEN c
  ELSE [c EXCEPT !.pts = InsertAt(@, Window(@, x) + 1, <<x, Interp(@, x)>>)]

RemovePoint(c, i) ==
  IF i \in 2 .. Len(c.pts) - 1 THEN [c EXCEPT !.pts = RemoveAt(@, i)] ELSE c

MovePoint(c, i, x, y) ==
  IF i \notin 2 .. Len(c.pts) - 1 THEN c
  ELSE LET lo == c.pts[i - 1]
           hi == c.pts[i + 1]
           newIn == IF lo[1] + 1 <= hi[1] - 1 THEN Clamp(x, lo[1] + 1, hi[1] - 1)
                    ELSE c.pts[i][1]
       IN  [c EXCEPT !.pts[i] = <<newIn, Clamp(y, lo[2], hi[2])>>]

SetLowerDeadzone(c, v) ==
  [c EXCEPT !.lower = Clamp(v, 0, (Hundred - 1) - c.upper)]

SetUpperDeadzone(c, v) ==
  [c EXCEPT !.upper = Clamp(v, 0, (Hundred - 1) - c.lower)]

(***************************************************************************)
(* The rows of the settings page.  The sensitivity and the curve write the *)
(* same curve of the wheel, and only one of them is shown.                 *)
(***************************************************************************)
Visible(role) ==
  CASE role = "simple"   -> view = "simple"
    [] role = "advanced" -> view = "curve"
    [] OTHER             -> TRUE

ToggleShaping ==
  /\ editor = "none"
  /\ view' = IF view = "simple" THEN "curve" ELSE "simple"
  /\ UNCHANGED <<editor, curve, sel, field, device>>

SetSensitivity ==
  /\ editor = "none"
  /\ Visible("simple")
  /\ device' = "sensitivity"
  /\ UNCHANGED <<view, editor, curve, sel, field>>

\* The wheel gives back only how many points it holds, so either way the
\* editor starts from the straight line.
Seed == Linear

EditCurve(frontend) ==
  /\ editor = "none"
  /\ Visible("advanced")
  /\ editor' = frontend
  /\ curve' = Seed
  /\ UNCHANGED <<view, sel, field, device>>

\* The editor's state is taken away with the overlay.
Closed ==
  /\ editor # "none"
  /\ editor' = "none"
  /\ curve' = Linear
  /\ sel' = 1
  /\ field' = "point"
  /\ UNCHANGED view

Commit == Closed /\ device' = "curve"

Cancel == Closed /\ UNCHANGED device

(***************************************************************************)
(* The window: a press grabs an inner handle or adds a point.              *)
(***************************************************************************)
Edited(frontend, c) ==
  /\ editor = frontend
  /\ curve' = c
  /\ UNCHANGED <<view, editor, device>>

GrabPoint == 2 .. Len(curve.pts) - 1

DragPoint == \E i \in GrabPoint, x, y \in 0 .. Full :
  /\ Edited("window", MovePoint(curve, i, PlotToInput(curve, x), y))
  /\ UNCHANGED <<sel, field>>

ClickToAdd == \E x \in 0 .. Full :
  /\ Len(curve.pts) < MaxPoints
  /\ Edited("window", AddPoint(curve, PlotToInput(curve, x)))
  /\ UNCHANGED <<sel, field>>

ClickToRemove == \E i \in DOMAIN curve.pts :
  /\ Edited("window", RemovePoint(curve, i))
  /\ UNCHANGED <<sel, field>>

SlideDeadzone == \E v \in 0 .. Hundred - 1 :
  /\ \/ Edited("window", SetLowerDeadzone(curve, v))
     \/ Edited("window", SetUpperDeadzone(curve, v))
  /\ UNCHANGED <<sel, field>>

(***************************************************************************)
(* The terminal: arrow keys on one field at a time.                        *)
(***************************************************************************)
NextField == \E d \in {1, 4} :
  /\ editor = "terminal"
  /\ LET i == CHOOSE n \in 1 .. 5 : Fields[n] = field
     IN  field' = Fields[((i - 1 + d) % 5) + 1]
  /\ UNCHANGED <<view, editor, curve, sel, device>>

AdjustSelection == \E d \in {-1, 1} :
  /\ editor = "terminal"
  /\ field = "point"
  /\ sel' = Clamp(sel + d, 1, Len(curve.pts))
  /\ UNCHANGED <<view, editor, curve, field, device>>

Adjusted(d) ==
  LET p == curve.pts[sel]
  IN  CASE field = "input"  -> MovePoint(curve, sel, Clamp(p[1] + d * Step, 0, Full), p[2])
        [] field = "output" -> MovePoint(curve, sel, p[1], Clamp(p[2] + d * Step, 0, Full))
        [] field = "lower"  -> SetLowerDeadzone(curve, Clamp(curve.lower + d, 0, Hundred - 1))
        [] field = "upper"  -> SetUpperDeadzone(curve, Clamp(curve.upper + d, 0, Hundred - 1))

Adjust == \E d \in {-1, 1} :
  /\ field # "point"
  /\ Edited("terminal", Adjusted(d))
  /\ UNCHANGED <<sel, field>>

Midpoint == (curve.pts[sel][1] + curve.pts[sel + 1][1]) \div 2

AddMidway ==
  /\ sel < Len(curve.pts)
  /\ curve.pts[sel + 1][1] - curve.pts[sel][1] >= 2
  /\ Len(curve.pts) < MaxPoints
  /\ Edited("terminal", AddPoint(curve, Midpoint))
  /\ sel' = sel + 1
  /\ field' = "input"

DeletePoint ==
  /\ Edited("terminal", RemovePoint(curve, sel))
  /\ sel' = Clamp(sel, 1, Len(curve'.pts))
  /\ UNCHANGED field

Init ==
  /\ view = "simple"
  /\ editor = "none"
  /\ curve = Linear
  /\ sel = 1
  /\ field = "point"
  /\ device = "builtin"

Next ==
  \/ ToggleShaping \/ SetSensitivity
  \/ EditCurve("window") \/ EditCurve("terminal")
  \/ Commit \/ Cancel
  \/ DragPoint \/ ClickToAdd \/ ClickToRemove \/ SlideDeadzone
  \/ NextField \/ AdjustSelection \/ Adjust \/ AddMidway \/ DeletePoint

Spec == Init /\ [][Next]_vars

(***************************************************************************)
(* Properties                                                              *)
(***************************************************************************)
\* Whatever sequence of drags, clicks, nudges and dead zones led here, the
\* composed list is one the driver's uploader accepts: inputs strictly
\* rising, outputs never falling, pinned at 0:0 and FULL:FULL.  The hard
\* case is a dead zone squeezing several control points onto one input
\* (curve.rs compose and push_pt).
ComposedValid ==
  LET out == Compose(curve)
  IN  /\ Len(out) >= 2
      /\ Head(out) = <<0, 0>>
      /\ Last(out) = <<Full, Full>>
      /\ \A i \in 1 .. Len(out) - 1 :
           out[i][1] < out[i + 1][1] /\ out[i][2] <= out[i + 1][2]

\* What compose promises of the dead zones: "flat dead/saturated segments
\* outside" the live band (curve.rs:68-70), so no output below the lower
\* edge and full output above the upper one.
DeadZonesFlat ==
  \A p \in Range(Compose(curve)) :
    /\ (curve.lower > 0 /\ p[1] <= Lo(curve)) => p[2] = 0
    /\ (curve.upper > 0 /\ p[1] >= Hi(curve)) => p[2] = Full
==============================================================================
