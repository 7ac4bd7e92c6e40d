---------------------------- MODULE ScreenEditor ----------------------------
(***************************************************************************)
(* The designs of the base's screen: composing a wheel_oled frame from a   *)
(* layout's fields and reading one back (oled.rs), the terminal's editor   *)
(* (screen_editor.rs) and the window's (main.rs), what the driver accepts, *)
(* and the dashboard template in tf-sim.conf.                              *)
(*                                                                         *)
(* A text is a sequence of characters by kind: "x", one of two bytes "e2", *)
(* " ", the digits "0" and "9", the separator "|", a placeholder "{k}" the *)
(* daemon fills (typed as one), and a "{" that starts none.  A frame is a  *)
(* layout and the parts between its separators; Off is the wheel's menu.   *)
(* A layout is its fields in write order: a text's width, or Num.  Numbers *)
(* above 255 are those of more than NumDigits digits.                      *)
(***************************************************************************)
EXTENDS Integers, Sequences, SequencesExt

CONSTANTS
  LAYOUTS,      \* a sequence of layouts
  PRESETS,      \* a sequence of [layout, values]
  SAMPLE,       \* what "{k}" shows while no game runs
  NumDigits,    \* digits of the largest number
  OledText,     \* HIDPP_DD_OLED_TEXT
  OledCount,    \* layouts the wheel reports
  Typed,        \* what keys type in the terminal
  Texts,        \* what a field of the window may be set to
  MaxLen,       \* bound on the length of a typed text
  MaxKeys       \* bound on keys and clicks

VARIABLES
  wheel,    \* wheel_oled, as the driver shows it: a frame or Off
  row,      \* the value the program last read
  editor,   \* the editor of the program that is open
  conf,     \* tf-sim.conf: the screen template and the switch
  sent,     \* history: the last frame sent, what it was composed from, taken?
  told,     \* history: the template the terminal said was set
  keys

vars == <<wheel, row, editor, conf, sent, told, keys>>

Num  == -1
Char == {"x", "e2", " ", "0", "9", "|", "{k}", "{"}

\* A layout's letter and parts of these lengths, each behind a separator.
Joined(lengths) ==
  LET upTo[n \in 0 .. Len(lengths)] == IF n = 0 THEN 1 ELSE upTo[n - 1] + 1 + lengths[n]
  IN  upTo[Len(lengths)]

FieldWidth(field) == IF field = Num THEN NumDigits ELSE field
Widths(l)    == [i \in DOMAIN LAYOUTS[l] |-> FieldWidth(LAYOUTS[l][i])]

\* What the tables of oled.rs are like: a preset has a text for each field of
\* its layout, and the driver's buffer has room for every layout.
ScreenAssumption ==
  /\ LAYOUTS \in Seq(Seq(Nat \union {Num})) /\ NumDigits \in Nat \ {0} /\ OledText \in Nat
  /\ \A l \in DOMAIN LAYOUTS : Joined(Widths(l)) < OledText
  /\ PRESETS \in Seq([layout : DOMAIN LAYOUTS, values : Seq(Seq(Char))]) /\ PRESETS # <<>>
  /\ \A p \in DOMAIN PRESETS : Len(PRESETS[p].values) = Len(LAYOUTS[PRESETS[p].layout])
  /\ SAMPLE \in Seq(Char) /\ Typed \subseteq Char /\ Texts \subseteq Seq(Char)

PresetPane == -1      \* Focus::Presets; Focus::Field(n) is n, from 1
LayoutRow  == 0       \* Focus::Layout
NoFrame    == [layout |-> 0, parts |-> <<>>]
Off        == NoFrame
Closed     == [app |-> "none", layout |-> 1, values |-> <<>>, preset |-> 1,
               focus |-> PresetPane]
NotSent    == [frame |-> NoFrame, values |-> <<>>, taken |-> FALSE]

-----------------------------------------------------------------------------
(* oled.rs *)

Blank(c) == c = " "
Brace    == {"{", "{k}"}
Bar      == {"|"}
Digit(c) == c \in {"0", "9"}
Has(t, chars) == Range(t) \intersect chars # {}

TrimEnd(t)   == SubSeq(t, 1, Max({0} \union {i \in DOMAIN t : ~Blank(t[i])}))
TrimStart(t) == SubSeq(t, Min({Len(t) + 1} \union {i \in DOMAIN t : ~Blank(t[i])}), Len(t))
Trim(t)      == TrimEnd(TrimStart(t))

\* u32::from_str and to_string: leading zeros go, but for the last digit.
Number(t) == SubSeq(t, Min({Len(t)} \union {i \in DOMAIN t : t[i] # "0"}), Len(t))
IsNumber(t) ==
  t # <<>> /\ (\A i \in DOMAIN t : Digit(t[i])) /\ Len(Number(t)) <= NumDigits

\* sample_values
Sampled(t) == FlattenSeq([i \in DOMAIN t |-> IF t[i] = "{k}" THEN SAMPLE ELSE <<t[i]>>])
SampleValues(values) == [i \in DOMAIN values |-> Sampled(values[i])]

\* What reading the frame back takes for one field: the parts between bars.
SplitBars(t) ==
  LET parts[n \in 0 .. Len(t)] ==
        IF n = 0 THEN << <<>> >>
        ELSE IF t[n] \in Bar THEN Append(parts[n - 1], <<>>)
        ELSE [parts[n - 1] EXCEPT ![Len(parts[n - 1])] = Append(@, t[n])]
  IN  parts[Len(t)]

\* compose, one field: what is refused, and what is written.  A template's
\* field is exempt from the width.
Composes(field, raw) ==
  IF field = Num
    THEN LET t == Trim(raw) IN t # <<>> => t[1] \in Brace \/ IsNumber(t)
    ELSE /\ ~Has(raw, Bar)
         /\ Has(raw, Brace) \/ Len(TrimEnd(raw)) <= field

Written(field, raw) ==
  IF field # Num THEN SplitBars(TrimEnd(raw))
  ELSE LET t == Trim(raw)
       IN  IF t = <<>> THEN << <<"0">> >>
           ELSE IF t[1] \in Brace THEN SplitBars(t) ELSE <<Number(t)>>

\* Trailing separators are dropped from a composed frame.
DropEmptyTail(parts) ==
  SubSeq(parts, 1, Max({0} \union {i \in DOMAIN parts : parts[i] # <<>>}))

CanCompose(l, values) == \A i \in DOMAIN LAYOUTS[l] : Composes(LAYOUTS[l][i], values[i])
Compose(l, values) ==
  [layout |-> l,
   parts |-> DropEmptyTail(FlattenSeq([i \in DOMAIN LAYOUTS[l] |->
                                         Written(LAYOUTS[l][i], values[i])]))]

\* parse, of what the driver shows, which has no blanks around it.
Parse(frame) ==
  [i \in DOMAIN LAYOUTS[frame.layout] |->
     IF i \in DOMAIN frame.parts THEN frame.parts[i] ELSE <<>>]

\* preset_index: the first preset with the same frame, if there is one.
Matches(l, values) ==
  {p \in DOMAIN PRESETS : /\ CanCompose(l, values)
                          /\ Compose(PRESETS[p].layout, PRESETS[p].values) = Compose(l, values)}
PresetIndex(l, values) ==
  LET m == Matches(l, values) IN IF m = {} THEN 1 ELSE CHOOSE p \in m : \A q \in m : p <= q

-----------------------------------------------------------------------------
(* wheel_oled_store: hidpp_dd_oled_parse refuses rather than truncates.    *)

Bytes(t) == Len(t) + Cardinality({i \in DOMAIN t : t[i] = "e2"})
TextBytes(frame) == Joined([i \in DOMAIN frame.parts |-> Bytes(frame.parts[i])])

DriverTakes(frame) ==
  /\ TextBytes(frame) < OledText
  /\ frame.layout <= OledCount
  /\ Len(frame.parts) <= Len(LAYOUTS[frame.layout])
  /\ \A i \in DOMAIN frame.parts :
       LET field == LAYOUTS[frame.layout][i]
       IN  IF field = Num THEN IsNumber(frame.parts[i]) ELSE Bytes(frame.parts[i]) <= field

-----------------------------------------------------------------------------
Key == keys < MaxKeys /\ keys' = keys + 1
In(app) == editor.app = app
Editing(l, values, preset, focus) ==
  /\ editor' = [editor EXCEPT !.layout = l, !.values = values, !.preset = preset, !.focus = focus]
  /\ UNCHANGED <<wheel, row, conf, sent, told>>

\* The design an editor opens on: the value last read, or the first preset
\* when the wheel has its own menu.
Seed == IF row = Off THEN PRESETS[1] ELSE [layout |-> row.layout, values |-> Parse(row)]

\* on_edit_oled, ScreenEditor::from_value.
Open(app) ==
  /\ In("none") /\ Key
  /\ editor' = [app |-> app, layout |-> Seed.layout, values |-> Seed.values,
                preset |-> PresetIndex(Seed.layout, Seed.values), focus |-> PresetPane]
  /\ sent' = NotSent /\ told' = NoFrame
  /\ UNCHANGED <<wheel, row, conf>>

\* Esc, on_oled_close.
Close ==
  /\ ~In("none") /\ Key /\ editor' = Closed
  /\ UNCHANGED <<wheel, row, conf, sent, told>>

\* The arrows of the presets pane stop at its ends, and apply the preset
\* they stop at again; on_oled_set_preset takes any.
PresetByArrows(p) ==
  /\ In("terminal") /\ editor.focus = PresetPane
  /\ \/ p = editor.preset - 1 \/ p = editor.preset + 1
     \/ p = editor.preset /\ p \in {1, Len(PRESETS)}
PresetByClick(p) == In("window") /\ p \in DOMAIN PRESETS

ApplyPreset ==
  /\ Key
  /\ \E p \in DOMAIN PRESETS :
       /\ PresetByArrows(p) \/ PresetByClick(p)
       /\ Editing(PRESETS[p].layout, PRESETS[p].values, p, editor.focus)

\* The arrows of the layout row wrap; a click on the layout that is up is
\* nothing.
LayoutByArrows(l) ==
  /\ In("terminal") /\ editor.focus = LayoutRow
  /\ (l - editor.layout) % Len(LAYOUTS) \in {1, Len(LAYOUTS) - 1}
LayoutByClick(l) == In("window") /\ l # editor.layout

BlankValues(l) == [i \in DOMAIN LAYOUTS[l] |-> <<>>]

SetLayout ==
  /\ Key
  /\ \E l \in DOMAIN LAYOUTS :
       /\ LayoutByArrows(l) \/ LayoutByClick(l)
       /\ Editing(l, BlankValues(l), editor.preset, editor.focus)

\* Tab, Up, Down and Right between the panes and the fields.
MoveFocus ==
  /\ In("terminal") /\ Key
  /\ LET f == editor.focus
         n == Len(LAYOUTS[editor.layout])
         tab  == IF f = PresetPane THEN LayoutRow ELSE PresetPane
         up   == IF f = LayoutRow THEN PresetPane ELSE f - 1
         down == IF f < n THEN f + 1 ELSE f
     IN  \E g \in {tab} \union (IF f = PresetPane THEN {} ELSE {up, down}) :
           Editing(editor.layout, editor.values, editor.preset, g)

\* Typing and Backspace in the field with the focus; the separator is not
\* taken.
TypeField ==
  /\ In("terminal") /\ editor.focus > 0 /\ Key
  /\ LET v == editor.values[editor.focus]
     IN  \E w \in {Append(v, c) : c \in Typed \ {"|"}}
                  \union (IF v = <<>> THEN {} ELSE {SubSeq(v, 1, Len(v) - 1)}) :
           /\ Len(w) <= MaxLen
           /\ Editing(editor.layout, [editor.values EXCEPT ![editor.focus] = w],
                      editor.preset, editor.focus)

\* on_oled_set_field: the whole text, whatever it holds.
SetField ==
  /\ In("window") /\ Key
  /\ \E i \in DOMAIN editor.values, t \in Texts :
       Editing(editor.layout, [editor.values EXCEPT ![i] = t], editor.preset, editor.focus)

\* commit_screen_editor: the frame goes to the driver, and the row is read
\* again (in the window by the worker's reply, see GuiWindow).  The terminal
\* closes the editor.
Showing(frame, taken) ==
  /\ wheel' = IF taken THEN frame ELSE wheel
  /\ row' = wheel'
  /\ editor' = IF In("terminal") THEN Closed ELSE editor

\* Enter, on_oled_send: samples in place of the placeholders.  A design that
\* does not compose is only reported.
ShowNow ==
  /\ ~In("none") /\ Key
  /\ LET values == SampleValues(editor.values)
         frame  == Compose(editor.layout, values)
     IN  /\ CanCompose(editor.layout, values)
         /\ Showing(frame, DriverTakes(frame))
         /\ sent' = [frame |-> frame, values |-> values, taken |-> DriverTakes(frame)]
  /\ UNCHANGED <<conf, told>>

\* x, on_oled_off: the wheel has its menu back.
HandBack ==
  /\ In("window") \/ (In("terminal") /\ editor.focus <= LayoutRow)
  /\ Key /\ Showing(Off, TRUE) /\ sent' = NotSent
  /\ UNCHANGED <<conf, told>>

\* g and use_screen_in_games: the switch only once the template is written.
\* A write may fail, and a template that is too long is refused.
Fits(frame) == TextBytes(frame) <= OledText

TemplateThenSwitch(frame) ==
  \/ UNCHANGED <<conf, told>>
  \/ /\ Fits(frame) /\ told' = frame
     /\ \E on \in {conf.screen, TRUE} : conf' = [template |-> frame, screen |-> on]

\* on_oled_use_in_games: both writes, each reported by itself.
TemplateAndSwitch(frame) ==
  /\ \E t \in {conf.template} \union (IF Fits(frame) THEN {frame} ELSE {}),
        on \in {conf.screen, TRUE} : conf' = [template |-> t, screen |-> on]
  /\ UNCHANGED told

UseInGames ==
  /\ Key /\ CanCompose(editor.layout, editor.values)
  /\ LET frame == Compose(editor.layout, editor.values)
     IN  \/ In("terminal") /\ editor.focus <= LayoutRow /\ TemplateThenSwitch(frame)
         \/ In("window") /\ TemplateAndSwitch(frame)
  /\ UNCHANGED <<wheel, row, editor, sent>>

\* The daemon shows a rendered frame, or hands the screen back.
Elsewhere ==
  /\ Key /\ \E p \in DOMAIN PRESETS :
       LET f == Compose(PRESETS[p].layout, SampleValues(PRESETS[p].values))
       IN  wheel' \in {f, Off}
  /\ sent' = NotSent
  /\ UNCHANGED <<row, editor, conf, told>>

Init ==
  /\ wheel = Off /\ row = Off /\ editor = Closed
  /\ conf = [template |-> NoFrame, screen |-> FALSE]
  /\ sent = NotSent /\ told = NoFrame /\ keys = 0

Next ==
  \/ \E app \in {"window", "terminal"} : Open(app)
  \/ Close \/ ApplyPreset \/ SetLayout \/ MoveFocus \/ TypeField \/ SetField
  \/ ShowNow \/ HandBack \/ UseInGames \/ Elsewhere

Spec == Init /\ [][Next]_vars

-----------------------------------------------------------------------------
\* The editor's values are those of its layout, and the field a key goes to
\* is one of them, in every order of presets, layouts and arrows: on_key
\* indexes values without a check.
FocusInLayout ==
  ~In("none") =>
    /\ Len(editor.values) = Len(LAYOUTS[editor.layout])
    /\ editor.focus <= Len(editor.values)

\* A frame of plain characters that composes is one the driver accepts, on a
\* wheel that has the layout: the two schemas agree.
PlainFrameTaken ==
  sent # NotSent /\ sent.frame.layout <= OledCount
    /\ (\A i \in DOMAIN sent.values : ~Has(sent.values[i], Brace \union {"e2"}))
      => sent.taken

\* What the wheel took reads back as the design that was sent: the same frame
\* when it is composed again, and each text up to its trailing blanks.
ReadsBackAsDesigned ==
  sent.taken =>
    /\ Compose(sent.frame.layout, Parse(sent.frame)) = sent.frame
    /\ \A i \in DOMAIN sent.values :
         LAYOUTS[sent.frame.layout][i] # Num => Parse(sent.frame)[i] = TrimEnd(sent.values[i])

\* The terminal says the dashboard is set only when the file has the template
\* the user saw, whichever write failed.
DashboardAsTold == told # NoFrame => conf.template = told

-----------------------------------------------------------------------------
(* Statements of the repository the code does not keep (see the README).   *)

\* compose: "This validates what the driver validates, so a frame that
\* composes is a frame the wheel accepts."  A "{" that starts no placeholder
\* lifts the width, characters are counted where the driver counts bytes, and
\* a wheel may have fewer layouts.
ComposedIsTaken == sent # NotSent => sent.taken

\* on_oled_use_in_games: "the design becomes the simulated-TrueForce daemon's
\* dashboard template, and the dashboard is switched on".  The window does the
\* second whether or not the first worked.
DashboardIsDesign ==
  [][~conf.screen /\ conf'.screen =>
       conf'.template = Compose(editor.layout, editor.values)]_vars

\* ComposeError: a field with "the separator, which the frame cannot carry" is
\* refused.  A number that begins with a brace is not looked at.
NoSeparatorInTemplate ==
  conf.template # NoFrame => Len(conf.template.parts) <= Len(LAYOUTS[conf.template.layout])
=============================================================================
