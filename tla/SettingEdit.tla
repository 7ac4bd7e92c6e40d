---------------------------- MODULE SettingEdit ----------------------------
(***************************************************************************)
(* One setting's life between the wheel's attribute and the user: reading  *)
(* the attribute into a value, editing it in the terminal's inline editor, *)
(* validating and writing it, and saving it to and applying it from a      *)
(* computer profile (logi-wheel-core kind.rs, value.rs, device.rs,         *)
(* profiles.rs; logi-wheel-tui edit.rs).                                   *)
(*                                                                         *)
(* An attribute's text is the number, pair or list it spells; a name is    *)
(* its length and a color strip its number of LEDs.  A pedal or steering   *)
(* curve is special: the wheel says how many points are loaded and never   *)
(* which, so a loaded curve cannot be written back.  Hundred stands for    *)
(* 100 percent.  The curve, color and screen editors are not this editor   *)
(* (modules CurveEditor, ColorPicker, ScreenEditor); here those values are *)
(* only saved and applied.                                                 *)
(***************************************************************************)
EXTENDS Integers, Sequences, FiniteSets

CONSTANTS
  Hundred,          \* 100
  RawMax,           \* ScaledPercent's raw_max, 65535
  IntMin, IntMax, IntStep,
  Variants,         \* the number of an Enum's variants
  MaxLen,           \* TextField's max_len
  Slots,            \* SlotText's slots
  MaxOutside        \* bound on changes made behind the app's back

VARIABLES
  kind,       \* the setting's kind
  wheel,      \* what the attribute reads as
  row,        \* the value the app's row shows: the last one it read
  file,       \* the profile's line for it: a raw text, Skipped, or NoFile
  saved,      \* what the attribute read as when the profile was saved
  edit,       \* the inline editor: the draft and the part or slot selected
  wrote,      \* the value last written by a commit or an apply, if it stands
  outside

vars == <<kind, wheel, row, file, saved, edit, wrote, outside>>

\* The raw scale of a percentage is finer than the percentage.
EditAssumption ==
  /\ Hundred \in Nat \ {0} /\ RawMax \in Nat /\ RawMax > Hundred
  /\ IntMin \in Int /\ IntMax \in Int /\ IntStep \in Int
  /\ Variants \in Nat \ {0} /\ MaxLen \in Nat /\ Slots \in Nat \ {0} /\ MaxOutside \in Nat

Kinds == {"percent", "scaled", "int", "enum", "toggle", "text", "curve", "pair", "slots"}

Invalid == <<"invalid">>
Skipped == <<"skipped">>
NoFile  == <<"none">>
Closed  == [open |-> FALSE, draft |-> NoFile, names |-> NoFile, slot |-> 1]

Clamp(x, lo, hi) == IF x < lo THEN lo ELSE IF x > hi THEN hi ELSE x

(***************************************************************************)
(* The texts an attribute can hold, and the bound of each kind.  A curve   *)
(* reads as <<"loaded", n>> and is written as <<"points", n>> or "reset".  *)
(***************************************************************************)
Raws(k) ==
  CASE k = "percent" -> {<<"num", n>> : n \in 0 .. Hundred}
    [] k = "scaled"  -> {<<"num", n>> : n \in 0 .. RawMax}
    [] k = "int"     -> {<<"num", n>> : n \in IntMin .. IntMax}
    [] k = "enum"    -> {<<"num", n>> : n \in 0 .. Variants - 1}
    [] k = "toggle"  -> {<<"num", n>> : n \in 0 .. 1}
    [] k = "text"    -> {<<"text", n>> : n \in 0 .. MaxLen}
    [] k = "curve"   -> {<<"loaded", n>> : n \in 0 .. 2}
    [] k = "pair"    -> {<<"pair", p[1], p[2]>> :
                           p \in {q \in (0 .. Hundred) \X (0 .. Hundred) :
                                    q[1] + q[2] < Hundred}}
    [] k = "slots"   -> {<<"names", f>> : f \in [1 .. Slots -> 0 .. MaxLen]}

(* A raw number as a percent, rounded half up, and back.                   *)
ToPercentTruncated(n) == (n * Hundred) \div RawMax

ToPercent(n) == (n * Hundred + RawMax \div 2) \div RawMax

ToRaw(p) == (p * RawMax + Hundred \div 2) \div Hundred

(* Kind::parse on a curve's text: the count, not the words, says whether a *)
(* curve is loaded.                                                        *)
CurveReadByLegend(raw) == <<"curve", 0>>

CurveRead(raw) ==
  IF raw[1] = "loaded" /\ raw[2] > 0 THEN <<"curveLoaded", raw[2]>>
  ELSE <<"curve", IF raw[1] = "loaded" THEN 0 ELSE raw[2]>>

Parse(k, raw) ==
  CASE k = "percent" -> IF raw[2] \in 0 .. Hundred THEN <<"percent", raw[2]>> ELSE Invalid
    [] k = "scaled"  -> IF raw[2] \in 0 .. RawMax THEN <<"percent", ToPercent(raw[2])>>
                        ELSE Invalid
    [] k = "int"     -> IF raw[2] \in IntMin .. IntMax THEN <<"int", raw[2]>> ELSE Invalid
    [] k = "enum"    -> IF raw[2] < Variants THEN <<"enum", raw[2]>> ELSE Invalid
    [] k = "toggle"  -> IF raw[2] \in {0, 1} THEN <<"bool", raw[2] = 1>> ELSE Invalid
    [] k = "text"    -> IF raw[2] <= MaxLen THEN <<"text", raw[2]>> ELSE Invalid
    [] k = "curve"   -> CurveRead(raw)
    [] k = "pair"    -> IF raw[2] + raw[3] < Hundred THEN <<"pair", raw[2], raw[3]>>
                        ELSE Invalid
    [] k = "slots"   -> <<"names", raw[2]>>

(* Kind::format: a loaded curve, and the whole list of names, have none.   *)
Format(k, v) ==
  CASE v[1] = "percent" /\ k = "scaled" -> <<"num", ToRaw(v[2])>>
    [] v[1] = "percent" /\ k # "scaled" -> <<"num", v[2]>>
    [] v[1] \in {"int", "enum"} -> <<"num", v[2]>>
    [] v[1] = "bool"  -> <<"num", IF v[2] THEN 1 ELSE 0>>
    [] v[1] = "text"  -> <<"text", v[2]>>
    [] v[1] = "curve" -> <<"points", v[2]>>
    [] v[1] = "pair"  -> <<"pair", v[2], v[3]>>
    [] v[1] = "name"  -> <<"rename", v[2], v[3]>>
    [] OTHER -> Invalid

Validate(k, v) ==
  IF k = "slots" THEN v[1] = "name" /\ v[2] \in 1 .. Slots /\ v[3] \in 1 .. MaxLen
  ELSE Format(k, v) # Invalid /\ Parse(k, Format(k, v)) # Invalid

(* The driver's side of a write: a curve's points become a loaded curve, a *)
(* rename changes one slot of the list.                                    *)
Stored(raw) ==
  CASE raw[1] = "points" -> <<"loaded", raw[2]>>
    [] raw[1] = "rename" -> <<"names", [wheel[2] EXCEPT ![raw[2]] = raw[3]]>>
    [] OTHER -> raw

Read == Parse(kind, wheel)

----------------------------------------------------------------------------
Init ==
  /\ kind \in Kinds
  /\ wheel \in Raws(kind)
  /\ row = Read
  /\ file = NoFile /\ saved = NoFile
  /\ edit = Closed
  /\ wrote = NoFile
  /\ outside = 0

TypeOK ==
  /\ kind \in Kinds
  /\ wheel \in Raws(kind)
  /\ edit.open \in BOOLEAN /\ edit.slot \in 1 .. (IF Slots > 2 THEN Slots ELSE 2)
  /\ outside \in 0 .. MaxOutside

(* The wheel, a game or another app changes the attribute.                 *)
Outside ==
  /\ outside < MaxOutside
  /\ wheel' \in Raws(kind) \ {wheel}
  /\ wrote' = NoFile
  /\ outside' = outside + 1
  /\ UNCHANGED <<kind, row, file, saved, edit>>

(* The rows are read again (a drift check, a refresh).                     *)
Reload ==
  /\ ~edit.open /\ row # Read
  /\ row' = Read
  /\ UNCHANGED <<kind, wheel, file, saved, edit, wrote, outside>>

(* EditState::start: a draft starts from the row's value, a rename from    *)
(* slot 1's name.                                                          *)
SlotName(names, s) == <<"name", s, names[s]>>

BeginEdit ==
  /\ ~edit.open /\ kind # "curve"
  /\ row # Invalid
  /\ edit' = IF kind = "slots"
             THEN [open |-> TRUE, slot |-> 1, names |-> row[2], draft |-> SlotName(row[2], 1)]
             ELSE [open |-> TRUE, slot |-> 1, names |-> NoFile, draft |-> row]
  /\ UNCHANGED <<kind, wheel, row, file, saved, wrote, outside>>

(* The half of a pair the arrows move is clamped against the other half.   *)
PairBumpedAlone(v, half, d) ==
  IF half = 2 THEN <<"pair", v[2], Clamp(v[3] + d, 0, Hundred - 1)>>
  ELSE <<"pair", Clamp(v[2] + d, 0, Hundred - 1), v[3]>>

PairBumped(v, half, d) ==
  IF half = 2 THEN <<"pair", v[2], Clamp(v[3] + d, 0, Hundred - 1 - v[2])>>
  ELSE <<"pair", Clamp(v[2] + d, 0, Hundred - 1 - v[3]), v[3]>>

Bumped(v, d) ==
  CASE v[1] = "percent" -> <<"percent", Clamp(v[2] + d, 0, Hundred)>>
    [] v[1] = "int"  -> <<"int", Clamp(v[2] + d * IntStep, IntMin, IntMax)>>
    [] v[1] = "enum" -> <<"enum", (v[2] + d) % Variants>>
    [] v[1] = "bool" -> <<"bool", ~v[2]>>
    [] v[1] = "pair" -> PairBumped(v, edit.slot, d)
    [] OTHER -> v

(* Bumping moves a rename to the next slot and takes its name from the     *)
(* list the editor was opened on.                                          *)
Bump(d) ==
  /\ edit.open
  /\ IF kind = "slots"
     THEN LET s == ((edit.slot - 1 + d) % Slots) + 1
          IN edit' = [edit EXCEPT !.slot = s, !.draft = SlotName(edit.names, s)]
     ELSE edit' = [edit EXCEPT !.draft = Bumped(edit.draft, d)]
  /\ UNCHANGED <<kind, wheel, row, file, saved, wrote, outside>>

SelectPart ==
  /\ edit.open /\ kind = "pair"
  /\ edit' = [edit EXCEPT !.slot = 3 - edit.slot]
  /\ UNCHANGED <<kind, wheel, row, file, saved, wrote, outside>>

(* Typing stops at the length the kind allows.                             *)
Last(v) == v[Len(v)]

Typed(v, d) == [v EXCEPT ![Len(v)] = Clamp(Last(v) + d, 0, MaxLen)]

TypeChar(d) ==
  /\ edit.open /\ kind \in {"text", "slots"}
  /\ edit' = [edit EXCEPT !.draft = Typed(edit.draft, d)]
  /\ UNCHANGED <<kind, wheel, row, file, saved, wrote, outside>>

(* Enter: the value is validated, formatted and written, or refused; the   *)
(* editor closes and the rows are read again either way.                   *)
Write(v) ==
  /\ IF Validate(kind, v)
     THEN wheel' = Stored(Format(kind, v)) /\ wrote' = v
     ELSE UNCHANGED <<wheel, wrote>>
  /\ row' = Parse(kind, wheel')

Commit ==
  /\ edit.open
  /\ Write(edit.draft)
  /\ edit' = Closed
  /\ UNCHANGED <<kind, file, saved, outside>>

Cancel ==
  /\ edit.open
  /\ edit' = Closed
  /\ UNCHANGED <<kind, wheel, row, file, saved, wrote, outside>>

(* profiles::save_in: an attribute that cannot be read or formatted is     *)
(* left out; names of slots are not part of a profile.                     *)
Line ==
  IF kind = "slots" \/ Read = Invalid THEN Skipped
  ELSE IF Format(kind, Read) = Invalid THEN Skipped ELSE Format(kind, Read)

SaveProfile ==
  /\ ~edit.open
  /\ file' = Line
  /\ saved' = wheel
  /\ UNCHANGED <<kind, wheel, row, edit, wrote, outside>>

(* profiles::apply_line: parse the line, then the checked write.           *)
ApplyProfile ==
  /\ ~edit.open /\ file \notin {NoFile, Skipped}
  /\ LET v == Parse(kind, file)
     IN IF v = Invalid THEN UNCHANGED <<wheel, row, wrote>> ELSE Write(v)
  /\ UNCHANGED <<kind, file, saved, edit, outside>>

Next ==
  \/ Outside \/ Reload \/ BeginEdit \/ SelectPart \/ Commit \/ Cancel
  \/ \E d \in {-1, 1} : Bump(d) \/ TypeChar(d)
  \/ SaveProfile \/ ApplyProfile

Spec == Init /\ [][Next]_vars

----------------------------------------------------------------------------
(* "Writing a given percent and reading it back always shows the same      *)
(* percent again" (kind.rs), and so for every kind: whatever a commit or   *)
(* an apply wrote is what the setting reads as, until something else       *)
(* changes it.                                                             *)
ReadsBackAsWritten ==
  wrote # NoFile =>
    CASE wrote[1] = "name"  -> Read[2][wrote[2]] = wrote[3]
      [] wrote[1] = "curve" -> Read = (IF wrote[2] = 0 THEN <<"curve", 0>>
                                       ELSE <<"curveLoaded", wrote[2]>>)
      [] OTHER -> Read = wrote

(* A profile never records "no curve" for a wheel that had one loaded, so  *)
(* applying it cannot wipe a tuned curve (value.rs, CurveLoaded).          *)
LoadedCurveNotErased ==
  (kind = "curve" /\ file \notin {NoFile, Skipped}) => saved[2] = 0

(* Whatever the arrows do, a draft they reach can be committed: the editor *)
(* stops at the limit instead of refusing at the end.                      *)
ArrowsStayValid ==
  (edit.open /\ kind \notin {"text", "slots"}) => Validate(kind, edit.draft)
============================================================================
