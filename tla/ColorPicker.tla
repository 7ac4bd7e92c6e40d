---------------------------- MODULE ColorPicker -----------------------------
(***************************************************************************)
(* The terminal's color picker for the LIGHTSYNC strip: a working copy of  *)
(* the colors, painted LED by LED, in mirrored pairs or all at once, and   *)
(* written to the wheel in one go (color_picker.rs of logi-wheel-tui, its  *)
(* commit in app.rs, the mirror rules of lightsync.rs).                    *)
(*                                                                         *)
(* A color is a palette swatch or one no swatch has; the hex entry is the  *)
(* number of digits typed and, once there are six, the color they spell.   *)
(* LEDs, swatches and directions count from 0 as in the code.              *)
(***************************************************************************)
EXTENDS Integers

CONSTANTS
  Leds,        \* LEDs of the strip (10)
  Swatches,    \* PALETTE.len() (16)
  Cols,        \* PALETTE_COLS (8)
  Digits,      \* hex digits of a color (6)
  MaxKeys,     \* bound on keys
  MaxOutside   \* bound on changes made behind the app's back

VARIABLES
  strip,       \* wheel_led_colors, as the wheel has it
  direction,   \* wheel_led_direction
  row,         \* the strip the app's row shows: the last one it read
  picker,      \* the open picker, or Closed
  wrote,       \* history: the copy committed last and the direction it was for
  paired,      \* history: the copy was a mirrored strip when it was opened, and
               \* has been painted in pairs or all at once only
  keys, outside

vars == <<strip, direction, row, picker, wrote, paired, keys, outside>>

PaletteAssumption ==
  /\ Leds \in Nat \ {0} /\ Swatches \in Nat \ {0} /\ Digits \in Nat \ {0} /\ Cols \in Int
  /\ MaxKeys \in Nat /\ MaxOutside \in Nat

Strip  == 0 .. Leds - 1
Custom == Swatches            \* a color no swatch has
Colors == 0 .. Swatches
NoHex  == [digits |-> -1, color |-> 0]
Closed == [open |-> FALSE, colors |-> [i \in Strip |-> 0], cursor |-> 0,
           palette |-> 0, focus |-> "leds", hex |-> NoHex]
Nothing == [colors |-> [i \in Strip |-> 0], direction |-> -1]

\* lightsync.rs: inside-out and outside-in play the strip as pairs, LED i with
\* LED 9 - i on the strip of 10.
Mirrored(d)    == d \in {2, 3}
MirrorIndex(i) == Leds - 1 - i
MirrorLeftHalf(colors) ==
  [i \in Strip |-> IF i >= Leds - Leds \div 2 THEN colors[Leds - 1 - i] ELSE colors[i]]

Palindrome(colors) == \A i \in Strip : colors[i] = colors[Leds - 1 - i]

-----------------------------------------------------------------------------
Key == keys < MaxKeys /\ keys' = keys + 1

\* ColorPicker::from_value on the row's value.
OpenPicker ==
  /\ ~picker.open /\ Key
  /\ picker' = [Closed EXCEPT !.open = TRUE, !.colors = row]
  /\ paired' = Palindrome(row) /\ wrote' = Nothing
  /\ UNCHANGED <<strip, direction, row, outside>>

Painting == picker.open /\ picker.hex = NoHex
Edits(p) == Key /\ picker' = p /\ UNCHANGED <<strip, direction, row, wrote, outside>>

SwitchFocus ==
  /\ Painting
  /\ Edits([picker EXCEPT !.focus = IF @ = "leds" THEN "palette" ELSE "leds"])
  /\ UNCHANGED paired

\* Left, Right, Home and End over the LEDs.
MoveCursor ==
  /\ Painting /\ picker.focus = "leds"
  /\ \E c \in {picker.cursor - 1, picker.cursor + 1, 0, Leds - 1} \intersect Strip :
       Edits([picker EXCEPT !.cursor = c])
  /\ UNCHANGED paired

\* The arrows over the palette's grid: along the list, and by whole rows.
MoveSwatch ==
  /\ Painting /\ picker.focus = "palette"
  /\ \E s \in {picker.palette + d : d \in {-1, 1, -Cols, Cols}} \intersect 0 .. Swatches - 1 :
       Edits([picker EXCEPT !.palette = s])
  /\ UNCHANGED paired

Paint ==
  /\ Painting
  /\ Edits([picker EXCEPT !.colors[picker.cursor] = picker.palette])
  /\ paired' = FALSE

PaintAll ==
  /\ Painting
  /\ Edits([picker EXCEPT !.colors = [i \in Strip |-> picker.palette]])
  /\ UNCHANGED paired

PairPainted ==
  [i \in Strip |-> IF i \in {picker.cursor, MirrorIndex(picker.cursor)}
                     THEN picker.palette ELSE picker.colors[i]]

PaintPair ==
  /\ Painting
  /\ Edits([picker EXCEPT !.colors = PairPainted])
  /\ UNCHANGED paired

\* x: the draft is the cursor LED's color, complete.
OpenHex ==
  /\ Painting
  /\ Edits([picker EXCEPT !.hex = [digits |-> Digits, color |-> picker.colors[picker.cursor]]])
  /\ UNCHANGED paired

Backspace ==
  /\ picker.open /\ picker.hex.digits > 0
  /\ Edits([picker EXCEPT !.hex = [digits |-> @.digits - 1, color |-> 0]])
  /\ UNCHANGED paired

\* A digit more, never a seventh; the last one decides the color.
HexDigit ==
  /\ picker.open /\ picker.hex.digits \in 0 .. Digits - 1
  /\ \E c \in IF picker.hex.digits = Digits - 1 THEN Colors ELSE {0} :
       Edits([picker EXCEPT !.hex = [digits |-> @.digits + 1, color |-> c]])
  /\ UNCHANGED paired

\* Enter takes a complete draft; a shorter one stays open.
HexEnter ==
  /\ picker.open /\ picker.hex.digits = Digits
  /\ Edits([picker EXCEPT !.colors[picker.cursor] = picker.hex.color, !.hex = NoHex])
  /\ paired' = FALSE

\* Esc backs out of the hex entry, or of the picker.
HexEsc ==
  /\ picker.open /\ picker.hex # NoHex
  /\ Edits([picker EXCEPT !.hex = NoHex])
  /\ UNCHANGED paired

Cancel == Painting /\ Edits(Closed) /\ paired' = FALSE

\* mirror_colors_if_needed: the direction is the wheel's at this moment.
MirroredIfNeeded(colors) ==
  IF Mirrored(direction) THEN MirrorLeftHalf(colors) ELSE colors

\* commit_color_picker: one write, then reload.
Commit ==
  /\ Painting /\ Key
  /\ strip' = MirroredIfNeeded(picker.colors) /\ row' = strip'
  /\ wrote' = [colors |-> picker.colors, direction |-> direction]
  /\ picker' = Closed /\ paired' = FALSE
  /\ UNCHANGED <<direction, outside>>

\* Another program, or the direction's own row, changes the wheel; the app
\* reads the strip again on its next reload.
Elsewhere ==
  /\ outside < MaxOutside /\ outside' = outside + 1
  /\ \/ direction' \in 0 .. 3 /\ UNCHANGED <<strip, row, wrote>>
     \/ /\ strip' \in {[i \in Strip |-> Custom], [i \in Strip |-> IF i = 0 THEN Custom ELSE 0]}
        /\ wrote' = Nothing /\ UNCHANGED <<direction, row>>
  /\ UNCHANGED <<picker, paired, keys>>

Reload ==
  /\ row # strip /\ row' = strip
  /\ UNCHANGED <<strip, direction, picker, wrote, paired, keys, outside>>

Init ==
  /\ strip = [i \in Strip |-> 0] /\ row = strip /\ direction \in {0, 2}
  /\ picker = Closed /\ wrote = Nothing /\ paired = FALSE /\ keys = 0
  /\ outside = 0

Next ==
  \/ OpenPicker \/ SwitchFocus \/ MoveCursor \/ MoveSwatch \/ Paint \/ PaintAll
  \/ PaintPair \/ OpenHex \/ Backspace \/ HexDigit \/ HexEnter \/ HexEsc
  \/ Cancel \/ Commit \/ Elsewhere \/ Reload

Spec == Init /\ [][Next]_vars

-----------------------------------------------------------------------------
TypeOK ==
  /\ strip \in [Strip -> Colors] /\ row \in [Strip -> Colors] /\ direction \in 0 .. 3
  /\ picker \in [open : BOOLEAN, colors : [Strip -> Colors], cursor : Strip,
                 palette : 0 .. Swatches - 1, focus : {"leds", "palette"},
                 hex : [digits : -1 .. Digits, color : Colors]]
  /\ paired \in BOOLEAN /\ keys \in 0 .. MaxKeys /\ outside \in 0 .. MaxOutside

\* The strip on the wheel is the copy that was committed, except that a
\* direction that plays pairs has its left half on both sides.
StripAsCommitted ==
  wrote # Nothing =>
    /\ \A i \in 0 .. (Leds - 1) \div 2 : strip[i] = wrote.colors[i]
    /\ IF Mirrored(wrote.direction) THEN Palindrome(strip) ELSE strip = wrote.colors

\* A mirrored strip painted in pairs stays one, whichever LED the cursor is
\* on: mirror_index and mirror_left_half agree on what a pair is, and a
\* commit changes nothing the picker does not show.
PairsStayPairs == picker.open /\ paired => Palindrome(picker.colors)
=============================================================================
