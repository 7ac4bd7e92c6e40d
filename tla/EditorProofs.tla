---------------------------- MODULE EditorProofs ----------------------------
(***************************************************************************)
(* Theorems about the editors of the settings programs: the color picker,  *)
(* the inline editor of one setting, the window with the replies on their  *)
(* way to it, the response curve, and the settings file three programs     *)
(* edit.  They have nothing in common; what two of them call alike is      *)
(* declared once.                                                          *)
(***************************************************************************)
EXTENDS Integers, Sequences, SequenceTheorems, WellFoundedInduction, TLAPS

CONSTANTS
  MaxKeys, MaxOutside,
  Leds, Swatches, Cols, Digits,
  Hundred, RawMax, IntMin, IntMax, IntStep, Variants, TextLen, NameSlots,
  LightSlots, WindowClicks, MaxFaults, MaxTouches,
  CurveFull, CurveHundred, CurveStep, MaxPoints,
  OldFile, NewFile, HandLines, MaxEdits, MaxHand, ProgramStarts

VARIABLES
  strip, direction, row, picker, painted, paired, wrote, outside,
  kind, wheel, file, saved, edit,
  reqs, resps, cat, known, names, last, shown, curves, editor, split, clicks,
  faults, touches,
  view, overlay, curve, sel, field, device,
  confFile, proc, confShown, left

Colors == INSTANCE ColorPicker WITH keys <- painted
Edit   == INSTANCE SettingEdit WITH MaxLen <- TextLen, Slots <- NameSlots
Gui    == INSTANCE GuiWindow WITH Slots <- LightSlots, MaxClicks <- WindowClicks
Curve  == INSTANCE CurveEditor WITH Full <- CurveFull, Hundred <- CurveHundred,
            Step <- CurveStep, editor <- overlay
Conf   == INSTANCE TfConfig WITH MaxStarts <- ProgramStarts, file <- confFile,
            shown <- confShown

(***************************************************************************)
(* The color picker.                                                       *)
(***************************************************************************)
\* The strip is what the last commit made of its copy, until somebody else
\* writes it.
StripWritten ==
  \/ wrote = Colors!Nothing
  \/ /\ wrote.colors \in [Colors!Strip -> Colors!Colors] /\ wrote.direction \in 0 .. 3
     /\ strip = IF Colors!Mirrored(wrote.direction) THEN Colors!MirrorLeftHalf(wrote.colors)
                ELSE wrote.colors

PaletteInv == Colors!TypeOK /\ StripWritten /\ Colors!PairsStayPairs

\* The LEDs pair off: LED i with LED Leds - 1 - i, left half with right half.
LEMMA LedsPairOff ==
  ASSUME Colors!PaletteAssumption, NEW i \in Colors!Strip
  PROVE  /\ Leds - 1 - i \in Colors!Strip /\ Leds - 1 - (Leds - 1 - i) = i
         /\ i >= Leds - Leds \div 2 => ~(Leds - 1 - i >= Leds - Leds \div 2)
         /\ ~(i >= Leds - Leds \div 2) =>
              Leds - 1 - i >= Leds - Leds \div 2 \/ Leds - 1 - i = i
         /\ i \in 0 .. (Leds - 1) \div 2 => ~(i >= Leds - Leds \div 2)
BY DEF Colors!PaletteAssumption, Colors!Strip

\* mirror_left_half leaves a mirrored strip with the left half as it was.
LEMMA MirrorIsMirrored ==
  ASSUME Colors!PaletteAssumption, NEW c \in [Colors!Strip -> Colors!Colors]
  PROVE  /\ Colors!MirrorLeftHalf(c) \in [Colors!Strip -> Colors!Colors]
              /\ Colors!Palindrome(Colors!MirrorLeftHalf(c))
         /\ \A i \in 0 .. (Leds - 1) \div 2 : Colors!MirrorLeftHalf(c)[i] = c[i]
<1> DEFINE m == Colors!MirrorLeftHalf(c)
<1>1. \A i \in Colors!Strip : m[i] = IF i >= Leds - Leds \div 2 THEN c[Leds - 1 - i] ELSE c[i]
  BY DEF Colors!MirrorLeftHalf
<1>2. m \in [Colors!Strip -> Colors!Colors]
  BY LedsPairOff DEF Colors!MirrorLeftHalf
<1> HIDE DEF m
<1>3. \A i \in Colors!Strip : m[i] = m[Leds - 1 - i]
  <2> TAKE i \in Colors!Strip
  <2>1. m[Leds - 1 - i] = IF Leds - 1 - i >= Leds - Leds \div 2
                          THEN c[Leds - 1 - (Leds - 1 - i)] ELSE c[Leds - 1 - i]
    BY <1>1, LedsPairOff
  <2> QED  BY <1>1, <2>1, LedsPairOff
<1>4. \A i \in 0 .. (Leds - 1) \div 2 : m[i] = c[i]
  <2> TAKE i \in 0 .. (Leds - 1) \div 2
  <2>1. i \in Colors!Strip  BY DEF Colors!Strip, Colors!PaletteAssumption
  <2> QED  BY <2>1, <1>1, LedsPairOff
<1> QED  BY <1>2, <1>3, <1>4 DEF m, Colors!Palindrome

PickerType == [open : BOOLEAN, colors : [Colors!Strip -> Colors!Colors], cursor : Colors!Strip,
           palette : 0 .. Swatches - 1, focus : {"leds", "palette"},
           hex : [digits : -1 .. Digits, color : Colors!Colors]]

LEMMA ClosedTyped ==
  ASSUME Colors!PaletteAssumption
  PROVE  /\ Colors!NoHex \in [digits : -1 .. Digits, color : Colors!Colors]
         /\ Colors!Closed \in PickerType /\ ~Colors!Closed.open
              /\ [i \in Colors!Strip |-> 0] \in [Colors!Strip -> Colors!Colors]
<1>1. 0 \in Colors!Colors /\ 0 \in Colors!Strip /\ 0 \in 0 .. Swatches - 1
        /\ -1 \in -1 .. Digits
  BY DEF Colors!PaletteAssumption, Colors!Colors, Colors!Strip
<1>2. Colors!NoHex \in [digits : -1 .. Digits, color : Colors!Colors]
  BY <1>1 DEF Colors!NoHex
<1> QED  BY <1>1, <1>2 DEF Colors!Closed, PickerType

LEMMA PaletteStarts == ASSUME Colors!PaletteAssumption PROVE Colors!Init => PaletteInv
<1> SUFFICES ASSUME Colors!Init PROVE PaletteInv  OBVIOUS
<1>1. direction \in 0 .. 3 /\ painted \in 0 .. MaxKeys /\ outside \in 0 .. MaxOutside
  BY DEF Colors!Init, Colors!PaletteAssumption
<1>2. strip \in [Colors!Strip -> Colors!Colors]
        /\ row \in [Colors!Strip -> Colors!Colors] /\ picker \in PickerType
  BY ClosedTyped DEF Colors!Init
<1>3. paired \in BOOLEAN  BY DEF Colors!Init
<1>4. Colors!TypeOK  BY <1>1, <1>2, <1>3 DEF Colors!TypeOK, PickerType
<1>5. StripWritten /\ Colors!PairsStayPairs
  BY DEF Colors!Init, StripWritten, Colors!PairsStayPairs
<1> QED  BY <1>4, <1>5 DEF PaletteInv

\* A key of the painting that keeps the copy, or its pairs.
LEMMA EditsKeep ==
  ASSUME Colors!PaletteAssumption, PaletteInv, NEW p \in PickerType, Colors!Edits(p),
           paired' \in BOOLEAN,
         p.open /\ paired' => Colors!Palindrome(p.colors)
  PROVE  PaletteInv'
<1>1. picker' = p /\ UNCHANGED <<strip, direction, row, wrote, outside>>
      /\ painted < MaxKeys /\ painted' = painted + 1
  BY DEF Colors!Edits, Colors!Key
<1>2. painted' \in 0 .. MaxKeys
  BY <1>1 DEF Colors!PaletteAssumption, PaletteInv, Colors!TypeOK
<1>3. Colors!TypeOK'  BY <1>1, <1>2 DEF PaletteInv, Colors!TypeOK, PickerType
<1>4. StripWritten' /\ Colors!PairsStayPairs'
  BY <1>1 DEF PaletteInv, StripWritten, Colors!PairsStayPairs, Colors!Palindrome
<1> QED  BY <1>3, <1>4 DEF PaletteInv

LEMMA PaletteSteps == ASSUME Colors!PaletteAssumption PROVE PaletteInv /\ [Colors!Next]_(Colors!vars) => PaletteInv'
<1> SUFFICES ASSUME PaletteInv, [Colors!Next]_(Colors!vars) PROVE PaletteInv'  OBVIOUS
<1>0. picker \in PickerType /\ paired \in BOOLEAN /\ painted \in 0 .. MaxKeys
  BY DEF PaletteInv, Colors!TypeOK, PickerType
<1>a. picker.open /\ paired => Colors!Palindrome(picker.colors)
  BY DEF PaletteInv, Colors!PairsStayPairs
<1>b. Colors!NoHex \in [digits : -1 .. Digits, color : Colors!Colors]  BY ClosedTyped
<1>1. CASE Colors!OpenPicker
  <2>1. /\ picker' = [Colors!Closed EXCEPT !.open = TRUE, !.colors = row]
             /\ wrote' = Colors!Nothing
        /\ paired' = Colors!Palindrome(row) /\ painted < MaxKeys /\ painted' = painted + 1
        /\ UNCHANGED <<strip, direction, row, outside>>
    BY <1>1 DEF Colors!OpenPicker, Colors!Key
  <2>2. picker' \in PickerType /\ picker'.colors = row
    BY <2>1, ClosedTyped DEF PickerType, PaletteInv, Colors!TypeOK
  <2>3. painted' \in 0 .. MaxKeys  BY <2>1, <1>0 DEF Colors!PaletteAssumption
  <2>4. paired' \in BOOLEAN /\ (paired' => Colors!Palindrome(row))
    BY <2>1 DEF Colors!Palindrome
  <2>5. Colors!TypeOK'  BY <2>1, <2>2, <2>3, <2>4 DEF PaletteInv, Colors!TypeOK, PickerType
  <2>6. StripWritten'  BY <2>1 DEF StripWritten
  <2>7. Colors!PairsStayPairs'
    BY <2>2, <2>4, <2>1 DEF Colors!PairsStayPairs, Colors!Palindrome
  <2> QED  BY <2>5, <2>6, <2>7 DEF PaletteInv
<1>2. CASE Colors!SwitchFocus
  <2>1. PICK p : p = [picker EXCEPT !.focus = IF @ = "leds" THEN "palette" ELSE "leds"]
    OBVIOUS
  <2>2. Colors!Edits(p) /\ UNCHANGED paired  BY <1>2, <2>1 DEF Colors!SwitchFocus
  <2>3. p \in PickerType /\ p.colors = picker.colors /\ p.open = picker.open
    BY <2>1, <1>0 DEF PickerType
  <2> QED  BY <2>2, <2>3, <1>0, <1>a, EditsKeep
<1>3. CASE Colors!MoveCursor
  <2>1. PICK c \in Colors!Strip : Colors!Edits([picker EXCEPT !.cursor = c])
          /\ UNCHANGED paired
    BY <1>3 DEF Colors!MoveCursor
  <2>2. PICK p : p = [picker EXCEPT !.cursor = c]  OBVIOUS
  <2>3. p \in PickerType /\ p.colors = picker.colors /\ p.open = picker.open
    BY <2>2, <1>0 DEF PickerType
  <2> QED  BY <2>1, <2>2, <2>3, <1>0, <1>a, EditsKeep
<1>4. CASE Colors!MoveSwatch
  <2>1. PICK c \in 0 .. Swatches - 1 : Colors!Edits([picker EXCEPT !.palette = c])
          /\ UNCHANGED paired
    BY <1>4 DEF Colors!MoveSwatch
  <2>2. PICK p : p = [picker EXCEPT !.palette = c]  OBVIOUS
  <2>3. p \in PickerType /\ p.colors = picker.colors /\ p.open = picker.open
    BY <2>2, <1>0 DEF PickerType
  <2> QED  BY <2>1, <2>2, <2>3, <1>0, <1>a, EditsKeep
<1>c. picker.palette \in Colors!Colors /\ picker.cursor \in Colors!Strip
  BY <1>0 DEF PickerType, Colors!Colors, Colors!PaletteAssumption
<1>5. CASE Colors!Paint
  <2>1. PICK p : p = [picker EXCEPT !.colors[picker.cursor] = picker.palette]  OBVIOUS
  <2>2. Colors!Edits(p) /\ paired' = FALSE  BY <1>5, <2>1 DEF Colors!Paint
  <2>3. p \in PickerType  BY <2>1, <1>0, <1>c DEF PickerType
  <2> QED  BY <2>2, <2>3, EditsKeep
<1>6. CASE Colors!PaintAll
  <2>1. PICK p : p = [picker EXCEPT !.colors
          = [i \in Colors!Strip |-> picker.palette]]  OBVIOUS
  <2>2. Colors!Edits(p) /\ UNCHANGED paired  BY <1>6, <2>1 DEF Colors!PaintAll
  <2>3. p \in PickerType /\ p.colors = [i \in Colors!Strip |-> picker.palette]
    BY <2>1, <1>0, <1>c DEF PickerType
  <2>4. Colors!Palindrome(p.colors)  BY <2>3, LedsPairOff DEF Colors!Palindrome
  <2> QED  BY <2>2, <2>3, <2>4, <1>0, EditsKeep
<1>7. CASE Colors!PaintPair
  <2>1. PICK p : p = [picker EXCEPT !.colors = Colors!PairPainted]  OBVIOUS
  <2>2. Colors!Edits(p) /\ UNCHANGED paired /\ picker.open
    BY <1>7, <2>1 DEF Colors!PaintPair, Colors!Painting
  <2>3. Colors!PairPainted \in [Colors!Strip -> Colors!Colors]
    BY <1>0, <1>c DEF Colors!PairPainted, PickerType
  <2>4. p \in PickerType /\ p.colors = Colors!PairPainted
    BY <2>1, <2>3, <1>0 DEF PickerType
  <2>5. ASSUME paired PROVE Colors!Palindrome(Colors!PairPainted)
    <3>1. \A i \in Colors!Strip : Colors!PairPainted[i] =
            IF i = picker.cursor \/ i = Leds - 1 - picker.cursor THEN picker.palette
            ELSE picker.colors[i]
      BY DEF Colors!PairPainted, Colors!MirrorIndex
    <3>2. ASSUME NEW i \in Colors!Strip PROVE Colors!PairPainted[i] = Colors!PairPainted[Leds - 1 - i]
      <4>1. picker.colors[i] = picker.colors[Leds - 1 - i]
        BY <2>5, <2>2, <1>a DEF Colors!Palindrome
      <4>2. Leds - 1 - i \in Colors!Strip  BY LedsPairOff
      <4>3. i \in Int /\ picker.cursor \in Int /\ Leds \in Int
        BY <1>c DEF Colors!Strip, Colors!PaletteAssumption
      <4>4. /\ i = picker.cursor <=> Leds - 1 - i = Leds - 1 - picker.cursor
            /\ i = Leds - 1 - picker.cursor <=> Leds - 1 - i = picker.cursor
        BY <4>3
      <4> QED  BY <3>1, <4>1, <4>2, <4>4
    <3> QED  BY <3>2 DEF Colors!Palindrome
  <2> QED  BY <2>2, <2>4, <2>5, <1>0, EditsKeep
<1>8. CASE Colors!OpenHex
  <2>1. PICK p : p = [picker EXCEPT !.hex = [digits |-> Digits,
                                             color |-> picker.colors[picker.cursor]]]
    OBVIOUS
  <2>2. Colors!Edits(p) /\ UNCHANGED paired  BY <1>8, <2>1 DEF Colors!OpenHex
  <2>3. Digits \in -1 .. Digits  BY DEF Colors!PaletteAssumption
  <2>4. p \in PickerType /\ p.colors = picker.colors /\ p.open = picker.open
    BY <2>1, <2>3, <1>0, <1>c DEF PickerType
  <2> QED  BY <2>2, <2>4, <1>0, <1>a, EditsKeep
<1>9. CASE Colors!Backspace
  <2>1. PICK p : p = [picker EXCEPT !.hex = [digits |-> @.digits - 1, color |-> 0]]  OBVIOUS
  <2>2. Colors!Edits(p) /\ UNCHANGED paired /\ picker.hex.digits > 0
    BY <1>9, <2>1 DEF Colors!Backspace
  <2>3. picker.hex.digits - 1 \in -1 .. Digits /\ 0 \in Colors!Colors
    BY <2>2, <1>0 DEF PickerType, Colors!PaletteAssumption, Colors!Colors
  <2>4. p \in PickerType /\ p.colors = picker.colors /\ p.open = picker.open
    BY <2>1, <2>3, <1>0 DEF PickerType
  <2> QED  BY <2>2, <2>4, <1>0, <1>a, EditsKeep
<1>10. CASE Colors!HexDigit
  <2>1. PICK c \in Colors!Colors :
          Colors!Edits([picker EXCEPT !.hex = [digits |-> @.digits + 1, color |-> c]])
    BY <1>10 DEF Colors!HexDigit, Colors!Colors, Colors!PaletteAssumption
  <2>2. PICK p : p = [picker EXCEPT !.hex = [digits |-> @.digits + 1, color |-> c]]  OBVIOUS
  <2>3. UNCHANGED paired /\ picker.hex.digits \in 0 .. Digits - 1
    BY <1>10 DEF Colors!HexDigit
  <2>4. picker.hex.digits + 1 \in -1 .. Digits  BY <2>3 DEF Colors!PaletteAssumption
  <2>5. p \in PickerType /\ p.colors = picker.colors /\ p.open = picker.open
    BY <2>2, <2>4, <1>0 DEF PickerType
  <2> QED  BY <2>1, <2>2, <2>3, <2>5, <1>0, <1>a, EditsKeep
<1>11. CASE Colors!HexEnter
  <2>1. PICK p : p = [picker EXCEPT !.colors[picker.cursor] = picker.hex.color, !.hex
          = Colors!NoHex]
    OBVIOUS
  <2>2. Colors!Edits(p) /\ paired' = FALSE  BY <1>11, <2>1 DEF Colors!HexEnter
  <2>3. p \in PickerType  BY <2>1, <1>0, <1>b, <1>c DEF PickerType
  <2> QED  BY <2>2, <2>3, EditsKeep
<1>12. CASE Colors!HexEsc
  <2>1. PICK p : p = [picker EXCEPT !.hex = Colors!NoHex]  OBVIOUS
  <2>2. Colors!Edits(p) /\ UNCHANGED paired  BY <1>12, <2>1 DEF Colors!HexEsc
  <2>3. p \in PickerType /\ p.colors = picker.colors /\ p.open = picker.open
    BY <2>1, <1>0, <1>b DEF PickerType
  <2> QED  BY <2>2, <2>3, <1>0, <1>a, EditsKeep
<1>13. CASE Colors!Cancel
  <2>1. PICK p : p = Colors!Closed  OBVIOUS
  <2>2. Colors!Edits(p) /\ paired' = FALSE /\ p \in PickerType
    BY <1>13, <2>1, ClosedTyped DEF Colors!Cancel
  <2> QED  BY <2>2, EditsKeep
<1>14. CASE Colors!Commit
  <2>1. /\ strip' = Colors!MirroredIfNeeded(picker.colors) /\ row' = strip'
        /\ wrote' = [colors |-> picker.colors, direction |-> direction]
        /\ picker' = Colors!Closed /\ paired' = FALSE /\ painted < MaxKeys
             /\ painted' = painted + 1
        /\ UNCHANGED <<direction, outside>>
    BY <1>14 DEF Colors!Commit, Colors!Key
  <2>2. picker.colors \in [Colors!Strip -> Colors!Colors] /\ direction \in 0 .. 3
    BY <1>0 DEF PickerType, PaletteInv, Colors!TypeOK
  <2>3. strip' \in [Colors!Strip -> Colors!Colors]
    BY <2>1, <2>2, MirrorIsMirrored DEF Colors!MirroredIfNeeded
  <2>4. painted' \in 0 .. MaxKeys  BY <2>1, <1>0 DEF Colors!PaletteAssumption
  <2>5. Colors!TypeOK'
    BY <2>1, <2>3, <2>4, ClosedTyped DEF PaletteInv, Colors!TypeOK, PickerType
  <2>6. StripWritten'  BY <2>1, <2>2 DEF StripWritten, Colors!MirroredIfNeeded
  <2>7. Colors!PairsStayPairs'  BY <2>1 DEF Colors!PairsStayPairs
  <2> QED  BY <2>5, <2>6, <2>7 DEF PaletteInv
<1>15. CASE Colors!Elsewhere
  <2>1. outside < MaxOutside /\ outside' = outside + 1
          /\ UNCHANGED <<picker, paired, painted>>
    BY <1>15 DEF Colors!Elsewhere
  <2>2. outside' \in 0 .. MaxOutside
    BY <2>1 DEF Colors!PaletteAssumption, PaletteInv, Colors!TypeOK
  <2>3. Colors!PairsStayPairs'  BY <2>1, <1>a DEF Colors!PairsStayPairs, Colors!Palindrome
  <2>4. CASE direction' \in 0 .. 3 /\ UNCHANGED <<strip, row, wrote>>
    BY <2>1, <2>2, <2>3, <2>4 DEF PaletteInv, Colors!TypeOK, StripWritten
  <2>5. CASE /\ strip' \in {[i \in Colors!Strip |-> Colors!Custom],
                           [i \in Colors!Strip |-> IF i = 0 THEN Colors!Custom ELSE 0]}
             /\ wrote' = Colors!Nothing /\ UNCHANGED <<direction, row>>
    <3>1. Colors!Custom \in Colors!Colors /\ 0 \in Colors!Colors
      BY DEF Colors!Custom, Colors!Colors, Colors!PaletteAssumption
    <3>2. strip' \in [Colors!Strip -> Colors!Colors]  BY <2>5, <3>1
    <3> QED  BY <2>1, <2>2, <2>3, <2>5, <3>2 DEF PaletteInv, Colors!TypeOK, StripWritten
  <2> QED  BY <1>15, <2>4, <2>5 DEF Colors!Elsewhere
<1>16. CASE Colors!Reload
  BY <1>16, <1>a DEF Colors!Reload, PaletteInv, Colors!TypeOK, StripWritten,
       Colors!PairsStayPairs, Colors!Palindrome
<1>17. CASE UNCHANGED Colors!vars
  BY <1>17, <1>a DEF Colors!vars, PaletteInv, Colors!TypeOK, StripWritten,
       Colors!PairsStayPairs, Colors!Palindrome
<1> QED
  BY <1>1, <1>2, <1>3, <1>4, <1>5, <1>6, <1>7, <1>8, <1>9, <1>10, <1>11, <1>12, <1>13,
     <1>14, <1>15, <1>16, <1>17 DEF Colors!Next

LEMMA PaletteSound ==
  ASSUME Colors!PaletteAssumption PROVE PaletteInv => Colors!TypeOK /\ Colors!StripAsCommitted /\ Colors!PairsStayPairs
<1> SUFFICES ASSUME PaletteInv, wrote # Colors!Nothing
             PROVE  /\ \A i \in 0 .. (Leds - 1) \div 2 : strip[i] = wrote.colors[i]
                    /\ IF Colors!Mirrored(wrote.direction) THEN Colors!Palindrome(strip)
                       ELSE strip = wrote.colors
  BY DEF PaletteInv, Colors!StripAsCommitted
<1>1. /\ wrote.colors \in [Colors!Strip -> Colors!Colors]
      /\ strip = IF Colors!Mirrored(wrote.direction) THEN Colors!MirrorLeftHalf(wrote.colors)
                 ELSE wrote.colors
  BY DEF PaletteInv, StripWritten
<1> QED  BY <1>1, MirrorIsMirrored

(***************************************************************************)
(* One setting between the wheel, the editor and a profile.                *)
(***************************************************************************)
\* What an attribute of kind k reads as.
IsValue(k, v) ==
  \/ k \in {"percent", "scaled"} /\ \E n \in 0 .. Hundred : v = <<"percent", n>>
  \/ k = "int" /\ \E n \in IntMin .. IntMax : v = <<"int", n>>
  \/ k = "enum" /\ \E n \in 0 .. Variants - 1 : v = <<"enum", n>>
  \/ k = "toggle" /\ \E b \in BOOLEAN : v = <<"bool", b>>
  \/ k = "text" /\ \E n \in 0 .. TextLen : v = <<"text", n>>
  \/ k = "curve" /\ (v = <<"curve", 0>> \/ \E n \in 1 .. 2 : v = <<"curveLoaded", n>>)
  \/ k = "pair" /\ \E a, b \in 0 .. Hundred : a + b < Hundred /\ v = <<"pair", a, b>>
  \/ k = "slots" /\ \E f \in [1 .. NameSlots -> 0 .. TextLen] : v = <<"names", f>>

\* The texts of each kind.
LEMMA RawsOf ==
  /\ Edit!Raws("percent") = {<<"num", n>> : n \in 0 .. Hundred}
  /\ Edit!Raws("scaled") = {<<"num", n>> : n \in 0 .. RawMax}
  /\ Edit!Raws("int") = {<<"num", n>> : n \in IntMin .. IntMax}
  /\ Edit!Raws("enum") = {<<"num", n>> : n \in 0 .. Variants - 1}
  /\ Edit!Raws("toggle") = {<<"num", n>> : n \in 0 .. 1}
  /\ Edit!Raws("text") = {<<"text", n>> : n \in 0 .. TextLen}
  /\ Edit!Raws("curve") = {<<"loaded", n>> : n \in 0 .. 2}
  /\ Edit!Raws("pair") = {<<"pair", p[1], p[2]>> :
                       p \in {q \in (0 .. Hundred) \X (0 .. Hundred) : q[1] + q[2] < Hundred}}
  /\ Edit!Raws("slots") = {<<"names", f>> : f \in [1 .. NameSlots -> 0 .. TextLen]}
<1>1. Edit!Raws("percent") = {<<"num", n>> : n \in 0 .. Hundred}  BY Zenon DEF Edit!Raws
<1>2. Edit!Raws("scaled") = {<<"num", n>> : n \in 0 .. RawMax}  BY Zenon DEF Edit!Raws
<1>3. Edit!Raws("int") = {<<"num", n>> : n \in IntMin .. IntMax}  BY Zenon DEF Edit!Raws
<1>4. Edit!Raws("enum") = {<<"num", n>> : n \in 0 .. Variants - 1}  BY Zenon DEF Edit!Raws
<1>5. Edit!Raws("toggle") = {<<"num", n>> : n \in 0 .. 1}  BY Zenon DEF Edit!Raws
<1>6. Edit!Raws("text") = {<<"text", n>> : n \in 0 .. TextLen}  BY Zenon DEF Edit!Raws
<1>7. Edit!Raws("curve") = {<<"loaded", n>> : n \in 0 .. 2}  BY Zenon DEF Edit!Raws
<1>8. Edit!Raws("pair") = {<<"pair", p[1], p[2]>> :
                       p \in {q \in (0 .. Hundred) \X (0 .. Hundred) : q[1] + q[2] < Hundred}}
  BY Zenon DEF Edit!Raws
<1>9. Edit!Raws("slots") = {<<"names", f>> : f \in [1 .. NameSlots -> 0 .. TextLen]}
  BY Zenon DEF Edit!Raws
<1> QED  BY Zenon, <1>1, <1>2, <1>3, <1>4, <1>5, <1>6, <1>7, <1>8, <1>9

\* Kind::parse, kind by kind.
LEMMA ParseOf ==
  /\ \A n : Edit!Parse("percent", <<"num", n>>)
              = IF n \in 0 .. Hundred THEN <<"percent", n>> ELSE Edit!Invalid
  /\ \A n : Edit!Parse("scaled", <<"num", n>>)
              = IF n \in 0 .. RawMax THEN <<"percent", Edit!ToPercent(n)>> ELSE Edit!Invalid
  /\ \A n : Edit!Parse("int", <<"num", n>>)
              = IF n \in IntMin .. IntMax THEN <<"int", n>> ELSE Edit!Invalid
  /\ \A n : Edit!Parse("enum", <<"num", n>>)
              = IF n < Variants THEN <<"enum", n>> ELSE Edit!Invalid
  /\ \A n : Edit!Parse("toggle", <<"num", n>>)
              = IF n \in {0, 1} THEN <<"bool", n = 1>> ELSE Edit!Invalid
  /\ \A n : Edit!Parse("text", <<"text", n>>)
              = IF n <= TextLen THEN <<"text", n>> ELSE Edit!Invalid
  /\ \A raw : Edit!Parse("curve", raw) = Edit!CurveRead(raw)
  /\ \A a, b : Edit!Parse("pair", <<"pair", a, b>>)
                 = IF a + b < Hundred THEN <<"pair", a, b>> ELSE Edit!Invalid
  /\ \A f : Edit!Parse("slots", <<"names", f>>) = <<"names", f>>
<1>0. \A s, x, y : <<s, x>>[1] = s /\ <<s, x>>[2] = x /\ <<s, x, y>>[1] = s
                   /\ <<s, x, y>>[2] = x /\ <<s, x, y>>[3] = y
  OBVIOUS
<1>1. \A n : Edit!Parse("percent", <<"num", n>>)
               = IF n \in 0 .. Hundred THEN <<"percent", n>> ELSE Edit!Invalid
  BY Zenon, <1>0 DEF Edit!Parse
<1>2. \A n : Edit!Parse("scaled", <<"num", n>>)
               = IF n \in 0 .. RawMax THEN <<"percent", Edit!ToPercent(n)>> ELSE Edit!Invalid
  BY Zenon, <1>0 DEF Edit!Parse
<1>3. \A n : Edit!Parse("int", <<"num", n>>)
               = IF n \in IntMin .. IntMax THEN <<"int", n>> ELSE Edit!Invalid
  BY Zenon, <1>0 DEF Edit!Parse
<1>4. \A n : Edit!Parse("enum", <<"num", n>>)
               = IF n < Variants THEN <<"enum", n>> ELSE Edit!Invalid
  BY Zenon, <1>0 DEF Edit!Parse
<1>5. \A n : Edit!Parse("toggle", <<"num", n>>)
               = IF n \in {0, 1} THEN <<"bool", n = 1>> ELSE Edit!Invalid
  BY Zenon, <1>0 DEF Edit!Parse
<1>6. \A n : Edit!Parse("text", <<"text", n>>)
               = IF n <= TextLen THEN <<"text", n>> ELSE Edit!Invalid
  BY Zenon, <1>0 DEF Edit!Parse
<1>7. \A raw : Edit!Parse("curve", raw) = Edit!CurveRead(raw)
  BY Zenon, <1>0 DEF Edit!Parse
<1>8. \A a, b : Edit!Parse("pair", <<"pair", a, b>>)
                  = IF a + b < Hundred THEN <<"pair", a, b>> ELSE Edit!Invalid
  BY Zenon, <1>0 DEF Edit!Parse
<1>9. \A f : Edit!Parse("slots", <<"names", f>>) = <<"names", f>>
  BY Zenon, <1>0 DEF Edit!Parse
<1> QED  BY Zenon, <1>1, <1>2, <1>3, <1>4, <1>5, <1>6, <1>7, <1>8, <1>9

\* Kind::format, value by value.
LEMMA FormatOf ==
  /\ \A n : Edit!Format("percent", <<"percent", n>>) = <<"num", n>>
  /\ \A n : Edit!Format("scaled", <<"percent", n>>) = <<"num", Edit!ToRaw(n)>>
  /\ \A n : Edit!Format("int", <<"int", n>>) = <<"num", n>>
  /\ \A n : Edit!Format("enum", <<"enum", n>>) = <<"num", n>>
  /\ \A n : Edit!Format("toggle", <<"bool", n>>) = <<"num", IF n THEN 1 ELSE 0>>
  /\ \A n : Edit!Format("text", <<"text", n>>) = <<"text", n>>
  /\ \A n : Edit!Format("curve", <<"curve", n>>) = <<"points", n>>
  /\ \A n : Edit!Format("curve", <<"curveLoaded", n>>) = Edit!Invalid
  /\ \A a, b : Edit!Format("pair", <<"pair", a, b>>) = <<"pair", a, b>>
  /\ \A a, b : Edit!Format("slots", <<"name", a, b>>) = <<"rename", a, b>>
<1>0. \A s, x, y : <<s, x>>[1] = s /\ <<s, x>>[2] = x /\ <<s, x, y>>[1] = s
                   /\ <<s, x, y>>[2] = x /\ <<s, x, y>>[3] = y
  OBVIOUS
<1>1. \A n : Edit!Format("percent", <<"percent", n>>) = <<"num", n>>
  BY Zenon, <1>0 DEF Edit!Format
<1>2. \A n : Edit!Format("scaled", <<"percent", n>>) = <<"num", Edit!ToRaw(n)>>
  BY Zenon, <1>0 DEF Edit!Format
<1>3. \A n : Edit!Format("int", <<"int", n>>) = <<"num", n>>  BY Zenon, <1>0 DEF Edit!Format
<1>4. \A n : Edit!Format("enum", <<"enum", n>>) = <<"num", n>>
  BY Zenon, <1>0 DEF Edit!Format
<1>5. \A n : Edit!Format("toggle", <<"bool", n>>) = <<"num", IF n THEN 1 ELSE 0>>
  BY Zenon, <1>0 DEF Edit!Format
<1>6. \A n : Edit!Format("text", <<"text", n>>) = <<"text", n>>
  BY Zenon, <1>0 DEF Edit!Format
<1>7. \A n : Edit!Format("curve", <<"curve", n>>) = <<"points", n>>
  BY Zenon, <1>0 DEF Edit!Format
<1>8. \A n : Edit!Format("curve", <<"curveLoaded", n>>) = Edit!Invalid
  BY Zenon, <1>0 DEF Edit!Format
<1>9. \A a, b : Edit!Format("pair", <<"pair", a, b>>) = <<"pair", a, b>>
  BY Zenon, <1>0 DEF Edit!Format
<1>10. \A a, b : Edit!Format("slots", <<"name", a, b>>) = <<"rename", a, b>>
  BY Zenon, <1>0 DEF Edit!Format
<1> QED  BY Zenon, <1>1, <1>2, <1>3, <1>4, <1>5, <1>6, <1>7, <1>8, <1>9, <1>10

\* "Writing a given percent and reading it back always shows the same percent
\* again": the raw scale is finer than the percents, so rounding half up twice
\* gives the percent back.
LEMMA PercentRoundTrip ==
  ASSUME Edit!EditAssumption, NEW p \in 0 .. Hundred
  PROVE  Edit!ToRaw(p) \in 0 .. RawMax /\ Edit!ToPercent(Edit!ToRaw(p)) = p
<1> USE DEF Edit!EditAssumption
<1> DEFINE H == Hundred  R == RawMax  pr == p * R  h == H \div 2  k == R \div 2
<1>1. pr \in Nat /\ h \in Nat /\ k \in Nat /\ H \in Nat /\ R \in Nat /\ p \in Nat
        /\ H > 0 /\ R > H /\ p <= H
  OBVIOUS
<1>2. 2 * h <= H /\ H <= 2 * h + 1 /\ 2 * k <= R /\ R <= 2 * k + 1
  BY <1>1
<1>3. PICK r : r = Edit!ToRaw(p)  OBVIOUS
<1>4. r = (pr + h) \div H  BY <1>3 DEF Edit!ToRaw
<1>5. r \in Nat /\ H * r <= pr + h /\ pr + h < H * (r + 1)
  <2> HIDE DEF H, R, pr, h, k
  <2>1. \A x \in Nat : x \div H \in Nat /\ H * (x \div H) <= x /\ x < H * ((x \div H) + 1)
    BY <1>1
  <2> QED  BY <1>1, <1>4, <2>1
<1>6. PICK rh : rh = r * H  OBVIOUS
<1>7. rh \in Nat /\ rh <= pr + h /\ pr + h < rh + H
  <2>1. H * r = rh /\ H * (r + 1) = rh + H  BY <1>1, <1>5, <1>6
  <2> QED  BY <2>1, <1>1, <1>5, <1>6
<1>8. pr <= rh + k /\ rh + k < pr + R
  <2> HIDE DEF H, R, pr, h, k
  <2> QED  BY <1>1, <1>2, <1>7
<1>9. (rh + k) \div R = p
  <2>1. pr = R * p /\ R * (p + 1) = pr + R  BY <1>1
  <2> HIDE DEF H, R, pr, h, k
  <2>2. PICK q : q = (rh + k) \div R  OBVIOUS
  <2>3. q \in Nat /\ R * q <= rh + k /\ rh + k < R * (q + 1)
    <3>1. \A x \in Nat : x \div R \in Nat /\ R * (x \div R) <= x /\ x < R * ((x \div R) + 1)
      BY <1>1
    <3> QED  BY <1>1, <1>7, <2>2, <3>1
  <2>4. R * p < R * (q + 1) /\ R * q < R * (p + 1)  BY <2>1, <2>3, <1>8, <1>1, <1>7
  <2>5. p < q + 1
    <3> SUFFICES ASSUME q + 1 <= p PROVE FALSE  BY <2>3, <1>1
    <3>1. R * (q + 1) <= R * p  BY <2>3, <1>1
    <3> QED  BY <3>1, <2>4, <2>3, <1>1
  <2>6. q < p + 1
    <3> SUFFICES ASSUME p + 1 <= q PROVE FALSE  BY <2>3, <1>1
    <3>1. R * (p + 1) <= R * q  BY <2>3, <1>1
    <3> QED  BY <3>1, <2>4, <2>3, <1>1
  <2> QED  BY <2>2, <2>3, <2>5, <2>6, <1>1
<1>10. r <= R
  <2> SUFFICES ASSUME r > R PROVE FALSE  BY <1>1, <1>5
  <2>1. pr <= H * R  BY <1>1
  <2>2. H * (R + 1) <= H * r  BY <1>1, <1>5
  <2>3. H * (R + 1) = H * R + H  BY <1>1
  <2>4. H * r = rh  BY <1>1, <1>5, <1>6
  <2> HIDE DEF H, R, pr, h, k
  <2>5. PICK hr : hr = H * R  OBVIOUS
  <2>6. hr \in Nat /\ pr <= hr /\ hr + H <= rh  BY <2>1, <2>2, <2>3, <2>4, <2>5, <1>1
  <2> QED  BY <2>6, <1>7, <1>2, <1>1
<1> QED  BY <1>3, <1>6, <1>9, <1>10, <1>5, <1>1 DEF Edit!ToPercent

\* What an attribute can hold is a value, never refused.
LEMMA ParseTyped ==
  ASSUME Edit!EditAssumption, NEW k \in Edit!Kinds, NEW raw \in Edit!Raws(k)
  PROVE  IsValue(k, Edit!Parse(k, raw))
<1> USE DEF Edit!EditAssumption
<1>1. CASE k = "percent"
  <2>1. PICK n \in 0 .. Hundred : raw = <<"num", n>>  BY <1>1, RawsOf
  <2> QED  BY <1>1, <2>1, ParseOf DEF IsValue
<1>2. CASE k = "scaled"
  <2>1. PICK n \in 0 .. RawMax : raw = <<"num", n>>  BY <1>2, RawsOf
  <2>2. Edit!ToPercent(n) \in 0 .. Hundred
    <3> DEFINE x == n * Hundred + RawMax \div 2
    <3>1. n * Hundred \in Nat /\ n * Hundred <= RawMax * Hundred  OBVIOUS
    <3>2. RawMax * (Hundred + 1) = RawMax * Hundred + RawMax  OBVIOUS
    <3>3. x \in Nat /\ x < RawMax * (Hundred + 1)
      <4>1. PICK a : a = n * Hundred  OBVIOUS
      <4>2. PICK b : b = RawMax * Hundred  OBVIOUS
      <4>3. RawMax \div 2 < RawMax /\ RawMax \div 2 \in Nat  OBVIOUS
      <4>4. b \in Int  BY <4>2
      <4> QED  BY <3>1, <3>2, <4>1, <4>2, <4>3, <4>4
    <3> HIDE DEF x
    <3>4. PICK q : q = x \div RawMax  OBVIOUS
    <3>5. q \in Nat /\ RawMax * q <= x
      <4>1. \A y \in Nat : y \div RawMax \in Nat /\ RawMax * (y \div RawMax) <= y  OBVIOUS
      <4> QED  BY <4>1, <3>4, <3>3
    <3>6. q < Hundred + 1
      <4> SUFFICES ASSUME Hundred + 1 <= q PROVE FALSE  BY <3>5
      <4>1. RawMax * (Hundred + 1) <= RawMax * q  BY <3>5
      <4>2. RawMax * q \in Int /\ RawMax * (Hundred + 1) \in Int  BY <3>5
      <4> QED  BY <4>1, <4>2, <3>3, <3>5
    <3> QED  BY <3>4, <3>5, <3>6 DEF Edit!ToPercent, x
  <2>3. raw[2] = n  BY <2>1
  <2>4. Edit!Parse("scaled", raw) = <<"percent", Edit!ToPercent(n)>>
    BY Zenon, <2>1, <2>3, ParseOf
  <2> QED  BY <1>2, <2>2, <2>4 DEF IsValue
<1>3. CASE k = "int"
  <2>1. PICK n \in IntMin .. IntMax : raw = <<"num", n>>  BY <1>3, RawsOf
  <2> QED  BY <1>3, <2>1, ParseOf DEF IsValue
<1>4. CASE k = "enum"
  <2>1. PICK n \in 0 .. Variants - 1 : raw = <<"num", n>>  BY <1>4, RawsOf
  <2>2. n < Variants  OBVIOUS
  <2> QED  BY Zenon, <1>4, <2>1, <2>2, ParseOf DEF IsValue
<1>5. CASE k = "toggle"
  <2>1. PICK n \in 0 .. 1 : raw = <<"num", n>>  BY <1>5, RawsOf
  <2>a. raw[2] = n /\ n \in {0, 1}  BY <2>1
  <2>2. Edit!Parse("toggle", raw) = <<"bool", n = 1>>  BY Zenon, <2>1, <2>a, ParseOf
  <2>3. (n = 1) \in BOOLEAN  OBVIOUS
  <2> QED  BY Zenon, <1>5, <2>2, <2>3 DEF IsValue
<1>6. CASE k = "text"
  <2>1. PICK n \in 0 .. TextLen : raw = <<"text", n>>  BY <1>6, RawsOf
  <2> QED  BY <1>6, <2>1, ParseOf DEF IsValue
<1>7. CASE k = "curve"
  <2>1. PICK n \in 0 .. 2 : raw = <<"loaded", n>>  BY <1>7, RawsOf
  <2>2. raw[1] = "loaded" /\ raw[2] = n  BY <2>1
  <2>3. CASE n = 0
    <3>1. Edit!CurveRead(raw) = <<"curve", 0>>  BY <2>2, <2>3 DEF Edit!CurveRead
    <3> QED  BY Zenon, <3>1, <1>7, ParseOf DEF IsValue
  <2>4. CASE n > 0
    <3>1. Edit!CurveRead(raw) = <<"curveLoaded", n>> /\ n \in 1 .. 2
      BY <2>2, <2>4 DEF Edit!CurveRead
    <3> QED  BY Zenon, <3>1, <1>7, ParseOf DEF IsValue
  <2> QED  BY <2>3, <2>4
<1>8. CASE k = "pair"
  <2>1. PICK a \in 0 .. Hundred, b \in 0 .. Hundred : raw = <<"pair", a, b>>
          /\ a + b < Hundred
    BY <1>8, RawsOf
  <2> QED  BY <1>8, <2>1, ParseOf DEF IsValue
<1>9. CASE k = "slots"
  <2>1. PICK f \in [1 .. NameSlots -> 0 .. TextLen] : raw = <<"names", f>>  BY <1>9, RawsOf
  <2> QED  BY <1>9, <2>1, ParseOf DEF IsValue
<1> QED  BY <1>1, <1>2, <1>3, <1>4, <1>5, <1>6, <1>7, <1>8, <1>9 DEF Edit!Kinds

\* What the editor can hold: a value of the setting's kind, or a slot's name.
IsDraft(k, v) ==
  \/ k # "slots" /\ IsValue(k, v)
  \/ k = "slots" /\ \E s \in 1 .. NameSlots, n \in 0 .. TextLen : v = <<"name", s, n>>

\* v was written, and r is what reads back.
Landed(v, r) ==
  \/ v[1] = "name" /\ r[2][v[2]] = v[3]
  \/ v[1] = "curve" /\ v[2] = 0 /\ r = <<"curve", 0>>
  \/ v[1] \notin {"name", "curve"} /\ r = v

\* The driver's side of a write that is neither a curve nor a rename.
LEMMA StoredPlain ==
  /\ \A n : Edit!Stored(<<"num", n>>) = <<"num", n>>
  /\ \A n : Edit!Stored(<<"text", n>>) = <<"text", n>>
  /\ \A a, b : Edit!Stored(<<"pair", a, b>>) = <<"pair", a, b>>
  /\ \A n : Edit!Stored(<<"points", n>>) = <<"loaded", n>>
  /\ \A a, b : Edit!Stored(<<"rename", a, b>>) = <<"names", [wheel[2] EXCEPT ![a] = b]>>
<1>0. \A s, x, y : <<s, x>>[1] = s /\ <<s, x>>[2] = x /\ <<s, x, y>>[1] = s
                   /\ <<s, x, y>>[2] = x /\ <<s, x, y>>[3] = y
  OBVIOUS
<1>1. \A n : Edit!Stored(<<"num", n>>) = <<"num", n>>  BY Zenon, <1>0 DEF Edit!Stored
<1>2. \A n : Edit!Stored(<<"text", n>>) = <<"text", n>>  BY Zenon, <1>0 DEF Edit!Stored
<1>3. \A a, b : Edit!Stored(<<"pair", a, b>>) = <<"pair", a, b>>
  BY Zenon, <1>0 DEF Edit!Stored
<1>4. \A n : Edit!Stored(<<"points", n>>) = <<"loaded", n>>  BY Zenon, <1>0 DEF Edit!Stored
<1>5. \A a, b : Edit!Stored(<<"rename", a, b>>) = <<"names", [wheel[2] EXCEPT ![a] = b]>>
  BY Zenon, <1>0 DEF Edit!Stored
<1> QED  BY Zenon, <1>1, <1>2, <1>3, <1>4, <1>5

\* A value the checks let through is one the attribute holds, and reads as.
LEMMA WriteReads ==
  ASSUME Edit!EditAssumption, NEW k \in Edit!Kinds, wheel \in Edit!Raws(k), NEW v,
           IsDraft(k, v), Edit!Validate(k, v)
  PROVE  Edit!Stored(Edit!Format(k, v)) \in Edit!Raws(k)
           /\ Landed(v, Edit!Parse(k, Edit!Stored(Edit!Format(k, v))))
<1> USE DEF Edit!EditAssumption
<1>0. \A s, x, y : <<s, x>>[1] = s /\ <<s, x>>[2] = x /\ <<s, x, y>>[1] = s
                   /\ <<s, x, y>>[2] = x /\ <<s, x, y>>[3] = y
  OBVIOUS
<1>1. CASE k = "percent"
  <2>1. PICK n \in 0 .. Hundred : v = <<"percent", n>>  BY <1>1 DEF IsDraft, IsValue
  <2>2. Edit!Stored(Edit!Format(k, v)) = <<"num", n>>  BY <1>1, <2>1, FormatOf, StoredPlain
  <2>3. Edit!Parse(k, <<"num", n>>) = v  BY <1>0, <1>1, <2>1, ParseOf
  <2>4. v[1] \notin {"name", "curve"}  BY <2>1
  <2>5. <<"num", n>> \in Edit!Raws(k)  BY <1>1, RawsOf
  <2> QED  BY Zenon, <2>2, <2>3, <2>4, <2>5 DEF Landed
<1>2. CASE k = "scaled"
  <2>1. PICK n \in 0 .. Hundred : v = <<"percent", n>>  BY <1>2 DEF IsDraft, IsValue
  <2>2. Edit!Stored(Edit!Format(k, v)) = <<"num", Edit!ToRaw(n)>>
    BY <1>2, <2>1, FormatOf, StoredPlain
  <2>3. Edit!Parse(k, <<"num", Edit!ToRaw(n)>>) = v
    BY <1>0, <1>2, <2>1, ParseOf, PercentRoundTrip
  <2>4. v[1] \notin {"name", "curve"}  BY <2>1
  <2>5. <<"num", Edit!ToRaw(n)>> \in Edit!Raws(k)  BY <1>2, RawsOf, PercentRoundTrip
  <2> QED  BY Zenon, <2>2, <2>3, <2>4, <2>5 DEF Landed
<1>3. CASE k = "int"
  <2>1. PICK n \in IntMin .. IntMax : v = <<"int", n>>  BY <1>3 DEF IsDraft, IsValue
  <2>2. Edit!Stored(Edit!Format(k, v)) = <<"num", n>>  BY <1>3, <2>1, FormatOf, StoredPlain
  <2>3. Edit!Parse(k, <<"num", n>>) = v  BY <1>0, <1>3, <2>1, ParseOf
  <2>4. v[1] \notin {"name", "curve"}  BY <2>1
  <2>5. <<"num", n>> \in Edit!Raws(k)  BY <1>3, RawsOf
  <2> QED  BY Zenon, <2>2, <2>3, <2>4, <2>5 DEF Landed
<1>4. CASE k = "enum"
  <2>1. PICK n \in 0 .. Variants - 1 : v = <<"enum", n>>  BY <1>4 DEF IsDraft, IsValue
  <2>2. Edit!Stored(Edit!Format(k, v)) = <<"num", n>>  BY <1>4, <2>1, FormatOf, StoredPlain
  <2>a. n < Variants  OBVIOUS
  <2>3. Edit!Parse(k, <<"num", n>>) = v  BY <1>0, <1>4, <2>1, <2>a, ParseOf
  <2>4. v[1] \notin {"name", "curve"}  BY <2>1
  <2>5. <<"num", n>> \in Edit!Raws(k)  BY <1>4, RawsOf
  <2> QED  BY Zenon, <2>2, <2>3, <2>4, <2>5 DEF Landed
<1>5. CASE k = "toggle"
  <2>1. PICK b \in BOOLEAN : v = <<"bool", b>>  BY Zenon, <1>5 DEF IsDraft, IsValue
  <2>2. PICK n : n = IF b THEN 1 ELSE 0  OBVIOUS
  <2>3. Edit!Stored(Edit!Format(k, v)) = <<"num", n>>
    BY <1>5, <2>1, <2>2, FormatOf, StoredPlain
  <2>a. n \in {0, 1}  BY <2>2
  <2>b. (n = 1) = b
    <3>1. 0 # 1  OBVIOUS
    <3> QED  BY Zenon, <3>1, <2>1, <2>2
  <2>4. Edit!Parse(k, <<"num", n>>) = <<"bool", n = 1>>  BY Zenon, <1>5, <2>a, ParseOf
  <2>5. v[1] \notin {"name", "curve"}
    <3>1. v[1] = "bool"  BY Zenon, <2>1, <1>0
    <3> QED  BY <3>1
  <2>6. <<"num", n>> \in Edit!Raws(k)
    <3>1. n \in 0 .. 1  BY <2>a
    <3> QED  BY Zenon, <3>1, <1>5, RawsOf
  <2> QED  BY Zenon, <2>1, <2>b, <2>3, <2>4, <2>5, <2>6 DEF Landed
<1>6. CASE k = "text"
  <2>1. PICK n \in 0 .. TextLen : v = <<"text", n>>  BY <1>6 DEF IsDraft, IsValue
  <2>2. Edit!Stored(Edit!Format(k, v)) = <<"text", n>>  BY <1>6, <2>1, FormatOf, StoredPlain
  <2>a. n <= TextLen  OBVIOUS
  <2>3. Edit!Parse(k, <<"text", n>>) = v  BY <1>0, <1>6, <2>1, <2>a, ParseOf
  <2>4. v[1] \notin {"name", "curve"}  BY <2>1
  <2>5. <<"text", n>> \in Edit!Raws(k)  BY <1>6, RawsOf
  <2> QED  BY Zenon, <2>2, <2>3, <2>4, <2>5 DEF Landed
<1>7. CASE k = "curve"
  <2>1. v = <<"curve", 0>>
    <3>1. CASE \E n \in 1 .. 2 : v = <<"curveLoaded", n>>
      <4>1. Edit!Format(k, v) = Edit!Invalid  BY <1>7, <3>1, FormatOf
      <4> QED  BY Zenon, <4>1, <1>7 DEF Edit!Validate
    <3> QED  BY <3>1, <1>7 DEF IsDraft, IsValue
  <2>2. Edit!Stored(Edit!Format(k, v)) = <<"loaded", 0>>
    BY <1>7, <2>1, FormatOf, StoredPlain
  <2>3. Edit!CurveRead(<<"loaded", 0>>) = <<"curve", 0>>  BY DEF Edit!CurveRead
  <2>4. Edit!Parse(k, <<"loaded", 0>>) = <<"curve", 0>>  BY <2>3, <1>7, ParseOf
  <2>5. <<"loaded", 0>> \in Edit!Raws(k)  BY <1>7, RawsOf
  <2> QED  BY Zenon, <1>0, <2>1, <2>2, <2>4, <2>5 DEF Landed
<1>8. CASE k = "pair"
  <2>1. PICK a \in 0 .. Hundred, b \in 0 .. Hundred : a + b < Hundred
          /\ v = <<"pair", a, b>>
    BY <1>8 DEF IsDraft, IsValue
  <2>2. Edit!Stored(Edit!Format(k, v)) = <<"pair", a, b>>
    BY <1>8, <2>1, FormatOf, StoredPlain
  <2>3. Edit!Parse(k, <<"pair", a, b>>) = v  BY <1>0, <1>8, <2>1, ParseOf
  <2>4. v[1] \notin {"name", "curve"}  BY <2>1
  <2>5. <<"pair", a, b>> \in Edit!Raws(k)
    <3>1. <<a, b>> \in (0 .. Hundred) \X (0 .. Hundred) /\ <<a, b>>[1] = a
            /\ <<a, b>>[2] = b
      OBVIOUS
    <3> QED  BY <3>1, <2>1, <1>8, RawsOf
  <2> QED  BY Zenon, <2>2, <2>3, <2>4, <2>5 DEF Landed
<1>9. CASE k = "slots"
  <2>1. PICK s \in 1 .. NameSlots, n \in 0 .. TextLen : v = <<"name", s, n>>
    BY <1>9 DEF IsDraft
  <2>2. PICK f \in [1 .. NameSlots -> 0 .. TextLen] : wheel = <<"names", f>>
    BY <1>9, RawsOf
  <2>3. PICK g : g = [f EXCEPT ![s] = n]  OBVIOUS
  <2>4. Edit!Stored(Edit!Format(k, v)) = <<"names", g>>
    <3>1. Edit!Format(k, v) = <<"rename", s, n>>  BY <1>9, <2>1, FormatOf
    <3>2. wheel[2] = f  BY <2>2
    <3> QED  BY Zenon, <3>1, <3>2, <2>3, StoredPlain
  <2>5. g \in [1 .. NameSlots -> 0 .. TextLen] /\ g[s] = n  BY <2>3
  <2>6. Edit!Parse(k, <<"names", g>>) = <<"names", g>>  BY <1>0, <1>9, ParseOf
  <2>7. <<"names", g>> \in Edit!Raws(k)  BY Zenon, <2>5, <1>9, RawsOf
  <2>8. v[1] = "name" /\ v[2] = s /\ v[3] = n  BY <2>1
  <2>9. <<"names", g>>[2] = g  OBVIOUS
  <2> QED  BY Zenon, <2>4, <2>5, <2>6, <2>7, <2>8, <2>9 DEF Landed
<1> QED  BY <1>1, <1>2, <1>3, <1>4, <1>5, <1>6, <1>7, <1>8, <1>9 DEF Edit!Kinds

\* A value the arrows can be on passes the checks of a commit.
LEMMA ValuesValid ==
  ASSUME Edit!EditAssumption, NEW k \in Edit!Kinds \ {"text", "slots", "curve"}, NEW v,
           IsValue(k, v)
  PROVE  Edit!Validate(k, v)
<1> USE DEF Edit!EditAssumption
<1>0. \A s, x, y : <<s, x>>[1] = s /\ <<s, x>>[2] = x /\ <<s, x, y>>[1] = s
                   /\ <<s, x, y>>[2] = x /\ <<s, x, y>>[3] = y
  OBVIOUS
<1>z. /\ \A s, x : <<s, x>> # Edit!Invalid
      /\ \A s, x, y : <<s, x, y>> # Edit!Invalid
  BY DEF Edit!Invalid
<1>1. CASE k = "percent"
  <2>1. PICK n \in 0 .. Hundred : v = <<"percent", n>>  BY <1>1 DEF IsValue
  <2>2. Edit!Format(k, v) = <<"num", n>>  BY <1>1, <2>1, FormatOf
  <2>3. Edit!Parse(k, <<"num", n>>) = v  BY <1>0, <1>1, <2>1, ParseOf
  <2> QED  BY Zenon, <1>1, <1>z, <2>1, <2>2, <2>3 DEF Edit!Validate
<1>2. CASE k = "scaled"
  <2>1. PICK n \in 0 .. Hundred : v = <<"percent", n>>  BY <1>2 DEF IsValue
  <2>2. Edit!Format(k, v) = <<"num", Edit!ToRaw(n)>>  BY <1>2, <2>1, FormatOf
  <2>3. Edit!Parse(k, <<"num", Edit!ToRaw(n)>>) = v
    BY <1>0, <1>2, <2>1, ParseOf, PercentRoundTrip
  <2> QED  BY Zenon, <1>2, <1>z, <2>1, <2>2, <2>3 DEF Edit!Validate
<1>3. CASE k = "int"
  <2>1. PICK n \in IntMin .. IntMax : v = <<"int", n>>  BY <1>3 DEF IsValue
  <2>2. Edit!Format(k, v) = <<"num", n>>  BY <1>3, <2>1, FormatOf
  <2>3. Edit!Parse(k, <<"num", n>>) = v  BY <1>0, <1>3, <2>1, ParseOf
  <2> QED  BY Zenon, <1>3, <1>z, <2>1, <2>2, <2>3 DEF Edit!Validate
<1>4. CASE k = "enum"
  <2>1. PICK n \in 0 .. Variants - 1 : v = <<"enum", n>>  BY <1>4 DEF IsValue
  <2>2. Edit!Format(k, v) = <<"num", n>>  BY <1>4, <2>1, FormatOf
  <2>a. n < Variants  OBVIOUS
  <2>3. Edit!Parse(k, <<"num", n>>) = v  BY <1>0, <1>4, <2>1, <2>a, ParseOf
  <2> QED  BY Zenon, <1>4, <1>z, <2>1, <2>2, <2>3 DEF Edit!Validate
<1>5. CASE k = "toggle"
  <2>1. PICK b \in BOOLEAN : v = <<"bool", b>>  BY Zenon, <1>5 DEF IsValue
  <2>2. PICK n : n = IF b THEN 1 ELSE 0  OBVIOUS
  <2>3. Edit!Format(k, v) = <<"num", n>>  BY <1>5, <2>1, <2>2, FormatOf
  <2>a. n \in {0, 1}  BY <2>2
  <2>4. Edit!Parse(k, <<"num", n>>) = <<"bool", n = 1>>  BY Zenon, <1>5, <2>a, ParseOf
  <2>5. <<"num", n>> # Edit!Invalid  BY Zenon, <1>z
  <2>6. <<"bool", n = 1>> # Edit!Invalid  BY Zenon, <1>z
  <2>7. k # "slots"  BY <1>5
  <2> QED  BY Zenon, <2>3, <2>4, <2>5, <2>6, <2>7 DEF Edit!Validate
<1>8. CASE k = "pair"
  <2>1. PICK a \in 0 .. Hundred, b \in 0 .. Hundred : a + b < Hundred
          /\ v = <<"pair", a, b>>
    BY <1>8 DEF IsValue
  <2>2. Edit!Format(k, v) = <<"pair", a, b>>  BY <1>8, <2>1, FormatOf
  <2>3. Edit!Parse(k, <<"pair", a, b>>) = v  BY <1>0, <1>8, <2>1, ParseOf
  <2> QED  BY Zenon, <1>8, <1>z, <2>1, <2>2, <2>3 DEF Edit!Validate
<1> QED  BY <1>1, <1>2, <1>3, <1>4, <1>5, <1>8 DEF Edit!Kinds

\* The arrows stay within what the kind allows.
LEMMA BumpKeeps ==
  ASSUME Edit!EditAssumption, NEW k \in Edit!Kinds \ {"text", "slots", "curve"}, NEW v,
           IsValue(k, v),
         NEW d \in {-1, 1}
  PROVE  IsValue(k, Edit!Bumped(v, d))
<1> USE DEF Edit!EditAssumption
<1>0. \A s, x, y : <<s, x>>[1] = s /\ <<s, x>>[2] = x /\ <<s, x, y>>[1] = s
                   /\ <<s, x, y>>[2] = x /\ <<s, x, y>>[3] = y
  OBVIOUS
<1>c. \A x, lo, hi \in Int : lo <= hi => Edit!Clamp(x, lo, hi) \in lo .. hi
  BY DEF Edit!Clamp
<1>1. CASE k \in {"percent", "scaled"}
  <2>1. PICK n \in 0 .. Hundred : v = <<"percent", n>>  BY <1>1 DEF IsValue
  <2>2. Edit!Bumped(v, d) = <<"percent", Edit!Clamp(n + d, 0, Hundred)>>
    BY Zenon, <1>0, <2>1 DEF Edit!Bumped
  <2>3. Edit!Clamp(n + d, 0, Hundred) \in 0 .. Hundred  BY <1>c
  <2> QED  BY Zenon, <1>1, <2>2, <2>3 DEF IsValue
<1>2. CASE k = "int"
  <2>1. PICK n \in IntMin .. IntMax : v = <<"int", n>>  BY <1>2 DEF IsValue
  <2>2. Edit!Bumped(v, d) = <<"int", Edit!Clamp(n + d * IntStep, IntMin, IntMax)>>
    BY Zenon, <1>0, <2>1 DEF Edit!Bumped
  <2>3. Edit!Clamp(n + d * IntStep, IntMin, IntMax) \in IntMin .. IntMax
    <3>1. n + d * IntStep \in Int /\ IntMin <= IntMax  OBVIOUS
    <3> QED  BY <1>c, <3>1
  <2> QED  BY Zenon, <1>2, <2>2, <2>3 DEF IsValue
<1>3. CASE k = "enum"
  <2>1. PICK n \in 0 .. Variants - 1 : v = <<"enum", n>>  BY <1>3 DEF IsValue
  <2>2. Edit!Bumped(v, d) = <<"enum", (n + d) % Variants>>
    BY Zenon, <1>0, <2>1 DEF Edit!Bumped
  <2>3. (n + d) % Variants \in 0 .. Variants - 1  OBVIOUS
  <2> QED  BY Zenon, <1>3, <2>2, <2>3 DEF IsValue
<1>4. CASE k = "toggle"
  <2>1. PICK b \in BOOLEAN : v = <<"bool", b>>  BY Zenon, <1>4 DEF IsValue
  <2>2. Edit!Bumped(v, d) = <<"bool", ~b>>  BY Zenon, <1>0, <2>1 DEF Edit!Bumped
  <2>3. (~b) \in BOOLEAN  OBVIOUS
  <2> QED  BY Zenon, <1>4, <2>2, <2>3 DEF IsValue
<1>5. CASE k = "pair"
  <2>1. PICK a \in 0 .. Hundred, b \in 0 .. Hundred : a + b < Hundred
          /\ v = <<"pair", a, b>>
    BY <1>5 DEF IsValue
  <2>2. Edit!Bumped(v, d) = Edit!PairBumped(v, edit.slot, d)
    BY Zenon, <1>0, <2>1 DEF Edit!Bumped
  <2>3. PICK x, y : Edit!PairBumped(v, edit.slot, d) = <<"pair", x, y>>
                    /\ x \in 0 .. Hundred /\ y \in 0 .. Hundred /\ x + y < Hundred
    <3>1. Edit!Clamp(a + d, 0, Hundred - 1 - b) \in 0 .. Hundred - 1 - b
      BY <2>1 DEF Edit!Clamp
    <3>2. Edit!Clamp(b + d, 0, Hundred - 1 - a) \in 0 .. Hundred - 1 - a
      BY <2>1 DEF Edit!Clamp
    <3>3. CASE edit.slot = 2
      <4>1. Edit!PairBumped(v, edit.slot, d)
              = <<"pair", a, Edit!Clamp(b + d, 0, Hundred - 1 - a)>>
        BY <3>3, <2>1 DEF Edit!PairBumped
      <4> QED  BY <4>1, <3>2, <2>1
    <3>4. CASE edit.slot # 2
      <4>1. Edit!PairBumped(v, edit.slot, d)
              = <<"pair", Edit!Clamp(a + d, 0, Hundred - 1 - b), b>>
        BY <3>4, <2>1 DEF Edit!PairBumped
      <4> QED  BY <4>1, <3>1, <2>1
    <3> QED  BY <3>3, <3>4
  <2> QED  BY Zenon, <1>5, <2>2, <2>3 DEF IsValue
<1> QED  BY <1>1, <1>2, <1>3, <1>4, <1>5 DEF Edit!Kinds

\* The inline editor holds something of the setting's kind.
EditorHolds ==
  /\ edit.open \in BOOLEAN /\ edit.slot \in 1 .. (IF NameSlots > 2 THEN NameSlots ELSE 2)
  /\ edit = [open |-> edit.open, draft |-> edit.draft, names |-> edit.names, slot |-> edit.slot]
  /\ edit.open =>
       /\ kind # "curve" /\ IsDraft(kind, edit.draft)
       /\ kind = "slots" => edit.slot \in 1 .. NameSlots
            /\ edit.names \in [1 .. NameSlots -> 0 .. TextLen]
       /\ kind # "slots" => edit.slot \in 1 .. 2

\* The profile's line is one the attribute takes; a curve's says "no curve"
\* only when none was loaded.
LineHolds ==
  \/ file \in {Edit!NoFile, Edit!Skipped}
  \/ kind \notin {"slots", "curve"} /\ file \in Edit!Raws(kind)
  \/ kind = "curve" /\ file = <<"points", 0>> /\ saved[2] = 0

WriteStands == wrote = Edit!NoFile \/ Landed(wrote, Edit!Read)

EditInv ==
  /\ kind \in Edit!Kinds /\ wheel \in Edit!Raws(kind) /\ outside \in 0 .. MaxOutside
  /\ IsValue(kind, row) /\ EditorHolds /\ LineHolds /\ WriteStands

LEMMA EditStarts ==
  ASSUME Edit!EditAssumption, Edit!Init
  PROVE  EditInv
<1> USE DEF Edit!EditAssumption
<1>1. IsValue(kind, row)  BY ParseTyped DEF Edit!Init, Edit!Read
<1>2. EditorHolds  BY DEF Edit!Init, EditorHolds, Edit!Closed
<1> QED  BY <1>1, <1>2 DEF Edit!Init, EditInv, LineHolds, WriteStands

\* A closed editor holds nothing.
LEMMA EditorClosed ==
  ASSUME Edit!EditAssumption, edit' = Edit!Closed
  PROVE  EditorHolds'
BY DEF EditorHolds, Edit!Closed, Edit!EditAssumption

\* Enter and profiles::apply_line: the checked write.
LEMMA CheckedWrite ==
  ASSUME Edit!EditAssumption, EditInv, NEW v, IsDraft(kind, v), Edit!Write(v),
           UNCHANGED kind
  PROVE  wheel' \in Edit!Raws(kind') /\ IsValue(kind', row') /\ WriteStands'
<1>1. CASE Edit!Validate(kind, v)
  <2>1. wheel' = Edit!Stored(Edit!Format(kind, v)) /\ wrote' = v  BY <1>1 DEF Edit!Write
  <2>2. wheel' \in Edit!Raws(kind) /\ Landed(v, Edit!Parse(kind, wheel'))
    BY <1>1, <2>1, WriteReads DEF EditInv
  <2>3. Landed(wrote', Edit!Read')  BY <2>1, <2>2 DEF Edit!Read
  <2>4. IsValue(kind, Edit!Parse(kind, wheel'))  BY <2>2, ParseTyped DEF EditInv
  <2> QED  BY <2>2, <2>3, <2>4 DEF Edit!Write, WriteStands
<1>2. CASE ~Edit!Validate(kind, v)
  <2>1. UNCHANGED <<wheel, wrote>>  BY <1>2 DEF Edit!Write
  <2>2. Edit!Read' = Edit!Read  BY <2>1 DEF Edit!Read
  <2>3. IsValue(kind, Edit!Parse(kind, wheel'))  BY <2>1, ParseTyped DEF EditInv
  <2> QED  BY <2>1, <2>2, <2>3 DEF Edit!Write, WriteStands, EditInv
<1> QED  BY <1>1, <1>2

\* A step that leaves the attribute, the row and the profile alone.
LEMMA EditorOnly ==
  ASSUME EditInv, UNCHANGED <<kind, wheel, row, file, saved, wrote, outside>>, EditorHolds'
  PROVE  EditInv'
<1>1. Edit!Read' = Edit!Read  BY DEF Edit!Read
<1>2. LineHolds' /\ WriteStands'  BY <1>1 DEF EditInv, LineHolds, WriteStands
<1> QED  BY <1>2 DEF EditInv

\* Every operation keeps it.
LEMMA EditSteps ==
  ASSUME Edit!EditAssumption, EditInv, [Edit!Next]_(Edit!vars)
  PROVE  EditInv'
<1> USE DEF Edit!EditAssumption
<1>i. /\ kind \in Edit!Kinds /\ wheel \in Edit!Raws(kind) /\ outside \in 0 .. MaxOutside
      /\ IsValue(kind, row) /\ EditorHolds /\ LineHolds /\ WriteStands
  BY DEF EditInv
<1>1. CASE Edit!Outside
  <2>1. UNCHANGED <<kind, row, file, saved, edit>> /\ wrote' = Edit!NoFile
          /\ wheel' \in Edit!Raws(kind)
        /\ outside' \in 0 .. MaxOutside
    BY <1>1, <1>i DEF Edit!Outside
  <2>2. EditorHolds' /\ LineHolds' /\ WriteStands'
    BY <2>1, <1>i DEF EditorHolds, LineHolds, WriteStands
  <2> QED  BY <2>1, <2>2, <1>i DEF EditInv
<1>2. CASE Edit!Reload
  <2>1. UNCHANGED <<kind, wheel, file, saved, edit, wrote, outside>> /\ row' = Edit!Read
    BY <1>2 DEF Edit!Reload
  <2>2. Edit!Read' = Edit!Read  BY <2>1 DEF Edit!Read
  <2>3. EditorHolds' /\ LineHolds' /\ WriteStands'
    BY <2>1, <2>2, <1>i DEF EditorHolds, LineHolds, WriteStands
  <2>4. IsValue(kind, Edit!Read)  BY <1>i, ParseTyped DEF Edit!Read
  <2> QED  BY <2>1, <2>3, <2>4, <1>i DEF EditInv
<1>3. CASE Edit!BeginEdit
  <2>1. ~edit.open /\ kind # "curve"
          /\ UNCHANGED <<kind, wheel, row, file, saved, wrote, outside>>
    BY <1>3 DEF Edit!BeginEdit
  <2>2. CASE kind = "slots"
    <3>1. PICK f \in [1 .. NameSlots -> 0 .. TextLen] : row = <<"names", f>>
      BY <2>2, <1>i DEF IsValue
    <3>2. edit' = [open |-> TRUE, slot |-> 1, names |-> f, draft |-> <<"name", 1, f[1]>>]
      BY <3>1, <2>2, <1>3 DEF Edit!BeginEdit, Edit!SlotName
    <3>3. f[1] \in 0 .. TextLen /\ 1 \in 1 .. NameSlots  OBVIOUS
    <3>4. IsDraft(kind, <<"name", 1, f[1]>>)  BY <3>3, <2>2 DEF IsDraft
    <3>5. EditorHolds'  BY <3>2, <3>3, <3>4, <2>1, <2>2 DEF EditorHolds
    <3> QED  BY <3>5, <2>1, EditorOnly
  <2>3. CASE kind # "slots"
    <3>1. edit' = [open |-> TRUE, slot |-> 1, names |-> Edit!NoFile, draft |-> row]
      BY <2>3, <1>3 DEF Edit!BeginEdit
    <3>2. IsDraft(kind, row)  BY <1>i, <2>3 DEF IsDraft
    <3>3. EditorHolds'  BY <3>1, <3>2, <2>1, <2>3 DEF EditorHolds
    <3> QED  BY <3>3, <2>1, EditorOnly
  <2> QED  BY <2>2, <2>3
<1>4. ASSUME NEW d \in {-1, 1}, Edit!Bump(d) PROVE EditInv'
  <2>1. edit.open /\ UNCHANGED <<kind, wheel, row, file, saved, wrote, outside>>
    BY <1>4 DEF Edit!Bump
  <2>2. CASE kind = "slots"
    <3>1. PICK s : s = ((edit.slot - 1 + d) % NameSlots) + 1  OBVIOUS
    <3>2. edit' = [edit EXCEPT !.slot = s, !.draft = Edit!SlotName(edit.names, s)]
      BY <3>1, <2>2, <1>4 DEF Edit!Bump
    <3>3. edit.slot \in 1 .. NameSlots /\ edit.names \in [1 .. NameSlots -> 0 .. TextLen]
      BY <2>1, <2>2, <1>i DEF EditorHolds
    <3>4. s \in 1 .. NameSlots  BY <3>1, <3>3
    <3>5. IsDraft(kind, Edit!SlotName(edit.names, s))
      BY <3>3, <3>4, <2>2 DEF IsDraft, Edit!SlotName
    <3>6. edit' = [open |-> TRUE, draft |-> Edit!SlotName(edit.names, s), names |-> edit.names, slot |-> s]
      BY <3>2, <2>1, <1>i DEF EditorHolds
    <3>7. EditorHolds'  BY <3>3, <3>4, <3>5, <3>6, <2>1, <2>2 DEF EditorHolds
    <3> QED  BY <3>7, <2>1, EditorOnly
  <2>3. CASE kind # "slots"
    <3>1. edit' = [edit EXCEPT !.draft = Edit!Bumped(edit.draft, d)]
      BY <2>3, <1>4 DEF Edit!Bump
    <3>2. kind # "curve" /\ IsValue(kind, edit.draft)
      BY <2>1, <2>3, <1>i DEF EditorHolds, IsDraft
    <3>3. IsValue(kind, Edit!Bumped(edit.draft, d))
      <4>1. CASE kind = "text"
        <5>1. PICK n \in 0 .. TextLen : edit.draft = <<"text", n>>
          BY <3>2, <4>1 DEF IsValue
        <5>2. edit.draft[1] = "text"  BY <5>1
        <5>3. Edit!Bumped(edit.draft, d) = edit.draft  BY Zenon, <5>2 DEF Edit!Bumped
        <5> QED  BY <5>3, <3>2
      <4>2. CASE kind # "text"
        <5>1. kind \in Edit!Kinds \ {"text", "slots", "curve"}  BY <4>2, <3>2, <2>3, <1>i
        <5> QED  BY <5>1, <3>2, BumpKeeps
      <4> QED  BY <4>1, <4>2
    <3>4. PICK b : b = Edit!Bumped(edit.draft, d)  OBVIOUS
    <3>5. edit' = [open |-> TRUE, draft |-> b, names |-> edit.names, slot |-> edit.slot]
      BY <3>1, <3>4, <2>1, <1>i DEF EditorHolds
    <3>6. IsDraft(kind, b)  BY <3>3, <3>4, <2>3 DEF IsDraft
    <3>7. EditorHolds'  BY <3>2, <3>5, <3>6, <2>1, <2>3, <1>i DEF EditorHolds
    <3> QED  BY <3>7, <2>1, EditorOnly
  <2> QED  BY <2>2, <2>3
<1>5. CASE Edit!SelectPart
  <2>1. edit.open /\ kind = "pair"
          /\ UNCHANGED <<kind, wheel, row, file, saved, wrote, outside>>
        /\ edit' = [edit EXCEPT !.slot = 3 - edit.slot]
    BY <1>5 DEF Edit!SelectPart
  <2>2. edit.slot \in 1 .. 2  BY <2>1, <1>i DEF EditorHolds
  <2>3. edit' = [open |-> TRUE, draft |-> edit.draft, names |-> edit.names, slot |-> 3 - edit.slot]
    BY <2>1, <1>i DEF EditorHolds
  <2>a. 3 - edit.slot \in 1 .. 2
          /\ 3 - edit.slot \in 1 .. (IF NameSlots > 2 THEN NameSlots ELSE 2)
    BY <2>2
  <2>b. IsDraft(kind, edit.draft)  BY <2>1, <1>i DEF EditorHolds
  <2>4. EditorHolds'  BY <2>1, <2>a, <2>b, <2>3 DEF EditorHolds
  <2> QED  BY <2>1, <2>4, EditorOnly
<1>6. ASSUME NEW d \in {-1, 1}, Edit!TypeChar(d) PROVE EditInv'
  <2>1. edit.open /\ kind \in {"text", "slots"}
          /\ edit' = [edit EXCEPT !.draft = Edit!Typed(edit.draft, d)]
        /\ UNCHANGED <<kind, wheel, row, file, saved, wrote, outside>>
    BY <1>6 DEF Edit!TypeChar
  <2>2. IsDraft(kind, Edit!Typed(edit.draft, d))
    <3>c. \A n \in 0 .. TextLen : Edit!Clamp(n + d, 0, TextLen) \in 0 .. TextLen
      BY DEF Edit!Clamp
    <3>1. CASE kind = "text"
      <4>1. PICK n \in 0 .. TextLen : edit.draft = <<"text", n>>
        BY <3>1, <2>1, <1>i DEF EditorHolds, IsDraft, IsValue
      <4>2. Len(edit.draft) = 2 /\ edit.draft[2] = n  BY <4>1
      <4>3. PICK c : c = Edit!Clamp(n + d, 0, TextLen)  OBVIOUS
      <4>4. Edit!Typed(edit.draft, d) = [edit.draft EXCEPT ![2] = c]
        BY <4>2, <4>3 DEF Edit!Typed, Edit!Last
      <4>5. [<<"text", n>> EXCEPT ![2] = c] = <<"text", c>>  OBVIOUS
      <4> QED  BY <3>c, <3>1, <4>1, <4>3, <4>4, <4>5 DEF IsDraft, IsValue
    <3>2. CASE kind = "slots"
      <4>1. PICK s \in 1 .. NameSlots, n \in 0 .. TextLen : edit.draft = <<"name", s, n>>
        BY <3>2, <2>1, <1>i DEF EditorHolds, IsDraft
      <4>2. Len(edit.draft) = 3 /\ edit.draft[3] = n  BY <4>1
      <4>3. PICK c : c = Edit!Clamp(n + d, 0, TextLen)  OBVIOUS
      <4>4. Edit!Typed(edit.draft, d) = [edit.draft EXCEPT ![3] = c]
        BY <4>2, <4>3 DEF Edit!Typed, Edit!Last
      <4>5. [<<"name", s, n>> EXCEPT ![3] = c] = <<"name", s, c>>  OBVIOUS
      <4> QED  BY <3>c, <3>2, <4>1, <4>3, <4>4, <4>5 DEF IsDraft
    <3> QED  BY <3>1, <3>2, <2>1
  <2>3. PICK b : b = Edit!Typed(edit.draft, d)  OBVIOUS
  <2>4. edit' = [open |-> TRUE, draft |-> b, names |-> edit.names, slot |-> edit.slot]
    BY <2>1, <2>3, <1>i DEF EditorHolds
  <2>5. IsDraft(kind, b)  BY <2>2, <2>3
  <2>a. edit.slot \in 1 .. (IF NameSlots > 2 THEN NameSlots ELSE 2)  BY <1>i DEF EditorHolds
  <2>b. /\ kind = "slots" => edit.slot \in 1 .. NameSlots
             /\ edit.names \in [1 .. NameSlots -> 0 .. TextLen]
        /\ kind # "slots" => edit.slot \in 1 .. 2
    BY <2>1, <1>i DEF EditorHolds
  <2>c. kind # "curve"  BY <2>1
  <2>d. edit'.open /\ edit'.draft = b /\ edit'.names = edit.names /\ edit'.slot = edit.slot
        /\ edit' = [open |-> edit'.open, draft |-> edit'.draft, names |-> edit'.names,
                    slot |-> edit'.slot]
    BY <2>4
  <2>e. kind' = kind  BY <2>1
  <2>6. EditorHolds'  BY <2>5, <2>a, <2>b, <2>c, <2>d, <2>e DEF EditorHolds
  <2> QED  BY <2>1, <2>6, EditorOnly
<1>7. CASE Edit!Commit
  <2>1. edit.open /\ Edit!Write(edit.draft) /\ edit' = Edit!Closed
          /\ UNCHANGED <<kind, file, saved, outside>>
    BY <1>7 DEF Edit!Commit
  <2>2. PICK v : v = edit.draft  OBVIOUS
  <2>3. IsDraft(kind, v) /\ Edit!Write(v)  BY <2>1, <2>2, <1>i DEF EditorHolds, Edit!Write
  <2>4. wheel' \in Edit!Raws(kind') /\ IsValue(kind', row') /\ WriteStands'
    BY <2>1, <2>3, CheckedWrite
  <2>5. EditorHolds'  BY <2>1, EditorClosed
  <2>6. LineHolds'  BY <2>1, <1>i DEF LineHolds
  <2> QED  BY <2>1, <2>4, <2>5, <2>6, <1>i DEF EditInv
<1>8. CASE Edit!Cancel
  <2>1. edit' = Edit!Closed /\ UNCHANGED <<kind, wheel, row, file, saved, wrote, outside>>
    BY <1>8 DEF Edit!Cancel
  <2> QED  BY <2>1, EditorClosed, EditorOnly
<1>9. CASE Edit!SaveProfile
  <2>1. file' = Edit!Line /\ saved' = wheel
          /\ UNCHANGED <<kind, wheel, row, edit, wrote, outside>>
    BY <1>9 DEF Edit!SaveProfile
  <2>2. LineHolds'
    <3>1. CASE Edit!Line = Edit!Skipped  BY <3>1, <2>1 DEF LineHolds
    <3>2. CASE Edit!Line # Edit!Skipped
      <4>1. kind # "slots" /\ Edit!Line = Edit!Format(kind, Edit!Read)
              /\ Edit!Format(kind, Edit!Read) # Edit!Invalid
        BY <3>2 DEF Edit!Line
      <4>2. IsValue(kind, Edit!Read)  BY <1>i, ParseTyped DEF Edit!Read
      <4>3. CASE kind = "curve"
        <5>1. PICK n \in 0 .. 2 : wheel = <<"loaded", n>>  BY <4>3, <1>i, RawsOf
        <5>2. Edit!Read = Edit!CurveRead(wheel)  BY <4>3, ParseOf DEF Edit!Read
        <5>3. n = 0
          <6> SUFFICES ASSUME n # 0 PROVE FALSE  OBVIOUS
          <6>1. wheel[1] = "loaded" /\ wheel[2] = n /\ n > 0  BY <5>1
          <6>2. Edit!Read = <<"curveLoaded", n>>  BY Zenon, <5>2, <6>1 DEF Edit!CurveRead
          <6>3. Edit!Format(kind, Edit!Read) = Edit!Invalid  BY <4>3, <6>2, FormatOf
          <6> QED  BY <6>3, <4>1
        <5>4. wheel[1] = "loaded" /\ wheel[2] = 0  BY <5>1, <5>3
        <5>5. Edit!Read = <<"curve", 0>>  BY <5>2, <5>4 DEF Edit!CurveRead
        <5>6. Edit!Line = <<"points", 0>>  BY <4>1, <4>3, <5>5, FormatOf
        <5> QED  BY <5>4, <5>6, <4>3, <2>1 DEF LineHolds
      <4>4. CASE kind = "text"
        <5>1. PICK n \in 0 .. TextLen : Edit!Read = <<"text", n>>  BY <4>4, <4>2 DEF IsValue
        <5>2. Edit!Line = <<"text", n>>  BY <4>1, <4>4, <5>1, FormatOf
        <5>3. Edit!Line \in Edit!Raws("text")  BY <5>2, RawsOf
        <5> QED  BY <5>3, <4>4, <2>1 DEF LineHolds
      <4>5. CASE kind \notin {"curve", "text"}
        <5>1. kind \in Edit!Kinds \ {"text", "slots", "curve"}  BY <4>1, <4>5, <1>i
        <5>2. Edit!Validate(kind, Edit!Read)  BY <5>1, <4>2, ValuesValid
        <5>3. IsDraft(kind, Edit!Read)  BY <4>1, <4>2 DEF IsDraft
        <5>4. PICK v : v = Edit!Read  OBVIOUS
        <5>5. Edit!Stored(Edit!Format(kind, v)) \in Edit!Raws(kind)
          BY <5>2, <5>3, <5>4, <1>i, WriteReads
        <5>6. Edit!Stored(Edit!Format(kind, v)) = Edit!Format(kind, v)
          <6>1. CASE kind \in {"percent", "scaled"}
            <7>1. PICK n \in 0 .. Hundred : v = <<"percent", n>>
              BY <6>1, <4>2, <5>4 DEF IsValue
            <7>2. CASE kind = "percent"  BY <7>1, <7>2, FormatOf, StoredPlain
            <7>3. CASE kind = "scaled"  BY <7>1, <7>3, FormatOf, StoredPlain
            <7> QED  BY <6>1, <7>2, <7>3
          <6>2. CASE kind = "int"
            <7>1. PICK n \in IntMin .. IntMax : v = <<"int", n>>
              BY <6>2, <4>2, <5>4 DEF IsValue
            <7> QED  BY <7>1, <6>2, FormatOf, StoredPlain
          <6>3. CASE kind = "enum"
            <7>1. PICK n \in 0 .. Variants - 1 : v = <<"enum", n>>
              BY <6>3, <4>2, <5>4 DEF IsValue
            <7> QED  BY <7>1, <6>3, FormatOf, StoredPlain
          <6>4. CASE kind = "toggle"
            <7>1. PICK b \in BOOLEAN : v = <<"bool", b>>
              BY Zenon, <6>4, <4>2, <5>4 DEF IsValue
            <7>2. PICK n : n = IF b THEN 1 ELSE 0  OBVIOUS
            <7>3. Edit!Format(kind, v) = <<"num", n>>  BY Zenon, <7>1, <7>2, <6>4, FormatOf
            <7> QED  BY <7>3, StoredPlain
          <6>5. CASE kind = "pair"
            <7>1. PICK a \in 0 .. Hundred, b \in 0 .. Hundred : v = <<"pair", a, b>>
              BY <6>5, <4>2, <5>4 DEF IsValue
            <7> QED  BY <7>1, <6>5, FormatOf, StoredPlain
          <6> QED  BY <5>1, <6>1, <6>2, <6>3, <6>4, <6>5 DEF Edit!Kinds
        <5> QED  BY <5>1, <5>4, <5>5, <5>6, <4>1, <2>1 DEF LineHolds
      <4> QED  BY <4>3, <4>4, <4>5
    <3> QED  BY <3>1, <3>2
  <2>3. Edit!Read' = Edit!Read  BY <2>1 DEF Edit!Read
  <2>4. EditorHolds' /\ WriteStands'  BY <2>1, <2>3, <1>i DEF EditorHolds, WriteStands
  <2> QED  BY <2>1, <2>2, <2>4, <1>i DEF EditInv
<1>10. CASE Edit!ApplyProfile
  <2>1. ~edit.open /\ file \notin {Edit!NoFile, Edit!Skipped}
          /\ UNCHANGED <<kind, file, saved, edit, outside>>
    BY <1>10 DEF Edit!ApplyProfile
  <2>2. PICK v : v = Edit!Parse(kind, file)  OBVIOUS
  <2>3. (v = Edit!Invalid /\ UNCHANGED <<wheel, row, wrote>>) \/ Edit!Write(v)
    <3>1. CASE v = Edit!Invalid  BY <3>1, <2>2, <1>10 DEF Edit!ApplyProfile
    <3>2. CASE v # Edit!Invalid  BY <3>2, <2>2, <1>10 DEF Edit!ApplyProfile, Edit!Write
    <3> QED  BY <3>1, <3>2
  <2>4. IsDraft(kind, v)
    <3>1. CASE kind \notin {"slots", "curve"} /\ file \in Edit!Raws(kind)
      BY <3>1, <2>2, <1>i, ParseTyped DEF IsDraft
    <3>2. CASE kind = "curve" /\ file = <<"points", 0>>
      <4>1. file[1] # "loaded" /\ file[2] = 0  BY <3>2
      <4>2. Edit!CurveRead(file) = <<"curve", 0>>  BY <4>1 DEF Edit!CurveRead
      <4>3. v = <<"curve", 0>>  BY <2>2, <3>2, <4>2, ParseOf
      <4> QED  BY <4>3, <3>2 DEF IsDraft, IsValue
    <3> QED  BY <3>1, <3>2, <2>1, <1>i DEF LineHolds
  <2>5. EditorHolds' /\ LineHolds'  BY <2>1, <1>i DEF EditorHolds, LineHolds
  <2>6. CASE UNCHANGED <<wheel, row, wrote>>
    <3>1. Edit!Read' = Edit!Read  BY <2>1, <2>6 DEF Edit!Read
    <3> QED  BY <3>1, <2>1, <2>5, <2>6, <1>i DEF EditInv, WriteStands
  <2>7. CASE Edit!Write(v)
    <3>1. wheel' \in Edit!Raws(kind') /\ IsValue(kind', row') /\ WriteStands'
      BY <2>1, <2>4, <2>7, CheckedWrite
    <3> QED  BY <3>1, <2>1, <2>5, <1>i DEF EditInv
  <2> QED  BY <2>3, <2>6, <2>7
<1>11. CASE UNCHANGED Edit!vars
  <2>1. UNCHANGED <<kind, wheel, row, file, saved, edit, wrote, outside>>
    BY <1>11 DEF Edit!vars
  <2>2. EditorHolds'  BY <2>1, <1>i DEF EditorHolds
  <2> QED  BY <2>1, <2>2, EditorOnly
<1> QED
  BY <1>1, <1>2, <1>3, <1>4, <1>5, <1>6, <1>7, <1>8, <1>9, <1>10, <1>11 DEF Edit!Next

\* What the four properties need of it.
LEMMA EditSound ==
  ASSUME Edit!EditAssumption, EditInv
  PROVE  Edit!TypeOK /\ Edit!ReadsBackAsWritten /\ Edit!LoadedCurveNotErased
           /\ Edit!ArrowsStayValid
<1>1. Edit!TypeOK  BY DEF EditInv, EditorHolds, Edit!TypeOK
<1>2. Edit!ReadsBackAsWritten
  <2> SUFFICES ASSUME wrote # Edit!NoFile PROVE Edit!ReadsBackAsWritten
    BY DEF Edit!ReadsBackAsWritten
  <2>1. Landed(wrote, Edit!Read)  BY DEF EditInv, WriteStands
  <2>2. CASE wrote[1] = "name" /\ Edit!Read[2][wrote[2]] = wrote[3]
    BY Zenon, <2>2 DEF Edit!ReadsBackAsWritten
  <2>3. CASE wrote[1] = "curve" /\ wrote[2] = 0 /\ Edit!Read = <<"curve", 0>>
    BY Zenon, <2>3 DEF Edit!ReadsBackAsWritten
  <2>4. CASE wrote[1] \notin {"name", "curve"} /\ Edit!Read = wrote
    <3>1. wrote[1] # "name" /\ wrote[1] # "curve"  BY <2>4
    <3> QED  BY Zenon, <3>1, <2>4 DEF Edit!ReadsBackAsWritten
  <2> QED  BY <2>1, <2>2, <2>3, <2>4 DEF Landed
<1>3. Edit!LoadedCurveNotErased  BY DEF EditInv, LineHolds, Edit!LoadedCurveNotErased
<1>4. Edit!ArrowsStayValid
  <2> SUFFICES ASSUME edit.open, kind \notin {"text",
                        "slots"} PROVE Edit!Validate(kind, edit.draft)
    BY DEF Edit!ArrowsStayValid
  <2>1. kind \in Edit!Kinds /\ kind # "curve" /\ IsValue(kind, edit.draft)
    BY DEF EditInv, EditorHolds, IsDraft
  <2> QED  BY <2>1, ValuesValid
<1> QED  BY <1>1, <1>2, <1>3, <1>4

(***************************************************************************)
(* The window's page, its caches and the replies on their way to it.       *)
(***************************************************************************)
\* A queue, whatever is in it.
IsLine(s) == \E S : s \in Seq(S)

LEMMA LineJoined ==
  ASSUME NEW s, IsLine(s), NEW t, IsLine(t)
  PROVE  /\ IsLine(s \o t) /\ Len(s \o t) = Len(s) + Len(t) /\ Len(s) \in Nat
              /\ Len(t) \in Nat
         /\ \A i \in 1 .. Len(s) : (s \o t)[i] = s[i]
         /\ \A i \in 1 .. Len(t) : (s \o t)[Len(s) + i] = t[i]
         /\ \A i \in 1 .. Len(s \o t) : i \in 1 .. Len(s) \/ i - Len(s) \in 1 .. Len(t)
<1>1. PICK S : s \in Seq(S)  BY DEF IsLine
<1>2. PICK T : t \in Seq(T)  BY DEF IsLine
<1>3. s \in Seq(S \cup T) /\ t \in Seq(S \cup T)
  <2>1. \A i \in 1 .. Len(s) : s[i] \in S \cup T  BY <1>1, ElementOfSeq
  <2>2. \A i \in 1 .. Len(t) : t[i] \in S \cup T  BY <1>2, ElementOfSeq
  <2> QED  BY <1>1, <1>2, <2>1, <2>2, SeqDef, LenProperties
<1>4. s \o t \in Seq(S \cup T) /\ Len(s \o t) = Len(s) + Len(t)  BY <1>3
<1>5. Len(s) \in Nat /\ Len(t) \in Nat  BY <1>3, LenProperties
<1>6. \A i \in 1 .. Len(s) : (s \o t)[i] = s[i]  BY <1>3, <1>5
<1>7. \A i \in 1 .. Len(t) : (s \o t)[Len(s) + i] = t[i]  BY <1>3, <1>5
<1>8. \A i \in 1 .. Len(s \o t) : i \in 1 .. Len(s) \/ i - Len(s) \in 1 .. Len(t)
  BY <1>4, <1>5
<1>9. IsLine(s \o t)  BY <1>4 DEF IsLine
<1> QED  BY <1>4, <1>5, <1>6, <1>7, <1>8, <1>9

\* A queue after more was put in.
Grown(u, s, t) ==
  /\ IsLine(u) /\ Len(u) = Len(s) + Len(t) /\ Len(s) \in Nat /\ Len(t) \in Nat
  /\ \A i \in 1 .. Len(s) : u[i] = s[i]
  /\ \A i \in 1 .. Len(t) : u[Len(s) + i] = t[i]
  /\ \A i \in 1 .. Len(u) : i \in 1 .. Len(s) \/ i - Len(s) \in 1 .. Len(t)
  /\ \A i \in 1 .. Len(u) : i \notin 1 .. Len(s) => u[i] = t[i - Len(s)]

LEMMA LineGrown ==
  ASSUME NEW s, IsLine(s), NEW t, IsLine(t), NEW u, u = s \o t
  PROVE  Grown(u, s, t)
<1>1. /\ IsLine(u) /\ Len(u) = Len(s) + Len(t) /\ Len(s) \in Nat /\ Len(t) \in Nat
      /\ \A i \in 1 .. Len(s) : u[i] = s[i]
      /\ \A i \in 1 .. Len(t) : u[Len(s) + i] = t[i]
      /\ \A i \in 1 .. Len(u) : i \in 1 .. Len(s) \/ i - Len(s) \in 1 .. Len(t)
  <2>1. /\ IsLine(s \o t) /\ Len(s \o t) = Len(s) + Len(t) /\ Len(s) \in Nat
             /\ Len(t) \in Nat
        /\ \A i \in 1 .. Len(s) : (s \o t)[i] = s[i]
        /\ \A i \in 1 .. Len(t) : (s \o t)[Len(s) + i] = t[i]
        /\ \A i \in 1 .. Len(s \o t) : i \in 1 .. Len(s) \/ i - Len(s) \in 1 .. Len(t)
    BY LineJoined
  <2> QED  BY <2>1
<1>2. ASSUME NEW i \in 1 .. Len(u), i \notin 1 .. Len(s) PROVE u[i] = t[i - Len(s)]
  <2>1. i - Len(s) \in 1 .. Len(t) /\ Len(s) + (i - Len(s)) = i  BY <1>1, <1>2
  <2> QED  BY <1>1, <2>1
<1> QED  BY <1>1, <1>2 DEF Grown

LEMMA LineTaken ==
  ASSUME NEW s, IsLine(s), s # <<>>
  PROVE  /\ IsLine(Tail(s)) /\ Len(s) \in Nat \ {0} /\ Len(Tail(s)) = Len(s) - 1
         /\ Head(s) = s[1] /\ 1 \in 1 .. Len(s)
         /\ \A i \in 1 .. Len(Tail(s)) : Tail(s)[i] = s[i + 1] /\ i + 1 \in 1 .. Len(s)
<1>1. PICK S : s \in Seq(S)  BY DEF IsLine
<1>2. Tail(s) \in Seq(S) /\ Len(Tail(s)) = Len(s) - 1 /\ Len(s) \in Nat /\ Len(s) # 0
  BY <1>1, HeadTailProperties, LenProperties, EmptySeq
<1>3. \A i \in 1 .. Len(Tail(s)) : Tail(s)[i] = s[i + 1] /\ i + 1 \in 1 .. Len(s)
  BY <1>1, <1>2, HeadTailProperties
<1> QED  BY <1>1, <1>2, <1>3, HeadTailProperties DEF IsLine

LEMMA LinesOf ==
  /\ IsLine(<<>>) /\ Len(<<>>) = 0
  /\ \A a : IsLine(<<a>>) /\ Len(<<a>>) = 1 /\ <<a>>[1] = a
  /\ \A a, b : IsLine(<<a, b>>) /\ Len(<<a, b>>) = 2 /\ <<a, b>>[1] = a /\ <<a, b>>[2] = b
  /\ \A a, b, c : IsLine(<<a, b, c>>) /\ Len(<<a, b, c>>) = 3 /\ <<a, b, c>>[1] = a
                  /\ <<a, b, c>>[2] = b /\ <<a, b, c>>[3] = c
<1>1. IsLine(<<>>) /\ Len(<<>>) = 0
  <2>1. <<>> \in Seq({})  OBVIOUS
  <2> QED  BY <2>1 DEF IsLine
<1>2. ASSUME NEW a PROVE IsLine(<<a>>) /\ Len(<<a>>) = 1 /\ <<a>>[1] = a
  <2>1. <<a>> \in Seq({a})  OBVIOUS
  <2> QED  BY <2>1 DEF IsLine
<1>3. ASSUME NEW a, NEW b
      PROVE  IsLine(<<a, b>>) /\ Len(<<a, b>>) = 2 /\ <<a, b>>[1] = a /\ <<a, b>>[2] = b
  <2>1. <<a, b>> \in Seq({a, b})  OBVIOUS
  <2> QED  BY <2>1 DEF IsLine
<1>4. ASSUME NEW a, NEW b, NEW c
      PROVE  /\ IsLine(<<a, b, c>>) /\ Len(<<a, b, c>>) = 3 /\ <<a, b, c>>[1] = a
             /\ <<a, b, c>>[2] = b /\ <<a, b, c>>[3] = c
  <2>1. <<a, b, c>> \in Seq({a, b, c})  OBVIOUS
  <2> QED  BY <2>1 DEF IsLine
<1> QED  BY <1>1, <1>2, <1>3, <1>4

LEMMA LeastNat ==
  ASSUME NEW T, T \subseteq Nat, T # {}
  PROVE  \E x \in T : \A y \in T : x <= y
<1>1. IsWellFoundedOn(OpToRel(<, Nat), Nat)
  BY NatLessThanWellFounded
<1> DEFINE R == OpToRel(<, Nat)
<1>2. \E x \in T : \A y \in T : <<y, x>> \notin R
  <2> HIDE DEF R
  <2>1. IsWellFoundedOn(R, Nat)  BY <1>1 DEF R
  <2> QED  BY <2>1, WFMin
<1>3. \A x \in Nat, y \in Nat : y < x => <<y, x>> \in R
  BY DEF OpToRel
<1> HIDE DEF R
<1>4. PICK x \in T : \A y \in T : <<y, x>> \notin R  BY <1>2
<1>5. \A y \in T : ~(y < x)  BY <1>3, <1>4
<1>6. \A a, b \in Nat : ~(b < a) => a <= b  OBVIOUS
<1> QED  BY <1>4, <1>5, <1>6

LEMMA SetInduction ==
  ASSUME NEW S, 0 \in S, \A n \in Nat : n \in S => n + 1 \in S
  PROVE  Nat \subseteq S
<1> DEFINE T == Nat \ S
<1>1. CASE T = {}  BY <1>1
<1>2. CASE T # {}
  <2>1. PICK x \in T : \A y \in T : x <= y
    BY <1>2, LeastNat
  <2>2. x # 0 /\ x \in Nat  BY <2>1
  <2>3. x - 1 \in Nat /\ x - 1 \notin T BY <2>1, <2>2
  <2>4. x - 1 \in S BY <2>3
  <2>5. (x - 1) + 1 \in S  BY <2>4, <2>3
  <2> QED BY <2>5, <2>2, <2>1
<1> QED BY <1>1, <1>2

\* The attributes of a page, and what they read as.
Of(page) == IF page
  = "pedals" THEN {"value"} ELSE {"slot", "name", "colors", "effect", "apply"}
IsLed(v) ==
  /\ v = [slot |-> v.slot, name |-> v.name, colors |-> v.colors, effect |-> v.effect,
          apply |-> v.apply]
  /\ v.slot \in LightSlots
IsVals(v, page) == IF page = "pedals" THEN v = [value |-> v.value] ELSE IsLed(v)

IsReq(r) ==
  /\ r.page \in Gui!Pages
  /\ \/ r.op = "load"
     \/ /\ r.op = "edit"
             /\ r.attr \in {"value", "slot", "name", "colors", "apply", "effect"}
        /\ r.attr = "slot" => r.v \in LightSlots
        /\ r.attr = "name" => r.v = Gui!New

IsResp(r) ==
  /\ r.page \in Gui!Pages
  /\ \/ r.kind = "rows" /\ IsVals(r.vals, r.page)
     \/ /\ r.kind = "row" /\ r.attr \in Of(r.page)
        /\ r.attr = "slot" => r.v \in LightSlots

IsFcn(f) == f = [s \in LightSlots |-> f[s]]

WheelRow(s, n, d, e, p, v) ==
  [slot |-> s, names |-> n, colors |-> d, effect |-> e, strip |-> p, value |-> v]
IsWheel(w) ==
  /\ w = WheelRow(w.slot, w.names, w.colors, w.effect, w.strip, w.value)
  /\ w.slot \in LightSlots /\ IsFcn(w.names) /\ IsFcn(w.colors)
  /\ \A s \in LightSlots : w.names[s] \in {s, Gui!New}

QueuesOK ==
  /\ IsLine(reqs) /\ \A i \in 1 .. Len(reqs) : IsReq(reqs[i])
  /\ IsLine(resps) /\ \A i \in 1 .. Len(resps) : IsResp(resps[i])

\* What the replies are applied to: known_values, the names, the unfiltered rows,
\* and the page on screen as far as it is the light strip's.
KnownOK(v) ==
  /\ v.known = [a \in DOMAIN v.known |-> v.known[a]]
  /\ {"slot", "name", "colors", "effect", "value"} \subseteq DOMAIN v.known
  /\ v.known["slot"] \in LightSlots /\ IsFcn(v.names)

Lit == IF shown.page = "leds" THEN shown ELSE Gui!NoRows
View == [known |-> known, names |-> names, last |-> last, lit |-> Lit]

\* What is on screen was composed of the rows last read, and on the pedals page
\* still is.
StripRow(p, q, s, t) == [page |-> "leds", at |-> p, labels |-> q, button |-> s, preview |-> t]
IsLit(l) == l = StripRow(l.at, l.labels, l.button, l.preview)
ScreenOK ==
  \/ last = Gui!NoRows /\ shown = Gui!NoRows
  \/ /\ last = [page |-> "pedals", vals |-> last.vals] /\ IsVals(last.vals, "pedals")
     /\ shown = Gui!ComposeShaping(last.vals, curves)
  \/ /\ last = [page |-> "leds", vals |-> last.vals] /\ IsVals(last.vals, "leds")
     /\ IsLit(shown)

\* The view after a reply.
RowsAfter(v, r) ==
  LET n == IF r.page = "leds" THEN [v.names EXCEPT ![r.vals.slot]
    = r.vals.name] ELSE v.names
  IN  [known |-> [a \in DOMAIN v.known \cup DOMAIN r.vals |->
                    IF a \in DOMAIN r.vals THEN r.vals[a] ELSE v.known[a]],
       names |-> n, last |-> [page |-> r.page, vals |-> r.vals],
       lit |-> IF r.page = "leds" THEN Gui!ComposeLightsync(r.vals, n) ELSE Gui!NoRows]

KnownAfter(v, r) ==
  IF r.attr \in DOMAIN v.known THEN [v.known EXCEPT ![r.attr] = r.v] ELSE v.known
NamesAfter(v, r) ==
  IF r.attr = "name" THEN [v.names EXCEPT ![v.known.slot] = r.v] ELSE v.names
LitAfter(v, r) ==
  IF v.lit.page # "leds" \/ r.page # "leds" THEN v.lit
  ELSE IF r.attr = "effect"
         THEN StripRow(Gui!SelectionIndex(r.v, KnownAfter(v, r).slot), Gui!Labels(NamesAfter(v, r)),
                       r.v = Gui!Custom, v.lit.preview)
  ELSE IF r.attr = "colors"
         THEN StripRow(v.lit.at, v.lit.labels, v.lit.button, Gui!Preview(KnownAfter(v, r)))
  ELSE IF r.attr = "name"
         THEN StripRow(v.lit.at, Gui!Labels(NamesAfter(v, r)), v.lit.button, v.lit.preview)
  ELSE v.lit
RowAfter(v, r) ==
  [known |-> KnownAfter(v, r), names |-> NamesAfter(v, r),
   last |-> IF v.last.page = r.page /\ r.attr \in DOMAIN v.last.vals
              THEN [v.last EXCEPT !.vals[r.attr] = r.v] ELSE v.last,
   lit |-> LitAfter(v, r)]

After(v, r, c) ==
  IF r.page # c THEN v ELSE IF r.kind = "rows" THEN RowsAfter(v, r) ELSE RowAfter(v, r)

\* The view is that of a wheel that reads as vals.
Settled(v, vals, c) ==
  /\ v.last = [page |-> c, vals |-> vals]
  /\ c = "leds" => /\ v.lit = Gui!ComposeLightsync(vals, v.names)
                   /\ v.known.slot = vals.slot /\ v.known.effect = vals.effect
                   /\ v.known.colors = vals.colors

LEMMA RowFields ==
  \A p, q, s, t : LET l == StripRow(p, q, s, t)
                  IN  l.at = p /\ l.labels = q /\ l.button = s /\ l.preview = t
                    /\ l.page = "leds"
BY Zenon DEF StripRow

LEMMA RowsLit ==
  ASSUME NEW p, NEW q, NEW s, NEW t
  PROVE  IsLit(StripRow(p, q, s, t)) /\ StripRow(p, q, s, t).page = "leds"
BY DEF StripRow, IsLit

LEMMA AfterKnown ==
  ASSUME NEW v, KnownOK(v), NEW r, IsResp(r), NEW c
  PROVE  KnownOK(After(v, r, c))
<1>1. CASE r.page # c  BY <1>1 DEF After
<1>2. CASE r.page = c /\ r.kind = "rows"
  <2>1. After(v, r, c) = RowsAfter(v, r)  BY <1>2 DEF After
  <2>2. IsVals(r.vals, r.page)  BY <1>2 DEF IsResp
  <2>3. PICK k : k = [a \in DOMAIN v.known \cup DOMAIN r.vals |->
                        IF a \in DOMAIN r.vals THEN r.vals[a] ELSE v.known[a]]
    OBVIOUS
  <2>4. RowsAfter(v, r).known = k  BY <2>3 DEF RowsAfter
  <2>5. CASE r.page = "leds"
    <3>1. IsLed(r.vals)  BY <2>2, <2>5 DEF IsVals
    <3>2. "slot" \in DOMAIN r.vals /\ r.vals["slot"] \in LightSlots  BY <3>1 DEF IsLed
    <3>3. k["slot"] \in LightSlots  BY <2>3, <3>2
    <3>4. RowsAfter(v, r).names = [v.names EXCEPT ![r.vals.slot] = r.vals.name]
      BY <2>5 DEF RowsAfter
    <3>5. IsFcn(RowsAfter(v, r).names)  BY <3>4 DEF KnownOK, IsFcn
    <3> QED  BY <2>1, <2>3, <2>4, <3>3, <3>5 DEF KnownOK
  <2>6. CASE r.page = "pedals"
    <3>1. r.vals = [value |-> r.vals.value]  BY <2>2, <2>6 DEF IsVals
    <3>2. "slot" \notin DOMAIN r.vals  BY <3>1
    <3>3. k["slot"] \in LightSlots  BY <2>3, <3>2 DEF KnownOK
    <3>4. RowsAfter(v, r).names = v.names  BY <2>6 DEF RowsAfter
    <3> QED  BY <2>1, <2>3, <2>4, <3>3, <3>4 DEF KnownOK
  <2> QED  BY <2>5, <2>6 DEF IsResp, Gui!Pages
<1>3. CASE r.page = c /\ r.kind # "rows"
  <2>1. After(v, r, c) = RowAfter(v, r)  BY <1>3 DEF After
  <2>2. r.attr = "slot" => r.v \in LightSlots  BY <1>3 DEF IsResp
  <2>3. IsFcn(NamesAfter(v, r))  BY DEF KnownOK, IsFcn, NamesAfter
  <2>4. KnownAfter(v, r)["slot"] \in LightSlots /\ DOMAIN KnownAfter(v, r) = DOMAIN v.known
        /\ KnownAfter(v, r) = [a \in DOMAIN v.known |-> KnownAfter(v, r)[a]]
    BY <2>2 DEF KnownOK, KnownAfter
  <2>5. RowAfter(v, r).known = KnownAfter(v, r) /\ RowAfter(v, r).names = NamesAfter(v, r)
    BY DEF RowAfter
  <2> QED  BY <2>1, <2>3, <2>4, <2>5 DEF KnownOK
<1> QED  BY <1>1, <1>2, <1>3

\* A whole page settles it.
LEMMA RowsSettle ==
  ASSUME NEW v, KnownOK(v), NEW r, NEW c \in Gui!Pages, IsVals(r.vals, c), r.page = c,
           r.kind = "rows"
  PROVE  Settled(After(v, r, c), r.vals, c)
<1>1. After(v, r, c) = RowsAfter(v, r)  BY DEF After
<1>2. RowsAfter(v, r).last = [page |-> c, vals |-> r.vals]  BY DEF RowsAfter
<1>3. CASE c = "leds"
  <2>1. IsLed(r.vals)  BY <1>3 DEF IsVals
  <2>2. \A a \in {"slot", "effect", "colors"} : a \in DOMAIN r.vals  BY <2>1 DEF IsLed
  <2>3. \A a \in {"slot", "effect", "colors"} : RowsAfter(v, r).known[a] = r.vals[a]
    BY <2>2 DEF RowsAfter
  <2>4. RowsAfter(v, r).lit = Gui!ComposeLightsync(r.vals, RowsAfter(v, r).names)
    BY <1>3 DEF RowsAfter
  <2> QED  BY <1>1, <1>2, <2>3, <2>4 DEF Settled
<1>4. CASE c # "leds"  BY <1>1, <1>2, <1>4 DEF Settled
<1> QED  BY <1>3, <1>4

\* A row keeps it settled, but for a slot's and an effect's that are new.
LEMMA RowSettles ==
  ASSUME NEW v, KnownOK(v), NEW c \in Gui!Pages, NEW vals, IsVals(vals, c), Settled(v,
           vals, c),
         NEW r, r.page = c, r.kind = "row", r.attr \in Of(c),
         r.attr \in {"slot", "effect"} => r.v = vals[r.attr]
  PROVE  Settled(After(v, r, c), [vals EXCEPT ![r.attr] = r.v], c)
<1>1. After(v, r, c) = RowAfter(v, r)  BY DEF After
<1>2. PICK a : a = r.attr  OBVIOUS
<1>3. PICK x : x = r.v  OBVIOUS
<1>4. DOMAIN vals = Of(c)
  <2>1. CASE c = "pedals"
    <3>1. vals = [value |-> vals.value]  BY <2>1 DEF IsVals
    <3> QED  BY <2>1, <3>1 DEF Of
  <2>2. CASE c = "leds"
    <3>1. vals = [slot |-> vals.slot, name |-> vals.name, colors |-> vals.colors,
                  effect |-> vals.effect, apply |-> vals.apply]
      BY <2>2 DEF IsVals, IsLed
    <3> QED  BY <2>2, <3>1 DEF Of
  <2> QED  BY <2>1, <2>2 DEF Gui!Pages
<1>5. v.last = [page |-> c, vals |-> vals]  BY DEF Settled
<1>6. RowAfter(v, r).last = [page |-> c, vals |-> [vals EXCEPT ![a] = x]]
  BY <1>2, <1>3, <1>4, <1>5 DEF RowAfter
<1>7. CASE c = "pedals"  BY <1>1, <1>2, <1>3, <1>6, <1>7 DEF Settled
<1>8. CASE c = "leds"
  <2>1. vals = [slot |-> vals.slot, name |-> vals.name, colors |-> vals.colors,
                effect |-> vals.effect, apply |-> vals.apply]
    BY <1>8 DEF IsVals, IsLed
  <2>2. v.lit = Gui!ComposeLightsync(vals, v.names) /\ v.known.slot = vals.slot
        /\ v.known.effect = vals.effect /\ v.known.colors = vals.colors
    BY <1>8 DEF Settled
  <2>3. v.lit = StripRow(Gui!SelectionIndex(vals.effect, vals.slot), Gui!Labels(v.names),
                         vals.effect = Gui!Custom, Gui!Preview(vals))
    BY <2>2 DEF Gui!ComposeLightsync, StripRow
  <2>4. RowAfter(v, r).known = KnownAfter(v, r) /\ RowAfter(v, r).names = NamesAfter(v, r)
        /\ RowAfter(v, r).lit = LitAfter(v, r)
    BY DEF RowAfter
  <2>k. v.known = [b \in DOMAIN v.known |-> v.known[b]]
        /\ {"slot", "name", "colors", "effect", "value"} \subseteq DOMAIN v.known
    BY DEF KnownOK
  <2>l. v.lit.page = "leds"  BY <2>3 DEF StripRow
  <2>m. PICK s, n, d, e, p : vals
          = [slot |-> s, name |-> n, colors |-> d, effect |-> e, apply |-> p]
    BY <2>1
  <2>n. /\ v.lit.at = Gui!SelectionIndex(vals.effect, vals.slot)
             /\ v.lit.labels = Gui!Labels(v.names)
        /\ v.lit.button = (vals.effect = Gui!Custom) /\ v.lit.preview = Gui!Preview(vals)
    BY <2>3, RowFields
  <2>5. CASE a = "slot"
    <3>1. x = vals.slot  BY <1>2, <1>3, <2>5
    <3>2. KnownAfter(v, r) = v.known  BY <1>2, <1>3, <2>2, <2>5, <2>k, <3>1 DEF KnownAfter
    <3>3. NamesAfter(v, r) = v.names /\ LitAfter(v, r) = v.lit
      BY <1>2, <2>5 DEF NamesAfter, LitAfter
    <3>4. [vals EXCEPT ![a] = x] = vals  BY <2>m, <2>5, <3>1
    <3> QED  BY <1>1, <1>2, <1>3, <1>6, <2>2, <2>4, <3>2, <3>3, <3>4 DEF Settled
  <2>6. CASE a = "effect"
    <3>1. x = vals.effect  BY <1>2, <1>3, <2>6
    <3>2. KnownAfter(v, r) = v.known  BY <1>2, <1>3, <2>2, <2>6, <2>k, <3>1 DEF KnownAfter
    <3>3. NamesAfter(v, r) = v.names  BY <1>2, <2>6 DEF NamesAfter
    <3>4. LitAfter(v, r) = v.lit
      <4>1. LitAfter(v, r)
              = StripRow(Gui!SelectionIndex(x, v.known.slot), Gui!Labels(v.names),
                                      x = Gui!Custom, v.lit.preview)
        BY Zenon, <1>2, <1>3, <1>8, <2>6, <2>l, <3>2, <3>3 DEF LitAfter
      <4> QED  BY Zenon, <4>1, <2>2, <2>3, <2>n, <3>1
    <3>5. [vals EXCEPT ![a] = x] = vals  BY <2>m, <2>6, <3>1
    <3> QED  BY <1>1, <1>2, <1>3, <1>6, <2>2, <2>4, <3>2, <3>3, <3>4, <3>5 DEF Settled
  <2>7. CASE a = "name"
    <3>1. KnownAfter(v, r) = [v.known EXCEPT !["name"] = x]
      BY <1>2, <1>3, <2>7, <2>k DEF KnownAfter
    <3>2. KnownAfter(v, r).slot = vals.slot /\ KnownAfter(v, r).effect = vals.effect
          /\ KnownAfter(v, r).colors = vals.colors
      BY <3>1, <2>2, <2>k
    <3>3. LitAfter(v, r)
            = StripRow(v.lit.at, Gui!Labels(NamesAfter(v, r)), v.lit.button, v.lit.preview)
      BY Zenon, <1>2, <1>8, <2>7, <2>l DEF LitAfter
    <3>4. [vals EXCEPT ![a] = x]
            = [slot |-> s, name |-> x, colors |-> d, effect |-> e, apply |-> p]
      BY <2>m, <2>7
    <3>5. PICK y : y = [vals EXCEPT ![a] = x]  OBVIOUS
    <3>6. y.slot = vals.slot /\ y.effect = vals.effect /\ y.colors = vals.colors
      BY <2>m, <3>4, <3>5
    <3>7. Gui!Preview(y) = Gui!Preview(vals)  BY <3>6 DEF Gui!Preview
    <3>9. LitAfter(v, r) = Gui!ComposeLightsync(y, NamesAfter(v, r))
      BY Zenon, <2>n, <3>3, <3>6, <3>7 DEF Gui!ComposeLightsync, StripRow
    <3> QED  BY <1>1, <1>2, <1>3, <1>6, <2>4, <3>2, <3>5, <3>6, <3>9 DEF Settled
  <2>8. CASE a = "colors"
    <3>1. KnownAfter(v, r) = [v.known EXCEPT !["colors"] = x]
      BY <1>2, <1>3, <2>8, <2>k DEF KnownAfter
    <3>2. KnownAfter(v, r).slot = vals.slot /\ KnownAfter(v, r).effect = vals.effect
          /\ KnownAfter(v, r).colors = x
      BY <3>1, <2>2, <2>k
    <3>3. NamesAfter(v, r) = v.names  BY <1>2, <2>8 DEF NamesAfter
    <3>4. LitAfter(v, r)
            = StripRow(v.lit.at, v.lit.labels, v.lit.button, Gui!Preview(KnownAfter(v, r)))
      BY Zenon, <1>2, <1>8, <2>8, <2>l DEF LitAfter
    <3>5. [vals EXCEPT ![a] = x]
            = [slot |-> s, name |-> n, colors |-> x, effect |-> e, apply |-> p]
      BY <2>m, <2>8
    <3>6. PICK y : y = [vals EXCEPT ![a] = x]  OBVIOUS
    <3>7. y.slot = vals.slot /\ y.effect = vals.effect /\ y.colors = x  BY <2>m, <3>5, <3>6
    <3>8. Gui!Preview(y) = Gui!Preview(KnownAfter(v, r))  BY <3>2, <3>7 DEF Gui!Preview
    <3>10. LitAfter(v, r) = Gui!ComposeLightsync(y, v.names)
      BY Zenon, <2>n, <3>4, <3>7, <3>8 DEF Gui!ComposeLightsync, StripRow
    <3> QED  BY <1>1, <1>2, <1>3, <1>6, <2>4, <3>2, <3>3, <3>6, <3>7, <3>10 DEF Settled
  <2>9. CASE a = "apply"
    <3>1. KnownAfter(v, r).slot = vals.slot /\ KnownAfter(v, r).effect = vals.effect
          /\ KnownAfter(v, r).colors = vals.colors
      BY <1>2, <1>3, <2>2, <2>9, <2>k DEF KnownAfter
    <3>2. NamesAfter(v, r) = v.names /\ LitAfter(v, r) = v.lit
      BY <1>2, <2>9 DEF NamesAfter, LitAfter
    <3>3. PICK y : y = [vals EXCEPT ![a] = x]  OBVIOUS
    <3>4. y.slot = vals.slot /\ y.effect = vals.effect /\ y.colors = vals.colors
      BY <2>m, <2>9, <3>3
    <3>5. Gui!Preview(y) = Gui!Preview(vals)  BY <3>4 DEF Gui!Preview
    <3>6. v.lit = Gui!ComposeLightsync(y, v.names)
      BY Zenon, <2>3, <3>4, <3>5 DEF Gui!ComposeLightsync, StripRow
    <3> QED  BY <1>1, <1>2, <1>3, <1>6, <2>4, <3>1, <3>2, <3>3, <3>4, <3>6 DEF Settled
  <2> QED  BY <1>2, <1>8, <2>5, <2>6, <2>7, <2>8, <2>9 DEF Of
<1> QED  BY <1>7, <1>8 DEF Gui!Pages

\* A load of the page on screen is queued.
Pending == \E j \in 1 .. Len(reqs) : reqs[j].op = "load" /\ reqs[j].page = cat

\* What may leave the page stale has a load of it behind it.
IsStale(r) == r.page # cat \/ (r.op = "edit" /\ r.attr = "slot")
Ahead ==
  \A i \in 1 .. Len(reqs) : IsStale(reqs[i]) =>
    \E j \in i + 1 .. Len(reqs) : reqs[j].op = "load" /\ reqs[j].page = cat

\* The views the queued replies lead through.
Trail(V, v, s, c) == V[1] = v /\ \A i \in 1 .. Len(s) : V[i + 1] = After(V[i], s[i], c)

Settling ==
  touches = 0 /\ ~Pending =>
    \A V : Trail(V, View, resps, cat) => Settled(V[Len(resps) + 1], Gui!Values(wheel, cat), cat)

\* A slot is chosen and colours are written with the write that applies them
\* right behind.
Applies(r) == r.op = "edit" /\ (r.attr = "apply" \/ (r.attr = "effect" /\ r.v = Gui!Custom))
Stripped ==
  /\ \A i \in 1 .. Len(reqs) : reqs[i].op = "edit" /\ reqs[i].attr \in {"slot", "colors"} =>
       i + 1 \in 1 .. Len(reqs) /\ Applies(reqs[i + 1])
  /\ faults = 0 /\ touches = 0 =>
       wheel.strip = wheel.colors[wheel.slot] \/ (reqs # <<>> /\ Applies(reqs[1]))

\* A name is its slot's: the one it starts out with, or the one it was given.
GoodOf(w, s, n) == n \in {Gui!Unread, s} \/ (n = Gui!New /\ w.names[s] = Gui!New)
Good(s, n) == GoodOf(wheel, s, n)
IsName(r) == r.kind = "row" /\ r.attr = "name"
IsSlot(r) == r.kind = "row" /\ r.attr = "slot" /\ r.page = "leds"
Named ==
  /\ ~split => \A s \in LightSlots : Good(s, names[s])
  /\ \A i \in 1 .. Len(resps) :
       /\ resps[i].kind = "rows" /\ resps[i].page = "leds" =>
            Good(resps[i].vals.slot, resps[i].vals.name)
       /\ IsName(resps[i]) /\ i # 1 => IsSlot(resps[i - 1])
            /\ Good(resps[i - 1].v, resps[i].v)
  /\ resps # <<>> /\ ~split
       /\ cat = "leds" => (IsName(resps[1]) => Good(known.slot, resps[1].v))

GuiInv ==
  /\ cat \in Gui!Pages /\ touches \in Nat /\ faults \in Nat
  /\ IsWheel(wheel) /\ QueuesOK /\ KnownOK(View) /\ ScreenOK
  /\ Ahead /\ Settling /\ Stripped /\ Named

\* The driver's writes, one by one.
NamedAs(n, s, v) == [n EXCEPT ![s] = v]

LEMMA WroteCases ==
  /\ \A v : Gui!Wrote("value", v) = [wheel EXCEPT !.value = v]
  /\ \A v : Gui!Wrote("slot", v) = [wheel EXCEPT !.slot = v]
  /\ \A v : Gui!Wrote("name", v) = [wheel EXCEPT !.names[wheel.slot] = v]
  /\ \A v : Gui!Wrote("colors", v) = [wheel EXCEPT !.colors[wheel.slot] = v]
  /\ \A v : Gui!Wrote("apply", v) = [wheel EXCEPT !.strip = wheel.colors[wheel.slot]]
  /\ \A v : Gui!Wrote("effect", v)
              = [wheel EXCEPT !.effect = v,
                              !.strip = IF v
                                = Gui!Custom THEN wheel.colors[wheel.slot] ELSE @]
BY Zenon DEF Gui!Wrote

LEMMA WroteRows ==
  ASSUME NEW s, NEW n, NEW d, NEW e, NEW p, NEW v, NEW x,
         wheel = WheelRow(s, n, d, e, p, v), IsFcn(n), IsFcn(d), s \in LightSlots
  PROVE  /\ Gui!Wrote("value", x) = WheelRow(s, n, d, e, p, x)
         /\ Gui!Wrote("slot", x) = WheelRow(x, n, d, e, p, v)
         /\ Gui!Wrote("name", x) = WheelRow(s, NamedAs(n, s, x), d, e, p, v)
         /\ Gui!Wrote("colors", x) = WheelRow(s, n, NamedAs(d, s, x), e, p, v)
         /\ Gui!Wrote("apply", x) = WheelRow(s, n, d, e, d[s], v)
         /\ Gui!Wrote("effect", x) = WheelRow(s, n, d, x, IF x
              = Gui!Custom THEN d[s] ELSE p, v)
<1>1. wheel.slot = s /\ wheel.colors = d /\ wheel.strip = p /\ wheel.names = n
  BY DEF WheelRow
<1>2. Gui!Wrote("value", x) = WheelRow(s, n, d, e, p, x)
  <2>1. [wheel EXCEPT !.value = x] = WheelRow(s, n, d, e, p, x)  BY DEF WheelRow
  <2> QED  BY <2>1, WroteCases
<1>3. Gui!Wrote("slot", x) = WheelRow(x, n, d, e, p, v)
  <2>1. [wheel EXCEPT !.slot = x] = WheelRow(x, n, d, e, p, v)  BY DEF WheelRow
  <2> QED  BY <2>1, WroteCases
<1>4. Gui!Wrote("name", x) = WheelRow(s, NamedAs(n, s, x), d, e, p, v)
  <2>1. PICK m : m = NamedAs(n, s, x)  OBVIOUS
  <2>2. [wheel EXCEPT !.names = m] = WheelRow(s, m, d, e, p, v)  BY DEF WheelRow
  <2>3. [wheel EXCEPT !.names[s] = x] = [wheel EXCEPT !.names
          = [wheel.names EXCEPT ![s] = x]]
    BY DEF WheelRow
  <2>4. Gui!Wrote("name", x) = [wheel EXCEPT !.names[s] = x]  BY <1>1, WroteCases
  <2>5. [wheel.names EXCEPT ![s] = x] = m  BY <1>1, <2>1 DEF NamedAs
  <2> QED  BY Zenon, <2>1, <2>2, <2>3, <2>4, <2>5
<1>5. Gui!Wrote("colors", x) = WheelRow(s, n, NamedAs(d, s, x), e, p, v)
  <2>1. PICK m : m = NamedAs(d, s, x)  OBVIOUS
  <2>2. [wheel EXCEPT !.colors = m] = WheelRow(s, n, m, e, p, v)  BY DEF WheelRow
  <2>3. [wheel EXCEPT !.colors[s] = x] = [wheel EXCEPT !.colors
          = [wheel.colors EXCEPT ![s] = x]]
    BY DEF WheelRow
  <2>4. Gui!Wrote("colors", x) = [wheel EXCEPT !.colors[s] = x]  BY <1>1, WroteCases
  <2>5. [wheel.colors EXCEPT ![s] = x] = m  BY <1>1, <2>1 DEF NamedAs
  <2> QED  BY Zenon, <2>1, <2>2, <2>3, <2>4, <2>5
<1>6. Gui!Wrote("apply", x) = WheelRow(s, n, d, e, d[s], v)
  <2>1. PICK q : q = d[s]  OBVIOUS
  <2>2. [wheel EXCEPT !.strip = q] = WheelRow(s, n, d, e, q, v)  BY DEF WheelRow
  <2> QED  BY <1>1, <2>1, <2>2, WroteCases
<1>7. Gui!Wrote("effect", x) = WheelRow(s, n, d, x, IF x = Gui!Custom THEN d[s] ELSE p, v)
  <2>1. PICK q : q = IF x = Gui!Custom THEN d[s] ELSE p  OBVIOUS
  <2>2. [wheel EXCEPT !.effect = x] = WheelRow(s, n, d, x, p, v)  BY DEF WheelRow
  <2>3. [WheelRow(s, n, d, x, p, v) EXCEPT !.strip = q] = WheelRow(s, n, d, x, q, v)
    BY DEF WheelRow
  <2>4. Gui!Wrote("effect", x) = [[wheel EXCEPT !.effect = x]
                                EXCEPT !.strip = IF x = Gui!Custom THEN d[s] ELSE @]
    <3>1. Gui!Wrote("effect", x) = [wheel EXCEPT !.effect = x,
                                             !.strip = IF x = Gui!Custom THEN d[s] ELSE @]
      BY <1>1, WroteCases
    <3> QED  BY <3>1
  <2>5. [WheelRow(s, n, d, x, p, v) EXCEPT !.strip = IF x = Gui!Custom THEN d[s] ELSE @]
          = WheelRow(s, n, d, x, q, v)
    <3>1. CASE x = Gui!Custom  BY <3>1, <2>1 DEF WheelRow
    <3>2. CASE x # Gui!Custom  BY <3>2, <2>1 DEF WheelRow
    <3> QED  BY <3>1, <3>2
  <2> QED  BY <1>1, <2>1, <2>2, <2>4, <2>5
<1> QED  BY <1>2, <1>3, <1>4, <1>5, <1>6, <1>7

\* A write leaves a wheel, and changes the attribute written.
LEMMA Written ==
  ASSUME IsWheel(wheel), NEW r, IsReq(r), r.op = "edit",
         NEW w, w = Gui!Wrote(r.attr, r.v) \/ w = wheel
  PROVE  /\ IsWheel(w)
         /\ \A s \in LightSlots : wheel.names[s] = Gui!New => w.names[s] = Gui!New
         /\ r.attr # "slot" => w.slot = wheel.slot
         /\ r.attr # "name" => w.names = wheel.names
         /\ r.attr # "colors" => w.colors = wheel.colors
         /\ r.attr # "effect" => w.effect = wheel.effect
         /\ r.attr # "value" => w.value = wheel.value
         /\ r.attr \notin {"apply", "effect"} => w.strip = wheel.strip
         /\ w = Gui!Wrote(r.attr, r.v) /\ Applies(r) => w.strip = w.colors[w.slot]
         /\ r.attr = "effect" /\ r.v # Gui!Custom => w.strip = wheel.strip
<1>1. CASE w = wheel /\ w # Gui!Wrote(r.attr, r.v)  BY <1>1
<1>2. CASE w = Gui!Wrote(r.attr, r.v)
  <2>1. PICK s, n, d, e, p, v : /\ wheel = WheelRow(s, n, d, e, p, v) /\ IsFcn(n)
          /\ IsFcn(d)
                                /\ s \in LightSlots
                                     /\ \A t \in LightSlots : n[t] \in {t, Gui!New}
    <3>1. wheel = WheelRow(wheel.slot, wheel.names, wheel.colors, wheel.effect, wheel.strip,
                           wheel.value)
      BY DEF IsWheel
    <3> QED  BY <3>1 DEF IsWheel
  <2>2. /\ wheel.slot = s /\ wheel.names = n /\ wheel.colors = d /\ wheel.effect = e
        /\ wheel.strip = p /\ wheel.value = v
    BY <2>1 DEF WheelRow
  <2>3. \A s1, n1, d1, e1, p1, v1 :
          LET x == WheelRow(s1, n1, d1, e1, p1, v1)
          IN  /\ x.slot = s1 /\ x.names = n1 /\ x.colors = d1 /\ x.effect = e1
            /\ x.strip = p1
              /\ x.value = v1
                   /\ x = WheelRow(x.slot, x.names, x.colors, x.effect, x.strip, x.value)
    BY DEF WheelRow
  <2>4. PICK a : a = r.attr  OBVIOUS
  <2>5. PICK x : x = r.v  OBVIOUS
  <2>6. CASE a = "value"
    <3>1. w = WheelRow(s, n, d, e, p, x)  BY <1>2, <2>1, <2>4, <2>5, <2>6, WroteRows
    <3> QED  BY <2>1, <2>2, <2>3, <2>4, <2>6, <3>1 DEF IsWheel, Applies
  <2>7. CASE a = "slot"
    <3>1. w = WheelRow(x, n, d, e, p, v)  BY <1>2, <2>1, <2>4, <2>5, <2>7, WroteRows
    <3>2. x \in LightSlots  BY <2>4, <2>5, <2>7 DEF IsReq
    <3> QED  BY <2>1, <2>2, <2>3, <2>4, <2>7, <3>1, <3>2 DEF IsWheel, Applies
  <2>8. CASE a = "name"
    <3>1. w = WheelRow(s, NamedAs(n, s, x), d, e, p, v)
      BY <1>2, <2>1, <2>4, <2>5, <2>8, WroteRows
    <3>2. x = Gui!New  BY <2>4, <2>5, <2>8 DEF IsReq
    <3>3. PICK m : m = NamedAs(n, s, x)  OBVIOUS
    <3>4. IsFcn(m) /\ \A t \in LightSlots : m[t] = IF t = s THEN Gui!New ELSE n[t]
      BY <2>1, <3>2, <3>3 DEF NamedAs, IsFcn
    <3>5. \A t \in LightSlots : m[t] \in {t, Gui!New} /\ (n[t] = Gui!New => m[t] = Gui!New)
      BY <2>1, <3>4
    <3>6. w = WheelRow(s, m, d, e, p, v)  BY <3>1, <3>3
    <3> QED  BY <2>1, <2>2, <2>3, <2>4, <2>8, <3>4, <3>5, <3>6 DEF IsWheel, Applies
  <2>9. CASE a = "colors"
    <3>1. w = WheelRow(s, n, NamedAs(d, s, x), e, p, v)
      BY <1>2, <2>1, <2>4, <2>5, <2>9, WroteRows
    <3>3. PICK m : m = NamedAs(d, s, x)  OBVIOUS
    <3>4. IsFcn(m)  BY <2>1, <3>3 DEF NamedAs, IsFcn
    <3>6. w = WheelRow(s, n, m, e, p, v)  BY <3>1, <3>3
    <3> QED  BY <2>1, <2>2, <2>3, <2>4, <2>9, <3>4, <3>6 DEF IsWheel, Applies
  <2>10. CASE a = "apply"
    <3>1. w = WheelRow(s, n, d, e, d[s], v)  BY <1>2, <2>1, <2>4, <2>5, <2>10, WroteRows
    <3>2. w.slot = s /\ w.colors = d /\ w.strip = d[s]  BY <2>3, <3>1
    <3> QED  BY <2>1, <2>2, <2>3, <2>4, <2>10, <3>1, <3>2 DEF IsWheel, Applies
  <2>11. CASE a = "effect"
    <3>1. PICK q : q = IF x = Gui!Custom THEN d[s] ELSE p  OBVIOUS
    <3>2. w = WheelRow(s, n, d, x, q, v)
      <4>1. w = WheelRow(s, n, d, x, IF x = Gui!Custom THEN d[s] ELSE p, v)
        BY <1>2, <2>1, <2>4, <2>5, <2>11, WroteRows
      <4> QED  BY <3>1, <4>1
    <3>3. w.slot = s /\ w.colors = d /\ w.strip = q  BY <2>3, <3>2
    <3>4. Applies(r) => q = d[s]  BY <2>4, <2>5, <2>11, <3>1 DEF Applies
    <3>5. r.v # Gui!Custom => q = p  BY <2>5, <3>1
    <3> QED  BY <2>1, <2>2, <2>3, <2>4, <2>11, <3>2, <3>3, <3>4, <3>5 DEF IsWheel
  <2> QED  BY <2>4, <2>6, <2>7, <2>8, <2>9, <2>10, <2>11 DEF IsReq
<1> QED  BY <1>1, <1>2

\* What a page reads as.
LEMMA ValuesAre ==
  ASSUME NEW w, IsWheel(w), NEW c \in Gui!Pages
  PROVE  IsVals(Gui!Values(w, c), c) /\ DOMAIN Gui!Values(w, c) = Of(c)
<1>1. CASE c = "pedals"  BY <1>1 DEF Gui!Values, IsVals, Of
<1>2. CASE c = "leds"
  <2>1. Gui!Values(w, c)
          = [slot |-> w.slot, name |-> w.names[w.slot], colors |-> w.colors[w.slot],
                        effect |-> w.effect, apply |-> 0]
    BY <1>2 DEF Gui!Values
  <2>2. IsLed(Gui!Values(w, c))  BY <2>1 DEF IsLed, IsWheel
  <2>3. DOMAIN Gui!Values(w, c) = {"slot", "name", "colors", "effect", "apply"}  BY <2>1
  <2> QED  BY <1>2, <2>2, <2>3 DEF IsVals, Of
<1> QED  BY <1>1, <1>2 DEF Gui!Pages

LEMMA ValuesWritten ==
  ASSUME IsWheel(wheel), NEW r, IsReq(r), r.op = "edit", r.attr # "slot",
         NEW w, w = Gui!Wrote(r.attr, r.v) \/ w = wheel, NEW c \in Gui!Pages
  PROVE  /\ r.attr \notin Of(c) => Gui!Values(w, c) = Gui!Values(wheel, c)
         /\ r.attr \in Of(c) =>
              Gui!Values(w, c) = [Gui!Values(wheel, c) EXCEPT ![r.attr]
                = Gui!Values(w, c)[r.attr]]
<1>1. IsWheel(w) /\ w.slot = wheel.slot  BY Written
<1>2. CASE c = "pedals"
  <2>1. \A x : Gui!Values(x, c) = [value |-> x.value]  BY <1>2 DEF Gui!Values
  <2>2. r.attr # "value" => w.value = wheel.value  BY Written
  <2>3. Of(c) = {"value"}  BY <1>2 DEF Of
  <2>4. r.attr = "value" => Gui!Values(w, c) = [Gui!Values(wheel, c) EXCEPT ![r.attr]
          = Gui!Values(w, c)[r.attr]]
    BY <2>1
  <2> QED  BY <2>1, <2>2, <2>3, <2>4
<1>3. CASE c = "leds"
  <2>1. \A x : Gui!Values(x, c) = [slot |-> x.slot, name |-> x.names[x.slot],
                               colors |-> x.colors[x.slot], effect |-> x.effect, apply |-> 0]
    BY <1>3 DEF Gui!Values
  <2>2. Of(c) = {"slot", "name", "colors", "effect", "apply"}  BY <1>3 DEF Of
  <2>3. PICK s, n, d, e : s = wheel.slot /\ n = wheel.names[s] /\ d = wheel.colors[s]
                          /\ e = wheel.effect
    OBVIOUS
  <2>4. PICK n1, d1, e1 : n1 = w.names[s] /\ d1 = w.colors[s] /\ e1 = w.effect  OBVIOUS
  <2>5. Gui!Values(wheel, c)
          = [slot |-> s, name |-> n, colors |-> d, effect |-> e, apply |-> 0]
    BY <2>1, <2>3
  <2>6. Gui!Values(w, c)
          = [slot |-> s, name |-> n1, colors |-> d1, effect |-> e1, apply |-> 0]
    BY <1>1, <2>1, <2>3, <2>4
  <2>7. /\ r.attr # "name" => n1 = n
        /\ r.attr # "colors" => d1 = d
        /\ r.attr # "effect" => e1 = e
    BY <2>3, <2>4, Written
  <2>8. r.attr \in {"name", "colors", "effect", "apply", "value"}  BY DEF IsReq
  <2>9. CASE r.attr = "name"   BY <2>2, <2>5, <2>6, <2>7, <2>9
  <2>10. CASE r.attr = "colors"  BY <2>2, <2>5, <2>6, <2>7, <2>10
  <2>11. CASE r.attr = "effect"  BY <2>2, <2>5, <2>6, <2>7, <2>11
  <2>12. CASE r.attr = "apply"  BY <2>2, <2>5, <2>6, <2>7, <2>12
  <2>13. CASE r.attr = "value"  BY <2>2, <2>5, <2>6, <2>7, <2>13
  <2> QED  BY <2>8, <2>9, <2>10, <2>11, <2>12, <2>13
<1> QED  BY <1>2, <1>3 DEF Gui!Pages

LEMMA Joins ==
  /\ <<>> \o <<>> = <<>>
  /\ \A a : <<a>> \o <<>> = <<a>> /\ <<>> \o <<a>> = <<a>>
  /\ \A a, b : <<a>> \o <<b>> = <<a, b>>
  /\ \A a, b : <<a, b>> \o <<>> = <<a, b>>
<1>1. <<>> \o <<>> = <<>>  OBVIOUS
<1>2. ASSUME NEW a PROVE <<a>> \o <<>> = <<a>> /\ <<>> \o <<a>> = <<a>>
  <2>1. <<a>> \in Seq({a})  OBVIOUS
  <2> QED  BY <2>1, ConcatEmptySeq
<1>3. ASSUME NEW a, NEW b PROVE <<a>> \o <<b>> = <<a, b>>
  <2>1. <<a>> \in Seq({a, b}) /\ <<b>> \in Seq({a, b}) /\ <<a, b>> \in Seq({a, b})  OBVIOUS
  <2>2. PICK s, t, u : s = <<a>> /\ t = <<b>> /\ u = <<a, b>>  OBVIOUS
  <2>3. s \in Seq({a, b}) /\ t \in Seq({a, b}) /\ u \in Seq({a, b})  BY <2>1, <2>2
  <2>4. Len(s) = 1 /\ Len(t) = 1 /\ Len(u) = 2 /\ s[1] = a /\ t[1] = b /\ u[1] = a
          /\ u[2] = b
    BY <2>2
  <2>5. s \o t \in Seq({a, b}) /\ Len(s \o t) = 2 /\ (s \o t)[1] = a /\ (s \o t)[2] = b
    <3>1. s \o t \in Seq({a, b}) /\ Len(s \o t) = 2
      <4>1. s \o t \in Seq({a, b}) /\ Len(s \o t) = Len(s) + Len(t)
        BY <2>3, ConcatProperties
      <4>2. Len(s) + Len(t) = 2  BY <2>4
      <4> QED  BY <4>1, <4>2
    <3>2. IsLine(s) /\ IsLine(t)  BY <2>3 DEF IsLine
    <3>3. 1 \in 1 .. Len(s) /\ 1 \in 1 .. Len(t) /\ Len(s) + 1 = 2  BY <2>4
    <3>4. (s \o t)[1] = s[1] /\ (s \o t)[Len(s) + 1] = t[1]  BY <3>2, <3>3, LineJoined
    <3> QED  BY <2>4, <3>1, <3>3, <3>4
  <2>6. s \o t = u  BY <2>3, <2>4, <2>5, SeqEqual
  <2> QED  BY <2>2, <2>6
<1>4. ASSUME NEW a, NEW b PROVE <<a, b>> \o <<>> = <<a, b>>
  <2>1. <<a, b>> \in Seq({a, b})  OBVIOUS
  <2> QED  BY <2>1, ConcatEmptySeq
<1> QED  BY <1>1, <1>2, <1>3, <1>4

LEMMA ReplyCases ==
  /\ \A w, r, z : r.op = "load" => Gui!Reply(w, r, z) = <<Gui!RowsReply(w, r.page)>>
  /\ \A w, r, z : r.op = "edit" /\ r.attr = "effect" /\ ~z =>
       Gui!Reply(w, r, z)
         = Gui!NamedSlot(w, r) \o Gui!RowOf(w, r) \o <<Gui!RowsReply(w, r.page)>>
  /\ \A w, r, z : r.op = "edit" /\ ~(r.attr = "effect" /\ ~z) =>
       Gui!Reply(w, r, z) = Gui!NamedSlot(w, r) \o Gui!RowOf(w, r) \o <<>>
<1>1. \A w, r, z : r.op = "load" => Gui!Reply(w, r, z) = <<Gui!RowsReply(w, r.page)>>
  BY Zenon DEF Gui!Reply
<1>2. \A w, r, z : r.op = "edit" =>
        Gui!Reply(w, r, z) = Gui!NamedSlot(w, r) \o Gui!RowOf(w, r)
                           \o (IF r.attr = "effect"
                             /\ ~z THEN <<Gui!RowsReply(w, r.page)>> ELSE <<>>)
  BY Zenon DEF Gui!Reply
<1>3. ASSUME NEW w, NEW r, NEW z, r.op = "edit", r.attr = "effect", ~z
      PROVE  Gui!Reply(w, r, z)
               = Gui!NamedSlot(w, r) \o Gui!RowOf(w, r) \o <<Gui!RowsReply(w, r.page)>>
  <2>1. (IF r.attr = "effect" /\ ~z THEN <<Gui!RowsReply(w, r.page)>> ELSE <<>>)
          = <<Gui!RowsReply(w, r.page)>>
    BY Zenon, <1>3
  <2> QED  BY Zenon, <1>2, <1>3, <2>1
<1>4. ASSUME NEW w, NEW r, NEW z, r.op = "edit", ~(r.attr = "effect" /\ ~z)
      PROVE  Gui!Reply(w, r, z) = Gui!NamedSlot(w, r) \o Gui!RowOf(w, r) \o <<>>
  <2>1. (IF r.attr = "effect" /\ ~z THEN <<Gui!RowsReply(w, r.page)>> ELSE <<>>) = <<>>
    BY Zenon, <1>4
  <2> QED  BY Zenon, <1>2, <1>4, <2>1
<1> QED  BY Zenon, <1>1, <1>3, <1>4

\* The replies to an edit.
LEMMA Replies ==
  ASSUME NEW w, IsWheel(w), NEW r, IsReq(r), r.op = "edit", NEW z \in BOOLEAN
  PROVE  \/ /\ r.attr = "name" /\ r.page = "leds"
            /\ Gui!Reply(w, r, z)
                 = <<Gui!RowReply(w, "leds", "slot"), Gui!RowReply(w, "leds", "name")>>
         \/ /\ r.attr = "effect" /\ r.page = "leds"
            /\ Gui!Reply(w, r, z)
                 = <<Gui!RowReply(w, "leds", "effect"), Gui!RowsReply(w, "leds")>>
         \/ r.attr = "effect" /\ r.page = "pedals"
              /\ Gui!Reply(w, r, z) = <<Gui!RowsReply(w, "pedals")>>
         \/ /\ r.attr \in Of(r.page) /\ r.attr # "name" /\ (r.attr = "effect" => z)
            /\ Gui!Reply(w, r, z) = <<Gui!RowReply(w, r.page, r.attr)>>
         \/ /\ r.attr \notin Of(r.page) /\ (r.attr = "effect" => z)
            /\ Gui!Reply(w, r, z) = <<>>
<1>1. r.page \in Gui!Pages  BY DEF IsReq
<1>2. Gui!RowOf(w, r)
        = IF r.attr \in Of(r.page) THEN <<Gui!RowReply(w, r.page, r.attr)>> ELSE <<>>
  BY <1>1, ValuesAre DEF Gui!RowOf
<1>3. Gui!NamedSlot(w, r) = IF r.attr = "name" /\ r.page = "leds"
                          THEN <<Gui!RowReply(w, r.page, "slot")>> ELSE <<>>
  BY DEF Gui!NamedSlot, Gui!SlotAhead
<1>4. CASE r.attr = "name" /\ r.page = "leds"
  <2>1. r.attr \in Of(r.page)  BY <1>4 DEF Of
  <2>2. Gui!Reply(w, r, z)
          = <<Gui!RowReply(w, r.page, "slot")>> \o <<Gui!RowReply(w, r.page, r.attr)>> \o <<>>
    BY <1>2, <1>3, <1>4, <2>1, ReplyCases
  <2> QED  BY <1>4, <2>2, Joins
<1>5. CASE ~(r.attr = "name" /\ r.page = "leds")
  <2>1. Gui!NamedSlot(w, r) = <<>>  BY <1>3, <1>5
  <2>2. CASE r.attr = "effect" /\ ~z
    <3>1. CASE r.page = "leds"
      <4>1. r.attr \in Of(r.page)  BY <2>2, <3>1 DEF Of
      <4>2. Gui!Reply(w, r, z)
              = <<>> \o <<Gui!RowReply(w, r.page, r.attr)>> \o <<Gui!RowsReply(w, r.page)>>
        BY <1>2, <2>1, <2>2, <4>1, ReplyCases
      <4> QED  BY <2>2, <3>1, <4>2, Joins
    <3>2. CASE r.page = "pedals"
      <4>1. r.attr \notin Of(r.page)  BY <2>2, <3>2 DEF Of
      <4>2. Gui!Reply(w, r, z) = <<>> \o <<>> \o <<Gui!RowsReply(w, r.page)>>
        BY <1>2, <2>1, <2>2, <4>1, ReplyCases
      <4> QED  BY <2>2, <3>2, <4>2, Joins
    <3> QED  BY <1>1, <3>1, <3>2 DEF Gui!Pages
  <2>3. CASE ~(r.attr = "effect" /\ ~z)
    <3>0. Gui!Reply(w, r, z) = <<>> \o Gui!RowOf(w, r) \o <<>>
      <4>1. Gui!Reply(w, r, z) = Gui!NamedSlot(w, r) \o Gui!RowOf(w, r) \o <<>>
        BY <2>3, ReplyCases
      <4> QED  BY <4>1, <2>1
    <3>1. CASE r.attr \in Of(r.page)
      <4>1. r.attr # "name"
        BY <1>1, <1>5, <3>1 DEF Of, Gui!Pages
      <4>2. Gui!Reply(w, r, z) = <<>> \o <<Gui!RowReply(w, r.page, r.attr)>> \o <<>>
        BY <1>2, <3>0, <3>1
      <4>3. Gui!Reply(w, r, z) = <<Gui!RowReply(w, r.page, r.attr)>>  BY <4>2, Joins
      <4>4. r.attr = "effect" => z  BY <2>3
      <4> QED  BY <3>1, <4>1, <4>3, <4>4
    <3>2. CASE r.attr \notin Of(r.page)
      <4>2. Gui!Reply(w, r, z) = <<>> \o <<>> \o <<>>  BY <1>2, <3>0, <3>2
      <4>3. Gui!Reply(w, r, z) = <<>>  BY <4>2, Joins
      <4>4. r.attr = "effect" => z  BY <2>3
      <4> QED  BY <3>2, <4>3, <4>4
    <3> QED  BY <3>1, <3>2
  <2> QED  BY <2>2, <2>3
<1> QED  BY <1>4, <1>5

LEMMA ReplyIs ==
  ASSUME NEW w, IsWheel(w), NEW c \in Gui!Pages
  PROVE  /\ IsResp(Gui!RowsReply(w, c)) /\ Gui!RowsReply(w, c).kind = "rows"
              /\ Gui!RowsReply(w, c).page = c
         /\ Gui!RowsReply(w, c).vals = Gui!Values(w, c)
         /\ \A a \in Of(c) : LET y == Gui!RowReply(w, c, a)
                             IN  /\ IsResp(y) /\ y.kind = "row" /\ y.page = c /\ y.attr = a
                                 /\ y.v = Gui!Values(w, c)[a]
<1>1. /\ Gui!RowsReply(w, c).kind = "rows" /\ Gui!RowsReply(w, c).page = c
      /\ Gui!RowsReply(w, c).vals = Gui!Values(w, c)
  BY DEF Gui!RowsReply
<1>2. IsResp(Gui!RowsReply(w, c))  BY <1>1, ValuesAre DEF IsResp
<1>3. ASSUME NEW a \in Of(c)
      PROVE  LET y == Gui!RowReply(w, c, a)
             IN  /\ IsResp(y) /\ y.kind = "row" /\ y.page = c /\ y.attr = a
                 /\ y.v = Gui!Values(w, c)[a]
  <2>1. PICK y : y = Gui!RowReply(w, c, a)  OBVIOUS
  <2>2. y.kind = "row" /\ y.page = c /\ y.attr = a /\ y.v = Gui!Values(w, c)[a]
    BY <2>1 DEF Gui!RowReply
  <2>3. a = "slot" => Gui!Values(w, c)[a] \in LightSlots
    <3>1. CASE c = "pedals"  BY <3>1 DEF Of
    <3>2. CASE c = "leds"
      <4>1. IsLed(Gui!Values(w, c))  BY <3>2, ValuesAre DEF IsVals
      <4> QED  BY <4>1 DEF IsLed
    <3> QED  BY <3>1, <3>2 DEF Gui!Pages
  <2> QED  BY <2>1, <2>2, <2>3 DEF IsResp
<1> QED  BY <1>1, <1>2, <1>3

LEMMA TrailKnown ==
  ASSUME NEW V, NEW v, NEW s, NEW c, IsLine(s), Trail(V, v, s, c), KnownOK(v),
         \A i \in 1 .. Len(s) : IsResp(s[i])
  PROVE  \A i \in 1 .. Len(s) + 1 : KnownOK(V[i])
<1> DEFINE S == {n \in Nat : n + 1 \in 1 .. Len(s) + 1 => KnownOK(V[n + 1])}
<1>0. Len(s) \in Nat  BY LenProperties DEF IsLine
<1>1. 0 \in S  BY DEF Trail
<1>2. ASSUME NEW n \in Nat, n \in S PROVE n + 1 \in S
  <2>1. CASE n + 1 \in 1 .. Len(s)
    <3>1. KnownOK(V[n + 1])  BY <1>0, <1>2, <2>1
    <3>2. V[(n + 1) + 1] = After(V[n + 1], s[n + 1], c)  BY <2>1 DEF Trail
    <3>3. IsResp(s[n + 1])  BY <2>1
    <3> HIDE DEF S
    <3>4. KnownOK(V[(n + 1) + 1])  BY <3>1, <3>2, <3>3, AfterKnown
    <3> QED  BY <3>4 DEF S
  <2>2. CASE n + 1 \notin 1 .. Len(s)
    <3>1. (n + 1) + 1 \notin 1 .. Len(s) + 1  BY <1>0, <2>2
    <3> QED  BY <3>1
  <2> QED  BY <2>1, <2>2
<1>3. Nat \subseteq S
  <2> HIDE DEF S
  <2> QED  BY <1>1, <1>2, SetInduction
<1>4. ASSUME NEW i \in 1 .. Len(s) + 1 PROVE KnownOK(V[i])
  <2>1. i - 1 \in Nat /\ (i - 1) + 1 = i  BY <1>0
  <2>2. i - 1 \in S  BY <1>3, <2>1
  <2> QED  BY <2>1, <2>2
<1> QED  BY <1>4

\* The trail of a longer line starts with the trail of the shorter.
LEMMA TrailLonger ==
  ASSUME NEW V, NEW v, NEW s, NEW t, NEW c, IsLine(s), IsLine(t), Trail(V, v, s \o t, c)
  PROVE  /\ Trail(V, v, s, c)
         /\ \A i \in 1 .. Len(t) : V[Len(s) + i + 1] = After(V[Len(s) + i], t[i], c)
         /\ Len(s \o t) = Len(s) + Len(t) /\ Len(s) \in Nat /\ Len(t) \in Nat
<1>1. Len(s \o t) = Len(s) + Len(t) /\ Len(s) \in Nat /\ Len(t) \in Nat  BY LineJoined
<1>2. ASSUME NEW i \in 1 .. Len(s) PROVE V[i + 1] = After(V[i], s[i], c)
  <2>1. i \in 1 .. Len(s \o t)  BY <1>1
  <2>2. (s \o t)[i] = s[i]  BY LineJoined
  <2> QED  BY <2>1, <2>2 DEF Trail
<1>3. ASSUME NEW i \in 1 .. Len(t) PROVE V[Len(s) + i + 1] = After(V[Len(s) + i], t[i], c)
  <2>1. Len(s) + i \in 1 .. Len(s \o t)  BY <1>1
  <2>2. (s \o t)[Len(s) + i] = t[i]  BY LineJoined
  <2> QED  BY <2>1, <2>2 DEF Trail
<1> QED  BY <1>1, <1>2, <1>3 DEF Trail

\* The trail from the view after the first reply.
Leads(v, s, c, e) == \E W : Trail(W, v, s, c) /\ W[Len(s) + 1] = e

LEMMA TrailShorter ==
  ASSUME NEW V, NEW v, NEW s, NEW c, IsLine(s), s # <<>>, Trail(V, After(v, Head(s),
           c), Tail(s), c)
  PROVE  Leads(v, s, c, V[Len(Tail(s)) + 1])
<1> DEFINE W == [i \in 1 .. Len(s) + 1 |-> IF i = 1 THEN v ELSE V[i - 1]]
<1>1. /\ Len(s) \in Nat \ {0} /\ Len(Tail(s)) = Len(s) - 1 /\ Head(s) = s[1]
      /\ \A i \in 1 .. Len(Tail(s)) : Tail(s)[i] = s[i + 1]
  BY LineTaken
<1>2. W[1] = v /\ \A i \in 2 .. Len(s) + 1 : W[i] = V[i - 1]  BY <1>1
<1> HIDE DEF W
<1>3. ASSUME NEW i \in 1 .. Len(s) PROVE W[i + 1] = After(W[i], s[i], c)
  <2>1. CASE i = 1
    <3>1. W[i + 1] = V[1]  BY <1>1, <1>2, <2>1
    <3> QED  BY <1>1, <1>2, <2>1, <3>1 DEF Trail
  <2>2. CASE i # 1
    <3>1. W[i + 1] = V[i] /\ W[i] = V[i - 1]  BY <1>1, <1>2, <2>2
    <3>2. i - 1 \in 1 .. Len(Tail(s)) /\ (i - 1) + 1 = i  BY <1>1, <2>2
    <3>3. V[(i - 1) + 1] = After(V[i - 1], Tail(s)[i - 1], c)  BY <3>2 DEF Trail
    <3>4. Tail(s)[i - 1] = s[i]  BY <1>1, <3>2
    <3> QED  BY <3>1, <3>2, <3>3, <3>4
  <2> QED  BY <2>1, <2>2
<1>4. Trail(W, v, s, c)  BY <1>2, <1>3 DEF Trail
<1>5. W[Len(s) + 1] = V[Len(Tail(s)) + 1]  BY <1>1, <1>2
<1> QED  BY <1>4, <1>5 DEF Leads

LEMMA RowsLoad ==
  /\ \A l, n, t : l.page = "leds" => Gui!LoadRows(l, n, t) = Gui!ComposeLightsync(l.vals, n)
  /\ \A l, n, t : l.page = "pedals" => Gui!LoadRows(l, n, t) = Gui!ComposeShaping(l.vals, t)
BY Zenon DEF Gui!LoadRows

LEMMA Screens ==
  ASSUME ScreenOK
  PROVE  /\ shown.page = last.page
         /\ shown.page = "leds" => Lit = shown /\ IsLit(shown) /\ IsVals(last.vals, "leds")
                                 /\ last = [page |-> "leds", vals |-> last.vals]
         /\ shown.page # "leds" => Lit = Gui!NoRows
         /\ shown.page = "pedals" => /\ shown = Gui!ComposeShaping(last.vals, curves)
                                     /\ IsVals(last.vals, "pedals")
                                     /\ last = [page |-> "pedals", vals |-> last.vals]
<1>1. CASE last = Gui!NoRows /\ shown = Gui!NoRows
  <2>1. last.page = "none" /\ shown.page = "none"  BY <1>1 DEF Gui!NoRows
  <2> QED  BY <2>1 DEF Lit
<1>2. CASE /\ last = [page |-> "pedals", vals |-> last.vals] /\ IsVals(last.vals, "pedals")
           /\ shown = Gui!ComposeShaping(last.vals, curves)
  <2>1. last.page = "pedals"  BY <1>2
  <2>2. shown.page = "pedals"  BY <1>2 DEF Gui!ComposeShaping
  <2> QED  BY <1>2, <2>1, <2>2 DEF Lit
<1>3. CASE /\ last = [page |-> "leds", vals |-> last.vals] /\ IsVals(last.vals, "leds")
           /\ IsLit(shown)
  <2>1. last.page = "leds"  BY <1>3
  <2>2. shown.page = "leds"  BY <1>3, RowFields DEF IsLit
  <2> QED  BY <1>3, <2>1, <2>2 DEF Lit
<1> QED  BY <1>1, <1>2, <1>3 DEF ScreenOK

LEMMA RowsShown ==
  ASSUME NEW r, IsResp(r), r.kind = "rows", Gui!Rows(r), UNCHANGED curves
  PROVE  View' = RowsAfter(View, r) /\ ScreenOK'
<1>0. r.page \in Gui!Pages /\ IsVals(r.vals, r.page)  BY DEF IsResp
<1>1. View.known = known /\ View.names = names  BY DEF View
<1>2. known' = [a \in DOMAIN View.known \cup DOMAIN r.vals |->
                  IF a \in DOMAIN r.vals THEN r.vals[a] ELSE View.known[a]]
  BY <1>1 DEF Gui!Rows, Gui!Merged
<1>3. names' = IF r.page = "leds" THEN [View.names EXCEPT ![r.vals.slot] = r.vals.name]
               ELSE View.names
  BY <1>1 DEF Gui!Rows, Gui!Cached
<1>4. last' = [page |-> r.page, vals |-> r.vals]
        /\ shown' = Gui!LoadRows(last', names', curves)
  BY DEF Gui!Rows
<1>5. last'.page = r.page /\ last'.vals = r.vals  BY <1>4
<1>6. View' = [known |-> known', names |-> names', last |-> last', lit |-> Lit']
  BY DEF View
<1>7. CASE r.page = "leds"
  <2>1. shown' = Gui!ComposeLightsync(r.vals, names')  BY <1>4, <1>5, <1>7, RowsLoad
  <2>2. shown' = StripRow(Gui!SelectionIndex(r.vals.effect, r.vals.slot), Gui!Labels(names'),
                          r.vals.effect = Gui!Custom, Gui!Preview(r.vals))
    BY Zenon, <2>1 DEF Gui!ComposeLightsync, StripRow
  <2>3. shown'.page = "leds" /\ IsLit(shown')
    <3>1. PICK p, q, b, t : shown' = StripRow(p, q, b, t)  BY Zenon, <2>2
    <3> QED  BY <3>1, RowsLit
  <2>4. Lit' = shown'  BY <2>3 DEF Lit
  <2>5. View' = RowsAfter(View, r)
    BY <1>2, <1>3, <1>4, <1>6, <1>7, <2>1, <2>4 DEF RowsAfter
  <2>6. ScreenOK'  BY <1>0, <1>4, <1>5, <1>7, <2>3 DEF ScreenOK
  <2> QED  BY <2>5, <2>6
<1>8. CASE r.page = "pedals"
  <2>1. shown' = Gui!ComposeShaping(r.vals, curves)  BY <1>4, <1>5, <1>8, RowsLoad
  <2>2. shown'.page = "pedals"  BY <2>1 DEF Gui!ComposeShaping
  <2>3. Lit' = Gui!NoRows  BY <2>2 DEF Lit
  <2>5. View' = RowsAfter(View, r)
    BY <1>2, <1>3, <1>4, <1>6, <1>8, <2>3 DEF RowsAfter
  <2>6. shown' = Gui!ComposeShaping(last'.vals, curves')  BY <1>5, <2>1
  <2>7. ScreenOK'  BY <1>0, <1>4, <1>5, <1>8, <2>6 DEF ScreenOK
  <2> QED  BY <2>5, <2>7
<1> QED  BY <1>0, <1>7, <1>8 DEF Gui!Pages

LEMMA RowUpdates ==
  /\ \A r : shown.page # r.page => Gui!UpdateRow(r) = shown
  /\ \A r : shown.page = r.page
              /\ r.attr = "value" => Gui!UpdateRow(r) = [shown EXCEPT !.value = r.v]
  /\ \A r : shown.page = r.page /\ r.attr = "effect" =>
       Gui!UpdateRow(r) = [shown EXCEPT !.at = Gui!SelectionIndex(r.v, known'.slot),
                                    !.labels = Gui!Labels(names'), !.button = r.v
                                      = Gui!Custom]
  /\ \A r : shown.page = r.page /\ r.attr = "colors" =>
       Gui!UpdateRow(r) = [shown EXCEPT !.preview = Gui!Preview(known')]
  /\ \A r : shown.page = r.page /\ r.attr = "name" =>
       Gui!UpdateRow(r) = [shown EXCEPT !.labels = Gui!Labels(names')]
  /\ \A r : shown.page = r.page /\ r.attr \in {"slot", "apply"} => Gui!UpdateRow(r) = shown
<1>1. \A r : shown.page # r.page => Gui!UpdateRow(r) = shown  BY Zenon DEF Gui!UpdateRow
<1>2. \A r : shown.page = r.page
               /\ r.attr = "value" => Gui!UpdateRow(r) = [shown EXCEPT !.value = r.v]
  BY Zenon DEF Gui!UpdateRow
<1>3. \A r : shown.page = r.page /\ r.attr = "effect" =>
       Gui!UpdateRow(r) = [shown EXCEPT !.at = Gui!SelectionIndex(r.v, known'.slot),
                                    !.labels = Gui!Labels(names'), !.button = r.v
                                      = Gui!Custom]
  BY Zenon DEF Gui!UpdateRow
<1>4. \A r : shown.page = r.page /\ r.attr = "colors" =>
       Gui!UpdateRow(r) = [shown EXCEPT !.preview = Gui!Preview(known')]
  BY Zenon DEF Gui!UpdateRow
<1>5. \A r : shown.page = r.page /\ r.attr = "name" =>
       Gui!UpdateRow(r) = [shown EXCEPT !.labels = Gui!Labels(names')]
  BY Zenon DEF Gui!UpdateRow
<1>6. \A r : shown.page = r.page /\ r.attr = "slot" => Gui!UpdateRow(r) = shown
  BY Zenon DEF Gui!UpdateRow
<1>7. \A r : shown.page = r.page /\ r.attr = "apply" => Gui!UpdateRow(r) = shown
  BY Zenon DEF Gui!UpdateRow
<1> QED  BY <1>1, <1>2, <1>3, <1>4, <1>5, <1>6, <1>7

LEMMA RowShown ==
  ASSUME NEW r, IsResp(r), r.kind # "rows", Gui!RowUpdated(r), UNCHANGED curves, ScreenOK
  PROVE  View' = RowAfter(View, r) /\ ScreenOK'
<1>0. r.page \in Gui!Pages /\ r.attr \in Of(r.page)
        /\ (r.attr = "slot" => r.v \in LightSlots)
  BY DEF IsResp
<1>1. View.known = known /\ View.names = names /\ View.last = last /\ View.lit = Lit
  BY DEF View
<1>2. known' = KnownAfter(View, r)  BY <1>1 DEF Gui!RowUpdated, KnownAfter
<1>3. names' = NamesAfter(View, r)  BY <1>1 DEF Gui!RowUpdated, NamesAfter, Gui!Cached
<1>4. last' = IF View.last.page = r.page /\ r.attr \in DOMAIN View.last.vals
                THEN [View.last EXCEPT !.vals[r.attr] = r.v] ELSE View.last
  BY <1>1 DEF Gui!RowUpdated, Gui!LastAfter, Gui!Remembered
<1>5. shown' = Gui!UpdateRow(r)  BY DEF Gui!RowUpdated
<1>6. View' = [known |-> known', names |-> names', last |-> last', lit |-> Lit']
  BY DEF View
<1>7. Lit' = LitAfter(View, r) => View' = RowAfter(View, r)
  BY <1>2, <1>3, <1>4, <1>6 DEF RowAfter
<1>8. CASE shown.page # r.page
  <2>1. shown' = shown  BY <1>5, <1>8, RowUpdates
  <2>2. last' = last  BY <1>1, <1>4, <1>8, Screens
  <2>3. Lit' = Lit  BY <2>1 DEF Lit
  <2>4. r.page = "leds" => Lit.page # "leds"
    <3>1. shown.page # "leds" => Lit = Gui!NoRows  BY DEF Lit
    <3> QED  BY <1>8, <3>1 DEF Gui!NoRows
  <2>5. LitAfter(View, r) = Lit  BY <1>1, <2>4 DEF LitAfter
  <2>6. ScreenOK'  BY <2>1, <2>2 DEF ScreenOK
  <2> QED  BY <1>7, <2>3, <2>5, <2>6
<1>9. CASE shown.page = r.page /\ r.page = "pedals"
  <2>1. r.attr = "value"  BY <1>0, <1>9 DEF Of
  <2>2. shown' = [shown EXCEPT !.value = r.v]  BY <1>5, <1>9, <2>1, RowUpdates
  <2>3. PICK x : last.vals = [value |-> x]  BY <1>9, Screens DEF IsVals
  <2>4. last = [page |-> "pedals", vals |-> [value |-> x]]  BY <1>9, <2>3, Screens
  <2>5. shown = [page |-> "pedals", curve |-> curves, value |-> x]
    BY <1>9, <2>3, Screens DEF Gui!ComposeShaping
  <2>6. shown' = [page |-> "pedals", curve |-> curves, value |-> r.v]
    <3>1. PICK b, y : b = curves /\ y = r.v  OBVIOUS
    <3>2. shown = [page |-> "pedals", curve |-> b, value |-> x]  BY <2>5, <3>1
    <3>3. [shown EXCEPT !.value = y] = [page |-> "pedals", curve |-> b, value |-> y]
      BY <3>2
    <3> QED  BY <2>2, <3>1, <3>3
  <2>7. last' = [page |-> "pedals", vals |-> [value |-> r.v]]
    <3>1. PICK y : y = r.v  OBVIOUS
    <3>2. [last EXCEPT !.vals["value"] = y] = [page |-> "pedals", vals |-> [value |-> y]]
      <4>1. [[value |-> x] EXCEPT !["value"] = y] = [value |-> y]  OBVIOUS
      <4>2. [last EXCEPT !.vals["value"] = y] = [last EXCEPT !.vals
              = [last.vals EXCEPT !["value"] = y]]
        BY <2>4
      <4>3. PICK u : u = [value |-> y]  OBVIOUS
      <4>4. [last EXCEPT !.vals = u] = [page |-> "pedals", vals |-> u]  BY <2>4
      <4> QED  BY Zenon, <2>3, <4>1, <4>2, <4>3, <4>4
    <3>3. "value" \in DOMAIN last.vals /\ last.page = r.page  BY <1>9, <2>3, Screens
    <3> QED  BY <1>1, <1>4, <2>1, <3>1, <3>2, <3>3
  <2>8. Lit' = Gui!NoRows  BY <2>6 DEF Lit
  <2>9. LitAfter(View, r) = Lit /\ Lit = Gui!NoRows  BY <1>1, <1>9, Screens DEF LitAfter
  <2>10. ScreenOK'
    <3>1. last'.vals = [value |-> r.v]  BY <2>7
    <3>2. IsVals(last'.vals, "pedals")  BY <3>1 DEF IsVals
    <3>3. shown' = Gui!ComposeShaping(last'.vals, curves')
      BY <2>6, <3>1 DEF Gui!ComposeShaping
    <3> QED  BY <2>7, <3>1, <3>2, <3>3 DEF ScreenOK
  <2> QED  BY <1>7, <2>8, <2>9, <2>10
<1>10. CASE shown.page = r.page /\ r.page = "leds"
  <2>1. /\ last = [page |-> "leds", vals |-> last.vals] /\ IsVals(last.vals, "leds")
        /\ IsLit(shown) /\ Lit = shown /\ last.page = r.page
    BY <1>10, Screens
  <2>2. PICK p, q, b, t : shown = StripRow(p, q, b, t) /\ shown.at = p /\ shown.labels = q
                          /\ shown.button = b /\ shown.preview = t
    BY Zenon, <2>1 DEF IsLit
  <2>3. Lit' = LitAfter(View, r) /\ IsLit(shown')
    <3>1. PICK l : l = View.lit /\ l = shown  BY <1>1, <2>1
    <3>2. l.page = "leds" /\ l.at = p /\ l.labels = q /\ l.button = b /\ l.preview = t
      BY <1>10, <2>2, <3>1
    <3>w. l = StripRow(p, q, b, t)  BY <2>2, <3>1
    <3>3. CASE r.attr = "effect"
      <4>1. PICK x, y, z : x = Gui!SelectionIndex(r.v, known'.slot)
              /\ y = Gui!Labels(names')
                           /\ z = (r.v = Gui!Custom)
        OBVIOUS
      <4>2. shown' = [shown EXCEPT !.at = x, !.labels = y, !.button = z]
        BY Zenon, <1>5, <1>10, <3>3, <4>1, RowUpdates
      <4>x. [l EXCEPT !.at = x, !.labels = y, !.button = z] = StripRow(x, y, z, t)
        <5>1. [l EXCEPT !.at = x] = StripRow(x, q, b, t)  BY <3>w DEF StripRow
        <5>2. [StripRow(x, q, b, t) EXCEPT !.labels = y] = StripRow(x, y, b, t)
          BY DEF StripRow
        <5>3. [StripRow(x, y, b, t) EXCEPT !.button = z] = StripRow(x, y, z, t)
          BY DEF StripRow
        <5> QED  BY <5>1, <5>2, <5>3
      <4>3. shown' = StripRow(x, y, z, t)  BY Zenon, <3>1, <4>2, <4>x
      <4>4. LitAfter(View, r) = StripRow(x, y, z, t)
        BY Zenon, <1>2, <1>3, <1>10, <3>1, <3>2, <3>3, <4>1 DEF LitAfter
      <4>5. IsLit(shown') /\ shown'.page = "leds"  BY Zenon, <4>3, RowsLit
      <4> QED  BY <4>3, <4>4, <4>5 DEF Lit
    <3>4. CASE r.attr = "colors"
      <4>1. PICK x : x = Gui!Preview(known')  OBVIOUS
      <4>2. shown' = [shown EXCEPT !.preview = x]
        BY Zenon, <1>5, <1>10, <3>4, <4>1, RowUpdates
      <4>x. [l EXCEPT !.preview = x] = StripRow(p, q, b, x)  BY <3>w DEF StripRow
      <4>3. shown' = StripRow(p, q, b, x)  BY Zenon, <3>1, <4>2, <4>x
      <4>4. LitAfter(View, r) = StripRow(p, q, b, x)
        BY Zenon, <1>2, <1>3, <1>10, <3>1, <3>2, <3>4, <4>1 DEF LitAfter
      <4>5. IsLit(shown') /\ shown'.page = "leds"  BY Zenon, <4>3, RowsLit
      <4> QED  BY <4>3, <4>4, <4>5 DEF Lit
    <3>5. CASE r.attr = "name"
      <4>1. PICK y : y = Gui!Labels(names')  OBVIOUS
      <4>2. shown' = [shown EXCEPT !.labels = y]
        BY Zenon, <1>5, <1>10, <3>5, <4>1, RowUpdates
      <4>x. [l EXCEPT !.labels = y] = StripRow(p, y, b, t)  BY <3>w DEF StripRow
      <4>3. shown' = StripRow(p, y, b, t)  BY Zenon, <3>1, <4>2, <4>x
      <4>4. LitAfter(View, r) = StripRow(p, y, b, t)
        BY Zenon, <1>2, <1>3, <1>10, <3>1, <3>2, <3>5, <4>1 DEF LitAfter
      <4>5. IsLit(shown') /\ shown'.page = "leds"  BY Zenon, <4>3, RowsLit
      <4> QED  BY <4>3, <4>4, <4>5 DEF Lit
    <3>6. CASE r.attr \in {"slot", "apply"}
      <4>1. shown' = shown  BY <1>5, <1>10, <3>6, RowUpdates
      <4>2. LitAfter(View, r) = l  BY <3>1, <3>6 DEF LitAfter
      <4>3. Lit' = Lit  BY <4>1 DEF Lit
      <4> QED  BY <1>1, <2>1, <3>1, <4>1, <4>2, <4>3
    <3> QED  BY <1>0, <1>10, <3>3, <3>4, <3>5, <3>6 DEF Of
  <2>4. last' = [page |-> "leds", vals |-> last'.vals] /\ IsVals(last'.vals, "leds")
    <3>1. PICK m, x : m = last.vals /\ x = r.v  OBVIOUS
    <3>2. last = [page |-> "leds", vals |-> m]  BY <2>1, <3>1
    <3>3. PICK a : a = r.attr  OBVIOUS
    <3>4. IsLed(m)  BY <2>1, <3>1 DEF IsVals
    <3>5. PICK s, n, d, e, g : m
            = [slot |-> s, name |-> n, colors |-> d, effect |-> e, apply |-> g]
                               /\ s \in LightSlots
      BY <3>4 DEF IsLed
    <3>6. PICK u : u = [m EXCEPT ![a] = x]  OBVIOUS
    <3>7. a \in {"slot", "name", "colors", "effect", "apply"}
            /\ (a = "slot" => x \in LightSlots)
      BY <1>0, <1>10, <3>1, <3>3 DEF Of
    <3>8. IsLed(u)
      <4>1. CASE a = "slot"  BY <3>5, <3>6, <3>7, <4>1 DEF IsLed
      <4>2. CASE a = "name"  BY <3>5, <3>6, <3>7, <4>2 DEF IsLed
      <4>3. CASE a = "colors"  BY <3>5, <3>6, <3>7, <4>3 DEF IsLed
      <4>4. CASE a = "effect"  BY <3>5, <3>6, <3>7, <4>4 DEF IsLed
      <4>5. CASE a = "apply"  BY <3>5, <3>6, <3>7, <4>5 DEF IsLed
      <4> QED  BY <3>7, <4>1, <4>2, <4>3, <4>4, <4>5
    <3>9. last' = [page |-> "leds", vals |-> u]
      <4>1. a \in DOMAIN m  BY <3>5, <3>7
      <4>2. last' = [last EXCEPT !.vals[a] = x]  BY <1>1, <1>4, <2>1, <3>1, <3>3, <4>1
      <4>3. [last EXCEPT !.vals[a] = x] = [last EXCEPT !.vals = [last.vals EXCEPT ![a] = x]]
        BY <3>2
      <4>4. [last EXCEPT !.vals = u] = [page |-> "leds", vals |-> u]  BY <3>2
      <4> QED  BY <3>1, <3>6, <4>2, <4>3, <4>4
    <3>10. last'.vals = u  BY <3>9
    <3> QED  BY <3>8, <3>9, <3>10 DEF IsVals
  <2>5. ScreenOK'  BY <2>3, <2>4 DEF ScreenOK
  <2> QED  BY <1>7, <2>3, <2>5
<1> QED  BY <1>0, <1>8, <1>9, <1>10 DEF Gui!Pages

Shown == <<wheel, resps, cat, known, names, last, shown, curves, split, faults, touches>>

LEMMA AskKeeps ==
  ASSUME GuiInv, UNCHANGED Shown, NEW s, IsLine(s), Gui!Ask(s),
         \A i \in 1 .. Len(s) : IsReq(s[i]) /\ s[i].page = cat,
         \A i \in 1 .. Len(s) : s[i].op = "edit" /\ s[i].attr = "slot" =>
           \E j \in i + 1 .. Len(s) : s[j].op = "load",
         \A i \in 1 .. Len(s) : s[i].op = "edit" /\ s[i].attr \in {"slot", "colors"} =>
           i + 1 \in 1 .. Len(s) /\ Applies(s[i + 1])
  PROVE  GuiInv'
<1> USE DEF Shown
<1>0. IsLine(reqs) /\ reqs' = reqs \o s  BY DEF GuiInv, QueuesOK, Gui!Ask
<1>1. /\ IsLine(reqs') /\ Len(reqs') = Len(reqs) + Len(s) /\ Len(reqs) \in Nat
           /\ Len(s) \in Nat
      /\ \A i \in 1 .. Len(reqs) : reqs'[i] = reqs[i]
      /\ \A i \in 1 .. Len(s) : reqs'[Len(reqs) + i] = s[i]
      /\ \A i \in 1 .. Len(reqs') : i \in 1 .. Len(reqs) \/ i - Len(reqs) \in 1 .. Len(s)
  <2>1. Grown(reqs', reqs, s)  BY <1>0, LineGrown
  <2> QED  BY <2>1 DEF Grown
<1>2. \A i \in 1 .. Len(reqs') : i \notin 1 .. Len(reqs) => reqs'[i] = s[i - Len(reqs)]
  <2>1. Grown(reqs', reqs, s)  BY <1>0, LineGrown
  <2> QED  BY <2>1 DEF Grown
<1>3. QueuesOK'
  <2>1. \A i \in 1 .. Len(reqs') : IsReq(reqs'[i])
    <3> TAKE i \in 1 .. Len(reqs')
    <3>1. CASE i \in 1 .. Len(reqs)  BY <1>1, <3>1 DEF GuiInv, QueuesOK
    <3>2. CASE i \notin 1 .. Len(reqs)  BY <1>1, <1>2, <3>2
    <3> QED  BY <3>1, <3>2
  <2> QED  BY <1>1, <2>1 DEF GuiInv, QueuesOK
<1>4. Ahead'
  <2> SUFFICES ASSUME NEW i \in 1 .. Len(reqs'), IsStale(reqs'[i])
               PROVE  \E j \in i + 1 .. Len(reqs') : reqs'[j].op = "load"
                        /\ reqs'[j].page = cat
    BY DEF Ahead, IsStale
  <2>1. CASE i \in 1 .. Len(reqs)
    <3>1. PICK j \in i + 1 .. Len(reqs) : reqs[j].op = "load" /\ reqs[j].page = cat
      BY <1>1, <2>1 DEF GuiInv, Ahead
    <3>2. j \in 1 .. Len(reqs) /\ j \in i + 1 .. Len(reqs')  BY <1>1, <2>1
    <3> QED  BY <1>1, <3>1, <3>2
  <2>2. CASE i \notin 1 .. Len(reqs)
    <3>1. i - Len(reqs) \in 1 .. Len(s) /\ reqs'[i] = s[i - Len(reqs)]  BY <1>1, <1>2, <2>2
    <3>2. s[i - Len(reqs)].op = "edit" /\ s[i - Len(reqs)].attr = "slot"
      BY <3>1 DEF IsStale
    <3>3. PICK j \in (i - Len(reqs)) + 1 .. Len(s) : s[j].op = "load"  BY <3>1, <3>2
    <3>4. j \in 1 .. Len(s) /\ Len(reqs) + j \in i + 1 .. Len(reqs')  BY <1>1, <3>1
    <3>5. reqs'[Len(reqs) + j] = s[j] /\ s[j].page = cat  BY <1>1, <3>4
    <3> QED  BY <3>3, <3>4, <3>5
  <2> QED  BY <2>1, <2>2
<1>5. Settling'
  <2>1. ~Pending' => ~Pending
    <3> SUFFICES ASSUME Pending PROVE Pending'
      OBVIOUS
    <3>1. PICK j \in 1 .. Len(reqs) : reqs[j].op = "load" /\ reqs[j].page = cat
      BY DEF Pending
    <3>2. j \in 1 .. Len(reqs') /\ reqs'[j] = reqs[j]  BY <1>1
    <3> QED  BY <3>1, <3>2 DEF Pending
  <2>2. View' = View  BY DEF View, Lit
  <2> QED  BY <2>1, <2>2 DEF GuiInv, Settling
<1>6. Stripped'
  <2>1. ASSUME NEW i \in 1 .. Len(reqs'), reqs'[i].op = "edit",
                 reqs'[i].attr \in {"slot", "colors"}
        PROVE  i + 1 \in 1 .. Len(reqs') /\ Applies(reqs'[i + 1])
    <3>1. CASE i \in 1 .. Len(reqs)
      <4>1. i + 1 \in 1 .. Len(reqs) /\ Applies(reqs[i + 1])
        BY <1>1, <2>1, <3>1 DEF GuiInv, Stripped
      <4> QED  BY <1>1, <4>1
    <3>2. CASE i \notin 1 .. Len(reqs)
      <4>1. i - Len(reqs) \in 1 .. Len(s) /\ reqs'[i] = s[i - Len(reqs)]
        BY <1>1, <1>2, <3>2
      <4>2. (i - Len(reqs)) + 1 \in 1 .. Len(s) /\ Applies(s[(i - Len(reqs)) + 1])
        BY <2>1, <4>1
      <4>3. Len(reqs) + ((i - Len(reqs)) + 1) = i + 1  BY <1>1
      <4>4. reqs'[Len(reqs) + ((i - Len(reqs)) + 1)] = s[(i - Len(reqs)) + 1]  BY <1>1, <4>2
      <4>5. i + 1 \in 1 .. Len(reqs')  BY <1>1, <4>2
      <4> QED  BY <4>2, <4>3, <4>4, <4>5
    <3> QED  BY <3>1, <3>2
  <2>2. reqs # <<>> => reqs' # <<>> /\ reqs'[1] = reqs[1]
    <3> HAVE reqs # <<>>
    <3>1. Len(reqs) \in Nat \ {0} /\ 1 \in 1 .. Len(reqs)  BY <1>0, LineTaken
    <3>2. Len(reqs') # 0  BY <1>1, <3>1
    <3> QED  BY <1>1, <3>1, <3>2, LinesOf
  <2> QED  BY <2>1, <2>2 DEF GuiInv, Stripped, Applies
<1>7. Named'  BY DEF GuiInv, Named, Good, GoodOf, IsName, IsSlot
<1>8. KnownOK(View)' /\ ScreenOK'
  BY DEF GuiInv, View, Lit, KnownOK, IsFcn, ScreenOK
<1>9. cat' \in Gui!Pages /\ touches' \in Nat /\ faults' \in Nat /\ IsWheel(wheel)'
  BY DEF GuiInv, IsWheel
<1> QED  BY <1>3, <1>4, <1>5, <1>6, <1>7, <1>8, <1>9 DEF GuiInv

LEMMA SelectKeeps ==
  ASSUME GuiInv, Gui!SelectCategory PROVE GuiInv'
<1>1. PICK p \in Gui!Pages : /\ cat' = p /\ reqs' = reqs \o <<Gui!Load(p)>>
                             /\ split' = (split \/ (p # cat /\ Gui!MidRename))
  BY DEF Gui!SelectCategory, Gui!Ask
<1>2. PICK q : q = Gui!Load(p)  OBVIOUS
<1>3. q.op = "load" /\ q.page = p  BY <1>2 DEF Gui!Load
<1>4. IsLine(reqs) /\ IsLine(<<q>>) /\ Len(<<q>>) = 1 /\ <<q>>[1] = q
  BY LinesOf DEF GuiInv, QueuesOK
<1>5. /\ IsLine(reqs') /\ Len(reqs') = Len(reqs) + 1 /\ Len(reqs) \in Nat
      /\ \A i \in 1 .. Len(reqs) : reqs'[i] = reqs[i]
      /\ reqs'[Len(reqs) + 1] = q
  <2>1. reqs' = reqs \o <<q>>  BY <1>1, <1>2
  <2>2. 1 \in 1 .. Len(<<q>>)  BY <1>4
  <2>3. Grown(reqs', reqs, <<q>>)  BY <1>4, <2>1, LineGrown
  <2> QED  BY <1>4, <2>2, <2>3 DEF Grown
<1>6. /\ UNCHANGED <<wheel, resps, known, names, last, shown, curves, faults, touches>>
  BY DEF Gui!SelectCategory
<1>7. QueuesOK'
  <2>1. \A i \in 1 .. Len(reqs') : IsReq(reqs'[i])
    <3> TAKE i \in 1 .. Len(reqs')
    <3>1. CASE i \in 1 .. Len(reqs)  BY <1>5, <3>1 DEF GuiInv, QueuesOK
    <3>2. CASE i = Len(reqs) + 1  BY <1>3, <1>5, <3>2 DEF IsReq
    <3> QED  BY <1>5, <3>1, <3>2
  <2> QED  BY <1>5, <1>6, <2>1 DEF GuiInv, QueuesOK
<1>8. Ahead'
  <2> SUFFICES ASSUME NEW i \in 1 .. Len(reqs'), IsStale(reqs[i])'
               PROVE  \E j \in i + 1 .. Len(reqs') : reqs'[j].op = "load"
                        /\ reqs'[j].page = cat'
    BY DEF Ahead
  <2>1. i # Len(reqs) + 1  BY <1>1, <1>3, <1>5 DEF IsStale
  <2>2. Len(reqs) + 1 \in i + 1 .. Len(reqs')  BY <1>5, <2>1
  <2> QED  BY <1>1, <1>3, <1>5, <2>2
<1>9. Settling'
  <2>1. Len(reqs) + 1 \in 1 .. Len(reqs')  BY <1>5
  <2>2. Pending'  BY <1>1, <1>3, <1>5, <2>1 DEF Pending
  <2> QED  BY <2>2 DEF Settling
<1>10. Stripped'
  <2>1. ASSUME NEW i \in 1 .. Len(reqs'), reqs'[i].op = "edit",
                 reqs'[i].attr \in {"slot", "colors"}
        PROVE  i + 1 \in 1 .. Len(reqs') /\ Applies(reqs'[i + 1])
    <3>1. i \in 1 .. Len(reqs)  BY <1>3, <1>5, <2>1
    <3>2. i + 1 \in 1 .. Len(reqs) /\ Applies(reqs[i + 1])
      BY <1>5, <2>1, <3>1 DEF GuiInv, Stripped
    <3> QED  BY <1>5, <3>2
  <2>2. reqs # <<>> => reqs' # <<>> /\ reqs'[1] = reqs[1]
    <3> HAVE reqs # <<>>
    <3>1. Len(reqs) \in Nat \ {0} /\ 1 \in 1 .. Len(reqs)  BY <1>4, LineTaken
    <3>2. Len(reqs') # 0  BY <1>5, <3>1
    <3> QED  BY <1>5, <3>1, <3>2, LinesOf
  <2> QED  BY <1>6, <2>1, <2>2 DEF GuiInv, Stripped, Applies
<1>11. Named'
  <2>1. ASSUME resps # <<>>, ~split', p = "leds", IsName(resps[1]) PROVE p = cat
    <3>1. Head(resps) = resps[1]  BY <2>1, LineTaken DEF GuiInv, QueuesOK
    <3>2. Gui!MidRename  BY <2>1, <3>1 DEF Gui!MidRename, IsName
    <3> QED  BY <1>1, <2>1, <3>2
  <2>2. ~split' => ~split  BY <1>1
  <2> QED  BY <1>1, <1>6, <2>1, <2>2 DEF GuiInv, Named, Good, GoodOf, IsName, IsSlot
<1>12. KnownOK(View)' /\ ScreenOK'
  BY <1>6 DEF GuiInv, View, Lit, KnownOK, IsFcn, ScreenOK
<1>13. cat' \in Gui!Pages /\ touches' \in Nat /\ faults' \in Nat /\ IsWheel(wheel)'
  BY <1>1, <1>6 DEF GuiInv, IsWheel
<1> QED  BY <1>7, <1>8, <1>9, <1>10, <1>11, <1>12, <1>13 DEF GuiInv

LEMMA ToggleKeeps ==
  ASSUME GuiInv, Gui!ToggleShaping PROVE GuiInv'
<1>1. shown.page = "pedals" /\ curves' = ~curves
        /\ shown' = Gui!LoadRows(last, names, ~curves)
  BY DEF Gui!ToggleShaping
<1>2. UNCHANGED <<split, wheel, reqs, resps, cat, known, names, last, faults, touches>>
  BY DEF Gui!ToggleShaping
<1>3. /\ last.page = "pedals" /\ IsVals(last.vals, "pedals") /\ Lit = Gui!NoRows
      /\ last = [page |-> "pedals", vals |-> last.vals]
  BY <1>1, Screens DEF GuiInv
<1>4. shown' = Gui!ComposeShaping(last.vals, curves')  BY Zenon, <1>1, <1>3, RowsLoad
<1>5. shown'.page = "pedals"  BY <1>4 DEF Gui!ComposeShaping
<1>6. Lit' = Lit  BY <1>3, <1>5 DEF Lit
<1>7. View' = View  BY <1>2, <1>6 DEF View
<1>8. ScreenOK'  BY <1>2, <1>3, <1>4 DEF ScreenOK
<1>9. QueuesOK' /\ Ahead' /\ Stripped' /\ Named'
  BY <1>2 DEF GuiInv, QueuesOK, Ahead, IsStale, Stripped, Applies, Named, Good, GoodOf,
       IsName, IsSlot
<1>10. Settling'  BY <1>2, <1>7 DEF GuiInv, Settling, Pending
<1>11. KnownOK(View)' /\ cat' \in Gui!Pages /\ touches' \in Nat /\ faults' \in Nat
         /\ IsWheel(wheel)'
  BY <1>2, <1>7 DEF GuiInv, IsWheel, KnownOK, IsFcn
<1> QED  BY <1>8, <1>9, <1>10, <1>11 DEF GuiInv

LEMMA TouchKeeps ==
  ASSUME GuiInv, Gui!OtherSlot PROVE GuiInv'
<1>1. PICK x \in LightSlots : wheel' = [wheel EXCEPT !.slot = x]  BY DEF Gui!OtherSlot
<1>2. UNCHANGED <<split, reqs, resps, cat, known, names, last, shown, curves, faults>>
      /\ touches' = touches + 1
  BY DEF Gui!OtherSlot
<1>3. touches' \in Nat /\ touches' # 0  BY <1>2 DEF GuiInv
<1>4. IsWheel(wheel') /\ wheel'.names = wheel.names
  <2>1. IsWheel(wheel)  BY DEF GuiInv
  <2>2. PICK s, n, d, e, p, v : /\ wheel = WheelRow(s, n, d, e, p, v) /\ IsFcn(n)
          /\ IsFcn(d)
                                /\ \A t \in LightSlots : n[t] \in {t, Gui!New}
    <3>1. wheel = WheelRow(wheel.slot, wheel.names, wheel.colors, wheel.effect, wheel.strip,
                           wheel.value)
      BY <2>1 DEF IsWheel
    <3> QED  BY <2>1, <3>1 DEF IsWheel
  <2>3. wheel' = WheelRow(x, n, d, e, p, v)  BY <1>1, <2>2 DEF WheelRow
  <2>4. wheel'.slot = x /\ wheel'.names = n /\ wheel'.colors = d /\ wheel'.effect = e
        /\ wheel'.strip = p /\ wheel'.value = v /\ wheel.names = n
    BY <2>2, <2>3 DEF WheelRow
  <2> QED  BY <2>2, <2>3, <2>4 DEF IsWheel
<1>5. QueuesOK' /\ Ahead' /\ Stripped' /\ Settling'
  BY <1>2, <1>3 DEF GuiInv, QueuesOK, Ahead, IsStale, Stripped, Applies, Settling
<1>6. Named'  BY <1>2, <1>4 DEF GuiInv, Named, Good, GoodOf, IsName, IsSlot
<1>7. KnownOK(View)' /\ ScreenOK' /\ cat' \in Gui!Pages /\ faults' \in Nat
  BY <1>2 DEF GuiInv, View, Lit, KnownOK, IsFcn, ScreenOK
<1> QED  BY <1>3, <1>4, <1>5, <1>6, <1>7 DEF GuiInv

LEMMA RespondKeeps ==
  ASSUME GuiInv, Gui!Respond PROVE GuiInv'
<1>0. resps # <<>> /\ IsLine(resps) /\ \A i \in 1 .. Len(resps) : IsResp(resps[i])
  BY DEF GuiInv, QueuesOK, Gui!Respond
<1>1. PICK r : r = Head(resps)  OBVIOUS
<1>2. /\ IsLine(resps') /\ Len(resps) \in Nat \ {0} /\ Len(resps') = Len(resps) - 1
      /\ r = resps[1] /\ 1 \in 1 .. Len(resps)
      /\ \A i \in 1 .. Len(resps') : resps'[i] = resps[i + 1] /\ i + 1 \in 1 .. Len(resps)
  <2>1. resps' = Tail(resps)  BY DEF Gui!Respond
  <2> QED  BY <1>0, <1>1, <2>1, LineTaken
<1>3. IsResp(r)  BY <1>0, <1>2
<1>4. UNCHANGED <<split, wheel, reqs, cat, curves, faults, touches>>  BY DEF Gui!Respond
<1>5. ScreenOK  BY DEF GuiInv
<1>6. /\ r.page # cat => UNCHANGED <<known, names, last, shown>>
      /\ r.page = cat /\ r.kind = "rows" => Gui!Rows(r)
      /\ r.page = cat /\ r.kind # "rows" => Gui!RowUpdated(r)
  BY <1>1 DEF Gui!Respond
<1>7. View' = After(View, r, cat) /\ ScreenOK'
  <2>1. CASE r.page # cat
    <3>1. View' = View  BY <1>6, <2>1 DEF View, Lit
    <3>2. ScreenOK'  BY <1>4, <1>5, <1>6, <2>1 DEF ScreenOK
    <3> QED  BY <2>1, <3>1, <3>2 DEF After
  <2>2. CASE r.page = cat /\ r.kind = "rows"  BY <1>3, <1>4, <1>6, <2>2, RowsShown DEF After
  <2>3. CASE r.page = cat /\ r.kind # "rows"
    BY <1>3, <1>4, <1>5, <1>6, <2>3, RowShown DEF After
  <2> QED  BY <2>1, <2>2, <2>3
<1>8. KnownOK(View')
  <2>1. KnownOK(View)  BY DEF GuiInv
  <2> QED  BY <1>3, <1>7, <2>1, AfterKnown
<1>9. QueuesOK'  BY <1>0, <1>2, <1>4 DEF GuiInv, QueuesOK
<1>10. Ahead' /\ Stripped'  BY <1>4 DEF GuiInv, Ahead, IsStale, Stripped, Applies
<1>11. Settling'
  <2> SUFFICES ASSUME touches = 0, ~Pending, NEW V, Trail(V, View', resps', cat)
               PROVE  Settled(V[Len(resps') + 1], Gui!Values(wheel, cat), cat)
    BY <1>4 DEF Settling, Pending
  <2>1. resps' = Tail(resps)  BY DEF Gui!Respond
  <2>2. Trail(V, After(View, Head(resps), cat), Tail(resps), cat)  BY <1>1, <1>7, <2>1
  <2>3. PICK W : Trail(W, View, resps, cat) /\ W[Len(resps) + 1] = V[Len(Tail(resps)) + 1]
    <3>1. Leads(View, resps, cat, V[Len(Tail(resps)) + 1])  BY <1>0, <2>2, TrailShorter
    <3> QED  BY <3>1 DEF Leads
  <2>4. Settled(W[Len(resps) + 1], Gui!Values(wheel, cat), cat)
    BY <2>3 DEF GuiInv, Settling
  <2> QED  BY <2>1, <2>3, <2>4
<1>12. Named'
  <2>1. ~split => \A s \in LightSlots : Good(s, names'[s])
    <3> HAVE ~split
    <3>0. \A s \in LightSlots : Good(s, names[s])  BY DEF GuiInv, Named
    <3>a. IsFcn(names) /\ known.slot \in LightSlots  BY DEF GuiInv, KnownOK, View
    <3>1. CASE r.page # cat  BY <1>6, <3>0, <3>1
    <3>2. CASE r.page = cat /\ r.kind = "rows"
      <4>1. names' = IF r.page = "leds" THEN [names EXCEPT ![r.vals.slot]
              = r.vals.name] ELSE names
        BY <1>6, <3>2 DEF Gui!Rows, Gui!Cached
      <4>2. r.page = "leds" => Good(r.vals.slot, r.vals.name)
        BY <1>2, <3>2 DEF GuiInv, Named
      <4> QED  BY <3>0, <3>a, <4>1, <4>2 DEF IsFcn
    <3>3. CASE r.page = cat /\ r.kind # "rows"
      <4>1. names' = IF r.attr = "name" THEN [names EXCEPT ![known.slot] = r.v] ELSE names
        BY <1>6, <3>3 DEF Gui!RowUpdated, Gui!Cached
      <4>2. r.attr = "name" => Good(known.slot, r.v)
        <5> HAVE r.attr = "name"
        <5>1. r.kind = "row" /\ r.page = "leds"  BY <1>3, <3>3 DEF IsResp, Of, Gui!Pages
        <5> QED  BY <1>0, <1>2, <3>3, <5>1 DEF GuiInv, Named, IsName
      <4> QED  BY <3>0, <3>a, <4>1, <4>2 DEF IsFcn
    <3> QED  BY <3>1, <3>2, <3>3
  <2>2. ASSUME NEW i \in 1 .. Len(resps')
        PROVE  /\ resps'[i].kind = "rows" /\ resps'[i].page = "leds" =>
                    Good(resps'[i].vals.slot, resps'[i].vals.name)
               /\ IsName(resps'[i]) /\ i # 1 => IsSlot(resps'[i - 1])
                    /\ Good(resps'[i - 1].v, resps'[i].v)
    <3>1. resps'[i] = resps[i + 1] /\ i + 1 \in 1 .. Len(resps) /\ i + 1 # 1
            /\ (i + 1) - 1 = i
      BY <1>2
    <3>2. i # 1 => resps'[i - 1] = resps[i]
      <4> HAVE i # 1
      <4>1. i - 1 \in 1 .. Len(resps') /\ (i - 1) + 1 = i  BY <1>2
      <4> QED  BY <1>2, <4>1
    <3>3. resps[i + 1].kind = "rows" /\ resps[i + 1].page = "leds" =>
            Good(resps[i + 1].vals.slot, resps[i + 1].vals.name)
      BY <3>1 DEF GuiInv, Named
    <3>4. IsName(resps[i + 1]) => IsSlot(resps[i]) /\ Good(resps[i].v, resps[i + 1].v)
      BY <3>1 DEF GuiInv, Named
    <3> QED  BY <3>1, <3>2, <3>3, <3>4
  <2>3. ASSUME resps' # <<>>, ~split, cat = "leds", IsName(resps'[1])
        PROVE  Good(known'.slot, resps'[1].v)
    <3>1. Len(resps') # 0
      <4>1. PICK S : resps' \in Seq(S)  BY <1>2 DEF IsLine
      <4> QED  BY <2>3, <4>1, EmptySeq
    <3>2. 1 \in 1 .. Len(resps') /\ 1 + 1 = 2  BY <1>2, <3>1
    <3>3. resps'[1] = resps[2] /\ 2 \in 1 .. Len(resps) /\ 2 # 1 /\ 2 - 1 = 1  BY <1>2, <3>2
    <3>4. IsSlot(resps[1]) /\ Good(resps[1].v, resps[2].v)
      BY <2>3, <3>3 DEF GuiInv, Named
    <3>5. r.kind = "row" /\ r.attr = "slot" /\ r.page = cat  BY <1>2, <2>3, <3>4 DEF IsSlot
    <3>6. "slot" \in DOMAIN known /\ known = [a \in DOMAIN known |-> known[a]]
      BY DEF GuiInv, KnownOK, View
    <3>7. known' = [known EXCEPT !["slot"] = r.v]  BY <1>6, <3>5, <3>6 DEF Gui!RowUpdated
    <3>8. known'["slot"] = r.v  BY <3>6, <3>7
    <3> QED  BY <1>2, <3>3, <3>4, <3>8
  <2> QED  BY <1>4, <2>1, <2>2, <2>3 DEF Named, Good, GoodOf, IsName, IsSlot
<1>13. cat' \in Gui!Pages /\ touches' \in Nat /\ faults' \in Nat /\ IsWheel(wheel)'
  BY <1>4 DEF GuiInv, IsWheel
<1> QED  BY <1>7, <1>8, <1>9, <1>10, <1>11, <1>12, <1>13 DEF GuiInv

\* What the worker answers names slots rightly.
NamesRight(w, R) ==
  \A k \in 1 .. Len(R) :
    /\ R[k].kind = "rows" /\ R[k].page = "leds" => GoodOf(w, R[k].vals.slot, R[k].vals.name)
    /\ IsName(R[k]) => k = 2 /\ IsSlot(R[1]) /\ GoodOf(w, R[1].v, R[2].v)

LEMMA RepliesRight ==
  ASSUME NEW w, IsWheel(w), NEW r, IsReq(r), NEW z \in BOOLEAN, NEW R, R = Gui!Reply(w,
           r, z)
  PROVE  IsLine(R) /\ (\A i \in 1 .. Len(R) : IsResp(R[i])) /\ NamesRight(w, R)
<1>1. \A c \in Gui!Pages :
        /\ IsResp(Gui!RowsReply(w, c)) /\ Gui!RowsReply(w, c).kind = "rows"
             /\ Gui!RowsReply(w, c).page = c
        /\ Gui!RowsReply(w, c).vals = Gui!Values(w, c) /\ ~IsName(Gui!RowsReply(w, c))
  BY ReplyIs DEF IsName
<1>2. \A c \in Gui!Pages : \A a \in Of(c) :
        /\ IsResp(Gui!RowReply(w, c, a)) /\ Gui!RowReply(w, c, a).kind = "row"
        /\ Gui!RowReply(w, c, a).page = c /\ Gui!RowReply(w, c, a).attr = a
        /\ Gui!RowReply(w, c, a).v = Gui!Values(w, c)[a]
  BY ReplyIs
<1>3. Gui!Values(w, "leds").slot = w.slot /\ Gui!Values(w, "leds").name = w.names[w.slot]
  BY DEF Gui!Values
<1>4. GoodOf(w, w.slot, w.names[w.slot])  BY DEF IsWheel, GoodOf
<1>5. r.page \in Gui!Pages /\ r.op \in {"load", "edit"} /\ "leds" \in Gui!Pages
        /\ "pedals" \in Gui!Pages
  BY DEF IsReq, Gui!Pages
<1>6. ASSUME NEW c \in Gui!Pages, R = <<Gui!RowsReply(w, c)>>
      PROVE  IsLine(R) /\ (\A i \in 1 .. Len(R) : IsResp(R[i])) /\ NamesRight(w, R)
  <2>1. PICK a : a = Gui!RowsReply(w, c)  OBVIOUS
  <2>2. IsLine(R) /\ Len(R) = 1 /\ R[1] = a  BY <1>6, <2>1, LinesOf
  <2>3. IsResp(a) /\ a.kind = "rows" /\ ~IsName(a)
        /\ (a.page = "leds" => GoodOf(w, a.vals.slot, a.vals.name))
    BY <1>1, <1>3, <1>4, <2>1
  <2>4. \A i \in 1 .. Len(R) : R[i] = a  BY <2>2
  <2> QED  BY <2>2, <2>3, <2>4 DEF NamesRight
<1>7. CASE r.op = "load"
  <2>1. R = <<Gui!RowsReply(w, r.page)>>  BY <1>7, ReplyCases
  <2> QED  BY <1>5, <1>6, <2>1
<1>8. CASE r.op = "edit"
  <2>1. CASE r.attr = "name" /\ r.page = "leds"
             /\ R = <<Gui!RowReply(w, "leds", "slot"), Gui!RowReply(w, "leds", "name")>>
    <3>1. PICK a, b : a = Gui!RowReply(w, "leds", "slot")
            /\ b = Gui!RowReply(w, "leds", "name")  OBVIOUS
    <3>2. IsLine(R) /\ Len(R) = 2 /\ R[1] = a /\ R[2] = b  BY <2>1, <3>1, LinesOf
    <3>3. "slot" \in Of("leds") /\ "name" \in Of("leds")  BY DEF Of
    <3>4. /\ IsResp(a) /\ a.kind = "row" /\ a.page = "leds" /\ a.attr = "slot"
               /\ a.v = w.slot
          /\ IsResp(b) /\ b.kind = "row" /\ b.page = "leds" /\ b.attr = "name"
          /\ b.v = w.names[w.slot]
      BY <1>2, <1>3, <1>5, <3>1, <3>3
    <3>5. ~IsName(a) /\ IsSlot(a) /\ GoodOf(w, a.v, b.v)  BY <1>4, <3>4 DEF IsName, IsSlot
    <3>6. \A i \in 1 .. Len(R) : i = 1 \/ i = 2  BY <3>2
    <3> QED  BY <3>2, <3>4, <3>5, <3>6 DEF NamesRight
  <2>2. CASE r.attr = "effect" /\ r.page = "leds"
             /\ R = <<Gui!RowReply(w, "leds", "effect"), Gui!RowsReply(w, "leds")>>
    <3>1. PICK a, b : a = Gui!RowReply(w, "leds", "effect")
            /\ b = Gui!RowsReply(w, "leds")  OBVIOUS
    <3>2. IsLine(R) /\ Len(R) = 2 /\ R[1] = a /\ R[2] = b  BY <2>2, <3>1, LinesOf
    <3>3. "effect" \in Of("leds")  BY DEF Of
    <3>4. /\ IsResp(a) /\ a.kind = "row" /\ a.attr = "effect"
          /\ IsResp(b) /\ b.kind = "rows" /\ ~IsName(b)
               /\ GoodOf(w, b.vals.slot, b.vals.name)
      BY <1>1, <1>2, <1>3, <1>4, <1>5, <3>1, <3>3
    <3>5. ~IsName(a)  BY <3>4 DEF IsName
    <3>6. \A i \in 1 .. Len(R) : i = 1 \/ i = 2  BY <3>2
    <3> QED  BY <3>2, <3>4, <3>5, <3>6 DEF NamesRight
  <2>3. CASE R = <<Gui!RowsReply(w, "pedals")>>  BY <1>5, <1>6, <2>3
  <2>4. CASE r.attr \in Of(r.page) /\ r.attr # "name"
          /\ R = <<Gui!RowReply(w, r.page, r.attr)>>
    <3>1. PICK a : a = Gui!RowReply(w, r.page, r.attr)  OBVIOUS
    <3>2. IsLine(R) /\ Len(R) = 1 /\ R[1] = a  BY <2>4, <3>1, LinesOf
    <3>3. IsResp(a) /\ a.kind = "row" /\ a.attr # "name"  BY <1>2, <1>5, <2>4, <3>1
    <3>4. ~IsName(a)  BY <3>3 DEF IsName
    <3>5. \A i \in 1 .. Len(R) : R[i] = a  BY <3>2
    <3> QED  BY <3>2, <3>3, <3>4, <3>5 DEF NamesRight
  <2>5. CASE R = <<>>  BY <2>5, LinesOf DEF NamesRight
  <2> QED  BY <1>8, <2>1, <2>2, <2>3, <2>4, <2>5, Replies
<1> QED  BY <1>5, <1>7, <1>8

\* Serving an edit leaves a settled view settled.
LEMMA EditSettles ==
  ASSUME IsWheel(wheel), NEW r, IsReq(r), r.op = "edit", r.attr # "slot",
           NEW c \in Gui!Pages,
         r.page = c, NEW w, w = Gui!Wrote(r.attr, r.v) \/ w = wheel, NEW z \in BOOLEAN,
         z => w = wheel, NEW R, R = Gui!Reply(w, r, z), NEW n \in Nat, NEW V, KnownOK(V[n]),
         Settled(V[n], Gui!Values(wheel, c), c),
         \A i \in 1 .. Len(R) : V[n + i] = After(V[n + i - 1], R[i], c)
  PROVE  Settled(V[n + Len(R)], Gui!Values(w, c), c)
<1>0. IsWheel(w) /\ w.slot = wheel.slot  BY Written
<1>1. PICK old, new : old = Gui!Values(wheel, c) /\ new = Gui!Values(w, c)  OBVIOUS
<1>2. IsVals(old, c) /\ IsVals(new, c) /\ DOMAIN old = Of(c) /\ DOMAIN new = Of(c)
  BY <1>0, <1>1, ValuesAre
<1>3. /\ r.attr \notin Of(c) => new = old
      /\ r.attr \in Of(c) => new = [old EXCEPT ![r.attr] = new[r.attr]]
  BY <1>1, ValuesWritten
<1>4. Settled(V[n], old, c)  BY <1>1
<1>5. CASE /\ r.attr = "name" /\ r.page = "leds"
           /\ R = <<Gui!RowReply(w, "leds", "slot"), Gui!RowReply(w, "leds", "name")>>
  <2>1. PICK a, b : a = Gui!RowReply(w, "leds", "slot")
          /\ b = Gui!RowReply(w, "leds", "name")  OBVIOUS
  <2>2. Len(R) = 2 /\ R[1] = a /\ R[2] = b  BY <1>5, <2>1, LinesOf
  <2>3. "slot" \in Of("leds") /\ "name" \in Of("leds") /\ c = "leds" /\ "leds" \in Gui!Pages
    BY <1>5 DEF Of, Gui!Pages
  <2>4. /\ a.kind = "row" /\ a.page = c /\ a.attr = "slot" /\ a.v = new["slot"] /\ IsResp(a)
        /\ b.kind = "row" /\ b.page = c /\ b.attr = "name" /\ b.v = new["name"]
    BY <1>0, <1>1, <2>1, <2>3, ReplyIs
  <2>5. new["slot"] = old["slot"]  BY <1>0, <1>1, <2>3 DEF Gui!Values
  <2>6. V[n + 1] = After(V[n], a, c) /\ V[n + 2] = After(V[n + 1], b, c)
    <3>1. 1 \in 1 .. Len(R) /\ 2 \in 1 .. Len(R) /\ n + 1 - 1 = n /\ n + 2 - 1 = n + 1
      BY <2>2
    <3>2. V[n + 1] = After(V[n + 1 - 1], R[1], c) /\ V[n + 2] = After(V[n + 2 - 1], R[2], c)
      BY <3>1
    <3> QED  BY <2>2, <3>1, <3>2
  <2>7. KnownOK(V[n + 1])  BY <2>4, <2>6, AfterKnown
  <2>8. Settled(V[n + 1], old, c)
    <3>1. Settled(V[n + 1], [old EXCEPT ![a.attr] = a.v], c)
      <4>1. a.attr \in Of(c) /\ (a.attr \in {"slot", "effect"} => a.v = old[a.attr])
        BY <2>3, <2>4, <2>5
      <4>2. Settled(After(V[n], a, c), [old EXCEPT ![a.attr] = a.v], c)
        BY <1>2, <1>4, <2>4, <4>1, RowSettles
      <4> QED  BY <2>6, <4>2
    <3>2. [old EXCEPT !["slot"] = old["slot"]] = old
      <4>1. PICK s, m, d, e, g : old
              = [slot |-> s, name |-> m, colors |-> d, effect |-> e, apply |-> g]
        BY <1>2, <2>3 DEF IsVals, IsLed
      <4> QED  BY <4>1
    <3>3. [old EXCEPT ![a.attr] = a.v] = [old EXCEPT !["slot"] = old["slot"]]  BY <2>4, <2>5
    <3> QED  BY <3>1, <3>2, <3>3
  <2>9. Settled(V[n + 2], [old EXCEPT ![b.attr] = b.v], c)
    BY <1>2, <2>3, <2>4, <2>6, <2>7, <2>8, RowSettles
  <2>10. [old EXCEPT ![b.attr] = b.v] = new  BY <1>3, <1>5, <2>3, <2>4
  <2> QED  BY <1>1, <2>2, <2>9, <2>10
<1>6. CASE /\ r.attr = "effect" /\ r.page = "leds"
           /\ R = <<Gui!RowReply(w, "leds", "effect"), Gui!RowsReply(w, "leds")>>
  <2>1. PICK a, b : a = Gui!RowReply(w, "leds", "effect")
          /\ b = Gui!RowsReply(w, "leds")  OBVIOUS
  <2>2. Len(R) = 2 /\ R[1] = a /\ R[2] = b  BY <1>6, <2>1, LinesOf
  <2>3. "effect" \in Of("leds") /\ c = "leds" /\ "leds" \in Gui!Pages
    BY <1>6 DEF Of, Gui!Pages
  <2>4. /\ IsResp(a) /\ b.kind = "rows" /\ b.page = c /\ b.vals = new
    BY <1>0, <1>1, <2>1, <2>3, ReplyIs
  <2>6. V[n + 1] = After(V[n], a, c) /\ V[n + 2] = After(V[n + 1], b, c)
    <3>1. 1 \in 1 .. Len(R) /\ 2 \in 1 .. Len(R) /\ n + 1 - 1 = n /\ n + 2 - 1 = n + 1
      BY <2>2
    <3>2. V[n + 1] = After(V[n + 1 - 1], R[1], c) /\ V[n + 2] = After(V[n + 2 - 1], R[2], c)
      BY <3>1
    <3> QED  BY <2>2, <3>1, <3>2
  <2>7. KnownOK(V[n + 1])  BY <2>4, <2>6, AfterKnown
  <2>8. Settled(V[n + 2], new, c)  BY <1>2, <2>4, <2>6, <2>7, RowsSettle
  <2> QED  BY <1>1, <2>2, <2>8
<1>7. CASE r.attr = "effect" /\ r.page = "pedals" /\ R = <<Gui!RowsReply(w, "pedals")>>
  <2>1. PICK b : b = Gui!RowsReply(w, "pedals")  OBVIOUS
  <2>2. Len(R) = 1 /\ R[1] = b  BY <1>7, <2>1, LinesOf
  <2>3. b.kind = "rows" /\ b.page = c /\ b.vals = new  BY <1>0, <1>1, <1>7, <2>1, ReplyIs
  <2>4. V[n + 1] = After(V[n], b, c)
    <3>1. 1 \in 1 .. Len(R) /\ n + 1 - 1 = n  BY <2>2
    <3>2. V[n + 1] = After(V[n + 1 - 1], R[1], c)  BY <3>1
    <3> QED  BY <2>2, <3>1, <3>2
  <2>5. Settled(V[n + 1], new, c)  BY <1>2, <2>3, <2>4, RowsSettle
  <2> QED  BY <1>1, <2>2, <2>5
<1>8. CASE /\ r.attr \in Of(r.page) /\ r.attr # "name" /\ (r.attr = "effect" => z)
           /\ R = <<Gui!RowReply(w, r.page, r.attr)>>
  <2>1. PICK b : b = Gui!RowReply(w, r.page, r.attr)  OBVIOUS
  <2>2. Len(R) = 1 /\ R[1] = b  BY <1>8, <2>1, LinesOf
  <2>3. b.kind = "row" /\ b.page = c /\ b.attr = r.attr /\ b.v = new[r.attr]
    BY <1>0, <1>1, <1>8, <2>1, ReplyIs
  <2>4. V[n + 1] = After(V[n], b, c)
    <3>1. 1 \in 1 .. Len(R) /\ n + 1 - 1 = n  BY <2>2
    <3>2. V[n + 1] = After(V[n + 1 - 1], R[1], c)  BY <3>1
    <3> QED  BY <2>2, <3>1, <3>2
  <2>5. b.attr \in {"slot", "effect"} => b.v = old[b.attr]  BY <1>1, <1>8, <2>3
  <2>6. Settled(V[n + 1], [old EXCEPT ![b.attr] = b.v], c)
    BY <1>2, <1>4, <1>8, <2>3, <2>4, <2>5, RowSettles
  <2>7. [old EXCEPT ![b.attr] = b.v] = new  BY <1>3, <1>8, <2>3
  <2> QED  BY <1>1, <2>2, <2>6, <2>7
<1>9. CASE r.attr \notin Of(r.page) /\ R = <<>>
  <2>1. n + Len(R) = n  BY <1>9, LinesOf
  <2> QED  BY <1>1, <1>3, <1>9, <2>1
<1> QED  BY <1>0, <1>5, <1>6, <1>7, <1>8, <1>9, Replies

LEMMA ServeKeeps ==
  ASSUME GuiInv, Gui!Serve PROVE GuiInv'
<1>0. /\ reqs # <<>> /\ IsLine(reqs) /\ \A i \in 1 .. Len(reqs) : IsReq(reqs[i])
      /\ IsLine(resps) /\ IsWheel(wheel) /\ cat \in Gui!Pages /\ faults \in Nat
  BY DEF GuiInv, QueuesOK, Gui!Serve
<1>1. PICK r : r = Head(reqs)  OBVIOUS
<1>2. /\ IsLine(reqs') /\ Len(reqs) \in Nat \ {0} /\ Len(reqs') = Len(reqs) - 1
      /\ r = reqs[1] /\ 1 \in 1 .. Len(reqs)
      /\ \A i \in 1 .. Len(reqs') : reqs'[i] = reqs[i + 1] /\ i + 1 \in 1 .. Len(reqs)
  <2>1. reqs' = Tail(reqs)  BY DEF Gui!Serve
  <2> QED  BY <1>0, <1>1, <2>1, LineTaken
<1>3. IsReq(r)  BY <1>0, <1>2
<1>4. PICK w, z : w = wheel' /\ z = (faults' # faults)  OBVIOUS
<1>5. z \in BOOLEAN  BY <1>4
<1>6. /\ r.op = "edit" => (w = Gui!Wrote(r.attr, r.v) /\ faults' = faults)
                            \/ (w = wheel /\ faults' = faults + 1)
      /\ r.op # "edit" => w = wheel /\ faults' = faults
  BY <1>1, <1>4 DEF Gui!Serve, Gui!Write
<1>7. faults' \in Nat /\ (z => w = wheel) /\ (faults' = 0 => faults' = faults)
  <2>1. faults' \in Nat /\ (faults' # faults => w = wheel)
          /\ (faults' = 0 => faults' = faults)
    BY <1>0, <1>6
  <2>2. z => faults' # faults  BY Zenon, <1>4
  <2> QED  BY Zenon, <2>1, <2>2
<1>8. IsWheel(w) /\ \A s \in LightSlots : wheel.names[s] = Gui!New => w.names[s] = Gui!New
  BY <1>0, <1>3, <1>6, Written
<1>9. PICK R : R = Gui!Reply(w, r, z)  OBVIOUS
<1>10. resps' = resps \o R  BY <1>1, <1>4, <1>9 DEF Gui!Serve
<1>11. IsLine(R) /\ (\A i \in 1 .. Len(R) : IsResp(R[i])) /\ NamesRight(w, R)
  BY <1>3, <1>5, <1>8, <1>9, RepliesRight
<1>12. Grown(resps', resps, R)  BY <1>0, <1>10, <1>11, LineGrown
<1>13. UNCHANGED <<split, cat, known, names, last, shown, curves, touches>>
  BY DEF Gui!Serve
<1>14. View' = View  BY <1>13 DEF View, Lit
<1>15. QueuesOK'
  <2>1. \A i \in 1 .. Len(reqs') : IsReq(reqs'[i])  BY <1>0, <1>2
  <2>2. \A i \in 1 .. Len(resps') : IsResp(resps'[i])
    <3> TAKE i \in 1 .. Len(resps')
    <3>1. CASE i \in 1 .. Len(resps)  BY <1>12, <3>1 DEF GuiInv, QueuesOK, Grown
    <3>2. CASE i \notin 1 .. Len(resps)  BY <1>11, <1>12, <3>2 DEF Grown
    <3> QED  BY <3>1, <3>2
  <2> QED  BY <1>2, <1>12, <2>1, <2>2 DEF QueuesOK, Grown
<1>16. Ahead'
  <2> SUFFICES ASSUME NEW i \in 1 .. Len(reqs'), IsStale(reqs'[i])
               PROVE  \E j \in i + 1 .. Len(reqs') : reqs'[j].op = "load"
                        /\ reqs'[j].page = cat
    BY <1>13 DEF Ahead, IsStale
  <2>1. reqs'[i] = reqs[i + 1] /\ i + 1 \in 1 .. Len(reqs)  BY <1>2
  <2>2. PICK j \in (i + 1) + 1 .. Len(reqs) : reqs[j].op = "load" /\ reqs[j].page = cat
    BY <2>1 DEF GuiInv, Ahead
  <2>3. j - 1 \in i + 1 .. Len(reqs') /\ j - 1 \in 1 .. Len(reqs') /\ (j - 1) + 1 = j
    BY <1>2
  <2>4. reqs'[j - 1] = reqs[j]  BY <1>2, <2>3
  <2> QED  BY <2>2, <2>3, <2>4
<1>17. Settling'
  <2> SUFFICES ASSUME touches = 0, ~Pending', NEW V, Trail(V, View, resps', cat)
               PROVE  Settled(V[Len(resps') + 1], Gui!Values(w, cat), cat)
    BY <1>4, <1>13, <1>14 DEF Settling
  <2>0. PICK n, c : n = Len(resps) + 1 /\ c = cat  OBVIOUS
  <2>1. /\ Trail(V, View, resps, cat)
        /\ \A i \in 1 .. Len(R) : V[Len(resps) + i + 1]
                                    = After(V[Len(resps) + i], R[i], cat)
        /\ Len(resps') = Len(resps) + Len(R) /\ Len(resps) \in Nat /\ Len(R) \in Nat
    BY <1>0, <1>10, <1>11, TrailLonger
  <2>2. n \in Nat /\ Len(resps') + 1 = n + Len(R)  BY <2>0, <2>1
  <2>3. \A i \in 1 .. Len(R) : V[n + i] = After(V[n + i - 1], R[i], c)
    <3> TAKE i \in 1 .. Len(R)
    <3>1. n + i = Len(resps) + i + 1 /\ n + i - 1 = Len(resps) + i  BY <2>0, <2>1
    <3> QED  BY <2>0, <2>1, <3>1
  <2>4. KnownOK(V[n])
    <3>1. \A i \in 1 .. Len(resps) + 1 : KnownOK(V[i])
      BY <1>0, <2>1, TrailKnown DEF GuiInv, QueuesOK
    <3>2. n \in 1 .. Len(resps) + 1  BY <2>0, <2>1
    <3> QED  BY <3>1, <3>2
  <2>5. \A j \in 2 .. Len(reqs) : ~(reqs[j].op = "load" /\ reqs[j].page = cat)
    <3> SUFFICES ASSUME NEW j \in 2 .. Len(reqs), reqs[j].op = "load" /\ reqs[j].page = cat
                 PROVE  FALSE
      OBVIOUS
    <3>1. j - 1 \in 1 .. Len(reqs') /\ (j - 1) + 1 = j  BY <1>2
    <3>2. reqs'[j - 1] = reqs[j]  BY <1>2, <3>1
    <3> QED  BY <1>13, <3>1, <3>2 DEF Pending
  <2>6. r.page = cat /\ ~(r.op = "edit" /\ r.attr = "slot")
    <3>1. IsStale(r) => \E j \in 1 + 1 .. Len(reqs) : reqs[j].op = "load"
            /\ reqs[j].page = cat
      BY <1>2 DEF GuiInv, Ahead
    <3>2. 1 + 1 = 2  OBVIOUS
    <3> QED  BY <2>5, <3>1, <3>2 DEF IsStale
  <2>7. CASE r.op = "load"
    <3>1. R = <<Gui!RowsReply(w, c)>>  BY <1>9, <2>0, <2>6, <2>7, ReplyCases
    <3>2. PICK b : b = Gui!RowsReply(w, c)  OBVIOUS
    <3>3. Len(R) = 1 /\ R[1] = b  BY <3>1, <3>2, LinesOf
    <3>4. b.kind = "rows" /\ b.page = c /\ b.vals = Gui!Values(w, c)
      BY <1>0, <1>8, <2>0, <3>2, ReplyIs
    <3>5. V[n + 1] = After(V[n], b, c)
      <4>1. 1 \in 1 .. Len(R) /\ n + 1 - 1 = n  BY <2>2, <3>3
      <4>2. V[n + 1] = After(V[n + 1 - 1], R[1], c)  BY <2>3, <4>1
      <4> QED  BY <3>3, <4>1, <4>2
    <3>6. IsVals(b.vals, c)  BY <1>0, <1>8, <2>0, <3>4, ValuesAre
    <3>7. Settled(After(V[n], b, c), b.vals, c)  BY <1>0, <2>0, <2>4, <3>4, <3>6, RowsSettle
    <3> QED  BY <2>0, <2>2, <3>3, <3>4, <3>5, <3>7
  <2>8. CASE r.op = "edit"
    <3>1. ~Pending
      <4>1. \A j \in 1 .. Len(reqs) : j = 1 \/ j \in 2 .. Len(reqs)  BY <1>2
      <4> QED  BY <1>2, <2>5, <2>8, <4>1 DEF Pending
    <3>2. Settled(V[n], Gui!Values(wheel, c), c)  BY <2>0, <2>1, <3>1 DEF GuiInv, Settling
    <3>3. Settled(V[n + Len(R)], Gui!Values(w, c), c)
      <4>1. w = Gui!Wrote(r.attr, r.v) \/ w = wheel  BY <1>6, <2>8
      <4>2. r.attr # "slot" /\ r.page = c /\ c \in Gui!Pages  BY <1>0, <2>0, <2>6, <2>8
      <4> QED  BY <1>0, <1>3, <1>5, <1>7, <1>9, <2>2, <2>3, <2>4, <2>8, <3>2, <4>1, <4>2, EditSettles
    <3> QED  BY <2>0, <2>2, <3>3
  <2> QED  BY <1>3, <2>7, <2>8 DEF IsReq
<1>18. Stripped'
  <2>1. ASSUME NEW i \in 1 .. Len(reqs'), reqs'[i].op = "edit",
                 reqs'[i].attr \in {"slot", "colors"}
        PROVE  i + 1 \in 1 .. Len(reqs') /\ Applies(reqs'[i + 1])
    <3>1. reqs'[i] = reqs[i + 1] /\ i + 1 \in 1 .. Len(reqs)  BY <1>2
    <3>2. (i + 1) + 1 \in 1 .. Len(reqs) /\ Applies(reqs[(i + 1) + 1])
      BY <2>1, <3>1 DEF GuiInv, Stripped
    <3>3. i + 1 \in 1 .. Len(reqs')  BY <1>2, <3>2
    <3>4. reqs'[i + 1] = reqs[(i + 1) + 1]  BY <1>2, <3>3
    <3> QED  BY <3>2, <3>3, <3>4
  <2>2. ASSUME faults' = 0, touches = 0
        PROVE  w.strip = w.colors[w.slot] \/ (reqs' # <<>> /\ Applies(reqs'[1]))
    <3>1. faults = 0  BY <1>7, <2>2
    <3>2. r.op = "edit" => w = Gui!Wrote(r.attr, r.v)  BY <1>0, <1>6, <2>2
    <3>3. wheel.strip = wheel.colors[wheel.slot] \/ Applies(r)
      BY <1>2, <2>2, <3>1 DEF GuiInv, Stripped
    <3>4. CASE r.op # "edit"  BY <1>6, <3>3, <3>4 DEF Applies
    <3>5. CASE r.op = "edit" /\ Applies(r)  BY <1>0, <1>3, <3>2, <3>5, Written
    <3>6. CASE r.op = "edit" /\ ~Applies(r) /\ r.attr \in {"slot", "colors"}
      <4>1. 1 + 1 \in 1 .. Len(reqs) /\ Applies(reqs[1 + 1])
        BY <1>2, <3>6 DEF GuiInv, Stripped
      <4>2. 1 \in 1 .. Len(reqs') /\ reqs'[1] = reqs[1 + 1]  BY <1>2, <4>1
      <4>3. reqs' # <<>>  BY <4>2, LinesOf
      <4> QED  BY <4>1, <4>2, <4>3
    <3>7. CASE r.op = "edit" /\ ~Applies(r) /\ r.attr \in {"name", "value", "effect"}
      <4>1. w.slot = wheel.slot /\ w.colors = wheel.colors /\ w.strip = wheel.strip
        BY <1>0, <1>3, <3>2, <3>7, Written DEF Applies
      <4> QED  BY <3>3, <3>7, <4>1
    <3>8. CASE r.op = "edit" /\ ~Applies(r) /\ r.attr = "apply"  BY <3>8 DEF Applies
    <3> QED  BY <1>3, <3>4, <3>5, <3>6, <3>7, <3>8 DEF IsReq
  <2> QED  BY <1>4, <1>13, <2>1, <2>2 DEF Stripped, Applies
<1>19. Named'
  <2>0. \A s, n : s \in LightSlots /\ Good(s, n) => GoodOf(w, s, n)
    BY <1>8 DEF Good, GoodOf
  <2>1. ~split => \A s \in LightSlots : GoodOf(w, s, names[s])
    BY <2>0 DEF GuiInv, Named
  <2>2. ASSUME NEW i \in 1 .. Len(resps')
        PROVE  /\ resps'[i].kind = "rows" /\ resps'[i].page = "leds" =>
                    GoodOf(w, resps'[i].vals.slot, resps'[i].vals.name)
               /\ IsName(resps'[i]) /\ i # 1 =>
                    IsSlot(resps'[i - 1]) /\ GoodOf(w, resps'[i - 1].v, resps'[i].v)
    <3>1. CASE i \in 1 .. Len(resps)
      <4>1. resps'[i] = resps[i] /\ IsResp(resps[i])
        BY <1>12, <3>1 DEF Grown, GuiInv, QueuesOK
      <4>2. resps[i].kind = "rows"
              /\ resps[i].page = "leds" => resps[i].vals.slot \in LightSlots
        BY <4>1 DEF IsResp, IsVals, IsLed
      <4>3. resps[i].kind = "rows" /\ resps[i].page = "leds" =>
              GoodOf(w, resps[i].vals.slot, resps[i].vals.name)
        BY <2>0, <3>1, <4>2 DEF GuiInv, Named
      <4>4. ASSUME IsName(resps[i]), i # 1
            PROVE  IsSlot(resps'[i - 1]) /\ GoodOf(w, resps'[i - 1].v, resps[i].v)
        <5>1. IsSlot(resps[i - 1]) /\ Good(resps[i - 1].v, resps[i].v)
          BY <3>1, <4>4 DEF GuiInv, Named
        <5>2. i - 1 \in 1 .. Len(resps)  BY <1>12, <3>1, <4>4 DEF Grown
        <5>3. resps'[i - 1] = resps[i - 1] /\ IsResp(resps[i - 1])
          BY <1>12, <5>2 DEF Grown, GuiInv, QueuesOK
        <5>4. resps[i - 1].v \in LightSlots  BY <5>1, <5>3 DEF IsResp, IsSlot
        <5> QED  BY <2>0, <5>1, <5>3, <5>4
      <4> QED  BY <4>1, <4>3, <4>4
    <3>2. CASE i \notin 1 .. Len(resps)
      <4>1. PICK k : k = i - Len(resps)  OBVIOUS
      <4>2. k \in 1 .. Len(R) /\ resps'[i] = R[k]  BY <1>12, <3>2, <4>1 DEF Grown
      <4>3. R[k].kind = "rows"
              /\ R[k].page = "leds" => GoodOf(w, R[k].vals.slot, R[k].vals.name)
        BY <1>11, <4>2 DEF NamesRight
      <4>4. ASSUME IsName(R[k])
            PROVE  IsSlot(resps'[i - 1]) /\ GoodOf(w, resps'[i - 1].v, R[k].v)
        <5>1. k = 2 /\ IsSlot(R[1]) /\ GoodOf(w, R[1].v, R[2].v)
          BY <1>11, <4>2, <4>4 DEF NamesRight
        <5>2. 1 \in 1 .. Len(R) /\ i - 1 = Len(resps) + 1
          BY <1>12, <4>1, <4>2, <5>1 DEF Grown
        <5>3. resps'[i - 1] = R[1]  BY <1>12, <5>2 DEF Grown
        <5> QED  BY <5>1, <5>3
      <4> QED  BY <4>2, <4>3, <4>4
    <3> QED  BY <3>1, <3>2
  <2>3. ASSUME resps' # <<>>, ~split, cat = "leds", IsName(resps'[1])
        PROVE  GoodOf(w, known.slot, resps'[1].v)
    <3>1. CASE resps # <<>>
      <4>1. 1 \in 1 .. Len(resps)  BY <1>0, <3>1, LineTaken
      <4>2. resps'[1] = resps[1]  BY <1>12, <4>1 DEF Grown
      <4>3. Good(known.slot, resps[1].v)  BY <2>3, <3>1, <4>2 DEF GuiInv, Named
      <4>4. known.slot \in LightSlots  BY DEF GuiInv, KnownOK, View
      <4> QED  BY <2>0, <4>2, <4>3, <4>4
    <3>2. CASE resps = <<>>
      <4>1. Len(resps) = 0  BY <3>2, LinesOf
      <4>2. IsLine(resps')  BY <1>12 DEF Grown
      <4>3. 1 \in 1 .. Len(resps')  BY <2>3, <4>2, LineTaken
      <4>4. 1 \in 1 .. Len(R) /\ resps'[1] = R[1]  BY <1>12, <4>1, <4>3 DEF Grown
      <4>5. ~IsName(R[1])  BY <1>11, <4>4 DEF NamesRight
      <4> QED  BY <2>3, <4>4, <4>5
    <3> QED  BY <3>1, <3>2
  <2> QED  BY <1>4, <1>13, <2>1, <2>2, <2>3 DEF Named, Good, GoodOf, IsName, IsSlot
<1>20. KnownOK(View)' /\ ScreenOK'  BY <1>13, <1>14 DEF GuiInv, ScreenOK, KnownOK, IsFcn
<1>21. cat' \in Gui!Pages /\ touches' \in Nat /\ faults' \in Nat /\ IsWheel(wheel)'
  BY <1>4, <1>7, <1>8, <1>13 DEF GuiInv
<1> QED  BY <1>15, <1>16, <1>17, <1>18, <1>19, <1>20, <1>21 DEF GuiInv

LEMMA ClickKeeps ==
  ASSUME GuiInv, Gui!EditRow \/ Gui!PickEffect \/ Gui!SetName \/ Gui!Commit PROVE GuiInv'
<1>0. UNCHANGED Shown /\ cat \in Gui!Pages
  BY DEF Gui!EditRow, Gui!PickEffect, Gui!SetName, Gui!Commit, Shown, GuiInv
<1>1. \A a, v : LET q == Gui!Edit(a, v) IN q.op = "edit" /\ q.page = cat
                  /\ q.attr = a /\ q.v = v
  BY DEF Gui!Edit
<1>2. \A a, v : LET q == Gui!Staged(a, v) IN q.op = "edit" /\ q.page = cat
                  /\ q.attr = a /\ q.v = v
  BY DEF Gui!Staged
<1>3. Gui!Load(cat).op = "load" /\ Gui!Load(cat).page = cat  BY DEF Gui!Load
<1>4. ASSUME NEW q, Gui!Ask(<<q>>), q.op = "edit", q.page = cat, IsReq(q),
               q.attr \notin {"slot", "colors"}
      PROVE  GuiInv'
  <2>1. IsLine(<<q>>) /\ Len(<<q>>) = 1 /\ <<q>>[1] = q  BY LinesOf
  <2>2. \A i \in 1 .. Len(<<q>>) : <<q>>[i] = q  BY <2>1
  <2> QED  BY <1>0, <1>4, <2>1, <2>2, AskKeeps
<1>5. CASE Gui!EditRow
  <2>1. PICK q : q = Gui!Edit("value", 1 - shown.value)  OBVIOUS
  <2>2. Gui!Ask(<<q>>)  BY <1>5, <2>1 DEF Gui!EditRow
  <2>3. q.op = "edit" /\ q.page = cat /\ q.attr = "value"  BY <1>1, <2>1
  <2>4. IsReq(q)  BY <1>0, <2>3 DEF IsReq
  <2> QED  BY <1>4, <2>2, <2>3, <2>4
<1>6. CASE Gui!SetName
  <2>1. PICK q : q = Gui!Edit("name", Gui!New)  OBVIOUS
  <2>2. Gui!Ask(<<q>>)  BY <1>6, <2>1 DEF Gui!SetName
  <2>3. q.op = "edit" /\ q.page = cat /\ q.attr = "name" /\ q.v = Gui!New  BY <1>1, <2>1
  <2>4. IsReq(q)  BY <1>0, <2>3 DEF IsReq
  <2> QED  BY <1>4, <2>2, <2>3, <2>4
<1>7. CASE Gui!PickEffect
  <2>1. CASE Gui!Ask(<<Gui!Edit("effect", Gui!Sweep)>>)
    <3>1. PICK q : q = Gui!Edit("effect", Gui!Sweep)  OBVIOUS
    <3>3. q.op = "edit" /\ q.page = cat /\ q.attr = "effect"  BY <1>1, <3>1
    <3>4. IsReq(q)  BY <1>0, <3>3 DEF IsReq
    <3> QED  BY <1>4, <2>1, <3>1, <3>3, <3>4
  <2>2. ASSUME NEW x \in LightSlots, Gui!Ask(<<Gui!Edit("slot", x), Gui!Edit("effect",
                 Gui!Custom), Gui!Load(cat)>>)
        PROVE  GuiInv'
    <3>1. PICK a, b, c : a = Gui!Edit("slot", x)
            /\ b = Gui!Edit("effect", Gui!Custom) /\ c = Gui!Load(cat)
      OBVIOUS
    <3>2. PICK s : s = <<a, b, c>>  OBVIOUS
    <3>3. IsLine(s) /\ Len(s) = 3 /\ s[1] = a /\ s[2] = b /\ s[3] = c  BY <3>2, LinesOf
    <3>4. /\ a.op = "edit" /\ a.page = cat /\ a.attr = "slot" /\ a.v = x
          /\ b.op = "edit" /\ b.page = cat /\ b.attr = "effect" /\ b.v = Gui!Custom
          /\ c.op = "load" /\ c.page = cat
      BY <1>1, <1>3, <3>1
    <3>5. IsReq(a) /\ IsReq(b) /\ IsReq(c) /\ Applies(b)  BY <1>0, <3>4 DEF IsReq, Applies
    <3>6. Gui!Ask(s)  BY <2>2, <3>1, <3>2
    <3>7. \A i \in 1 .. Len(s) : i = 1 \/ i = 2 \/ i = 3  BY <3>3
    <3>8. \A i \in 1 .. Len(s) : IsReq(s[i]) /\ s[i].page = cat  BY <3>3, <3>4, <3>5, <3>7
    <3>9. \A i \in 1 .. Len(s) : s[i].op = "edit" /\ s[i].attr = "slot" =>
            \E j \in i + 1 .. Len(s) : s[j].op = "load"
      <4> SUFFICES ASSUME NEW i \in 1 .. Len(s), s[i].op = "edit" /\ s[i].attr = "slot"
                   PROVE  \E j \in i + 1 .. Len(s) : s[j].op = "load"
        OBVIOUS
      <4>1. i = 1  BY <3>3, <3>4, <3>7
      <4>2. 3 \in i + 1 .. Len(s)  BY <3>3, <4>1
      <4> QED  BY <3>3, <3>4, <4>2
    <3>10. \A i \in 1 .. Len(s) : s[i].op = "edit" /\ s[i].attr \in {"slot", "colors"} =>
             i + 1 \in 1 .. Len(s) /\ Applies(s[i + 1])
      <4> SUFFICES ASSUME NEW i \in 1 .. Len(s), s[i].op = "edit",
                          s[i].attr \in {"slot", "colors"}
                   PROVE  i + 1 \in 1 .. Len(s) /\ Applies(s[i + 1])
        OBVIOUS
      <4>1. i = 1  BY <3>3, <3>4, <3>7
      <4>2. i + 1 = 2 /\ i + 1 \in 1 .. Len(s)  BY <3>3, <4>1
      <4> QED  BY <3>3, <3>5, <4>2
    <3> QED  BY <1>0, <3>3, <3>6, <3>8, <3>9, <3>10, AskKeeps
  <2> QED  BY <1>7, <2>1, <2>2 DEF Gui!PickEffect
<1>8. CASE Gui!Commit
  <2>1. PICK a, b : a = Gui!Staged("colors", editor.colors)
          /\ b = Gui!Staged("apply", 0)  OBVIOUS
  <2>2. PICK s : s = <<a, b>>  OBVIOUS
  <2>3. IsLine(s) /\ Len(s) = 2 /\ s[1] = a /\ s[2] = b  BY <2>2, LinesOf
  <2>4. /\ a.op = "edit" /\ a.page = cat /\ a.attr = "colors"
        /\ b.op = "edit" /\ b.page = cat /\ b.attr = "apply"
    BY <1>2, <2>1
  <2>5. IsReq(a) /\ IsReq(b) /\ Applies(b)  BY <1>0, <2>4 DEF IsReq, Applies
  <2>6. Gui!Ask(s)  BY <1>8, <2>1, <2>2 DEF Gui!Commit, Gui!CommitOrder, Gui!ColorsThenApply
  <2>7. \A i \in 1 .. Len(s) : i = 1 \/ i = 2  BY <2>3
  <2>8. \A i \in 1 .. Len(s) : IsReq(s[i]) /\ s[i].page = cat  BY <2>3, <2>4, <2>5, <2>7
  <2>9. \A i \in 1 .. Len(s) : ~(s[i].op = "edit" /\ s[i].attr = "slot")
    BY <2>3, <2>4, <2>7
  <2>10. \A i \in 1 .. Len(s) : s[i].op = "edit" /\ s[i].attr \in {"slot", "colors"} =>
           i + 1 \in 1 .. Len(s) /\ Applies(s[i + 1])
    <3> SUFFICES ASSUME NEW i \in 1 .. Len(s), s[i].op = "edit", s[i].attr \in {"slot",
                          "colors"}
                 PROVE  i + 1 \in 1 .. Len(s) /\ Applies(s[i + 1])
      OBVIOUS
    <3>1. i = 1  BY <2>3, <2>4, <2>7
    <3>2. i + 1 = 2 /\ i + 1 \in 1 .. Len(s)  BY <2>3, <3>1
    <3> QED  BY <2>3, <2>5, <3>2
  <2> QED  BY <1>0, <2>3, <2>6, <2>8, <2>9, <2>10, AskKeeps
<1> QED  BY <1>5, <1>6, <1>7, <1>8

\* The part of the state the rest is about.
LEMMA RestKeeps ==
  ASSUME GuiInv, UNCHANGED <<Shown, reqs>> PROVE GuiInv'
<1>1. UNCHANGED <<wheel, resps, cat, known, names, last, shown, curves, split, faults, touches, reqs>>
  BY DEF Shown
<1>2. View' = View  BY <1>1 DEF View, Lit
<1>3. QueuesOK' /\ Ahead' /\ Stripped' /\ Named'
  BY <1>1 DEF GuiInv, QueuesOK, Ahead, IsStale, Stripped, Applies, Named, Good, GoodOf,
       IsName, IsSlot
<1>4. Settling' /\ ScreenOK'  BY <1>1, <1>2 DEF GuiInv, Settling, Pending, ScreenOK
<1>5. KnownOK(View)' /\ cat' \in Gui!Pages /\ touches' \in Nat /\ faults' \in Nat
        /\ IsWheel(wheel)'
  BY <1>1, <1>2 DEF GuiInv, IsWheel, KnownOK, IsFcn
<1> QED  BY <1>3, <1>4, <1>5 DEF GuiInv

LEMMA GuiStarts ==
  ASSUME Gui!SlotAssumption, Gui!Init PROVE GuiInv
<1>1. 0 \in LightSlots  BY DEF Gui!SlotAssumption
<1>2. /\ wheel = WheelRow(0, [s \in LightSlots |-> s], [s \in LightSlots |-> s], Gui!Sweep, 0, 0)
      /\ wheel.slot = 0 /\ wheel.names = [s \in LightSlots |-> s]
           /\ wheel.colors = [s \in LightSlots |-> s]
      /\ wheel.strip = 0 /\ wheel.effect = Gui!Sweep /\ wheel.value = 0
  BY DEF Gui!Init, WheelRow
<1>3. IsWheel(wheel)  BY <1>1, <1>2 DEF IsWheel, IsFcn
<1>4. PICK q : q = [op |-> "load", page |-> "pedals"]  OBVIOUS
<1>5. reqs = <<q>> /\ q.op = "load" /\ q.page = "pedals" /\ resps = <<>> /\ cat = "pedals"
  BY <1>4 DEF Gui!Init
<1>6. /\ IsLine(reqs) /\ Len(reqs) = 1 /\ reqs[1] = q /\ IsLine(resps) /\ Len(resps) = 0
  BY <1>5, LinesOf
<1>7. \A i \in 1 .. Len(reqs) : i = 1  BY <1>6
<1>8. cat \in Gui!Pages /\ touches \in Nat /\ faults \in Nat
  BY <1>5 DEF Gui!Init, Gui!Pages
<1>9. QueuesOK  BY <1>5, <1>6, <1>7 DEF QueuesOK, IsReq, Gui!Pages
<1>10. KnownOK(View)
  <2>1. known = [slot |-> 0, name |-> Gui!Unread, colors |-> 0, effect |-> Gui!Sweep, value |-> 0]
    BY DEF Gui!Init
  <2>2. /\ DOMAIN known = {"slot", "name", "colors", "effect", "value"} /\ known["slot"] = 0
        /\ known = [a \in DOMAIN known |-> known[a]]
    BY <2>1
  <2>3. IsFcn(names)  BY DEF Gui!Init, IsFcn
  <2>4. View.known = known /\ View.names = names  BY DEF View
  <2> QED  BY <1>1, <2>2, <2>3, <2>4 DEF KnownOK
<1>11. ScreenOK  BY DEF Gui!Init, ScreenOK
<1>12. Ahead  BY <1>5, <1>6, <1>7 DEF Ahead, IsStale
<1>13. Settling
  <2>1. 1 \in 1 .. Len(reqs)  BY <1>6
  <2> QED  BY <1>5, <1>6, <2>1 DEF Settling, Pending
<1>14. Stripped
  <2>1. wheel.strip = wheel.colors[wheel.slot]  BY <1>1, <1>2
  <2> QED  BY <1>5, <1>6, <1>7, <2>1 DEF Stripped
<1>15. Named
  <2>1. \A s \in LightSlots : Good(s, names[s])  BY DEF Gui!Init, Good, GoodOf
  <2> QED  BY <1>5, <1>6, <2>1 DEF Named
<1> QED  BY <1>3, <1>8, <1>9, <1>10, <1>11, <1>12, <1>13, <1>14, <1>15 DEF GuiInv

LEMMA GuiSteps ==
  ASSUME GuiInv, [Gui!Next]_(Gui!vars) PROVE GuiInv'
<1>1. CASE Gui!SelectCategory  BY <1>1, SelectKeeps
<1>2. CASE Gui!EditRow \/ Gui!PickEffect \/ Gui!SetName \/ Gui!Commit  BY <1>2, ClickKeeps
<1>3. CASE Gui!ToggleShaping  BY <1>3, ToggleKeeps
<1>4. CASE Gui!EditRgb \/ Gui!SetColor \/ Gui!Cancel
  <2>1. UNCHANGED <<Shown, reqs>>  BY <1>4 DEF Gui!EditRgb, Gui!SetColor, Gui!Cancel, Shown
  <2> QED  BY <2>1, RestKeeps
<1>5. CASE Gui!Serve  BY <1>5, ServeKeeps
<1>6. CASE Gui!OtherSlot  BY <1>6, TouchKeeps
<1>7. CASE Gui!Respond  BY <1>7, RespondKeeps
<1>8. CASE UNCHANGED Gui!vars
  <2>1. UNCHANGED <<Shown, reqs>>  BY <1>8 DEF Gui!vars, Shown
  <2> QED  BY <2>1, RestKeeps
<1> QED  BY <1>1, <1>2, <1>3, <1>4, <1>5, <1>6, <1>7, <1>8 DEF Gui!Next

LEMMA GuiSound ==
  ASSUME GuiInv PROVE Gui!PageSettles /\ Gui!NamesOfOwnSlot /\ Gui!StripShowsSlot
<1>1. Gui!PageSettles
  <2> SUFFICES ASSUME reqs = <<>>, resps = <<>>, touches = 0
               PROVE  shown = Gui!LoadRows([page |-> cat, vals |-> Gui!Values(wheel, cat)], names, curves)
    BY DEF Gui!PageSettles, Gui!Quiet
  <2>1. Len(reqs) = 0 /\ Len(resps) = 0  BY LinesOf
  <2>2. ~Pending  BY <2>1 DEF Pending
  <2>3. PICK V : V = <<View>> /\ V[1] = View  BY LinesOf
  <2>4. Trail(V, View, resps, cat)  BY <2>1, <2>3 DEF Trail
  <2>5. Len(resps) + 1 = 1  BY <2>1
  <2>6. Settled(View, Gui!Values(wheel, cat), cat)
    <3>1. Settled(V[Len(resps) + 1], Gui!Values(wheel, cat), cat)
      BY <2>2, <2>4 DEF GuiInv, Settling
    <3> QED  BY <2>3, <2>5, <3>1
  <2>7. View.last = last /\ View.lit = Lit /\ View.names = names  BY DEF View
  <2>8. last = [page |-> cat, vals |-> Gui!Values(wheel, cat)]  BY <2>6, <2>7 DEF Settled
  <2>9. last.page = cat /\ last.vals = Gui!Values(wheel, cat) /\ shown.page = cat
    BY <2>8, Screens DEF GuiInv
  <2>10. CASE cat = "leds"
    <3>1. shown = Gui!ComposeLightsync(last.vals, names)
      BY <2>6, <2>7, <2>9, <2>10, Screens DEF GuiInv, Settled
    <3> QED  BY <2>8, <2>9, <2>10, <3>1, RowsLoad
  <2>11. CASE cat = "pedals"
    <3>1. shown = Gui!ComposeShaping(last.vals, curves)  BY <2>9, <2>11, Screens DEF GuiInv
    <3> QED  BY <2>8, <2>9, <2>11, <3>1, RowsLoad
  <2> QED  BY <2>10, <2>11 DEF GuiInv, Gui!Pages
<1>2. Gui!NamesOfOwnSlot  BY DEF GuiInv, Named, Good, GoodOf, Gui!NamesOfOwnSlot
<1>3. Gui!StripShowsSlot  BY DEF GuiInv, Stripped, Gui!StripShowsSlot, Gui!Quiet
<1> QED  BY <1>1, <1>2, <1>3

(***************************************************************************)
(* The response curve.                                                     *)
(***************************************************************************)
\* Division rounds down.
LEMMA Quotient ==
  ASSUME NEW a \in Nat, NEW n \in Nat \ {0}
  PROVE  a \div n \in Nat /\ n * (a \div n) <= a /\ a < n * (a \div n) + n
<1>1. a \div n \in Nat /\ n * (a \div n) <= a /\ a < n * ((a \div n) + 1)
  OBVIOUS
<1>2. PICK q \in Nat : q = a \div n  BY <1>1
<1>3. n * (q + 1) = n * q + n  OBVIOUS
<1> QED  BY <1>1, <1>2, <1>3

\* ... so it keeps the order, and keeps below a multiple of the divisor.
LEMMA QuotientOrder ==
  ASSUME NEW a \in Nat, NEW b \in Nat, a <= b, NEW n \in Nat \ {0}
  PROVE  a \div n <= b \div n
<1>1. PICK p \in Nat : p = a \div n /\ n * p <= a  BY Quotient
<1>2. PICK q \in Nat : q = b \div n /\ b < n * q + n  BY Quotient
<1>3. SUFFICES ASSUME q + 1 <= p PROVE FALSE  BY <1>1, <1>2
<1>4. n * (q + 1) <= n * p
  <2>1. \A u, v, w \in Nat : v <= w => u * v <= u * w  OBVIOUS
  <2> QED  BY <2>1, <1>3
<1>5. n * (q + 1) = n * q + n  OBVIOUS
<1>6. n * q \in Nat /\ n * p \in Nat  OBVIOUS
<1> HIDE <1>3
<1> QED  BY <1>1, <1>2, <1>4, <1>5, <1>6

LEMMA QuotientExact ==
  ASSUME NEW a \in Nat, NEW n \in Nat \ {0}
  PROVE  (a * n) \div n = a
<1>1. PICK q \in Nat : q = (a * n) \div n /\ n * q <= a * n /\ a * n < n * q + n
  BY Quotient
<1>2. n * a = a * n /\ n * (q + 1) = n * q + n /\ n * (a + 1) = n * a + n  OBVIOUS
<1>0. \A u, v, w \in Nat : v <= w => u * v <= u * w  OBVIOUS
<1>3. ~(q + 1 <= a)
  <2> SUFFICES ASSUME q + 1 <= a PROVE FALSE  OBVIOUS
  <2>1. n * (q + 1) <= n * a  BY <1>0
  <2> QED  BY <2>1, <1>1, <1>2
<1>4. ~(a + 1 <= q)
  <2> SUFFICES ASSUME a + 1 <= q PROVE FALSE  OBVIOUS
  <2>1. n * (a + 1) <= n * q  BY <1>0
  <2>2. n * a \in Nat /\ n * q \in Nat  OBVIOUS
  <2> QED  BY <2>1, <2>2, <1>1, <1>2
<1> QED  BY <1>1, <1>3, <1>4

LEMMA QuotientBelow ==
  ASSUME NEW a \in Nat, NEW b \in Nat, NEW n \in Nat \ {0}, a <= b * n
  PROVE  a \div n \in 0 .. b
<1>1. b * n \in Nat  OBVIOUS
<1>2. a \div n <= (b * n) \div n  BY <1>1, QuotientOrder
<1> QED  BY <1>2, QuotientExact, Quotient

Points == (0 .. CurveFull) \X (0 .. CurveFull)

\* Inputs strictly rising, outputs never falling.
Rises(s) ==
  \A i \in 1 .. Len(s) - 1 : s[i][1] < s[i + 1][1] /\ s[i][2] <= s[i + 1][2]

\* Curve: "pts is always sorted by input" between its pinned ends, and the
\* dead zones leave something of the band.
Pinned(s) ==
  /\ s \in Seq(Points) /\ Len(s) >= 2 /\ Rises(s)
  /\ s[1] = <<0, 0>> /\ s[Len(s)] = <<CurveFull, CurveFull>>

CurveOf(s, l, u) == [pts |-> s, lower |-> l, upper |-> u]

Sorted(c) ==
  \E s \in Seq(Points), l, u \in 0 .. CurveHundred - 1 :
    c = CurveOf(s, l, u) /\ Pinned(s) /\ l + u < CurveHundred

\* The live band lies within the axis, its lower edge before its end.
LEMMA BandInAxis ==
  ASSUME Curve!CurveAssumption, NEW c, Sorted(c)
  PROVE  /\ Curve!Lo(c) \in 0 .. CurveFull - 1
              /\ Curve!Hi(c) \in Curve!Lo(c) .. CurveFull
              /\ Curve!Span(c) = Curve!Hi(c) - Curve!Lo(c)
         /\ (c.lower = 0 => Curve!Lo(c) = 0) /\ (c.upper = 0 => Curve!Hi(c) = CurveFull)
<1> USE DEF Curve!CurveAssumption
<1>1. PICK s \in Seq(Points), l \in 0 .. CurveHundred - 1, u \in 0 .. CurveHundred - 1 :
        c = CurveOf(s, l, u) /\ l + u < CurveHundred
  BY DEF Sorted
<1>2. c.lower = l /\ c.upper = u  BY <1>1 DEF CurveOf
<1>3. PICK m \in Nat : m = CurveHundred - u /\ l < m /\ m <= CurveHundred  BY <1>1
<1>4. PICK a \in Nat : a = l * CurveFull  OBVIOUS
<1>5. PICK b \in Nat : b = m * CurveFull  OBVIOUS
<1>6. PICK e \in Nat : e = CurveHundred * CurveFull  OBVIOUS
<1>7. a + CurveFull <= b /\ b <= e /\ e = CurveFull * CurveHundred
  <2>1. \A x, y \in Nat : x <= y => x * CurveFull <= y * CurveFull  OBVIOUS
  <2>2. (l + 1) * CurveFull = a + CurveFull  BY <1>4
  <2>3. (l + 1) * CurveFull <= m * CurveFull  BY <2>1, <1>3
  <2>4. m * CurveFull <= CurveHundred * CurveFull  BY <2>1, <1>3
  <2> QED  BY <2>2, <2>3, <2>4, <1>5, <1>6
<1>8. a \div CurveHundred \in Nat /\ b \div CurveHundred \in 0 .. CurveFull
        /\ a \div CurveHundred <= b \div CurveHundred
  <2>1. a <= b  BY <1>7
  <2> QED  BY <2>1, <1>7, <1>6, Quotient, QuotientOrder, QuotientBelow
<1>9. a \div CurveHundred < CurveFull
  <2>1. PICK q \in Nat : q = a \div CurveHundred /\ CurveHundred * q <= a  BY Quotient
  <2>2. SUFFICES ASSUME CurveFull <= q PROVE FALSE  BY <2>1
  <2>3. CurveHundred * CurveFull <= CurveHundred * q
    <3>1. \A x, y \in Nat : x <= y => CurveHundred * x <= CurveHundred * y  OBVIOUS
    <3> QED  BY <3>1, <2>2
  <2> QED  BY <2>1, <2>3, <1>7, <1>6
<1>10. l = 0 => a \div CurveHundred = 0
  <2> SUFFICES ASSUME l = 0 PROVE a \div CurveHundred = 0  OBVIOUS
  <2>1. a = 0 * CurveHundred  BY <1>4
  <2> QED  BY <2>1, QuotientExact
<1>11. u = 0 => b \div CurveHundred = CurveFull
  <2> SUFFICES ASSUME u = 0 PROVE b \div CurveHundred = CurveFull  OBVIOUS
  <2>1. b = CurveFull * CurveHundred  BY <1>3, <1>5, <1>6
  <2> QED  BY <2>1, QuotientExact
<1>12. Curve!Lo(c) = a \div CurveHundred /\ Curve!Hi(c) = b \div CurveHundred
  BY <1>2, <1>3, <1>4, <1>5 DEF Curve!Lo, Curve!Hi
<1> HIDE DEF Curve!CurveAssumption
<1>13. CurveFull \in Nat  BY DEF Curve!CurveAssumption
<1> QED  BY <1>2, <1>8, <1>9, <1>10, <1>11, <1>12, <1>13 DEF Curve!Span

\* A control point is drawn inside the band, points in their order, and the
\* two ends on its edges.
LEMMA DrawnInOrder ==
  ASSUME Curve!CurveAssumption, NEW c, Sorted(c)
  PROVE  /\ \A x \in 0 .. CurveFull : Curve!InputToPlot(c, x) \in Curve!Lo(c) .. Curve!Hi(c)
         /\ \A x, y \in 0 .. CurveFull :
              x <= y => Curve!InputToPlot(c, x) <= Curve!InputToPlot(c, y)
         /\ Curve!InputToPlot(c, 0) = Curve!Lo(c)
              /\ Curve!InputToPlot(c, CurveFull) = Curve!Hi(c)
<1>0. CurveFull \in Nat \ {0}  BY DEF Curve!CurveAssumption
<1>1. PICK lo \in Nat : lo = Curve!Lo(c)  BY BandInAxis
<1>2. PICK span \in Nat : span = Curve!Span(c) /\ Curve!Hi(c) = lo + span
  BY BandInAxis, <1>1, <1>0
<1>3. \A x : Curve!InputToPlot(c, x) = lo + (x * span) \div CurveFull
  BY <1>1, <1>2 DEF Curve!InputToPlot
<1>4. \A x \in 0 .. CurveFull : x * span \in Nat /\ x * span <= span * CurveFull
  <2> TAKE x \in 0 .. CurveFull
  <2>1. \A w, v \in Nat : w <= v => w * span <= v * span  OBVIOUS
  <2>2. x * span <= CurveFull * span  BY <2>1, <1>0
  <2>3. CurveFull * span = span * CurveFull  BY <1>0
  <2> QED  BY <2>2, <2>3, <1>0
<1>5. \A x \in 0 .. CurveFull : (x * span) \div CurveFull \in 0 .. span
  BY <1>4, <1>0, QuotientBelow
<1>6. \A x, y \in 0 .. CurveFull : x <= y => (x * span) \div CurveFull <= (y * span) \div CurveFull
  <2> TAKE x, y \in 0 .. CurveFull
  <2> HAVE x <= y
  <2>1. \A w, v \in Nat : w <= v => w * span <= v * span  OBVIOUS
  <2>2. x * span <= y * span  BY <2>1, <1>0
  <2> QED  BY <2>2, <1>4, <1>0, QuotientOrder
<1>7. (0 * span) \div CurveFull = 0
  <2>1. 0 * span = 0 * CurveFull  BY <1>0
  <2> QED  BY <2>1, <1>0, QuotientExact
<1>8. (CurveFull * span) \div CurveFull = span
  <2>1. CurveFull * span = span * CurveFull  BY <1>0
  <2> QED  BY <2>1, <1>0, QuotientExact
<1>9. \A x \in 0 .. CurveFull : (x * span) \div CurveFull \in Nat  BY <1>5
<1>10. \A x \in 0 .. CurveFull : Curve!InputToPlot(c, x) \in Curve!Lo(c) .. Curve!Hi(c)
  BY <1>1, <1>2, <1>3, <1>5
<1>11. ASSUME NEW x \in 0 .. CurveFull, NEW y \in 0 .. CurveFull, x <= y
       PROVE  Curve!InputToPlot(c, x) <= Curve!InputToPlot(c, y)
  <2>1. PICK p \in Nat : p = (x * span) \div CurveFull  BY <1>9
  <2>2. PICK q \in Nat : q = (y * span) \div CurveFull  BY <1>9
  <2>3. p <= q  BY <2>1, <2>2, <1>6, <1>11
  <2>4. Curve!InputToPlot(c, x) = lo + p /\ Curve!InputToPlot(c, y) = lo + q
    BY <1>3, <2>1, <2>2
  <2> QED  BY <2>3, <2>4
<1>12. Curve!InputToPlot(c, 0) = Curve!Lo(c)
         /\ Curve!InputToPlot(c, CurveFull) = Curve!Hi(c)
  BY <1>1, <1>2, <1>3, <1>7, <1>8
<1> QED  BY <1>10, <1>11, <1>12

\* A point the mouse or the window's curve puts on the plot is an input.
LEMMA PlotIsInput ==
  ASSUME Curve!CurveAssumption, NEW c, Sorted(c), NEW p \in 0 .. CurveFull
  PROVE  Curve!PlotToInput(c, p) \in 0 .. CurveFull
<1>0. CurveFull \in Nat \ {0}  BY DEF Curve!CurveAssumption
<1>1. PICK lo \in Nat : lo = Curve!Lo(c)  BY BandInAxis
<1>2. PICK span \in Nat : span = Curve!Span(c) /\ Curve!Hi(c) = lo + span
  BY BandInAxis, <1>1, <1>0
<1>3. CASE span = 0  BY <1>0, <1>2, <1>3 DEF Curve!PlotToInput
<1>4. CASE span # 0
  <2>1. PICK d \in 0 .. span : d = Curve!Clamp(p, lo, lo + span) - lo
    BY <1>0 DEF Curve!Clamp
  <2>2. d * CurveFull <= CurveFull * span
    <3>1. \A w, v \in Nat : w <= v => w * CurveFull <= v * CurveFull  BY <1>0
    <3>2. d * CurveFull <= span * CurveFull  BY <3>1
    <3>3. CurveFull * span = span * CurveFull  BY <1>0
    <3> QED  BY <3>2, <3>3
  <2>3. d * CurveFull \in Nat  BY <1>0
  <2>4. (d * CurveFull) \div span \in 0 .. CurveFull
    BY <2>2, <2>3, <1>0, <1>4, QuotientBelow
  <2> QED  BY <2>1, <2>4, <1>1, <1>2, <1>4 DEF Curve!PlotToInput
<1> QED  BY <1>3, <1>4

\* A point with another output is that point at the same input.
LEMMA OutputSet ==
  ASSUME NEW q \in Points, NEW y
  PROVE  [q EXCEPT ![2] = y] = <<q[1], y>>
BY DEF Points

\* A list that rises so far, and the next point no lower than its last one.
Reaches(s, p) ==
  /\ s \in Seq(Points) /\ s # <<>> /\ Rises(s) /\ s[1][1] = 0
  /\ s[Len(s)] = p

\* push_pt keeps the list rising, and its last point is the one pushed, also
\* when that fell on the input of the one before it.
LEMMA PushRises ==
  ASSUME CurveFull \in Nat, NEW s, NEW q \in Points, Reaches(s, q),
         NEW p \in Points, q[1] <= p[1], q[2] <= p[2]
  PROVE  Reaches(Curve!PushPt(s, p), p)
<1> DEFINE n == Len(s)  t == Curve!PushPt(s, p)
<1>1. n \in Nat \ {0} /\ s \in Seq(Points) /\ s[n] = q /\ Curve!Last(s) = q /\ s # <<>>
        /\ s[1][1] = 0
  BY DEF Reaches, Curve!Last
<1>2. \A i \in 1 .. n - 1 : s[i][1] < s[i + 1][1] /\ s[i][2] <= s[i + 1][2]
  BY DEF Reaches, Rises
<1>3. \A i \in 1 .. n : s[i] \in Points  BY <1>1
<1>4. \A r \in Points : r[1] \in 0 .. CurveFull /\ r[2] \in 0 .. CurveFull
                          /\ r = <<r[1], r[2]>>
  BY DEF Points
<1>5. CASE q[1] >= p[1]
  <2>1. q[1] = p[1] /\ p = <<q[1], p[2]>>  BY <1>4, <1>5
  <2>2. t = [s EXCEPT ![n] = [s[n] EXCEPT ![2] = IF p[2] > q[2] THEN p[2] ELSE q[2]]]
    BY <1>1, <1>5 DEF Curve!PushPt
  <2>3. (IF p[2] > q[2] THEN p[2] ELSE q[2]) = p[2]  BY <1>4
  <2>9. [q EXCEPT ![2] = p[2]] = <<q[1], p[2]>>  BY Zenon, OutputSet
  <2>4. t = [s EXCEPT ![n] = p]  BY <2>2, <2>3, <2>9, <2>1, <1>1
  <2> HIDE DEF t
  <2>5. /\ t \in Seq(Points) /\ Len(t) = n /\ t[n] = p
        /\ \A i \in 1 .. n : i # n => t[i] = s[i]
    BY <2>4, <1>1, ExceptSeq
  <2>6. Rises(t)
    <3> SUFFICES ASSUME NEW i \in 1 .. n - 1
                 PROVE  t[i][1] < t[i + 1][1] /\ t[i][2] <= t[i + 1][2]
      BY <2>5 DEF Rises
    <3>1. i # n /\ i \in 1 .. n /\ i + 1 \in 1 .. n  BY <1>1
    <3>2. t[i] = s[i]  BY <3>1, <2>5
    <3>3. CASE i + 1 = n
      <4>1. s[i][1] < q[1] /\ s[i][2] <= q[2]  BY <1>2, <3>3, <1>1
      <4>2. t[i + 1] = p  BY <3>3, <2>5
      <4> QED  BY <4>1, <4>2, <3>1, <3>2, <2>1, <1>3, <1>4
    <3>4. CASE i + 1 # n  BY <3>1, <3>2, <3>4, <2>5, <1>2
    <3> QED  BY <3>3, <3>4
  <2>7. t[1][1] = 0
    <3>1. CASE n = 1  BY <3>1, <2>5, <2>1, <1>1
    <3>2. CASE n # 1  BY <3>2, <2>5, <1>1
    <3> QED  BY <3>1, <3>2
  <2>8. t # <<>>  BY <2>5, <1>1
  <2> QED  BY <2>5, <2>6, <2>7, <2>8 DEF Reaches, t
<1>6. CASE q[1] < p[1]
  <2>1. ~(q[1] >= p[1])  BY <1>4, <1>6
  <2>2. t = Append(s, p)  BY <2>1, <1>1 DEF Curve!PushPt
  <2> HIDE DEF t
  <2>3. /\ t \in Seq(Points) /\ Len(t) = n + 1 /\ t[n + 1] = p
        /\ \A i \in 1 .. n : t[i] = s[i]
    BY <2>2, <1>1
  <2>4. Rises(t)
    <3> SUFFICES ASSUME NEW i \in 1 .. n
                 PROVE  t[i][1] < t[i + 1][1] /\ t[i][2] <= t[i + 1][2]
      BY <2>3 DEF Rises
    <3>1. CASE i = n  BY <3>1, <2>3, <1>1, <1>6
    <3>2. CASE i # n
      <4>1. i \in 1 .. n - 1 /\ i + 1 \in 1 .. n  BY <3>2, <1>1
      <4> QED  BY <4>1, <2>3, <1>2
    <3> QED  BY <3>1, <3>2
  <2>5. t[1][1] = 0 /\ t # <<>>  BY <2>3, <1>1
  <2> QED  BY <2>3, <2>4, <2>5, <1>1 DEF Reaches, t
<1> QED  BY <1>4, <1>5, <1>6

\* The stages of compose's loop over the control points.
Stage(c, band) ==
  band = [k \in 0 .. Len(c.pts) |->
    IF k = 0 THEN IF c.lower > 0 THEN << <<0, 0>> >> ELSE <<>>
    ELSE Curve!PushPt(band[k - 1], <<Curve!InputToPlot(c, c.pts[k][1]), c.pts[k][2]>>)]

LEMMA MappedByStages ==
  ASSUME NEW c
  PROVE  LET band == CHOOSE b : Stage(c, b)
             all == band[Len(c.pts)]
         IN  Curve!Mapped(c)
           = IF c.upper > 0 THEN Curve!PushPt(all, <<CurveFull, CurveFull>>) ELSE all
BY DEF Curve!Mapped, Stage

Base(c) == IF c.lower > 0 THEN << <<0, 0>> >> ELSE <<>>

Drawn(c, k) == <<Curve!InputToPlot(c, c.pts[k][1]), c.pts[k][2]>>

UpTo(c, n, b) ==
  b = [k \in 0 .. n |-> IF k = 0 THEN Base(c) ELSE Curve!PushPt(b[k - 1], Drawn(c, k))]

\* The loop runs to its end: its stages exist, for any number of points.
LEMMA StagesExist ==
  ASSUME NEW c, Len(c.pts) \in Nat
  PROVE  \E b : Stage(c, b)
<1> DEFINE S == {n \in Nat : \E b : UpTo(c, n, b)}
<1>1. 0 \in S
  <2> DEFINE b == [k \in 0 .. 0 |-> Base(c)]
  <2>1. b = [k \in 0 .. 0 |-> IF k
          = 0 THEN Base(c) ELSE Curve!PushPt(b[k - 1], Drawn(c, k))]
    OBVIOUS
  <2> HIDE DEF b
  <2>2. UpTo(c, 0, b)  BY <2>1 DEF UpTo
  <2> QED  BY <2>2
<1>2. ASSUME NEW n \in Nat, n \in S PROVE n + 1 \in S
  <2>1. PICK b : UpTo(c, n, b)  BY <1>2
  <2>2. b = [k \in 0 .. n |-> IF k
          = 0 THEN Base(c) ELSE Curve!PushPt(b[k - 1], Drawn(c, k))]
    BY <2>1 DEF UpTo
  <2> DEFINE d == [k \in 0 .. n + 1 |-> IF k \in 0 .. n THEN b[k]
                                        ELSE Curve!PushPt(b[n], Drawn(c, n + 1))]
  <2>3. \A k \in 0 .. n : d[k] = b[k]  OBVIOUS
  <2>4. d[n + 1] = Curve!PushPt(b[n], Drawn(c, n + 1))  OBVIOUS
  <2>5. \A k \in 0 .. n : b[k] = IF k
                            = 0 THEN Base(c) ELSE Curve!PushPt(b[k - 1], Drawn(c, k))
    BY <2>2
  <2>6. d = [k \in 0 .. n + 1 |-> d[k]]  OBVIOUS
  <2> HIDE DEF d
  <2>7. \A k \in 0 .. n + 1 : d[k] = IF k
                                = 0 THEN Base(c) ELSE Curve!PushPt(d[k - 1], Drawn(c, k))
    <3> TAKE k \in 0 .. n + 1
    <3>1. CASE k = 0  BY <3>1, <2>3, <2>5
    <3>2. CASE k \in 1 .. n
      <4>1. k \in 0 .. n /\ k - 1 \in 0 .. n /\ k # 0  BY <3>2
      <4>2. d[k] = b[k] /\ d[k - 1] = b[k - 1]  BY <4>1, <2>3
      <4> QED  BY <4>1, <4>2, <2>5
    <3>3. CASE k = n + 1
      <4>1. d[k - 1] = b[n]  BY <3>3, <2>3
      <4> QED  BY <4>1, <3>3, <2>4
    <3> QED  BY <3>1, <3>2, <3>3
  <2>8. UpTo(c, n + 1, d)  BY <2>6, <2>7 DEF UpTo
  <2> QED  BY <2>8
<1> HIDE DEF S
<1>3. Nat \subseteq S  BY <1>1, <1>2, SetInduction
<1>4. Len(c.pts) \in S  BY <1>3
<1>5. PICK b : UpTo(c, Len(c.pts), b)  BY <1>4 DEF S
<1>6. Stage(c, b)  BY <1>5 DEF Stage, UpTo, Base, Drawn
<1> QED  BY <1>6

\* After the k-th control point the list rises and ends where it is drawn.
LEMMA StagesRise ==
  ASSUME Curve!CurveAssumption, NEW c, Sorted(c), NEW b, Stage(c, b)
  PROVE  Reaches(b[Len(c.pts)], <<Curve!Hi(c), CurveFull>>)
<1>0. CurveFull \in Nat \ {0}  BY DEF Curve!CurveAssumption
<1>1. PICK s \in Seq(Points), l \in 0 .. CurveHundred - 1, u \in 0 .. CurveHundred - 1 :
        c = CurveOf(s, l, u) /\ Pinned(s)
  BY DEF Sorted
<1>2. c.pts = s /\ c.lower = l  BY <1>1 DEF CurveOf
<1>3. PICK n \in Nat : n = Len(s) /\ n >= 2  BY <1>1 DEF Pinned
<1>4. /\ s[1] = <<0, 0>> /\ s[n] = <<CurveFull, CurveFull>>
      /\ \A i \in 1 .. n - 1 : s[i][1] < s[i + 1][1] /\ s[i][2] <= s[i + 1][2]
  BY <1>1, <1>3 DEF Pinned, Rises
<1>5. \A k \in 0 .. n : b[k] = IF k
                          = 0 THEN Base(c) ELSE Curve!PushPt(b[k - 1], Drawn(c, k))
  BY <1>2, <1>3 DEF Stage, Base, Drawn
<1>6. \A k \in 1 .. n : s[k][1] \in 0 .. CurveFull /\ s[k][2] \in 0 .. CurveFull
  BY <1>1, <1>3 DEF Points
<1>7. /\ \A k \in 1 .. n : Drawn(c, k) \in Points
      /\ \A k \in 1 .. n : Drawn(c, k)[1] = Curve!InputToPlot(c, s[k][1])
      /\ \A k \in 1 .. n : Drawn(c, k)[2] = s[k][2]
  <2> SUFFICES ASSUME NEW k \in 1 .. n
               PROVE  /\ Drawn(c, k) \in Points
                      /\ Drawn(c, k)[1] = Curve!InputToPlot(c, s[k][1])
                      /\ Drawn(c, k)[2] = s[k][2]
    OBVIOUS
  <2>1. Curve!InputToPlot(c, s[k][1]) \in Curve!Lo(c) .. Curve!Hi(c)  BY <1>6, DrawnInOrder
  <2>2. Curve!InputToPlot(c, s[k][1]) \in 0 .. CurveFull  BY <2>1, <1>0, BandInAxis
  <2> QED  BY <2>2, <1>2, <1>6 DEF Drawn, Points
<1>8. \A k \in 1 .. n - 1 : Drawn(c, k)[1] <= Drawn(c, k + 1)[1]
                              /\ Drawn(c, k)[2] <= Drawn(c, k + 1)[2]
  <2> TAKE k \in 1 .. n - 1
  <2>1. k \in 1 .. n /\ k + 1 \in 1 .. n  OBVIOUS
  <2>2. s[k][1] <= s[k + 1][1] /\ s[k][2] <= s[k + 1][2]  BY <2>1, <1>4, <1>6, <1>0
  <2>3. Curve!InputToPlot(c, s[k][1]) <= Curve!InputToPlot(c, s[k + 1][1])
    BY <2>1, <2>2, <1>6, DrawnInOrder
  <2> QED  BY <2>1, <2>2, <2>3, <1>7
<1>9. Drawn(c, 1) = <<Curve!Lo(c), 0>> /\ Drawn(c, n) = <<Curve!Hi(c), CurveFull>>
  BY <1>2, <1>3, <1>4, DrawnInOrder DEF Drawn
<1>10. Reaches(b[1], Drawn(c, 1))
  <2>1. b[1] = Curve!PushPt(Base(c), Drawn(c, 1)) /\ b[0] = Base(c)
    BY <1>3, <1>5
  <2>2. CASE l = 0
    <3>1. Base(c) = <<>> /\ Curve!Lo(c) = 0  BY <2>2, <1>2, BandInAxis DEF Base
    <3>2. b[1] = << <<0, 0>> >>  BY <2>1, <3>1, <1>9 DEF Curve!PushPt
    <3>3. <<0, 0>> \in Points  BY <1>0 DEF Points
    <3> QED  BY <3>1, <3>2, <3>3, <1>9 DEF Reaches, Rises
  <2>3. CASE l # 0
    <3>1. Base(c) = << <<0, 0>> >>  BY <2>3, <1>2 DEF Base
    <3>2. <<0, 0>> \in Points  BY <1>0 DEF Points
    <3>3. Reaches(Base(c), <<0, 0>>)  BY <3>1, <3>2 DEF Reaches, Rises
    <3>4. Curve!Lo(c) \in Nat  BY BandInAxis, <1>0
    <3>5. Drawn(c, 1) \in Points  BY <1>3, <1>7
    <3>6. PICK q \in Points : q = <<0, 0>>  BY <3>2
    <3>7. q[1] <= Drawn(c, 1)[1] /\ q[2] <= Drawn(c, 1)[2]  BY <3>4, <3>6, <1>9
    <3> QED  BY <2>1, <3>3, <3>5, <3>6, <3>7, <1>0, PushRises
  <2> QED  BY <2>2, <2>3
<1> DEFINE S == {m \in Nat : m + 1 <= n => Reaches(b[m + 1], Drawn(c, m + 1))}
<1>11. 0 \in S  BY <1>10
<1>12. ASSUME NEW m \in Nat, m \in S PROVE m + 1 \in S
  <2> SUFFICES ASSUME m + 1 + 1 <= n PROVE Reaches(b[m + 1 + 1], Drawn(c, m + 1 + 1))
    OBVIOUS
  <2>1. PICK k \in 1 .. n - 1 : k = m + 1  OBVIOUS
  <2>2. Reaches(b[k], Drawn(c, k))  BY <2>1, <1>12
  <2>3. k + 1 \in 0 .. n /\ k + 1 # 0 /\ (k + 1) - 1 = k /\ k \in 1 .. n /\ k + 1 \in 1 .. n
    BY <2>1
  <2>4. b[k + 1] = Curve!PushPt(b[k], Drawn(c, k + 1))  BY <2>3, <1>5
  <2>5. Drawn(c, k) \in Points /\ Drawn(c, k + 1) \in Points  BY <2>3, <1>7
  <2>6. Drawn(c, k)[1] <= Drawn(c, k + 1)[1] /\ Drawn(c, k)[2] <= Drawn(c, k + 1)[2]
    BY <1>8
  <2>7. Reaches(b[k + 1], Drawn(c, k + 1))
    BY <2>2, <2>4, <2>5, <2>6, <1>0, PushRises
  <2> QED  BY <2>1, <2>7
<1> HIDE DEF S
<1>13. Nat \subseteq S  BY <1>11, <1>12, SetInduction
<1>14. n - 1 \in S  BY <1>13, <1>3
<1>15. (n - 1) + 1 = n  BY <1>3
<1>16. Reaches(b[n], Drawn(c, n))  BY <1>14, <1>15, <1>3 DEF S
<1> QED  BY <1>16, <1>9, <1>2, <1>3

\* compose gives the uploader a list it accepts.
LEMMA ComposeAccepted ==
  ASSUME Curve!CurveAssumption, NEW c, Sorted(c)
  PROVE  Pinned(Curve!Compose(c))
<1>0. CurveFull \in Nat \ {0}  BY DEF Curve!CurveAssumption
<1>1. Len(c.pts) \in Nat  BY DEF Sorted, CurveOf, Pinned
<1>2. PICK b : b = CHOOSE d : Stage(c, d)  OBVIOUS
<1>3. Stage(c, b)  BY <1>1, <1>2, StagesExist
<1>4. PICK all : all = b[Len(c.pts)]  OBVIOUS
<1>5. Reaches(all, <<Curve!Hi(c), CurveFull>>)  BY <1>3, <1>4, StagesRise
<1>6. Curve!Mapped(c)
        = IF c.upper > 0 THEN Curve!PushPt(all, <<CurveFull, CurveFull>>) ELSE all
  BY <1>2, <1>4, MappedByStages
<1>7. PICK h \in 0 .. CurveFull : h = Curve!Hi(c)  BY <1>0, BandInAxis
<1>8. <<h, CurveFull>> \in Points /\ <<CurveFull, CurveFull>> \in Points  BY <1>0 DEF Points
<1>9. PICK q \in Points : q = <<h, CurveFull>>  BY <1>8
<1>10. PICK p \in Points : p = <<CurveFull, CurveFull>>  BY <1>8
<1>11. q[1] <= p[1] /\ q[2] <= p[2]  BY <1>9, <1>10, <1>0
<1>12. Reaches(Curve!PushPt(all, p), p)
  BY <1>5, <1>7, <1>9, <1>11, <1>0, PushRises
<1>13. PICK m : m = Curve!Mapped(c)  OBVIOUS
<1>14. (Reaches(m, q) /\ (m[Len(m)][1] = CurveFull => q = p)) \/ Reaches(m, p)
  <2>1. CASE c.upper > 0  BY <2>1, <1>6, <1>12, <1>10, <1>13
  <2>2. CASE ~(c.upper > 0)
    <3>1. m = all  BY <2>2, <1>6, <1>13
    <3>2. m[Len(m)] = q  BY <3>1, <1>5, <1>7, <1>9 DEF Reaches
    <3> QED  BY <3>1, <3>2, <1>5, <1>7, <1>9, <1>10
  <2> QED  BY <2>1, <2>2
<1>15. m \in Seq(Points) /\ m # <<>> /\ Head(m)[1] = 0 /\ Curve!Last(m) = m[Len(m)]
  BY <1>14 DEF Reaches, Curve!Last
<1>16. PICK out : out = Curve!PinnedInputs(m)  OBVIOUS
<1>17. Reaches(out, p)
  <2>1. out = IF Curve!Last(m)[1] = CurveFull THEN m ELSE Curve!PushPt(m, p)
    BY <1>15, <1>16, <1>10 DEF Curve!PinnedInputs
  <2>2. CASE Curve!Last(m)[1] = CurveFull  BY <2>1, <2>2, <1>14, <1>15
  <2>3. CASE Curve!Last(m)[1] # CurveFull
    <3>1. ~Reaches(m, p)  BY <2>3, <1>10, <1>15 DEF Reaches
    <3>2. Reaches(Curve!PushPt(m, p), p)  BY <3>1, <1>14, <1>11, <1>0, PushRises
    <3> QED  BY <2>1, <2>3, <3>2
  <2> QED  BY <2>2, <2>3
<1>18. PICK n \in Nat : n = Len(out) /\ n # 0  BY <1>17 DEF Reaches
<1>19. /\ out \in Seq(Points) /\ out[1][1] = 0 /\ out[n] = <<CurveFull, CurveFull>>
       /\ \A i \in 1 .. n - 1 : out[i][1] < out[i + 1][1] /\ out[i][2] <= out[i + 1][2]
  BY <1>17, <1>18, <1>10 DEF Reaches, Rises
<1>20. n >= 2  BY <1>18, <1>19, <1>0
<1>21. \A i \in 1 .. n : out[i] \in Points /\ out[i][1] \in 0 .. CurveFull
                           /\ out[i][2] \in 0 .. CurveFull
  BY <1>18, <1>19 DEF Points
<1>22. PICK t : t = [out EXCEPT ![1] = <<0, 0>>]  OBVIOUS
<1>23. <<0, 0>> \in Points  BY <1>0 DEF Points
<1>24. /\ t \in Seq(Points) /\ Len(t) = n
       /\ \A i \in 1 .. n : t[i] = IF i = 1 THEN <<0, 0>> ELSE out[i]
  BY <1>18, <1>19, <1>20, <1>22, <1>23, ExceptSeq
<1>25. Curve!Compose(c) = t
  <2>1. [out[1] EXCEPT ![2] = 0] = <<out[1][1], 0>>  BY <1>20, <1>21, OutputSet
  <2>2. <<out[1][1], 0>> = <<0, 0>>  BY <1>19
  <2>3. [p EXCEPT ![2] = CurveFull] = <<p[1], CurveFull>>  BY OutputSet
  <2>4. <<p[1], CurveFull>> = p  BY <1>10
  <2>5. t[n] = p  BY <1>24, <1>19, <1>20, <1>10
  <2>6. [t EXCEPT ![n] = p] = t  BY <2>5, <1>24, <1>20
  <2>7. Curve!Compose(c) = [[out EXCEPT ![1] = [out[1] EXCEPT ![2] = 0]]
                       EXCEPT ![n] = [[out EXCEPT ![1] = [out[1] EXCEPT ![2]
                         = 0]][n] EXCEPT ![2] = CurveFull]]
    BY <1>13, <1>16, <1>18 DEF Curve!Compose
  <2>8. [out EXCEPT ![1] = [out[1] EXCEPT ![2] = 0]] = t  BY <2>1, <2>2, <1>22
  <2>9. Curve!Compose(c) = [t EXCEPT ![n] = [t[n] EXCEPT ![2] = CurveFull]]
    BY Zenon, <2>7, <2>8
  <2> QED  BY Zenon, <2>9, <2>3, <2>4, <2>5, <2>6
<1>26. Rises(t)
  <2> SUFFICES ASSUME NEW i \in 1 .. n - 1
               PROVE  t[i][1] < t[i + 1][1] /\ t[i][2] <= t[i + 1][2]
    BY <1>24 DEF Rises
  <2>1. i \in 1 .. n /\ i + 1 \in 1 .. n /\ i + 1 # 1  OBVIOUS
  <2>2. t[i + 1] = out[i + 1]  BY <2>1, <1>24
  <2>3. CASE i = 1
    <3>1. t[i] = <<0, 0>>  BY <2>1, <2>3, <1>24
    <3>2. out[i][1] = 0  BY <2>3, <1>19
    <3> QED  BY <3>1, <3>2, <2>1, <2>2, <1>19, <1>21
  <2>4. CASE i # 1  BY <2>1, <2>2, <2>4, <1>24, <1>19
  <2> QED  BY <2>3, <2>4
<1>27. t[1] = <<0, 0>> /\ t[n] = <<CurveFull, CurveFull>>  BY <1>24, <1>19, <1>20
<1> QED  BY <1>20, <1>24, <1>25, <1>26, <1>27 DEF Pinned

CurveInv ==
  /\ Sorted(curve)
  /\ overlay \in {"none", "window", "terminal"}
       /\ field \in {Curve!Fields[i] : i \in 1 .. 5}
  /\ sel \in 1 .. Len(curve.pts) /\ (overlay # "terminal" => sel = 1)

LEMMA LinearSorted ==
  ASSUME Curve!CurveAssumption
  PROVE  Sorted(Curve!Linear) /\ Len(Curve!Linear.pts) = 2
<1>0. CurveFull \in Nat \ {0} /\ CurveHundred \in Nat \ {0}  BY DEF Curve!CurveAssumption
<1> DEFINE s == << <<0, 0>>, <<CurveFull, CurveFull>> >>
<1>1. s \in Seq(Points) /\ Len(s) = 2 /\ s[1] = <<0, 0>> /\ s[2] = <<CurveFull, CurveFull>>
  BY <1>0 DEF Points
<1>2. Curve!Linear = CurveOf(s, 0, 0)  BY DEF Curve!Linear, CurveOf
<1>3. Curve!Linear.pts = s  BY DEF Curve!Linear
<1> HIDE DEF s
<1>4. Rises(s)  BY <1>0, <1>1 DEF Rises
<1>5. Pinned(s)  BY <1>1, <1>4 DEF Pinned
<1>6. 0 \in 0 .. CurveHundred - 1 /\ 0 + 0 < CurveHundred  BY <1>0
<1> QED  BY <1>1, <1>2, <1>3, <1>5, <1>6 DEF Sorted

\* The list with one inner point replaced by one between its neighbours.
LEMMA PointMoved ==
  ASSUME CurveFull \in Nat, NEW s, Pinned(s), NEW i \in 2 .. Len(s) - 1, NEW p \in Points,
         s[i - 1][1] < p[1], p[1] < s[i + 1][1], s[i - 1][2] <= p[2], p[2] <= s[i + 1][2]
  PROVE  Pinned([s EXCEPT ![i] = p]) /\ Len([s EXCEPT ![i] = p]) = Len(s)
<1>1. PICK n \in Nat : n = Len(s) /\ n >= 2  BY DEF Pinned
<1>2. PICK t : t = [s EXCEPT ![i] = p]  OBVIOUS
<1>3. s \in Seq(Points) /\ i \in 1 .. n  BY <1>1 DEF Pinned
<1>4. t \in Seq(Points) /\ Len(t) = n /\ \A j \in 1 .. n : t[j] = IF j = i THEN p ELSE s[j]
  BY <1>1, <1>2, <1>3, ExceptSeq
<1>5. \A j \in 1 .. n - 1 : s[j][1] < s[j + 1][1] /\ s[j][2] <= s[j + 1][2]
  BY <1>1 DEF Pinned, Rises
<1>6. \A j \in 1 .. n - 1 : t[j][1] < t[j + 1][1] /\ t[j][2] <= t[j + 1][2]
  <2> TAKE j \in 1 .. n - 1
  <2>1. j \in 1 .. n /\ j + 1 \in 1 .. n  OBVIOUS
  <2>2. CASE j = i  BY <2>1, <2>2, <1>4
  <2>3. CASE j + 1 = i
    <3>1. t[j] = s[i - 1] /\ t[j + 1] = p  BY <2>1, <2>3, <1>4
    <3> QED  BY <3>1
  <2>4. CASE j # i /\ j + 1 # i  BY <2>1, <2>4, <1>4, <1>5
  <2> QED  BY <2>2, <2>3, <2>4
<1>7. t[1] = s[1] /\ t[n] = s[n]  BY <1>1, <1>4
<1> QED  BY <1>1, <1>2, <1>4, <1>6, <1>7 DEF Pinned, Rises

\* A curve with another list of points.
LEMMA WithPoints ==
  ASSUME NEW c, Sorted(c), NEW t, Pinned(t)
  PROVE  Sorted([c EXCEPT !.pts = t]) /\ [c EXCEPT !.pts = t].pts = t
<1>1. PICK s \in Seq(Points), l \in 0 .. CurveHundred - 1, u \in 0 .. CurveHundred - 1 :
        c = CurveOf(s, l, u) /\ l + u < CurveHundred
  BY DEF Sorted
<1>2. [c EXCEPT !.pts = t] = CurveOf(t, l, u)  BY <1>1 DEF CurveOf
<1>3. CurveOf(t, l, u).pts = t  BY DEF CurveOf
<1> QED  BY <1>1, <1>2, <1>3 DEF Sorted, Pinned

LEMMA SortedPoints ==
  ASSUME NEW c, Sorted(c)
  PROVE  /\ Pinned(c.pts) /\ c.pts \in Seq(Points) /\ Len(c.pts) \in Nat /\ Len(c.pts) >= 2
         /\ \A i \in 1 .. Len(c.pts) : c.pts[i][1] \in 0 .. CurveFull
                                         /\ c.pts[i][2] \in 0 .. CurveFull
         /\ c.lower \in 0 .. CurveHundred - 1 /\ c.upper \in 0 .. CurveHundred - 1
         /\ c.lower + c.upper < CurveHundred
<1>1. PICK s \in Seq(Points), l \in 0 .. CurveHundred - 1, u \in 0 .. CurveHundred - 1 :
        c = CurveOf(s, l, u) /\ Pinned(s) /\ l + u < CurveHundred
  BY DEF Sorted
<1>2. c.pts = s /\ c.lower = l /\ c.upper = u  BY <1>1 DEF CurveOf
<1>3. s \in Seq(Points) /\ Len(s) \in Nat /\ Len(s) >= 2  BY <1>1 DEF Pinned
<1>4. \A i \in 1 .. Len(s) : s[i][1] \in 0 .. CurveFull /\ s[i][2] \in 0 .. CurveFull
  BY <1>3 DEF Points
<1> QED  BY <1>1, <1>2, <1>3, <1>4

\* move_point: what the mouse or a key asks for, between the neighbours.
LEMMA MoveSorted ==
  ASSUME Curve!CurveAssumption, NEW c, Sorted(c), NEW i, NEW x \in Int, NEW y \in Int
  PROVE  Sorted(Curve!MovePoint(c, i, x, y))
           /\ Len(Curve!MovePoint(c, i, x, y).pts) = Len(c.pts)
<1>0. CurveFull \in Nat  BY DEF Curve!CurveAssumption
<1>1. CASE i \notin 2 .. Len(c.pts) - 1  BY <1>1 DEF Curve!MovePoint
<1>2. CASE i \in 2 .. Len(c.pts) - 1
  <2>1. PICK s : s = c.pts /\ Pinned(s) /\ s \in Seq(Points)  BY SortedPoints
  <2>2. PICK n \in Nat : n = Len(s) /\ i \in 2 .. n - 1  BY <1>2, <2>1
  <2>3. \A j \in 1 .. n : s[j][1] \in 0 .. CurveFull /\ s[j][2] \in 0 .. CurveFull
    <3> TAKE j \in 1 .. n
    <3>1. s[j] \in Points  BY <2>1, <2>2
    <3> QED  BY <3>1 DEF Points
  <2>4. i - 1 \in 1 .. n /\ i \in 1 .. n /\ i + 1 \in 1 .. n /\ (i - 1) + 1 = i
          /\ i - 1 \in 1 .. n - 1 /\ i \in 1 .. n - 1
    BY <2>2
  <2>5. /\ s[i - 1][1] < s[i][1] /\ s[i][1] < s[i + 1][1]
        /\ s[i - 1][2] <= s[i][2] /\ s[i][2] <= s[i + 1][2]
    BY <2>1, <2>2, <2>4 DEF Pinned, Rises
  <2>6. PICK a \in 0 .. CurveFull, b \in 0 .. CurveFull : a = s[i - 1][1] /\ b = s[i + 1][1]
    BY <2>3, <2>4
  <2>7. PICK d \in 0 .. CurveFull, e \in 0 .. CurveFull : d = s[i - 1][2] /\ e = s[i + 1][2]
    BY <2>3, <2>4
  <2>8. PICK f \in 0 .. CurveFull, g \in 0 .. CurveFull : f = s[i][1] /\ g = s[i][2]
    BY <2>3, <2>4
  <2>9. a < f /\ f < b /\ d <= e  BY <2>5, <2>6, <2>7, <2>8, <1>0
  <2>10. PICK u : u = IF a + 1 <= b - 1 THEN Curve!Clamp(x, a + 1, b - 1) ELSE f  OBVIOUS
  <2>11. u \in 0 .. CurveFull /\ a < u /\ u < b  BY <2>9, <2>10, <1>0 DEF Curve!Clamp
  <2>12. PICK v : v = Curve!Clamp(y, d, e)  OBVIOUS
  <2>13. v \in 0 .. CurveFull /\ d <= v /\ v <= e  BY <2>9, <2>12, <1>0 DEF Curve!Clamp
  <2>14. PICK p \in Points : p = <<u, v>>  BY <2>11, <2>13 DEF Points
  <2>15. p[1] = u /\ p[2] = v  BY <2>14
  <2>16. Curve!MovePoint(c, i, x, y) = [c EXCEPT !.pts = [c.pts EXCEPT ![i] = p]]
    BY <1>2, <2>1, <2>6, <2>7, <2>8, <2>10, <2>12, <2>14 DEF Curve!MovePoint
  <2>17. Pinned([s EXCEPT ![i] = p]) /\ Len([s EXCEPT ![i] = p]) = Len(s)
    BY <2>1, <2>2, <2>6, <2>7, <2>11, <2>13, <2>15, <1>0, PointMoved
  <2> QED  BY <2>1, <2>16, <2>17, WithPoints
<1> QED  BY <1>1, <1>2

LEMMA DeadzoneSorted ==
  ASSUME Curve!CurveAssumption, NEW c, Sorted(c), NEW v \in Int
  PROVE  /\ Sorted(Curve!SetLowerDeadzone(c, v)) /\ Curve!SetLowerDeadzone(c, v).pts = c.pts
         /\ Sorted(Curve!SetUpperDeadzone(c, v)) /\ Curve!SetUpperDeadzone(c, v).pts = c.pts
<1>0. CurveHundred \in Nat \ {0}  BY DEF Curve!CurveAssumption
<1>1. PICK s \in Seq(Points), l \in 0 .. CurveHundred - 1, u \in 0 .. CurveHundred - 1 :
        c = CurveOf(s, l, u) /\ Pinned(s) /\ l + u < CurveHundred
  BY DEF Sorted
<1>2. c.pts = s /\ c.lower = l /\ c.upper = u  BY <1>1 DEF CurveOf
<1>3. PICK a : a = Curve!Clamp(v, 0, (CurveHundred - 1) - u)  OBVIOUS
<1>4. PICK b : b = Curve!Clamp(v, 0, (CurveHundred - 1) - l)  OBVIOUS
<1>5. a \in 0 .. CurveHundred - 1 /\ a + u < CurveHundred
        /\ b \in 0 .. CurveHundred - 1 /\ l + b < CurveHundred
  BY <1>0, <1>1, <1>3, <1>4 DEF Curve!Clamp
<1>6. Curve!SetLowerDeadzone(c, v) = CurveOf(s, a, u)
        /\ Curve!SetUpperDeadzone(c, v) = CurveOf(s, l, b)
  BY <1>1, <1>2, <1>3, <1>4 DEF Curve!SetLowerDeadzone, Curve!SetUpperDeadzone, CurveOf
<1>7. CurveOf(s, a, u).pts = s /\ CurveOf(s, l, b).pts = s  BY DEF CurveOf
<1> QED  BY <1>1, <1>2, <1>5, <1>6, <1>7 DEF Sorted

\* The order of the points, not only of neighbours: what taking one out needs.
LEMMA PointRemoved ==
  ASSUME CurveFull \in Nat, NEW s, Pinned(s), NEW i \in 2 .. Len(s) - 1
  PROVE  Pinned(Curve!RemoveAt(s, i)) /\ Len(Curve!RemoveAt(s, i)) = Len(s) - 1
<1>1. PICK n \in Nat : n = Len(s) /\ n >= 2  BY DEF Pinned
<1>2. s \in Seq(Points) /\ i \in 2 .. n - 1  BY <1>1 DEF Pinned
<1>3. PICK a : a = SubSeq(s, 1, i - 1)  OBVIOUS
<1>4. PICK b : b = SubSeq(s, i + 1, n)  OBVIOUS
<1>5. a \in Seq(Points) /\ Len(a) = i - 1 /\ \A j \in 1 .. i - 1 : a[j] = s[j]
  BY <1>1, <1>2, <1>3
<1>6. b \in Seq(Points) /\ Len(b) = n - i /\ \A j \in 1 .. n - i : b[j] = s[i + j]
  BY <1>1, <1>2, <1>4
<1>7. PICK t : t = Curve!RemoveAt(s, i)  OBVIOUS
<1>8. t = a \o b  BY <1>1, <1>3, <1>4, <1>7 DEF Curve!RemoveAt
<1>9. t \in Seq(Points) /\ Len(t) = n - 1
  <2>1. Len(t) = Len(a) + Len(b) /\ t \in Seq(Points)  BY <1>5, <1>6, <1>8, ConcatProperties
  <2> QED  BY <2>1, <1>1, <1>2, <1>5, <1>6
<1>10. \A j \in 1 .. n - 1 : t[j] = IF j < i THEN s[j] ELSE s[j + 1]
  <2> TAKE j \in 1 .. n - 1
  <2>1. CASE j < i
    <3>1. j \in 1 .. i - 1  BY <2>1, <1>2
    <3> QED  BY <3>1, <2>1, <1>5, <1>6, <1>8
  <2>2. CASE ~(j < i)
    <3>1. PICK k \in 1 .. n - i : k = j - (i - 1)  BY <2>2, <1>2
    <3>2. t[j] = b[k]  BY <3>1, <2>2, <1>2, <1>5, <1>6, <1>8
    <3>3. i + k = j + 1  BY <3>1, <1>2
    <3> QED  BY <3>1, <3>2, <3>3, <2>2, <1>6
  <2> QED  BY <2>1, <2>2
<1>11. \A j \in 1 .. n - 1 : s[j][1] < s[j + 1][1] /\ s[j][2] <= s[j + 1][2]
  BY <1>1 DEF Pinned, Rises
<1>12. \A j \in 1 .. n : s[j][1] \in 0 .. CurveFull /\ s[j][2] \in 0 .. CurveFull
  BY <1>1, <1>2 DEF Points
<1>13. \A j \in 1 .. n - 2 : t[j][1] < t[j + 1][1] /\ t[j][2] <= t[j + 1][2]
  <2> TAKE j \in 1 .. n - 2
  <2>1. j \in 1 .. n - 1 /\ j + 1 \in 1 .. n - 1 /\ j + 2 \in 1 .. n /\ (j + 1) + 1 = j + 2
          /\ j \in 1 .. n /\ j + 1 \in 1 .. n
    BY <1>1
  <2>2. /\ s[j][1] < s[j + 1][1] /\ s[j][2] <= s[j + 1][2]
        /\ s[j + 1][1] < s[j + 2][1] /\ s[j + 1][2] <= s[j + 2][2]
    BY <2>1, <1>11
  <2>3. CASE j + 1 < i
    <3>1. t[j] = s[j] /\ t[j + 1] = s[j + 1]  BY <2>1, <2>3, <1>2, <1>10
    <3> QED  BY <3>1, <2>2
  <2>4. CASE j + 1 = i
    <3>1. t[j] = s[j] /\ t[j + 1] = s[j + 2]  BY <2>1, <2>4, <1>2, <1>10
    <3> QED  BY <3>1, <2>1, <2>2, <1>12
  <2>5. CASE j + 1 > i
    <3>1. t[j] = s[j + 1] /\ t[j + 1] = s[j + 2]  BY <2>1, <2>5, <1>2, <1>10
    <3> QED  BY <3>1, <2>2
  <2> QED  BY <2>3, <2>4, <2>5, <1>2
<1>14. t[1] = s[1] /\ t[n - 1] = s[n]  BY <1>1, <1>2, <1>10
<1>15. Rises(t)  BY <1>1, <1>9, <1>13 DEF Rises
<1> QED  BY <1>1, <1>2, <1>7, <1>9, <1>14, <1>15 DEF Pinned

LEMMA RemoveSorted ==
  ASSUME Curve!CurveAssumption, NEW c, Sorted(c), NEW i
  PROVE  /\ Sorted(Curve!RemovePoint(c, i))
         /\ Len(Curve!RemovePoint(c, i).pts) \in {Len(c.pts), Len(c.pts) - 1}
         /\ Len(Curve!RemovePoint(c, i).pts) >= 2
<1>0. CurveFull \in Nat  BY DEF Curve!CurveAssumption
<1>1. CASE i \notin 2 .. Len(c.pts) - 1  BY <1>1, SortedPoints DEF Curve!RemovePoint
<1>2. CASE i \in 2 .. Len(c.pts) - 1
  <2>1. PICK s : s = c.pts /\ Pinned(s)  BY SortedPoints
  <2>2. PICK t : t = Curve!RemoveAt(s, i)  OBVIOUS
  <2>3. Pinned(t) /\ Len(t) = Len(s) - 1 /\ Len(t) >= 2
    <3>1. Pinned(t) /\ Len(t) = Len(s) - 1  BY <1>0, <1>2, <2>1, <2>2, PointRemoved
    <3> QED  BY <3>1 DEF Pinned
  <2>4. Curve!RemovePoint(c, i) = [c EXCEPT !.pts = t]
    BY <1>2, <2>1, <2>2 DEF Curve!RemovePoint
  <2> QED  BY <2>1, <2>3, <2>4, WithPoints
<1> QED  BY <1>1, <1>2

\* A new input lies strictly inside one window of two points.
LEMMA WindowFound ==
  ASSUME CurveFull \in Nat, NEW s, Pinned(s), NEW x \in 0 .. CurveFull,
         \A i \in 1 .. Len(s) : s[i][1] # x
  PROVE  /\ Curve!Window(s, x) \in 1 .. Len(s) - 1
         /\ s[Curve!Window(s, x)][1] < x /\ x < s[Curve!Window(s, x) + 1][1]
<1>1. PICK n \in Nat : n = Len(s) /\ n >= 2  BY DEF Pinned
<1>2. /\ s \in Seq(Points) /\ s[1] = <<0, 0>> /\ s[n] = <<CurveFull, CurveFull>>
  BY <1>1 DEF Pinned
<1>3. \A j \in 1 .. n : s[j][1] \in 0 .. CurveFull  BY <1>1, <1>2 DEF Points
<1> DEFINE T == {i \in 1 .. n - 1 : x <= s[i + 1][1]}
<1>4. n - 1 \in T  BY <1>1, <1>2
<1>5. PICK m \in T : \A y \in T : m <= y
  <2>1. T \subseteq Nat  BY <1>1
  <2>2. T # {}  BY <1>4
  <2> HIDE DEF T
  <2> QED  BY <2>1, <2>2, LeastNat
<1>6. \A j \in 1 .. m - 1 : x > s[j + 1][1]
  <2> TAKE j \in 1 .. m - 1
  <2>1. j \in 1 .. n - 1 /\ ~(m <= j) /\ j + 1 \in 1 .. n  BY <1>1, <1>5
  <2>2. j \notin T  BY <2>1, <1>5
  <2> QED  BY <2>1, <2>2, <1>3
<1>7. \E i \in 1 .. Len(s) - 1 :
         x <= s[i + 1][1] /\ \A j \in 1 .. i - 1 : x > s[j + 1][1]
  BY <1>1, <1>5, <1>6
<1>8. PICK w : w = Curve!Window(s, x)  OBVIOUS
<1>9. w \in 1 .. n - 1 /\ x <= s[w + 1][1] /\ \A j \in 1 .. w - 1 : x > s[j + 1][1]
  BY <1>1, <1>7, <1>8 DEF Curve!Window
<1>10. w \in 1 .. n /\ w + 1 \in 1 .. n  BY <1>9
<1>11. x < s[w + 1][1]
  <2>1. s[w + 1][1] # x  BY <1>1, <1>10
  <2> QED  BY <2>1, <1>3, <1>9, <1>10
<1>12. s[w][1] < x
  <2>1. CASE w = 1
    <3>1. s[1][1] # x  BY <1>1
    <3> QED  BY <3>1, <2>1, <1>2
  <2>2. CASE w # 1
    <3>1. w - 1 \in 1 .. w - 1 /\ (w - 1) + 1 = w  BY <2>2, <1>9
    <3>2. x > s[(w - 1) + 1][1]  BY <3>1, <1>9
    <3> QED  BY <3>1, <3>2, <1>3, <1>10
  <2> QED  BY <2>1, <2>2
<1> QED  BY <1>1, <1>8, <1>9, <1>11, <1>12

\* ... and interp puts its output between theirs.
LEMMA InterpBetween ==
  ASSUME CurveFull \in Nat, NEW s, Pinned(s), NEW x \in 0 .. CurveFull,
         \A i \in 1 .. Len(s) : s[i][1] # x
  PROVE  s[Curve!Window(s, x)][2] <= Curve!Interp(s, x)
           /\ Curve!Interp(s, x) <= s[Curve!Window(s, x) + 1][2]
           /\ Curve!Interp(s, x) \in 0 .. CurveFull
<1>1. PICK n \in Nat : n = Len(s) /\ n >= 2  BY DEF Pinned
<1>2. /\ s \in Seq(Points) /\ s[1] = <<0, 0>>  BY <1>1 DEF Pinned
<1>3. \A j \in 1 .. n : s[j][1] \in 0 .. CurveFull /\ s[j][2] \in 0 .. CurveFull
  BY <1>1, <1>2 DEF Points
<1>4. PICK w \in 1 .. n - 1 : w = Curve!Window(s, x) /\ s[w][1] < x /\ x < s[w + 1][1]
  BY <1>1, WindowFound
<1>5. w \in 1 .. n /\ w + 1 \in 1 .. n  BY <1>4
<1>6. PICK a1 \in 0 .. CurveFull, a2 \in 0 .. CurveFull : a1 = s[w][1] /\ a2 = s[w][2]
  BY <1>3, <1>5
<1>7. PICK b1 \in 0 .. CurveFull, b2 \in 0 .. CurveFull : b1 = s[w + 1][1]
        /\ b2 = s[w + 1][2]
  BY <1>3, <1>5
<1>8. a2 <= b2  BY <1>1, <1>4, <1>6, <1>7 DEF Pinned, Rises
<1>9. a1 < x /\ x < b1  BY <1>4, <1>6, <1>7
<1>10. ~(x <= s[1][1])  BY <1>2, <1>6, <1>9
<1>11. Curve!Interp(s, x) = a2 + ((x - a1) * (b2 - a2)) \div (b1 - a1)
  BY <1>4, <1>6, <1>7, <1>10 DEF Curve!Interp
<1>12. PICK d \in Nat : d = x - a1  BY <1>9
<1>13. PICK e \in Nat : e = b2 - a2  BY <1>8
<1>14. PICK g \in Nat \ {0} : g = b1 - a1 /\ d <= g  BY <1>9, <1>12
<1>15. d * e \in Nat /\ d * e <= e * g
  <2>1. \A u, v \in Nat : u <= v => u * e <= v * e  OBVIOUS
  <2>2. d * e <= g * e  BY <2>1, <1>14
  <2>3. g * e = e * g  OBVIOUS
  <2> QED  BY <2>2, <2>3
<1>16. PICK q \in 0 .. e : q = (d * e) \div g  BY <1>15, QuotientBelow
<1>17. Curve!Interp(s, x) = a2 + q  BY <1>11, <1>12, <1>13, <1>14, <1>16
<1>19. q \in Nat /\ q <= e  OBVIOUS
<1>18. a2 <= a2 + q /\ a2 + q <= b2 /\ a2 + q \in 0 .. CurveFull
  <2>1. a2 + e = b2  BY <1>13
  <2>2. a2 + q <= b2  BY <2>1, <1>19
  <2> QED  BY <2>2, <1>19
<1> QED  BY <1>4, <1>6, <1>7, <1>17, <1>18

\* The list with a point between two neighbours.
LEMMA PointInserted ==
  ASSUME CurveFull \in Nat, NEW s, Pinned(s), NEW w \in 1 .. Len(s) - 1, NEW p \in Points,
         s[w][1] < p[1], p[1] < s[w + 1][1], s[w][2] <= p[2], p[2] <= s[w + 1][2]
  PROVE  Pinned(Curve!InsertAt(s, w + 1, p))
           /\ Len(Curve!InsertAt(s, w + 1, p)) = Len(s) + 1
<1>1. PICK n \in Nat : n = Len(s) /\ n >= 2  BY DEF Pinned
<1>2. s \in Seq(Points) /\ w \in 1 .. n - 1  BY <1>1 DEF Pinned
<1>3. PICK a : a = SubSeq(s, 1, w)  OBVIOUS
<1>4. PICK b : b = SubSeq(s, w + 1, n)  OBVIOUS
<1>5. a \in Seq(Points) /\ Len(a) = w /\ \A j \in 1 .. w : a[j] = s[j]
  BY <1>1, <1>2, <1>3
<1>6. b \in Seq(Points) /\ Len(b) = n - w /\ \A j \in 1 .. n - w : b[j] = s[w + j]
  BY <1>1, <1>2, <1>4
<1>7. PICK t : t = Curve!InsertAt(s, w + 1, p)  OBVIOUS
<1>8. (w + 1) - 1 = w  BY <1>2
<1>9. t = a \o <<p>> \o b  BY <1>1, <1>3, <1>4, <1>7, <1>8 DEF Curve!InsertAt
<1>10. PICK h : h = a \o <<p>>  OBVIOUS
<1>11. h \in Seq(Points) /\ Len(h) = w + 1 /\ h[w + 1] = p /\ \A j \in 1 .. w : h[j] = s[j]
  <2>1. PICK one : one = <<p>>  OBVIOUS
  <2>2. one \in Seq(Points) /\ Len(one) = 1 /\ one[1] = p  BY <2>1
  <2>3. h \in Seq(Points) /\ Len(h) = w + 1  BY <1>2, <1>5, <1>10, <2>1, <2>2
  <2>4. h[w + 1] = p  BY <1>2, <1>5, <1>10, <2>1, <2>2
  <2>5. \A j \in 1 .. w : h[j] = s[j]  BY <1>2, <1>5, <1>10, <2>1, <2>2
  <2> QED  BY <2>3, <2>4, <2>5
<1>12. t \in Seq(Points) /\ Len(t) = n + 1
  <2>1. t = h \o b  BY <1>9, <1>10
  <2>2. Len(t) = Len(h) + Len(b)  BY <2>1, <1>6, <1>11, ConcatProperties
  <2>3. t \in Seq(Points)  BY <2>1, <1>6, <1>11, ConcatProperties
  <2> QED  BY <2>2, <2>3, <1>1, <1>2, <1>6, <1>11
<1>13. \A j \in 1 .. w : t[j] = s[j]
  <2> TAKE j \in 1 .. w
  <2>1. j \in 1 .. Len(h) /\ j \in 1 .. Len(h) + Len(b)  BY <1>2, <1>6, <1>11
  <2> QED  BY <2>1, <1>6, <1>9, <1>10, <1>11, ConcatProperties
<1>14. t[w + 1] = p  BY <1>2, <1>6, <1>9, <1>10, <1>11
<1>15. \A j \in w + 1 .. n : t[j + 1] = s[j]
  <2> TAKE j \in w + 1 .. n
  <2>1. PICK k \in 1 .. n - w : k = j - w  BY <1>2
  <2>2. t[j + 1] = b[k]  BY <2>1, <1>2, <1>6, <1>9, <1>10, <1>11
  <2>3. w + k = j  BY <2>1, <1>2
  <2> QED  BY <2>1, <2>2, <2>3, <1>6
<1>16. \A j \in 1 .. n - 1 : s[j][1] < s[j + 1][1] /\ s[j][2] <= s[j + 1][2]
  BY <1>1 DEF Pinned, Rises
<1>17. \A j \in 1 .. n : t[j][1] < t[j + 1][1] /\ t[j][2] <= t[j + 1][2]
  <2> TAKE j \in 1 .. n
  <2>1. CASE j < w
    <3>1. j \in 1 .. w /\ j + 1 \in 1 .. w /\ j \in 1 .. n - 1  BY <2>1, <1>2
    <3> QED  BY <3>1, <1>13, <1>16
  <2>2. CASE j = w  BY <2>2, <1>2, <1>13, <1>14
  <2>3. CASE j = w + 1
    <3>1. t[j + 1] = s[w + 1]  BY <2>3, <1>2, <1>15
    <3> QED  BY <3>1, <2>3, <1>14
  <2>4. CASE j > w + 1
    <3>1. PICK k \in w + 1 .. n - 1 : k = j - 1 /\ k + 1 = j  BY <2>4, <1>2
    <3>2. t[j] = s[k] /\ t[j + 1] = s[k + 1]
      <4>1. k \in w + 1 .. n /\ k + 1 \in w + 1 .. n  BY <3>1, <1>2
      <4>2. t[k + 1] = s[k] /\ t[(k + 1) + 1] = s[k + 1]  BY <4>1, <1>15
      <4> QED  BY <4>2, <3>1
    <3>3. k \in 1 .. n - 1  BY <3>1, <1>2
    <3> QED  BY <3>2, <3>3, <1>16
  <2> QED  BY <2>1, <2>2, <2>3, <2>4, <1>2
<1>18. t[1] = s[1] /\ t[n + 1] = s[n]  BY <1>1, <1>2, <1>13, <1>15
<1>19. Rises(t)  BY <1>1, <1>12, <1>17 DEF Rises
<1>20. Len(t) >= 2  BY <1>1, <1>12
<1>21. t[1] = <<0, 0>> /\ t[Len(t)] = <<CurveFull, CurveFull>>
  BY <1>1, <1>12, <1>18 DEF Pinned
<1> QED  BY <1>1, <1>7, <1>12, <1>19, <1>20, <1>21 DEF Pinned

LEMMA AddSorted ==
  ASSUME Curve!CurveAssumption, NEW c, Sorted(c), NEW x \in 0 .. CurveFull
  PROVE  /\ Sorted(Curve!AddPoint(c, x))
              /\ Len(Curve!AddPoint(c, x).pts) \in {Len(c.pts), Len(c.pts) + 1}
         /\ (\A i \in DOMAIN c.pts : c.pts[i][1] # x) =>
              Len(Curve!AddPoint(c, x).pts) = Len(c.pts) + 1
<1>0. CurveFull \in Nat  BY DEF Curve!CurveAssumption
<1>1. CASE \E i \in DOMAIN c.pts : c.pts[i][1] = x  BY <1>1 DEF Curve!AddPoint
<1>2. CASE ~\E i \in DOMAIN c.pts : c.pts[i][1] = x
  <2>1. PICK s : s = c.pts /\ Pinned(s) /\ s \in Seq(Points)  BY SortedPoints
  <2>2. \A i \in 1 .. Len(s) : s[i][1] # x  BY <1>2, <2>1
  <2>3. PICK w : w = Curve!Window(s, x)  OBVIOUS
  <2>4. w \in 1 .. Len(s) - 1 /\ s[w][1] < x /\ x < s[w + 1][1]
    BY <1>0, <2>1, <2>2, <2>3, WindowFound
  <2>5. PICK y : y = Curve!Interp(s, x)  OBVIOUS
  <2>6. s[w][2] <= y /\ y <= s[w + 1][2] /\ y \in 0 .. CurveFull
    BY <1>0, <2>1, <2>2, <2>3, <2>5, InterpBetween
  <2>7. PICK p \in Points : p = <<x, y>>  BY <2>6 DEF Points
  <2>8. p[1] = x /\ p[2] = y  BY <2>7
  <2>9. PICK t : t = Curve!InsertAt(s, w + 1, p)  OBVIOUS
  <2>10. Pinned(t) /\ Len(t) = Len(s) + 1
    BY <1>0, <2>1, <2>4, <2>6, <2>8, <2>9, PointInserted
  <2>11. Curve!AddPoint(c, x) = [c EXCEPT !.pts = t]
    BY <1>2, <2>1, <2>3, <2>5, <2>7, <2>9 DEF Curve!AddPoint
  <2> QED  BY <2>1, <2>10, <2>11, WithPoints
<1> QED  BY <1>1, <1>2

LEMMA CurveStarts ==
  ASSUME Curve!CurveAssumption, Curve!Init
  PROVE  CurveInv
<1>1. "point" \in {Curve!Fields[i] : i \in 1 .. 5}  BY DEF Curve!Fields
<1> QED  BY <1>1, LinearSorted DEF Curve!Init, CurveInv

\* An edit leaves the curve sorted, and the selection on one of its points.
LEMMA AdjustedSorted ==
  ASSUME Curve!CurveAssumption, CurveInv, field # "point", NEW d \in {-1, 1}
  PROVE  Sorted(Curve!Adjusted(d)) /\ Len(Curve!Adjusted(d).pts) = Len(curve.pts)
<1>0. CurveFull \in Nat /\ CurveHundred \in Nat \ {0} /\ CurveStep \in Nat
  BY DEF Curve!CurveAssumption
<1>1. Sorted(curve) /\ sel \in 1 .. Len(curve.pts)  BY DEF CurveInv
<1>2. PICK x \in 0 .. CurveFull, y \in 0 .. CurveFull : x = curve.pts[sel][1]
        /\ y = curve.pts[sel][2]
  BY <1>1, SortedPoints
<1>3. curve.lower \in Int /\ curve.upper \in Int  BY <1>1, SortedPoints
<1>4. d \in Int /\ d * CurveStep \in Int  BY <1>0
<1>5. Curve!Clamp(x + d * CurveStep, 0, CurveFull) \in Int
        /\ Curve!Clamp(y + d * CurveStep, 0, CurveFull) \in Int
  BY <1>0, <1>2, <1>4 DEF Curve!Clamp
<1>6. /\ Curve!Clamp(curve.lower + d, 0, CurveHundred - 1) \in Int
      /\ Curve!Clamp(curve.upper + d, 0, CurveHundred - 1) \in Int
  BY <1>0, <1>3, <1>4 DEF Curve!Clamp
<1>7. field \in {"input", "output", "lower", "upper"}
  BY DEF CurveInv, Curve!Fields
<1>8. CASE field = "input"
  <2>1. Curve!Adjusted(d)
          = Curve!MovePoint(curve, sel, Curve!Clamp(x + d * CurveStep, 0, CurveFull), y)
    BY <1>2, <1>8 DEF Curve!Adjusted
  <2> QED  BY <2>1, <1>1, <1>2, <1>5, MoveSorted
<1>9. CASE field = "output"
  <2>1. Curve!Adjusted(d)
          = Curve!MovePoint(curve, sel, x, Curve!Clamp(y + d * CurveStep, 0, CurveFull))
    BY <1>2, <1>9 DEF Curve!Adjusted
  <2> QED  BY <2>1, <1>1, <1>2, <1>5, MoveSorted
<1>10. CASE field = "lower"
  <2>1. Curve!Adjusted(d)
          = Curve!SetLowerDeadzone(curve, Curve!Clamp(curve.lower + d, 0, CurveHundred - 1))
    BY <1>10 DEF Curve!Adjusted
  <2> QED  BY <2>1, <1>1, <1>6, DeadzoneSorted
<1>11. CASE field = "upper"
  <2>1. Curve!Adjusted(d)
          = Curve!SetUpperDeadzone(curve, Curve!Clamp(curve.upper + d, 0, CurveHundred - 1))
    BY <1>11 DEF Curve!Adjusted
  <2> QED  BY <2>1, <1>1, <1>6, DeadzoneSorted
<1> QED  BY <1>7, <1>8, <1>9, <1>10, <1>11

LEMMA CurveSteps ==
  ASSUME Curve!CurveAssumption, CurveInv, [Curve!Next]_(Curve!vars)
  PROVE  CurveInv'
<1>0. CurveFull \in Nat /\ CurveHundred \in Nat \ {0} /\ CurveStep \in Nat
  BY DEF Curve!CurveAssumption
<1> DEFINE Names == {Curve!Fields[i] : i \in 1 .. 5}
<1>1. /\ Sorted(curve) /\ overlay \in {"none", "window", "terminal"} /\ field \in Names
      /\ sel \in 1 .. Len(curve.pts) /\ (overlay # "terminal" => sel = 1)
  BY DEF CurveInv
<1>2. Len(curve.pts) \in Nat /\ Len(curve.pts) >= 2  BY <1>1, SortedPoints
<1>3. "point" \in Names /\ "input" \in Names /\ \A i \in 1 .. 5 : Curve!Fields[i] \in Names
  BY DEF Curve!Fields
<1> HIDE DEF Names
<1>4. SUFFICES /\ Sorted(curve)' /\ (overlay \in {"none", "window", "terminal"})'
               /\ (field \in Names)'
               /\ (sel \in 1 .. Len(curve.pts))' /\ (overlay # "terminal" => sel = 1)'
  BY DEF CurveInv, Names
<1> DEFINE Goal == /\ Sorted(curve') /\ overlay' \in {"none", "window", "terminal"}
                   /\ field' \in Names
                   /\ sel' \in 1 .. Len(curve'.pts) /\ (overlay' # "terminal" => sel' = 1)
<1>5. SUFFICES Goal  BY <1>4 DEF Sorted, Pinned, Rises, CurveOf, Points, Names
<1>6. CASE UNCHANGED Curve!vars  BY <1>1, <1>6 DEF Curve!vars
<1>7. CASE Curve!ToggleShaping \/ Curve!SetSensitivity
  BY <1>1, <1>7 DEF Curve!ToggleShaping, Curve!SetSensitivity
<1>8. ASSUME NEW f \in {"window", "terminal"}, Curve!EditCurve(f) PROVE Goal
  <2>1. overlay' = f /\ curve' = Curve!Linear /\ sel' = sel /\ field' = field /\ sel = 1
    BY <1>1, <1>8 DEF Curve!EditCurve, Curve!Seed
  <2> QED  BY <2>1, <1>1, LinearSorted
<1>9. CASE Curve!Closed
  <2>1. overlay' = "none" /\ curve' = Curve!Linear /\ sel' = 1 /\ field' = "point"
    BY <1>9 DEF Curve!Closed
  <2>2. Sorted(curve') /\ Len(curve'.pts) = 2  BY <2>1, LinearSorted
  <2>3. sel' \in 1 .. Len(curve'.pts)  BY <2>1, <2>2
  <2>4. field' \in Names  BY <2>1, <1>3
  <2> QED  BY <2>1, <2>2, <2>3, <2>4
<1>10. ASSUME NEW c, Curve!Edited("window", c), Sorted(c), Len(c.pts) >= 2,
              sel' = sel, field' = field
       PROVE  Goal
  <2>1. overlay = "window" /\ overlay' = overlay /\ curve' = c /\ sel = 1
    BY <1>1, <1>10 DEF Curve!Edited
  <2>2. Len(c.pts) \in Nat  BY <1>10, SortedPoints
  <2> QED  BY <2>1, <2>2, <1>1, <1>10
<1>11. CASE Curve!DragPoint
  <2>1. PICK i \in Curve!GrabPoint, x \in 0 .. CurveFull, y \in 0 .. CurveFull :
          /\ Curve!Edited("window", Curve!MovePoint(curve, i, Curve!PlotToInput(curve, x), y))
          /\ sel' = sel /\ field' = field
    BY <1>11 DEF Curve!DragPoint
  <2>2. PICK z \in Int : z = Curve!PlotToInput(curve, x)  BY <1>1, <1>0, PlotIsInput
  <2>3. y \in Int  OBVIOUS
  <2>4. PICK c : c = Curve!MovePoint(curve, i, z, y)  OBVIOUS
  <2>5. Sorted(c) /\ Len(c.pts) >= 2  BY <2>3, <2>4, <1>1, <1>2, MoveSorted
  <2> QED  BY <2>1, <2>2, <2>4, <2>5, <1>10
<1>12. CASE Curve!ClickToAdd
  <2>1. PICK x \in 0 .. CurveFull :
          Curve!Edited("window", Curve!AddPoint(curve, Curve!PlotToInput(curve, x)))
            /\ sel' = sel /\ field' = field
    BY <1>12 DEF Curve!ClickToAdd
  <2>2. PICK z \in 0 .. CurveFull : z = Curve!PlotToInput(curve, x)  BY <1>1, PlotIsInput
  <2>3. PICK c : c = Curve!AddPoint(curve, z)  OBVIOUS
  <2>4. Sorted(c) /\ Len(c.pts) >= 2  BY <2>3, <1>1, AddSorted, SortedPoints
  <2> QED  BY <2>1, <2>2, <2>3, <2>4, <1>10
<1>13. CASE Curve!ClickToRemove
  <2>1. PICK i : Curve!Edited("window", Curve!RemovePoint(curve, i)) /\ sel' = sel
          /\ field' = field
    BY <1>13 DEF Curve!ClickToRemove
  <2>2. PICK c : c = Curve!RemovePoint(curve, i)  OBVIOUS
  <2>3. Sorted(c) /\ Len(c.pts) >= 2  BY <2>2, <1>1, RemoveSorted
  <2> QED  BY <2>1, <2>2, <2>3, <1>10
<1>14. CASE Curve!SlideDeadzone
  <2>1. PICK v \in 0 .. CurveHundred - 1 :
          /\ \/ Curve!Edited("window", Curve!SetLowerDeadzone(curve, v))
             \/ Curve!Edited("window", Curve!SetUpperDeadzone(curve, v))
          /\ sel' = sel /\ field' = field
    BY <1>14 DEF Curve!SlideDeadzone
  <2>2. PICK c :
          /\ c \in {Curve!SetLowerDeadzone(curve, v), Curve!SetUpperDeadzone(curve, v)}
          /\ Curve!Edited("window", c)
    BY <2>1
  <2>3. v \in Int  OBVIOUS
  <2>4. Sorted(c) /\ c.pts = curve.pts  BY <2>2, <2>3, <1>1, DeadzoneSorted
  <2> QED  BY <2>1, <2>2, <2>4, <1>2, <1>10
<1>15. CASE Curve!NextField
  <2>0. PICK i : i = CHOOSE n \in 1 .. 5 : Curve!Fields[n] = field  OBVIOUS
  <2>1. PICK d \in {1, 4} : /\ field' = Curve!Fields[((i - 1 + d) % 5) + 1]
                            /\ UNCHANGED <<view, overlay, curve, sel, device>>
    BY <1>15, <2>0 DEF Curve!NextField
  <2>2. i \in 1 .. 5  BY <2>0, <1>1 DEF Names
  <2>3. ((i - 1 + d) % 5) + 1 \in 1 .. 5  BY <2>2
  <2> QED  BY <2>1, <2>3, <1>1, <1>3
<1>16. CASE Curve!AdjustSelection
  <2>1. PICK d \in {-1, 1} : sel' = Curve!Clamp(sel + d, 1, Len(curve.pts))
          /\ overlay = "terminal"
          /\ UNCHANGED <<view, overlay, curve, field, device>>
    BY <1>16 DEF Curve!AdjustSelection
  <2>2. sel' \in 1 .. Len(curve.pts)  BY <2>1, <1>1, <1>2 DEF Curve!Clamp
  <2> QED  BY <2>1, <2>2, <1>1
<1>17. CASE Curve!Adjust
  <2>1. PICK d \in {-1, 1} : field # "point" /\ Curve!Edited("terminal", Curve!Adjusted(d))
          /\ sel' = sel /\ field' = field
    BY <1>17 DEF Curve!Adjust
  <2>2. Sorted(Curve!Adjusted(d)) /\ Len(Curve!Adjusted(d).pts) = Len(curve.pts)
    BY <2>1, AdjustedSorted
  <2>3. overlay = "terminal" /\ overlay' = overlay /\ curve' = Curve!Adjusted(d)
    BY <2>1 DEF Curve!Edited
  <2> QED  BY <2>1, <2>2, <2>3, <1>1
<1>18. CASE Curve!AddMidway
  <2>1. /\ sel < Len(curve.pts) /\ curve.pts[sel + 1][1] - curve.pts[sel][1] >= 2
        /\ overlay = "terminal" /\ overlay' = overlay
             /\ curve' = Curve!AddPoint(curve, Curve!Midpoint)
        /\ sel' = sel + 1 /\ field' = "input"
    BY <1>18 DEF Curve!AddMidway, Curve!Edited
  <2>2. PICK s : s = curve.pts /\ Pinned(s)  BY <1>1, SortedPoints
  <2>3. PICK n \in Nat : n = Len(s) /\ sel \in 1 .. n - 1  BY <2>1, <2>2, <1>1, <1>2
  <2>4. \A i \in 1 .. n : s[i][1] \in 0 .. CurveFull  BY <2>2, <2>3, <1>1, SortedPoints
  <2>5. sel \in 1 .. n /\ sel + 1 \in 1 .. n  BY <2>3
  <2>6. PICK a \in 0 .. CurveFull, b \in 0 .. CurveFull : a = s[sel][1] /\ b = s[sel + 1][1]
    BY <2>4, <2>5
  <2>7. PICK m : m = Curve!Midpoint  OBVIOUS
  <2>8. m = (a + b) \div 2 /\ b - a >= 2  BY <2>1, <2>2, <2>6, <2>7 DEF Curve!Midpoint
  <2>9. a < m /\ m < b /\ m \in 0 .. CurveFull  BY <2>6, <2>8, <1>0
  <2>10. Sorted(Curve!AddPoint(curve, m))
           /\ Len(Curve!AddPoint(curve, m).pts) \in {n, n + 1}
    BY <2>2, <2>3, <2>9, <1>1, AddSorted
  <2>11. sel + 1 \in 1 .. Len(Curve!AddPoint(curve, m).pts)  BY <2>3, <2>10
  <2> QED  BY <2>1, <2>7, <2>10, <2>11, <1>3
<1>19. CASE Curve!DeletePoint
  <2>1. PICK c : c = Curve!RemovePoint(curve, sel)  OBVIOUS
  <2>2. /\ overlay = "terminal" /\ overlay' = overlay /\ curve' = c /\ field' = field
        /\ sel' = Curve!Clamp(sel, 1, Len(c.pts))
    BY <1>19, <2>1 DEF Curve!DeletePoint, Curve!Edited
  <2>3. Sorted(c) /\ Len(c.pts) >= 2 /\ Len(c.pts) \in Nat
    BY <2>1, <1>1, RemoveSorted, SortedPoints
  <2>4. sel' \in 1 .. Len(c.pts)  BY <2>2, <2>3, <1>1, <1>2 DEF Curve!Clamp
  <2> QED  BY <2>2, <2>3, <2>4, <1>1
<1>20. CASE Curve!Next
  BY <1>7, <1>8, <1>9, <1>11, <1>12, <1>13, <1>14, <1>15, <1>16, <1>17, <1>18, <1>19, <1>20
  DEF Curve!Next, Curve!Commit, Curve!Cancel
<1> QED  BY <1>6, <1>20

\* Whatever the user did with the points and the dead zones, the list that is
\* composed is one the driver accepts.
LEMMA CurveSound ==
  ASSUME Curve!CurveAssumption, CurveInv
  PROVE  Curve!ComposedValid
<1>1. PICK out : out = Curve!Compose(curve)  OBVIOUS
<1>2. Pinned(out)  BY <1>1, ComposeAccepted DEF CurveInv
<1>3. /\ Len(out) >= 2 /\ out[1] = <<0, 0>>
           /\ out[Len(out)] = <<CurveFull, CurveFull>> /\ out # <<>>
      /\ \A i \in 1 .. Len(out) - 1 : out[i][1] < out[i + 1][1]
                                        /\ out[i][2] <= out[i + 1][2]
  <2>1. Len(out) >= 2 /\ out[1] = <<0, 0>> /\ out[Len(out)] = <<CurveFull, CurveFull>>
    BY <1>2 DEF Pinned
  <2>2. out # <<>>  BY <2>1
  <2>3. \A i \in 1 .. Len(out) - 1 : out[i][1] < out[i + 1][1] /\ out[i][2] <= out[i + 1][2]
    BY <1>2 DEF Pinned, Rises
  <2> QED  BY <2>1, <2>2, <2>3
<1>4. Head(out) = out[1] /\ Curve!Last(out) = out[Len(out)]  BY <1>2 DEF Pinned, Curve!Last
<1> QED  BY <1>1, <1>3, <1>4 DEF Curve!ComposedValid

(***************************************************************************)
(* The daemon's settings file.                                             *)
(***************************************************************************)
Loops(A, a, n, step) ==
  \E b \in [0 .. n -> A] : b[0] = a /\ \A k \in 1 .. n : b[k] = step[k][b[k - 1]]

\* A loop over n items, each turn a function of what it has so far, runs to
\* its end.
LEMMA LoopEnds ==
  ASSUME NEW A, NEW a \in A, NEW n \in Nat, NEW step \in [1 .. n -> [A -> A]]
  PROVE  Loops(A, a, n, step)
<1> DEFINE Runs(m, b) == b \in [0 .. m -> A] /\ b[0] = a
      /\ \A k \in 1 .. m : b[k] = step[k][b[k - 1]]
           S == {m \in Nat : m <= n => \E b : Runs(m, b)}
<1>1. 0 \in S
  <2>1. Runs(0, [k \in 0 .. 0 |-> a])  OBVIOUS
  <2> QED  BY <2>1
<1>2. ASSUME NEW m \in Nat, m \in S PROVE m + 1 \in S
  <2> SUFFICES ASSUME m + 1 <= n PROVE \E b : Runs(m + 1, b)  OBVIOUS
  <2>1. PICK b : Runs(m, b)  BY <1>2
  <2> DEFINE d == [k \in 0 .. m + 1 |-> IF k \in 0 .. m THEN b[k] ELSE step[m + 1][b[m]]]
  <2>2. step[m + 1][b[m]] \in A /\ \A k \in 0 .. m : b[k] \in A  BY <2>1
  <2>3. d \in [0 .. m + 1 -> A]  BY <2>2
  <2>4. \A k \in 0 .. m : d[k] = b[k]  OBVIOUS
  <2>5. d[m + 1] = step[m + 1][b[m]]  OBVIOUS
  <2> HIDE DEF d
  <2>6. d[0] = a  BY <2>1, <2>4
  <2>7. \A k \in 1 .. m + 1 : d[k] = step[k][d[k - 1]]
    <3> TAKE k \in 1 .. m + 1
    <3>1. CASE k = m + 1
      <4>1. k - 1 = m  BY <3>1
      <4> QED  BY <3>1, <4>1, <2>4, <2>5
    <3>2. CASE k # m + 1
      <4>1. k \in 1 .. m /\ k \in 0 .. m /\ k - 1 \in 0 .. m  BY <3>2
      <4>2. d[k] = b[k] /\ d[k - 1] = b[k - 1]  BY <4>1, <2>4
      <4> QED  BY <4>1, <4>2, <2>1
    <3> QED  BY <3>1, <3>2
  <2> QED  BY <2>3, <2>6, <2>7
<1> HIDE DEF S
<1>3. n \in S  BY <1>1, <1>2, SetInduction
<1> QED  BY <1>3 DEF S, Loops

\* The lines that may be in a file: of the files there were, of a text editor,
\* and of the programs.
LineOf(k, v) == [key |-> k, value |-> v]

FileLines == UNION {{text[i] : i \in DOMAIN text} : text \in OldFile \cup NewFile}

EditLines == {LineOf(k, v) : k \in {"enabled", "intensity"}, v \in Conf!Booleans}

Line == {LineOf("absent", ""), LineOf("#", "")} \cup HandLines \cup FileLines \cup EditLines

Words == {"1", "30", "35", "20777"} \cup {line.value : line \in Line}

\* The configuration after k lines.
Takes(p, line) ==
  IF p = "daemon" THEN Conf!DaemonTakes(line.key, line.value)
  ELSE Conf!FrontTakes(line.key, line.value)

Applied(p, cfg, line) == IF Takes(p, line) THEN [cfg EXCEPT ![line.key]
  = line.value] ELSE cfg

Loading(p, text, b) ==
  b = [k \in 0 .. Len(text) |-> IF k
    = 0 THEN Conf!Default ELSE Applied(p, b[k - 1], text[k])]

LEMMA LoadByLines ==
  ASSUME NEW p, NEW text
  PROVE  Conf!Load(p, text) = (CHOOSE b : Loading(p, text, b))[Len(text)]
BY DEF Conf!Load, Loading, Applied, Takes

Configs == [{"enabled", "intensity", "pitch", "port"} -> Words]

LEMMA AppliedConfig ==
  ASSUME NEW p, NEW cfg \in Configs, NEW line \in Line
  PROVE  Applied(p, cfg, line) \in Configs
<1>1. line.value \in Words  BY DEF Words
<1> QED  BY <1>1 DEF Applied, Configs

LEMMA DefaultConfig == Conf!Default \in Configs
<1>1. DOMAIN Conf!Default = {"enabled", "intensity", "pitch", "port"}  BY DEF Conf!Default
<1>2. Conf!Default = [k \in DOMAIN Conf!Default |-> Conf!Default[k]]  BY DEF Conf!Default
<1>3. /\ Conf!Default["enabled"] = "1" /\ Conf!Default["intensity"] = "30"
      /\ Conf!Default["pitch"] = "35" /\ Conf!Default["port"] = "20777"
  BY DEF Conf!Default
<1>4. \A k \in DOMAIN Conf!Default : Conf!Default[k] \in Words  BY <1>1, <1>3 DEF Words
<1> QED  BY <1>1, <1>2, <1>4 DEF Configs

LEMMA LoadingExists ==
  ASSUME NEW p, NEW text \in Seq(Line)
  PROVE  \E b : Loading(p, text, b) /\ b \in [0 .. Len(text) -> Configs]
<1>1. PICK n \in Nat : n = Len(text)  OBVIOUS
<1> DEFINE step == [k \in 1 .. n |-> [cfg \in Configs |-> Applied(p, cfg, text[k])]]
<1>2. step \in [1 .. n -> [Configs -> Configs]]
  <2>1. \A k \in 1 .. n : text[k] \in Line  BY <1>1
  <2> QED  BY <2>1, AppliedConfig
<1>3. \A k \in 1 .. n, cfg \in Configs : step[k][cfg] = Applied(p, cfg, text[k])  OBVIOUS
<1> HIDE DEF step
<1>4. PICK b \in [0 .. n -> Configs] : b[0] = Conf!Default
        /\ \A k \in 1 .. n : b[k] = step[k][b[k - 1]]
  <2>1. Loops(Configs, Conf!Default, n, step)  BY <1>2, DefaultConfig, LoopEnds
  <2> QED  BY <2>1 DEF Loops
<1>5. \A k \in 0 .. n : b[k] = IF k = 0 THEN Conf!Default ELSE Applied(p, b[k - 1], text[k])
  <2> TAKE k \in 0 .. n
  <2>1. CASE k = 0  BY <2>1, <1>4
  <2>2. CASE k # 0
    <3>1. k \in 1 .. n /\ k - 1 \in 0 .. n  BY <2>2
    <3>2. b[k - 1] \in Configs  BY <3>1
    <3> QED  BY <3>1, <3>2, <2>2, <1>3, <1>4
  <2> QED  BY <2>1, <2>2
<1>6. Loading(p, text, b)  BY <1>1, <1>5 DEF Loading
<1> QED  BY <1>1, <1>6

\* What loading a text comes to, line by line.
LEMMA LoadRuns ==
  ASSUME NEW p, NEW text \in Seq(Line)
  PROVE  \E b : /\ Conf!Load(p, text) = b[Len(text)] /\ b[0] = Conf!Default
                /\ \A k \in 0 .. Len(text) : b[k] \in Configs
                /\ \A k \in 1 .. Len(text) : b[k] = Applied(p, b[k - 1], text[k])
<1>1. PICK c : Loading(p, text, c) /\ c \in [0 .. Len(text) -> Configs]  BY LoadingExists
<1>2. PICK b : b = CHOOSE d : Loading(p, text, d)  OBVIOUS
<1>3. Loading(p, text, b)  BY <1>1, <1>2
<1>4. PICK n \in Nat : n = Len(text)  OBVIOUS
<1>5. /\ b[0] = Conf!Default /\ \A k \in 1 .. n : b[k] = Applied(p, b[k - 1], text[k])
  BY <1>3, <1>4 DEF Loading
<1>6. \A k \in 0 .. n : b[k] \in Configs
  <2> DEFINE S == {k \in Nat : k <= n => b[k] \in Configs}
  <2>1. 0 \in S  BY <1>5, DefaultConfig
  <2>2. ASSUME NEW k \in Nat, k \in S PROVE k + 1 \in S
    <3> SUFFICES ASSUME k + 1 <= n PROVE b[k + 1] \in Configs  OBVIOUS
    <3>1. b[k] \in Configs /\ k + 1 \in 1 .. n /\ (k + 1) - 1 = k  BY <2>2
    <3>2. text[k + 1] \in Line  BY <3>1, <1>4
    <3> QED  BY <3>1, <3>2, <1>5, AppliedConfig
  <2> HIDE DEF S
  <2>3. Nat \subseteq S  BY <2>1, <2>2, SetInduction
  <2> QED  BY <2>3 DEF S
<1> QED  BY <1>2, <1>4, <1>5, <1>6, LoadByLines

\* A key whose lines all say the same is read as that.
LEMMA LastLineWins ==
  ASSUME NEW p, NEW text \in Seq(Line), NEW key \in {"enabled", "intensity"},
           NEW v \in Conf!Booleans,
         NEW i \in 1 .. Len(text), text[i].key = key,
         \A j \in 1 .. Len(text) : text[j].key = key => text[j].value = v
  PROVE  Conf!Load(p, text)[key] = v
<1>1. PICK b : /\ Conf!Load(p, text) = b[Len(text)] /\ b[0] = Conf!Default
               /\ \A k \in 0 .. Len(text) : b[k] \in Configs
               /\ \A k \in 1 .. Len(text) : b[k] = Applied(p, b[k - 1], text[k])
  BY LoadRuns
<1>2. PICK n \in Nat : n = Len(text)  OBVIOUS
<1> DEFINE S == {m \in Nat : i + m <= n => b[i + m][key] = v}
<1>3. ASSUME NEW k \in 1 .. n, text[k].key = key \/ b[k - 1][key] = v
      PROVE  b[k][key] = v
  <2>1. b[k] = Applied(p, b[k - 1], text[k]) /\ b[k - 1] \in Configs /\ text[k] \in Line
    BY <1>1, <1>2
  <2>2. CASE text[k].key = key
    <3>1. text[k].value = v  BY <2>2, <1>2
    <3>2. Takes(p, text[k])
      BY <2>2, <3>1 DEF Takes, Conf!DaemonTakes, Conf!FrontTakes, Conf!Booleans,
           Conf!Percents
    <3>3. b[k] = [b[k - 1] EXCEPT ![key] = v]  BY <2>1, <2>2, <3>1, <3>2 DEF Applied
    <3> QED  BY <3>3, <2>1 DEF Configs
  <2>3. CASE text[k].key # key
    <3>1. b[k] = [b[k - 1] EXCEPT ![text[k].key] = text[k].value] \/ b[k] = b[k - 1]
      BY <2>1 DEF Applied
    <3> QED  BY <3>1, <2>1, <2>3, <1>3 DEF Configs
  <2> QED  BY <2>2, <2>3
<1>4. 0 \in S  BY <1>2, <1>3
<1>5. ASSUME NEW m \in Nat, m \in S PROVE m + 1 \in S
  <2> SUFFICES ASSUME i + (m + 1) <= n PROVE b[i + (m + 1)][key] = v  OBVIOUS
  <2>1. PICK k \in 1 .. n : k = i + (m + 1) /\ k - 1 = i + m  OBVIOUS
  <2>2. b[k - 1][key] = v  BY <2>1, <1>5
  <2> QED  BY <2>1, <2>2, <1>3
<1> HIDE DEF S
<1>6. Nat \subseteq S  BY <1>4, <1>5, SetInduction
<1>7. n - i \in S /\ i + (n - i) = n  BY <1>2, <1>6
<1> QED  BY <1>1, <1>2, <1>7 DEF S

\* The two parsers read the same into the keys the front ends show.
LEMMA ReadersReadAlike ==
  ASSUME NEW p \in Conf!Frontends, NEW text \in Seq(Line), NEW key \in Conf!FrontKeys
  PROVE  Conf!Load(p, text)[key] = Conf!Load("daemon", text)[key]
<1>1. PICK b : /\ Conf!Load(p, text) = b[Len(text)] /\ b[0] = Conf!Default
               /\ \A k \in 0 .. Len(text) : b[k] \in Configs
               /\ \A k \in 1 .. Len(text) : b[k] = Applied(p, b[k - 1], text[k])
  BY LoadRuns
<1>2. PICK d : /\ Conf!Load("daemon", text) = d[Len(text)] /\ d[0] = Conf!Default
               /\ \A k \in 0 .. Len(text) : d[k] \in Configs
               /\ \A k \in 1 .. Len(text) : d[k] = Applied("daemon", d[k - 1], text[k])
  BY LoadRuns
<1>3. PICK n \in Nat : n = Len(text)  OBVIOUS
<1> DEFINE S == {k \in Nat : k <= n => b[k][key] = d[k][key]}
<1>4. 0 \in S  BY <1>1, <1>2
<1>5. ASSUME NEW k \in Nat, k \in S PROVE k + 1 \in S
  <2> SUFFICES ASSUME k + 1 <= n PROVE b[k + 1][key] = d[k + 1][key]  OBVIOUS
  <2>1. k + 1 \in 1 .. n /\ (k + 1) - 1 = k /\ k \in 0 .. n /\ b[k][key] = d[k][key]
    BY <1>5
  <2>2. PICK line \in Line : line = text[k + 1]  BY <2>1, <1>3
  <2>3. PICK x \in Configs : x = b[k]  BY <2>1, <1>1, <1>3
  <2>4. PICK y \in Configs : y = d[k]  BY <2>1, <1>2, <1>3
  <2>5. b[k + 1] = Applied(p, x, line) /\ d[k + 1] = Applied("daemon", y, line)
    BY <2>1, <2>2, <2>3, <2>4, <1>1, <1>2, <1>3
  <2>6. /\ Takes(p, line) = Conf!FrontTakes(line.key, line.value)
        /\ Takes("daemon", line) = Conf!DaemonTakes(line.key, line.value)
    BY DEF Takes, Conf!Frontends
  <2>7. key \in {"enabled", "intensity", "pitch"}  BY DEF Conf!FrontKeys
  <2>8. CASE line.key = key
    <3>1. Conf!FrontTakes(line.key, line.value) = Conf!DaemonTakes(line.key, line.value)
      BY <2>7, <2>8 DEF Conf!FrontTakes, Conf!DaemonTakes
    <3> QED  BY <2>1, <2>3, <2>4, <2>5, <2>6, <2>7, <2>8, <3>1 DEF Applied, Configs
  <2>9. CASE line.key # key
    <3>1. Applied(p, x, line)[key] = x[key]  BY <2>7, <2>9 DEF Applied, Configs
    <3>2. Applied("daemon", y, line)[key] = y[key]  BY <2>7, <2>9 DEF Applied, Configs
    <3> QED  BY <3>1, <3>2, <2>1, <2>3, <2>4, <2>5
  <2> QED  BY <2>8, <2>9
<1> HIDE DEF S
<1>6. Nat \subseteq S  BY <1>4, <1>5, SetInduction
<1>7. n \in S  BY <1>6
<1> QED  BY <1>1, <1>2, <1>3, <1>7 DEF S

\* b: the lines of the first k that are in S, for each k.
SelectRun(text, S, b) ==
  /\ b \in [0 .. Len(text) -> Seq(Line)] /\ b[0] = <<>>
  /\ \A k \in 1 .. Len(text) :
       b[k] = IF text[k] \in S THEN Append(b[k - 1], text[k]) ELSE b[k - 1]

LEMMA SelectExists ==
  ASSUME NEW text \in Seq(Line), NEW S
  PROVE  \E b : SelectRun(text, S, b)
<1>1. PICK n \in Nat : n = Len(text)  OBVIOUS
<1> DEFINE step == [k \in 1 .. n |->
             [out \in Seq(Line) |-> IF text[k] \in S THEN Append(out, text[k]) ELSE out]]
<1>2. step \in [1 .. n -> [Seq(Line) -> Seq(Line)]]
  <2>1. \A k \in 1 .. n : text[k] \in Line  BY <1>1
  <2>2. \A k \in 1 .. n, out \in Seq(Line) : Append(out, text[k]) \in Seq(Line)  BY <2>1
  <2> QED  BY <2>2
<1>3. \A k \in 1 .. n, out \in Seq(Line) :
        step[k][out] = IF text[k] \in S THEN Append(out, text[k]) ELSE out
  OBVIOUS
<1> HIDE DEF step
<1>4. PICK A : A = Seq(Line)  OBVIOUS
<1>10. <<>> \in Seq(Line)  OBVIOUS
<1>7. PICK e \in A : e = <<>>  BY Zenon, <1>4, <1>10
<1>8. step \in [1 .. n -> [A -> A]]  BY <1>2, <1>4
<1>9. Loops(A, e, n, step)  BY <1>8, LoopEnds
<1>5. PICK b \in [0 .. n -> Seq(Line)] : b[0] = <<>>
        /\ \A k \in 1 .. n : b[k] = step[k][b[k - 1]]
  BY <1>4, <1>7, <1>9 DEF Loops
<1>6. \A k \in 1 .. n : b[k] = IF text[k] \in S THEN Append(b[k - 1], text[k]) ELSE b[k - 1]
  <2> TAKE k \in 1 .. n
  <2>1. k - 1 \in 0 .. n  OBVIOUS
  <2>2. b[k - 1] \in Seq(Line)  BY <2>1
  <2> QED  BY <2>2, <1>3, <1>5
<1> QED  BY <1>1, <1>5, <1>6 DEF SelectRun

\* Texts that begin alike select alike.
LEMMA SelectAlike ==
  ASSUME NEW s \in Seq(Line), NEW t \in Seq(Line), NEW S, NEW b, NEW d,
         SelectRun(s, S, b), SelectRun(t, S, d), NEW n \in Nat, n <= Len(s), n <= Len(t),
         \A k \in 1 .. n : s[k] = t[k]
  PROVE  b[n] = d[n]
<1> DEFINE T == {k \in Nat : k <= n => b[k] = d[k]}
<1>1. 0 \in T  BY DEF SelectRun
<1>2. ASSUME NEW k \in Nat, k \in T PROVE k + 1 \in T
  <2> SUFFICES ASSUME k + 1 <= n PROVE b[k + 1] = d[k + 1]  OBVIOUS
  <2>1. k + 1 \in 1 .. Len(s) /\ k + 1 \in 1 .. Len(t) /\ k + 1 \in 1 .. n
          /\ (k + 1) - 1 = k
    OBVIOUS
  <2>2. b[k] = d[k]  BY <1>2
  <2>3. b[k + 1] = IF s[k + 1] \in S THEN Append(b[k], s[k + 1]) ELSE b[k]
    BY <2>1 DEF SelectRun
  <2>4. d[k + 1] = IF t[k + 1] \in S THEN Append(d[k], t[k + 1]) ELSE d[k]
    BY <2>1 DEF SelectRun
  <2> QED  BY <2>1, <2>2, <2>3, <2>4
<1> HIDE DEF T
<1>3. Nat \subseteq T  BY <1>1, <1>2, SetInduction
<1> QED  BY <1>3 DEF T

OfOther(key) == {line \in Line : line.key # key}

OthersBy(text, key, b) ==
  b = [k \in 0 .. Len(text) |->
    IF k = 0 THEN <<>> ELSE IF text[k].key # key THEN Append(b[k - 1], text[k]) ELSE b[k - 1]]

LEMMA OthersRun ==
  ASSUME NEW text \in Seq(Line), NEW key
  PROVE  \E b : SelectRun(text, OfOther(key), b) /\ Conf!Others(text, key) = b[Len(text)]
<1>1. PICK n \in Nat : n = Len(text)  OBVIOUS
<1>2. Conf!Others(text, key) = (CHOOSE b : OthersBy(text, key, b))[n]
  BY <1>1 DEF Conf!Others, Conf!Select, OthersBy
<1>3. \A k \in 1 .. n : text[k] \in Line /\ (text[k].key # key <=> text[k] \in OfOther(key))
  BY <1>1 DEF OfOther
<1>4. PICK d : SelectRun(text, OfOther(key), d)  BY SelectExists
<1>5. OthersBy(text, key, d)
  <2>1. d = [k \in 0 .. n |-> d[k]] /\ d[0] = <<>>  BY <1>1, <1>4 DEF SelectRun
  <2>2. \A k \in 1 .. n : d[k] = IF text[k].key # key THEN Append(d[k - 1], text[k]) ELSE d[k - 1]
    BY <1>1, <1>3, <1>4 DEF SelectRun
  <2>3. \A k \in 0 .. n : k = 0 \/ k \in 1 .. n  OBVIOUS
  <2> QED  BY <2>1, <2>2, <2>3, <1>1 DEF OthersBy
<1>6. PICK b : b = CHOOSE e : OthersBy(text, key, e)  OBVIOUS
<1>7. OthersBy(text, key, b)  BY <1>5, <1>6
<1>8. /\ b = [k \in 0 .. n |-> b[k]] /\ b[0] = <<>>
      /\ \A k \in 1 .. n : b[k] = IF text[k] \in OfOther(key) THEN Append(b[k - 1], text[k])
                                  ELSE b[k - 1]
  <2>1. b = [k \in 0 .. n |-> b[k]] /\ b[0] = <<>>  BY <1>1, <1>7 DEF OthersBy
  <2>2. \A k \in 1 .. n : k \in 0 .. n /\ k # 0  OBVIOUS
  <2>3. \A k \in 1 .. n : b[k] = IF text[k].key # key THEN Append(b[k - 1], text[k]) ELSE b[k - 1]
    BY <1>1, <1>7, <2>2 DEF OthersBy
  <2> QED  BY <2>1, <2>3, <1>3
<1>9. \A k \in 0 .. n : b[k] \in Seq(Line)
  <2> DEFINE T == {k \in Nat : k <= n => b[k] \in Seq(Line)}
  <2>4. <<>> \in Seq(Line)  OBVIOUS
  <2>5. b[0] = <<>>  BY <1>8
  <2>1. 0 \in T  BY <2>4, <2>5
  <2>2. ASSUME NEW k \in Nat, k \in T PROVE k + 1 \in T
    <3> SUFFICES ASSUME k + 1 <= n PROVE b[k + 1] \in Seq(Line)  OBVIOUS
    <3>1. b[k] \in Seq(Line) /\ k + 1 \in 1 .. n /\ (k + 1) - 1 = k  BY <2>2
    <3>2. text[k + 1] \in Line  BY <3>1, <1>3
    <3>3. Append(b[k], text[k + 1]) \in Seq(Line)  BY <3>1, <3>2
    <3> QED  BY <3>1, <3>3, <1>8
  <2> HIDE DEF T
  <2>3. Nat \subseteq T  BY <2>1, <2>2, SetInduction
  <2> QED  BY <2>3 DEF T
<1>10. b \in [0 .. n -> Seq(Line)]  BY <1>8, <1>9
<1>11. SelectRun(text, OfOther(key), b)  BY <1>1, <1>8, <1>10 DEF SelectRun
<1> QED  BY <1>1, <1>2, <1>6, <1>11

LEMMA OthersOfNone ==
  ASSUME NEW key
  PROVE  Conf!Others(<<>>, key) = <<>>
<1>1. <<>> \in Seq(Line) /\ Len(<<>>) = 0  OBVIOUS
<1>2. PICK b : SelectRun(<<>>, OfOther(key), b) /\ Conf!Others(<<>>, key) = b[0]
  BY <1>1, OthersRun
<1> QED  BY <1>2 DEF SelectRun

LEMMA OthersOfAppended ==
  ASSUME NEW s \in Seq(Line), NEW line \in Line, NEW key
  PROVE  Conf!Others(Append(s, line), key) =
           IF line.key # key THEN Append(Conf!Others(s, key), line) ELSE Conf!Others(s, key)
<1>1. PICK t : t = Append(s, line)  OBVIOUS
<1>2. PICK n \in Nat : n = Len(s)  OBVIOUS
<1>3. t \in Seq(Line) /\ Len(t) = n + 1 /\ t[n + 1] = line /\ \A k \in 1 .. n : s[k] = t[k]
  BY <1>1, <1>2
<1>4. PICK b : SelectRun(s, OfOther(key), b) /\ Conf!Others(s, key) = b[n]
  BY <1>2, OthersRun
<1>5. PICK d : SelectRun(t, OfOther(key), d) /\ Conf!Others(t, key) = d[n + 1]
  BY <1>3, OthersRun
<1>6. b[n] = d[n]
  <2>1. n <= Len(s) /\ n <= Len(t)  BY <1>2, <1>3
  <2> QED  BY <2>1, <1>3, <1>4, <1>5, SelectAlike
<1>7. n + 1 \in 1 .. Len(t) /\ (n + 1) - 1 = n  BY <1>3
<1>8. d[n + 1] = IF line \in OfOther(key) THEN Append(d[n], line) ELSE d[n]
  BY <1>3, <1>5, <1>7 DEF SelectRun
<1> QED  BY <1>1, <1>4, <1>5, <1>6, <1>8 DEF OfOther

\* The two copies of the grammar warn of the same lines.
LEMMA WarnAlike ==
  ASSUME NEW text
  PROVE  Conf!Warned(text) = Conf!Skipped(text)
<1>1. \A k, v : Conf!DaemonRecognises(k, v) <=> Conf!DaemonTakes(k, v)
  BY DEF Conf!DaemonRecognises, Conf!DaemonTakes, Conf!FrontTakes
<1> DEFINE P(b) == b = [k \in 0 .. Len(text) |->
                     IF k = 0 THEN <<>>
                     ELSE IF text[k].key # "#"
                       /\ ~Conf!DaemonRecognises(text[k].key, text[k].value)
                          THEN Append(b[k - 1], text[k]) ELSE b[k - 1]]
           Q(b) == b = [k \in 0 .. Len(text) |->
                     IF k = 0 THEN <<>>
                     ELSE IF text[k].key # "#"
                       /\ ~Conf!DaemonTakes(text[k].key, text[k].value)
                          THEN Append(b[k - 1], text[k]) ELSE b[k - 1]]
<1>2. \A b : P(b) <=> Q(b)  BY <1>1
<1>3. Conf!Warned(text) = (CHOOSE b : P(b))[Len(text)]  BY DEF Conf!Warned, Conf!Select
<1>4. Conf!Skipped(text) = (CHOOSE b : Q(b))[Len(text)]  BY DEF Conf!Skipped, Conf!Select
<1>5. (CHOOSE b : P(b)) = (CHOOSE b : Q(b))
  <2> HIDE DEF P, Q
  <2> QED  BY <1>2
<1> QED  BY <1>3, <1>4, <1>5

\* write_key_in after some of the lines: what it has copied, and whether the
\* line of the key is among it.
CopyOf(out, replaced) == [out |-> out, replaced |-> replaced]

Copies == [out : Seq(Line), replaced : BOOLEAN]

Copied(key, value, acc, l) ==
  IF l.key # key THEN [acc EXCEPT !.out = Append(@, l)]
  ELSE IF acc.replaced THEN acc
  ELSE [out |-> Append(acc.out, [key |-> key, value |-> value]), replaced |-> TRUE]

CopyBy(text, key, value, b) ==
  b = [k \in 0 .. Len(text) |->
    IF k = 0 THEN [out |-> <<>>, replaced |-> FALSE] ELSE Copied(key, value, b[k - 1], text[k])]

CopySteps(key, value, out, r, l) ==
  /\ l.key # key => Copied(key, value, CopyOf(out, r), l) = CopyOf(Append(out, l), r)
  /\ l.key = key /\ r => Copied(key, value, CopyOf(out, r), l) = CopyOf(out, r)
  /\ l.key = key /\ ~r =>
       Copied(key, value, CopyOf(out, r), l) = CopyOf(Append(out, LineOf(key, value)), TRUE)
  /\ Copied(key, value, CopyOf(out, r), l) \in Copies

LEMMA CopiedFrom ==
  ASSUME NEW key, NEW value, LineOf(key, value) \in Line, NEW out \in Seq(Line),
           NEW r \in BOOLEAN,
         NEW l \in Line
  PROVE  CopySteps(key, value, out, r, l)
<1>1. CopyOf(out, r).out = out /\ CopyOf(out, r).replaced = r  BY DEF CopyOf
<1>2. l.key # key => Copied(key, value, CopyOf(out, r), l) = CopyOf(Append(out, l), r)
  BY <1>1 DEF Copied, CopyOf
<1>3. l.key = key /\ r => Copied(key, value, CopyOf(out, r), l) = CopyOf(out, r)
  BY <1>1 DEF Copied
<1>4. l.key = key /\ ~r =>
        Copied(key, value, CopyOf(out, r), l)
          = CopyOf(Append(out, LineOf(key, value)), TRUE)
  BY <1>1 DEF Copied, CopyOf, LineOf
<1>5. Append(out, l) \in Seq(Line) /\ Append(out, LineOf(key, value)) \in Seq(Line)
  OBVIOUS
<1>6. \A o \in Seq(Line), x \in BOOLEAN : CopyOf(o, x) \in Copies  BY DEF Copies, CopyOf
<1>7. Copied(key, value, CopyOf(out, r), l) \in Copies
  <2>1. CASE l.key # key  BY <2>1, <1>2, <1>5, <1>6
  <2>2. CASE l.key = key /\ r  BY <2>2, <1>3, <1>6
  <2>3. CASE l.key = key /\ ~r  BY <2>3, <1>4, <1>5, <1>6
  <2> QED  BY <2>1, <2>2, <2>3
<1> QED  BY Zenon, <1>2, <1>3, <1>4, <1>7 DEF CopySteps

\* The loop of write_key_in.
LEMMA CopyRun ==
  ASSUME NEW text \in Seq(Line), NEW key, NEW value, LineOf(key, value) \in Line
  PROVE  \E b : /\ b[0] = CopyOf(<<>>, FALSE)
                /\ \A k \in 1 .. Len(text) : b[k] = Copied(key, value, b[k - 1], text[k])
                /\ Conf!WriteKey(text, key, value) =
                     IF b[Len(text)].replaced THEN b[Len(text)].out
                     ELSE Append(b[Len(text)].out, LineOf(key, value))
<1>1. PICK n \in Nat : n = Len(text)  OBVIOUS
<1>2. PICK b : b = CHOOSE e : CopyBy(text, key, value, e)  OBVIOUS
<1>3. Conf!WriteKey(text, key, value) = IF b[n].replaced THEN b[n].out
                                        ELSE Append(b[n].out, LineOf(key, value))
  BY <1>1, <1>2 DEF Conf!WriteKey, CopyBy, Copied, LineOf
<1> DEFINE step == [k \in 1 .. n |-> [acc \in Copies |-> Copied(key, value, acc, text[k])]]
<1>4. step \in [1 .. n -> [Copies -> Copies]]
  <2>1. \A k \in 1 .. n : text[k] \in Line  BY <1>1
  <2>2. \A k \in 1 .. n, acc \in Copies : Copied(key, value, acc, text[k]) \in Copies
    <3> TAKE k \in 1 .. n, acc \in Copies
    <3>1. PICK out \in Seq(Line), r \in BOOLEAN : acc = CopyOf(out, r)
      BY DEF Copies, CopyOf
    <3>2. PICK l \in Line : l = text[k]  BY <2>1
    <3>3. CopySteps(key, value, out, r, l)  BY CopiedFrom
    <3> QED  BY Zenon, <3>1, <3>2, <3>3 DEF CopySteps
  <2> QED  BY <2>2
<1>5. \A k \in 1 .. n, acc \in Copies : step[k][acc] = Copied(key, value, acc, text[k])
  OBVIOUS
<1> HIDE DEF step
<1>6. <<>> \in Seq(Line)  OBVIOUS
<1>7. PICK first \in Copies : first = CopyOf(<<>>, FALSE)
  <2>1. FALSE \in BOOLEAN  OBVIOUS
  <2> QED  BY <2>1, <1>6 DEF Copies, CopyOf
<1>15. Loops(Copies, first, n, step)  BY <1>4, LoopEnds
<1>8. PICK d \in [0 .. n -> Copies] :
        d[0] = first /\ \A k \in 1 .. n : d[k] = step[k][d[k - 1]]
  BY <1>15 DEF Loops
<1>9. \A k \in 1 .. n : d[k] = Copied(key, value, d[k - 1], text[k])
  <2> TAKE k \in 1 .. n
  <2>1. k - 1 \in 0 .. n  OBVIOUS
  <2>2. d[k - 1] \in Copies  BY <2>1
  <2> QED  BY <2>2, <1>5, <1>8
<1>10. CopyBy(text, key, value, d)
  <2>1. d = [k \in 0 .. n |-> d[k]]  OBVIOUS
  <2>2. \A k \in 0 .. n : k = 0 \/ k \in 1 .. n  OBVIOUS
  <2>3. \A k \in 0 .. n : d[k] = IF k = 0 THEN [out |-> <<>>, replaced |-> FALSE]
                                 ELSE Copied(key, value, d[k - 1], text[k])
    BY <2>2, <1>7, <1>8, <1>9 DEF CopyOf
  <2> QED  BY <2>1, <2>3, <1>1 DEF CopyBy
<1>11. CopyBy(text, key, value, b)  BY <1>2, <1>10
<1>12. b[0] = CopyOf(<<>>, FALSE)  BY <1>1, <1>11 DEF CopyBy, CopyOf
<1>13. \A k \in 1 .. n : k \in 0 .. n /\ k # 0  OBVIOUS
<1>14. \A k \in 1 .. n : b[k] = Copied(key, value, b[k - 1], text[k])
  BY <1>1, <1>11, <1>13 DEF CopyBy
<1> QED  BY <1>1, <1>3, <1>12, <1>14

\* A text in which the key is said to be v, if anything.
SaysOnly(text, key, v) == \A i \in 1 .. Len(text) : text[i].key = key => text[i].value = v

Says(text, key) == \E i \in 1 .. Len(text) : text[i].key = key

LEMMA SaysAppended ==
  ASSUME NEW s \in Seq(Line), NEW l \in Line, NEW key, NEW v, SaysOnly(s, key, v),
         l.key = key => l.value = v
  PROVE  /\ SaysOnly(Append(s, l), key, v)
         /\ Says(s, key) \/ l.key = key => Says(Append(s, l), key)
<1>1. PICK t : t = Append(s, l)  OBVIOUS
<1>2. PICK n \in Nat : n = Len(s)  OBVIOUS
<1>3. Len(t) = n + 1 /\ t[n + 1] = l /\ \A k \in 1 .. n : t[k] = s[k]  BY <1>1, <1>2
<1>4. \A k \in 1 .. n + 1 : k = n + 1 \/ k \in 1 .. n  OBVIOUS
<1>5. SaysOnly(t, key, v)  BY <1>2, <1>3, <1>4 DEF SaysOnly
<1>6. n + 1 \in 1 .. Len(t) /\ \A k \in 1 .. n : k \in 1 .. Len(t)  BY <1>3
<1>7. Says(s, key) => Says(t, key)  BY <1>2, <1>3, <1>6 DEF Says
<1>8. l.key = key => Says(t, key)  BY <1>3, <1>6 DEF Says
<1> QED  BY <1>1, <1>5, <1>7, <1>8

\* write_key_in: the key says the new value and nothing else, and the other
\* lines are there in their order.
LEMMA WriteKeyWrites ==
  ASSUME NEW text \in Seq(Line), NEW key, NEW v, LineOf(key, v) \in Line
  PROVE  /\ Conf!WriteKey(text, key, v) \in Seq(Line)
         /\ SaysOnly(Conf!WriteKey(text, key, v), key, v)
              /\ Says(Conf!WriteKey(text, key, v), key)
         /\ Conf!Others(Conf!WriteKey(text, key, v), key) = Conf!Others(text, key)
<1>1. PICK b : /\ b[0] = CopyOf(<<>>, FALSE)
               /\ \A k \in 1 .. Len(text) : b[k] = Copied(key, v, b[k - 1], text[k])
               /\ Conf!WriteKey(text, key, v) =
                    IF b[Len(text)].replaced THEN b[Len(text)].out
                    ELSE Append(b[Len(text)].out, LineOf(key, v))
  BY CopyRun
<1>2. PICK n \in Nat : n = Len(text)  OBVIOUS
<1>3. PICK g : SelectRun(text, OfOther(key), g) /\ Conf!Others(text, key) = g[n]
  BY <1>2, OthersRun
<1>4. PICK new \in Line : new = LineOf(key, v) /\ new.key = key /\ new.value = v
  BY DEF LineOf
<1> DEFINE Meant(k) == \E out \in Seq(Line), r \in BOOLEAN :
             /\ b[k] = CopyOf(out, r) /\ SaysOnly(out, key, v) /\ (r => Says(out, key))
             /\ Conf!Others(out, key) = g[k]
           S == {k \in Nat : k <= n => Meant(k)}
<1>5. 0 \in S
  <2>1. <<>> \in Seq(Line) /\ SaysOnly(<<>>, key, v)  BY DEF SaysOnly
  <2>2. Conf!Others(<<>>, key) = g[0]  BY <1>3, OthersOfNone DEF SelectRun
  <2> QED  BY <2>1, <2>2, <1>1
<1>6. ASSUME NEW k \in Nat, k \in S PROVE k + 1 \in S
  <2> SUFFICES ASSUME k + 1 <= n PROVE Meant(k + 1)  OBVIOUS
  <2>1. k + 1 \in 1 .. n /\ (k + 1) - 1 = k  OBVIOUS
  <2>2. PICK out \in Seq(Line), r \in BOOLEAN :
          /\ b[k] = CopyOf(out, r) /\ SaysOnly(out, key, v) /\ (r => Says(out, key))
          /\ Conf!Others(out, key) = g[k]
    BY <1>6
  <2>3. PICK l \in Line : l = text[k + 1]  BY <2>1, <1>2
  <2>4. b[k + 1] = Copied(key, v, CopyOf(out, r), l)  BY <2>1, <2>2, <2>3, <1>1, <1>2
  <2>5. g[k + 1] = IF l.key # key THEN Append(g[k], l) ELSE g[k]
    BY <2>1, <2>3, <1>2, <1>3 DEF SelectRun, OfOther
  <2>9. CopySteps(key, v, out, r, l)  BY CopiedFrom
  <2>6. CASE l.key # key
    <3>1. PICK t : t = Append(out, l)  OBVIOUS
    <3>5. t \in Seq(Line)  BY <3>1
    <3>6. Copied(key, v, CopyOf(out, r), l) = CopyOf(Append(out, l), r)
      BY Zenon, <2>6, <2>9 DEF CopySteps
    <3>2. t \in Seq(Line) /\ b[k + 1] = CopyOf(t, r)  BY Zenon, <2>4, <3>1, <3>5, <3>6
    <3>3. SaysOnly(t, key, v) /\ (r => Says(t, key))  BY <2>2, <2>6, <3>1, SaysAppended
    <3>4. Conf!Others(t, key) = g[k + 1]  BY <2>2, <2>5, <2>6, <3>1, OthersOfAppended
    <3> QED  BY <3>2, <3>3, <3>4
  <2>7. CASE l.key = key /\ r
    <3>2. Copied(key, v, CopyOf(out, r), l) = CopyOf(out, r)
      BY Zenon, <2>7, <2>9 DEF CopySteps
    <3>3. g[k + 1] = g[k]  BY <2>5, <2>7
    <3>1. b[k + 1] = CopyOf(out, r) /\ g[k + 1] = g[k]  BY Zenon, <2>4, <3>2, <3>3
    <3> QED  BY <3>1, <2>2
  <2>8. CASE l.key = key /\ ~r
    <3>1. PICK t : t = Append(out, new)  OBVIOUS
    <3>5. t \in Seq(Line)  BY <3>1
    <3>6. Copied(key, v, CopyOf(out, r), l) = CopyOf(Append(out, LineOf(key, v)), TRUE)
      BY Zenon, <2>8, <2>9 DEF CopySteps
    <3>2. t \in Seq(Line) /\ b[k + 1] = CopyOf(t, TRUE)
      BY Zenon, <2>4, <3>1, <3>5, <3>6, <1>4
    <3>3. SaysOnly(t, key, v) /\ Says(t, key)  BY <2>2, <3>1, <1>4, SaysAppended
    <3>4. Conf!Others(t, key) = g[k + 1]  BY <2>2, <2>5, <2>8, <3>1, <1>4, OthersOfAppended
    <3> QED  BY <3>2, <3>3, <3>4
  <2> QED  BY <2>6, <2>7, <2>8
<1> HIDE DEF S
<1>7. Nat \subseteq S  BY <1>5, <1>6, SetInduction
<1>8. Meant(n)  BY <1>7 DEF S
<1>9. PICK out \in Seq(Line), r \in BOOLEAN :
        /\ b[n] = CopyOf(out, r) /\ SaysOnly(out, key, v) /\ (r => Says(out, key))
        /\ Conf!Others(out, key) = g[n]
  BY <1>8
<1>10. b[n].out = out /\ b[n].replaced = r  BY <1>9 DEF CopyOf
<1>11. PICK now : now = Conf!WriteKey(text, key, v)  OBVIOUS
<1>12. CASE r
  <2>1. now = out  BY <1>1, <1>2, <1>10, <1>11, <1>12
  <2> QED  BY <2>1, <1>3, <1>9, <1>11, <1>12
<1>13. CASE ~r
  <2>1. now = Append(out, new)  BY <1>1, <1>2, <1>4, <1>10, <1>11, <1>13
  <2>2. now \in Seq(Line)  BY <2>1
  <2>3. SaysOnly(now, key, v) /\ Says(now, key)  BY <2>1, <1>4, <1>9, SaysAppended
  <2>4. Conf!Others(now, key) = Conf!Others(text, key)
    BY <2>1, <1>3, <1>4, <1>9, OthersOfAppended
  <2> QED  BY <2>2, <2>3, <2>4, <1>11
<1> QED  BY <1>12, <1>13

Stages == {"off", "resolve", "create", "fill", "load", "idle", "read", "truncate", "write",
           "written"}

Progs == [stage : Stages, path : {"old", "new"}, key : {"", "enabled", "intensity"},
          value : {""} \cup Conf!Booleans, text : Seq(Line), alone : BOOLEAN]

\* A program about to write has what to write.
Editing(r) ==
  /\ r.key # "" => r.value \in Conf!Booleans
  /\ r.stage \in {"read", "truncate", "write", "written"} => r.key # ""

\* Nobody came between: the file is as the program left it.
Untouched(r, f) ==
  r.alone =>
    /\ r.stage = "write" => f[r.path] = <<>>
    /\ r.stage = "written" => f[r.path] = Conf!WriteKey(r.text, r.key, r.value)

ConfInv ==
  /\ confFile \in [{"old", "new"} -> Seq(Line)]
  /\ proc \in [Conf!Programs -> Progs]
  /\ \A q \in Conf!Programs : Editing(proc[q]) /\ Untouched(proc[q], confFile)

LEMMA LinesWritten ==
  /\ Conf!NoFile \in Seq(Line) /\ Conf!Header \in Seq(Line) /\ <<>> \in Seq(Line)
  /\ \A k \in {"enabled", "intensity"}, v \in Conf!Booleans : LineOf(k, v) \in Line
  /\ HandLines \subseteq Line
<1>1. LineOf("absent", "") \in Line /\ LineOf("#", "") \in Line  BY DEF Line
<1>2. Conf!NoFile = <<LineOf("absent", "")>> /\ Conf!Header = <<LineOf("#", "")>>
  BY DEF Conf!NoFile, Conf!Header, LineOf
<1>6. \A l \in Line : <<l>> \in Seq(Line)  OBVIOUS
<1>7. <<>> \in Seq(Line)  OBVIOUS
<1>3. Conf!NoFile \in Seq(Line) /\ Conf!Header \in Seq(Line) /\ <<>> \in Seq(Line)
  BY Zenon, <1>1, <1>2, <1>6, <1>7
<1>4. \A k \in {"enabled", "intensity"}, v \in Conf!Booleans : LineOf(k, v) \in Line
  <2> TAKE k \in {"enabled", "intensity"}, v \in Conf!Booleans
  <2>1. LineOf(k, v) \in {LineOf(x, y) : x \in {"enabled", "intensity"}, y \in Conf!Booleans}
    OBVIOUS
  <2>2. LineOf(k, v) \in EditLines  BY <2>1 DEF EditLines
  <2> QED  BY Zenon, <2>2 DEF Line
<1>5. HandLines \subseteq Line  BY Zenon DEF Line
<1> QED  BY <1>3, <1>4, <1>5

LEMMA FilesAreLines ==
  ASSUME Conf!ConfAssumption
  PROVE  OldFile \cup NewFile \subseteq Seq(Line)
<1> SUFFICES ASSUME NEW t \in OldFile \cup NewFile PROVE t \in Seq(Line)  OBVIOUS
<1>1. PICK R : R = {t[i] : i \in DOMAIN t}  OBVIOUS
<1>2. t \in Seq(R)  BY <1>1 DEF Conf!ConfAssumption
<1>3. R \subseteq Line
  <2>1. R \in {{text[i] : i \in DOMAIN text} : text \in OldFile \cup NewFile}  BY <1>1
  <2>2. R \subseteq FileLines  BY Zenon, <2>1 DEF FileLines
  <2> QED  BY <2>2 DEF Line
<1>4. \A i \in 1 .. Len(t) : t[i] \in Line  BY <1>2, <1>3
<1>5. Len(t) \in Nat /\ t = [i \in 1 .. Len(t) |-> t[i]]  BY <1>2
<1> QED  BY <1>4, <1>5

LEMMA OverLines ==
  ASSUME NEW there \in Seq(Line), NEW data \in Seq(Line)
  PROVE  Conf!Over(there, data) \in Seq(Line) /\ Conf!Over(<<>>, data) = data
<1>1. Conf!Over(<<>>, data) = data  BY DEF Conf!Over
<1>2. CASE Len(data) >= Len(there)  BY <1>1, <1>2 DEF Conf!Over
<1>3. CASE ~(Len(data) >= Len(there))
  <2>1. PICK rest : rest = SubSeq(there, Len(data) + 1, Len(there))  OBVIOUS
  <2>2. rest \in Seq(Line)  BY <2>1, <1>3
  <2>3. Conf!Over(there, data) = data \o rest  BY <2>1, <1>3 DEF Conf!Over
  <2>4. data \o rest \in Seq(Line)  BY <2>2, ConcatProperties
  <2> QED  BY <2>3, <2>4, <1>1
<1> QED  BY <1>2, <1>3

LEMMA WrittenIsThere ==
  ASSUME NEW text \in Seq(Line), NEW key \in {"enabled", "intensity"},
           NEW v \in Conf!Booleans
  PROVE  Conf!WriteKey(text, key, v) \in Seq(Line)
           /\ Conf!WriteKey(text, key, v) # Conf!NoFile
<1>1. LineOf(key, v) \in Line  BY LinesWritten
<1>2. Conf!WriteKey(text, key, v) \in Seq(Line) /\ Says(Conf!WriteKey(text, key, v), key)
  BY <1>1, WriteKeyWrites
<1>3. ~Says(Conf!NoFile, key)
  <2>1. Len(Conf!NoFile) = 1 /\ Conf!NoFile[1].key = "absent"  BY DEF Conf!NoFile
  <2>2. \A i \in 1 .. Len(Conf!NoFile) : i = 1  BY <2>1
  <2> QED  BY <2>1, <2>2 DEF Says
<1> QED  BY <1>2, <1>3

LEMMA IdleProg == Conf!Idle \in Progs /\ Editing(Conf!Idle)
  /\ \A f : Untouched(Conf!Idle, f)
<1>1. <<>> \in Seq(Line)  OBVIOUS
<1>2. Conf!Idle \in Progs  BY <1>1 DEF Conf!Idle, Progs, Stages
<1> QED  BY <1>2 DEF Conf!Idle, Editing, Untouched

LEMMA ConfStarts ==
  ASSUME Conf!ConfAssumption, Conf!Init
  PROVE  ConfInv
<1>1. PICK o \in OldFile, n \in NewFile : confFile = [old |-> o, new |-> n]
  BY DEF Conf!Init
<1>2. o \in Seq(Line) /\ n \in Seq(Line)  BY FilesAreLines
<1>3. confFile \in [{"old", "new"} -> Seq(Line)]
  <2>1. DOMAIN confFile = {"old", "new"} /\ confFile["old"] = o /\ confFile["new"] = n
    BY <1>1
  <2>2. confFile = [x \in DOMAIN confFile |-> confFile[x]]  BY <1>1
  <2> QED  BY <2>1, <2>2, <1>2
<1>4. proc = [p \in Conf!Programs |-> Conf!Idle]  BY DEF Conf!Init
<1> QED  BY <1>3, <1>4, IdleProg DEF ConfInv

\* The others, when the file of one of them changes and when it does not.
LEMMA Bystander ==
  ASSUME NEW r \in Progs, Editing(r), NEW f, NEW g, Untouched(r, f),
         g[r.path] = f[r.path]
  PROVE  Untouched(r, g)
BY DEF Untouched

LEMMA Disturbing ==
  ASSUME NEW r \in Progs, Editing(r), NEW g
  PROVE  /\ [r EXCEPT !.alone = FALSE] \in Progs /\ Editing([r EXCEPT !.alone = FALSE])
         /\ Untouched([r EXCEPT !.alone = FALSE], g)
<1>1. PICK s : s = [r EXCEPT !.alone = FALSE]  OBVIOUS
<1>2. s \in Progs /\ s.key = r.key /\ s.value = r.value /\ s.stage = r.stage
  BY <1>1 DEF Progs
<1>3. ~s.alone  BY <1>1 DEF Progs
<1> QED  BY <1>1, <1>2, <1>3 DEF Editing, Untouched

\* A step of one program that leaves the files alone.
LEMMA OneMoves ==
  ASSUME ConfInv, NEW p \in Conf!Programs, NEW r \in Progs, Editing(r), Untouched(r,
           confFile),
         proc' = [proc EXCEPT ![p] = r], confFile' = confFile
  PROVE  ConfInv'
<1>1. proc' \in [Conf!Programs -> Progs]  BY DEF ConfInv
<1>2. \A q \in Conf!Programs : Editing(proc'[q]) /\ Untouched(proc'[q], confFile')
  <2> TAKE q \in Conf!Programs
  <2>1. proc'[q] = IF q = p THEN r ELSE proc[q]  BY DEF ConfInv
  <2> QED  BY <2>1 DEF ConfInv
<1> QED  BY <1>1, <1>2 DEF ConfInv

\* A step that changes the file of one path.
LEMMA OneWrites ==
  ASSUME ConfInv, NEW p \in Conf!Programs, NEW r \in Progs, Editing(r),
         NEW path \in {"old", "new"}, NEW text \in Seq(Line),
         confFile' = [confFile EXCEPT ![path] = text], Untouched(r, confFile'),
         proc' = [Conf!Disturbed(path, p) EXCEPT ![p] = r]
  PROVE  ConfInv'
<1>1. confFile' \in [{"old", "new"} -> Seq(Line)]  BY DEF ConfInv
<1>2. ASSUME NEW q \in Conf!Programs
      PROVE  proc'[q] \in Progs /\ Editing(proc'[q]) /\ Untouched(proc'[q], confFile')
  <2>1. proc[q] \in Progs /\ Editing(proc[q]) /\ Untouched(proc[q], confFile)
    BY DEF ConfInv
  <2>2. CASE q = p  BY <2>2 DEF Conf!Disturbed
  <2>3. CASE q # p /\ proc[q].path = path
    <3>1. proc'[q] = [proc[q] EXCEPT !.alone = FALSE]  BY <2>3 DEF Conf!Disturbed
    <3> QED  BY <2>1, <3>1, Disturbing
  <2>4. CASE q # p /\ proc[q].path # path
    <3>1. proc'[q] = proc[q]  BY <2>4 DEF Conf!Disturbed
    <3>2. proc[q].path \in {"old", "new"}  BY <2>1 DEF Progs
    <3>3. confFile'[proc[q].path] = confFile[proc[q].path]  BY <2>4, <3>2 DEF ConfInv
    <3> QED  BY <2>1, <3>1, <3>3, Bystander
  <2> QED  BY <2>2, <2>3, <2>4
<1>3. proc' \in [Conf!Programs -> Progs]
  <2>1. proc' = [q \in Conf!Programs |-> proc'[q]]  BY DEF Conf!Disturbed
  <2> QED  BY <2>1, <1>2
<1> QED  BY <1>1, <1>2, <1>3 DEF ConfInv

\* The rows the steps leave.
LEMMA StageSet ==
  ASSUME NEW r \in Progs, NEW s \in Stages
  PROVE  LET t == [r EXCEPT !.stage = s]
         IN  /\ t \in Progs /\ t.stage = s /\ t.path = r.path /\ t.key = r.key
             /\ t.value = r.value /\ t.text = r.text /\ t.alone = r.alone
BY DEF Progs

LEMMA SettledOn ==
  ASSUME NEW r \in Progs, Editing(r), NEW path \in {"old", "new"},
         NEW s, s = (IF r.key = "" THEN "load" ELSE "read"),
         NEW t, t = [r EXCEPT !.path = path, !.text = <<>>, !.stage = s]
  PROVE  t \in Progs /\ Editing(t) /\ \A f : Untouched(t, f)
<1>1. s \in Stages /\ s \in {"load", "read"}  BY DEF Stages
<1>2. <<>> \in Seq(Line)  BY Zenon, LinesWritten
<1>3. t \in Progs  BY <1>1, <1>2 DEF Progs
<1>4. t.stage = s /\ t.key = r.key /\ t.value = r.value  BY DEF Progs
<1> QED  BY <1>1, <1>3, <1>4 DEF Editing, Untouched

LEMMA SettlesKeeps ==
  ASSUME ConfInv, NEW p \in Conf!Programs, NEW path \in {"old", "new"}, Conf!Settles(p,
           path), confFile' = confFile
  PROVE  ConfInv'
<1>1. PICK r \in Progs : r = proc[p] /\ Editing(r)  BY DEF ConfInv
<1>2. PICK s : s = IF r.key = "" THEN "load" ELSE "read"  OBVIOUS
<1>3. PICK t : t = [r EXCEPT !.path = path, !.text = <<>>, !.stage = s]  OBVIOUS
<1>4. t \in Progs /\ Editing(t) /\ Untouched(t, confFile)  BY <1>1, <1>2, <1>3, SettledOn
<1>5. proc' = [proc EXCEPT ![p] = t]
  BY <1>1, <1>2, <1>3 DEF Conf!Settles, Conf!AfterResolving, ConfInv
<1> QED  BY <1>4, <1>5, OneMoves

LEMMA GoesKeeps ==
  ASSUME ConfInv, NEW p \in Conf!Programs, NEW s \in {"resolve", "fill", "idle"},
           Conf!Goes(p, s), confFile' = confFile
  PROVE  ConfInv'
<1>1. PICK r \in Progs : r = proc[p] /\ Editing(r)  BY DEF ConfInv
<1>2. PICK t : t = [r EXCEPT !.stage = s]  OBVIOUS
<1>3. s \in Stages  BY DEF Stages
<1>4. t \in Progs /\ t.stage = s /\ t.key = r.key /\ t.value = r.value
  BY <1>2, <1>3, StageSet
<1>5. Editing(t) /\ Untouched(t, confFile)  BY <1>1, <1>4 DEF Editing, Untouched
<1>6. proc' = [proc EXCEPT ![p] = t]  BY <1>1, <1>2 DEF Conf!Goes
<1> QED  BY <1>4, <1>5, <1>6, OneMoves

LEMMA GoneKeeps ==
  ASSUME ConfInv, NEW p \in Conf!Programs, Conf!Gone(p), confFile' = confFile
  PROVE  ConfInv'
BY IdleProg, OneMoves DEF Conf!Gone

LEMMA ResolveKeeps ==
  ASSUME ConfInv, NEW p \in Conf!Programs, Conf!Resolve(p)
  PROVE  ConfInv'
<1>1. PICK r \in Progs : r = proc[p] /\ Editing(r)  BY DEF ConfInv
<1>2. CASE confFile["new"] = Conf!NoFile /\ confFile["old"] # Conf!NoFile
  <2>1. PICK old \in Seq(Line) : old = confFile["old"]  BY DEF ConfInv
  <2>2. PICK t : t = [r EXCEPT !.stage = "create", !.text = old]  OBVIOUS
  <2>3. "create" \in Stages  BY DEF Stages
  <2>4. t \in Progs /\ t.stage = "create" /\ t.key = r.key /\ t.value = r.value
    BY <2>2, <2>3 DEF Progs
  <2>5. Editing(t) /\ Untouched(t, confFile)  BY <1>1, <2>4 DEF Editing, Untouched
  <2>6. proc' = [proc EXCEPT ![p] = t] /\ confFile' = confFile
    BY <1>1, <1>2, <2>1, <2>2 DEF Conf!Resolve, ConfInv
  <2> QED  BY <2>4, <2>5, <2>6, OneMoves
<1>3. CASE ~(confFile["new"] = Conf!NoFile /\ confFile["old"] # Conf!NoFile)
  <2>1. Conf!Settles(p, "new") /\ confFile' = confFile  BY <1>3 DEF Conf!Resolve
  <2> QED  BY <2>1, SettlesKeeps
<1> QED  BY <1>2, <1>3

\* The new file appears empty: nobody can have truncated or written it, as
\* what an edit writes is a file.
LEMMA CreateKeeps ==
  ASSUME ConfInv, NEW p \in Conf!Programs, Conf!Create(p)
  PROVE  ConfInv'
<1>1. CASE confFile["new"] = Conf!NoFile
        /\ confFile' = [confFile EXCEPT !["new"] = <<>>] /\ Conf!Goes(p, "fill")
  <2>1. <<>> \in Seq(Line)  BY Zenon, LinesWritten
  <2>2. confFile' \in [{"old", "new"} -> Seq(Line)] /\ confFile'["old"] = confFile["old"]
    BY <1>1, <2>1 DEF ConfInv
  <2>3. \A q \in Conf!Programs : proc[q] \in Progs /\ Editing(proc[q])
                                   /\ Untouched(proc[q], confFile)
    BY DEF ConfInv
  <2>4. Conf!NoFile # <<>>  BY DEF Conf!NoFile
  <2>5. ASSUME NEW q \in Conf!Programs PROVE Untouched(proc[q], confFile')
    <3>1. PICK r \in Progs : r = proc[q] /\ Editing(r) /\ Untouched(r, confFile)  BY <2>3
    <3>2. CASE r.path = "old"  BY <2>2, <3>1, <3>2, Bystander
    <3>3. CASE r.path = "new"
      <4>1. ~(r.alone /\ r.stage = "write")  BY <1>1, <2>4, <3>1, <3>3 DEF Untouched
      <4>2. ~(r.alone /\ r.stage = "written")
        <5> SUFFICES ASSUME r.alone /\ r.stage = "written" PROVE FALSE  OBVIOUS
        <5>1. Conf!NoFile = Conf!WriteKey(r.text, r.key, r.value)
          BY <1>1, <3>1, <3>3 DEF Untouched
        <5>2. r.key \in {"enabled", "intensity"} /\ r.value \in Conf!Booleans
          BY <3>1 DEF Editing, Progs
        <5>3. r.text \in Seq(Line)  BY DEF Progs
        <5> QED  BY <5>1, <5>2, <5>3, WrittenIsThere
      <4> QED  BY <3>1, <4>1, <4>2 DEF Untouched
    <3>4. r.path \in {"old", "new"}  BY DEF Progs
    <3> QED  BY <3>2, <3>3, <3>4
  <2>6. PICK r \in Progs : r = proc[p] /\ Editing(r)  BY <2>3
  <2>7. PICK t : t = [r EXCEPT !.stage = "fill"]  OBVIOUS
  <2>8. "fill" \in Stages  BY DEF Stages
  <2>9. t \in Progs /\ t.stage = "fill" /\ t.key = r.key /\ t.value = r.value
    BY <2>7, <2>8, StageSet
  <2>10. Editing(t) /\ Untouched(t, confFile')  BY <2>6, <2>9 DEF Editing, Untouched
  <2>11. proc' = [proc EXCEPT ![p] = t]  BY <1>1, <2>6, <2>7 DEF Conf!Goes
  <2>12. proc' \in [Conf!Programs -> Progs]  BY <2>9, <2>11 DEF ConfInv
  <2>13. \A q \in Conf!Programs : Editing(proc'[q]) /\ Untouched(proc'[q], confFile')
    <3> TAKE q \in Conf!Programs
    <3>1. proc'[q] = IF q = p THEN t ELSE proc[q]  BY <2>11 DEF ConfInv
    <3> QED  BY <3>1, <2>3, <2>5, <2>10
  <2> QED  BY <2>2, <2>12, <2>13 DEF ConfInv
<1>2. CASE Conf!Settles(p, "new") /\ confFile' = confFile  BY <1>2, SettlesKeeps
<1>3. CASE Conf!Settles(p, "old") /\ confFile' = confFile  BY <1>3, SettlesKeeps
<1> QED  BY <1>1, <1>2, <1>3 DEF Conf!Create

LEMMA FillKeeps ==
  ASSUME ConfInv, NEW p \in Conf!Programs, Conf!Fill(p)
  PROVE  ConfInv'
<1>1. CASE /\ confFile' = [confFile EXCEPT !["new"] = Conf!Over(@, proc[p].text)]
           /\ proc' = [Conf!Disturbed("new", p) EXCEPT ![p].path = "new", ![p].text = <<>>,
                                                  ![p].stage = Conf!AfterResolving(p)]
  <2>1. PICK r \in Progs : r = proc[p] /\ Editing(r)  BY DEF ConfInv
  <2>2. PICK s : s = IF r.key = "" THEN "load" ELSE "read"  OBVIOUS
  <2>3. PICK t : t = [r EXCEPT !.path = "new", !.text = <<>>, !.stage = s]  OBVIOUS
  <2>4. t \in Progs /\ Editing(t) /\ Untouched(t, confFile')  BY <2>1, <2>2, <2>3, SettledOn
  <2>5. Conf!Disturbed("new", p)[p] = r /\ DOMAIN Conf!Disturbed("new", p) = Conf!Programs
    BY <2>1 DEF Conf!Disturbed
  <2>6. PICK d : d = Conf!Disturbed("new", p)  OBVIOUS
  <2>7. proc' = [d EXCEPT ![p] = t]
    <3>1. s = Conf!AfterResolving(p)  BY <2>1, <2>2 DEF Conf!AfterResolving
    <3>2. proc' = [d EXCEPT ![p].path = "new", ![p].text = <<>>, ![p].stage = s]
      BY <1>1, <2>6, <3>1
    <3>3. d[p] = r /\ p \in DOMAIN d  BY <2>5, <2>6
    <3> QED  BY <2>3, <3>2, <3>3
  <2>8. PICK text \in Seq(Line) : text = Conf!Over(confFile["new"], proc[p].text)
    <3>1. r.text \in Seq(Line) /\ confFile["new"] \in Seq(Line)  BY DEF Progs, ConfInv
    <3> QED  BY <2>1, <3>1, OverLines
  <2>9. confFile' = [confFile EXCEPT !["new"] = text]  BY <1>1, <2>8
  <2> QED  BY <2>4, <2>6, <2>7, <2>9, OneWrites
<1>2. CASE Conf!Settles(p, "old") /\ confFile' = confFile  BY <1>2, SettlesKeeps
<1> QED  BY <1>1, <1>2 DEF Conf!Fill

LEMMA EditKeeps ==
  ASSUME ConfInv, NEW p \in Conf!Frontends, Conf!Edit(p)
  PROVE  ConfInv'
<1>0. p \in Conf!Programs  BY DEF Conf!Programs
<1>1. PICK r \in Progs : r = proc[p] /\ Editing(r)  BY <1>0 DEF ConfInv
<1>2. confFile' = confFile  BY DEF Conf!Edit
<1>3. ASSUME NEW k \in {"enabled", "intensity"}, NEW v \in Conf!Booleans,
               NEW s \in {"resolve", "read"},
             proc' = [proc EXCEPT ![p].key = k, ![p].value = v, ![p].stage = s]
      PROVE  ConfInv'
  <2>1. PICK t : t = [r EXCEPT !.key = k, !.value = v, !.stage = s]  OBVIOUS
  <2>2. s \in Stages  BY DEF Stages
  <2>3. t \in Progs /\ t.stage = s /\ t.key = k /\ t.value = v  BY <2>1, <2>2 DEF Progs
  <2>4. Editing(t) /\ Untouched(t, confFile)  BY <2>3 DEF Editing, Untouched
  <2>5. proc' = [proc EXCEPT ![p] = t]  BY <1>0, <1>1, <1>3, <2>1 DEF ConfInv
  <2> QED  BY <1>0, <1>2, <2>3, <2>4, <2>5, OneMoves
<1>4. Conf!Toggled(confShown[p].enabled) \in Conf!Booleans
  BY DEF Conf!Toggled, Conf!Booleans
<1> QED  BY <1>3, <1>4 DEF Conf!Edit

LEMMA ReadKeeps ==
  ASSUME ConfInv, NEW p \in Conf!Frontends, Conf!ReadText(p)
  PROVE  ConfInv'
<1>0. p \in Conf!Programs  BY DEF Conf!Programs
<1>1. PICK r \in Progs : r = proc[p] /\ Editing(r)  BY <1>0 DEF ConfInv
<1>2. PICK text \in Seq(Line) : text
        = IF Conf!Content(p) = Conf!NoFile THEN Conf!Header ELSE Conf!Content(p)
  <2>1. r.path \in {"old", "new"}  BY DEF Progs
  <2>2. Conf!Content(p) \in Seq(Line)  BY <1>1, <2>1 DEF Conf!Content, ConfInv
  <2> QED  BY <2>2, LinesWritten
<1>3. PICK t : t = [r EXCEPT !.text = text, !.alone = TRUE, !.stage = "truncate"]  OBVIOUS
<1>4. "truncate" \in Stages /\ TRUE \in BOOLEAN  BY DEF Stages
<1>5. t \in Progs /\ t.stage = "truncate" /\ t.key = r.key /\ t.value = r.value
  BY <1>3, <1>4 DEF Progs
<1>6. r.stage = "read"  BY <1>1 DEF Conf!ReadText
<1>7. Editing(t) /\ Untouched(t, confFile)  BY <1>1, <1>5, <1>6 DEF Editing, Untouched
<1>8. proc' = [proc EXCEPT ![p] = t] /\ confFile' = confFile
  BY <1>0, <1>1, <1>2, <1>3 DEF Conf!ReadText, ConfInv
<1> QED  BY <1>0, <1>5, <1>7, <1>8, OneMoves

LEMMA TruncateKeeps ==
  ASSUME ConfInv, NEW p \in Conf!Frontends, Conf!Truncate(p)
  PROVE  ConfInv'
<1>0. p \in Conf!Programs  BY DEF Conf!Programs
<1>1. PICK r \in Progs : r = proc[p] /\ Editing(r)  BY <1>0 DEF ConfInv
<1>2. PICK path \in {"old", "new"} : path = r.path  BY DEF Progs
<1>3. PICK t : t = [r EXCEPT !.stage = "write"]  OBVIOUS
<1>4. "write" \in Stages  BY DEF Stages
<1>5. t \in Progs /\ t.stage = "write" /\ t.path = path /\ t.key = r.key
        /\ t.value = r.value
  BY <1>2, <1>3, <1>4, StageSet
<1>6. r.stage = "truncate" /\ confFile' = [confFile EXCEPT ![path] = <<>>]
  BY <1>1, <1>2 DEF Conf!Truncate
<1>7. PICK text \in Seq(Line) : text = <<>>  BY Zenon, LinesWritten
<1>8. confFile' = [confFile EXCEPT ![path] = text] /\ confFile'[path] = <<>>
  BY <1>6, <1>7 DEF ConfInv
<1>9. Editing(t) /\ Untouched(t, confFile')
  BY <1>1, <1>5, <1>6, <1>8 DEF Editing, Untouched
<1>10. PICK d : d = Conf!Disturbed(path, p)  OBVIOUS
<1>11. d[p] = r /\ p \in DOMAIN d  BY <1>0, <1>1, <1>10 DEF Conf!Disturbed
<1>12. proc' = [d EXCEPT ![p] = t]
  BY <1>1, <1>2, <1>3, <1>10, <1>11 DEF Conf!Truncate
<1> QED  BY <1>0, <1>5, <1>8, <1>9, <1>10, <1>12, OneWrites

LEMMA WriteKeeps ==
  ASSUME ConfInv, NEW p \in Conf!Frontends, Conf!Write(p)
  PROVE  ConfInv'
<1>0. p \in Conf!Programs  BY DEF Conf!Programs
<1>1. PICK r \in Progs : r = proc[p] /\ Editing(r) /\ Untouched(r, confFile)
  BY <1>0 DEF ConfInv
<1>2. PICK path \in {"old", "new"} : path = r.path  BY DEF Progs
<1>3. PICK t : t = [r EXCEPT !.stage = "written"]  OBVIOUS
<1>4. "written" \in Stages  BY DEF Stages
<1>5. /\ t \in Progs /\ t.stage = "written" /\ t.path = path /\ t.key = r.key
           /\ t.value = r.value
      /\ t.text = r.text /\ t.alone = r.alone
  BY <1>2, <1>3, <1>4, StageSet
<1>6. r.stage = "write"  BY <1>1 DEF Conf!Write
<1>7. r.key \in {"enabled", "intensity"} /\ r.value \in Conf!Booleans
        /\ r.text \in Seq(Line)
  BY <1>1, <1>6 DEF Editing, Progs
<1>8. PICK new \in Seq(Line) : new = Conf!WriteKey(r.text, r.key, r.value)
  BY <1>7, WrittenIsThere
<1>9. PICK there \in Seq(Line) : there = confFile[path]  BY DEF ConfInv
<1>10. PICK text \in Seq(Line) : text = Conf!Over(there, new)  BY OverLines
<1>11. confFile' = [confFile EXCEPT ![path] = text]
  BY <1>1, <1>2, <1>8, <1>9, <1>10 DEF Conf!Write
<1>12. confFile'[path] = text  BY <1>11 DEF ConfInv
<1>13. r.alone => text = new
  <2> SUFFICES ASSUME r.alone PROVE text = new  OBVIOUS
  <2>1. there = <<>>  BY <1>1, <1>2, <1>6, <1>9 DEF Untouched
  <2> QED  BY <2>1, <1>10, OverLines
<1>14. Editing(t)  BY <1>1, <1>5, <1>6 DEF Editing
<1>15. Untouched(t, confFile')  BY <1>5, <1>8, <1>12, <1>13 DEF Untouched
<1>16. PICK d : d = Conf!Disturbed(path, p)  OBVIOUS
<1>17. d[p] = r /\ p \in DOMAIN d  BY <1>0, <1>1, <1>16 DEF Conf!Disturbed
<1>18. proc' = [d EXCEPT ![p] = t]
  BY <1>1, <1>2, <1>3, <1>16, <1>17 DEF Conf!Write
<1> QED  BY <1>0, <1>5, <1>11, <1>14, <1>15, <1>16, <1>18, OneWrites

LEMMA ReportKeeps ==
  ASSUME ConfInv, NEW p \in Conf!Frontends, Conf!Report(p)
  PROVE  ConfInv'
<1>0. p \in Conf!Programs  BY DEF Conf!Programs
<1>1. PICK r \in Progs : r = proc[p]  BY <1>0 DEF ConfInv
<1>2. PICK path \in {"old", "new"} : path = r.path  BY DEF Progs
<1>3. PICK i \in Progs : i = Conf!Idle  BY IdleProg
<1>4. i.key = ""  BY <1>3 DEF Conf!Idle
<1>5. PICK t : t = [i EXCEPT !.path = path, !.stage = "load"]  OBVIOUS
<1>6. "load" \in Stages  BY DEF Stages
<1>7. t \in Progs /\ t.stage = "load" /\ t.key = ""  BY <1>4, <1>5, <1>6 DEF Progs
<1>8. Editing(t) /\ Untouched(t, confFile)  BY <1>7 DEF Editing, Untouched
<1>9. proc' = [proc EXCEPT ![p] = t] /\ confFile' = confFile
  BY <1>1, <1>2, <1>3, <1>5 DEF Conf!Report
<1> QED  BY <1>0, <1>7, <1>8, <1>9, OneMoves

LEMMA HandKeeps ==
  ASSUME ConfInv, Conf!HandEdit
  PROVE  ConfInv'
<1>1. PICK line \in HandLines : confFile' = [confFile EXCEPT !["new"] = Append(@, line)]
  BY DEF Conf!HandEdit
<1>2. Append(confFile["new"], line) \in Seq(Line)
  <2>1. line \in Line  BY LinesWritten
  <2> QED  BY <2>1 DEF ConfInv
<1>3. confFile' \in [{"old", "new"} -> Seq(Line)] /\ confFile'["old"] = confFile["old"]
  BY <1>1, <1>2 DEF ConfInv
<1>4. proc' = Conf!Disturbed("new", "editor") /\ \A q \in Conf!Programs : q # "editor"
  BY DEF Conf!HandEdit, Conf!Programs, Conf!Frontends
<1>5. ASSUME NEW q \in Conf!Programs
      PROVE  proc'[q] \in Progs /\ Editing(proc'[q]) /\ Untouched(proc'[q], confFile')
  <2>1. proc[q] \in Progs /\ Editing(proc[q]) /\ Untouched(proc[q], confFile)
    BY DEF ConfInv
  <2>2. proc[q].path \in {"old", "new"}  BY <2>1 DEF Progs
  <2>3. CASE proc[q].path = "new"
    <3>1. proc'[q] = [proc[q] EXCEPT !.alone = FALSE]  BY <1>4, <2>3 DEF Conf!Disturbed
    <3> QED  BY <2>1, <3>1, Disturbing
  <2>4. CASE proc[q].path = "old"
    <3>1. proc'[q] = proc[q]  BY <1>4, <2>4 DEF Conf!Disturbed
    <3> QED  BY <2>1, <2>4, <3>1, <1>3, Bystander
  <2> QED  BY <2>2, <2>3, <2>4
<1>6. proc' \in [Conf!Programs -> Progs]
  <2>1. proc' = [q \in Conf!Programs |-> proc'[q]]  BY <1>4 DEF Conf!Disturbed
  <2> QED  BY <2>1, <1>5
<1> QED  BY <1>3, <1>5, <1>6 DEF ConfInv

LEMMA ConfSteps ==
  ASSUME ConfInv, [Conf!Next]_(Conf!vars)
  PROVE  ConfInv'
<1>1. CASE UNCHANGED Conf!vars  BY <1>1 DEF Conf!vars, ConfInv
<1>2. ASSUME NEW p \in Conf!Programs, Conf!Start(p) \/ Conf!LoadIt(p) PROVE ConfInv'
  BY <1>2, GoesKeeps DEF Conf!Start, Conf!LoadIt
<1>3. ASSUME NEW p \in Conf!Programs, Conf!Stop(p) \/ Conf!Crash(p) PROVE ConfInv'
  BY <1>3, GoneKeeps DEF Conf!Stop, Conf!Crash
<1>4. ASSUME NEW p \in Conf!Programs,
               Conf!Resolve(p) \/ Conf!Create(p) \/ Conf!Fill(p) PROVE ConfInv'
  BY <1>4, ResolveKeeps, CreateKeeps, FillKeeps
<1>5. ASSUME NEW p \in Conf!Frontends,
               \/ Conf!Edit(p) \/ Conf!ReadText(p) \/ Conf!Truncate(p)
               \/ Conf!Write(p) \/ Conf!Report(p)
      PROVE  ConfInv'
  BY <1>5, EditKeeps, ReadKeeps, TruncateKeeps, WriteKeeps, ReportKeeps
<1>6. CASE Conf!HandEdit  BY <1>6, HandKeeps
<1>7. CASE Conf!Next  BY <1>2, <1>3, <1>4, <1>5, <1>6, <1>7 DEF Conf!Next
<1> QED  BY <1>1, <1>7

\* An edit nobody came between is read by both, with every other line there,
\* and the two parsers agree on every file.
LEMMA ConfSound ==
  ASSUME ConfInv
  PROVE  Conf!EditTakes /\ Conf!ReadersAgree
<1>1. Conf!EditTakes
  <2> SUFFICES ASSUME NEW p \in Conf!Frontends, proc[p].stage = "written" /\ proc[p].alone
               PROVE  /\ Conf!Load(p, Conf!Content(p))[proc[p].key] = proc[p].value
                      /\ Conf!Load("daemon", Conf!Content(p))[proc[p].key] = proc[p].value
                      /\ Conf!Others(Conf!Content(p), proc[p].key)
                           = Conf!Others(proc[p].text, proc[p].key)
    BY DEF Conf!EditTakes
  <2>0. p \in Conf!Programs  BY DEF Conf!Programs
  <2>1. PICK r \in Progs : r = proc[p] /\ Editing(r) /\ Untouched(r, confFile)
    BY <2>0 DEF ConfInv
  <2>2. PICK key \in {"enabled", "intensity"}, v \in Conf!Booleans, text \in Seq(Line) :
          key = r.key /\ v = r.value /\ text = r.text
    BY <2>1 DEF Editing, Progs
  <2>3. PICK now : now = Conf!Content(p)  OBVIOUS
  <2>4. now = Conf!WriteKey(text, key, v)  BY <2>1, <2>2, <2>3 DEF Untouched, Conf!Content
  <2>5. LineOf(key, v) \in Line  BY LinesWritten
  <2>6. /\ now \in Seq(Line) /\ SaysOnly(now, key, v) /\ Says(now, key)
        /\ Conf!Others(now, key) = Conf!Others(text, key)
    BY <2>4, <2>5, WriteKeyWrites
  <2>7. PICK i \in 1 .. Len(now) : now[i].key = key  BY <2>6 DEF Says
  <2>8. \A j \in 1 .. Len(now) : now[j].key = key => now[j].value = v  BY <2>6 DEF SaysOnly
  <2>9. \A x : Conf!Load(x, now)[key] = v  BY <2>6, <2>7, <2>8, LastLineWins
  <2> QED  BY <2>1, <2>2, <2>3, <2>6, <2>9
<1>2. Conf!ReadersAgree
  <2>1. \A where \in {"old", "new"} : confFile[where] \in Seq(Line)  BY DEF ConfInv
  <2> QED  BY <2>1, ReadersReadAlike, WarnAlike DEF Conf!ReadersAgree
<1> QED  BY <1>1, <1>2
=============================================================================
