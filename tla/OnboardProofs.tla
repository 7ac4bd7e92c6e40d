---------------------------- MODULE OnboardProofs ---------------------------
(***************************************************************************)
(* Theorems about what the settings programs keep on the wheel itself: the *)
(* designs of the base's screen, for any layouts, samples and presets      *)
(* within the driver's text, and the slots the window's worker edits, for  *)
(* any wheels and number of slots.  They have nothing in common; what both *)
(* call alike is renamed here.                                             *)
(***************************************************************************)
EXTENDS ScreenEditor, SequenceTheorems, WellFoundedInduction, TLAPS

CONSTANTS Wheels, Classic, NSlots, MaxClicks, MaxPresses, MaxPlugs, MaxFaults

VARIABLES
  attached, units, queue, job, vm, key, onboard, lastSeen, page, picker, saved,
  touched, found, strayed, clicks, presses, plugs, faults

Worker == INSTANCE WheelWorker WITH wheel <- units, editor <- onboard

(***************************************************************************)
(* The screen's designs.                                                   *)
(***************************************************************************)
\* A set of numbers has a least, and what holds of 0 and of every successor
\* holds of all.
LEMMA LeastNat ==
  ASSUME NEW T, T \subseteq Nat, T # {}
  PROVE  \E x \in T : \A y \in T : x <= y
<1>1. IsWellFoundedOn(OpToRel(<, Nat), Nat)
  BY NatLessThanWellFounded
<1> DEFINE R == OpToRel(<, Nat)
<1>2. \E x \in T : \A y \in T : <<y, x>> \notin R
  <2> HIDE DEF R
  <2>1. IsWellFoundedOn(R, Nat)  BY <1>1 DEF R
  <2> QED  BY <2>1, WFMin
<1>3. \A x \in Nat, y \in Nat : y < x => <<y, x>> \in R
  BY DEF OpToRel
<1> HIDE DEF R
<1>4. PICK x \in T : \A y \in T : <<y, x>> \notin R  BY <1>2
<1>5. \A y \in T : ~(y < x)  BY <1>3, <1>4
<1>6. \A a, b \in Nat : ~(b < a) => a <= b  OBVIOUS
<1> QED  BY <1>4, <1>5, <1>6

LEMMA SetInduction ==
  ASSUME NEW S, 0 \in S, \A n \in Nat : n \in S => n + 1 \in S
  PROVE  Nat \subseteq S
<1> DEFINE T == Nat \ S
<1>1. CASE T = {}  BY <1>1
<1>2. CASE T # {}
  <2>1. PICK x \in T : \A y \in T : x <= y
    BY <1>2, LeastNat
  <2>2. x # 0 /\ x \in Nat  BY <2>1
  <2>3. x - 1 \in Nat /\ x - 1 \notin T BY <2>1, <2>2
  <2>4. x - 1 \in S BY <2>3
  <2>5. (x - 1) + 1 \in S  BY <2>4, <2>3
  <2> QED BY <2>5, <2>2, <2>1
<1> QED BY <1>1, <1>2

Loops(A, a, n, step) ==
  \E b \in [0 .. n -> A] : b[0] = a /\ \A k \in 1 .. n : b[k] = step[k][b[k - 1]]

\* A loop over n items, each turn a function of what it has so far, runs to
\* its end.
LEMMA LoopEnds ==
  ASSUME NEW A, NEW a \in A, NEW n \in Nat, NEW step \in [1 .. n -> [A -> A]]
  PROVE  Loops(A, a, n, step)
<1> DEFINE Runs(m, b) == b \in [0 .. m -> A] /\ b[0] = a /\ \A k \in 1 .. m : b[k] = step[k][b[k - 1]]
           S == {m \in Nat : m <= n => \E b : Runs(m, b)}
<1>1. 0 \in S
  <2>1. Runs(0, [k \in 0 .. 0 |-> a])  OBVIOUS
  <2> QED  BY <2>1
<1>2. ASSUME NEW m \in Nat, m \in S PROVE m + 1 \in S
  <2> SUFFICES ASSUME m + 1 <= n PROVE \E b : Runs(m + 1, b)  OBVIOUS
  <2>1. PICK b : Runs(m, b)  BY <1>2
  <2> DEFINE d == [k \in 0 .. m + 1 |-> IF k \in 0 .. m THEN b[k] ELSE step[m + 1][b[m]]]
  <2>2. step[m + 1][b[m]] \in A /\ \A k \in 0 .. m : b[k] \in A  BY <2>1
  <2>3. d \in [0 .. m + 1 -> A]  BY <2>2
  <2>4. \A k \in 0 .. m : d[k] = b[k]  OBVIOUS
  <2>5. d[m + 1] = step[m + 1][b[m]]  OBVIOUS
  <2> HIDE DEF d
  <2>6. d[0] = a  BY <2>1, <2>4
  <2>7. \A k \in 1 .. m + 1 : d[k] = step[k][d[k - 1]]
    <3> TAKE k \in 1 .. m + 1
    <3>1. CASE k = m + 1
      <4>1. k - 1 = m  BY <3>1
      <4> QED  BY <3>1, <4>1, <2>4, <2>5
    <3>2. CASE k # m + 1
      <4>1. k \in 1 .. m /\ k \in 0 .. m /\ k - 1 \in 0 .. m  BY <3>2
      <4>2. d[k] = b[k] /\ d[k - 1] = b[k - 1]  BY <4>1, <2>4
      <4> QED  BY <4>1, <4>2, <2>1
    <3> QED  BY <3>1, <3>2
  <2> QED  BY <2>3, <2>6, <2>7
<1> HIDE DEF S
<1>3. n \in S  BY <1>1, <1>2, SetInduction
<1> QED  BY <1>3 DEF S, Loops

\* The first and the last position of a kind, or the end where there is none.
LEMMA LastOf ==
  ASSUME NEW n \in Nat, NEW B, B \subseteq 1 .. n
  PROVE  /\ Max({0} \union B) \in {0} \union B /\ Max({0} \union B) \in 0 .. n
         /\ \A j \in B : j <= Max({0} \union B)
<1> DEFINE D == {n - b : b \in {0} \union B}
<1>1. D \subseteq Nat /\ D # {}  OBVIOUS
<1>2. PICK x \in D : \A y \in D : x <= y  BY <1>1, LeastNat
<1>3. PICK b \in {0} \union B : x = n - b  BY <1>2
<1>4. \A c \in {0} \union B : b >= c
  <2> TAKE c \in {0} \union B
  <2>1. n - c \in D  OBVIOUS
  <2>2. n - b <= n - c  BY <2>1, <1>2, <1>3
  <2> QED  BY <2>2, <1>3
<1> HIDE DEF D
<1>5. \E a \in {0} \union B : \A c \in {0} \union B : a >= c  BY <1>3, <1>4
<1>6. /\ Max({0} \union B) \in {0} \union B
      /\ \A c \in {0} \union B : Max({0} \union B) >= c
  BY <1>5 DEF Max
<1>7. PICK m : m = Max({0} \union B)  OBVIOUS
<1>8. m \in {0} \union B /\ \A c \in {0} \union B : m >= c  BY <1>6, <1>7
<1>9. m \in 0 .. n  BY <1>8
<1>10. \A j \in B : j <= m  BY <1>8, <1>9
<1> QED  BY <1>7, <1>8, <1>9, <1>10

LEMMA FirstOf ==
  ASSUME NEW n \in Nat, NEW e \in Nat, NEW B, B \subseteq 1 .. n
  PROVE  /\ Min({e} \union B) \in {e} \union B
         /\ \A j \in {e} \union B : Min({e} \union B) <= j
<1>1. {e} \union B \subseteq Nat /\ {e} \union B # {}  OBVIOUS
<1>2. \E x \in {e} \union B : \A y \in {e} \union B : x <= y  BY <1>1, LeastNat
<1> QED  BY <1>2 DEF Min

\* trim_end: up to the last character that is not blank.
LEMMA TrimEndIs ==
  ASSUME NEW t \in Seq(Char)
  PROVE  \E k \in 0 .. Len(t) :
           /\ TrimEnd(t) = SubSeq(t, 1, k) /\ (k > 0 => ~Blank(t[k]))
           /\ \A j \in k + 1 .. Len(t) : Blank(t[j])
<1>1. PICK n \in Nat : n = Len(t) /\ DOMAIN t = 1 .. n  OBVIOUS
<1>2. PICK B : B = {i \in DOMAIN t : ~Blank(t[i])}  OBVIOUS
<1>3. B \subseteq 1 .. n  BY <1>1, <1>2
<1>4. PICK k \in 0 .. n : k = Max({0} \union B) /\ k \in {0} \union B /\ \A j \in B : j <= k
  BY <1>3, LastOf
<1>5. TrimEnd(t) = SubSeq(t, 1, k)  BY <1>2, <1>4 DEF TrimEnd
<1>6. k > 0 => ~Blank(t[k])  BY <1>2, <1>4
<1>7. \A j \in k + 1 .. n : Blank(t[j])
  <2> TAKE j \in k + 1 .. n
  <2>1. j \in 1 .. n /\ ~(j <= k)  OBVIOUS
  <2>2. j \notin B  BY <2>1, <1>4
  <2> QED  BY <2>1, <2>2, <1>1, <1>2
<1> QED  BY <1>1, <1>5, <1>6, <1>7

\* The part of a text from one position to another.
LEMMA PartOf ==
  ASSUME NEW S, NEW t \in Seq(S), NEW a \in Nat \ {0}, NEW b \in 0 .. Len(t), a <= b + 1
  PROVE  /\ SubSeq(t, a, b) \in Seq(S) /\ Len(SubSeq(t, a, b)) = b - a + 1
         /\ \A i \in 1 .. b - a + 1 : SubSeq(t, a, b)[i] = t[a + i - 1]
OBVIOUS

LEMMA BehindIs ==
  ASSUME NEW S, NEW a \in Seq(S), NEW b \in Seq(S)
  PROVE  /\ a \o b \in Seq(S) /\ Len(a \o b) = Len(a) + Len(b)
         /\ \A i \in 1 .. Len(a) : (a \o b)[i] = a[i]
         /\ \A i \in 1 .. Len(b) : (a \o b)[Len(a) + i] = b[i]
OBVIOUS

LEMMA AllOf ==
  ASSUME NEW S, NEW t \in Seq(S)
  PROVE  SubSeq(t, 1, Len(t)) = t
OBVIOUS

LEMMA TrimEndStands ==
  ASSUME NEW t \in Seq(Char), t = <<>> \/ ~Blank(t[Len(t)])
  PROVE  TrimEnd(t) = t
<1>1. PICK k \in 0 .. Len(t) : /\ TrimEnd(t) = SubSeq(t, 1, k)
                               /\ \A j \in k + 1 .. Len(t) : Blank(t[j])
  BY TrimEndIs
<1>2. k = Len(t)
  <2>1. CASE t = <<>>  BY <2>1
  <2>2. CASE t # <<>>  BY <2>2, <1>1
  <2> QED  BY <2>1, <2>2
<1> QED  BY <1>1, <1>2, AllOf

LEMMA TrimmedEnd ==
  ASSUME NEW t \in Seq(Char)
  PROVE  /\ TrimEnd(t) \in Seq(Char) /\ TrimEnd(TrimEnd(t)) = TrimEnd(t)
         /\ \A i \in DOMAIN TrimEnd(t) : \E j \in DOMAIN t : TrimEnd(t)[i] = t[j]
<1>1. PICK k \in 0 .. Len(t) : TrimEnd(t) = SubSeq(t, 1, k) /\ (k > 0 => ~Blank(t[k]))
  BY TrimEndIs
<1>2. PICK u : u = TrimEnd(t)  OBVIOUS
<1>3. u \in Seq(Char) /\ Len(u) = k /\ \A i \in 1 .. k : u[i] = t[i]
  <2>1. k - 1 + 1 = k /\ \A i \in 1 .. k : 1 + i - 1 = i  OBVIOUS
  <2> QED  BY <1>1, <1>2, <2>1, PartOf
<1>4. u = <<>> \/ ~Blank(u[Len(u)])
  <2>1. CASE k = 0  BY <2>1, <1>3
  <2>2. CASE k > 0  BY <2>2, <1>1, <1>3
  <2> QED  BY <2>1, <2>2
<1>5. TrimEnd(u) = u  BY <1>3, <1>4, TrimEndStands
<1>6. \A i \in DOMAIN u : i \in DOMAIN t /\ u[i] = t[i]  BY <1>3
<1> QED  BY <1>2, <1>3, <1>5, <1>6

LEMMA TrimStartIs ==
  ASSUME NEW t \in Seq(Char)
  PROVE  /\ TrimStart(t) \in Seq(Char)
         /\ (t = <<>> \/ ~Blank(t[1])) => TrimStart(t) = t
         /\ \A i \in DOMAIN TrimStart(t) : \E j \in DOMAIN t : TrimStart(t)[i] = t[j]
<1>1. PICK n \in Nat : n = Len(t) /\ DOMAIN t = 1 .. n  OBVIOUS
<1>2. PICK B : B = {i \in DOMAIN t : ~Blank(t[i])}  OBVIOUS
<1>3. B \subseteq 1 .. n  BY <1>1, <1>2
<1>4. PICK k : k = Min({n + 1} \union B)  OBVIOUS
<1>5. k \in {n + 1} \union B /\ \A j \in {n + 1} \union B : k <= j
  <2>1. n + 1 \in Nat  OBVIOUS
  <2> QED  BY <2>1, <1>3, <1>4, FirstOf
<1>6. k \in 1 .. n + 1  BY <1>3, <1>5
<1>7. TrimStart(t) = SubSeq(t, k, n)  BY <1>1, <1>2, <1>4 DEF TrimStart
<1>8. PICK u : u = TrimStart(t)  OBVIOUS
<1>9. u \in Seq(Char) /\ Len(u) = n - k + 1 /\ \A i \in 1 .. n - k + 1 : u[i] = t[k + i - 1]
  BY <1>1, <1>6, <1>7, <1>8, PartOf
<1>10. ASSUME t = <<>> \/ ~Blank(t[1]) PROVE u = t
  <2>1. k = 1
    <3>1. CASE t = <<>>  BY <3>1, <1>1, <1>6
    <3>2. CASE t # <<>>
      <4>1. 1 \in B  BY <3>2, <1>1, <1>2, <1>10
      <4> QED  BY <4>1, <1>5, <1>6
    <3> QED  BY <3>1, <3>2
  <2> QED  BY <2>1, <1>1, <1>7, <1>8, AllOf
<1>11. \A i \in DOMAIN u : k + i - 1 \in DOMAIN t /\ u[i] = t[k + i - 1]
  <2>1. DOMAIN u = 1 .. n - k + 1  BY <1>9
  <2>2. \A i \in 1 .. n - k + 1 : k + i - 1 \in 1 .. n  BY <1>6
  <2> QED  BY <2>1, <2>2, <1>1, <1>9
<1> QED  BY <1>8, <1>9, <1>10, <1>11

LEMMA TrimIs ==
  ASSUME NEW t \in Seq(Char)
  PROVE  /\ Trim(t) \in Seq(Char)
         /\ \A i \in DOMAIN Trim(t) : \E j \in DOMAIN t : Trim(t)[i] = t[j]
         /\ (\A i \in DOMAIN t : ~Blank(t[i])) => Trim(t) = t
<1>1. PICK u : u = TrimStart(t)  OBVIOUS
<1>2. u \in Seq(Char) /\ \A i \in DOMAIN u : \E j \in DOMAIN t : u[i] = t[j]
  BY <1>1, TrimStartIs
<1>3. Trim(t) = TrimEnd(u)  BY <1>1 DEF Trim
<1>4. \A i \in DOMAIN TrimEnd(u) : \E j \in DOMAIN t : TrimEnd(u)[i] = t[j]
  <2> TAKE i \in DOMAIN TrimEnd(u)
  <2>1. PICK k \in DOMAIN u : TrimEnd(u)[i] = u[k]  BY <1>2, TrimmedEnd
  <2> QED  BY <2>1, <1>2
<1>5. ASSUME \A i \in DOMAIN t : ~Blank(t[i]) PROVE Trim(t) = t
  <2>1. t = <<>> \/ (~Blank(t[1]) /\ ~Blank(t[Len(t)]))
    <3>1. CASE t = <<>>  BY <3>1
    <3>2. CASE t # <<>>
      <4>1. 1 \in DOMAIN t /\ Len(t) \in DOMAIN t  BY <3>2
      <4> QED  BY <4>1, <1>5
    <3> QED  BY <3>1, <3>2
  <2>2. u = t  BY <2>1, <1>1, TrimStartIs
  <2> QED  BY <2>1, <2>2, <1>3, TrimEndStands
<1>6. TrimEnd(u) \in Seq(Char)  BY <1>2, TrimmedEnd
<1> QED  BY <1>3, <1>4, <1>5, <1>6

\* A number without its leading zeros: something is left, and nothing more to
\* take away.
LEMMA NumberIs ==
  ASSUME NEW t \in Seq(Char), t # <<>>
  PROVE  /\ Number(t) \in Seq(Char) /\ Number(t) # <<>> /\ Len(Number(t)) <= Len(t)
         /\ (Len(t) = 1 \/ t[1] # "0") => Number(t) = t
         /\ Len(Number(t)) = 1 \/ Number(t)[1] # "0"
         /\ \A i \in DOMAIN Number(t) : \E j \in DOMAIN t : Number(t)[i] = t[j]
<1>1. PICK n \in Nat \ {0} : n = Len(t) /\ DOMAIN t = 1 .. n  OBVIOUS
<1>2. PICK B : B = {i \in DOMAIN t : t[i] # "0"}  OBVIOUS
<1>3. B \subseteq 1 .. n  BY <1>1, <1>2
<1>4. PICK k : k = Min({n} \union B)  OBVIOUS
<1>5. k \in {n} \union B /\ \A j \in {n} \union B : k <= j  BY <1>3, <1>4, FirstOf
<1>6. k \in 1 .. n  BY <1>3, <1>5
<1>7. Number(t) = SubSeq(t, k, n)  BY <1>1, <1>2, <1>4 DEF Number
<1>8. PICK u : u = Number(t)  OBVIOUS
<1>9. u \in Seq(Char) /\ Len(u) = n - k + 1 /\ \A i \in 1 .. n - k + 1 : u[i] = t[k + i - 1]
  BY <1>1, <1>6, <1>7, <1>8, PartOf
<1>10. ASSUME Len(t) = 1 \/ t[1] # "0" PROVE u = t
  <2>1. k = 1
    <3>1. CASE Len(t) = 1  BY <3>1, <1>1, <1>6
    <3>2. CASE t[1] # "0"
      <4>1. 1 \in B  BY <3>2, <1>1, <1>2
      <4> QED  BY <4>1, <1>5, <1>6
    <3> QED  BY <3>1, <3>2, <1>10
  <2> QED  BY <2>1, <1>1, <1>7, <1>8, AllOf
<1>11. Len(u) = 1 \/ u[1] # "0"
  <2>1. CASE k = n  BY <2>1, <1>6, <1>9
  <2>2. CASE k # n
    <3>1. t[k] # "0"  BY <2>2, <1>2, <1>5
    <3>2. u[1] = t[k]
      <4>1. 1 \in 1 .. n - k + 1 /\ k + 1 - 1 = k  BY <1>6
      <4> QED  BY <4>1, <1>9
    <3> QED  BY <3>1, <3>2
  <2> QED  BY <2>1, <2>2
<1>12. \A i \in DOMAIN u : k + i - 1 \in DOMAIN t /\ u[i] = t[k + i - 1]  BY <1>1, <1>6, <1>9
<1>13. u # <<>> /\ Len(u) <= Len(t)  BY <1>1, <1>6, <1>9
<1> QED  BY <1>8, <1>9, <1>10, <1>11, <1>12, <1>13

\* What split makes of a text without a separator, and what the first part of
\* any text begins with.
Split(t, b) ==
  b = [n \in 0 .. Len(t) |->
         IF n = 0 THEN << <<>> >>
         ELSE IF t[n] \in Bar THEN Append(b[n - 1], <<>>)
         ELSE [b[n - 1] EXCEPT ![Len(b[n - 1])] = Append(@, t[n])]]

LEMMA SplitByChars ==
  ASSUME NEW t
  PROVE  SplitBars(t) = (CHOOSE b : Split(t, b))[Len(t)]
BY DEF SplitBars, Split

Parts == Seq(Seq(Char)) \ {<<>>}

SplitOne(p, c) == IF c \in Bar THEN Append(p, <<>>) ELSE [p EXCEPT ![Len(p)] = Append(@, c)]

LEMMA SplitKeeps ==
  ASSUME NEW p \in Parts, NEW c \in Char
  PROVE  SplitOne(p, c) \in Parts
<1>1. PICK n \in Nat \ {0} : n = Len(p) /\ p \in Seq(Seq(Char))  BY DEF Parts
<1>2. <<>> \in Seq(Char)  OBVIOUS
<1>3. CASE c \in Bar
  <2>1. Append(p, <<>>) \in Seq(Seq(Char)) /\ Append(p, <<>>) # <<>>  BY <1>1, <1>2
  <2> QED  BY <2>1, <1>3 DEF SplitOne, Parts
<1>4. CASE c \notin Bar
  <2>1. p[n] \in Seq(Char)  BY <1>1
  <2>2. Append(p[n], c) \in Seq(Char)  BY <2>1
  <2>3. PICK q : q = [p EXCEPT ![n] = Append(p[n], c)]  OBVIOUS
  <2>4. q \in Seq(Seq(Char)) /\ Len(q) = n  BY <2>2, <2>3, <1>1, ExceptSeq
  <2>5. q # <<>>  BY <2>4
  <2> QED  BY <2>3, <2>4, <2>5, <1>1, <1>4 DEF SplitOne, Parts
<1> QED  BY <1>3, <1>4

LEMMA SplitExists ==
  ASSUME NEW t \in Seq(Char)
  PROVE  \E b : Split(t, b) /\ b \in [0 .. Len(t) -> Parts]
<1>1. PICK n \in Nat : n = Len(t) /\ DOMAIN t = 1 .. n  OBVIOUS
<1>2. PICK one : one = << <<>> >>  OBVIOUS
<1>3. one \in Parts
  <2>1. <<>> \in Seq(Char)  OBVIOUS
  <2>2. one \in Seq(Seq(Char)) /\ one # <<>>  BY <2>1, <1>2
  <2> QED  BY <2>2 DEF Parts
<1>4. PICK step : step = [k \in 1 .. n |-> [p \in Parts |-> SplitOne(p, t[k])]]  OBVIOUS
<1>5. step \in [1 .. n -> [Parts -> Parts]]
  <2>1. \A k \in 1 .. n : t[k] \in Char  BY <1>1
  <2>2. \A k \in 1 .. n, p \in Parts : SplitOne(p, t[k]) \in Parts  BY <2>1, SplitKeeps
  <2> QED  BY <2>2, <1>4
<1>6. Loops(Parts, one, n, step)  BY <1>3, <1>5, LoopEnds
<1>7. PICK b \in [0 .. n -> Parts] : b[0] = one /\ \A k \in 1 .. n : b[k] = step[k][b[k - 1]]
  BY <1>6 DEF Loops
<1>8. \A k \in 1 .. n : b[k] = SplitOne(b[k - 1], t[k])
  <2> TAKE k \in 1 .. n
  <2>1. k - 1 \in 0 .. n  OBVIOUS
  <2>2. b[k - 1] \in Parts  BY <2>1, <1>7
  <2> QED  BY <2>2, <1>4, <1>7
<1>9. b = [k \in 0 .. n |-> IF k = 0 THEN one ELSE SplitOne(b[k - 1], t[k])]
  <2>1. \A k \in 0 .. n : k # 0 => k \in 1 .. n  OBVIOUS
  <2>2. b = [k \in 0 .. n |-> b[k]]  BY <1>7
  <2>3. \A k \in 0 .. n : b[k] = IF k = 0 THEN one ELSE SplitOne(b[k - 1], t[k])
    BY <2>1, <1>7, <1>8
  <2> QED  BY <2>2, <2>3
<1>10. Split(t, b)  BY <1>1, <1>2, <1>9 DEF Split, SplitOne
<1> QED  BY <1>1, <1>7, <1>10

LEMMA SplitRuns ==
  ASSUME NEW t \in Seq(Char)
  PROVE  \E b \in [0 .. Len(t) -> Parts] :
           /\ SplitBars(t) = b[Len(t)] /\ b[0] = << <<>> >>
           /\ \A k \in 1 .. Len(t) : b[k] = SplitOne(b[k - 1], t[k])
<1>1. \E b : Split(t, b)  BY SplitExists
<1>2. PICK b : b = CHOOSE d : Split(t, d)  OBVIOUS
<1>3. Split(t, b)  BY <1>1, <1>2
<1>4. PICK n \in Nat : n = Len(t)  OBVIOUS
<1>5. SplitBars(t) = b[n]  BY <1>2, <1>4, SplitByChars
<1>6. b = [k \in 0 .. n |-> IF k = 0 THEN << <<>> >> ELSE SplitOne(b[k - 1], t[k])]
  BY <1>3, <1>4 DEF Split, SplitOne
<1>7. DOMAIN b = 0 .. n /\ b[0] = << <<>> >>  BY <1>4, <1>6
<1>8. \A k \in 1 .. n : b[k] = SplitOne(b[k - 1], t[k])
  <2> TAKE k \in 1 .. n
  <2>1. k \in 0 .. n /\ k # 0  OBVIOUS
  <2> QED  BY <2>1, <1>6
<1>9. \A k \in 0 .. n : b[k] \in Parts
  <2> DEFINE S == {k \in Nat : k <= n => b[k] \in Parts}
  <2>1. 0 \in S
    <3>1. <<>> \in Seq(Char)  OBVIOUS
    <3>2. << <<>> >> \in Seq(Seq(Char)) /\ << <<>> >> # <<>>  BY <3>1
    <3> QED  BY <3>2, <1>7 DEF Parts
  <2>2. ASSUME NEW k \in Nat, k \in S PROVE k + 1 \in S
    <3> SUFFICES ASSUME k + 1 <= n PROVE b[k + 1] \in Parts  OBVIOUS
    <3>1. b[k] \in Parts  BY <2>2, <1>4
    <3>2. k + 1 \in 1 .. n /\ (k + 1) - 1 = k  BY <1>4
    <3>3. t[k + 1] \in Char  BY <3>2, <1>4
    <3>4. b[k + 1] = SplitOne(b[k], t[k + 1])  BY <3>2, <1>8
    <3> QED  BY <3>1, <3>3, <3>4, SplitKeeps
  <2>3. Nat \subseteq S  BY <2>1, <2>2, SetInduction
  <2> QED  BY <2>3, <1>4
<1>10. b = [k \in 0 .. n |-> b[k]]  BY <1>6
<1>11. b \in [0 .. n -> Parts]  BY <1>9, <1>10
<1> QED  BY <1>4, <1>5, <1>7, <1>8, <1>11

LEMMA SplitTyped ==
  ASSUME NEW t \in Seq(Char)
  PROVE  SplitBars(t) \in Seq(Seq(Char)) /\ SplitBars(t) # <<>> /\ Len(SplitBars(t)) >= 1
<1>1. PICK b \in [0 .. Len(t) -> Parts] : SplitBars(t) = b[Len(t)]  BY SplitRuns
<1>2. Len(t) \in 0 .. Len(t)  OBVIOUS
<1>3. SplitBars(t) \in Parts  BY <1>1, <1>2
<1> QED  BY <1>3 DEF Parts

LEMMA SplitWhole ==
  ASSUME NEW t \in Seq(Char), \A i \in DOMAIN t : t[i] \notin Bar
  PROVE  SplitBars(t) = <<t>>
<1>1. PICK n \in Nat : n = Len(t) /\ DOMAIN t = 1 .. n  OBVIOUS
<1>2. PICK b \in [0 .. n -> Parts] :
        /\ SplitBars(t) = b[n] /\ b[0] = << <<>> >>
        /\ \A k \in 1 .. n : b[k] = SplitOne(b[k - 1], t[k])
  BY <1>1, SplitRuns
<1> DEFINE S == {k \in Nat : k <= n => b[k] = <<SubSeq(t, 1, k)>>}
<1>3. 0 \in S
  <2>1. SubSeq(t, 1, 0) = <<>>  OBVIOUS
  <2> QED  BY <2>1, <1>2
<1>4. ASSUME NEW k \in Nat, k \in S PROVE k + 1 \in S
  <2> SUFFICES ASSUME k + 1 <= n PROVE b[k + 1] = <<SubSeq(t, 1, k + 1)>>  OBVIOUS
  <2>1. PICK u \in Seq(Char) : u = SubSeq(t, 1, k)  BY <1>1, PartOf
  <2>2. b[k] = <<u>>  BY <2>1, <1>4
  <2>3. k + 1 \in 1 .. n /\ (k + 1) - 1 = k  OBVIOUS
  <2>4. b[k + 1] = SplitOne(<<u>>, t[k + 1])  BY <2>2, <2>3, <1>2
  <2>5. t[k + 1] \notin Bar  BY <2>3, <1>1
  <2>6. PICK v : v = Append(u, t[k + 1])  OBVIOUS
  <2>7. SplitOne(<<u>>, t[k + 1]) = <<v>>
    <3>1. PICK p : p = <<u>>  OBVIOUS
    <3>2. p \in Seq(Seq(Char)) /\ Len(p) = 1 /\ p[1] = u  BY <3>1
    <3>3. SplitOne(p, t[k + 1]) = [p EXCEPT ![1] = v]  BY <3>2, <2>5, <2>6 DEF SplitOne
    <3>4. [p EXCEPT ![1] = v] = <<v>>  BY <3>1
    <3> QED  BY <3>1, <3>3, <3>4
  <2>8. v = SubSeq(t, 1, k + 1)  BY <2>1, <2>3, <2>6, <1>1
  <2> QED  BY <2>4, <2>7, <2>8
<1>5. Nat \subseteq S  BY <1>3, <1>4, SetInduction
<1>6. b[n] = <<SubSeq(t, 1, n)>>  BY <1>5
<1> QED  BY <1>1, <1>2, <1>6, AllOf

LEMMA SplitBegins ==
  ASSUME NEW t \in Seq(Char), t # <<>>, t[1] \notin Bar
  PROVE  SplitBars(t)[1] # <<>> /\ SplitBars(t)[1][1] = t[1]
<1>1. PICK n \in Nat \ {0} : n = Len(t) /\ DOMAIN t = 1 .. n  OBVIOUS
<1>2. PICK b \in [0 .. n -> Parts] :
        /\ SplitBars(t) = b[n] /\ b[0] = << <<>> >>
        /\ \A k \in 1 .. n : b[k] = SplitOne(b[k - 1], t[k])
  BY <1>1, SplitRuns
<1> DEFINE S == {k \in Nat : k + 1 <= n => b[k + 1][1] # <<>> /\ b[k + 1][1][1] = t[1]}
<1>3. 0 \in S
  <2>1. PICK p : p = << <<>> >>  OBVIOUS
  <2>2. Len(p) = 1 /\ p[1] = <<>>  BY <2>1
  <2>3. PICK v : v = Append(<<>>, t[1])  OBVIOUS
  <2>4. v # <<>> /\ v[1] = t[1]  BY <2>3
  <2>5. b[1] = SplitOne(p, t[1])  BY <1>2, <2>1
  <2>6. SplitOne(p, t[1]) = [p EXCEPT ![1] = v]  BY <2>2, <2>3 DEF SplitOne
  <2>7. [p EXCEPT ![1] = v][1] = v  BY <2>1
  <2>8. b[1][1] # <<>> /\ b[1][1][1] = t[1]  BY <2>4, <2>5, <2>6, <2>7
  <2>9. 0 + 1 = 1  OBVIOUS
  <2> QED  BY <2>8, <2>9
<1>4. ASSUME NEW k \in Nat, k \in S PROVE k + 1 \in S
  <2> SUFFICES ASSUME k + 2 <= n PROVE b[k + 2][1] # <<>> /\ b[k + 2][1][1] = t[1]
    OBVIOUS
  <2>1. PICK p \in Parts : p = b[k + 1]  OBVIOUS
  <2>2. p[1] # <<>> /\ p[1][1] = t[1]  BY <2>1, <1>4
  <2>3. k + 2 \in 1 .. n /\ (k + 2) - 1 = k + 1  OBVIOUS
  <2>4. PICK c : c = t[k + 2]  OBVIOUS
  <2>5. b[k + 2] = SplitOne(p, c)  BY <2>1, <2>3, <2>4, <1>2
  <2>6. p \in Seq(Seq(Char)) /\ Len(p) \in Nat \ {0} /\ 1 \in 1 .. Len(p)  BY DEF Parts
  <2>7. p[1] \in Seq(Char)  BY <2>6
  <2>8. c \in Char  BY <2>3, <2>4, <1>1
  <2>9. SplitOne(p, c)[1] = p[1] \/ SplitOne(p, c)[1] = Append(p[1], c)
    <3>1. CASE c \in Bar
      <4>1. Append(p, <<>>)[1] = p[1]  BY <2>6
      <4> QED  BY <3>1, <4>1 DEF SplitOne
    <3>2. CASE c \notin Bar
      <4>1. PICK m : m = Len(p)  OBVIOUS
      <4>2. SplitOne(p, c) = [p EXCEPT ![m] = Append(p[m], c)]  BY <3>2, <4>1 DEF SplitOne
      <4>3. CASE m = 1  BY <4>1, <4>2, <4>3, <2>6
      <4>4. CASE m # 1  BY <4>1, <4>2, <4>4, <2>6
      <4> QED  BY <4>3, <4>4
    <3> QED  BY <3>1, <3>2
  <2>10. Append(p[1], c) # <<>> /\ Append(p[1], c)[1] = p[1][1]  BY <2>2, <2>7, <2>8
  <2> QED  BY <2>2, <2>5, <2>9, <2>10
<1>5. Nat \subseteq S  BY <1>3, <1>4, SetInduction
<1>6. n - 1 \in Nat /\ (n - 1) + 1 = n  OBVIOUS
<1>7. n - 1 \in S  BY <1>5, <1>6
<1>8. b[n][1] # <<>> /\ b[n][1][1] = t[1]  BY <1>6, <1>7
<1> QED  BY <1>2, <1>8

\* Texts one behind the other.
Flat(s, b) == b = [i \in 1 .. Len(s) |-> IF i = 1 THEN s[i] ELSE b[i - 1] \o s[i]]

LEMMA FlattenByTexts ==
  ASSUME NEW s
  PROVE  FlattenSeq(s) = IF Len(s) = 0 THEN s ELSE (CHOOSE b : Flat(s, b))[Len(s)]
BY DEF FlattenSeq, Flat

LEMMA FlatExists ==
  ASSUME NEW S, NEW s \in Seq(Seq(S))
  PROVE  \E b : Flat(s, b)
<1>1. PICK n \in Nat : n = Len(s) /\ DOMAIN s = 1 .. n  OBVIOUS
<1>2. PICK step : step = [k \in 1 .. n |-> [p \in Seq(S) |-> p \o s[k]]]  OBVIOUS
<1>3. step \in [1 .. n -> [Seq(S) -> Seq(S)]]
  <2>1. \A k \in 1 .. n : s[k] \in Seq(S)  BY <1>1
  <2>2. \A k \in 1 .. n, p \in Seq(S) : p \o s[k] \in Seq(S)  BY <2>1
  <2> QED  BY <2>2, <1>2
<1>4. <<>> \in Seq(S)  OBVIOUS
<1>5. Loops(Seq(S), <<>>, n, step)  BY <1>3, <1>4, LoopEnds
<1>6. PICK d \in [0 .. n -> Seq(S)] : d[0] = <<>> /\ \A k \in 1 .. n : d[k] = step[k][d[k - 1]]
  BY <1>5 DEF Loops
<1>7. \A k \in 1 .. n : d[k] = d[k - 1] \o s[k] /\ d[k - 1] \in Seq(S)
  <2> TAKE k \in 1 .. n
  <2>1. k - 1 \in 0 .. n  OBVIOUS
  <2>2. d[k - 1] \in Seq(S)  BY <2>1, <1>6
  <2> QED  BY <2>2, <1>2, <1>6
<1>8. PICK b : b = [i \in 1 .. n |-> d[i]]  OBVIOUS
<1>9. \A i \in 1 .. n : b[i] = IF i = 1 THEN s[i] ELSE b[i - 1] \o s[i]
  <2> TAKE i \in 1 .. n
  <2>1. b[i] = d[i - 1] \o s[i]  BY <1>7, <1>8
  <2>2. CASE i = 1
    <3>1. d[i - 1] = <<>>  BY <2>2, <1>6
    <3>2. s[i] \in Seq(S)  BY <1>1
    <3>3. <<>> \o s[i] = s[i]  BY <3>2
    <3> QED  BY <2>1, <2>2, <3>1, <3>3
  <2>3. CASE i # 1
    <3>1. i - 1 \in 1 .. n  BY <2>3
    <3>2. b[i - 1] = d[i - 1]  BY <3>1, <1>8
    <3> QED  BY <2>1, <2>3, <3>2
  <2> QED  BY <2>2, <2>3
<1>10. b = [i \in 1 .. n |-> IF i = 1 THEN s[i] ELSE b[i - 1] \o s[i]]
  <2>1. b = [i \in 1 .. n |-> b[i]]  BY <1>8
  <2> QED  BY <2>1, <1>9
<1> QED  BY <1>1, <1>10 DEF Flat

Follows(s, n, b) == b[1] = s[1] /\ \A i \in 2 .. n : b[i] = b[i - 1] \o s[i]

LEMMA FlattenRuns ==
  ASSUME NEW S, NEW s \in Seq(Seq(S)), s # <<>>
  PROVE  \E b \in [1 .. Len(s) -> Seq(S)] :
           FlattenSeq(s) = b[Len(s)] /\ Follows(s, Len(s), b)
<1>1. PICK n \in Nat \ {0} : n = Len(s) /\ DOMAIN s = 1 .. n  OBVIOUS
<1>2. \E b : Flat(s, b)  BY FlatExists
<1>3. PICK b : b = CHOOSE d : Flat(s, d)  OBVIOUS
<1>4. Flat(s, b)  BY <1>2, <1>3
<1>5. b = [i \in 1 .. n |-> IF i = 1 THEN s[i] ELSE b[i - 1] \o s[i]]  BY <1>1, <1>4 DEF Flat
<1>6. FlattenSeq(s) = b[n]
  <2>1. Len(s) # 0  BY <1>1
  <2> QED  BY <2>1, <1>1, <1>3, FlattenByTexts
<1>7. b[1] = s[1]
  <2>1. 1 \in 1 .. n  OBVIOUS
  <2> QED  BY <2>1, <1>5
<1>8. \A i \in 2 .. n : b[i] = b[i - 1] \o s[i]
  <2> TAKE i \in 2 .. n
  <2>1. i \in 1 .. n /\ i # 1  OBVIOUS
  <2> QED  BY <2>1, <1>5
<1>9. \A i \in 1 .. n : b[i] \in Seq(S)
  <2> DEFINE A == {k \in Nat : k + 1 <= n => b[k + 1] \in Seq(S)}
  <2>1. 0 \in A
    <3>1. s[1] \in Seq(S)  BY <1>1
    <3>2. b[0 + 1] \in Seq(S)  BY <3>1, <1>7
    <3> QED  BY <3>2
  <2>2. ASSUME NEW k \in Nat, k \in A PROVE k + 1 \in A
    <3> SUFFICES ASSUME k + 2 <= n PROVE b[k + 2] \in Seq(S)  OBVIOUS
    <3>1. b[k + 1] \in Seq(S)  BY <2>2
    <3>2. k + 2 \in 2 .. n /\ (k + 2) - 1 = k + 1 /\ k + 2 \in 1 .. n  OBVIOUS
    <3>3. s[k + 2] \in Seq(S)  BY <3>2, <1>1
    <3>4. b[k + 2] = b[k + 1] \o s[k + 2]  BY <3>2, <1>8
    <3> QED  BY <3>1, <3>3, <3>4
  <2>3. Nat \subseteq A  BY <2>1, <2>2, SetInduction
  <2> TAKE i \in 1 .. n
  <2>4. i - 1 \in Nat /\ (i - 1) + 1 = i /\ i <= n  OBVIOUS
  <2>5. i - 1 \in A  BY <2>3, <2>4
  <2> QED  BY <2>4, <2>5
<1>10. b = [i \in 1 .. n |-> b[i]]  BY <1>5
<1>11. b \in [1 .. n -> Seq(S)]  BY <1>9, <1>10
<1>12. Follows(s, n, b)  BY <1>7, <1>8 DEF Follows
<1> QED  BY <1>1, <1>6, <1>11, <1>12

LEMMA FlattenTyped ==
  ASSUME NEW S, NEW s \in Seq(Seq(S))
  PROVE  FlattenSeq(s) \in Seq(S)
<1>1. CASE s = <<>>
  <2>1. FlattenSeq(s) = s  BY <1>1, FlattenByTexts
  <2> QED  BY <2>1, <1>1
<1>2. CASE s # <<>>
  <2>1. PICK b \in [1 .. Len(s) -> Seq(S)] : FlattenSeq(s) = b[Len(s)]  BY <1>2, FlattenRuns
  <2>2. Len(s) \in 1 .. Len(s)  BY <1>2
  <2> QED  BY <2>1, <2>2
<1> QED  BY <1>1, <1>2

\* Behind m - 1 texts of one element each, the next begins at m and stays
\* there, whatever follows.
Singles(s, m) == \A i \in 1 .. m : Len(s[i]) = 1

Run(S, n, s, b) ==
  /\ n \in Nat \ {0} /\ s \in [1 .. n -> Seq(S)] /\ b \in [1 .. n -> Seq(S)]
  /\ Follows(s, n, b)

LEMMA SinglesBehind ==
  ASSUME NEW S, NEW n, NEW s, NEW b, Run(S, n, s, b), NEW m \in 0 .. n, Singles(s, m)
  PROVE  \A i \in 1 .. m : Len(b[i]) = i
<1>0. /\ n \in Nat \ {0} /\ s \in [1 .. n -> Seq(S)] /\ b \in [1 .. n -> Seq(S)]
      /\ Follows(s, n, b)
  BY DEF Run
<1> DEFINE A == {k \in Nat : k + 1 <= m => Len(b[k + 1]) = k + 1}
<1>1. 0 \in A
  <2> SUFFICES ASSUME 1 <= m PROVE Len(b[1]) = 1  BY <1>0
  <2>1. Len(s[1]) = 1  BY <1>0 DEF Singles
  <2> QED  BY <1>0, <2>1 DEF Follows
<1>2. ASSUME NEW k \in Nat, k \in A PROVE k + 1 \in A
  <2> SUFFICES ASSUME k + 2 <= m PROVE Len(b[k + 2]) = k + 2  BY <1>0
  <2>1. Len(b[k + 1]) = k + 1  BY <1>0, <1>2
  <2>2. k + 2 \in 2 .. n /\ (k + 2) - 1 = k + 1 /\ k + 1 \in 1 .. n /\ k + 2 \in 1 .. m
    BY <1>0
  <2>3. b[k + 2] = b[k + 1] \o s[k + 2]  BY <1>0, <2>2 DEF Follows
  <2>4. Len(s[k + 2]) = 1  BY <1>0, <2>2 DEF Singles
  <2>5. s[k + 2] \in Seq(S) /\ b[k + 1] \in Seq(S)  BY <1>0, <2>2
  <2>6. PICK a \in Seq(S), c \in Seq(S) : a = b[k + 1] /\ c = s[k + 2]  BY <2>5
  <2>7. Len(a \o c) = Len(a) + Len(c)  BY BehindIs
  <2>8. Len(b[k + 2]) = (k + 1) + 1  BY <2>1, <2>3, <2>4, <2>6, <2>7
  <2> QED  BY <2>8
<1>3. Nat \subseteq A  BY <1>0, <1>1, <1>2, SetInduction
<1> TAKE i \in 1 .. m
<1>4. i - 1 \in Nat /\ (i - 1) + 1 = i /\ i <= m  BY <1>0
<1>5. i - 1 \in A  BY <1>0, <1>3, <1>4
<1> QED  BY <1>0, <1>4, <1>5

LEMMA BeginsAt ==
  ASSUME NEW S, NEW n, NEW s, NEW b, Run(S, n, s, b), NEW m \in 1 .. n,
         Singles(s, m - 1), s[m] # <<>>
  PROVE  m \in 1 .. Len(b[m]) /\ b[m][m] = s[m][1]
<1>0. /\ n \in Nat \ {0} /\ s \in [1 .. n -> Seq(S)] /\ b \in [1 .. n -> Seq(S)]
      /\ Follows(s, n, b)
  BY DEF Run
<1>1. PICK c \in Seq(S) : c = s[m]  BY <1>0
<1>2. PICK q \in Nat \ {0} : q = Len(c)  BY <1>0, <1>1
<1>3. 1 \in 1 .. q  BY <1>0, <1>2
<1>4. CASE m = 1  BY <1>0, <1>1, <1>2, <1>3, <1>4 DEF Follows
<1>5. CASE m # 1
  <2>1. m \in 2 .. n /\ m - 1 \in 0 .. n /\ m - 1 \in 1 .. m - 1 /\ m - 1 \in 1 .. n
    BY <1>0, <1>5
  <2>2. Len(b[m - 1]) = m - 1
    <3>1. \A i \in 1 .. m - 1 : Len(b[i]) = i  BY <2>1, SinglesBehind
    <3> QED  BY <2>1, <3>1
  <2>3. PICK a \in Seq(S) : a = b[m - 1]  BY <1>0, <2>1
  <2>4. b[m] = a \o c  BY <1>0, <2>1, <2>3, <1>1 DEF Follows
  <2>8. Len(a \o c) = Len(a) + Len(c) /\ \A i \in 1 .. Len(c) : (a \o c)[Len(a) + i] = c[i]
    BY BehindIs
  <2>9. Len(a) = m - 1 /\ Len(c) = q  BY <2>2, <2>3, <1>2
  <2>5. Len(a \o c) = (m - 1) + q  BY <2>8, <2>9
  <2>6. (a \o c)[(m - 1) + 1] = c[1]  BY <2>8, <2>9, <1>3
  <2>7. (m - 1) + 1 = m /\ m \in 1 .. (m - 1) + q  BY <1>0, <1>2
  <2> QED  BY <1>0, <2>4, <2>5, <2>6, <2>7, <1>1
<1> QED  BY <1>0, <1>4, <1>5

LEMMA StaysAt ==
  ASSUME NEW S, NEW n, NEW s, NEW b, Run(S, n, s, b), NEW m \in 1 .. n,
         m \in 1 .. Len(b[m])
  PROVE  m \in 1 .. Len(b[n]) /\ b[n][m] = b[m][m]
<1>0. /\ n \in Nat \ {0} /\ s \in [1 .. n -> Seq(S)] /\ b \in [1 .. n -> Seq(S)]
      /\ Follows(s, n, b)
  BY DEF Run
<1> DEFINE A == {k \in Nat : m + k <= n => m \in 1 .. Len(b[m + k]) /\ b[m + k][m] = b[m][m]}
<1>1. 0 \in A
  <2>1. m + 0 = m  BY <1>0
  <2> QED  BY <1>0, <2>1
<1>2. ASSUME NEW k \in Nat, k \in A PROVE k + 1 \in A
  <2> SUFFICES ASSUME m + (k + 1) <= n
               PROVE  m \in 1 .. Len(b[m + (k + 1)]) /\ b[m + (k + 1)][m] = b[m][m]
    BY <1>0
  <2>1. m \in 1 .. Len(b[m + k]) /\ b[m + k][m] = b[m][m]  BY <1>0, <1>2
  <2>2. /\ m + (k + 1) \in 2 .. n /\ m + (k + 1) \in 1 .. n
        /\ (m + (k + 1)) - 1 = m + k /\ m + k \in 1 .. n
    BY <1>0
  <2>3. b[m + (k + 1)] = b[m + k] \o s[m + (k + 1)]  BY <1>0, <2>2 DEF Follows
  <2>4. PICK a \in Seq(S) : a = b[m + k]  BY <1>0, <2>2
  <2>5. PICK c \in Seq(S) : c = s[m + (k + 1)]  BY <1>0, <2>2
  <2>6. PICK x \in Nat, y \in Nat : x = Len(a) /\ y = Len(c)  BY <1>0
  <2>7. m \in 1 .. x  BY <1>0, <2>1, <2>4, <2>6
  <2>8. Len(a \o c) = x + y /\ (a \o c)[m] = a[m]  BY <2>6, <2>7, BehindIs
  <2>9. m \in 1 .. x + y  BY <1>0, <2>6, <2>7
  <2> QED  BY <1>0, <2>1, <2>3, <2>4, <2>5, <2>8, <2>9
<1>3. Nat \subseteq A  BY <1>0, <1>1, <1>2, SetInduction
<1>4. n - m \in Nat /\ m + (n - m) = n /\ n <= n  BY <1>0
<1>5. n - m \in A  BY <1>0, <1>3, <1>4
<1> QED  BY <1>0, <1>4, <1>5

Placed(f, s, m) == m \in 1 .. Len(f) /\ f[m] = s[m][1]

LEMMA PlacedBehind ==
  ASSUME NEW S, NEW n, NEW s, NEW b, Run(S, n, s, b), NEW m \in 1 .. n,
         Singles(s, m - 1), s[m] # <<>>
  PROVE  Placed(b[n], s, m)
<1>1. m \in 1 .. Len(b[m]) /\ b[m][m] = s[m][1]  BY BeginsAt
<1>2. m \in 1 .. Len(b[n]) /\ b[n][m] = b[m][m]  BY <1>1, StaysAt
<1> QED  BY <1>1, <1>2 DEF Placed

LEMMA FlattenPlace ==
  ASSUME NEW S, NEW s \in Seq(Seq(S)), NEW m, m \in 1 .. Len(s), s[m] # <<>>,
         Singles(s, m - 1)
  PROVE  Placed(FlattenSeq(s), s, m)
<1>1. PICK n \in Nat \ {0} : n = Len(s) /\ s \in [1 .. n -> Seq(S)] /\ s # <<>>  OBVIOUS
<1>2. PICK b \in [1 .. n -> Seq(S)] : FlattenSeq(s) = b[n] /\ Follows(s, n, b)
  BY <1>1, FlattenRuns
<1>3. m \in 1 .. n  BY <1>1
<1>4. Run(S, n, s, b)  BY <1>1, <1>2 DEF Run
<1>5. Placed(b[n], s, m)  BY <1>3, <1>4, PlacedBehind
<1> QED  BY <1>2, <1>5

LEMMA FlattenSingles ==
  ASSUME NEW S, NEW n \in Nat, NEW q \in [1 .. n -> S]
  PROVE  FlattenSeq([i \in 1 .. n |-> <<q[i]>>]) = q
<1>1. PICK s : s = [i \in 1 .. n |-> <<q[i]>>]  OBVIOUS
<1>2. \A i \in 1 .. n : s[i] = <<q[i]>> /\ s[i] \in Seq(S) /\ Len(s[i]) = 1 /\ s[i][1] = q[i]
  BY <1>1
<1>3. s \in [1 .. n -> Seq(S)]  BY <1>1, <1>2
<1>4. s \in Seq(Seq(S)) /\ Len(s) = n  BY <1>3
<1>5. q \in Seq(S) /\ Len(q) = n  OBVIOUS
<1>6. CASE n = 0
  <2>1. s = <<>> /\ q = <<>>  BY <1>4, <1>5, <1>6
  <2>2. FlattenSeq(s) = s  BY <1>4, <1>6, FlattenByTexts
  <2> QED  BY <2>1, <2>2, <1>1
<1>7. CASE n # 0
  <2>1. n \in Nat \ {0} /\ s # <<>>  BY <1>4, <1>7
  <2>2. \E b \in [1 .. Len(s) -> Seq(S)] : FlattenSeq(s) = b[Len(s)] /\ Follows(s, Len(s), b)
    BY <2>1, <1>4, FlattenRuns
  <2>3. PICK b \in [1 .. n -> Seq(S)] : FlattenSeq(s) = b[n] /\ Follows(s, n, b)
    BY <2>2, <1>4
  <2>4. Singles(s, n)  BY <1>2 DEF Singles
  <2>5. Len(b[n]) = n
    <3>1. n \in 0 .. n /\ n \in 1 .. n  BY <2>1
    <3>2. Run(S, n, s, b)  BY <2>1, <2>3, <1>3 DEF Run
    <3>3. \A i \in 1 .. n : Len(b[i]) = i  BY <3>1, <3>2, <2>4, SinglesBehind
    <3> QED  BY <3>1, <3>3
  <2>6. PICK f \in Seq(S) : f = FlattenSeq(s) /\ Len(f) = n  BY <2>1, <2>3, <2>5
  <2>7. ASSUME NEW m \in 1 .. n PROVE f[m] = q[m]
    <3>1. Singles(s, m - 1)  BY <1>2 DEF Singles
    <3>2. s[m] # <<>> /\ m \in 1 .. Len(s)  BY <1>2, <1>4
    <3>3. Placed(FlattenSeq(s), s, m)  BY <3>1, <3>2, <1>4, FlattenPlace
    <3> QED  BY <3>3, <2>6, <1>2 DEF Placed
  <2>8. f = q  BY <2>6, <2>7, <1>5
  <2> QED  BY <2>6, <2>8, <1>1
<1> QED  BY <1>6, <1>7

\* What a field that is no template is written as, and what of it is written
\* again as it is.
Bare(field, raw) ==
  IF field # Num THEN TrimEnd(raw)
  ELSE IF Trim(raw) = <<>> THEN <<"0">> ELSE Number(Trim(raw))

Braced(field, raw) == field = Num /\ Trim(raw) # <<>> /\ Trim(raw)[1] \in Brace

NoBar(t) == \A i \in DOMAIN t : t[i] \notin Bar

Stands(field, part) ==
  /\ part \in Seq(Char)
  /\ IF field = Num THEN IsNumber(part) /\ Number(part) = part
     ELSE TrimEnd(part) = part /\ NoBar(part)

LEMMA NumberStands ==
  ASSUME NEW t \in Seq(Char), IsNumber(t)
  PROVE  Stands(Num, Number(t))
<1>1. t # <<>> /\ (\A i \in DOMAIN t : Digit(t[i])) /\ Len(Number(t)) <= NumDigits
  BY DEF IsNumber
<1>2. PICK u : u = Number(t)  OBVIOUS
<1>3. /\ u \in Seq(Char) /\ u # <<>> /\ (Len(u) = 1 \/ u[1] # "0")
      /\ \A i \in DOMAIN u : \E j \in DOMAIN t : u[i] = t[j]
  BY <1>1, <1>2, NumberIs
<1>4. Number(u) = u  BY <1>3, NumberIs
<1>5. \A i \in DOMAIN u : Digit(u[i])  BY <1>1, <1>3
<1>6. IsNumber(u)  BY <1>1, <1>2, <1>3, <1>4, <1>5 DEF IsNumber
<1> QED  BY <1>2, <1>3, <1>4, <1>6 DEF Stands

LEMMA ZeroIs ==
  \A t : t = <<"0">> => /\ t \in Seq(Char) /\ Len(t) = 1 /\ t[1] = "0"
                        /\ t # <<>> /\ DOMAIN t = {1} /\ \A i \in DOMAIN t : t[i] = "0"
<1> TAKE t
<1> HAVE t = <<"0">>
<1>1. "0" \in Char  BY DEF Char
<1>2. t \in Seq(Char)  BY <1>1
<1> QED  BY <1>2

LEMMA ZeroStands ==
  ASSUME NumDigits \in Nat \ {0}
  PROVE  Stands(Num, <<"0">>)
<1>1. PICK t : t = <<"0">>  OBVIOUS
<1>2. t \in Seq(Char) /\ Len(t) = 1 /\ t[1] = "0" /\ t # <<>> /\ DOMAIN t = {1}
  BY <1>1, ZeroIs
<1>3. Number(t) = t  BY <1>2, NumberIs
<1>4. \A i \in DOMAIN t : Digit(t[i])  BY <1>2 DEF Digit
<1>5. IsNumber(t)  BY <1>2, <1>3, <1>4 DEF IsNumber
<1> QED  BY <1>1, <1>2, <1>3, <1>5 DEF Stands

LEMMA WrittenBare ==
  ASSUME NumDigits \in Nat \ {0}, NEW field, NEW raw \in Seq(Char), Composes(field, raw),
         ~Braced(field, raw)
  PROVE  Written(field, raw) = <<Bare(field, raw)>> /\ Stands(field, Bare(field, raw))
<1>1. CASE field = Num
  <2>1. PICK t \in Seq(Char) : t = Trim(raw)  BY TrimIs
  <2>2. CASE t = <<>>
    <3>1. Bare(field, raw) = <<"0">> /\ Written(field, raw) = << <<"0">> >>
      BY <1>1, <2>1, <2>2 DEF Bare, Written
    <3> QED  BY <3>1, <1>1, ZeroStands
  <2>3. CASE t # <<>>
    <3>1. t[1] \notin Brace  BY <1>1, <2>1, <2>3 DEF Braced
    <3>2. IsNumber(t)  BY <1>1, <2>1, <2>3, <3>1 DEF Composes
    <3>3. Bare(field, raw) = Number(t) /\ Written(field, raw) = <<Number(t)>>
      BY <1>1, <2>1, <2>3, <3>1 DEF Bare, Written
    <3> QED  BY <3>2, <3>3, <1>1, NumberStands
  <2> QED  BY <2>2, <2>3
<1>2. CASE field # Num
  <2>1. PICK u : u = TrimEnd(raw)  OBVIOUS
  <2>2. /\ u \in Seq(Char) /\ TrimEnd(u) = u
        /\ \A i \in DOMAIN u : \E j \in DOMAIN raw : u[i] = raw[j]
    BY <2>1, TrimmedEnd
  <2>3. ~Has(raw, Bar)  BY <1>2 DEF Composes
  <2>4. \A j \in DOMAIN raw : raw[j] \notin Bar  BY <2>3 DEF Has, Range
  <2>5. \A i \in DOMAIN u : u[i] \notin Bar  BY <2>2, <2>4
  <2>6. SplitBars(u) = <<u>>  BY <2>2, <2>5, SplitWhole
  <2>7. Bare(field, raw) = u /\ Written(field, raw) = <<u>>
    BY <1>2, <2>1, <2>6 DEF Bare, Written
  <2> QED  BY <1>2, <2>2, <2>5, <2>7 DEF Stands, NoBar
<1> QED  BY <1>1, <1>2

LEMMA StandsWritten ==
  ASSUME NEW field, NEW part, Stands(field, part)
  PROVE  Written(field, part) = <<part>>
<1>0. part \in Seq(Char)  BY DEF Stands
<1>1. CASE field = Num
  <2>1. IsNumber(part) /\ Number(part) = part  BY <1>1 DEF Stands
  <2>2. part # <<>> /\ \A i \in DOMAIN part : Digit(part[i])  BY <2>1 DEF IsNumber
  <2>3. \A i \in DOMAIN part : ~Blank(part[i]) /\ part[i] \notin Brace
    BY <2>2 DEF Digit, Blank, Brace
  <2>4. Trim(part) = part  BY <2>3, <1>0, TrimIs
  <2>5. 1 \in DOMAIN part  BY <2>2, <1>0
  <2>6. part[1] \notin Brace  BY <2>3, <2>5
  <2> QED  BY <1>1, <2>1, <2>2, <2>4, <2>6 DEF Written
<1>2. CASE field # Num
  <2>1. TrimEnd(part) = part /\ NoBar(part)  BY <1>2 DEF Stands
  <2>2. SplitBars(part) = <<part>>  BY <2>1, <1>0, SplitWhole DEF NoBar
  <2> QED  BY <1>2, <2>1, <2>2 DEF Written
<1> QED  BY <1>1, <1>2

\* Trailing separators are dropped: the parts behind are empty.
LEMMA DropIs ==
  ASSUME NEW S, NEW q \in Seq(Seq(S))
  PROVE  \E k \in 0 .. Len(q) : /\ DropEmptyTail(q) = SubSeq(q, 1, k)
                                /\ \A j \in k + 1 .. Len(q) : q[j] = <<>>
<1>1. PICK n \in Nat : n = Len(q) /\ DOMAIN q = 1 .. n  OBVIOUS
<1>2. PICK B : B = {i \in DOMAIN q : q[i] # <<>>}  OBVIOUS
<1>3. B \subseteq 1 .. n  BY <1>1, <1>2
<1>4. PICK k \in 0 .. n : k = Max({0} \union B) /\ \A j \in B : j <= k
  BY <1>3, LastOf
<1>5. DropEmptyTail(q) = SubSeq(q, 1, k)  BY <1>2, <1>4 DEF DropEmptyTail
<1>6. \A j \in k + 1 .. n : q[j] = <<>>
  <2> TAKE j \in k + 1 .. n
  <2>1. j \in 1 .. n /\ ~(j <= k)  OBVIOUS
  <2>2. j \notin B  BY <2>1, <1>4
  <2> QED  BY <2>1, <2>2, <1>1, <1>2
<1> QED  BY <1>1, <1>5, <1>6

LEMMA DropTyped ==
  ASSUME NEW S, NEW q \in Seq(Seq(S))
  PROVE  DropEmptyTail(q) \in Seq(Seq(S))
<1>1. PICK k \in 0 .. Len(q) : DropEmptyTail(q) = SubSeq(q, 1, k)  BY DropIs
<1>2. 1 <= k + 1  OBVIOUS
<1> QED  BY <1>1, <1>2, PartOf

\* A frame whose fields are a part each.
FrameOf(l, parts) == [layout |-> l, parts |-> parts]

Writes(l, vals, q) ==
  /\ q \in Seq(Seq(Char)) /\ Len(q) = Len(LAYOUTS[l])
  /\ \A i \in 1 .. Len(q) : Written(LAYOUTS[l][i], vals[i]) = <<q[i]>>

LEMMA ComposeBare ==
  ASSUME ScreenAssumption, NEW l \in DOMAIN LAYOUTS, NEW vals, NEW q, Writes(l, vals, q)
  PROVE  Compose(l, vals) = FrameOf(l, DropEmptyTail(q))
<1>1. LAYOUTS[l] \in Seq(Nat \union {Num})  BY DEF ScreenAssumption
<1>2. PICK n \in Nat : n = Len(LAYOUTS[l]) /\ DOMAIN LAYOUTS[l] = 1 .. n  BY <1>1
<1>3. q \in Seq(Seq(Char)) /\ Len(q) = n  BY <1>2 DEF Writes
<1>4. q \in [1 .. n -> Seq(Char)]  BY <1>3
<1>5. [i \in DOMAIN LAYOUTS[l] |-> Written(LAYOUTS[l][i], vals[i])] = [i \in 1 .. n |-> <<q[i]>>]
  BY <1>2, <1>3 DEF Writes
<1>6. FlattenSeq([i \in 1 .. n |-> <<q[i]>>]) = q  BY <1>2, <1>4, FlattenSingles
<1> QED  BY <1>5, <1>6 DEF Compose, FrameOf

LEMMA ParseBack ==
  ASSUME ScreenAssumption, NEW l \in DOMAIN LAYOUTS, NEW q \in Seq(Seq(Char)),
         Len(q) = Len(LAYOUTS[l])
  PROVE  Parse(FrameOf(l, DropEmptyTail(q))) = q
<1>1. LAYOUTS[l] \in Seq(Nat \union {Num})  BY DEF ScreenAssumption
<1>2. PICK n \in Nat : n = Len(q) /\ DOMAIN LAYOUTS[l] = 1 .. n  BY <1>1
<1>3. PICK k \in 0 .. n : /\ DropEmptyTail(q) = SubSeq(q, 1, k)
                          /\ \A j \in k + 1 .. n : q[j] = <<>>
  BY <1>2, DropIs
<1>4. PICK p : p = DropEmptyTail(q)  OBVIOUS
<1>5. DOMAIN p = 1 .. k /\ \A i \in 1 .. k : p[i] = q[i]
  <2>1. k - 1 + 1 = k /\ (\A i \in 1 .. k : 1 + i - 1 = i) /\ 1 <= k + 1  OBVIOUS
  <2>2. p \in Seq(Seq(Char)) /\ Len(p) = k /\ \A i \in 1 .. k : p[i] = q[i]
    BY <1>2, <1>3, <1>4, <2>1, PartOf
  <2> QED  BY <2>2
<1>6. \A i \in 1 .. n : (IF i \in DOMAIN p THEN p[i] ELSE <<>>) = q[i]
  <2> TAKE i \in 1 .. n
  <2>1. CASE i \in 1 .. k  BY <2>1, <1>5
  <2>2. CASE i \notin 1 .. k
    <3>1. i \in k + 1 .. n  BY <2>2, <1>2
    <3> QED  BY <2>2, <3>1, <1>3, <1>5
  <2> QED  BY <2>1, <2>2
<1>7. Parse(FrameOf(l, p)) = [i \in 1 .. n |-> IF i \in DOMAIN p THEN p[i] ELSE <<>>]
  BY <1>2 DEF Parse, FrameOf
<1>8. q = [i \in 1 .. n |-> q[i]]  BY <1>2
<1> QED  BY <1>4, <1>6, <1>7, <1>8

\* What was written is read back, and written as it was.
Standing(l, q) == \A i \in 1 .. Len(q) : Stands(LAYOUTS[l][i], q[i])

LEMMA ReadBack ==
  ASSUME ScreenAssumption, NEW l \in DOMAIN LAYOUTS, NEW vals, NEW q, Writes(l, vals, q),
         Standing(l, q)
  PROVE  /\ Parse(Compose(l, vals)) = q
         /\ Compose(l, Parse(Compose(l, vals))) = Compose(l, vals)
<1>1. Compose(l, vals) = FrameOf(l, DropEmptyTail(q))  BY ComposeBare
<1>2. q \in Seq(Seq(Char)) /\ Len(q) = Len(LAYOUTS[l])  BY DEF Writes
<1>3. Parse(Compose(l, vals)) = q  BY <1>1, <1>2, ParseBack
<1>4. \A i \in 1 .. Len(q) : Written(LAYOUTS[l][i], q[i]) = <<q[i]>>
  BY StandsWritten DEF Standing
<1>5. Writes(l, q, q)  BY <1>2, <1>4 DEF Writes
<1>6. Compose(l, q) = FrameOf(l, DropEmptyTail(q))  BY <1>5, ComposeBare
<1> QED  BY <1>1, <1>3, <1>6

\* A design is a text for each field of a layout.
Design(l, vals) ==
  l \in DOMAIN LAYOUTS /\ vals \in Seq(Seq(Char)) /\ Len(vals) = Len(LAYOUTS[l])

LEMMA LayoutIs ==
  ASSUME ScreenAssumption, NEW l \in DOMAIN LAYOUTS
  PROVE  /\ LAYOUTS[l] \in Seq(Nat \union {Num}) /\ Len(LAYOUTS[l]) \in Nat
         /\ DOMAIN LAYOUTS[l] = 1 .. Len(LAYOUTS[l])
<1>1. LAYOUTS[l] \in Seq(Nat \union {Num})  BY DEF ScreenAssumption
<1> QED  BY <1>1

LEMMA BareFrame ==
  ASSUME ScreenAssumption, NEW l, NEW vals, Design(l, vals), CanCompose(l, vals),
         \A i \in 1 .. Len(vals) : ~Braced(LAYOUTS[l][i], vals[i])
  PROVE  \E q : /\ Writes(l, vals, q) /\ Standing(l, q)
                /\ \A i \in 1 .. Len(q) : q[i] = Bare(LAYOUTS[l][i], vals[i])
<1>1. PICK n \in Nat : n = Len(vals) /\ n = Len(LAYOUTS[l]) /\ DOMAIN LAYOUTS[l] = 1 .. n
  BY LayoutIs DEF Design
<1>2. NumDigits \in Nat \ {0}  BY DEF ScreenAssumption
<1>3. \A i \in 1 .. n : vals[i] \in Seq(Char) /\ Composes(LAYOUTS[l][i], vals[i])
  BY <1>1 DEF Design, CanCompose
<1>4. \A i \in 1 .. n : ~Braced(LAYOUTS[l][i], vals[i])  BY <1>1
<1>5. PICK q : q = [i \in 1 .. n |-> Bare(LAYOUTS[l][i], vals[i])]  OBVIOUS
<1>6. ASSUME NEW i \in 1 .. n
      PROVE  Written(LAYOUTS[l][i], vals[i]) = <<q[i]>> /\ Stands(LAYOUTS[l][i], q[i])
  <2>1. q[i] = Bare(LAYOUTS[l][i], vals[i])  BY <1>5
  <2> QED  BY <2>1, <1>2, <1>3, <1>4, WrittenBare
<1>7. \A i \in 1 .. n : q[i] \in Seq(Char)  BY <1>6 DEF Stands
<1>8. q \in Seq(Seq(Char)) /\ Len(q) = n  BY <1>5, <1>7
<1>9. Writes(l, vals, q) /\ Standing(l, q)  BY <1>1, <1>6, <1>8 DEF Writes, Standing
<1> QED  BY <1>5, <1>8, <1>9

LEMMA WrittenTyped ==
  ASSUME NEW field, NEW raw \in Seq(Char)
  PROVE  Written(field, raw) \in Seq(Seq(Char))
<1>1. CASE field # Num
  <2>1. TrimEnd(raw) \in Seq(Char)  BY TrimmedEnd
  <2> QED  BY <1>1, <2>1, SplitTyped DEF Written
<1>2. CASE field = Num
  <2>1. PICK t \in Seq(Char) : t = Trim(raw)  BY TrimIs
  <2>2. CASE t = <<>>
    <3>1. PICK z : z = <<"0">>  OBVIOUS
    <3>2. z \in Seq(Char)  BY <3>1, ZeroIs
    <3>3. Written(field, raw) = <<z>>  BY <1>2, <2>1, <2>2, <3>1 DEF Written
    <3> QED  BY <3>2, <3>3
  <2>3. CASE t # <<>> /\ t[1] \in Brace
    <3>1. Written(field, raw) = SplitBars(t)  BY <1>2, <2>1, <2>3 DEF Written
    <3> QED  BY <3>1, <2>1, SplitTyped
  <2>4. CASE t # <<>> /\ t[1] \notin Brace
    <3>1. Written(field, raw) = <<Number(t)>>  BY <1>2, <2>1, <2>4 DEF Written
    <3>2. Number(t) \in Seq(Char)  BY <2>1, <2>4, NumberIs
    <3> QED  BY <3>1, <3>2
  <2> QED  BY <2>2, <2>3, <2>4
<1> QED  BY <1>1, <1>2

\* What compose writes, field by field.
Fieldwise(l, vals) == [i \in DOMAIN LAYOUTS[l] |-> Written(LAYOUTS[l][i], vals[i])]

LEMMA FieldwiseTyped ==
  ASSUME ScreenAssumption, NEW l, NEW vals, Design(l, vals)
  PROVE  Fieldwise(l, vals) \in Seq(Seq(Seq(Char))) /\ Len(Fieldwise(l, vals)) = Len(vals)
<1>1. PICK n \in Nat : n = Len(vals) /\ DOMAIN LAYOUTS[l] = 1 .. n  BY LayoutIs DEF Design
<1>2. \A i \in 1 .. n : vals[i] \in Seq(Char)  BY <1>1 DEF Design
<1>3. PICK w : w = Fieldwise(l, vals)  OBVIOUS
<1>4. w = [i \in 1 .. n |-> Written(LAYOUTS[l][i], vals[i])]  BY <1>1, <1>3 DEF Fieldwise
<1>5. \A i \in 1 .. n : w[i] \in Seq(Seq(Char))  BY <1>2, <1>4, WrittenTyped
<1>6. w \in [1 .. n -> Seq(Seq(Char))]  BY <1>4, <1>5
<1>7. w \in Seq(Seq(Seq(Char))) /\ Len(w) = n  BY <1>6
<1> QED  BY <1>1, <1>3, <1>7

LEMMA ComposeTyped ==
  ASSUME ScreenAssumption, NEW l, NEW vals, Design(l, vals)
  PROVE  /\ FlattenSeq(Fieldwise(l, vals)) \in Seq(Seq(Char))
         /\ Compose(l, vals) = FrameOf(l, DropEmptyTail(FlattenSeq(Fieldwise(l, vals))))
         /\ Compose(l, vals).parts \in Seq(Seq(Char))
<1>1. Fieldwise(l, vals) \in Seq(Seq(Seq(Char)))  BY FieldwiseTyped
<1>2. PICK f : f = FlattenSeq(Fieldwise(l, vals))  OBVIOUS
<1>3. f \in Seq(Seq(Char))  BY <1>1, <1>2, FlattenTyped
<1>4. Compose(l, vals) = FrameOf(l, DropEmptyTail(f))  BY <1>2 DEF Compose, FrameOf, Fieldwise
<1>5. DropEmptyTail(f) \in Seq(Seq(Char))  BY <1>3, DropTyped
<1> QED  BY <1>2, <1>3, <1>4, <1>5 DEF FrameOf

\* A number that begins with a brace does not reach the wheel: the first of
\* them is where the driver expects it, and is no number to it.
LEMMA TakenIsBare ==
  ASSUME ScreenAssumption, NEW l, NEW vals, Design(l, vals), CanCompose(l, vals),
         DriverTakes(Compose(l, vals))
  PROVE  \A i \in 1 .. Len(vals) : ~Braced(LAYOUTS[l][i], vals[i])
<1>1. PICK n \in Nat : n = Len(vals) /\ n = Len(LAYOUTS[l]) /\ DOMAIN LAYOUTS[l] = 1 .. n
  BY LayoutIs DEF Design
<1>2. NumDigits \in Nat \ {0}  BY DEF ScreenAssumption
<1>3. \A i \in 1 .. n : vals[i] \in Seq(Char) /\ Composes(LAYOUTS[l][i], vals[i])
  BY <1>1 DEF Design, CanCompose
<1>4. PICK B : B = {i \in 1 .. n : Braced(LAYOUTS[l][i], vals[i])}  OBVIOUS
<1>5. SUFFICES ASSUME B # {} PROVE FALSE  BY <1>1, <1>4
<1>6. B \subseteq Nat  BY <1>4
<1>7. PICK m \in B : \A y \in B : m <= y  BY <1>5, <1>6, LeastNat
<1>8. m \in 1 .. n /\ Braced(LAYOUTS[l][m], vals[m])  BY <1>4, <1>7
<1>9. \A i \in 1 .. m - 1 : i \in 1 .. n /\ ~Braced(LAYOUTS[l][i], vals[i])
  <2> TAKE i \in 1 .. m - 1
  <2>1. i \in 1 .. n /\ ~(m <= i)  BY <1>1, <1>8
  <2>2. i \notin B  BY <2>1, <1>7
  <2> QED  BY <2>1, <2>2, <1>4
<1>10. PICK w : w = Fieldwise(l, vals)  OBVIOUS
<1>11. w \in Seq(Seq(Seq(Char))) /\ Len(w) = n  BY <1>1, <1>10, FieldwiseTyped
<1>12. \A i \in 1 .. n : w[i] = Written(LAYOUTS[l][i], vals[i])  BY <1>1, <1>10 DEF Fieldwise
<1>13. Singles(w, m - 1)
  <2> SUFFICES ASSUME NEW i \in 1 .. m - 1 PROVE Len(w[i]) = 1  BY DEF Singles
  <2>1. i \in 1 .. n /\ ~Braced(LAYOUTS[l][i], vals[i])  BY <1>9
  <2>2. vals[i] \in Seq(Char) /\ Composes(LAYOUTS[l][i], vals[i])  BY <2>1, <1>3
  <2>3. Written(LAYOUTS[l][i], vals[i]) = <<Bare(LAYOUTS[l][i], vals[i])>>
    BY <2>1, <2>2, <1>2, WrittenBare
  <2> QED  BY <2>1, <2>3, <1>12
<1>14. PICK t \in Seq(Char) : t = Trim(vals[m])  BY <1>3, <1>8, TrimIs
<1>15. LAYOUTS[l][m] = Num /\ t # <<>> /\ t[1] \in Brace  BY <1>8, <1>14 DEF Braced
<1>16. w[m] = SplitBars(t)  BY <1>8, <1>12, <1>14, <1>15 DEF Written
<1>17. t[1] \notin Bar  BY <1>15 DEF Bar, Brace
<1>18. w[m] # <<>> /\ w[m][1] # <<>> /\ w[m][1][1] \in Brace
  BY <1>15, <1>16, <1>17, SplitTyped, SplitBegins
<1>19. PICK f : f = FlattenSeq(w)  OBVIOUS
<1>20. Placed(f, w, m)  BY <1>8, <1>11, <1>13, <1>18, <1>19, FlattenPlace
<1>21. m \in 1 .. Len(f) /\ f[m] = w[m][1]  BY <1>20 DEF Placed
<1>22. f \in Seq(Seq(Char)) /\ Compose(l, vals).parts = DropEmptyTail(f)
  BY <1>10, <1>19, ComposeTyped DEF FrameOf
<1>23. PICK k \in 0 .. Len(f) : /\ DropEmptyTail(f) = SubSeq(f, 1, k)
                                /\ \A j \in k + 1 .. Len(f) : f[j] = <<>>
  BY <1>22, DropIs
<1>24. m \in 1 .. k
  <2>1. m \notin k + 1 .. Len(f)  BY <1>18, <1>21, <1>23
  <2>2. Len(f) \in Nat  BY <1>22
  <2> QED  BY <2>1, <2>2, <1>21, <1>23
<1>25. PICK p : p = DropEmptyTail(f)  OBVIOUS
<1>26. m \in DOMAIN p /\ p[m] = f[m]
  <2>1. k - 1 + 1 = k /\ (\A i \in 1 .. k : 1 + i - 1 = i) /\ 1 <= k + 1  OBVIOUS
  <2>2. p \in Seq(Seq(Char)) /\ Len(p) = k /\ \A i \in 1 .. k : p[i] = f[i]
    BY <1>22, <1>23, <1>25, <2>1, PartOf
  <2> QED  BY <2>2, <1>24
<1>27. Compose(l, vals).layout = l  BY <1>22, ComposeTyped DEF FrameOf
<1>28. IsNumber(p[m])
  BY <1>15, <1>22, <1>25, <1>26, <1>27 DEF DriverTakes
<1>29. 1 \in DOMAIN p[m]
  <2>1. p[m] = w[m][1] /\ p[m] # <<>>  BY <1>18, <1>21, <1>26
  <2>2. w[m] \in Seq(Seq(Char)) /\ w[m] # <<>>  BY <1>16, SplitTyped
  <2>3. w[m][1] \in Seq(Char)  BY <2>2
  <2> QED  BY <2>1, <2>3
<1>30. Digit(p[m][1])  BY <1>28, <1>29 DEF IsNumber
<1> QED  BY <1>18, <1>21, <1>26, <1>30 DEF Digit, Brace

\* What the wheel took reads back as the design.
ReadsBack(l, vals) ==
  LET f == Compose(l, vals)
  IN  /\ Compose(l, Parse(f)) = f
      /\ \A i \in DOMAIN vals : LAYOUTS[l][i] # Num => Parse(f)[i] = TrimEnd(vals[i])

LEMMA TakenReadsBack ==
  ASSUME ScreenAssumption, NEW l, NEW vals, Design(l, vals), CanCompose(l, vals),
         DriverTakes(Compose(l, vals))
  PROVE  ReadsBack(l, vals)
<1>1. \A i \in 1 .. Len(vals) : ~Braced(LAYOUTS[l][i], vals[i])  BY TakenIsBare
<1>2. PICK q : /\ Writes(l, vals, q) /\ Standing(l, q)
               /\ \A i \in 1 .. Len(q) : q[i] = Bare(LAYOUTS[l][i], vals[i])
  BY <1>1, BareFrame
<1>3. l \in DOMAIN LAYOUTS  BY DEF Design
<1>4. Parse(Compose(l, vals)) = q /\ Compose(l, Parse(Compose(l, vals))) = Compose(l, vals)
  BY <1>2, <1>3, ReadBack
<1>5. DOMAIN vals = 1 .. Len(q)  BY <1>2 DEF Writes, Design
<1>6. \A i \in DOMAIN vals : LAYOUTS[l][i] # Num => q[i] = TrimEnd(vals[i])
  BY <1>2, <1>5 DEF Bare
<1> QED  BY <1>4, <1>6 DEF ReadsBack

\* Characters of one byte.
LEMMA PlainBytes ==
  ASSUME NEW t \in Seq(Char), \A i \in DOMAIN t : t[i] # "e2"
  PROVE  Bytes(t) = Len(t) /\ Len(t) \in Nat
<1>1. {i \in DOMAIN t : t[i] = "e2"} = {}  OBVIOUS
<1> DEFINE Counts(c) == c = [T \in SUBSET {} |-> IF T = {} THEN 0 ELSE 1 + c[T \ {CHOOSE x : x \in T}]]
<1>2. Counts([T \in SUBSET {} |-> 0])  OBVIOUS
<1>3. (CHOOSE c : Counts(c))[{}] = 0
  <2>1. Counts(CHOOSE c : Counts(c))  BY <1>2
  <2> QED  BY <2>1
<1>4. Cardinality({}) = 0  BY <1>3 DEF Cardinality
<1>5. Len(t) \in Nat /\ Len(t) + 0 = Len(t)  OBVIOUS
<1>6. Bytes(t) = Len(t) + 0  BY <1>1, <1>4 DEF Bytes
<1> QED  BY <1>5, <1>6

\* The length of parts behind their separators, a part at a time.
Lengthens(w, n, b) ==
  /\ b \in [0 .. n -> Nat] /\ b[0] = 1
  /\ \A k \in 1 .. n : b[k] = b[k - 1] + 1 + w[k]

Lengths(w, b) == b = [n \in 0 .. Len(w) |-> IF n = 0 THEN 1 ELSE b[n - 1] + 1 + w[n]]

LEMMA JoinedByParts ==
  ASSUME NEW w
  PROVE  Joined(w) = (CHOOSE b : Lengths(w, b))[Len(w)]
BY DEF Joined, Lengths

LEMMA JoinedRuns ==
  ASSUME NEW n \in Nat, NEW w \in [1 .. n -> Nat]
  PROVE  \E b : Lengthens(w, n, b) /\ Joined(w) = b[n]
<1>1. Len(w) = n  OBVIOUS
<1> DEFINE step == [k \in 1 .. n |-> [x \in Nat |-> x + 1 + w[k]]]
<1>2. step \in [1 .. n -> [Nat -> Nat]]  OBVIOUS
<1>3. \A k \in 1 .. n, x \in Nat : step[k][x] = x + 1 + w[k]  OBVIOUS
<1>4. 1 \in Nat  OBVIOUS
<1> HIDE DEF step
<1>5. PICK b \in [0 .. n -> Nat] : b[0] = 1 /\ \A k \in 1 .. n : b[k] = step[k][b[k - 1]]
  <2>1. Loops(Nat, 1, n, step)  BY <1>2, <1>4, LoopEnds
  <2> QED  BY <2>1 DEF Loops
<1>6. \A k \in 1 .. n : b[k] = b[k - 1] + 1 + w[k]
  <2> TAKE k \in 1 .. n
  <2>1. k - 1 \in 0 .. n /\ b[k - 1] \in Nat  OBVIOUS
  <2> QED  BY <2>1, <1>3, <1>5
<1>7. Lengths(w, b)
  <2>1. \A k \in 0 .. n : b[k] = IF k = 0 THEN 1 ELSE b[k - 1] + 1 + w[k]
    BY <1>5, <1>6
  <2>2. b = [k \in 0 .. n |-> IF k = 0 THEN 1 ELSE b[k - 1] + 1 + w[k]]  BY <2>1
  <2> QED  BY <2>2, <1>1 DEF Lengths
<1>8. PICK d : d = CHOOSE e : Lengths(w, e)  OBVIOUS
<1>9. d = [k \in 0 .. n |-> IF k = 0 THEN 1 ELSE d[k - 1] + 1 + w[k]]
  BY <1>1, <1>7, <1>8 DEF Lengths
<1>10. d[0] = 1 /\ \A k \in 1 .. n : d[k] = d[k - 1] + 1 + w[k]  BY <1>9
<1> DEFINE S == {m \in Nat : m <= n => d[m] \in Nat}
<1>11. 0 \in S  BY <1>10
<1>12. ASSUME NEW m \in Nat, m \in S PROVE m + 1 \in S
  <2> SUFFICES ASSUME m + 1 <= n PROVE d[m + 1] \in Nat  OBVIOUS
  <2>1. m + 1 \in 1 .. n /\ (m + 1) - 1 = m /\ d[m] \in Nat  BY <1>12
  <2>2. d[m + 1] = d[m] + 1 + w[m + 1]  BY <2>1, <1>10
  <2>3. w[m + 1] \in Nat  BY <2>1
  <2> QED  BY <2>1, <2>2, <2>3
<1> HIDE DEF S
<1>13. Nat \subseteq S  BY <1>11, <1>12, SetInduction
<1>14. \A k \in 0 .. n : d[k] \in Nat  BY <1>13 DEF S
<1>15. d \in [0 .. n -> Nat]  BY <1>9, <1>14
<1>16. Joined(w) = d[n]  BY <1>1, <1>8, JoinedByParts
<1> QED  BY <1>10, <1>15, <1>16 DEF Lengthens

LEMMA JoinedBelow ==
  ASSUME NEW n \in Nat, NEW v \in [1 .. n -> Nat], NEW m \in 0 .. n, NEW w \in [1 .. m -> Nat],
         \A i \in 1 .. m : w[i] <= v[i]
  PROVE  Joined(w) <= Joined(v) /\ Joined(w) \in Nat /\ Joined(v) \in Nat
<1>1. m \in Nat  OBVIOUS
<1>2. PICK b : Lengthens(w, m, b) /\ Joined(w) = b[m]  BY <1>1, JoinedRuns
<1>3. PICK d : Lengthens(v, n, d) /\ Joined(v) = d[n]  BY JoinedRuns
<1>4. /\ b \in [0 .. m -> Nat] /\ b[0] = 1
      /\ \A k \in 1 .. m : b[k] = b[k - 1] + 1 + w[k]
  BY <1>2 DEF Lengthens
<1>5. /\ d \in [0 .. n -> Nat] /\ d[0] = 1
      /\ \A k \in 1 .. n : d[k] = d[k - 1] + 1 + v[k]
  BY <1>3 DEF Lengthens
<1> DEFINE S == {j \in Nat : j <= m => b[j] <= d[j]}
           T == {j \in Nat : m <= j /\ j <= n => b[m] <= d[j]}
<1>6. 0 \in S  BY <1>4, <1>5
<1>7. ASSUME NEW j \in Nat, j \in S PROVE j + 1 \in S
  <2> SUFFICES ASSUME j + 1 <= m PROVE b[j + 1] <= d[j + 1]  OBVIOUS
  <2>1. /\ j + 1 \in 1 .. m /\ j + 1 \in 1 .. n /\ (j + 1) - 1 = j
        /\ j \in 0 .. m /\ j \in 0 .. n /\ b[j] <= d[j]
    BY <1>7
  <2>2. b[j + 1] = b[j] + 1 + w[j + 1] /\ d[j + 1] = d[j] + 1 + v[j + 1]
    BY <2>1, <1>4, <1>5
  <2>3. w[j + 1] \in Nat /\ v[j + 1] \in Nat /\ w[j + 1] <= v[j + 1]  BY <2>1
  <2>4. b[j] \in Nat /\ d[j] \in Nat  BY <2>1, <1>4, <1>5
  <2>5. \A x, y, p, q \in Nat : x <= y /\ p <= q => x + 1 + p <= y + 1 + q  OBVIOUS
  <2>6. b[j] + 1 + w[j + 1] <= d[j] + 1 + v[j + 1]  BY <2>1, <2>3, <2>4, <2>5
  <2> QED  BY <2>2, <2>6
<1>8. Nat \subseteq S
  <2> HIDE DEF S
  <2> QED  BY <1>6, <1>7, SetInduction
<1>9. b[m] <= d[m]  BY <1>8
<1>10. 0 \in T
  <2> SUFFICES ASSUME m <= 0, 0 <= n PROVE b[m] <= d[0]  OBVIOUS
  <2>1. m = 0  OBVIOUS
  <2> QED  BY <2>1, <1>9
<1>11. ASSUME NEW j \in Nat, j \in T PROVE j + 1 \in T
  <2> SUFFICES ASSUME m <= j + 1, j + 1 <= n PROVE b[m] <= d[j + 1]  OBVIOUS
  <2>1. CASE m = j + 1  BY <2>1, <1>9
  <2>2. CASE m <= j
    <3>1. j + 1 \in 1 .. n /\ (j + 1) - 1 = j /\ j \in 0 .. n /\ b[m] <= d[j]  BY <2>2, <1>11
    <3>2. d[j + 1] = d[j] + 1 + v[j + 1] /\ v[j + 1] \in Nat  BY <3>1, <1>5
    <3>3. b[m] \in Nat /\ d[j] \in Nat  BY <3>1, <1>4, <1>5
    <3> QED  BY <3>1, <3>2, <3>3
  <2> QED  BY <2>1, <2>2
<1>12. Nat \subseteq T
  <2> HIDE DEF T, S
  <2> QED  BY <1>10, <1>11, SetInduction
<1>13. b[m] <= d[n]  BY <1>12
<1> QED  BY <1>2, <1>3, <1>4, <1>5, <1>13

\* A text without braces and of one byte each is no template, and as wide as
\* the driver counts it.
Plain(t) == ~Has(t, Brace \union {"e2"})

LEMMA PlainBare ==
  ASSUME NumDigits \in Nat \ {0}, NEW field \in Nat \union {Num}, NEW raw \in Seq(Char),
         Composes(field, raw), Plain(raw)
  PROVE  /\ ~Braced(field, raw) /\ Bytes(Bare(field, raw)) \in Nat
         /\ Bytes(Bare(field, raw)) <= FieldWidth(field)
<1>1. \A j \in DOMAIN raw : raw[j] \notin Brace /\ raw[j] # "e2"
  BY DEF Plain, Has, Range
<1>2. CASE field = Num
  <2>1. PICK t \in Seq(Char) : /\ t = Trim(raw)
                               /\ \A i \in DOMAIN t : \E j \in DOMAIN raw : t[i] = raw[j]
    BY TrimIs
  <2>2. \A i \in DOMAIN t : t[i] \notin Brace /\ t[i] # "e2"  BY <1>1, <2>1
  <2>3. t # <<>> => 1 \in DOMAIN t  BY <2>1
  <2>4. ~Braced(field, raw)  BY <2>1, <2>2, <2>3 DEF Braced
  <2>5. CASE t = <<>>
    <3>1. PICK z : z = <<"0">>  OBVIOUS
    <3>2. z \in Seq(Char) /\ Len(z) = 1 /\ \A i \in DOMAIN z : z[i] = "0"  BY <3>1, ZeroIs
    <3>3. Bare(field, raw) = z  BY <1>2, <2>1, <2>5, <3>1 DEF Bare
    <3>4. Bytes(z) = 1  BY <3>2, PlainBytes
    <3> QED  BY <1>2, <2>4, <3>3, <3>4 DEF FieldWidth
  <2>6. CASE t # <<>>
    <3>1. IsNumber(t)  BY <1>2, <2>1, <2>2, <2>3, <2>6 DEF Composes
    <3>2. PICK u : u = Number(t)  OBVIOUS
    <3>3. u \in Seq(Char) /\ \A i \in DOMAIN u : \E j \in DOMAIN t : u[i] = t[j]
      BY <2>1, <2>6, <3>2, NumberIs
    <3>4. Bytes(u) = Len(u) /\ Len(u) \in Nat  BY <2>2, <3>3, PlainBytes
    <3>5. Bare(field, raw) = u  BY <1>2, <2>1, <2>6, <3>2 DEF Bare
    <3>6. Len(u) <= NumDigits  BY <3>1, <3>2 DEF IsNumber
    <3> QED  BY <1>2, <2>4, <3>4, <3>5, <3>6 DEF FieldWidth
  <2> QED  BY <2>5, <2>6
<1>3. CASE field # Num
  <2>1. PICK u : u = TrimEnd(raw)  OBVIOUS
  <2>2. u \in Seq(Char) /\ \A i \in DOMAIN u : \E j \in DOMAIN raw : u[i] = raw[j]
    BY <2>1, TrimmedEnd
  <2>3. Bytes(u) = Len(u) /\ Len(u) \in Nat  BY <1>1, <2>2, PlainBytes
  <2>4. ~Has(raw, Brace)  BY <1>1 DEF Has, Range
  <2>5. Len(u) <= field  BY <1>3, <2>1, <2>4 DEF Composes
  <2>6. Bare(field, raw) = u  BY <1>3, <2>1 DEF Bare
  <2> QED  BY <1>3, <2>3, <2>5, <2>6 DEF FieldWidth, Braced
<1> QED  BY <1>2, <1>3

\* The driver accepts a design of plain characters.
LEMMA PlainTaken ==
  ASSUME ScreenAssumption, NEW l, NEW vals, Design(l, vals), CanCompose(l, vals),
         l <= OledCount, \A i \in DOMAIN vals : Plain(vals[i])
  PROVE  DriverTakes(Compose(l, vals))
<1>1. PICK n \in Nat : n = Len(vals) /\ n = Len(LAYOUTS[l]) /\ DOMAIN LAYOUTS[l] = 1 .. n
  BY LayoutIs DEF Design
<1>2. NumDigits \in Nat \ {0}  BY DEF ScreenAssumption
<1>3. l \in DOMAIN LAYOUTS /\ DOMAIN vals = 1 .. n  BY <1>1 DEF Design
<1>4. \A i \in 1 .. n : vals[i] \in Seq(Char) /\ Composes(LAYOUTS[l][i], vals[i])
  BY <1>1 DEF Design, CanCompose
<1>5. \A i \in 1 .. n : LAYOUTS[l][i] \in Nat \union {Num}
  <2>1. LAYOUTS[l] \in Seq(Nat \union {Num})  BY <1>3, LayoutIs
  <2> QED  BY <2>1, <1>1
<1>6. \A i \in 1 .. n : /\ ~Braced(LAYOUTS[l][i], vals[i])
                        /\ Bytes(Bare(LAYOUTS[l][i], vals[i])) \in Nat
                        /\ Bytes(Bare(LAYOUTS[l][i], vals[i])) <= FieldWidth(LAYOUTS[l][i])
  <2> TAKE i \in 1 .. n
  <2>1. Plain(vals[i])  BY <1>3
  <2> QED  BY <2>1, <1>2, <1>4, <1>5, PlainBare
<1>7. PICK q : /\ Writes(l, vals, q) /\ Standing(l, q)
               /\ \A i \in 1 .. Len(q) : q[i] = Bare(LAYOUTS[l][i], vals[i])
  BY <1>1, <1>6, BareFrame
<1>8. q \in Seq(Seq(Char)) /\ Len(q) = n  BY <1>1, <1>7 DEF Writes
<1>9. Compose(l, vals) = FrameOf(l, DropEmptyTail(q))  BY <1>3, <1>7, ComposeBare
<1>10. PICK k \in 0 .. n : DropEmptyTail(q) = SubSeq(q, 1, k)  BY <1>8, DropIs
<1>11. PICK p : p = DropEmptyTail(q)  OBVIOUS
<1>12. DOMAIN p = 1 .. k /\ Len(p) = k /\ \A i \in 1 .. k : p[i] = q[i]
  <2>1. k - 1 + 1 = k /\ (\A i \in 1 .. k : 1 + i - 1 = i) /\ 1 <= k + 1  OBVIOUS
  <2>2. p \in Seq(Seq(Char)) /\ Len(p) = k /\ \A i \in 1 .. k : p[i] = q[i]
    BY <1>8, <1>10, <1>11, <2>1, PartOf
  <2> QED  BY <2>2
<1>13. \A i \in 1 .. k : i \in 1 .. n  OBVIOUS
<1>14. \A i \in 1 .. k : Bytes(p[i]) \in Nat /\ Bytes(p[i]) <= FieldWidth(LAYOUTS[l][i])
  BY <1>6, <1>7, <1>8, <1>12, <1>13
<1>15. PICK w : w = [i \in DOMAIN p |-> Bytes(p[i])]  OBVIOUS
<1>16. w \in [1 .. k -> Nat]  BY <1>12, <1>14, <1>15
<1>17. PICK v : v = Widths(l)  OBVIOUS
<1>18. v = [i \in 1 .. n |-> FieldWidth(LAYOUTS[l][i])]  BY <1>1, <1>17 DEF Widths
<1>19. v \in [1 .. n -> Nat]  BY <1>2, <1>5, <1>18 DEF FieldWidth
<1>20. \A i \in 1 .. k : w[i] <= v[i]  BY <1>12, <1>13, <1>14, <1>15, <1>18
<1>21. Joined(w) <= Joined(v) /\ Joined(w) \in Nat /\ Joined(v) \in Nat
  BY <1>16, <1>19, <1>20, JoinedBelow
<1>22. Joined(v) < OledText /\ OledText \in Nat  BY <1>3, <1>17 DEF ScreenAssumption
<1>23. TextBytes(FrameOf(l, p)) = Joined(w)  BY <1>15 DEF TextBytes, FrameOf
<1>24. TextBytes(FrameOf(l, p)) < OledText  BY <1>21, <1>22, <1>23
<1>25. \A i \in 1 .. k : IF LAYOUTS[l][i] = Num THEN IsNumber(p[i]) ELSE Bytes(p[i]) <= LAYOUTS[l][i]
  <2> TAKE i \in 1 .. k
  <2>1. Stands(LAYOUTS[l][i], p[i])  BY <1>7, <1>8, <1>12, <1>13 DEF Standing
  <2>2. CASE LAYOUTS[l][i] = Num  BY <2>1, <2>2 DEF Stands
  <2>3. CASE LAYOUTS[l][i] # Num  BY <2>3, <1>14 DEF FieldWidth
  <2> QED  BY <2>2, <2>3
<1>26. Len(p) <= Len(LAYOUTS[l])  BY <1>1, <1>12
<1>27. DriverTakes(FrameOf(l, p))  BY <1>12, <1>24, <1>25, <1>26 DEF DriverTakes, FrameOf
<1> QED  BY <1>9, <1>11, <1>27

\* The samples in a design's place make a design.
LEMMA SampledTyped ==
  ASSUME NEW t \in Seq(Char), SAMPLE \in Seq(Char)
  PROVE  Sampled(t) \in Seq(Char)
<1>1. PICK s : s = [i \in DOMAIN t |-> IF t[i] = "{k}" THEN SAMPLE ELSE <<t[i]>>]  OBVIOUS
<1>2. PICK n \in Nat : DOMAIN t = 1 .. n  OBVIOUS
<1>3. \A i \in 1 .. n : t[i] \in Char  BY <1>2
<1>4. \A i \in 1 .. n : <<t[i]>> \in Seq(Char)  BY <1>3
<1>5. \A i \in 1 .. n : s[i] \in Seq(Char)  BY <1>1, <1>2, <1>4
<1>6. s \in [1 .. n -> Seq(Char)]  BY <1>1, <1>2, <1>5
<1>7. s \in Seq(Seq(Char))  BY <1>6
<1>8. Sampled(t) = FlattenSeq(s)  BY <1>1 DEF Sampled
<1> QED  BY <1>7, <1>8, FlattenTyped

LEMMA SampledDesign ==
  ASSUME ScreenAssumption, NEW l, NEW vals, Design(l, vals)
  PROVE  Design(l, SampleValues(vals))
<1>1. SAMPLE \in Seq(Char)  BY DEF ScreenAssumption
<1>2. PICK n \in Nat : n = Len(vals) /\ DOMAIN vals = 1 .. n  BY DEF Design
<1>3. \A i \in 1 .. n : vals[i] \in Seq(Char)  BY <1>2 DEF Design
<1>4. PICK s : s = SampleValues(vals)  OBVIOUS
<1>5. s = [i \in 1 .. n |-> Sampled(vals[i])]  BY <1>2, <1>4 DEF SampleValues
<1>6. s \in [1 .. n -> Seq(Char)]  BY <1>1, <1>3, <1>5, SampledTyped
<1>7. s \in Seq(Seq(Char)) /\ Len(s) = n  BY <1>6
<1> QED  BY <1>2, <1>4, <1>7 DEF Design

\* A frame, and the design it reads as.
OnScreen(f) == f = Off \/ (f.layout \in DOMAIN LAYOUTS /\ f.parts \in Seq(Seq(Char)))

LEMMA ComposeFramed ==
  ASSUME ScreenAssumption, NEW l, NEW vals, Design(l, vals)
  PROVE  OnScreen(Compose(l, vals)) /\ Compose(l, vals).layout = l
<1>1. Compose(l, vals).parts \in Seq(Seq(Char)) /\ Compose(l, vals).layout = l
  BY ComposeTyped DEF FrameOf
<1>2. l \in DOMAIN LAYOUTS  BY DEF Design
<1> QED  BY <1>1, <1>2 DEF OnScreen

LEMMA ParseDesign ==
  ASSUME ScreenAssumption, NEW f, OnScreen(f), f # Off
  PROVE  Design(f.layout, Parse(f))
<1>1. f.layout \in DOMAIN LAYOUTS /\ f.parts \in Seq(Seq(Char))  BY DEF OnScreen
<1>2. PICK n \in Nat : n = Len(LAYOUTS[f.layout]) /\ DOMAIN LAYOUTS[f.layout] = 1 .. n
  BY <1>1, LayoutIs
<1>3. PICK s : s = Parse(f)  OBVIOUS
<1>4. s = [i \in 1 .. n |-> IF i \in DOMAIN f.parts THEN f.parts[i] ELSE <<>>]
  BY <1>2, <1>3 DEF Parse
<1>5. \A i \in 1 .. n : s[i] \in Seq(Char)  BY <1>1, <1>4
<1>6. s \in [1 .. n -> Seq(Char)]  BY <1>4, <1>5
<1>7. s \in Seq(Seq(Char)) /\ Len(s) = n  BY <1>6
<1> QED  BY <1>1, <1>2, <1>3, <1>7 DEF Design

LEMMA PresetDesign ==
  ASSUME ScreenAssumption, NEW p \in DOMAIN PRESETS
  PROVE  Design(PRESETS[p].layout, PRESETS[p].values)
<1>1. PRESETS[p] \in [layout : DOMAIN LAYOUTS, values : Seq(Seq(Char))]
  <2>1. PICK P : P = [layout : DOMAIN LAYOUTS, values : Seq(Seq(Char))]  OBVIOUS
  <2>2. PRESETS \in Seq(P)  BY <2>1 DEF ScreenAssumption
  <2>3. PRESETS[p] \in P  BY <2>2
  <2> QED  BY <2>1, <2>3
<1>2. Len(PRESETS[p].values) = Len(LAYOUTS[PRESETS[p].layout])  BY DEF ScreenAssumption
<1> QED  BY <1>1, <1>2 DEF Design

LEMMA PresetIs ==
  ASSUME ScreenAssumption, NEW l, NEW vals
  PROVE  1 \in DOMAIN PRESETS /\ PresetIndex(l, vals) \in DOMAIN PRESETS
<1>1. PICK n \in Nat \ {0} : DOMAIN PRESETS = 1 .. n
  <2>1. PICK P : P = [layout : DOMAIN LAYOUTS, values : Seq(Seq(Char))]  OBVIOUS
  <2>2. PRESETS \in Seq(P) /\ PRESETS # <<>>  BY <2>1 DEF ScreenAssumption
  <2>3. Len(PRESETS) \in Nat \ {0} /\ DOMAIN PRESETS = 1 .. Len(PRESETS)  BY <2>2
  <2> QED  BY <2>3
<1>0. 1 \in DOMAIN PRESETS  BY <1>1
<1>2. PICK m : m = Matches(l, vals)  OBVIOUS
<1>3. m \subseteq DOMAIN PRESETS  BY <1>1, <1>2 DEF Matches
<1>4. CASE m = {}  BY <1>0, <1>2, <1>4 DEF PresetIndex
<1>5. CASE m # {}
  <2>1. m \subseteq Nat  BY <1>1, <1>3
  <2>2. \E p \in m : \A q \in m : p <= q  BY <1>5, <2>1, LeastNat
  <2>3. PresetIndex(l, vals) \in m  BY <1>2, <1>5, <2>2 DEF PresetIndex
  <2> QED  BY <1>0, <1>3, <2>3
<1> QED  BY <1>4, <1>5

\* The inductive invariant: what the editor holds is a design, with the focus
\* on it; what was sent was composed from one.
EditorType ==
  [app : {"none", "window", "terminal"}, layout : DOMAIN LAYOUTS, values : Seq(Seq(Char)),
   preset : DOMAIN PRESETS, focus : Int]

Edited(e) ==
  /\ e \in EditorType
  /\ e.app # "none" => Design(e.layout, e.values)
  /\ e.app = "terminal" => e.focus \in -1 .. Len(e.values)
  /\ e.app = "window" => e.focus = PresetPane

Composed(s) ==
  s # NotSent =>
    /\ Design(s.frame.layout, s.values) /\ CanCompose(s.frame.layout, s.values)
    /\ s.frame = Compose(s.frame.layout, s.values) /\ s.taken = DriverTakes(s.frame)

Dashboard == told # NoFrame => conf.template = told /\ editor.app # "window"

ScreenInv == OnScreen(wheel) /\ OnScreen(row) /\ Edited(editor) /\ Composed(sent) /\ Dashboard

LEMMA ClosedEdited ==
  ASSUME ScreenAssumption
  PROVE  Edited(Closed)
<1>1. 1 \in DOMAIN PRESETS  BY PresetIs
<1>2. Design(PRESETS[1].layout, PRESETS[1].values)  BY <1>1, PresetDesign
<1>3. PRESETS[1].layout \in DOMAIN LAYOUTS  BY <1>2 DEF Design
<1>4. 1 \in DOMAIN LAYOUTS
  <2>1. PICK F : F = Seq(Nat \union {Num})  OBVIOUS
  <2>2. LAYOUTS \in Seq(F)  BY <2>1 DEF ScreenAssumption
  <2> QED  BY <2>2, <1>3
<1>5. <<>> \in Seq(Seq(Char)) /\ PresetPane \in Int  BY DEF PresetPane
<1> QED  BY <1>1, <1>4, <1>5 DEF Edited, EditorType, Closed

\* The screen's programs start within the invariant.
LEMMA ScreenStarts ==
  ASSUME ScreenAssumption, Init
  PROVE  ScreenInv
BY ClosedEdited DEF Init, ScreenInv, OnScreen, Composed, Dashboard

\* An action that only edits the design keeps it.
LEMMA EditingKeeps ==
  ASSUME ScreenInv, NEW l, NEW vals, NEW p \in DOMAIN PRESETS, NEW f \in Int,
         Editing(l, vals, p, f), editor.app # "none", Design(l, vals),
         editor.app = "terminal" => f \in -1 .. Len(vals),
         editor.app = "window" => f = PresetPane
  PROVE  ScreenInv'
<1>1. editor \in EditorType  BY DEF ScreenInv, Edited
<1>2. editor' = [editor EXCEPT !.layout = l, !.values = vals, !.preset = p, !.focus = f]
  BY DEF Editing
<1>3. l \in DOMAIN LAYOUTS /\ vals \in Seq(Seq(Char))  BY DEF Design
<1>4. /\ editor' \in EditorType /\ editor'.app = editor.app /\ editor'.layout = l
      /\ editor'.values = vals /\ editor'.focus = f
  BY <1>1, <1>2, <1>3 DEF EditorType
<1>5. Edited(editor')  BY <1>4 DEF Edited
<1>6. UNCHANGED <<wheel, row, conf, sent, told>>  BY DEF Editing
<1> QED  BY <1>4, <1>5, <1>6 DEF ScreenInv, Dashboard

LEMMA OpenKeeps ==
  ASSUME ScreenAssumption, ScreenInv, NEW app \in {"window", "terminal"}, Open(app)
  PROVE  ScreenInv'
<1>1. PICK d : d = Seed  OBVIOUS
<1>2. Design(d.layout, d.values)
  <2>1. CASE row = Off  BY <1>1, <2>1, PresetIs, PresetDesign DEF Seed
  <2>2. CASE row # Off
    <3>1. Design(row.layout, Parse(row))  BY <2>2, ParseDesign DEF ScreenInv
    <3> QED  BY <1>1, <2>2, <3>1 DEF Seed
  <2> QED  BY <2>1, <2>2
<1>3. d.layout \in DOMAIN LAYOUTS /\ d.values \in Seq(Seq(Char))  BY <1>2 DEF Design
<1>4. PICK p \in DOMAIN PRESETS : p = PresetIndex(d.layout, d.values)  BY PresetIs
<1>5. editor' = [app |-> app, layout |-> d.layout, values |-> d.values, preset |-> p,
                 focus |-> PresetPane]
  BY <1>1, <1>4 DEF Open
<1>6. PresetPane = -1 /\ Len(d.values) \in Nat  BY <1>3 DEF PresetPane
<1>7. editor' \in EditorType  BY <1>3, <1>5, <1>6 DEF EditorType
<1>8. Edited(editor')  BY <1>2, <1>5, <1>6, <1>7 DEF Edited
<1>9. sent' = NotSent /\ told' = NoFrame /\ UNCHANGED <<wheel, row, conf>>  BY DEF Open
<1> QED  BY <1>8, <1>9 DEF ScreenInv, Dashboard, Composed

LEMMA CloseKeeps ==
  ASSUME ScreenAssumption, ScreenInv, Close
  PROVE  ScreenInv'
<1>1. editor' = Closed /\ UNCHANGED <<wheel, row, conf, sent, told>>  BY DEF Close
<1>2. Edited(editor') /\ editor'.app # "window"  BY <1>1, ClosedEdited DEF Closed
<1> QED  BY <1>1, <1>2 DEF ScreenInv, Dashboard

LEMMA PresetKeeps ==
  ASSUME ScreenAssumption, ScreenInv, ApplyPreset
  PROVE  ScreenInv'
<1>1. PICK p \in DOMAIN PRESETS :
        /\ PresetByArrows(p) \/ PresetByClick(p)
        /\ Editing(PRESETS[p].layout, PRESETS[p].values, p, editor.focus)
  BY DEF ApplyPreset
<1>2. Design(PRESETS[p].layout, PRESETS[p].values)  BY PresetDesign
<1>3. Len(PRESETS[p].values) \in Nat  BY <1>2 DEF Design
<1>4. editor.app # "none" /\ editor.focus = PresetPane
  BY <1>1 DEF PresetByArrows, PresetByClick, In, ScreenInv, Edited
<1>5. editor.focus \in Int /\ editor.focus \in -1 .. Len(PRESETS[p].values)
  BY <1>3, <1>4 DEF PresetPane
<1> QED  BY <1>1, <1>2, <1>4, <1>5, EditingKeeps

LEMMA LayoutKeeps ==
  ASSUME ScreenAssumption, ScreenInv, SetLayout
  PROVE  ScreenInv'
<1>1. PICK l \in DOMAIN LAYOUTS :
        /\ LayoutByArrows(l) \/ LayoutByClick(l)
        /\ Editing(l, BlankValues(l), editor.preset, editor.focus)
  BY DEF SetLayout
<1>2. PICK n \in Nat : n = Len(LAYOUTS[l]) /\ DOMAIN LAYOUTS[l] = 1 .. n  BY LayoutIs
<1>3. PICK b : b = BlankValues(l)  OBVIOUS
<1>4. b = [i \in 1 .. n |-> <<>>]  BY <1>2, <1>3 DEF BlankValues
<1>5. b \in [1 .. n -> Seq(Char)]  BY <1>4
<1>6. b \in Seq(Seq(Char)) /\ Len(b) = n  BY <1>5
<1>7. Design(l, BlankValues(l))  BY <1>2, <1>3, <1>6 DEF Design
<1>8. editor.app # "none" /\ editor \in EditorType
  BY <1>1 DEF LayoutByArrows, LayoutByClick, In, ScreenInv, Edited
<1>9. editor.app = "terminal" => editor.focus \in -1 .. Len(BlankValues(l))
  <2>1. editor.app = "terminal" => editor.focus = 0
    BY <1>1 DEF LayoutByArrows, LayoutByClick, In, LayoutRow
  <2> QED  BY <2>1, <1>3, <1>6
<1>10. editor.app = "window" => editor.focus = PresetPane  BY DEF ScreenInv, Edited
<1>11. editor.preset \in DOMAIN PRESETS /\ editor.focus \in Int  BY <1>8 DEF EditorType
<1> QED  BY <1>1, <1>7, <1>8, <1>9, <1>10, <1>11, EditingKeeps

LEMMA FocusKeeps ==
  ASSUME ScreenInv, MoveFocus
  PROVE  ScreenInv'
<1>1. /\ editor \in EditorType /\ editor.app = "terminal"
      /\ Design(editor.layout, editor.values) /\ editor.focus \in -1 .. Len(editor.values)
  BY DEF MoveFocus, In, ScreenInv, Edited
<1>2. PICK n \in Nat : n = Len(LAYOUTS[editor.layout]) /\ n = Len(editor.values)
  BY <1>1 DEF Design
<1>3. PICK f \in -1 .. n : f = editor.focus  BY <1>1, <1>2
<1>4. PICK g : /\ Editing(editor.layout, editor.values, editor.preset, g)
               /\ \/ g \in {0, -1}
                  \/ f # -1 /\ g = (IF f = 0 THEN -1 ELSE f - 1)
                  \/ f # -1 /\ g = (IF f < n THEN f + 1 ELSE f)
  BY <1>2, <1>3 DEF MoveFocus, PresetPane, LayoutRow
<1>5. g \in -1 .. n  BY <1>3, <1>4
<1>6. g \in Int /\ g \in -1 .. Len(editor.values)  BY <1>2, <1>5
<1>7. editor.preset \in DOMAIN PRESETS /\ editor.app # "none" /\ editor.app # "window"
  BY <1>1 DEF EditorType
<1> QED  BY <1>1, <1>4, <1>6, <1>7, EditingKeeps

LEMMA FieldDesign ==
  ASSUME NEW l, NEW vals, Design(l, vals), NEW i \in DOMAIN vals, NEW t \in Seq(Char)
  PROVE  Design(l, [vals EXCEPT ![i] = t]) /\ Len([vals EXCEPT ![i] = t]) = Len(vals)
<1>1. PICK T : T = Seq(Char)  OBVIOUS
<1>2. vals \in Seq(T) /\ t \in T  BY <1>1 DEF Design
<1>3. [vals EXCEPT ![i] = t] \in Seq(T) /\ Len([vals EXCEPT ![i] = t]) = Len(vals)  BY <1>2
<1> QED  BY <1>1, <1>3 DEF Design

LEMMA TypeKeeps ==
  ASSUME ScreenAssumption, ScreenInv, TypeField
  PROVE  ScreenInv'
<1>1. /\ editor \in EditorType /\ editor.app = "terminal" /\ editor.focus > 0
      /\ Design(editor.layout, editor.values) /\ editor.focus \in -1 .. Len(editor.values)
  BY DEF TypeField, In, ScreenInv, Edited
<1>2. editor.focus \in DOMAIN editor.values /\ editor.values[editor.focus] \in Seq(Char)
  <2>1. editor.values \in Seq(Seq(Char))  BY <1>1 DEF Design
  <2>2. editor.focus \in 1 .. Len(editor.values)  BY <2>1, <1>1
  <2> QED  BY <2>1, <2>2
<1>3. PICK v \in Seq(Char) : v = editor.values[editor.focus]  BY <1>2
<1>4. PICK w : /\ \/ \E c \in Typed \ {"|"} : w = Append(v, c)
                  \/ v # <<>> /\ w = SubSeq(v, 1, Len(v) - 1)
               /\ Editing(editor.layout, [editor.values EXCEPT ![editor.focus] = w],
                          editor.preset, editor.focus)
  BY <1>3 DEF TypeField
<1>5. w \in Seq(Char)
  <2>1. CASE \E c \in Typed \ {"|"} : w = Append(v, c)
    <3>1. PICK c \in Char : w = Append(v, c)  BY <2>1 DEF ScreenAssumption
    <3> QED  BY <3>1
  <2>2. CASE v # <<>> /\ w = SubSeq(v, 1, Len(v) - 1)
    <3>1. Len(v) - 1 \in 0 .. Len(v) /\ 1 <= (Len(v) - 1) + 1  BY <2>2
    <3> QED  BY <2>2, <3>1, PartOf
  <2> QED  BY <1>4, <2>1, <2>2
<1>6. PICK u : u = [editor.values EXCEPT ![editor.focus] = w]  OBVIOUS
<1>7. Design(editor.layout, u) /\ Len(u) = Len(editor.values)
  BY <1>1, <1>2, <1>5, <1>6, FieldDesign
<1>8. /\ editor.preset \in DOMAIN PRESETS /\ editor.focus \in Int
      /\ editor.app # "none" /\ editor.app # "window"
  BY <1>1 DEF EditorType
<1>9. editor.focus \in -1 .. Len(u)  BY <1>1, <1>7
<1> QED  BY <1>4, <1>6, <1>7, <1>8, <1>9, EditingKeeps

LEMMA FieldKeeps ==
  ASSUME ScreenAssumption, ScreenInv, SetField
  PROVE  ScreenInv'
<1>1. /\ editor \in EditorType /\ editor.app = "window"
      /\ Design(editor.layout, editor.values) /\ editor.focus = PresetPane
  BY DEF SetField, In, ScreenInv, Edited
<1>2. PICK i \in DOMAIN editor.values :
        \E t \in Texts :
          Editing(editor.layout, [editor.values EXCEPT ![i] = t], editor.preset, editor.focus)
  BY DEF SetField
<1>3. PICK t \in Texts :
        Editing(editor.layout, [editor.values EXCEPT ![i] = t], editor.preset, editor.focus)
  BY <1>2
<1>4. t \in Seq(Char)  BY DEF ScreenAssumption
<1>5. PICK u : u = [editor.values EXCEPT ![i] = t]  OBVIOUS
<1>6. Design(editor.layout, u)  BY <1>1, <1>4, <1>5, FieldDesign
<1>7. /\ editor.preset \in DOMAIN PRESETS /\ editor.focus \in Int
      /\ editor.app # "none" /\ editor.app # "terminal"
  BY <1>1 DEF EditorType
<1> QED  BY <1>1, <1>3, <1>5, <1>6, <1>7, EditingKeeps

\* What is shown is a frame, and the editor is closed or stays.
LEMMA ShowingKeeps ==
  ASSUME ScreenAssumption, ScreenInv, NEW shot, OnScreen(shot), NEW taken, Showing(shot, taken),
         UNCHANGED <<conf, told>>, Composed(sent')
  PROVE  ScreenInv'
<1>1. OnScreen(wheel') /\ OnScreen(row')  BY DEF Showing, ScreenInv
<1>2. Edited(editor') /\ (editor'.app = "window" => editor.app = "window")
  <2>1. CASE editor' = Closed  BY <2>1, ClosedEdited DEF Closed
  <2>2. CASE editor' = editor  BY <2>2 DEF ScreenInv
  <2> QED  BY <2>1, <2>2 DEF Showing
<1> QED  BY <1>1, <1>2 DEF ScreenInv, Dashboard

LEMMA ShowNowKeeps ==
  ASSUME ScreenAssumption, ScreenInv, ShowNow
  PROVE  ScreenInv'
<1>1. Design(editor.layout, editor.values)  BY DEF ShowNow, In, ScreenInv, Edited
<1>2. PICK l : l = editor.layout  OBVIOUS
<1>3. PICK vals : vals = SampleValues(editor.values)  OBVIOUS
<1>4. Design(l, vals)  BY <1>1, <1>2, <1>3, SampledDesign
<1>5. PICK shot : shot = Compose(l, vals)  OBVIOUS
<1>6. /\ CanCompose(l, vals) /\ Showing(shot, DriverTakes(shot))
      /\ sent' = [frame |-> shot, values |-> vals, taken |-> DriverTakes(shot)]
      /\ UNCHANGED <<conf, told>>
  BY <1>2, <1>3, <1>5 DEF ShowNow
<1>7. OnScreen(shot) /\ shot.layout = l  BY <1>4, <1>5, ComposeFramed
<1>8. Composed(sent')  BY <1>4, <1>5, <1>6, <1>7 DEF Composed
<1> QED  BY <1>6, <1>7, <1>8, ShowingKeeps

LEMMA HandBackKeeps ==
  ASSUME ScreenAssumption, ScreenInv, HandBack
  PROVE  ScreenInv'
<1>1. OnScreen(Off)  BY DEF OnScreen
<1>2. Showing(Off, TRUE) /\ UNCHANGED <<conf, told>> /\ Composed(sent')
  BY DEF HandBack, Composed
<1> QED  BY <1>1, <1>2, ShowingKeeps

LEMMA UseKeeps ==
  ASSUME ScreenInv, UseInGames
  PROVE  ScreenInv'
<1>1. UNCHANGED <<wheel, row, editor, sent>>  BY DEF UseInGames
<1>2. PICK shot : (In("terminal") /\ TemplateThenSwitch(shot)) \/ (In("window") /\ TemplateAndSwitch(shot))
  BY DEF UseInGames
<1>3. CASE In("terminal") /\ TemplateThenSwitch(shot)
  <2>1. editor'.app # "window"  BY <1>1, <1>3 DEF In
  <2>2. CASE UNCHANGED <<conf, told>>  BY <1>1, <2>2 DEF ScreenInv, Dashboard
  <2>3. CASE told' = shot /\ \E on \in {conf.screen, TRUE} : conf' = [template |-> shot, screen |-> on]
    <3>1. conf'.template = told'  BY <2>3
    <3> QED  BY <1>1, <2>1, <3>1 DEF ScreenInv, Dashboard
  <2> QED  BY <1>3, <2>2, <2>3 DEF TemplateThenSwitch
<1>4. CASE In("window") /\ TemplateAndSwitch(shot)
  <2>1. told = NoFrame  BY <1>4 DEF In, ScreenInv, Dashboard
  <2>2. told' = NoFrame  BY <1>4, <2>1 DEF TemplateAndSwitch
  <2> QED  BY <1>1, <2>2 DEF ScreenInv, Dashboard
<1> QED  BY <1>2, <1>3, <1>4

LEMMA ElsewhereKeeps ==
  ASSUME ScreenAssumption, ScreenInv, Elsewhere
  PROVE  ScreenInv'
<1>1. PICK p \in DOMAIN PRESETS :
        wheel' \in {Compose(PRESETS[p].layout, SampleValues(PRESETS[p].values)), Off}
  BY DEF Elsewhere
<1>2. Design(PRESETS[p].layout, SampleValues(PRESETS[p].values))
  BY PresetDesign, SampledDesign
<1>3. OnScreen(wheel')  BY <1>1, <1>2, ComposeFramed DEF OnScreen
<1>4. sent' = NotSent /\ UNCHANGED <<row, editor, conf, told>>  BY DEF Elsewhere
<1> QED  BY <1>3, <1>4 DEF ScreenInv, Composed, Dashboard

\* Every key and click in the two editors, and the daemon's own frames, keep
\* the invariant.
LEMMA ScreenSteps ==
  ASSUME ScreenAssumption, ScreenInv, [Next]_vars
  PROVE  ScreenInv'
<1>1. CASE UNCHANGED vars  BY <1>1 DEF vars, ScreenInv, Dashboard
<1>2. CASE Next
  BY <1>2, OpenKeeps, CloseKeeps, PresetKeeps, LayoutKeeps, FocusKeeps, TypeKeeps, FieldKeeps,
     ShowNowKeeps, HandBackKeeps, UseKeeps, ElsewhereKeeps DEF Next
<1> QED  BY <1>1, <1>2

\* The focus stays on a field, a plain frame is taken, what was taken reads
\* back as it was designed, and the terminal tells the truth about the file.
LEMMA ScreenSound ==
  ASSUME ScreenAssumption, ScreenInv
  PROVE  FocusInLayout /\ PlainFrameTaken /\ ReadsBackAsDesigned /\ DashboardAsTold
<1>1. FocusInLayout
  <2> SUFFICES ASSUME editor.app # "none"
      PROVE  /\ Len(editor.values) = Len(LAYOUTS[editor.layout])
             /\ editor.focus <= Len(editor.values)
    BY DEF FocusInLayout, In
  <2>1. editor \in EditorType /\ Design(editor.layout, editor.values)
    BY DEF ScreenInv, Edited
  <2>2. editor.app = "terminal" \/ editor.app = "window"  BY <2>1 DEF EditorType
  <2>3. Len(editor.values) \in Nat  BY <2>1 DEF Design
  <2>4. editor.focus <= Len(editor.values)
    BY <2>2, <2>3 DEF ScreenInv, Edited, PresetPane
  <2> QED  BY <2>1, <2>4 DEF Design
<1>2. PlainFrameTaken
  <2> SUFFICES ASSUME sent # NotSent, sent.frame.layout <= OledCount,
                      \A i \in DOMAIN sent.values : ~Has(sent.values[i], Brace \union {"e2"})
               PROVE  sent.taken
    BY DEF PlainFrameTaken
  <2>1. /\ Design(sent.frame.layout, sent.values) /\ CanCompose(sent.frame.layout, sent.values)
        /\ sent.frame = Compose(sent.frame.layout, sent.values)
        /\ sent.taken = DriverTakes(sent.frame)
    BY DEF ScreenInv, Composed
  <2>2. \A i \in DOMAIN sent.values : Plain(sent.values[i])  BY DEF Plain
  <2>3. DriverTakes(Compose(sent.frame.layout, sent.values))  BY <2>1, <2>2, PlainTaken
  <2> QED  BY <2>1, <2>3
<1>3. ReadsBackAsDesigned
  <2> SUFFICES ASSUME sent.taken PROVE ReadsBack(sent.frame.layout, sent.values)
    <3>1. CASE ~sent.taken  BY <3>1 DEF ReadsBackAsDesigned
    <3>2. CASE sent.taken
      <4>1. ReadsBack(sent.frame.layout, sent.values)  BY <3>2
      <4>2. sent # NotSent  BY <3>2 DEF NotSent
      <4>3. sent.frame = Compose(sent.frame.layout, sent.values)
        BY <4>2 DEF ScreenInv, Composed
      <4> QED  BY <4>1, <4>3 DEF ReadsBack, ReadsBackAsDesigned
    <3> QED  BY <3>1, <3>2
  <2>1. sent # NotSent  BY DEF NotSent
  <2>2. /\ Design(sent.frame.layout, sent.values) /\ CanCompose(sent.frame.layout, sent.values)
        /\ sent.frame = Compose(sent.frame.layout, sent.values)
        /\ sent.taken = DriverTakes(sent.frame)
    BY <2>1 DEF ScreenInv, Composed
  <2>3. DriverTakes(Compose(sent.frame.layout, sent.values))  BY <2>2
  <2> QED  BY <2>2, <2>3, TakenReadsBack
<1>4. DashboardAsTold  BY DEF ScreenInv, Dashboard, DashboardAsTold
<1> QED  BY <1>1, <1>2, <1>3, <1>4

(***************************************************************************)
(* The window's worker.                                                    *)
(***************************************************************************)
Cats == {"settings", "profiles"}
Pair == (Worker!Attrs \X Int) \union ({"profile", "verify"} \X Worker!Store)

\* The wheels, the editor, the profile and the page as sets of values.  What
\* the editor would restore is what it found.
Holdings ==
  /\ attached \subseteq Wheels
  /\ units \in [Wheels -> [slot : Worker!Store, store : [Worker!Store -> [Worker!Attrs -> Int]]]]
SlotEdited ==
  \/ onboard = Worker!NoEditor
  \/ /\ \E s \in Worker!Store \ {Worker!Desk}, p \in Worker!Store :
          onboard = [slot |-> s, previous |-> p, snapshot |-> found]
     /\ found \in [Worker!OnboardAttrs -> Int]
Filed == \E S \in SUBSET Worker!Snapshotted : saved \in [S -> Int]
Shown == page = [cat |-> page.cat, rows |-> page.rows] /\ page.cat \in Cats

\* The page is the wheel's, as far as the window promises.
Right == vm # Worker!None /\ ~touched
  /\ onboard = Worker!NoEditor => page.rows = Worker!Rows(vm, page.cat)

\* A request that fits the page it was clicked on.
Sane(r) ==
  /\ r.op = "load" => r.cat \in Cats
  /\ r.op = "edit" => \/ page.cat = "settings" /\ r.attr \in Worker!Attrs /\ r.value \in Int
                      \/ page.cat = "profiles" /\ r.attr = "profile"
                           /\ r.value \in Worker!Store
  /\ r.op = "setmode" => r.value \in Worker!Store
  /\ r.op = "begin" => r.slot \in Worker!Store \ {Worker!Desk}
  /\ r.op = "set" => r.attr \in Worker!OnboardAttrs /\ r.value \in Int
  /\ r.op \in Worker!Onboard \union {"exit"} => onboard # Worker!NoEditor

\* Requests the window follows with a reload, and those that end with one.
Followed(r) == r.op \in {"discover", "setmode"} \/ (r.op = "edit" /\ r.attr = "colors")
Led(r) == r.op \in {"discover", "setmode", "edit"}
Ending == {"load", "apply", "exit"}

Alone(r) == Sane(r) /\ ~Followed(r) /\ (r.op = "load" \/ Right)

Rec(r, t, f, p, x, y) ==
  [op |-> r.op, req |-> r, todo |-> t, failed |-> f, previous |-> p, refused |-> x,
   pressed |-> y]

To(t, a) == \E i \in 1 .. Len(t) : t[i][1] = a

\* An onboard request writes the slot it is for, unless a button was pressed
\* since it was taken.
InSlot(r, t, x, y) ==
  r.op \in Worker!Onboard =>
    /\ \A i \in 1 .. Len(t) : t[i][1] \in Worker!OnboardAttrs
    /\ x => t = <<>>
    /\ ~x /\ ~y => Worker!Alive(vm) /\ Worker!Slot(vm) = onboard.slot

\* What a revert and an application have still to write, and have written.
Reverts(r, t, f, x, y) ==
  r.op = "revert" =>
    /\ \A i \in 1 .. Len(t) : t[i][2] = found[t[i][1]]
    /\ ~x /\ ~y => \A a \in Worker!OnboardAttrs : To(t, a) \/ a \in f \/ Worker!Values(vm)[a] = found[a]
Applies(r, t, f, y) ==
  r.op = "apply" =>
    /\ \A i \in 1 .. Len(t) : t[i][1] \in DOMAIN saved /\ t[i][2] = saved[t[i][1]]
    /\ ~y /\ Worker!Alive(vm) => \A a \in DOMAIN saved : To(t, a) \/ a \in f \/ Worker!Values(vm)[a] = saved[a]
    /\ To(t, "colors") /\ "effect" \in DOMAIN saved => t[Len(t)][1] = "effect"

\* What becomes of the page: of a slot's activation, of one row's edit.
Begins(r, t, f) ==
  r.op = "begin" =>
    /\ f = {} => vm \in Wheels
    /\ \/ t = << <<"profile", r.slot>>, <<"verify", r.slot>> >> /\ f = {} /\ Right
       \/ /\ t = << <<"verify", r.slot>> >>
          /\ \/ "profile" \in f /\ Right
             \/ f = {} /\ (touched \/ (Worker!Alive(vm) /\ Worker!Slot(vm) = r.slot))
       \/ t = <<>> /\ (f = {} \/ touched \/ Right)
AllBut(a) ==
  vm # Worker!None /\ ~touched /\ onboard = Worker!NoEditor /\ page.cat = "settings" =>
    /\ Worker!Alive(vm) /\ page.rows \in [Worker!Attrs -> Int]
    /\ \A b \in Worker!Attrs \ {a} : page.rows[b] = Worker!Values(vm)[b]
Edits(r, t, f) ==
  r.op = "edit" =>
    \/ t = << <<r.attr, r.value>> >> /\ f = {} /\ Right
    \/ t = <<>> /\ f # {} /\ Right
    \/ t = <<>> /\ f = {} /\ AllBut(r.attr)
Rests(r, t) == r.op \notin Ending \union Worker!Onboard \union {"begin", "edit"} => t
  = <<>> /\ Right

Work(r, t, f, x, y) ==
  /\ Sane(r) /\ t \in Seq(Pair) /\ (y => touched)
  /\ InSlot(r, t, x, y) /\ Reverts(r, t, f, x, y) /\ Applies(r, t, f, y)
Tracks(r, t, f) == ~Followed(r) /\ Begins(r, t, f) /\ Edits(r, t, f) /\ Rests(r, t)

Waiting ==
  \/ queue = <<>> /\ Right
  \/ \E r : queue = <<r>> /\ Alone(r)
  \/ \E r : Sane(r) /\ Led(r) /\ \E c \in Cats : queue = <<r, Worker!Load(c)>>
Doing(r, t, f, p, x, y) ==
  /\ job = Rec(r, t, f, p, x, y) /\ Work(r, t, f, x, y)
  /\ \/ queue = <<>> /\ Tracks(r, t, f)
     \/ Led(r) /\ \E c \in Cats : queue = <<Worker!Load(c)>>
Working ==
  \E r, t, f : \E p \in Worker!Store, x \in BOOLEAN, y \in BOOLEAN : Doing(r, t, f, p, x, y)

\* Every request ends with a page that is the wheel's, or is followed by one
\* that reads it again.
WorkerInv ==
  /\ Holdings /\ SlotEdited /\ Filed /\ Shown /\ strayed = FALSE
  /\ (job = Worker!Idle /\ Waiting) \/ Working

LEMMA Short ==
  ASSUME NEW r, NEW s
  PROVE  /\ Head(<<r>>) = r /\ Tail(<<r>>) = <<>> /\ <<r>> # <<>>
         /\ Head(<<r, s>>) = r /\ Tail(<<r, s>>) = <<s>> /\ <<r, s>> # <<>>
         /\ <<r>>[1] = r /\ Len(<<r>>) = 1
OBVIOUS

LEMMA RecIs ==
  ASSUME NEW r, NEW t, NEW f, NEW p, NEW x, NEW y
  PROVE  /\ Rec(r, t, f, p, x, y) # Worker!Idle
         /\ Rec(r, t, f, p, x, y).op = r.op /\ Rec(r, t, f, p, x, y).req = r
         /\ Rec(r, t, f, p, x, y).todo = t /\ Rec(r, t, f, p, x, y).failed = f
         /\ Rec(r, t, f, p, x, y).previous = p /\ Rec(r, t, f, p, x, y).refused = x
         /\ Rec(r, t, f, p, x, y).pressed = y
<1>1. "todo" \in DOMAIN Rec(r, t, f, p, x, y) /\ "todo" \notin DOMAIN Worker!Idle
  BY DEF Rec, Worker!Idle
<1> QED  BY <1>1 DEF Rec

LEMMA RecTail ==
  ASSUME NEW r, NEW t, NEW f, NEW p, NEW x, NEW y, job = Rec(r, t, f, p, x, y)
  PROVE  [job EXCEPT !.todo = Tail(@)] = Rec(r, Tail(t), f, p, x, y)
<1>1. job.todo = t  BY RecIs
<1>2. \A z : [job EXCEPT !.todo = z] = Rec(r, z, f, p, x, y)  BY DEF Rec
<1> QED  BY <1>1, <1>2

LEMMA RecFails ==
  ASSUME NEW r, NEW t, NEW f, NEW p, NEW x, NEW y, job = Rec(r, t, f, p, x, y), NEW a
  PROVE  Worker!Fails(a) = Rec(r, Tail(t), f \cup {a}, p, x, y)
<1>1. job.todo = t /\ job.failed = f  BY RecIs
<1>2. \A z : [job EXCEPT !.todo = z] = Rec(r, z, f, p, x, y)  BY DEF Rec
<1>3. \A z, g : [Rec(r, z, f, p, x, y) EXCEPT !.failed = g] = Rec(r, z, g, p, x, y)
  BY DEF Rec
<1>4. Worker!Fails(a) = [[job EXCEPT !.todo = Tail(t)] EXCEPT !.failed = f \cup {a}]
  BY <1>1 DEF Worker!Fails
<1> QED  BY <1>2, <1>3, <1>4

LEMMA RecPressed ==
  ASSUME NEW r, NEW t, NEW f, NEW p, NEW x, NEW y, job = Rec(r, t, f, p, x, y)
  PROVE  Worker!Pressed = Rec(r, t, f, p, x, TRUE)
<1>1. \A z : [Rec(r, t, f, p, x, y) EXCEPT !.pressed = z] = Rec(r, t, f, p, x, z)
  BY DEF Rec
<1>2. Worker!Pressed = [Rec(r, t, f, p, x, y) EXCEPT !.pressed = TRUE]
  <2>1. job # Worker!Idle  BY RecIs
  <2> QED  BY <2>1, Zenon DEF Worker!Pressed
<1> QED  BY <1>1, <1>2, Zenon

\* A step that writes one line leaves the rest of them.
LEMMA Rest ==
  ASSUME NEW t \in Seq(Pair), t # <<>>
  PROVE  /\ Tail(t) \in Seq(Pair) /\ t[1] \in Pair /\ Len(t) \in Nat /\ Len(t) >= 1
         /\ Len(Tail(t)) = Len(t) - 1
         /\ \A i \in 1 .. Len(Tail(t)) : Tail(t)[i] = t[i + 1] /\ i + 1 \in 1 .. Len(t)
         /\ \A a : To(t, a) => t[1][1] = a \/ To(Tail(t), a)
         /\ \A a : To(Tail(t), a) => To(t, a)
<1>1. Tail(t) \in Seq(Pair) /\ Len(t) \in Nat /\ Len(t) >= 1 /\ Len(Tail(t)) = Len(t) - 1
      /\ \A i \in 1 .. Len(Tail(t)) : Tail(t)[i] = t[i + 1] /\ i + 1 \in 1 .. Len(t)
  OBVIOUS
<1>2. t[1] \in Pair  BY <1>1
<1>3. ASSUME NEW a, To(t, a) PROVE t[1][1] = a \/ To(Tail(t), a)
  <2>1. PICK i \in 1 .. Len(t) : t[i][1] = a  BY <1>3 DEF To
  <2>2. CASE i = 1  BY <2>1, <2>2
  <2>3. CASE i # 1
    <3>1. i - 1 \in 1 .. Len(Tail(t)) /\ Tail(t)[i - 1] = t[i]  BY <1>1, <2>3
    <3> QED  BY <2>1, <3>1 DEF To
  <2> QED  BY <2>2, <2>3
<1>4. ASSUME NEW a, To(Tail(t), a) PROVE To(t, a)
  <2>1. PICK i \in 1 .. Len(Tail(t)) : Tail(t)[i][1] = a  BY <1>4 DEF To
  <2> QED  BY <2>1, <1>1 DEF To
<1> QED  BY <1>1, <1>2, <1>3, <1>4

LEMMA RightKept ==
  ASSUME UNCHANGED <<attached, units, vm, onboard, page, touched>>
  PROVE  Right' <=> Right
BY DEF Right, Worker!Rows, Worker!Alive, Worker!Values, Worker!Slot

LEMMA FitsKept == ASSUME UNCHANGED <<onboard, page>>, NEW r, Sane(r) PROVE Sane(r)'
BY DEF Sane

\* What a write does to the wheel.
LEMMA WriteIs ==
  ASSUME Holdings, NEW w, Worker!Alive(w), NEW a \in Worker!Attrs, NEW v \in Int,
           units' = Worker!Written(w, a, v)
  PROVE  /\ units' \in [Wheels -> [slot : Worker!Store, store : [Worker!Store -> [Worker!Attrs -> Int]]]]
         /\ units'[w].slot = Worker!Slot(w)
         /\ \A b \in Worker!Attrs : units'[w].store[Worker!Slot(w)][b]
                               = IF b = a THEN v
                                 ELSE IF a = "colors"
                                   /\ b = "effect" THEN Worker!Custom ELSE Worker!Values(w)[b]
<1>1. w \in Wheels /\ Worker!Slot(w) \in Worker!Store /\ a # "profile"
        /\ units[w].store \in [Worker!Store -> [Worker!Attrs -> Int]]
      /\ Worker!Values(w) \in [Worker!Attrs -> Int] /\ "colors" \in Worker!Attrs
           /\ "effect" \in Worker!Attrs
      /\ Worker!Custom \in Int
  BY DEF Holdings, Worker!Alive, Worker!Slot, Worker!Values, Worker!Attrs, Worker!Custom
<1> DEFINE n == IF a = "colors" THEN [Worker!Values(w) EXCEPT !["colors"]
      = v, !["effect"] = Worker!Custom]
                ELSE [Worker!Values(w) EXCEPT ![a] = v]
<1>2. n \in [Worker!Attrs -> Int]  BY <1>1
<1>3. \A b \in Worker!Attrs : n[b] = IF b = a THEN v
                                     ELSE IF a = "colors"
                                       /\ b = "effect" THEN Worker!Custom ELSE Worker!Values(w)[b]
  BY <1>1
<1>4. units' = [units EXCEPT ![w].store[Worker!Slot(w)] = n]
  BY <1>1 DEF Worker!Written, Worker!Values
<1> HIDE DEF n
<1>5. PICK g : g = [units[w].store EXCEPT ![Worker!Slot(w)] = n]  OBVIOUS
<1>6. g \in [Worker!Store -> [Worker!Attrs -> Int]] /\ g[Worker!Slot(w)] = n
  BY <1>1, <1>2, <1>5
<1>7. units' = [units EXCEPT ![w].store = g]  BY <1>4, <1>5
<1>8. units' \in [Wheels -> [slot : Worker!Store, store : [Worker!Store -> [Worker!Attrs -> Int]]]]
      /\ units'[w].slot = Worker!Slot(w) /\ units'[w].store = g
  BY <1>1, <1>6, <1>7 DEF Holdings, Worker!Slot
<1> QED  BY <1>3, <1>6, <1>8

LEMMA SwitchIs ==
  ASSUME Holdings, NEW w \in Wheels, NEW s \in Worker!Store,
           units' = [units EXCEPT ![w].slot = s]
  PROVE  /\ units' \in [Wheels -> [slot : Worker!Store, store : [Worker!Store -> [Worker!Attrs -> Int]]]]
         /\ units'[w].slot = s
BY DEF Holdings

LEMMA AtRest == ASSUME WorkerInv, job = Worker!Idle PROVE Waiting
<1>1. ASSUME Working PROVE FALSE
  <2>1. PICK r, t, f : \E p \in Worker!Store, x \in BOOLEAN, y \in BOOLEAN : Doing(r, t, f, p, x, y)
    BY <1>1 DEF Working
  <2>2. PICK p \in Worker!Store, x \in BOOLEAN, y \in BOOLEAN : Doing(r, t, f, p, x, y)
    BY <2>1
  <2>3. Rec(r, t, f, p, x, y) # Worker!Idle  BY RecIs
  <2> QED  BY <2>2, <2>3 DEF Doing
<1> QED  BY <1>1 DEF WorkerInv

LEMMA Emptied == ASSUME Waiting, queue = <<>> PROVE Right
BY DEF Waiting

\* The driver's hands and the cable: the page is no longer promised to be right,
\* and the request under way knows it was disturbed.
LEMMA Disturbed ==
  ASSUME WorkerInv, Holdings', touched' = TRUE, job' = Worker!Pressed,
         UNCHANGED <<queue, vm, onboard, page, saved, found, strayed>>
  PROVE  WorkerInv'
<1>1. Right'  BY DEF Right
<1>2. SlotEdited' /\ Filed' /\ Shown' /\ strayed' = FALSE
  BY DEF WorkerInv, SlotEdited, Filed, Shown
<1>3. CASE job = Worker!Idle /\ Waiting
  <2>1. job' = Worker!Idle  BY <1>3 DEF Worker!Pressed
  <2>2. CASE queue = <<>>  BY <1>1, <1>2, <2>1, <2>2 DEF WorkerInv, Waiting
  <2>3. CASE \E r : queue = <<r>> /\ Alone(r)
    <3>1. PICK r : queue = <<r>> /\ Alone(r)  BY <2>3
    <3>2. Alone(r)'  BY <1>1, <3>1, FitsKept DEF Alone, Followed
    <3> QED  BY <1>2, <2>1, <3>1, <3>2 DEF WorkerInv, Waiting
  <2>4. CASE \E r : Sane(r) /\ Led(r) /\ \E c \in Cats : queue = <<r, Worker!Load(c)>>
    <3>1. PICK r : Sane(r) /\ Led(r) /\ \E c \in Cats : queue = <<r, Worker!Load(c)>>
      BY <2>4
    <3>2. Sane(r)'  BY <3>1, FitsKept
    <3> QED  BY <1>2, <2>1, <3>1, <3>2 DEF WorkerInv, Waiting
  <2> QED  BY <1>3, <2>2, <2>3, <2>4 DEF Waiting
<1>4. CASE Working
  <2>1. PICK r, t, f : \E p \in Worker!Store, x \in BOOLEAN, y \in BOOLEAN : Doing(r, t, f, p, x, y)
    BY <1>4 DEF Working
  <2>2. PICK p \in Worker!Store, x \in BOOLEAN, y \in BOOLEAN : Doing(r, t, f, p, x, y)
    BY <2>1
  <2>3. job = Rec(r, t, f, p, x, y) /\ Work(r, t, f, x, y)  BY <2>2 DEF Doing
  <2>4. job' = Rec(r, t, f, p, x, TRUE)  BY <2>3, RecPressed
  <2>5. Work(r, t, f, x, TRUE)'
    <3>1. Sane(r)'  BY <2>3, FitsKept DEF Work
    <3>2. InSlot(r, t, x, TRUE)'  BY <2>3 DEF Work, InSlot
    <3>3. Reverts(r, t, f, x, TRUE)'  BY <2>3 DEF Work, Reverts
    <3>4. Applies(r, t, f, TRUE)'  BY <2>3 DEF Work, Applies
    <3> QED  BY <2>3, <3>1, <3>2, <3>3, <3>4 DEF Work, Pair, Worker!Store
  <2>6. CASE queue = <<>> /\ Tracks(r, t, f)
    <3>1. Begins(r, t, f)'  BY <1>1, <2>6 DEF Tracks, Begins
    <3>2. AllBut(r.attr)'  BY DEF AllBut
    <3>3. Edits(r, t, f)'  BY <1>1, <2>6, <3>2 DEF Tracks, Edits
    <3>4. Tracks(r, t, f)'  BY <1>1, <2>6, <3>1, <3>3 DEF Tracks, Rests, Followed
    <3>5. Doing(r, t, f, p, x, TRUE)'  BY <2>4, <2>5, <2>6, <3>4 DEF Doing
    <3> QED  BY <1>2, <3>5 DEF WorkerInv, Working, Worker!Store
  <2>7. CASE Led(r) /\ \E c \in Cats : queue = <<Worker!Load(c)>>
    <3>1. Doing(r, t, f, p, x, TRUE)'  BY <2>4, <2>5, <2>7 DEF Doing, Led, Cats
    <3> QED  BY <1>2, <3>1 DEF WorkerInv, Working, Worker!Store
  <2> QED  BY <2>2, <2>6, <2>7 DEF Doing
<1> QED  BY <1>3, <1>4 DEF WorkerInv

LEMMA ButtonStep == ASSUME WorkerInv, Worker!ProfileButton PROVE WorkerInv'
<1>1. PICK w \in attached \ Classic, s \in Worker!Store : units'
        = [units EXCEPT ![w].slot = s]
  BY DEF Worker!ProfileButton
<1>2. w \in Wheels /\ Holdings  BY DEF WorkerInv, Holdings
<1>3. Holdings'  BY <1>1, <1>2, SwitchIs DEF Holdings, Worker!ProfileButton, Worker!Store
<1> QED  BY <1>3, Disturbed DEF Worker!ProfileButton

LEMMA PlugStep == ASSUME WorkerInv, Worker!Plug PROVE WorkerInv'
<1>1. Holdings'  BY DEF WorkerInv, Holdings, Worker!Plug
<1> QED  BY <1>1, Disturbed DEF Worker!Plug

\* The window sends a request that fits its page, with a reload after one that
\* changes more than its row.
LEMMA ClickStep == ASSUME Worker!SlotsAssumption, WorkerInv, Worker!Click PROVE WorkerInv'
<1>1. queue = <<>> /\ job = Worker!Idle /\ job' = Worker!Idle  BY DEF Worker!Click
<1>2. /\ UNCHANGED <<attached, units, vm, onboard, page, saved, touched, found, strayed>>
      /\ Holdings' /\ SlotEdited' /\ Filed' /\ Shown' /\ strayed' = FALSE
  BY DEF WorkerInv, Holdings, SlotEdited, Filed, Shown, Worker!Click, Worker!device,
       Worker!history
<1>3. page.cat \in Cats  BY DEF WorkerInv, Shown
<1>4. Right'
  <2>1. Right  BY <1>1, AtRest, Emptied
  <2> QED  BY <2>1, <1>2, RightKept
<1>5. PICK c \in Worker!Clicks : queue' = c  BY DEF Worker!Click
<1>6. 1 \in Worker!Store /\ Worker!Desk \in Worker!Store
  BY DEF Worker!SlotsAssumption, Worker!Store, Worker!Desk
<1>7. SlotEdited  BY DEF WorkerInv
<1>8. SUFFICES Waiting'  BY <1>1, <1>2 DEF WorkerInv
<1> DEFINE Ones(r) == queue' = <<r>> /\ Sane(r)' /\ ~Followed(r)
<1> DEFINE Twos(r) == Sane(r)' /\ Led(r) /\ \E d \in Cats : queue' = <<r, Worker!Load(d)>>
<1>9. ASSUME NEW r, Ones(r) PROVE Waiting'
  <2>1. Alone(r)'  BY <1>4, <1>9 DEF Alone, Followed
  <2> QED  BY <1>9, <2>1 DEF Waiting
<1>10. ASSUME NEW r, Twos(r) PROVE Waiting'
  BY <1>10 DEF Waiting, Led
<1>11. CASE \E d \in Cats : c = <<Worker!Load(d)>>
  <2>1. PICK d \in Cats : c = <<Worker!Load(d)>>  BY <1>11
  <2>2. Ones(Worker!Load(d))  BY <1>5, <2>1 DEF Sane, Worker!Load, Worker!Onboard, Followed
  <2> QED  BY <1>9, <2>2
<1>12. CASE c = <<[op |-> "discover"], Worker!Load(page.cat)>>
  <2>1. Twos([op |-> "discover"])  BY <1>3, <1>5, <1>12 DEF Sane, Worker!Onboard, Led
  <2> QED  BY <1>10, <2>1
<1>13. CASE \E i \in DOMAIN picker : c = <<[op |-> "select", index |-> i]>>
  <2>1. PICK i \in DOMAIN picker : c = <<[op |-> "select", index |-> i]>>  BY <1>13
  <2>2. Ones([op |-> "select", index |-> i])
    BY <1>5, <2>1 DEF Sane, Worker!Onboard, Followed
  <2> QED  BY <1>9, <2>2
<1>14. CASE \E s \in {Worker!Desk, 1} : c
         = <<[op |-> "setmode", value |-> s], Worker!Load(page.cat)>>
  <2>1. PICK s \in {Worker!Desk, 1} : c
          = <<[op |-> "setmode", value |-> s], Worker!Load(page.cat)>>
    BY <1>14
  <2>2. Twos([op |-> "setmode", value |-> s])
    BY <1>3, <1>5, <1>6, <2>1 DEF Sane, Worker!Onboard, Led, Worker!Store
  <2> QED  BY <1>10, <2>2
<1>15. CASE page.cat = "settings"
         /\ \E a \in Worker!Attrs \ {"colors"} : c = <<Worker!Write(a, 1)>>
  <2>1. PICK a \in Worker!Attrs \ {"colors"} : c = <<Worker!Write(a, 1)>>  BY <1>15
  <2>2. Ones(Worker!Write(a, 1))
    BY <1>2, <1>5, <1>15, <2>1 DEF Sane, Worker!Write, Worker!Onboard, Followed
  <2> QED  BY <1>9, <2>2
<1>16. CASE page.cat = "settings"
         /\ c = <<Worker!Write("colors", 1), Worker!Load("settings")>>
  <2>1. Twos(Worker!Write("colors", 1))
    BY <1>2, <1>3, <1>5, <1>16 DEF Sane, Worker!Write, Worker!Onboard, Led, Worker!Attrs
  <2> QED  BY <1>10, <2>1
<1>17. CASE \E o \in {"save", "apply", "delete"} : c = <<[op |-> o]>>
  <2>1. PICK o \in {"save", "apply", "delete"} : c = <<[op |-> o]>>  BY <1>17
  <2>2. Ones([op |-> o])  BY <1>5, <2>1 DEF Sane, Worker!Onboard, Followed
  <2> QED  BY <1>9, <2>2
<1>18. CASE page.cat # "settings"
         /\ \E s \in Worker!Store : c = <<Worker!Write("profile", s)>>
  <2>1. PICK s \in Worker!Store : c = <<Worker!Write("profile", s)>>  BY <1>18
  <2>2. page'.cat = "profiles"  BY <1>2, <1>3, <1>18 DEF Cats
  <2>3. Ones(Worker!Write("profile", s))
    BY <1>5, <2>1, <2>2 DEF Sane, Worker!Write, Worker!Onboard, Followed, Worker!Store
  <2> QED  BY <1>9, <2>3
<1>19. CASE \E s \in Worker!Store \ {Worker!Desk} : c = <<[op |-> "begin", slot |-> s]>>
  <2>1. PICK s \in Worker!Store \ {Worker!Desk} : c = <<[op |-> "begin", slot |-> s]>>
    BY <1>19
  <2>2. Ones([op |-> "begin", slot |-> s])
    BY <1>5, <2>1 DEF Sane, Worker!Onboard, Followed, Worker!Store, Worker!Desk
  <2> QED  BY <1>9, <2>2
<1>20. CASE onboard # Worker!NoEditor
              /\ \E a \in Worker!OnboardAttrs : c
                   = <<[op |-> "set", attr |-> a, value |-> 0]>>
  <2>1. PICK a \in Worker!OnboardAttrs : c = <<[op |-> "set", attr |-> a, value |-> 0]>>
    BY <1>20
  <2>2. Ones([op |-> "set", attr |-> a, value |-> 0])
    BY <1>2, <1>5, <1>20, <2>1 DEF Sane, Worker!Onboard, Followed, Worker!NoEditor,
         Worker!Desk
  <2> QED  BY <1>9, <2>2
<1>21. CASE onboard # Worker!NoEditor /\ \E o \in {"revert", "copy"} : c = <<[op |-> o]>>
  <2>1. PICK o \in {"revert", "copy"} : c = <<[op |-> o]>>  BY <1>21
  <2>2. Ones([op |-> o])
    BY <1>2, <1>5, <1>21, <2>1 DEF Sane, Worker!Onboard, Followed, Worker!NoEditor,
         Worker!Desk
  <2> QED  BY <1>9, <2>2
<1>22. CASE onboard # Worker!NoEditor
         /\ \E b \in BOOLEAN : c = <<[op |-> "exit", restore |-> b]>>
  <2>1. PICK b \in BOOLEAN : c = <<[op |-> "exit", restore |-> b]>>  BY <1>22
  <2>2. Ones([op |-> "exit", restore |-> b])
    BY <1>2, <1>5, <1>22, <2>1 DEF Sane, Worker!Onboard, Followed, Worker!NoEditor,
         Worker!Desk
  <2> QED  BY <1>9, <2>2
<1>23. \/ \E d \in Cats : c = <<Worker!Load(d)>>
       \/ c = <<[op |-> "discover"], Worker!Load(page.cat)>>
       \/ \E i \in DOMAIN picker : c = <<[op |-> "select", index |-> i]>>
       \/ \E s \in {Worker!Desk, 1} : c
            = <<[op |-> "setmode", value |-> s], Worker!Load(page.cat)>>
       \/ page.cat = "settings"
            /\ \E a \in Worker!Attrs \ {"colors"} : c = <<Worker!Write(a, 1)>>
       \/ page.cat = "settings"
            /\ c = <<Worker!Write("colors", 1), Worker!Load("settings")>>
       \/ \E o \in {"save", "apply", "delete"} : c = <<[op |-> o]>>
       \/ page.cat # "settings"
            /\ \E s \in Worker!Store : c = <<Worker!Write("profile", s)>>
       \/ \E s \in Worker!Store \ {Worker!Desk} : c = <<[op |-> "begin", slot |-> s]>>
       \/ onboard # Worker!NoEditor
            /\ \E a \in Worker!OnboardAttrs : c
                 = <<[op |-> "set", attr |-> a, value |-> 0]>>
       \/ onboard # Worker!NoEditor /\ \E o \in {"revert", "copy"} : c = <<[op |-> o]>>
       \/ onboard # Worker!NoEditor
            /\ \E b \in BOOLEAN : c = <<[op |-> "exit", restore |-> b]>>
  BY <1>5, Zenon DEF Worker!Clicks, Cats
<1> QED
  BY <1>11, <1>12, <1>13, <1>14, <1>15, <1>16, <1>17, <1>18, <1>19, <1>20, <1>21, <1>22, <1>23

\* The request at the head of the queue.
LEMMA AtHead ==
  ASSUME Waiting, queue # <<>>, NEW r, r = Head(queue)
  PROVE  /\ Sane(r)
         /\ \/ Tail(queue) = <<>> /\ Alone(r)
            \/ Led(r) /\ \E c \in Cats : Tail(queue) = <<Worker!Load(c)>>
<1>1. CASE \E q : queue = <<q>> /\ Alone(q)
  <2>1. PICK q : queue = <<q>> /\ Alone(q)  BY <1>1
  <2>2. Head(queue) = q /\ Tail(queue) = <<>>  BY <2>1
  <2> QED  BY <2>1, <2>2 DEF Alone
<1>2. CASE \E q : Sane(q) /\ Led(q) /\ \E c \in Cats : queue = <<q, Worker!Load(c)>>
  <2>1. PICK q : Sane(q) /\ Led(q) /\ \E c \in Cats : queue = <<q, Worker!Load(c)>>  BY <1>2
  <2>2. PICK c \in Cats : queue = <<q, Worker!Load(c)>>  BY <2>1
  <2>3. PICK m : m = Worker!Load(c)  OBVIOUS
  <2>4. queue = <<q, m>>  BY <2>2, <2>3
  <2>5. Head(queue) = q /\ Tail(queue) = <<m>>  BY <2>4, Short
  <2> QED  BY <2>1, <2>3, <2>5
<1> QED  BY <1>1, <1>2 DEF Waiting

\* A reload that waits promises nothing of the page.
LEMMA LoadWaits ==
  ASSUME NEW c \in Cats, queue' = <<Worker!Load(c)>> PROVE Waiting'
<1>1. Sane(Worker!Load(c))' /\ ~Followed(Worker!Load(c))
  BY DEF Sane, Worker!Load, Worker!Onboard, Followed
<1>2. Worker!Load(c).op = "load"  BY DEF Worker!Load
<1>3. Alone(Worker!Load(c))'  BY <1>1, <1>2 DEF Alone, Followed
<1> QED  BY <1>3 DEF Waiting

LEMMA DiscoverStep == ASSUME WorkerInv, Worker!Discover PROVE WorkerInv'
<1>1. Waiting /\ queue # <<>> /\ Head(queue).op = "discover" /\ queue' = Tail(queue)
      /\ job' = Worker!Idle
  BY AtRest DEF Worker!Discover
<1>2. PICK r : r = Head(queue)  OBVIOUS
<1>3. Followed(r)  BY <1>1, <1>2 DEF Followed
<1>4. PICK c \in Cats : queue' = <<Worker!Load(c)>>  BY <1>1, <1>2, <1>3, AtHead DEF Alone
<1>5. Waiting'  BY <1>4, LoadWaits
<1>6. /\ onboard' = Worker!NoEditor
      /\ UNCHANGED <<attached, units, page, saved, found, strayed>>
  BY DEF Worker!Discover, Worker!Manage, Worker!device, Worker!history
<1> QED  BY <1>1, <1>5, <1>6 DEF WorkerInv, Holdings, SlotEdited, Filed, Shown,
              Worker!NoEditor, Worker!Desk

LEMMA SelectStep == ASSUME WorkerInv, Worker!SelectWheel PROVE WorkerInv'
<1>1. Waiting /\ queue # <<>> /\ Head(queue).op = "select" /\ queue' = Tail(queue)
      /\ job' = Worker!Idle
  BY AtRest DEF Worker!SelectWheel
<1>2. PICK r : r = Head(queue)  OBVIOUS
<1>3. ~Led(r) /\ r.op # "load"  BY <1>1, <1>2 DEF Led
<1>4. queue' = <<>> /\ Right  BY <1>1, <1>2, <1>3, AtHead DEF Alone
<1>5. UNCHANGED <<attached, units, saved, found, strayed>>
  BY DEF Worker!SelectWheel, Worker!device
<1>6. Holdings' /\ Filed' /\ strayed' = FALSE  BY <1>5 DEF WorkerInv, Holdings, Filed
<1>7. CASE /\ onboard' = Worker!NoEditor /\ touched' = FALSE
           /\ page' = [page EXCEPT !.rows = Worker!Rows(vm', page.cat)]
  <2>1. PICK n : n = Worker!Rows(vm', page.cat)  OBVIOUS
  <2>2. page = [cat |-> page.cat, rows |-> page.rows] /\ page.cat \in Cats
    BY DEF WorkerInv, Shown
  <2>3. page' = [cat |-> page.cat, rows |-> n]  BY <1>7, <2>1, <2>2
  <2>4. page'.cat = page.cat /\ page'.rows = n  BY <2>3
  <2>5. Shown'  BY <2>2, <2>3, <2>4 DEF Shown, Cats
  <2>6. n = Worker!Rows(vm, page.cat)'
    BY <1>5, <2>1, <2>4 DEF Worker!Rows, Worker!Alive, Worker!Values, Worker!Slot
  <2>7. Right'  BY <2>4, <2>6 DEF Right
  <2>8. SlotEdited'  BY <1>7 DEF SlotEdited, Worker!NoEditor, Worker!Desk
  <2> QED  BY <1>1, <1>4, <1>6, <2>5, <2>7, <2>8 DEF WorkerInv, Waiting
<1>8. CASE UNCHANGED <<vm, onboard, page, touched>>
  <2>1. Right'  BY <1>4, <1>5, <1>8, RightKept
  <2>2. SlotEdited' /\ Shown'  BY <1>5, <1>8 DEF WorkerInv, SlotEdited, Shown
  <2> QED  BY <1>1, <1>4, <1>6, <2>1, <2>2 DEF WorkerInv, Waiting
<1> QED  BY <1>7, <1>8 DEF Worker!SelectWheel, Worker!Manage

LEMMA RefuseStep == ASSUME WorkerInv, Worker!Refuse PROVE WorkerInv'
<1>1. /\ Waiting /\ queue # <<>> /\ vm' = Worker!None /\ queue' = Tail(queue)
           /\ job' = Worker!Idle
      /\ UNCHANGED <<attached, units, onboard, saved, touched, found, strayed>>
      /\ page' = [cat |-> IF Head(queue).op = "load" THEN Head(queue).cat ELSE page.cat,
                  rows |-> Worker!Gone]
  BY AtRest DEF Worker!Refuse, Worker!device, Worker!history
<1>2. PICK r : r = Head(queue)  OBVIOUS
<1>3. Sane(r) /\ \/ queue' = <<>>
                 \/ \E c \in Cats : queue' = <<Worker!Load(c)>>
  BY <1>1, <1>2, AtHead
<1>4. page'.cat \in Cats /\ page' = [cat |-> page'.cat, rows |-> page'.rows]
  BY <1>1, <1>2, <1>3 DEF WorkerInv, Shown, Sane
<1>5. Right'  BY <1>1 DEF Right, Worker!None
<1>6. Waiting'  BY <1>3, <1>5, LoadWaits DEF Waiting
<1> QED  BY <1>1, <1>4, <1>6 DEF WorkerInv, Holdings, SlotEdited, Filed, Shown, Cats

LEMMA DriftStep == ASSUME WorkerInv, Worker!CheckDrift PROVE WorkerInv'
<1>1. /\ Right /\ queue' = <<>> /\ job' = Worker!Idle
      /\ UNCHANGED <<attached, units, saved, found, strayed>>
  BY AtRest, Emptied DEF Worker!CheckDrift, Worker!device
<1>2. Holdings' /\ Filed' /\ strayed' = FALSE  BY <1>1 DEF WorkerInv, Holdings, Filed
<1>3. page = [cat |-> page.cat, rows |-> page.rows] /\ page.cat \in Cats
  BY DEF WorkerInv, Shown
<1>4. ASSUME NEW n, page' = [page EXCEPT !.rows = n]
      PROVE  Shown' /\ page'.cat = page.cat /\ page'.rows = n
  <2>1. page' = [cat |-> page.cat, rows |-> n]  BY <1>3, <1>4
  <2> QED  BY <1>3, <2>1 DEF Shown, Cats
<1>5. CASE vm' = Worker!None /\ onboard' = Worker!NoEditor
        /\ page' = [page EXCEPT !.rows = Worker!Gone]
  <2>1. Shown'  BY <1>4, <1>5
  <2>2. Right'  BY <1>5 DEF Right, Worker!None
  <2> QED  BY <1>1, <1>2, <1>5, <2>1, <2>2 DEF WorkerInv, Waiting, SlotEdited,
                Worker!NoEditor, Worker!Desk
<1>6. CASE UNCHANGED <<vm, onboard>>
        /\ page' = [page EXCEPT !.rows = Worker!Rows(vm, page.cat)]
  <2>1. PICK n : n = Worker!Rows(vm, page.cat)  OBVIOUS
  <2>2. Shown' /\ page'.cat = page.cat /\ page'.rows = n  BY <1>4, <1>6, <2>1
  <2>3. n = Worker!Rows(vm, page.cat)'
    BY <1>1, <1>6, <2>1, <2>2 DEF Worker!Rows, Worker!Alive, Worker!Values, Worker!Slot
  <2>4. Right'  BY <2>2, <2>3 DEF Right
  <2> QED  BY <1>1, <1>2, <1>6, <2>2, <2>4 DEF WorkerInv, Waiting, SlotEdited
<1>7. CASE UNCHANGED <<vm, onboard, page, touched>>
  <2>1. Right'  BY <1>1, <1>7, RightKept
  <2> QED  BY <1>1, <1>2, <1>7, <2>1 DEF WorkerInv, Waiting, SlotEdited, Shown
<1> QED  BY <1>5, <1>6, <1>7 DEF Worker!CheckDrift

LEMMA WorkKept ==
  ASSUME UNCHANGED <<attached, units, vm, onboard, page, saved, touched, found>>,
         NEW r, NEW t, NEW f, NEW x, NEW y
  PROVE  /\ Work(r, t, f, x, y) => Work(r, t, f, x, y)'
         /\ Tracks(r, t, f) => Tracks(r, t, f)'
<1>1. Right' <=> Right  BY RightKept
<1>2. Sane(r) => Sane(r)'  BY DEF Sane
<1>3. InSlot(r, t, x, y) => InSlot(r, t, x, y)'  BY DEF InSlot, Worker!Alive, Worker!Slot
<1>4. Reverts(r, t, f, x, y) => Reverts(r, t, f, x, y)'
  BY DEF Reverts, Worker!Values, Worker!Slot, To
<1>5. Applies(r, t, f, y) => Applies(r, t, f, y)'
  BY DEF Applies, Worker!Values, Worker!Slot, Worker!Alive, To
<1>6. Begins(r, t, f) => Begins(r, t, f)'  BY <1>1 DEF Begins, Worker!Alive, Worker!Slot
<1>7. AllBut(r.attr) => AllBut(r.attr)'
  BY DEF AllBut, Worker!Alive, Worker!Values, Worker!Slot
<1>8. Edits(r, t, f) => Edits(r, t, f)'  BY <1>1, <1>7 DEF Edits
<1>9. Rests(r, t) => Rests(r, t)'  BY <1>1 DEF Rests
<1>10. Work(r, t, f, x, y) => Work(r, t, f, x, y)'
  BY <1>2, <1>3, <1>4, <1>5 DEF Work, Pair, Worker!Store
<1> QED  BY <1>6, <1>8, <1>9, <1>10 DEF Tracks, Followed

\* Lines of the profile, one after the other.
FromFile(t) == \A i \in 1 .. Len(t) : t[i][1] \in DOMAIN saved /\ t[i][2] = saved[t[i][1]]
OfSlot(t) == \A i \in 1 .. Len(t) : t[i][1] \in Worker!OnboardAttrs

LEMMA LineIs ==
  ASSUME Filed, NEW a \in Worker!Attrs
  PROVE  /\ Worker!Line(a) \in Seq(Pair) /\ FromFile(Worker!Line(a))
              /\ (a \in Worker!OnboardAttrs => OfSlot(Worker!Line(a)))
         /\ a \in DOMAIN saved => To(Worker!Line(a), a) /\ Len(Worker!Line(a)) = 1
              /\ Worker!Line(a)[1][1] = a
<1>1. CASE a \in DOMAIN saved
  <2>1. PICK v : v = saved[a]  OBVIOUS
  <2>2. v \in Int  BY <1>1, <2>1 DEF Filed
  <2>3. PICK m : m = <<a, v>>  OBVIOUS
  <2>4. m \in Pair /\ m[1] = a /\ m[2] = saved[a]  BY <2>1, <2>2, <2>3 DEF Pair
  <2>5. Worker!Line(a) = <<m>>  BY <1>1, <2>1, <2>3 DEF Worker!Line
  <2>6. Worker!Line(a) \in Seq(Pair) /\ Len(Worker!Line(a)) = 1 /\ Worker!Line(a)[1] = m
    BY <2>4, <2>5
  <2> QED  BY <1>1, <2>4, <2>6 DEF FromFile, OfSlot, To
<1>2. CASE a \notin DOMAIN saved
  <2>1. Worker!Line(a) = <<>>  BY <1>2 DEF Worker!Line
  <2> QED  BY <1>2, <2>1 DEF FromFile, OfSlot
<1> QED  BY <1>1, <1>2

LEMMA LinesJoined ==
  ASSUME NEW s \in Seq(Pair), NEW u \in Seq(Pair)
  PROVE  /\ s \o u \in Seq(Pair) /\ Len(s \o u) = Len(s) + Len(u)
         /\ FromFile(s) /\ FromFile(u) => FromFile(s \o u)
         /\ OfSlot(s) /\ OfSlot(u) => OfSlot(s \o u)
         /\ \A a : To(s, a) \/ To(u, a) <=> To(s \o u, a)
         /\ Len(u) = 1 => (s \o u)[Len(s \o u)] = u[1]
<1>1. PICK z : z = s \o u  OBVIOUS
<1>2. PICK m \in Nat : m = Len(s)  OBVIOUS
<1>3. PICK n \in Nat : n = Len(u)  OBVIOUS
<1>4. z \in Seq(Pair) /\ Len(z) = m + n  BY <1>1, <1>2, <1>3
<1>5. \A i \in 1 .. m + n : z[i] = IF i <= m THEN s[i] ELSE u[i - m]
  BY <1>1, <1>2, <1>3
<1>6. \A i \in 1 .. m + n : \/ i \in 1 .. m /\ z[i] = s[i]
                            \/ i - m \in 1 .. n /\ z[i] = u[i - m]
  BY <1>5
<1>7. \A i \in 1 .. m : i \in 1 .. m + n /\ z[i] = s[i]  BY <1>5
<1>8. \A i \in 1 .. n : i + m \in 1 .. m + n /\ z[i + m] = u[i]
  <2> TAKE i \in 1 .. n
  <2>1. i + m \in 1 .. m + n /\ ~(i + m <= m) /\ (i + m) - m = i  OBVIOUS
  <2> QED  BY <2>1, <1>5
<1>9. ASSUME FromFile(s), FromFile(u) PROVE FromFile(z)
  <2> SUFFICES ASSUME NEW i \in 1 .. m + n
               PROVE  z[i][1] \in DOMAIN saved /\ z[i][2] = saved[z[i][1]]
    BY <1>4 DEF FromFile
  <2>1. CASE i \in 1 .. m /\ z[i] = s[i]  BY <1>2, <1>9, <2>1 DEF FromFile
  <2>2. CASE i - m \in 1 .. n /\ z[i] = u[i - m]
    <3>1. PICK k \in 1 .. n : k = i - m  BY <2>2
    <3>2. z[i] = u[k]  BY <2>2, <3>1
    <3> QED  BY <1>3, <1>9, <3>2 DEF FromFile
  <2> QED  BY <1>6, <2>1, <2>2
<1>10. OfSlot(s) /\ OfSlot(u) => OfSlot(z)  BY <1>2, <1>3, <1>4, <1>6 DEF OfSlot
<1>11. \A a : To(s, a) \/ To(u, a) => To(z, a)  BY <1>2, <1>3, <1>4, <1>7, <1>8 DEF To
<1>12. \A a : To(z, a) => To(s, a) \/ To(u, a)  BY <1>2, <1>3, <1>4, <1>6 DEF To
<1>13. n = 1 => z[m + n] = u[1]  BY <1>8
<1> QED  BY <1>1, <1>2, <1>3, <1>4, <1>9, <1>10, <1>11, <1>12, <1>13

LEMMA ApplyIs ==
  ASSUME Filed
  PROVE  /\ Worker!ApplyOrder \in Seq(Pair) /\ FromFile(Worker!ApplyOrder)
         /\ \A a \in DOMAIN saved : To(Worker!ApplyOrder, a)
         /\ "effect" \in DOMAIN saved => Worker!ApplyOrder[Len(Worker!ApplyOrder)][1]
              = "effect"
<1>1. PICK s, n, c, e : s = Worker!Line("strength") /\ n = Worker!Line("sens")
        /\ c = Worker!Line("colors")
                        /\ e = Worker!Line("effect")
  OBVIOUS
<1>2. /\ "strength" \in Worker!Attrs /\ "sens" \in Worker!Attrs
           /\ "colors" \in Worker!Attrs /\ "effect" \in Worker!Attrs
  BY DEF Worker!Attrs
<1>3. /\ s \in Seq(Pair) /\ FromFile(s) /\ n \in Seq(Pair) /\ FromFile(n)
      /\ c \in Seq(Pair) /\ FromFile(c) /\ e \in Seq(Pair) /\ FromFile(e)
      /\ "strength" \in DOMAIN saved => To(s, "strength")
      /\ "sens" \in DOMAIN saved => To(n, "sens")
      /\ "colors" \in DOMAIN saved => To(c, "colors")
      /\ "effect" \in DOMAIN saved => To(e, "effect") /\ Len(e) = 1 /\ e[1][1] = "effect"
  BY <1>1, <1>2, LineIs
<1>4. PICK s2 : s2 = s \o n  OBVIOUS
<1>5. s2 \in Seq(Pair) /\ FromFile(s2) /\ \A a : To(s, a) \/ To(n, a) => To(s2, a)
  BY <1>3, <1>4, LinesJoined
<1>6. PICK s3 : s3 = s2 \o c  OBVIOUS
<1>7. s3 \in Seq(Pair) /\ FromFile(s3) /\ \A a : To(s2, a) \/ To(c, a) => To(s3, a)
  BY <1>3, <1>5, <1>6, LinesJoined
<1>8. PICK z : z = s3 \o e  OBVIOUS
<1>9. z \in Seq(Pair) /\ FromFile(z) /\ (\A a : To(s3, a) \/ To(e, a) => To(z, a))
      /\ (Len(e) = 1 => z[Len(z)] = e[1])
  BY <1>3, <1>7, <1>8, LinesJoined
<1>10. Worker!ApplyOrder = z
  BY <1>1, <1>4, <1>6, <1>8 DEF Worker!ApplyOrder, Worker!DisplayLast
<1>11. \A a \in DOMAIN saved : a \in {"strength", "sens", "colors", "effect"}
  BY DEF Filed, Worker!Snapshotted
<1>12. \A a \in DOMAIN saved : To(z, a)  BY <1>3, <1>5, <1>7, <1>9, <1>11
<1> QED  BY <1>3, <1>9, <1>10, <1>12

LEMMA CopyIs == ASSUME Filed PROVE Worker!SlotLines \in Seq(Pair) /\ OfSlot(Worker!SlotLines)
<1>1. PICK s, e : s = Worker!Line("strength") /\ e = Worker!Line("effect")  OBVIOUS
<1>2. "strength" \in Worker!Attrs /\ "strength" \in Worker!OnboardAttrs
        /\ "effect" \in Worker!Attrs
      /\ "effect" \in Worker!OnboardAttrs
  BY DEF Worker!Attrs, Worker!OnboardAttrs
<1>3. s \in Seq(Pair) /\ OfSlot(s) /\ e \in Seq(Pair) /\ OfSlot(e)  BY <1>1, <1>2, LineIs
<1>4. s \o e \in Seq(Pair) /\ OfSlot(s \o e)  BY <1>3, LinesJoined
<1> QED  BY <1>1, <1>4 DEF Worker!SlotLines

LEMMA SnapshotIs ==
  ASSUME found \in [Worker!OnboardAttrs -> Int], onboard.snapshot = found
  PROVE  /\ Worker!SnapshotLines \in Seq(Pair) /\ Worker!SnapshotLines # <<>>
              /\ OfSlot(Worker!SnapshotLines)
         /\ \A i \in 1 .. Len(Worker!SnapshotLines) : Worker!SnapshotLines[i][2]
                                                        = found[Worker!SnapshotLines[i][1]]
         /\ \A a \in Worker!OnboardAttrs : To(Worker!SnapshotLines, a)
<1>1. PICK s, b, e : s = <<"strength", found["strength"]>>
        /\ b = <<"brake", found["brake"]>>
                     /\ e = <<"effect", found["effect"]>>
  OBVIOUS
<1>2. Worker!OnboardAttrs = {"strength", "brake", "effect"}
        /\ Worker!OnboardAttrs \subseteq Worker!Attrs
  BY DEF Worker!OnboardAttrs, Worker!Attrs
<1>3. /\ s \in Pair /\ b \in Pair /\ e \in Pair
      /\ s[1] = "strength" /\ b[1] = "brake" /\ e[1] = "effect"
      /\ s[2] = found["strength"] /\ b[2] = found["brake"] /\ e[2] = found["effect"]
  BY <1>1, <1>2 DEF Pair
<1>4. Worker!SnapshotLines = <<s, b, e>>  BY <1>1 DEF Worker!SnapshotLines
<1>5. PICK z : z = <<s, b, e>>  OBVIOUS
<1>6. z \in Seq(Pair) /\ Len(z) = 3 /\ z[1] = s /\ z[2] = b /\ z[3] = e /\ z # <<>>
  BY <1>3, <1>5
<1>7. \A i \in 1 .. 3 : i = 1 \/ i = 2 \/ i = 3  OBVIOUS
<1>8. OfSlot(z)  BY <1>2, <1>3, <1>6, <1>7 DEF OfSlot
<1>9. \A i \in 1 .. Len(z) : z[i][2] = found[z[i][1]]  BY <1>3, <1>6, <1>7
<1>10. \A a \in Worker!OnboardAttrs : To(z, a)
  <2>1. 1 \in 1 .. Len(z) /\ 2 \in 1 .. Len(z) /\ 3 \in 1 .. Len(z)  BY <1>6
  <2> QED  BY <1>2, <1>3, <1>6, <2>1 DEF To
<1> QED  BY <1>4, <1>5, <1>6, <1>8, <1>9, <1>10

LEMMA OneLine ==
  ASSUME NEW a, NEW v, <<a, v>> \in Pair
  PROVE  /\ << <<a, v>> >> \in Seq(Pair) /\ Len(<< <<a, v>> >>) = 1
         /\ \A i \in 1 .. Len(<< <<a, v>> >>) : << <<a, v>> >>[i] = <<a, v>>
         /\ << <<a, v>> >> # <<>>
<1>1. PICK m \in Pair : m = <<a, v>>  OBVIOUS
<1>2. <<m>> \in Seq(Pair) /\ Len(<<m>>) = 1 /\ <<m>> # <<>>
      /\ \A i \in 1 .. Len(<<m>>) : <<m>>[i] = m
  OBVIOUS
<1> QED  BY <1>1, <1>2

LEMMA NoLines ==
  /\ <<>> \in Seq(Pair) /\ OfSlot(<<>>) /\ Len(<<>>) = 0
  /\ \A i \in 1 .. Len(<<>>) : <<>>[i][2] = found[<<>>[i][1]]
BY DEF OfSlot

\* A request is taken: what it will write is what it should, and the page is
\* right or about to be read again.
LEMMA TakeStep == ASSUME Worker!SlotsAssumption, WorkerInv, Worker!Take PROVE WorkerInv'
<1>1. /\ Waiting /\ queue # <<>> /\ queue' = Tail(queue)
      /\ UNCHANGED <<attached, units, vm, onboard, page, saved, touched, found, strayed>>
  BY AtRest DEF Worker!Take, Worker!device, Worker!history
<1>2. PICK r : r = Head(queue)  OBVIOUS
<1>3. PICK t : t
        = IF Worker!Alive(vm) \/ r.op = "edit" THEN Worker!Plan(r) ELSE <<>>  OBVIOUS
<1>4. PICK f : f = IF r.op = "begin" /\ ~Worker!Alive(vm) THEN {"profile"} ELSE {}  OBVIOUS
<1>5. PICK p : p = IF Worker!Alive(vm) THEN Worker!Slot(vm) ELSE Worker!Desk  OBVIOUS
<1>6. PICK x \in BOOLEAN : x = (r.op \in Worker!Onboard /\ t = <<>>)  OBVIOUS
<1>7. job' = Rec(r, t, f, p, x, FALSE)
  BY <1>2, <1>3, <1>4, <1>5, <1>6, Zenon DEF Worker!Take, Rec
<1>8. p \in Worker!Store
  BY <1>5 DEF WorkerInv, Holdings, Worker!Alive, Worker!Slot, Worker!Desk,
       Worker!Store, Worker!SlotsAssumption
<1>9. /\ Sane(r)
      /\ \/ queue' = <<>> /\ Alone(r)
         \/ Led(r) /\ \E c \in Cats : queue' = <<Worker!Load(c)>>
  BY <1>1, <1>2, AtHead
<1>10. Holdings /\ SlotEdited /\ Filed  BY DEF WorkerInv
<1>11. SUFFICES Work(r, t, f, x, FALSE) /\ (~Followed(r) /\ Alone(r) => Tracks(r, t, f))
  <2>1. Work(r, t, f, x, FALSE)'  BY <1>1, <1>11, WorkKept
  <2>2. queue' = <<>> => Tracks(r, t, f)'
    <3>1. SUFFICES ASSUME queue' = <<>> PROVE Tracks(r, t, f)'  OBVIOUS
    <3>2. \A c : queue' # <<Worker!Load(c)>>  BY <3>1
    <3>3. Alone(r)  BY <1>9, <3>2
    <3> QED  BY <1>1, <1>11, <3>3, WorkKept DEF Alone
  <2>3. Doing(r, t, f, p, x, FALSE)'
    BY <1>7, <1>9, <2>1, <2>2 DEF Doing, Led, Cats
  <2>4. Working'  BY <1>8, <2>3 DEF Working, Worker!Store
  <2> QED  BY <1>1, <2>4 DEF WorkerInv, Holdings, SlotEdited, Filed, Shown
<1>12. ASSUME t \in Seq(Pair), InSlot(r, t, x, FALSE), r.op \notin {"revert", "apply"}
       PROVE  Work(r, t, f, x, FALSE)
  BY <1>9, <1>12 DEF Work, Reverts, Applies
<1>13. ASSUME r.op \notin Worker!Onboard PROVE InSlot(r, t, x, FALSE)
  BY <1>13 DEF InSlot
<1>14. CASE r.op = "edit"
  <2>1. r.op \notin Worker!Onboard /\ r.op # "revert" /\ r.op # "apply" /\ r.op # "begin"
    BY <1>14 DEF Worker!Onboard
  <2>2. t = << <<r.attr, r.value>> >> /\ f = {}  BY <1>3, <1>4, <1>14 DEF Worker!Plan
  <2>3. <<r.attr, r.value>> \in Pair  BY <1>9, <1>14 DEF Sane, Pair
  <2>4. Work(r, t, f, x, FALSE)  BY <1>12, <1>13, <2>1, <2>2, <2>3, OneLine
  <2>5. Alone(r) => Tracks(r, t, f)
    BY <1>14, <2>1, <2>2 DEF Alone, Tracks, Begins, Edits, Rests
  <2> QED  BY <2>4, <2>5
<1>15. CASE r.op = "setmode"
  <2>1. r.op \notin Worker!Onboard /\ r.op # "revert" /\ r.op # "apply" /\ Followed(r)
    BY <1>15 DEF Worker!Onboard, Followed
  <2>2. t = <<>> \/ t = << <<"profile", r.value>> >>  BY <1>3, <1>15 DEF Worker!Plan
  <2>3. <<"profile", r.value>> \in Pair  BY <1>9, <1>15 DEF Sane, Pair
  <2>4. t \in Seq(Pair)
    <3>1. CASE t = <<>>  BY <3>1, NoLines
    <3>2. CASE t = << <<"profile", r.value>> >>  BY <2>3, <3>2, OneLine
    <3> QED  BY <2>2, <3>1, <3>2
  <2>5. Work(r, t, f, x, FALSE)  BY <1>12, <1>13, <2>1, <2>4
  <2> QED  BY <2>1, <2>5
<1>16. CASE r.op = "apply"
  <2>1. r.op \notin Worker!Onboard /\ r.op # "revert" /\ r.op # "begin" /\ r.op # "edit"
        /\ r.op \in Ending
    BY <1>16 DEF Worker!Onboard, Ending
  <2>2. t = IF Worker!Alive(vm) THEN Worker!ApplyOrder ELSE <<>>
    BY <1>3, <1>16 DEF Worker!Plan
  <2>3. t \in Seq(Pair) /\ FromFile(t)  BY <1>10, <2>2, ApplyIs DEF FromFile
  <2>4. Worker!Alive(vm) => \A a \in DOMAIN saved : To(t, a)  BY <1>10, <2>2, ApplyIs
  <2>5. To(t, "colors") /\ "effect" \in DOMAIN saved => t[Len(t)][1] = "effect"
    <3>1. CASE Worker!Alive(vm)  BY <1>10, <2>2, <3>1, ApplyIs
    <3>2. CASE ~Worker!Alive(vm)  BY <2>2, <3>2 DEF To
    <3> QED  BY <3>1, <3>2
  <2>6. Applies(r, t, f, FALSE)  BY <2>3, <2>4, <2>5 DEF Applies, FromFile
  <2>7. Work(r, t, f, x, FALSE)
    BY <1>9, <1>13, <2>1, <2>3, <2>6 DEF Work, Reverts
  <2>8. ~Followed(r) => Tracks(r, t, f)  BY <2>1 DEF Tracks, Begins, Edits, Rests
  <2> QED  BY <2>7, <2>8
<1>17. CASE r.op = "begin"
  <2>1. r.op \notin Worker!Onboard /\ r.op # "revert" /\ r.op # "apply" /\ r.op # "edit"
        /\ r.op # "load"
    BY <1>17 DEF Worker!Onboard
  <2>2. PICK m1, m2 : m1 = <<"profile", r.slot>> /\ m2 = <<"verify", r.slot>>  OBVIOUS
  <2>3. t = IF Worker!Alive(vm) THEN <<m1, m2>> ELSE <<>>
    BY <1>3, <1>17, <2>2 DEF Worker!Plan
  <2>4. m1 \in Pair /\ m2 \in Pair  BY <1>9, <1>17, <2>2 DEF Sane, Pair
  <2>5. t \in Seq(Pair)  BY <2>3, <2>4
  <2>6. Work(r, t, f, x, FALSE)  BY <1>12, <1>13, <2>1, <2>5
  <2>7. Alone(r) => Begins(r, t, f)
    <3>1. CASE Worker!Alive(vm)
      <4>1. f = {} /\ vm \in Wheels  BY <1>4, <1>10, <3>1 DEF Holdings, Worker!Alive
      <4> QED  BY <2>1, <2>2, <2>3, <3>1, <4>1 DEF Alone, Begins
    <3>2. CASE ~Worker!Alive(vm)
      <4>1. f # {} /\ t = <<>>  BY <1>4, <1>17, <2>3, <3>2
      <4> QED  BY <2>1, <4>1 DEF Alone, Begins
    <3> QED  BY <3>1, <3>2
  <2>8. Alone(r) => Tracks(r, t, f)
    BY <1>17, <2>1, <2>7 DEF Alone, Tracks, Edits, Rests
  <2> QED  BY <2>6, <2>8
<1>18. CASE r.op \in Worker!Onboard
  <2>1. r.op # "apply" /\ r.op # "begin" /\ r.op # "edit"  BY <1>18 DEF Worker!Onboard
  <2>2. ~Followed(r) => Tracks(r, t, f)
    BY <1>18, <2>1 DEF Tracks, Begins, Edits, Rests
  <2>3. x <=> t = <<>>  BY <1>6, <1>18
  <2>4. onboard # Worker!NoEditor  BY <1>9, <1>18 DEF Sane
  <2>5. found \in [Worker!OnboardAttrs -> Int] /\ onboard.snapshot = found
    BY <1>10, <2>4 DEF SlotEdited
  <2>6. ASSUME t # <<>> PROVE Worker!Alive(vm) /\ Worker!Slot(vm) = onboard.slot /\ Worker!StillActive
    <3>1. Worker!Alive(vm)  BY <1>3, <2>1, <2>6
    <3>2. t = Worker!Plan(r)  BY <1>3, <3>1
    <3>3. Worker!StillActive  BY <1>18, <2>6, <3>2 DEF Worker!Plan, Worker!Onboard
    <3> QED  BY <3>3 DEF Worker!StillActive, Worker!VerifyStillActive
  <2>7. ASSUME t \in Seq(Pair), OfSlot(t) PROVE InSlot(r, t, x, FALSE)
    BY <2>3, <2>6, <2>7 DEF InSlot, OfSlot
  <2>8. CASE r.op = "set"
    <3>1. t = <<>> \/ t = << <<r.attr, r.value>> >>  BY <1>3, <2>8 DEF Worker!Plan
    <3>2. r.attr \in Worker!OnboardAttrs /\ r.value \in Int  BY <1>9, <2>8 DEF Sane
    <3>3. PICK m : m = <<r.attr, r.value>>  OBVIOUS
    <3>4. m \in Pair /\ m[1] = r.attr
      BY <3>2, <3>3 DEF Pair, Worker!OnboardAttrs, Worker!Attrs
    <3>5. t = <<>> \/ t = <<m>>  BY <3>1, <3>3
    <3>6. t \in Seq(Pair) /\ OfSlot(t)
      <4>1. CASE t = <<>>  BY <4>1, NoLines
      <4>2. CASE t = <<m>>
        <5>1. <<m>> \in Seq(Pair) /\ Len(<<m>>) = 1 /\ <<m>>[1] = m  BY <3>4
        <5> QED  BY <3>2, <3>4, <4>2, <5>1 DEF OfSlot
      <4> QED  BY <3>5, <4>1, <4>2
    <3>7. Work(r, t, f, x, FALSE)  BY <1>12, <2>7, <2>8, <3>6
    <3> QED  BY <2>2, <3>7
  <2>9. CASE r.op = "copy"
    <3>1. t = <<>> \/ t = Worker!SlotLines  BY <1>3, <2>9 DEF Worker!Plan
    <3>2. t \in Seq(Pair) /\ OfSlot(t)
      <4>1. CASE t = <<>>  BY <4>1, NoLines
      <4>2. CASE t = Worker!SlotLines  BY <1>10, <4>2, CopyIs
      <4> QED  BY <3>1, <4>1, <4>2
    <3>3. Work(r, t, f, x, FALSE)  BY <1>12, <2>7, <2>9, <3>2
    <3> QED  BY <2>2, <3>3
  <2>10. CASE r.op = "revert"
    <3>1. t = <<>> \/ t = Worker!SnapshotLines  BY <1>3, <2>10 DEF Worker!Plan
    <3>2. t \in Seq(Pair) /\ OfSlot(t) /\ \A i \in 1 .. Len(t) : t[i][2] = found[t[i][1]]
      <4>1. CASE t = <<>>  BY <4>1, NoLines
      <4>2. CASE t = Worker!SnapshotLines  BY <2>5, <4>2, SnapshotIs
      <4> QED  BY <3>1, <4>1, <4>2
    <3>3. ~x => \A a \in Worker!OnboardAttrs : To(t, a)  BY <2>3, <2>5, <3>1, SnapshotIs
    <3>4. Reverts(r, t, f, x, FALSE)  BY <3>2, <3>3 DEF Reverts
    <3>5. InSlot(r, t, x, FALSE)  BY <2>7, <3>2
    <3>6. Work(r, t, f, x, FALSE)  BY <1>9, <2>1, <3>2, <3>4, <3>5 DEF Work, Applies
    <3> QED  BY <2>2, <3>6
  <2> QED  BY <1>18, <2>8, <2>9, <2>10 DEF Worker!Onboard
<1>19. CASE r.op = "exit"
  <2>1. r.op \notin Worker!Onboard /\ r.op # "revert" /\ r.op # "apply" /\ r.op # "begin"
        /\ r.op # "edit" /\ r.op \in Ending
    BY <1>19 DEF Worker!Onboard, Ending
  <2>2. t = <<>> \/ t = << <<"profile", onboard.previous>> >>
    BY <1>3, <1>19 DEF Worker!Plan
  <2>3. onboard # Worker!NoEditor  BY <1>9, <1>19 DEF Sane
  <2>4. onboard.previous \in Worker!Store  BY <1>10, <2>3 DEF SlotEdited
  <2>5. <<"profile", onboard.previous>> \in Pair  BY <2>4 DEF Pair
  <2>6. t \in Seq(Pair)
    <3>1. CASE t = <<>>  BY <3>1, NoLines
    <3>2. CASE t = << <<"profile", onboard.previous>> >>  BY <2>5, <3>2, OneLine
    <3> QED  BY <2>2, <3>1, <3>2
  <2>7. Work(r, t, f, x, FALSE)  BY <1>12, <1>13, <2>1, <2>6
  <2>8. ~Followed(r) => Tracks(r, t, f)  BY <2>1 DEF Tracks, Begins, Edits, Rests
  <2> QED  BY <2>7, <2>8
<1>20. CASE /\ r.op \notin Worker!Onboard
            /\ r.op \notin {"edit", "setmode", "apply", "begin", "exit"}
  <2>1. r.op \notin {"revert", "set", "copy"}  BY <1>20 DEF Worker!Onboard
  <2>2. t = <<>>  BY <1>3, <1>20, <2>1 DEF Worker!Plan
  <2>3. t \in Seq(Pair)  BY <2>2
  <2>4. Work(r, t, f, x, FALSE)  BY <1>12, <1>13, <1>20, <2>1, <2>3
  <2>5. Alone(r) => Tracks(r, t, f)
    BY <1>20, <2>2 DEF Alone, Tracks, Begins, Edits, Rests, Ending
  <2> QED  BY <2>4, <2>5
<1> QED  BY <1>14, <1>15, <1>16, <1>17, <1>18, <1>19, <1>20

\* The lines that are left, when the first is done with: the wheel holds it, or
\* it failed.
LEMMA LinesLeft ==
  ASSUME NEW r, NEW t \in Seq(Pair), t # <<>>, NEW f, NEW g, f \subseteq g, NEW x, NEW y,
         InSlot(r, t, x, y), Reverts(r, t, f, x, y), Applies(r, t, f, y), Filed, Filed',
         UNCHANGED <<attached, vm, onboard, saved, found>>,
         Worker!Alive(vm) => Worker!Slot(vm)' = Worker!Slot(vm),
         \A b \in Worker!OnboardAttrs : r.op = "revert" /\ Worker!Alive(vm) =>
           \/ b = t[1][1] /\ (b \in g \/ Worker!Values(vm)'[b] = t[1][2])
           \/ b # t[1][1] /\ Worker!Values(vm)'[b] = Worker!Values(vm)[b],
         \A b \in DOMAIN saved : r.op = "apply" /\ Worker!Alive(vm) =>
           \/ b = t[1][1] /\ (b \in g \/ Worker!Values(vm)'[b] = t[1][2])
           \/ b # t[1][1] /\ Worker!Values(vm)'[b] = Worker!Values(vm)[b]
           \/ t[1][1] = "colors" /\ b = "effect"
  PROVE  InSlot(r, Tail(t), x, y)' /\ Reverts(r, Tail(t), g, x, y)'
           /\ Applies(r, Tail(t), g, y)'
<1>1. PICK u : u = Tail(t)  OBVIOUS
<1>2. /\ u \in Seq(Pair) /\ Len(u) = Len(t) - 1 /\ Len(t) \in Nat /\ Len(t) >= 1
      /\ \A i \in 1 .. Len(u) : u[i] = t[i + 1] /\ i + 1 \in 1 .. Len(t)
      /\ \A a : To(t, a) => t[1][1] = a \/ To(u, a)
      /\ \A a : To(u, a) => To(t, a)
  BY <1>1, Rest
<1>3. 1 \in 1 .. Len(t)  BY <1>2
<1>4. Worker!Alive(vm)' <=> Worker!Alive(vm)  BY DEF Worker!Alive
<1>5. InSlot(r, u, x, y)'
  <2>1. SUFFICES ASSUME r.op \in Worker!Onboard
                 PROVE  /\ \A i \in 1 .. Len(u) : u[i][1] \in Worker!OnboardAttrs
                        /\ x => u = <<>>
                        /\ ~x /\ ~y => Worker!Alive(vm)' /\ Worker!Slot(vm)' = onboard'.slot
    BY DEF InSlot, Worker!OnboardAttrs, Worker!Onboard
  <2>2. /\ \A i \in 1 .. Len(t) : t[i][1] \in Worker!OnboardAttrs
        /\ x => t = <<>>
        /\ ~x /\ ~y => Worker!Alive(vm) /\ Worker!Slot(vm) = onboard.slot
    BY <2>1 DEF InSlot
  <2> QED  BY <1>2, <1>4, <2>2
<1>6. Reverts(r, u, g, x, y)'
  <2>1. SUFFICES ASSUME r.op = "revert"
                 PROVE  /\ \A i \in 1 .. Len(u) : u[i][2] = found[u[i][1]]
                        /\ ~x /\ ~y => \A a \in Worker!OnboardAttrs :
                                         To(u, a) \/ a \in g \/ Worker!Values(vm)'[a]
                                           = found[a]
    BY DEF Reverts, Worker!OnboardAttrs, To
  <2>2. /\ \A i \in 1 .. Len(t) : t[i][2] = found[t[i][1]]
        /\ ~x /\ ~y => \A a \in Worker!OnboardAttrs : To(t, a) \/ a \in f \/ Worker!Values(vm)[a] = found[a]
    BY <2>1 DEF Reverts
  <2>3. ~x /\ ~y => Worker!Alive(vm)  BY <2>1 DEF InSlot, Worker!Onboard
  <2>4. \A i \in 1 .. Len(u) : u[i][2] = found[u[i][1]]  BY <1>2, <2>2
  <2>5. ASSUME ~x, ~y, NEW a \in Worker!OnboardAttrs
        PROVE  To(u, a) \/ a \in g \/ Worker!Values(vm)'[a] = found[a]
    <3>1. CASE a = t[1][1] /\ (a \in g \/ Worker!Values(vm)'[a] = t[1][2])
      BY <1>3, <2>2, <3>1
    <3>2. CASE a # t[1][1] /\ Worker!Values(vm)'[a] = Worker!Values(vm)[a]
      BY <1>2, <2>2, <2>5, <3>2
    <3> QED  BY <2>1, <2>3, <2>5, <3>1, <3>2
  <2> QED  BY <2>4, <2>5
<1>7. Applies(r, u, g, y)'
  <2>1. SUFFICES ASSUME r.op = "apply"
                 PROVE  /\ \A i \in 1 .. Len(u) : u[i][1] \in DOMAIN saved
                                                   /\ u[i][2] = saved[u[i][1]]
                        /\ ~y /\ Worker!Alive(vm)' => \A a \in DOMAIN saved :
                             To(u, a) \/ a \in g \/ Worker!Values(vm)'[a] = saved[a]
                        /\ To(u, "colors")
                             /\ "effect" \in DOMAIN saved => u[Len(u)][1] = "effect"
    BY DEF Applies, To
  <2>2. /\ \A i \in 1 .. Len(t) : t[i][1] \in DOMAIN saved /\ t[i][2] = saved[t[i][1]]
        /\ ~y /\ Worker!Alive(vm) => \A a \in DOMAIN saved :
                                To(t, a) \/ a \in f \/ Worker!Values(vm)[a] = saved[a]
        /\ To(t, "colors") /\ "effect" \in DOMAIN saved => t[Len(t)][1] = "effect"
    BY <2>1 DEF Applies
  <2>3. \A i \in 1 .. Len(u) : u[i][1] \in DOMAIN saved /\ u[i][2] = saved[u[i][1]]
    BY <1>2, <2>2
  <2>4. ASSUME To(u, "colors"), "effect" \in DOMAIN saved PROVE u[Len(u)][1] = "effect"
    <3>1. t[Len(t)][1] = "effect"  BY <1>2, <2>2, <2>4
    <3>2. Len(u) \in 1 .. Len(u)  BY <1>2, <2>4 DEF To
    <3>3. u[Len(u)] = t[Len(u) + 1] /\ Len(u) + 1 = Len(t)  BY <1>2, <3>2
    <3> QED  BY <3>1, <3>3
  <2>5. ASSUME ~y, Worker!Alive(vm)', NEW a \in DOMAIN saved
        PROVE  To(u, a) \/ a \in g \/ Worker!Values(vm)'[a] = saved[a]
    <3>1. CASE a = t[1][1] /\ (a \in g \/ Worker!Values(vm)'[a] = t[1][2])
      BY <1>3, <2>2, <3>1
    <3>2. CASE a # t[1][1] /\ Worker!Values(vm)'[a] = Worker!Values(vm)[a]
      BY <1>2, <1>4, <2>2, <2>5, <3>2
    <3>3. CASE t[1][1] = "colors" /\ a = "effect"
      <4>1. To(t, "colors")  BY <1>3, <3>3 DEF To
      <4>2. t[Len(t)][1] = "effect"  BY <2>2, <2>5, <3>3, <4>1
      <4>3. Len(t) \in 1 .. Len(t)  BY <1>2
      <4>4. To(t, "effect")  BY <4>2, <4>3 DEF To
      <4> QED  BY <1>2, <3>3, <4>4
    <3> QED  BY <1>4, <2>1, <2>5, <3>1, <3>2, <3>3
  <2> QED  BY <2>3, <2>4, <2>5
<1> QED  BY <1>1, <1>5, <1>6, <1>7

\* A request under way, with one line done with, is one under way.
LEMMA StillDoing ==
  ASSUME WorkerInv, NEW r, NEW t, NEW f, NEW p \in Worker!Store, NEW x \in BOOLEAN,
           NEW y \in BOOLEAN,
         Doing(r, t, f, p, x, y), t # <<>>, NEW g, Holdings', strayed' = FALSE,
         job' = Rec(r, Tail(t), g, p, x, y),
         UNCHANGED <<queue, vm, onboard, page, saved, touched, found>>,
         InSlot(r, Tail(t), x, y)', Reverts(r, Tail(t), g, x, y)', Applies(r, Tail(t), g, y)',
         Tracks(r, t, f) => Begins(r, Tail(t), g)' /\ Edits(r, Tail(t), g)'
  PROVE  WorkerInv'
<1>1. Work(r, t, f, x, y)  BY DEF Doing
<1>2. Sane(r)' /\ Tail(t) \in Seq(Pair) /\ (y => touched)
  BY <1>1, FitsKept, Rest DEF Work
<1>3. Work(r, Tail(t), g, x, y)'  BY <1>2 DEF Work, Pair, Worker!Store
<1>4. Tracks(r, t, f) => Tracks(r, Tail(t), g)'
  <2>1. SUFFICES ASSUME Tracks(r, t, f) PROVE Tracks(r, Tail(t), g)'  OBVIOUS
  <2>2. Rests(r, Tail(t))'  BY <2>1 DEF Tracks, Rests
  <2> QED  BY <2>1, <2>2 DEF Tracks, Followed
<1>5. Doing(r, Tail(t), g, p, x, y)'  BY <1>3, <1>4 DEF Doing, Led, Cats
<1>6. Working'  BY <1>5 DEF Working, Worker!Store
<1> QED  BY <1>6 DEF WorkerInv, SlotEdited, Filed, Shown

\* A write that failed is remembered, and the wheel is what it was.
LEMMA FailStep ==
  ASSUME WorkerInv, NEW r, NEW t, NEW f, NEW p \in Worker!Store, NEW x \in BOOLEAN,
           NEW y \in BOOLEAN,
         Doing(r, t, f, p, x, y), t # <<>>, job' = Worker!Fails(t[1][1]),
         t[1][1] = "verify" => ~(Worker!Alive(vm) /\ "profile" \notin f
           /\ Worker!Slot(vm) = t[1][2]),
         UNCHANGED <<attached, units, queue, vm, onboard, page, saved, touched, found, strayed>>
  PROVE  WorkerInv'
<1>1. PICK g : g = f \cup {t[1][1]}  OBVIOUS
<1>2. job = Rec(r, t, f, p, x, y) /\ Work(r, t, f, x, y)  BY DEF Doing
<1>3. job' = Rec(r, Tail(t), g, p, x, y)  BY <1>1, <1>2, RecFails
<1>4. Holdings' /\ strayed' = FALSE /\ Filed /\ Filed'  BY DEF WorkerInv, Holdings, Filed
<1>5. t \in Seq(Pair) /\ InSlot(r, t, x, y) /\ Reverts(r, t, f, x, y) /\ Applies(r, t, f, y)
  BY <1>2 DEF Work
<1>6. Worker!Values(vm)' = Worker!Values(vm) /\ Worker!Slot(vm)' = Worker!Slot(vm)
        /\ (Worker!Alive(vm)' <=> Worker!Alive(vm))
  BY DEF Worker!Values, Worker!Slot, Worker!Alive
<1>7. f \subseteq g /\ t[1][1] \in g /\ g # {}  BY <1>1
<1>8. InSlot(r, Tail(t), x, y)' /\ Reverts(r, Tail(t), g, x, y)'
        /\ Applies(r, Tail(t), g, y)'
  <2>1. \A b \in Worker!OnboardAttrs : r.op = "revert" /\ Worker!Alive(vm) =>
           \/ b = t[1][1] /\ (b \in g \/ Worker!Values(vm)'[b] = t[1][2])
           \/ b # t[1][1] /\ Worker!Values(vm)'[b] = Worker!Values(vm)[b]
    BY <1>6, <1>7
  <2>2. \A b \in DOMAIN saved : r.op = "apply" /\ Worker!Alive(vm) =>
           \/ b = t[1][1] /\ (b \in g \/ Worker!Values(vm)'[b] = t[1][2])
           \/ b # t[1][1] /\ Worker!Values(vm)'[b] = Worker!Values(vm)[b]
           \/ t[1][1] = "colors" /\ b = "effect"
    BY <1>6, <1>7
  <2> QED  BY <1>4, <1>5, <1>6, <1>7, <2>1, <2>2, LinesLeft
<1>9. Right' <=> Right  BY RightKept
<1>10. ASSUME Tracks(r, t, f) PROVE Begins(r, Tail(t), g)' /\ Edits(r, Tail(t), g)'
  <2>1. Begins(r, Tail(t), g)'
    <3>1. SUFFICES ASSUME r.op = "begin" PROVE Begins(r, Tail(t), g)'  BY DEF Begins
    <3>2. PICK m1, m2 : m1 = <<"profile", r.slot>> /\ m2 = <<"verify", r.slot>>  OBVIOUS
    <3>3. m1[1] = "profile" /\ m2[1] = "verify" /\ m2[2] = r.slot  BY <3>2
    <3>4. \/ t = <<m1, m2>> /\ f = {} /\ Right
          \/ /\ t = <<m2>>
             /\ \/ "profile" \in f /\ Right
                \/ f = {} /\ (touched \/ (Worker!Alive(vm) /\ Worker!Slot(vm) = r.slot))
      BY <1>10, <3>1, <3>2 DEF Tracks, Begins
    <3>5. CASE t = <<m1, m2>> /\ f = {} /\ Right
      <4>1. Tail(t) = <<m2>> /\ t[1] = m1  BY <3>5
      <4>2. "profile" \in g  BY <1>1, <3>3, <4>1
      <4> QED  BY <1>7, <1>9, <3>2, <3>5, <4>1, <4>2 DEF Begins
    <3>6. CASE /\ t = <<m2>>
               /\ \/ "profile" \in f /\ Right
                  \/ f = {} /\ (touched \/ (Worker!Alive(vm) /\ Worker!Slot(vm) = r.slot))
      <4>1. Tail(t) = <<>> /\ t[1] = m2  BY <3>6, Short
      <4>2. touched \/ Right  BY <3>3, <3>6, <4>1
      <4> QED  BY <1>7, <1>9, <4>1, <4>2 DEF Begins
    <3> QED  BY <3>4, <3>5, <3>6
  <2>2. Edits(r, Tail(t), g)'
    <3>1. SUFFICES ASSUME r.op = "edit" PROVE Edits(r, Tail(t), g)'  BY DEF Edits
    <3>2. PICK m : m = <<r.attr, r.value>>  OBVIOUS
    <3>3. t = <<m>> /\ Right  BY <1>10, <3>1, <3>2 DEF Tracks, Edits
    <3>4. Tail(t) = <<>>  BY <3>3, Short
    <3> QED  BY <1>7, <1>9, <3>3, <3>4 DEF Edits
  <2> QED  BY <2>1, <2>2
<1> QED  BY <1>3, <1>4, <1>8, <1>10, StillDoing

LEMMA UnderWay ==
  ASSUME WorkerInv, job # Worker!Idle
  PROVE  \E r, t, f : \E p \in Worker!Store, x \in BOOLEAN, y \in BOOLEAN :
           /\ Doing(r, t, f, p, x, y) /\ job = Rec(r, t, f, p, x, y)
           /\ job.op = r.op /\ job.req = r /\ job.todo = t /\ job.failed = f
           /\ job.previous = p /\ job.refused = x /\ job.pressed = y
<1>1. PICK r, t, f : \E p \in Worker!Store, x \in BOOLEAN, y \in BOOLEAN : Doing(r, t, f, p, x, y)
  BY DEF WorkerInv, Working
<1>2. PICK p \in Worker!Store, x \in BOOLEAN, y \in BOOLEAN : Doing(r, t, f, p, x, y)
  BY <1>1
<1>3. job = Rec(r, t, f, p, x, y)  BY <1>2 DEF Doing
<1> QED  BY <1>2, <1>3, RecIs

\* A write that took: the wheel holds the value, in the slot it was for.
LEMMA SettingWritten ==
  ASSUME WorkerInv, NEW r, NEW t, NEW f, NEW p \in Worker!Store, NEW x \in BOOLEAN,
           NEW y \in BOOLEAN,
         Doing(r, t, f, p, x, y), t # <<>>, NEW a, NEW v, a = t[1][1], v = t[1][2],
         a \in Worker!Attrs, v \in Int, Worker!Alive(vm), units' = Worker!Written(vm, a, v),
         job' = Rec(r, Tail(t), f, p, x, y), strayed' = FALSE,
         UNCHANGED <<attached, queue, vm, onboard, page, saved, touched, found>>
  PROVE  WorkerInv'
<1>1. Holdings /\ Filed /\ Filed'  BY DEF WorkerInv, Filed
<1>2. /\ units' \in [Wheels -> [slot : Worker!Store, store : [Worker!Store -> [Worker!Attrs -> Int]]]]
      /\ units'[vm].slot = Worker!Slot(vm)
      /\ \A b \in Worker!Attrs : units'[vm].store[Worker!Slot(vm)][b]
                            = IF b = a THEN v
                              ELSE IF a = "colors"
                                /\ b = "effect" THEN Worker!Custom ELSE Worker!Values(vm)[b]
  BY <1>1, WriteIs
<1>3. Holdings'  BY <1>1, <1>2 DEF Holdings, Worker!Store, Worker!Attrs
<1>4. /\ Worker!Slot(vm)' = Worker!Slot(vm) /\ (Worker!Alive(vm)' <=> Worker!Alive(vm))
      /\ \A b \in Worker!Attrs : Worker!Values(vm)'[b]
                            = IF b = a THEN v
                              ELSE IF a = "colors"
                                /\ b = "effect" THEN Worker!Custom ELSE Worker!Values(vm)[b]
  BY <1>2 DEF Worker!Slot, Worker!Values, Worker!Alive
<1>5. Work(r, t, f, x, y)  BY DEF Doing
<1>6. t \in Seq(Pair) /\ InSlot(r, t, x, y) /\ Reverts(r, t, f, x, y) /\ Applies(r, t, f, y)
  BY <1>5 DEF Work
<1>7. 1 \in 1 .. Len(t)  BY <1>6
<1>8. InSlot(r, Tail(t), x, y)' /\ Reverts(r, Tail(t), f, x, y)'
        /\ Applies(r, Tail(t), f, y)'
  <2>1. \A b \in Worker!OnboardAttrs : r.op = "revert" /\ Worker!Alive(vm) =>
           \/ b = t[1][1] /\ (b \in f \/ Worker!Values(vm)'[b] = t[1][2])
           \/ b # t[1][1] /\ Worker!Values(vm)'[b] = Worker!Values(vm)[b]
    <3> SUFFICES ASSUME NEW b \in Worker!OnboardAttrs, r.op = "revert"
                 PROVE  \/ b = a /\ Worker!Values(vm)'[b] = v
                        \/ b # a /\ Worker!Values(vm)'[b] = Worker!Values(vm)[b]
      OBVIOUS
    <3>1. a \in Worker!OnboardAttrs  BY <1>6, <1>7 DEF InSlot, Worker!Onboard
    <3>2. a # "colors" /\ b \in Worker!Attrs  BY <3>1 DEF Worker!OnboardAttrs, Worker!Attrs
    <3> QED  BY <1>4, <3>2
  <2>2. \A b \in DOMAIN saved : r.op = "apply" /\ Worker!Alive(vm) =>
           \/ b = t[1][1] /\ (b \in f \/ Worker!Values(vm)'[b] = t[1][2])
           \/ b # t[1][1] /\ Worker!Values(vm)'[b] = Worker!Values(vm)[b]
           \/ t[1][1] = "colors" /\ b = "effect"
    <3>1. DOMAIN saved \subseteq Worker!Attrs
      BY <1>1 DEF Filed, Worker!Snapshotted, Worker!Attrs
    <3> QED  BY <1>4, <3>1
  <2> QED  BY <1>1, <1>4, <1>6, <2>1, <2>2, LinesLeft
<1>9. ASSUME Tracks(r, t, f) PROVE Begins(r, Tail(t), f)' /\ Edits(r, Tail(t), f)'
  <2>1. Begins(r, Tail(t), f)'
    <3>1. SUFFICES ASSUME r.op = "begin" PROVE FALSE  BY DEF Begins
    <3>2. PICK m1, m2 : m1 = <<"profile", r.slot>> /\ m2 = <<"verify", r.slot>>  OBVIOUS
    <3>3. m1[1] = "profile" /\ m2[1] = "verify"  BY <3>2
    <3>4. t = <<m1, m2>> \/ t = <<m2>>  BY <1>9, <3>1, <3>2 DEF Tracks, Begins
    <3>5. a = "profile" \/ a = "verify"
      <4>1. t[1] = m1 \/ t[1] = m2  BY <3>4
      <4> QED  BY <3>3, <4>1
    <3> QED  BY <3>5 DEF Worker!Attrs
  <2>2. Edits(r, Tail(t), f)'
    <3>1. SUFFICES ASSUME r.op = "edit" PROVE Edits(r, Tail(t), f)'  BY DEF Edits
    <3>2. PICK m : m = <<r.attr, r.value>>  OBVIOUS
    <3>3. t = <<m>> /\ Right /\ f = {}  BY <1>9, <3>1, <3>2 DEF Tracks, Edits
    <3>4. Tail(t) = <<>> /\ t[1] = m  BY <3>3, Short
    <3>5. a = r.attr  BY <3>2, <3>4
    <3>6. r.attr # "colors"  BY <1>9, <3>1 DEF Tracks, Followed
    <3>7. AllBut(r.attr)'
      <4>1. SUFFICES ASSUME vm # Worker!None, ~touched, onboard = Worker!NoEditor,
                              page.cat = "settings"
                     PROVE  /\ Worker!Alive(vm)' /\ page.rows \in [Worker!Attrs -> Int]
                            /\ \A b \in Worker!Attrs \ {r.attr} : page.rows[b]
                                                                    = Worker!Values(vm)'[b]
        BY DEF AllBut, Worker!None, Worker!NoEditor, Worker!Desk, Worker!Attrs
      <4>2. page.rows = Worker!Values(vm)  BY <3>3, <4>1 DEF Right, Worker!Rows
      <4>3. Worker!Values(vm) \in [Worker!Attrs -> Int]
        BY <1>1 DEF Holdings, Worker!Alive, Worker!Values, Worker!Slot
      <4> QED  BY <1>4, <3>5, <3>6, <4>2, <4>3
    <3> QED  BY <3>3, <3>4, <3>7 DEF Edits
  <2> QED  BY <2>1, <2>2
<1> QED  BY <1>3, <1>8, <1>9, StillDoing

LEMMA SlotWritten ==
  ASSUME WorkerInv, NEW r, NEW t, NEW f, NEW p \in Worker!Store, NEW x \in BOOLEAN,
           NEW y \in BOOLEAN,
         Doing(r, t, f, p, x, y), t # <<>>, NEW v \in Worker!Store,
           t[1][1] = "profile", v = t[1][2],
         Worker!Alive(vm), units' = Worker!Written(vm, "profile", v),
         job' = Rec(r, Tail(t), f, p, x, y), strayed' = FALSE,
         UNCHANGED <<attached, queue, vm, onboard, page, saved, touched, found>>
  PROVE  WorkerInv'
<1>1. Holdings /\ Filed /\ vm \in Wheels  BY DEF WorkerInv, Holdings, Worker!Alive
<1>2. units' = [units EXCEPT ![vm].slot = v]  BY DEF Worker!Written
<1>3. /\ units' \in [Wheels -> [slot : Worker!Store, store : [Worker!Store -> [Worker!Attrs -> Int]]]]
      /\ units'[vm].slot = v
  BY <1>1, <1>2, SwitchIs
<1>4. Holdings' /\ Worker!Slot(vm)' = v /\ (Worker!Alive(vm)' <=> Worker!Alive(vm))
  BY <1>1, <1>3 DEF Holdings, Worker!Slot, Worker!Alive, Worker!Store, Worker!Attrs
<1>5. Work(r, t, f, x, y)  BY DEF Doing
<1>6. t \in Seq(Pair) /\ InSlot(r, t, x, y) /\ Applies(r, t, f, y)  BY <1>5 DEF Work
<1>7. 1 \in 1 .. Len(t)  BY <1>6
<1>8. r.op \notin Worker!Onboard
  <2>1. "profile" \notin Worker!OnboardAttrs  BY DEF Worker!OnboardAttrs
  <2> QED  BY <1>6, <1>7, <2>1 DEF InSlot
<1>9. r.op # "apply"
  <2>1. "profile" \notin DOMAIN saved  BY <1>1 DEF Filed, Worker!Snapshotted
  <2> QED  BY <1>6, <1>7, <2>1 DEF Applies
<1>10. InSlot(r, Tail(t), x, y)' /\ Reverts(r, Tail(t), f, x, y)'
         /\ Applies(r, Tail(t), f, y)'
  BY <1>8, <1>9 DEF InSlot, Reverts, Applies, Worker!Onboard
<1>11. ASSUME Tracks(r, t, f) PROVE Begins(r, Tail(t), f)' /\ Edits(r, Tail(t), f)'
  <2>1. Begins(r, Tail(t), f)'
    <3>1. SUFFICES ASSUME r.op = "begin" PROVE Begins(r, Tail(t), f)'  BY DEF Begins
    <3>2. PICK m1, m2 : m1 = <<"profile", r.slot>> /\ m2 = <<"verify", r.slot>>  OBVIOUS
    <3>3. m1[1] = "profile" /\ m2[1] = "verify" /\ m1[2] = r.slot  BY <3>2
    <3>4. (t = <<m1, m2>> /\ f = {}) \/ t = <<m2>>  BY <1>11, <3>1, <3>2 DEF Tracks, Begins
    <3>5. t # <<m2>>
      <4>1. t = <<m2>> => t[1] = m2  OBVIOUS
      <4> QED  BY <3>3, <4>1
    <3>6. t = <<m1, m2>> /\ f = {}  BY <3>4, <3>5
    <3>7. Tail(t) = <<m2>> /\ t[1] = m1  BY <3>6
    <3>8. v = r.slot  BY <3>3, <3>7
    <3> QED  BY <1>1, <1>4, <3>2, <3>6, <3>7, <3>8 DEF Begins
  <2>2. Edits(r, Tail(t), f)'
    <3>1. SUFFICES ASSUME r.op = "edit" PROVE Edits(r, Tail(t), f)'  BY DEF Edits
    <3>2. PICK m : m = <<r.attr, r.value>>  OBVIOUS
    <3>3. t = <<m>> /\ f = {}  BY <1>11, <3>1, <3>2 DEF Tracks, Edits
    <3>4. Tail(t) = <<>> /\ t[1] = m  BY <3>3, Short
    <3>5. r.attr = "profile"  BY <3>2, <3>4
    <3>6. page.cat # "settings"
      <4>1. Sane(r) /\ "profile" \notin Worker!Attrs  BY <1>5 DEF Work, Worker!Attrs
      <4> QED  BY <3>1, <3>5, <4>1 DEF Sane
    <3>7. AllBut(r.attr)'  BY <3>6 DEF AllBut
    <3> QED  BY <3>3, <3>4, <3>7 DEF Edits
  <2> QED  BY <2>1, <2>2
<1> QED  BY <1>4, <1>10, <1>11, StillDoing

LEMMA WriteStep == ASSUME WorkerInv, Worker!WriteAttr PROVE WorkerInv'
<1>1. job # Worker!Idle /\ job.todo # <<>> /\ job.todo[1][1] # "verify"
      /\ UNCHANGED <<attached, queue, vm, onboard, page, saved, touched, found>>
  BY DEF Worker!WriteAttr
<1>2. PICK r, t, f : \E p \in Worker!Store, x \in BOOLEAN, y \in BOOLEAN :
           /\ Doing(r, t, f, p, x, y) /\ job = Rec(r, t, f, p, x, y)
           /\ job.op = r.op /\ job.req = r /\ job.todo = t /\ job.failed = f
           /\ job.previous = p /\ job.refused = x /\ job.pressed = y
  BY <1>1, UnderWay
<1>3. PICK p \in Worker!Store, x \in BOOLEAN, y \in BOOLEAN :
           /\ Doing(r, t, f, p, x, y) /\ job = Rec(r, t, f, p, x, y)
           /\ job.op = r.op /\ job.req = r /\ job.todo = t /\ job.failed = f
           /\ job.previous = p /\ job.refused = x /\ job.pressed = y
  BY <1>2
<1>4. PICK a, v : a = t[1][1] /\ v = t[1][2]  OBVIOUS
<1>5. t # <<>> /\ a # "verify"  BY <1>1, <1>3, <1>4
<1>6. CASE job' = Worker!Fails(a) /\ UNCHANGED <<units, strayed>>
  BY <1>1, <1>3, <1>4, <1>5, <1>6, FailStep
<1>7. CASE /\ IF a = "profile" THEN Worker!Alive(vm) /\ vm \notin Classic
              ELSE Worker!Writable(vm, a)
           /\ units' = Worker!Written(vm, a, v) /\ job' = [job EXCEPT !.todo = Tail(@)]
           /\ strayed' = (strayed \/ (job.op \in Worker!Onboard /\ ~job.pressed
                                        /\ Worker!Slot(vm) # onboard.slot))
  <2>1. job' = Rec(r, Tail(t), f, p, x, y)  BY <1>3, <1>7, RecTail
  <2>2. Worker!Alive(vm)  BY <1>7 DEF Worker!Writable
  <2>3. Work(r, t, f, x, y)  BY <1>3 DEF Doing
  <2>4. t[1] \in Pair  BY <1>5, <2>3, Rest DEF Work
  <2>5. (a \in Worker!Attrs /\ v \in Int) \/ (a = "profile" /\ v \in Worker!Store)
    BY <1>4, <1>5, <2>4 DEF Pair
  <2>6. ~(r.op \in Worker!Onboard /\ ~y /\ Worker!Slot(vm) # onboard.slot)
    BY <1>5, <2>3 DEF Work, InSlot
  <2>7. strayed' = FALSE
    <3>1. strayed = FALSE  BY DEF WorkerInv
    <3> QED  BY <1>3, <1>7, <2>6, <3>1
  <2>8. Doing(r, t, f, p, x, y)  BY <1>3
  <2>9. units' = Worker!Written(vm, a, v)  BY <1>7
  <2>10. UNCHANGED <<attached, queue, vm, onboard, page, saved, touched, found>>  BY <1>1
  <2>11. CASE a \in Worker!Attrs /\ v \in Int
    BY <1>4, <1>5, <2>1, <2>2, <2>7, <2>8, <2>9, <2>10, <2>11, SettingWritten
  <2>12. CASE a = "profile" /\ v \in Worker!Store
    <3>1. units' = Worker!Written(vm, "profile", v)  BY <2>9, <2>12
    <3>2. t[1][1] = "profile" /\ v = t[1][2]  BY <1>4, <2>12
    <3> QED  BY <1>5, <2>1, <2>2, <2>7, <2>8, <2>10, <2>12, <3>1, <3>2, SlotWritten
  <2> QED  BY <2>5, <2>11, <2>12
<1> QED  BY <1>3, <1>4, <1>6, <1>7, Zenon DEF Worker!WriteAttr

LEMMA VerifyStep == ASSUME WorkerInv, Worker!Verify PROVE WorkerInv'
<1>1. job # Worker!Idle /\ job.todo # <<>> /\ job.todo[1][1] = "verify"
      /\ UNCHANGED <<attached, units, queue, vm, onboard, page, saved, touched, found, strayed>>
  BY DEF Worker!Verify, Worker!device, Worker!history
<1>2. PICK r, t, f : \E p \in Worker!Store, x \in BOOLEAN, y \in BOOLEAN :
           /\ Doing(r, t, f, p, x, y) /\ job = Rec(r, t, f, p, x, y)
           /\ job.op = r.op /\ job.req = r /\ job.todo = t /\ job.failed = f
           /\ job.previous = p /\ job.refused = x /\ job.pressed = y
  BY <1>1, UnderWay
<1>3. PICK p \in Worker!Store, x \in BOOLEAN, y \in BOOLEAN :
           /\ Doing(r, t, f, p, x, y) /\ job = Rec(r, t, f, p, x, y)
           /\ job.op = r.op /\ job.req = r /\ job.todo = t /\ job.failed = f
           /\ job.previous = p /\ job.refused = x /\ job.pressed = y
  BY <1>2
<1>4. t # <<>> /\ t[1][1] = "verify"  BY <1>1, <1>3
<1>5. CASE ~(Worker!Alive(vm) /\ "profile" \notin f /\ Worker!Slot(vm) = t[1][2])
  <2>1. job' = Worker!Fails(t[1][1])  BY <1>3, <1>4, <1>5 DEF Worker!Verify
  <2> QED  BY <1>1, <1>3, <1>4, <1>5, <2>1, FailStep
<1>6. CASE Worker!Alive(vm) /\ "profile" \notin f /\ Worker!Slot(vm) = t[1][2]
  <2>1. job' = [job EXCEPT !.todo = Tail(@)]  BY <1>3, <1>6, Zenon DEF Worker!Verify
  <2>2. job' = Rec(r, Tail(t), f, p, x, y)  BY <1>3, <2>1, RecTail
  <2>3. Work(r, t, f, x, y) /\ Filed /\ Filed'  BY <1>1, <1>3 DEF Doing, WorkerInv, Filed
  <2>4. t \in Seq(Pair) /\ InSlot(r, t, x, y) /\ Reverts(r, t, f, x, y)
          /\ Applies(r, t, f, y)
    BY <2>3 DEF Work
  <2>5. Worker!Values(vm)' = Worker!Values(vm) /\ Worker!Slot(vm)' = Worker!Slot(vm)
    BY <1>1 DEF Worker!Values, Worker!Slot
  <2>6. InSlot(r, Tail(t), x, y)' /\ Reverts(r, Tail(t), f, x, y)'
          /\ Applies(r, Tail(t), f, y)'
    <3>1. \A b \in Worker!OnboardAttrs : r.op = "revert" /\ Worker!Alive(vm) =>
             \/ b = t[1][1] /\ (b \in f \/ Worker!Values(vm)'[b] = t[1][2])
             \/ b # t[1][1] /\ Worker!Values(vm)'[b] = Worker!Values(vm)[b]
      BY <1>4, <2>5 DEF Worker!OnboardAttrs
    <3>2. \A b \in DOMAIN saved : r.op = "apply" /\ Worker!Alive(vm) =>
             \/ b = t[1][1] /\ (b \in f \/ Worker!Values(vm)'[b] = t[1][2])
             \/ b # t[1][1] /\ Worker!Values(vm)'[b] = Worker!Values(vm)[b]
             \/ t[1][1] = "colors" /\ b = "effect"
      BY <1>4, <2>3, <2>5 DEF Filed, Worker!Snapshotted
    <3> QED  BY <1>1, <1>4, <2>3, <2>4, <2>5, <3>1, <3>2, LinesLeft
  <2>7. ASSUME Tracks(r, t, f) PROVE Begins(r, Tail(t), f)' /\ Edits(r, Tail(t), f)'
    <3>1. Begins(r, Tail(t), f)'
      <4>1. SUFFICES ASSUME r.op = "begin" PROVE Begins(r, Tail(t), f)'  BY DEF Begins
      <4>2. PICK m1, m2 : m1 = <<"profile", r.slot>> /\ m2 = <<"verify", r.slot>>  OBVIOUS
      <4>3. m1[1] = "profile" /\ m2[1] = "verify"  BY <4>2
      <4>4. t = <<m1, m2>> \/ (t = <<m2>> /\ ("profile" \in f \/ f = {}))
        BY <1>4, <2>7, <4>1, <4>2 DEF Tracks, Begins
      <4>5. t # <<m1, m2>>
        <5>1. t = <<m1, m2>> => t[1] = m1  OBVIOUS
        <5> QED  BY <1>4, <4>3, <5>1
      <4>6. t = <<m2>> /\ f = {}  BY <1>6, <4>4, <4>5
      <4>7. Tail(t) = <<>>  BY <4>6, Short
      <4>8. vm \in Wheels  BY <1>6 DEF WorkerInv, Holdings, Worker!Alive
      <4> QED  BY <1>1, <4>6, <4>7, <4>8 DEF Begins
    <3>2. Edits(r, Tail(t), f)'
      <4>1. SUFFICES ASSUME r.op = "edit" PROVE FALSE  BY DEF Edits
      <4>2. PICK m : m = <<r.attr, r.value>>  OBVIOUS
      <4>3. t = <<m>>  BY <1>4, <2>7, <4>1, <4>2 DEF Tracks, Edits
      <4>4. t[1] = m  BY <4>3, Short
      <4>5. r.attr = "verify"  BY <1>4, <4>2, <4>4
      <4>6. Sane(r) /\ "verify" \notin Worker!Attrs  BY <2>3 DEF Work, Worker!Attrs
      <4> QED  BY <4>1, <4>5, <4>6 DEF Sane
    <3> QED  BY <3>1, <3>2
  <2>8. Holdings' /\ strayed' = FALSE  BY <1>1 DEF WorkerInv, Holdings
  <2>9. Doing(r, t, f, p, x, y) /\ t # <<>>  BY <1>3, <1>4
  <2>10. UNCHANGED <<queue, vm, onboard, page, saved, touched, found>>  BY <1>1
  <2> QED  BY <2>2, <2>6, <2>7, <2>8, <2>9, <2>10, StillDoing
<1> QED  BY <1>5, <1>6


\* The rows after one setting's edit, when the others were right.
LEMMA RowRight ==
  ASSUME Holdings, page.cat = "settings", vm # Worker!None, NEW a \in Worker!Attrs,
         Worker!Alive(vm), page.rows \in [Worker!Attrs -> Int],
         \A b \in Worker!Attrs \ {a} : page.rows[b] = Worker!Values(vm)[b]
  PROVE  Worker!RowOnly(a) = Worker!Values(vm)
<1>1. Worker!Values(vm) \in [Worker!Attrs -> Int]
  BY DEF Holdings, Worker!Alive, Worker!Values, Worker!Slot
<1>2. page.rows # Worker!Gone
  <2>1. DOMAIN page.rows = Worker!Attrs /\ DOMAIN Worker!Gone = {}  BY DEF Worker!Gone
  <2> QED  BY <2>1
<1>3. Worker!RowOnly(a) = [page.rows EXCEPT ![a] = Worker!Values(vm)[a]]
  BY <1>2 DEF Worker!RowOnly
<1> QED  BY <1>1, <1>3

\* The rows after an edit that failed, when they were right.
LEMMA RowSame ==
  ASSUME Holdings, vm # Worker!None, page.rows = Worker!Rows(vm, page.cat), NEW r,
           Sane(r), r.op = "edit"
  PROVE  Worker!RowOnly(r.attr) = page.rows
<1>1. CASE ~Worker!Alive(vm)  BY <1>1 DEF Worker!RowOnly, Worker!Rows
<1>2. CASE page.rows = Worker!Gone  BY <1>2 DEF Worker!RowOnly
<1>3. CASE Worker!Alive(vm) /\ page.rows # Worker!Gone /\ page.cat = "profiles"
  <2>1. PICK s, b : s = Worker!Slot(vm) /\ b = (Worker!Slot(vm) # Worker!Desk)  OBVIOUS
  <2>2. page.rows = [slot |-> s, mode |-> b]  BY <1>3, <2>1, Zenon DEF Worker!Rows
  <2>3. Worker!RowOnly(r.attr) = [page.rows EXCEPT !.slot = s]
    BY <1>3, <2>1, Zenon DEF Worker!RowOnly
  <2> QED  BY <2>2, <2>3
<1>4. CASE Worker!Alive(vm) /\ page.rows # Worker!Gone /\ page.cat = "settings"
  <2>1. r.attr \in Worker!Attrs /\ page.rows = Worker!Values(vm)
    BY <1>4 DEF Sane, Worker!Rows
  <2>2. Worker!Values(vm) \in [Worker!Attrs -> Int]
    BY <1>4 DEF Holdings, Worker!Alive, Worker!Values, Worker!Slot
  <2>3. Worker!RowOnly(r.attr) = Worker!Values(vm)  BY <1>4, <2>1, <2>2, RowRight
  <2> QED  BY <2>1, <2>3
<1> QED  BY <1>1, <1>2, <1>3, <1>4 DEF Sane

\* What the reply leaves of the editor, the profile and the page.
LEMMA Replied ==
  ASSUME Holdings, Filed, Shown, Worker!Finish, NEW r, NEW f, NEW p,
         Sane(r), job.op = r.op, job.req = r, job.failed = f, job.previous = p
  PROVE  /\ job' = Worker!Idle /\ UNCHANGED <<attached, units, queue, vm, strayed>>
         /\ \/ /\ r.op = "begin" /\ f = {} /\ found' = Worker!Content
               /\ onboard' = [slot |-> r.slot, previous |-> p, snapshot |-> Worker!Content]
            \/ ~(r.op = "begin" /\ f = {}) /\ r.op = "exit" /\ onboard' = Worker!NoEditor
            \/ /\ ~(r.op = "begin" /\ f = {}) /\ r.op # "exit"
               /\ onboard' = onboard /\ found' = found
         /\ Filed' /\ Shown'
         /\ r.op # "load" => page'.cat = page.cat
         /\ Worker!Reloads => page'.rows = Worker!Rows(vm, page'.cat)
         /\ ~Worker!Reloads => /\ r.op # "load" /\ touched' = touched
                               /\ page'.rows
                                    = IF r.op
                                    = "edit" THEN Worker!RowOnly(r.attr) ELSE page.rows
<1>1. job' = Worker!Idle /\ UNCHANGED <<attached, units, queue, vm, strayed>>
  BY DEF Worker!Finish, Worker!device
<1>2. /\ r.op = "begin"
           /\ f = {} => onboard'
           = [slot |-> r.slot, previous |-> p, snapshot |-> Worker!Content]
      /\ ~(r.op = "begin" /\ f = {}) /\ r.op = "exit" => onboard' = Worker!NoEditor
      /\ ~(r.op = "begin" /\ f = {}) /\ r.op # "exit" => onboard' = onboard
  BY DEF Worker!Finish, Worker!EditorAfter, Worker!SnapshotTaken, Worker!SnapshotOfSlot
<1>3. found' = IF r.op = "begin" /\ f = {} THEN Worker!Content ELSE found
  BY DEF Worker!Finish
<1>4. Filed'
  <2>1. CASE job.op = "save" /\ Worker!Alive(vm)
    <3>1. PICK S : S = {x \in Worker!Snapshotted : vm \notin Classic \/ x
            = "strength"}  OBVIOUS
    <3>2. saved' = [a \in S |-> Worker!Values(vm)[a]]
      BY <2>1, <3>1, Zenon DEF Worker!Finish, Worker!SavedValues
    <3>3. Worker!Values(vm) \in [Worker!Attrs -> Int]
      BY <2>1 DEF Holdings, Worker!Alive, Worker!Values, Worker!Slot
    <3>4. S \in SUBSET Worker!Snapshotted /\ S \subseteq Worker!Attrs
      BY <3>1 DEF Worker!Snapshotted, Worker!Attrs
    <3>5. saved' \in [S -> Int]  BY <3>2, <3>3, <3>4
    <3> QED  BY <3>4, <3>5 DEF Filed, Worker!Snapshotted
  <2>2. CASE saved' = Worker!NoFile
    <3>1. {} \in SUBSET Worker!Snapshotted  OBVIOUS
    <3>2. saved' \in [{} -> Int]  BY <2>2 DEF Worker!NoFile
    <3> QED  BY <3>1, <3>2 DEF Filed
  <2>3. CASE saved' = saved  BY <2>3 DEF Filed, Worker!Snapshotted
  <2> QED  BY <2>1, <2>2, <2>3 DEF Worker!Finish
<1>5. PICK c : c = IF r.op = "load" THEN r.cat ELSE page.cat  OBVIOUS
<1>6. PICK n : n = IF Worker!Reloads THEN Worker!Rows(vm, c)
                   ELSE IF r.op = "edit" THEN Worker!RowOnly(r.attr) ELSE page.rows
  OBVIOUS
<1>7. page' = [cat |-> c, rows |-> n]  BY <1>5, <1>6, Zenon DEF Worker!Finish
<1>8. c \in Cats  BY <1>5 DEF Sane, Shown
<1>9. page'.cat = c /\ page'.rows = n  BY <1>7
<1>10. Shown'  BY <1>7, <1>8, <1>9 DEF Shown, Cats
<1>11. r.op = "load" => Worker!Reloads  BY DEF Worker!Reloads
<1>12. ~Worker!Reloads => touched' = touched  BY DEF Worker!Finish
<1> QED  BY <1>1, <1>2, <1>3, <1>4, <1>5, <1>6, <1>9, <1>10, <1>11, <1>12

\* Once a request is answered the page is the wheel's, or the next reads it.
LEMMA FinishStep == ASSUME WorkerInv, Worker!Finish PROVE WorkerInv'
<1>1. job # Worker!Idle /\ job.todo = <<>>  BY DEF Worker!Finish
<1>2. PICK r, t, f : \E p \in Worker!Store, x \in BOOLEAN, y \in BOOLEAN :
           /\ Doing(r, t, f, p, x, y) /\ job = Rec(r, t, f, p, x, y)
           /\ job.op = r.op /\ job.req = r /\ job.todo = t /\ job.failed = f
           /\ job.previous = p /\ job.refused = x /\ job.pressed = y
  BY <1>1, UnderWay
<1>3. PICK p \in Worker!Store, x \in BOOLEAN, y \in BOOLEAN :
           /\ Doing(r, t, f, p, x, y) /\ job = Rec(r, t, f, p, x, y)
           /\ job.op = r.op /\ job.req = r /\ job.todo = t /\ job.failed = f
           /\ job.previous = p /\ job.refused = x /\ job.pressed = y
  BY <1>2
<1>4. t = <<>> /\ Sane(r)  BY <1>1, <1>3 DEF Doing, Work
<1>5. Holdings /\ SlotEdited /\ Filed /\ Shown /\ strayed = FALSE  BY DEF WorkerInv
<1>6. job.op = r.op /\ job.req = r /\ job.failed = f /\ job.previous = p  BY <1>3
<1>7. (queue = <<>> /\ Tracks(r, t, f)) \/ (Led(r)
        /\ \E c \in Cats : queue = <<Worker!Load(c)>>)
  BY <1>3 DEF Doing
<1>8. /\ job' = Worker!Idle /\ UNCHANGED <<attached, units, queue, vm, strayed>>
      /\ \/ /\ r.op = "begin" /\ f = {} /\ found' = Worker!Content
            /\ onboard' = [slot |-> r.slot, previous |-> p, snapshot |-> Worker!Content]
         \/ ~(r.op = "begin" /\ f = {}) /\ r.op = "exit" /\ onboard' = Worker!NoEditor
         \/ /\ ~(r.op = "begin" /\ f = {}) /\ r.op # "exit"
            /\ onboard' = onboard /\ found' = found
      /\ Filed' /\ Shown'
      /\ r.op # "load" => page'.cat = page.cat
      /\ Worker!Reloads => page'.rows = Worker!Rows(vm, page'.cat)
      /\ ~Worker!Reloads => /\ r.op # "load" /\ touched' = touched
                            /\ page'.rows
                                 = IF r.op
                                 = "edit" THEN Worker!RowOnly(r.attr) ELSE page.rows
  BY <1>4, <1>5, <1>6, Replied
<1>9. r.op = "begin" /\ f = {} => vm \in Wheels
  <2>1. r.op = "begin" => ~Led(r)  BY DEF Led
  <2> QED  BY <1>7, <2>1 DEF Tracks, Begins
<1>10. SlotEdited' /\ (r.op = "begin" /\ f = {} => onboard' # Worker!NoEditor)
  <2>1. CASE r.op = "begin" /\ f = {}
    <3>1. PICK n : n = Worker!Content  OBVIOUS
    <3>2. Worker!Values(vm) \in [Worker!Attrs -> Int]
      BY <1>5, <1>9, <2>1 DEF Holdings, Worker!Values, Worker!Slot
    <3>3. n \in [Worker!OnboardAttrs -> Int]
      BY <3>1, <3>2 DEF Worker!Content, Worker!OnboardAttrs, Worker!Attrs
    <3>4. r.slot \in Worker!Store \ {Worker!Desk}  BY <1>4, <2>1 DEF Sane
    <3>5. found' = n /\ onboard' = [slot |-> r.slot, previous |-> p, snapshot |-> n]
      BY <1>8, <2>1, <3>1
    <3>6. onboard'.slot = r.slot /\ Worker!NoEditor.slot = Worker!Desk
      BY <3>5 DEF Worker!NoEditor
    <3> QED  BY <3>3, <3>4, <3>5, <3>6 DEF SlotEdited, Worker!Store, Worker!Desk,
                  Worker!OnboardAttrs, Worker!NoEditor
  <2>2. CASE onboard' = Worker!NoEditor /\ ~(r.op = "begin" /\ f = {})
    BY <2>2 DEF SlotEdited, Worker!NoEditor, Worker!Desk
  <2>3. CASE onboard' = onboard /\ found' = found /\ ~(r.op = "begin" /\ f = {})
    BY <1>5, <2>3 DEF SlotEdited, Worker!Store, Worker!Desk, Worker!OnboardAttrs,
         Worker!NoEditor
  <2> QED  BY <1>8, <2>1, <2>2, <2>3
<1>11. Holdings' /\ strayed' = FALSE  BY <1>5, <1>8 DEF Holdings
<1>12. ASSUME queue = <<>>, Tracks(r, t, f) PROVE Right'
  <2>1. SUFFICES ASSUME vm # Worker!None, ~touched', onboard' = Worker!NoEditor
                 PROVE  page'.rows = Worker!Rows(vm, page'.cat)
    BY <1>8 DEF Right, Worker!None, Worker!NoEditor, Worker!Desk, Worker!Rows,
         Worker!Alive, Worker!Values, Worker!Slot
  <2>2. CASE Worker!Reloads  BY <1>8, <2>2
  <2>3. CASE ~Worker!Reloads
    <3>1. /\ page'.cat = page.cat /\ ~touched /\ r.op \notin Ending
          /\ page'.rows = IF r.op = "edit" THEN Worker!RowOnly(r.attr) ELSE page.rows
      BY <1>6, <1>8, <2>1, <2>3 DEF Worker!Reloads, Ending
    <3>2. onboard = Worker!NoEditor /\ ~(r.op = "begin" /\ f = {})
      BY <1>8, <1>10, <2>1, <3>1 DEF Ending
    <3>3. r.op \notin Worker!Onboard  BY <1>4, <3>2 DEF Sane
    <3>4. CASE r.op = "edit"
      <4>1. \/ f # {} /\ Right
            \/ f = {} /\ AllBut(r.attr)
        BY <1>4, <1>12, <3>4 DEF Tracks, Edits
      <4>2. CASE f # {} /\ Right
        <5>1. page.rows = Worker!Rows(vm, page.cat)  BY <2>1, <3>1, <3>2, <4>2 DEF Right
        <5>2. Worker!RowOnly(r.attr) = page.rows  BY <1>4, <1>5, <2>1, <3>4, <5>1, RowSame
        <5> QED  BY <3>1, <3>4, <5>1, <5>2
      <4>3. CASE f = {} /\ AllBut(r.attr)
        <5>1. r.attr \notin {"profile", "effect"}
          BY <1>6, <2>3, <3>4, <4>3 DEF Worker!Reloads, Worker!DeviceWideAttrs,
               Worker!DeviceWide
        <5>2. page.cat = "settings" /\ r.attr \in Worker!Attrs  BY <1>4, <3>4, <5>1 DEF Sane
        <5>3. /\ Worker!Alive(vm) /\ page.rows \in [Worker!Attrs -> Int]
              /\ \A b \in Worker!Attrs \ {r.attr} : page.rows[b] = Worker!Values(vm)[b]
          BY <2>1, <3>1, <3>2, <4>3, <5>2 DEF AllBut
        <5>4. Worker!RowOnly(r.attr) = Worker!Values(vm)
          BY <1>5, <2>1, <5>2, <5>3, RowRight
        <5> QED  BY <3>1, <3>4, <5>2, <5>3, <5>4 DEF Worker!Rows
      <4> QED  BY <4>1, <4>2, <4>3
    <3>5. CASE r.op # "edit"
      <4>1. Right
        <5>1. CASE r.op = "begin"
          <6>1. PICK m1, m2 : m1 = <<"profile", r.slot>>
                  /\ m2 = <<"verify", r.slot>>  OBVIOUS
          <6>2. t # <<m1, m2>> /\ t # <<m2>>  BY <1>4
          <6> QED  BY <1>12, <3>1, <3>2, <5>1, <6>1, <6>2 DEF Tracks, Begins
        <5>2. CASE r.op # "begin"  BY <1>12, <3>1, <3>3, <3>5, <5>2 DEF Tracks, Rests
        <5> QED  BY <5>1, <5>2
      <4> QED  BY <2>1, <3>1, <3>2, <3>5, <4>1 DEF Right
    <3> QED  BY <3>4, <3>5
  <2> QED  BY <2>2, <2>3
<1>13. Waiting'
  <2>1. CASE queue = <<>> /\ Tracks(r, t, f)  BY <1>8, <1>12, <2>1 DEF Waiting
  <2>2. CASE \E c \in Cats : queue = <<Worker!Load(c)>>
    <3>1. PICK c \in Cats : queue' = <<Worker!Load(c)>>  BY <1>8, <2>2
    <3> QED  BY <3>1, LoadWaits
  <2> QED  BY <1>7, <2>1, <2>2
<1> QED  BY <1>8, <1>10, <1>11, <1>13 DEF WorkerInv

LEMMA WorkerStarts == ASSUME Worker!SlotsAssumption, Worker!Init PROVE WorkerInv
<1>1. Worker!Desk \in Worker!Store  BY DEF Worker!SlotsAssumption, Worker!Store, Worker!Desk
<1>2. PICK d : d = [s \in Worker!Store |-> [a \in Worker!Attrs |-> IF s
        = Worker!Desk THEN 0 ELSE s % 2]]  OBVIOUS
<1>3. d \in [Worker!Store -> [Worker!Attrs -> Int]]
  <2>1. \A s \in Worker!Store : (IF s = Worker!Desk THEN 0 ELSE s % 2) \in Int
    BY DEF Worker!SlotsAssumption, Worker!Store
  <2> QED  BY <1>2, <2>1
<1>4. units = [w \in Wheels |-> [slot |-> Worker!Desk, store |-> d]]
  BY <1>2, Zenon DEF Worker!Init
<1>5. Holdings
  <2>1. attached \subseteq Wheels  BY DEF Worker!Init
  <2> QED  BY <1>1, <1>3, <1>4, <2>1 DEF Holdings
<1>6. page.cat \in Cats /\ page = [cat |-> page.cat, rows |-> page.rows]
  BY DEF Worker!Init, Cats
<1>7. Filed
  <2>1. {} \in SUBSET Worker!Snapshotted /\ saved \in [{} -> Int]
    BY DEF Worker!Init, Worker!NoFile
  <2> QED  BY <2>1 DEF Filed
<1>8. Waiting
  <2>1. PICK q : q = Worker!Load(page.cat)  OBVIOUS
  <2>2. queue = <<q>>  BY <2>1 DEF Worker!Init, Worker!Load
  <2>3. Sane(q) /\ ~Followed(q) /\ q.op = "load"
    BY <1>6, <2>1 DEF Sane, Worker!Load, Worker!Onboard, Followed
  <2> QED  BY <2>2, <2>3 DEF Waiting, Alone
<1> QED  BY <1>5, <1>6, <1>7, <1>8 DEF WorkerInv, SlotEdited, Shown, Worker!Init

LEMMA WorkerSteps == ASSUME Worker!SlotsAssumption, WorkerInv,
  [Worker!Next]_(Worker!vars) PROVE WorkerInv'
<1>1. CASE UNCHANGED Worker!vars
  <2>1. /\ UNCHANGED <<attached, units, queue, job, vm, onboard, page, saved>>
        /\ UNCHANGED <<touched, found, strayed>>
    BY <1>1 DEF Worker!vars
  <2>2. Holdings' /\ SlotEdited' /\ Filed' /\ Shown' /\ strayed' = FALSE
    BY <2>1 DEF WorkerInv, Holdings, SlotEdited, Filed, Shown
  <2>3. CASE job = Worker!Idle /\ Waiting
    <3>1. job' = Worker!Idle  BY <2>1, <2>3
    <3>2. CASE queue = <<>> /\ Right
      <4>1. Right'  BY <2>1, <3>2, RightKept
      <4> QED  BY <2>1, <2>2, <3>1, <3>2, <4>1 DEF WorkerInv, Waiting
    <3>3. CASE \E r : queue = <<r>> /\ Alone(r)
      <4>1. PICK r : queue = <<r>> /\ Alone(r)  BY <3>3
      <4>2. Right' <=> Right  BY <2>1, RightKept
      <4>3. Sane(r)'  BY <2>1, <4>1, FitsKept DEF Alone
      <4>4. Alone(r)'  BY <4>1, <4>2, <4>3 DEF Alone, Followed
      <4> QED  BY <2>1, <2>2, <3>1, <4>1, <4>4 DEF WorkerInv, Waiting
    <3>4. CASE \E r : Sane(r) /\ Led(r) /\ \E c \in Cats : queue = <<r, Worker!Load(c)>>
      <4>1. PICK r : Sane(r) /\ Led(r) /\ \E c \in Cats : queue = <<r, Worker!Load(c)>>
        BY <3>4
      <4>2. Sane(r)'  BY <2>1, <4>1, FitsKept
      <4>3. PICK c \in Cats : queue' = <<r, Worker!Load(c)>>  BY <2>1, <4>1
      <4>4. Waiting'  BY <4>1, <4>2, <4>3 DEF Waiting, Led
      <4> QED  BY <2>2, <3>1, <4>4 DEF WorkerInv
    <3> QED  BY <2>3, <3>2, <3>3, <3>4 DEF Waiting
  <2>4. CASE Working
    <3>1. PICK r, t, f : \E p \in Worker!Store, x \in BOOLEAN, y \in BOOLEAN : Doing(r, t, f, p, x, y)
      BY <2>4 DEF Working
    <3>2. PICK p \in Worker!Store, x \in BOOLEAN, y \in BOOLEAN : Doing(r, t, f, p, x, y)
      BY <3>1
    <3>3. Work(r, t, f, x, y)' /\ (Tracks(r, t, f) => Tracks(r, t, f)')
      BY <2>1, <3>2, WorkKept DEF Doing
    <3>4. Doing(r, t, f, p, x, y)'  BY <2>1, <3>2, <3>3 DEF Doing, Led, Cats
    <3>5. Working'  BY <3>4 DEF Working, Worker!Store
    <3> QED  BY <2>2, <3>5 DEF WorkerInv
  <2> QED  BY <2>3, <2>4 DEF WorkerInv
<1> QED
  BY <1>1, ButtonStep, PlugStep, ClickStep, DiscoverStep, SelectStep, RefuseStep, TakeStep,
     WriteStep, VerifyStep, FinishStep, DriftStep DEF Worker!Next, Worker!Worker

\* What the invariant promises: of a state, and of the step that answers.
LEMMA WorkerSound == ASSUME WorkerInv PROVE Worker!PageShowsOwnWork /\ Worker!EditsStayInSlot
<1>1. Worker!PageShowsOwnWork
  <2>1. SUFFICES ASSUME queue = <<>>, job = Worker!Idle, vm # Worker!None, ~touched,
                          onboard = Worker!NoEditor
                 PROVE  page.rows = Worker!Rows(vm, page.cat)
    BY DEF Worker!PageShowsOwnWork
  <2>2. Right  BY <2>1, AtRest, Emptied
  <2> QED  BY <2>1, <2>2 DEF Right
<1> QED  BY <1>1 DEF Worker!EditsStayInSlot, WorkerInv

LEMMA AnswerSound == ASSUME WorkerInv,
  [Worker!Next]_(Worker!vars) PROVE Worker!RevertDone /\ Worker!ApplyDone
<1>1. SUFFICES ASSUME job # Worker!Idle,
                        job' = Worker!Idle PROVE Worker!RevertDone /\ Worker!ApplyDone
  BY DEF Worker!RevertDone, Worker!ApplyDone
<1>0. \A r, t, f, p, x, y : Rec(r, t, f, p, x, y) # Worker!Idle
  <2>1. SUFFICES ASSUME NEW r, NEW t, NEW f, NEW p, NEW x, NEW y PROVE Rec(r, t, f, p,
                          x, y) # Worker!Idle
    OBVIOUS
  <2> QED  BY RecIs
<1>2. PICK r, t, f : \E p \in Worker!Store, x \in BOOLEAN, y \in BOOLEAN :
           /\ Doing(r, t, f, p, x, y) /\ job = Rec(r, t, f, p, x, y)
           /\ job.op = r.op /\ job.req = r /\ job.todo = t /\ job.failed = f
           /\ job.previous = p /\ job.refused = x /\ job.pressed = y
  BY <1>1, UnderWay
<1>3. PICK p \in Worker!Store, x \in BOOLEAN, y \in BOOLEAN :
           /\ Doing(r, t, f, p, x, y) /\ job = Rec(r, t, f, p, x, y)
           /\ job.op = r.op /\ job.req = r /\ job.todo = t /\ job.failed = f
           /\ job.previous = p /\ job.refused = x /\ job.pressed = y
  BY <1>2
<1>4. job = Rec(r, t, f, p, x, y)  BY <1>3
<1>5. \A a : Worker!Fails(a) # Worker!Idle
  <2>1. SUFFICES ASSUME NEW a PROVE Worker!Fails(a) # Worker!Idle  OBVIOUS
  <2>2. Worker!Fails(a) = Rec(r, Tail(t), f \cup {a}, p, x, y)  BY <1>4, RecFails
  <2> QED  BY <2>2, <1>0
<1>6. Worker!Pressed # Worker!Idle
  <2>1. Worker!Pressed = Rec(r, t, f, p, x, TRUE)  BY <1>4, RecPressed
  <2> QED  BY <2>1, <1>0
<1>7. [job EXCEPT !.todo = Tail(@)] # Worker!Idle
  <2>1. [job EXCEPT !.todo = Tail(@)] = Rec(r, Tail(t), f, p, x, y)  BY <1>4, RecTail
  <2> QED  BY <2>1, <1>0
<1>8. Worker!Finish
  <2>1. ~UNCHANGED Worker!vars  BY <1>1 DEF Worker!vars
  <2>2. ~Worker!ProfileButton /\ ~Worker!Plug
    BY <1>1, <1>6 DEF Worker!ProfileButton, Worker!Plug
  <2>3. ~Worker!Click /\ ~Worker!Discover /\ ~Worker!SelectWheel /\ ~Worker!Refuse
          /\ ~Worker!Take /\ ~Worker!CheckDrift
    BY <1>1 DEF Worker!Click, Worker!Discover, Worker!SelectWheel, Worker!Refuse,
         Worker!Take, Worker!CheckDrift
  <2>4. ~Worker!WriteAttr  BY <1>1, <1>5, <1>7, Zenon DEF Worker!WriteAttr
  <2>5. ~Worker!Verify  BY <1>1, <1>5, <1>7, Zenon DEF Worker!Verify
  <2> QED  BY <2>1, <2>2, <2>3, <2>4, <2>5, Zenon DEF Worker!Next, Worker!Worker
<1>9. t = <<>>  BY <1>3, <1>8 DEF Worker!Finish
<1>10. \A a : ~To(t, a)  BY <1>9 DEF To
<1>11. Reverts(r, t, f, x, y) /\ Applies(r, t, f, y)  BY <1>3 DEF Doing, Work
<1>12. job.op = r.op /\ job.failed = f /\ job.refused = x /\ job.pressed = y  BY <1>3
<1>13. Worker!RevertDone  BY <1>10, <1>11, <1>12 DEF Worker!RevertDone, Reverts
<1>14. Worker!ApplyDone  BY <1>10, <1>11, <1>12 DEF Worker!ApplyDone, Applies
<1> QED  BY <1>13, <1>14
=============================================================================
