----------------------------- MODULE RevDisplay -----------------------------
(***************************************************************************)
(* logi-tf-sim leds.rs, screen.rs and game_gain.rs: what the daemon shows  *)
(* on a wheel and the game gain it follows, through sysfs files whose      *)
(* reads and writes may fail.  Each is fed the newest sample on every turn *)
(* of the loop and writes only a change, and only at a pace, so a skipped  *)
(* or failed write has to be made good by a later turn.                    *)
(***************************************************************************)
EXTENDS Integers, FiniteSets

CONSTANTS Backends,   \* of "attr" (DD wheels) and "classdevs" (G923)
          Pairs,      \* LED pairs; levels are 0..2*Pairs
          Pace,       \* MIN_WRITE_INTERVAL of the strip, in turns
          HalfFlash,  \* PIT_FLASH_HALF_PERIOD, in turns
          Refresh,    \* MIN_WRITE_INTERVAL of the screen, POLL of the gain
          MaxChanges, \* bounds of the model: changes of the telemetry,
          MaxFaults   \*   and failing accesses, per backend

Levels  == 0..(2 * Pairs)
Never   == -1              \* None of an Option
LitCount(level) == (level + 1) \div 2

VARIABLES
  backend,    \* Backend
  driven,     \* telemetry flows and the daemon feeds the display
  revs, pit,  \* the newest sample: its rev_level, its pit limiter
  strip,      \* what the strip shows: a level, or the lit pairs
  lit,        \* Classdevs::lit, the pairs believed lit
  lastLevel,  \* RevLeds::last_level
  sinceWrite, \* age of RevLeds::last_write, Pace when there is none
  flash,      \* age of pit_flash_since, or Never
  text, last, \* what the screen shows, and Screen::last
  sinceText,  \* age of Screen::last_write
  gain, sincePoll, published,   \* GameGain and the attribute it polls
  changes, budget

vars == <<backend, driven, revs, pit, strip, lit, lastLevel, sinceWrite, flash,
          text, last, sinceText, gain, sincePoll, published, changes, budget>>

telemetry == <<driven, revs, pit, published, changes>>
screen    == <<text, last, sinceText>>
leds      == <<strip, lit, lastLevel, sinceWrite, flash>>

\* discover_for: the wheel's own attribute first, else a whole quintet of its
\* LEDs, and never another wheel's.
Discovered(attr, devs) ==
  IF attr THEN {"attr"} ELSE IF devs = 1..Pairs THEN {"classdevs"} ELSE {}

\* at and at_classdevs: the strip shows the wheel's own idle
\* pattern, the screen its own page.
Init ==
  /\ backend \in Backends
  /\ \E attr \in BOOLEAN, devs \in SUBSET (1..Pairs) : backend \in Discovered(attr, devs)
  /\ driven = TRUE /\ revs = 0 /\ pit = FALSE
  /\ strip = (IF backend = "attr" THEN Never ELSE {}) /\ lit = {}
  /\ lastLevel = Never /\ sinceWrite = Pace /\ flash = Never
  /\ text = Never /\ last = Never /\ sinceText = Refresh
  /\ gain = 1 /\ sincePoll = Refresh /\ published = 1
  /\ changes = 0 /\ budget = MaxFaults[backend]

Capped(n, bound) == IF n < bound THEN n + 1 ELSE bound

\* Telemetry moves, stops and comes back; the driver publishes a gain.
Sample ==
  /\ driven /\ changes < MaxChanges /\ changes' = changes + 1
  /\ revs' \in Levels /\ pit' \in BOOLEAN /\ published' \in {0, 1}
  /\ UNCHANGED <<backend, driven, gain, sincePoll, budget>> /\ UNCHANGED <<leds, screen>>

\* Time between two turns of the loop.
Elapse ==
  /\ sinceWrite' = Capped(sinceWrite, Pace)
  /\ sinceText' = Capped(sinceText, Refresh)
  /\ sincePoll' = Capped(sincePoll, Refresh)
  /\ flash' = IF flash = Never THEN Never ELSE (flash + 1) % (2 * HalfFlash)
  /\ UNCHANGED <<backend, strip, lit, lastLevel, text, last, gain, budget>>
  /\ UNCHANGED telemetry

PitFlashLevel(f) == IF f < HalfFlash THEN 2 * Pairs ELSE 0

Flashing == IF flash = Never THEN 0 ELSE flash

WantedLevel == IF pit THEN PitFlashLevel(Flashing) ELSE revs

\* write_level: the attribute in one write, or the classdevs that change,
\* those in failed excepted; ok says whether all of it landed.
Landed(level, failed) ==
  IF backend = "attr"
    THEN [strip |-> IF failed = {} THEN level ELSE strip, lit |-> lit, ok |-> failed = {}]
    ELSE LET target  == 1..LitCount(level)
             changed == (target \ lit) \cup (lit \ target)
             bad     == changed \cap failed
             now     == (lit \ (changed \ bad)) \cup (target \cap (changed \ bad))
             show    == (strip \ (changed \ bad)) \cup (target \cap (changed \ bad))
         IN [strip |-> show, lit |-> now, ok |-> bad = {}]

RecordsAnyway(level, w) ==
  /\ lastLevel' = level /\ sinceWrite' = 0

\* Only a write that landed is recorded, so that a failed one is retried.
Records(level, w) ==
  IF w.ok THEN lastLevel' = level /\ sinceWrite' = 0
          ELSE UNCHANGED <<lastLevel, sinceWrite>>

Faults == {f \in SUBSET (1..Pairs) : Cardinality(f) <= budget}

\* RevLeds::update
Update ==
  /\ driven
  /\ flash' = IF pit THEN Flashing ELSE Never
  /\ IF lastLevel = WantedLevel \/ sinceWrite < Pace
       THEN UNCHANGED <<strip, lit, lastLevel, sinceWrite, budget>>
       ELSE \E failed \in Faults :
              LET w == Landed(WantedLevel, failed)
              IN /\ strip' = w.strip /\ lit' = w.lit
                 /\ Records(WantedLevel, w)
                 /\ budget' = budget - Cardinality(failed)
  /\ UNCHANGED <<backend, gain, sincePoll>> /\ UNCHANGED <<telemetry, screen>>

\* render: the text is told apart by the level it was made from.
Render == revs

\* Screen::update paces the failures too.
UpdateScreen ==
  /\ driven /\ last # Render /\ sinceText = Refresh
  /\ sinceText' = 0
  /\ \/ text' = Render /\ last' = Render /\ UNCHANGED budget
     \/ budget > 0 /\ budget' = budget - 1 /\ UNCHANGED <<text, last>>
  /\ UNCHANGED <<backend, gain, sincePoll>> /\ UNCHANGED <<telemetry, leds>>

\* GameGain::scale: a read that fails leaves the last value alone.
Scale ==
  /\ driven /\ sincePoll = Refresh /\ sincePoll' = 0
  /\ \/ gain' = published /\ UNCHANGED budget
     \/ budget > 0 /\ budget' = budget - 1 /\ UNCHANGED gain
  /\ UNCHANGED backend /\ UNCHANGED <<telemetry, leds, screen>>

\* RevLeds::stop and Screen::stop, every write best effort: blank the strip
\* and hand it back to its idle pattern, the screen to the wheel.
Stop ==
  /\ driven /\ changes < MaxChanges /\ changes' = changes + 1 /\ driven' = FALSE
  /\ \E failed \in Faults :
       /\ strip' = IF backend = "attr" THEN IF failed = {} THEN Never ELSE strip
                   ELSE strip \cap failed
       /\ budget' = budget - Cardinality(failed)
  /\ lit' = {} /\ lastLevel' = Never /\ sinceWrite' = Pace
  /\ text' \in {Never} \cup (IF budget > 0 THEN {text} ELSE {}) /\ last' = Never
  /\ UNCHANGED <<backend, revs, pit, flash, sinceText, gain, sincePoll, published>>

\* The next session of the daemon.
Resume ==
  /\ ~driven /\ changes < MaxChanges /\ changes' = changes + 1 /\ driven' = TRUE
  /\ UNCHANGED <<backend, revs, pit, published, gain, sincePoll, budget>>
  /\ UNCHANGED <<leds, screen>>

Next == Sample \/ Elapse \/ Update \/ UpdateScreen \/ Scale \/ Stop \/ Resume

\* The loop of the daemon turns about once a millisecond.
Fairness == WF_vars(Elapse) /\ WF_vars(Update) /\ WF_vars(UpdateScreen) /\ WF_vars(Scale)

Spec == Init /\ [][Next]_vars /\ Fairness

-----------------------------------------------------------------------------
Showing == IF backend = "attr" THEN strip = revs ELSE strip = 1..LitCount(revs)

(***************************************************************************)
(* What the driver sees catches up with the game: when samples stop        *)
(* changing, the strip, the screen and the gain end up at the last of      *)
(* them, whatever was paced away or failed on the way.                     *)
(***************************************************************************)
CaughtUp == driven /\ ~pit => Showing /\ text = Render /\ gain = published

CatchesUp == <>[]CaughtUp

(***************************************************************************)
(* The same, for the strip alone: leds.rs says of a failed write that "the *)
(* level is retried" and of a partial one that "the unwritten ones are     *)
(* retried on the next call".                                              *)
(***************************************************************************)
StripCatchesUp == <>[](driven /\ ~pit => Showing)
=============================================================================
