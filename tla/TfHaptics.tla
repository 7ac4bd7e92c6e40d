----------------------------- MODULE TfHaptics -----------------------------
(***************************************************************************)
(* logi-tf-sim decoders and effects.rs: from a game's datagrams to a block *)
(* of samples.  The decoders learn a redline the format omits; the mixer   *)
(* folds the newest sample into every effect and then renders each one.    *)
(*                                                                         *)
(* A block is one step.  Levels are small integers and a waveform is its   *)
(* level: what the properties tell apart is whether an effect sounds.      *)
(***************************************************************************)
EXTENDS Integers, FiniteSetsExt

CONSTANTS Revs,     \* engine speeds: zero, up to Redline, and beyond Ceiling
          Ceiling,  \* RPM_CEILING of the decoders
          Redline,  \* the redline of the formats that carry one
          Lag,      \* the denominator of the one-pole smoothing
          Dwell,    \* REV_LIMIT_DWELL_MS in blocks
          BurstLen, \* the length of a burst in blocks
          Gain,     \* EffectGains, of each layer in a few steps
          MaxPackets\* bound of the model: datagrams

\* What the proofs assume: an engine is within its redline, and a speed beyond
\* it is one the decoders refuse.
RevsAssumption ==
  /\ Revs \subseteq Nat /\ Redline \in Nat /\ Ceiling \in Nat /\ Dwell \in Nat
  /\ \A r \in Revs : r <= Redline \/ r > Ceiling

Formats == {"classic", "f1", "wrc", "outgauge", "pcars"}
Lights  == {"none", "pit", "abs", "tc"}   \* dashboard lamps

\* What a format does not carry a decoder leaves at Default.
\* None carries a slip, a roughness, an impact or a wing: those layers of
\* the mixer stay at rest and are left out.
Rest == [rpm |-> 0, max |-> 0, gear |-> 0, lamp |-> "none", air |-> FALSE]

VARIABLES
  learned,   \* running_max_rpm of the f1 and outgauge decoders
  tel,       \* the newest sample that parsed
  limMax, dwell, engaged,  \* RevLimiter
  lastGear,  \* GearShift::last_gear
  burst,     \* blocks left of GearShift's burst
  smooth,    \* the one-pole levels of the layers and of the duck
  mixed,     \* what the mixer put out for the last block
  drawn,     \* history: the engine speed of the last block rendered
  steady,    \* history: blocks rendered since it last rose
  packets

vars == <<learned, tel, limMax, dwell, engaged, lastGear, burst, smooth,
          mixed, drawn, steady, packets>>

effects == <<limMax, dwell, engaged, lastGear, burst, smooth, mixed,
             drawn, steady>>

Full == Lag * Lag

Smoothed == [limiter |-> 0, pit |-> 0, abs |-> 0, slip |-> 0, duck |-> Full]

\* Decoder::new and Mixer::new
Init ==
  /\ learned = [f \in {"f1", "outgauge"} |-> 0] /\ tel = Rest
  /\ limMax = 0 /\ dwell = 0 /\ engaged = FALSE /\ lastGear = -1
  /\ burst = 0 /\ smooth = Smoothed
  /\ mixed = 0 /\ drawn = 0 /\ steady = 0 /\ packets = 0

(***************************************************************************)
(* The decoders.  A packet is told apart by its length and header; one     *)
(* with no usable engine data is no sample.                                *)
(***************************************************************************)
Usable(p) ==
  /\ p.format = "pcars" \/ p.rpm <= Ceiling
  /\ p.format \in {"f1", "outgauge"} => p.rpm > 0
  /\ p.format \notin {"f1", "outgauge"} => p.max > 0

Learned(p) == [learned EXCEPT ![p.format] = Max({@, p.rpm})]

Parsed(p) ==
  CASE p.format \in {"classic", "wrc", "pcars"} ->
         [Rest EXCEPT !.rpm = p.rpm, !.max = p.max]
    [] p.format = "f1" ->
         [Rest EXCEPT !.rpm = p.rpm, !.max = Learned(p)["f1"]]
    [] p.format = "outgauge" ->
         [Rest EXCEPT !.rpm = p.rpm, !.max = Learned(p)["outgauge"], !.gear = p.gear,
                      !.lamp = p.lamp]

Heard(t, l) ==
  /\ tel' = t /\ learned' = l
  /\ packets' = packets + 1
  /\ UNCHANGED effects

\* drain: one datagram of a game on its port.
Datagram ==
  /\ packets < MaxPackets
  /\ \E f \in Formats, r \in Revs, m \in {0, Redline}, gr \in {0, 1}, b \in Lights :
       LET p == [format |-> f, rpm |-> r, max |-> m, gear |-> gr, lamp |-> b]
       IN /\ f # "outgauge" => gr = 0 /\ b = "none"
          /\ f \in {"f1", "outgauge"} => m = 0
          /\ f = "pcars" => r <= Redline   \* a game keeps to its own redline
          /\ IF ~Usable(p) THEN UNCHANGED vars
             ELSE Heard(Parsed(p), IF f \in {"f1", "outgauge"} THEN Learned(p) ELSE learned)

\* The relay's own packet carries an airborne flag; zeros are a game at rest.
RelaySample ==
  /\ packets < MaxPackets
  /\ \E r \in 0..Redline, gr \in {0, 1}, a \in BOOLEAN :
       Heard([rpm |-> r, max |-> Redline, gear |-> gr, lamp |-> "none", air |-> a], learned)

\* Decoders::reset, when a stream is torn down; the mixer goes with it.
TearDown ==
  /\ packets < MaxPackets /\ packets' = packets + 1
  /\ learned' = [f \in {"f1", "outgauge"} |-> 0]
  /\ limMax' = 0 /\ dwell' = 0 /\ engaged' = FALSE /\ lastGear' = -1
  /\ burst' = 0 /\ smooth' = Smoothed
  /\ mixed' = 0 /\ drawn' = 0 /\ steady' = 0 /\ tel' = Rest

(***************************************************************************)
(* One block: every effect is updated before any is rendered.              *)
(***************************************************************************)
Abs(n) == IF n < 0 THEN -n ELSE n

OnePoleNoSnap(y, x) == y + (IF x > y THEN 1 ELSE -1) * (Abs(x - y) \div Lag)

\* OnePole::step, which lands on its target once it is close.
OnePole(y, x) ==
  IF Abs(x - y) < Lag THEN x ELSE y + (IF x > y THEN 1 ELSE -1) * (Abs(x - y) \div Lag)

AtLimit == tel.max > 0 /\ tel.rpm >= tel.max

AlwaysSettled == TRUE

\* A redline still being learned moves with every sample of a climb.
Settled == tel.max = limMax

\* RevLimiter::update
LimiterUpdated ==
  /\ limMax' = tel.max
  /\ dwell' = IF AtLimit /\ Settled THEN Min({dwell + 1, Dwell}) ELSE 0
  /\ engaged' = (dwell' >= Dwell)

\* GearShift::update: the first gear of a session is not a change.
Shifted == lastGear # -1 /\ lastGear # tel.gear

Spent(n) == IF n > 0 THEN n - 1 ELSE 0

\* PitLimiter, AbsClick and TractionLoss follow the lamps; a lamp says that
\* slip was met and not how much.
PitTarget  == IF tel.lamp = "pit" THEN Full ELSE 0

AbsTarget  == IF tel.lamp = "abs" THEN Full ELSE 0

SlipTarget == IF tel.lamp = "tc" THEN Full \div 2 ELSE 0

\* Airborne: its gain is how deep the continuous layers are pulled down.
DuckTarget == IF tel.air THEN Full - Gain["airborne"] * Lag ELSE Full

\* EnginePulse and EngineSynth::generate: silent without revolutions.
EngineNote == IF tel.rpm > 0 THEN Full ELSE 0

Scaled(id, level) == Gain[id] * level

\* Mixer::render: the continuous layers ducked, the transients on top.
Mix(s, b) ==
  LET continuous == Scaled("engine", EngineNote) + Scaled("limiter", s.limiter)
                      + Scaled("pit", s.pit) + Scaled("slip", s.slip)
      transient  == Scaled("shift", b) + Scaled("abs", s.abs)
  IN Min({Full * Full, continuous * s.duck + transient})

Render ==
  /\ LimiterUpdated
  /\ lastGear' = tel.gear
  /\ LET fired == IF Shifted THEN BurstLen ELSE burst
         level == [limiter |-> OnePole(smooth.limiter, IF engaged' THEN Full ELSE 0),
                   pit     |-> OnePole(smooth.pit, PitTarget),
                   abs     |-> OnePole(smooth.abs, AbsTarget),
                   slip    |-> OnePole(smooth.slip, SlipTarget),
                   duck    |-> OnePole(smooth.duck, DuckTarget)]
     IN /\ smooth' = level
        /\ mixed' = Mix(level, fired)
        /\ burst' = Spent(fired)
  /\ drawn' = tel.rpm
  /\ steady' = IF tel.rpm > drawn THEN 0 ELSE Min({steady + 1, Dwell})
  /\ UNCHANGED <<learned, tel, packets>>

Next == Datagram \/ RelaySample \/ TearDown \/ Render

\* The daemon renders a block on every turn while a stream is open.
Spec == Init /\ [][Next]_vars /\ WF_vars(Render)

-----------------------------------------------------------------------------
(***************************************************************************)
(* The limiter cuts only once the engine has stopped climbing for as long  *)
(* as the dwell: never during the climb of a game whose redline is learned *)
(* from that very climb, across a change of game or of car (the reason     *)
(* given for REV_LIMIT_DWELL_MS and REV_LIMIT_SETTLED_FRACTION).           *)
(***************************************************************************)
LimiterMeansHeld == engaged => steady >= Dwell - 1

(***************************************************************************)
(* A game at rest goes exactly silent: smoothing and bursts run out, they  *)
(* do not linger below what a driver feels (SMOOTH_SNAP, and the daemon's  *)
(* silence gate waits for exact zeros).                                    *)
(***************************************************************************)
SilentAtRest == tel.rpm = 0 /\ tel.lamp = "none" => mixed = 0

GoesSilent == <>[]SilentAtRest
=============================================================================
