---------------------------- MODULE SharedMemory ----------------------------
(***************************************************************************)
(* logi-tf-relay: a reader inside the game's prefix copies the sim's       *)
(* shared memory every tick, decodes the copy and sends a sample.  Nothing *)
(* stops the game from writing while the copy is made.                     *)
(*                                                                         *)
(* A section is the words a decoder looks at, in address order; a copy is  *)
(* made word by word in that order.  An engine speed is represented by     *)
(* whose it is: a car, or the frame it was written in.                     *)
(***************************************************************************)
EXTENDS Integers, Sequences, FiniteSetsExt, Functions

CONSTANTS Titles,     \* games to read: "rf2", "iracing", "assetto", "evo",
                      \* "raceroom"
          MaxFrames,  \* bound of the model: frames the game writes
          Pace,       \* frames a game can complete while one copy is made
          Decay,      \* GATE_DECAY_SAMPLES
          Major       \* VERSION_MAJOR of the layout raceroom::decode knows

\* The proofs' assumption on the pace: a copy takes no longer than a frame,
\* so the game completes at most one while it is made.
PaceAssumption == Pace \in 0..1

VARIABLES
  title,     \* args.game
  mem,       \* the sections' words; the empty function before the game is up
  frame,     \* frames the game began
  script,    \* writes left in the frame under way
  copied,    \* the reader's copy so far
  finished,  \* frames finished during this copy
  credit,    \* AirborneGate::loaded_credit
  warned,    \* run_stream's warned
  sample     \* the sample sent last

vars == <<title, mem, frame, script, copied, finished, credit, warned, sample>>

NoSample == [rpm |-> -1]
Slots    == 1..3      \* iRacing's rotating buffers
Rows     == 1..2      \* cars in an rF2 session
Player   == 1         \* the slot id scoring marks mIsPlayer

(***************************************************************************)
(* games::GAMES: each title's section, its aux section behind it.          *)
(***************************************************************************)
Layout ==
  CASE title = "rf2" -> <<"begin", "end", "id1", "rpm1", "id2", "rpm2",
                          "sbegin", "send", "player">>
    [] title = "iracing" -> <<"status", "t1", "t2", "t3", "a1", "b1", "a2", "b2",
                              "a3", "b3">>
    [] title = "assetto" -> <<"load", "rpm", "max">>
    [] title = "evo" -> <<"rpm", "max">>
    [] title = "raceroom" -> <<"version", "rpm", "max">>

Row(w, r)  == IF r = 1 THEN w[1] ELSE IF r = 2 THEN w[2] ELSE w[3]
Tick(c, s) == Row(<<c["t1"], c["t2"], c["t3"]>>, s)
BufA(c, s) == Row(<<c["a1"], c["a2"], c["a3"]>>, s)
BufB(c, s) == Row(<<c["b1"], c["b2"], c["b3"]>>, s)

\* external: what the title writes in one frame, in its own order.
Writes(f) ==
  LET car == (f % 2) + 1
      s   == (f % 3) + 1
  IN CASE title = "rf2" -> << <<"begin", f>>, <<"id1", car>>, <<"rpm1", car>>,
                              <<"id2", 3 - car>>, <<"rpm2", 3 - car>>, <<"end", f>> >>
       [] title = "iracing" -> << <<Row(<<"a1", "a2", "a3">>, s), f>>,
                                  <<Row(<<"b1", "b2", "b3">>, s), f>>,
                                  <<Row(<<"t1", "t2", "t3">>, s), f>> >>
       [] title = "assetto" -> << <<"load", f % 2>>, <<"rpm", f>>, <<"max", f>> >>
       [] OTHER -> << <<"rpm", f>>, <<"max", f>> >>

Blank(v) == [w \in Range(Layout) |->
               CASE w = "status" -> 1 [] w = "version" -> v
                 [] w = "player" -> Player [] OTHER -> 0]

Init ==
  /\ title \in Titles /\ mem = <<>> /\ frame = 0 /\ script = <<>>
  /\ copied = <<>> /\ finished = 0 /\ credit = 0 /\ warned = FALSE
  /\ sample = NoSample

(***************************************************************************)
(* The game.                                                               *)
(***************************************************************************)
GameUp ==
  /\ mem = <<>> /\ \E v \in {Major, Major + 1} : mem' = Blank(v)
  /\ UNCHANGED <<title, frame, script, copied, finished, credit, warned, sample>>

BeginFrame ==
  /\ mem # <<>> /\ script = <<>> /\ frame < MaxFrames
  /\ frame' = frame + 1 /\ script' = Writes(frame + 1)
  /\ UNCHANGED <<title, mem, copied, finished, credit, warned, sample>>

\* A frame ends with its last word, and only Pace of them fit into a copy.
WriteWord ==
  /\ script # <<>>
  /\ Len(script) = 1 /\ copied # <<>> => finished < Pace
  /\ mem' = [mem EXCEPT ![Head(script)[1]] = Head(script)[2]]
  /\ script' = Tail(script)
  /\ finished' = IF Len(script) = 1 /\ copied # <<>> THEN finished + 1 ELSE finished
  /\ UNCHANGED <<title, frame, copied, credit, warned, sample>>

(***************************************************************************)
(* The decoders.  Each refuses what it cannot vouch for.                   *)
(***************************************************************************)
InRange(rpm, max) == max > 0 /\ rpm >= 0

ReadWasClean(c) == c["begin"] = c["end"] /\ c["sbegin"] = c["send"]

RowOf(c, id) == {r \in Rows : Row(<<c["id1"], c["id2"]>>, r) = id}

DecodeRf2(c) ==
  IF ~ReadWasClean(c) \/ RowOf(c, c["player"]) = {} THEN NoSample
  ELSE [rpm |-> Row(<<c["rpm1"], c["rpm2"]>>, Min(RowOf(c, c["player"]))),
        car |-> c["player"]]

NewestSlotOldest(c) ==
  CHOOSE s \in Slots : \A t \in Slots : Tick(c, s) <= Tick(c, t)

NewestSlot(c) ==
  CHOOSE s \in Slots : /\ \A t \in Slots : Tick(c, s) >= Tick(c, t)
                       /\ \A t \in 1..s - 1 : Tick(c, t) < Tick(c, s)

DecodeIracing(c) ==
  IF c["status"] = 0 \/ Tick(c, NewestSlot(c)) = 0 THEN NoSample
  ELSE [rpm |-> BufA(c, NewestSlot(c)), redline |-> BufB(c, NewestSlot(c))]

DecodeRaceroom(c) ==
  IF c["version"] # Major \/ ~InRange(c["rpm"], c["max"]) THEN NoSample
  ELSE [rpm |-> c["rpm"], redline |-> c["max"]]

DecodeAssetto(c) ==
  IF ~InRange(c["rpm"], c["max"]) THEN NoSample
  ELSE [rpm |-> c["rpm"], redline |-> c["max"],
        airborne |-> c["load"] = 0 /\ credit > 0]

\* EVO moved the redline into the physics block: an engine half as fast again
\* as its redline is a misread.
DecodeEvo(c) ==
  IF ~InRange(c["rpm"], c["max"]) \/ 2 * c["rpm"] > 3 * c["max"] THEN NoSample
  ELSE [rpm |-> c["rpm"], redline |-> c["max"]]

Decoded(c) ==
  CASE title = "rf2" -> DecodeRf2(c)
    [] title = "iracing" -> DecodeIracing(c)
    [] title = "assetto" -> DecodeAssetto(c)
    [] title = "evo" -> DecodeEvo(c)
    [] title = "raceroom" -> DecodeRaceroom(c)

\* airborne_with: a loaded wheel earns credit, an unloaded sample spends it.
CreditAfter(c) ==
  IF title # "assetto" \/ DecodeAssetto(c) = NoSample THEN credit
  ELSE IF c["load"] > 0 THEN Decay ELSE Max({credit - 1, 0})

(***************************************************************************)
(* run_stream.                                                             *)
(***************************************************************************)
NotReadable ==
  /\ mem = <<>> /\ ~warned /\ warned' = TRUE
  /\ UNCHANGED <<title, mem, frame, script, copied, finished, credit, sample>>

CopyWord ==
  /\ mem # <<>> /\ Len(copied) < Len(Layout)
  /\ copied' = Append(copied, mem[Layout[Len(copied) + 1]])
  /\ warned' = FALSE
  /\ UNCHANGED <<title, mem, frame, script, finished, credit, sample>>

Copy == [w \in Range(Layout) |->
           copied[CHOOSE i \in 1..Len(Layout) : Layout[i] = w]]

Send ==
  /\ Len(copied) = Len(Layout)
  /\ sample' = IF Decoded(Copy) = NoSample THEN sample ELSE Decoded(Copy)
  /\ credit' = CreditAfter(Copy)
  /\ copied' = <<>> /\ finished' = 0
  /\ UNCHANGED <<title, mem, frame, script, warned>>

Next == GameUp \/ BeginFrame \/ WriteWord \/ NotReadable \/ CopyWord \/ Send

Spec == Init /\ [][Next]_vars

-----------------------------------------------------------------------------
(***************************************************************************)
(* Properties.                                                             *)
(***************************************************************************)
(***************************************************************************)
(* iRacing's rotation is enough: the buffer newest_buffer picks holds one  *)
(* frame's values, although the game keeps writing while the section is    *)
(* copied, as long as it completes at most one frame meanwhile.            *)
(***************************************************************************)
NewestBufferWhole ==
  title = "iracing" /\ sample # NoSample => sample.rpm = sample.redline

(***************************************************************************)
(* rfactor2.rs read_was_clean: equal counters mean no write was in flight  *)
(* across the read, so the engine speed sent is the player's own.          *)
(***************************************************************************)
PlayersOwnEngine ==
  title = "rf2" /\ sample # NoSample => sample.rpm = sample.car
=============================================================================
