----------------------------- MODULE G923Stream -----------------------------
(***************************************************************************)
(* logi-tf-sim g923.rs: the TrueForce stream of a G923.  The caller queues *)
(* blocks of samples on a bounded channel and never waits; a writer thread *)
(* takes a chunk each tick, mixes it with the force the driver's classic   *)
(* engine shows in ffb_output, and writes one packet.  While a stream runs *)
(* the wheel obeys the last packet and nothing else, so the writer's last  *)
(* word has to be the stop template.                                       *)
(*                                                                         *)
(* Samples and forces are integers of a short signed word (Half values on  *)
(* each side); a wire value is offset by Half as the code offsets by       *)
(* 0x8000.                                                                 *)
(***************************************************************************)
EXTENDS Integers, Sequences, FiniteSetsExt

CONSTANTS Half,        \* 2^15 in the code: the word is -Half..Half-1
          Samples,     \* sample values pushed
          Forces,      \* values ffb_output may show, beyond the word included
          Inverted,    \* Sign::Inverted
          Capacity,    \* CMD_CHANNEL_CAPACITY
          MaxPending,  \* MAX_PENDING
          NewPerPacket,\* NEW_PER_PACKET
          IdleTicks,   \* IDLE_TIMEOUT in ticks
          MaxOpens, MaxFaults  \* bounds of the model

\* What the proofs assume: samples and forces are numbers, and a packet takes one.
WireAssumption ==
  /\ Half \in Nat \ {0} /\ Samples \subseteq Int /\ Forces \subseteq Int
  /\ Capacity \in Nat /\ MaxPending \in Nat /\ NewPerPacket \in Nat \ {0}
  /\ IdleTicks \in Nat

VARIABLES
  caller,   \* the owner of the G923Stream: "closed", "open", "stopping", "joining"
  chan,     \* the command channel: sample blocks and "stop"
  wpc,      \* the writer thread: "wait", "drain", "fatal" or "gone"
  asked,    \* stop_requested
  pending,  \* samples the writer has not sent
  idle,     \* IdlePolicy::idle
  silent,   \* ticks since silent_since
  ffb,      \* the driver's ffb_output
  engine,   \* who moves the wheel: its "native" engine or the "stream"
  cur,      \* what the stream's last packet asked for
  lost,     \* history: the writer's closing stop did not reach the wheel
  opens, faults

vars == <<caller, chan, wpc, asked, pending, idle, silent, ffb, engine, cur,
          lost, opens, faults>>

\* Cmd::Stop; a pushed block is never empty.
Stop == <<>>

(***************************************************************************)
(* The wire: clamps, the sign and the offset.                              *)
(***************************************************************************)
Clamp(v) == Max({-Half, Min({v, Half - 1})})

Signed(v) == IF ~Inverted THEN v ELSE IF v = -Half THEN Half - 1 ELSE -v

MixToWire(s, raw) == Clamp(s + Signed(Clamp(raw))) + Half

Center == Half

\* Take a chunk, the shortfall padded with its last sample or with zero.
Chunk(p) ==
  LET n == Min({Len(p), NewPerPacket})
  IN [i \in 1..NewPerPacket |-> IF i <= n THEN p[i] ELSE IF n > 0 THEN p[n] ELSE 0]

\* Mutant of Rest: a chunk that is not full stays queued.
RestOfFullChunks(p) ==
  IF Len(p) < NewPerPacket THEN p ELSE SubSeq(p, NewPerPacket + 1, Len(p))

Rest(p) == SubSeq(p, NewPerPacket + 1, Len(p))

\* push_pending sheds the oldest.
Shed(p) == SubSeq(p, Len(p) - Min({Len(p), MaxPending}) + 1, Len(p))

Init ==
  /\ caller = "closed" /\ chan = <<>> /\ wpc = "gone" /\ asked = FALSE
  /\ pending = <<>> /\ idle = FALSE /\ silent = 0 /\ ffb \in Forces
  /\ engine = "native" /\ cur = Center /\ lost = FALSE
  /\ opens = 0 /\ faults = 0

\* The stop template hands the wheel back, unless the write fails.
StopWritten == engine' = "native" /\ lost' = FALSE /\ UNCHANGED faults
StopLost    == /\ faults < MaxFaults /\ faults' = faults + 1
               /\ lost' = TRUE /\ UNCHANGED engine

(***************************************************************************)
(* The caller.                                                             *)
(***************************************************************************)
\* Two passes of the init packets on the calling thread, then the writer.
Open ==
  /\ caller = "closed" /\ opens < MaxOpens /\ opens' = opens + 1
  /\ \/ /\ caller' = "open" /\ wpc' = "wait" /\ engine' = "stream"
        /\ UNCHANGED faults
     \/ /\ faults < MaxFaults /\ faults' = faults + 1      \* part way through
        /\ engine' \in {"native", "stream"} /\ UNCHANGED <<caller, wpc>>
  /\ chan' = <<>> /\ asked' = FALSE /\ pending' = <<>> /\ idle' = FALSE
  /\ silent' = 0 /\ cur' = Center /\ lost' = FALSE
  /\ UNCHANGED ffb

\* A block is queued, shed because the channel is full, or refused because
\* the writer is gone, on which the daemon closes the stream.
Push ==
  /\ caller = "open"
  /\ \E s \in Samples, n \in 1..NewPerPacket + 1 :
       chan' = IF wpc # "gone" /\ Len(chan) < Capacity
               THEN Append(chan, [i \in 1..n |-> s]) ELSE chan
  /\ caller' = IF wpc = "gone" THEN "stopping" ELSE "open"
  /\ UNCHANGED <<wpc, asked, pending, idle, silent, ffb, engine, cur, lost,
                 opens, faults>>

StopCall ==
  /\ caller = "open" /\ caller' = "stopping"
  /\ UNCHANGED <<chan, wpc, asked, pending, idle, silent, ffb, engine, cur, lost,
                 opens, faults>>

\* The blocking send waits for room or for the receiver to go away.
StopSent ==
  /\ caller = "stopping"
  /\ Len(chan) < Capacity \/ wpc = "gone"
  /\ chan' = IF wpc = "gone" THEN chan ELSE Append(chan, Stop)
  /\ caller' = "joining"
  /\ UNCHANGED <<wpc, asked, pending, idle, silent, ffb, engine, cur, lost,
                 opens, faults>>

Joined ==
  /\ caller = "joining" /\ wpc = "gone" /\ caller' = "closed"
  /\ UNCHANGED <<chan, wpc, asked, pending, idle, silent, ffb, engine, cur, lost,
                 opens, faults>>

(***************************************************************************)
(* The writer.                                                             *)
(***************************************************************************)
Wake ==
  /\ wpc = "wait" /\ wpc' = "drain"
  /\ UNCHANGED <<caller, chan, asked, pending, idle, silent, ffb, engine, cur,
                 lost, opens, faults>>

Receive ==
  /\ wpc = "drain" /\ chan # <<>> /\ chan' = Tail(chan)
  /\ IF Head(chan) = Stop
     THEN asked' = TRUE /\ UNCHANGED pending
     ELSE pending' = Shed(pending \o Head(chan)) /\ UNCHANGED asked
  /\ UNCHANGED <<caller, wpc, idle, silent, ffb, engine, cur, lost, opens, faults>>

StopRequestedUnlessIdle == asked /\ ~idle

StopRequested == asked

Exit ==
  /\ wpc = "drain" /\ chan = <<>> /\ StopRequested
  /\ StopWritten \/ StopLost
  /\ wpc' = "gone"
  /\ UNCHANGED <<caller, chan, asked, pending, idle, silent, ffb, cur, opens>>

\* IdlePolicy::tick.
Policy(quiet) ==
  IF quiet THEN IF idle THEN "stay" ELSE IF silent >= IdleTicks THEN "enter" ELSE "stream"
  ELSE IF idle THEN "resume" ELSE "stream"

FatalExitQuietly == wpc' = "gone"

Fatal == wpc' = "fatal"

Tick ==
  /\ wpc = "drain" /\ chan = <<>> /\ ~StopRequested
  /\ LET chunk == Chunk(pending)
         quiet == ffb = 0 /\ \A i \in DOMAIN chunk : chunk[i] = 0
         act   == Policy(quiet)
     IN /\ pending' = Rest(pending)
        /\ idle' = (act \in {"enter", "stay"})
        /\ silent' = IF quiet THEN Min({silent + 1, IdleTicks}) ELSE 0
        /\ \/ /\ act = "stay" /\ wpc' = "wait" /\ UNCHANGED <<engine, cur, faults>>
           \/ /\ act = "enter" /\ wpc' = "wait" /\ engine' = "native"
              /\ UNCHANGED <<cur, faults>>
           \/ /\ act \in {"stream", "resume"} /\ wpc' = "wait"
              /\ engine' = "stream" /\ cur' = MixToWire(chunk[NewPerPacket], ffb)
              /\ UNCHANGED faults
           \/ /\ act = "resume" /\ Fatal             \* the init fails part way
              /\ faults < MaxFaults /\ faults' = faults + 1
              /\ engine' \in {"native", "stream"} /\ cur' = Center
           \/ /\ act # "stay" /\ Fatal               \* the packet was not taken
              /\ faults < MaxFaults /\ faults' = faults + 1
              /\ UNCHANGED <<engine, cur>>
  /\ UNCHANGED <<caller, chan, asked, ffb, lost, opens>>

\* A failed write is fatal: one best-effort stop, and the receiver goes away.
FatalStop ==
  /\ wpc = "fatal" /\ wpc' = "gone"
  /\ StopWritten \/ StopLost
  /\ UNCHANGED <<caller, chan, asked, pending, idle, silent, ffb, cur, opens>>

\* external: the classic engine's net force.
GameForce ==
  /\ \E f \in Forces : ffb' = f
  /\ UNCHANGED <<caller, chan, wpc, asked, pending, idle, silent, engine, cur,
                 lost, opens, faults>>

Writer == Wake \/ Receive \/ Exit \/ Tick \/ FatalStop
Stopping == StopSent \/ Joined
Next == Open \/ Push \/ StopCall \/ Stopping \/ Writer \/ GameForce

Spec == Init /\ [][Next]_vars

-----------------------------------------------------------------------------
(***************************************************************************)
(* Properties.                                                             *)
(***************************************************************************)
TypeOK ==
  /\ caller \in {"closed", "open", "stopping", "joining"}
  /\ wpc \in {"wait", "drain", "fatal", "gone"}
  /\ Len(chan) <= Capacity /\ Len(pending) <= MaxPending
  /\ engine \in {"native", "stream"} /\ cur \in 0..(2 * Half - 1)

(***************************************************************************)
(* TF4ALL issue #13: once the writer is gone the wheel does not follow a   *)
(* stale force.  Whether it left on Stop, on a failed packet or on a       *)
(* re-init that failed part way, the wheel is back on its native engine or *)
(* was only told to stay centred, unless the closing stop itself failed.   *)
(***************************************************************************)
NeverLeftPulling ==
  wpc = "gone" /\ engine = "stream" => cur = Center \/ lost

(***************************************************************************)
(* Steering force survives the stream: whenever the game's force stays on  *)
(* and no texture comes, the wheel ends up under its native engine or on   *)
(* packets that carry exactly that force, clamped and signed, for as long  *)
(* as the writer lives.                                                    *)
(***************************************************************************)
ForceAlone(f) ==
  ffb = f /\ chan = <<>> /\ wpc \in {"wait", "drain"} /\ ~asked

Carried(f) == engine = "native" \/ cur = MixToWire(0, f)

SteeringForceCarried == \A f \in Forces : <>[]ForceAlone(f) => <>[]Carried(f)

(***************************************************************************)
(* stop() returns: the blocking send and the join end, with the channel    *)
(* full, the writer already dead or dying meanwhile.                       *)
(***************************************************************************)
StopWaits == caller \in {"stopping", "joining"}

StopReturns == StopWaits ~> ~StopWaits
=============================================================================
