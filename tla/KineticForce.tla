---------------------------- MODULE KineticForce ----------------------------
(***************************************************************************)
(* libtrueforce's other force channel (kf.c) and its angle reader          *)
(* (status.c).  Both use one evdev file descriptor per wheel: Kinetic      *)
(* Force uploads an FF_CONSTANT effect through it and plays it, the status *)
(* thread reads the steering axis from it.  Each section under dev->lock   *)
(* is one action; logiWheelClose is four of them in a row.                 *)
(*                                                                         *)
(* The kernel's side of evdev is external: it gives a new effect the       *)
(* lowest free slot (from 0 on), refuses another program's slots, and      *)
(* drops a descriptor's effects when it is closed.                         *)
(***************************************************************************)
EXTENDS Integers, FiniteSets, FiniteSetsExt

CONSTANTS Callers,      \* threads of the program
          Torques,      \* torque requests, in newton metres
          NaN,          \* a request that is not a finite number
          Peak,         \* dd_peak_torque_nm of this wheel
          FullScale,    \* 32767
          Slots,        \* effect slots of the kernel's device, 0..n
          Foreign,      \* slots that other programs hold
          MaxFaults,    \* bound of the model: system calls that fail
          Budget        \* bound of the model: calls in all

\* What the proofs assume.  Slot 0 is another program's: its id is the one
\* kf_ensure_open takes for none (see SingleEffect).
KineticAssumption ==
  /\ Torques \subseteq Int /\ Peak \in Nat \ {0} /\ FullScale \in Nat
  /\ Slots \subseteq Nat /\ 0 \in Foreign
  /\ MaxFaults \in Nat /\ Budget \in Nat

\* No call while another thread is inside logiWheelClose, as the SDK asks.
OneCaller == \A c, d \in Callers : c = d

VARIABLES evdev,        \* evdev_fd: "none" or "open"
          effect_id,    \* kf_effect_id, -1 for none
          playing,      \* kf_playing
          last,         \* kf_last_nm
          status,       \* the status thread: "off", "reading" or "stopping"
          effects,      \* kernel: the library's effects, slot -> [level, on]
          pc,           \* where each caller is
          faults, left

vars == <<evdev, effect_id, playing, last, status, effects, pc, faults, left>>

\* Mutant of Clamped: a request reaches the motor as it was made.
Unclamped(t) == IF t = NaN THEN 0 ELSE t

\* A request that is not finite is no force; others stop at the peak.
Clamped(t) ==
  IF t = NaN THEN 0
  ELSE IF t > Peak THEN Peak
  ELSE IF t < -Peak THEN -Peak ELSE t

\* The cast to int16_t truncates towards zero.
Level(t) == IF t >= 0 THEN (t * FullScale) \div Peak
                      ELSE -((-t * FullScale) \div Peak)

\* Mutant of IdAfterOpen: the effect is forgotten whatever its id.
IdForgotten == -1

\* kf_ensure_open: an id of 0 is taken for "no effect yet".
IdAfterOpen == IF effect_id = 0 THEN -1 ELSE effect_id

Free == Slots \ (Foreign \cup DOMAIN effects)

\* EVIOCSFF: the slot an upload goes to, -1 when the kernel refuses it.
UploadSlot(id) ==
  IF id # -1 THEN (IF id \in DOMAIN effects THEN id ELSE -1)
  ELSE IF Free = {} THEN -1 ELSE Min(Free)

MayFail == faults < MaxFaults /\ faults' = faults + 1

Begin(c, op) == pc[c] = "out" /\ left > 0 /\ left' = left - 1

Uploaded(slot, level, on) ==
  [s \in DOMAIN effects \cup {slot} |->
     IF s # slot THEN effects[s]
     ELSE [level |-> level,
           on |-> on \/ (s \in DOMAIN effects /\ effects[s].on)]]

\* logitf_kf_set_torque_nm, one section under dev->lock: open, clamp, upload,
\* play; each may fail, and what was done before stays done.
SetTorque(c, t) ==
  /\ Begin(c, "torque")
  /\ \/ /\ evdev = "none" /\ MayFail                      \* open failed
        /\ UNCHANGED <<evdev, effect_id, playing, last, effects>>
     \/ /\ evdev' = "open"
        /\ LET slot  == UploadSlot(IdAfterOpen)
               level == Level(Clamped(t))
           IN  \/ /\ slot = -1 \/ faults < MaxFaults      \* EVIOCSFF failed
                  /\ faults' = IF slot = -1 THEN faults ELSE faults + 1
                  /\ effect_id' = IdAfterOpen
                  /\ UNCHANGED <<playing, last, effects>>
               \/ /\ slot # -1 /\ MayFail                 \* the play event failed
                  /\ effect_id' = slot
                  /\ effects' = Uploaded(slot, level, FALSE)
                  /\ UNCHANGED <<playing, last>>
               \/ /\ slot # -1
                  /\ effect_id' = slot
                  /\ effects' = Uploaded(slot, level, TRUE)
                  /\ playing' = TRUE /\ last' = Clamped(t)
                  /\ UNCHANGED faults
  /\ UNCHANGED <<status, pc>>

\* logitf_kf_clear; the result of the stop event is not looked at.
KfClear ==
  IF evdev = "open" /\ effect_id >= 0 /\ playing
  THEN /\ playing' = FALSE /\ last' = 0
       /\ \/ /\ effects' = [effects EXCEPT ![effect_id].on = FALSE]
             /\ UNCHANGED faults
          \/ MayFail /\ UNCHANGED effects
  ELSE UNCHANGED <<playing, last, effects, faults>>

ClearCall(c) ==
  /\ Begin(c, "clear") /\ KfClear
  /\ UNCHANGED <<evdev, effect_id, status, pc>>

\* logiTrueForceGetAngle*: the first one starts the status thread.
AngleCall(c) ==
  /\ Begin(c, "angle")
  /\ \/ status # "off" /\ UNCHANGED <<evdev, status, faults>>
     \/ /\ status = "off"
        /\ \/ /\ MayFail /\ evdev' \in {evdev, "open"}    \* open, absinfo, eventfd
              /\ UNCHANGED status
           \/ evdev' = "open" /\ status' = "reading" /\ UNCHANGED faults
  /\ UNCHANGED <<effect_id, playing, last, effects, pc>>

\* logiWheelClose after the stream: logitf_status_stop (signal, then join),
\* logitf_kf_clear, logitf_kf_close.
CloseCall(c) ==
  /\ Begin(c, "close")
  /\ pc' = [pc EXCEPT ![c] = IF status = "off" THEN "kfClear" ELSE "join"]
  /\ status' = IF status = "off" THEN "off" ELSE "stopping"
  /\ UNCHANGED <<evdev, effect_id, playing, last, effects, faults>>

\* Mutant of StatusJoin: the thread is signalled and left to itself.
StatusNotJoined(c) ==
  /\ pc[c] = "join" /\ pc' = [pc EXCEPT ![c] = "kfClear"]
  /\ UNCHANGED <<evdev, effect_id, playing, last, status, effects, faults, left>>

StatusJoin(c) ==
  /\ pc[c] = "join" /\ pc' = [pc EXCEPT ![c] = "kfClear"]
  /\ status' = "off"
  /\ UNCHANGED <<evdev, effect_id, playing, last, effects, faults, left>>

CloseClear(c) ==
  /\ pc[c] = "kfClear" /\ pc' = [pc EXCEPT ![c] = "kfClose"]
  /\ KfClear
  /\ UNCHANGED <<evdev, effect_id, status, left>>

\* Closing the descriptor makes the kernel drop what is left on it.
KfClose(c) ==
  /\ pc[c] = "kfClose" /\ pc' = [pc EXCEPT ![c] = "out"]
  /\ evdev' = "none" /\ playing' = FALSE /\ last' = 0
  /\ effect_id' = IF evdev = "open" THEN -1 ELSE effect_id
  /\ effects' = [s \in {} |-> 0]
  /\ UNCHANGED <<status, faults, left>>

Init ==
  /\ evdev = "none" /\ effect_id = -1 /\ playing = FALSE /\ last = 0
  /\ status = "off" /\ effects = [s \in {} |-> 0]
  /\ pc = [c \in Callers |-> "out"] /\ faults = 0 /\ left = Budget

Next == \E c \in Callers :
  \/ \E t \in Torques \cup {NaN} : SetTorque(c, t)
  \/ ClearCall(c) \/ AngleCall(c) \/ CloseCall(c)
  \/ StatusJoin(c) \/ CloseClear(c) \/ KfClose(c)

Spec == Init /\ [][Next]_vars
-----------------------------------------------------------------------------
TypeOK ==
  /\ evdev \in {"none", "open"} /\ effect_id \in {-1} \cup Slots
  /\ playing \in BOOLEAN /\ last \in -Peak..Peak
  /\ status \in {"off", "reading", "stopping"}
  /\ DOMAIN effects \subseteq Slots \ Foreign
  /\ \A s \in DOMAIN effects :
       effects[s] \in [level : -FullScale..FullScale, on : BOOLEAN]
  /\ pc \in [Callers -> {"out", "join", "kfClear", "kfClose"}]
  /\ faults \in 0..MaxFaults /\ left \in 0..Budget

Applied == {s \in DOMAIN effects : effects[s].on}

\* What the motor is told is what GetTorqueKF reports: as long as no system
\* call failed, the effects that play add up to the last torque set, and to
\* nothing after a clear.
MotorFollowsCalls ==
  faults = 0 => MapThenSumSet(LAMBDA s : effects[s].level, Applied)
                  = IF playing THEN Level(last) ELSE 0

\* The status thread reads from an open descriptor until it is joined.
StatusReadsOpenFd == status # "off" => evdev = "open"

\* "We keep a single FF_CONSTANT effect uploaded per device".
SingleEffect == Cardinality(DOMAIN effects) <= 1
=============================================================================
