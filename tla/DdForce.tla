------------------------------ MODULE DdForce ------------------------------
(***************************************************************************)
(* The direct-drive force engine of the kernel driver                      *)
(* (hid-logitech-hidpp.c): the table of uploaded effects, the 1 kHz timer  *)
(* that sums them, the queue of packets for the wheel, the lazy bring-up   *)
(* of the TrueForce texture channel and the gate that goes silent at zero. *)
(*                                                                         *)
(* The timer callback is one process (tpc).  It holds effects_lock while   *)
(* it scans the table and while it decides whether to go on; between the   *)
(* two it runs unlocked, each attempt to queue a packet a step of its own, *)
(* for the worker empties the queue meanwhile.  A program's call (evdev or *)
(* sysfs) marks the table in one section and starts the timer in another.  *)
(*                                                                         *)
(* A force is 0 or 1, for "some": how much an effect contributes depends   *)
(* on waveforms, gain and the wheel's motion, so a tick with an effect in  *)
(* it may come out either way, and one without cannot.                     *)
(***************************************************************************)
EXTENDS Integers

CONSTANTS Effects,      \* effect slots
          Shapes,       \* what a program uploads
          Callers,      \* processes that use the device
          Calls,        \* bound of the model: which of the calls they make
          MaxReplays,   \* bound of the model: largest playback count
          MaxWork,      \* HIDPP_DD_FF_MAX_PENDING_WORK
          Reserve,      \* the slots of it that only force packets may take
          GraceTicks,   \* HIDPP_DD_KF_IDLE_GRACE_TICKS
          StopAttempts, \* HIDPP_DD_TF_STOP_MAX_ATTEMPTS
          InitAttempts, \* HIDPP_DD_TF_INIT_MAX_ATTEMPTS
          kf_idle_gate, \* the module parameter
          AllocFails,   \* whether kmalloc may fail
          MaxForeign,   \* bound of the model: foreign streams that begin
          Budget        \* bound of the model: calls in all

ASSUME ForceAssumption ==
  /\ \A s \in Shapes : s \in [type : {"constant", "periodic"}, texture : BOOLEAN,
                              bounded : BOOLEAN, delay : BOOLEAN]
  /\ Calls \subseteq {"effects", "autocenter", "route"}
  /\ MaxReplays \in Nat \ {0} /\ MaxWork \in Nat /\ Reserve \in 0..MaxWork - 1
  /\ GraceTicks \in Nat \ {0} /\ StopAttempts \in Nat \ {0}
  /\ InitAttempts \in Nat \ {0} /\ MaxForeign \in Nat /\ Budget \in Nat
  /\ kf_idle_gate \in BOOLEAN /\ AllocFails \in BOOLEAN

VARIABLES
  effects,              \* the table
  timer_armed, queued,  \* the flag, and whether the hrtimer is queued
  tpc, tick,            \* the callback's place and locals
  pending_work,
  tf_ready, tf_init_queued, tf_init_attempts, init,   \* bring-up and its work
  tf_streaming, tf_recentre_sent, tf_stop_sent, tf_stop_attempts,
  kf_idle_ticks, kf_gated,
  autocenter, texture_route, last_force,
  stopping,
  foreign, foreigners,  \* another process streams; how many have begun
  pc, left,             \* per caller; calls still to make
  \* history
  told,                 \* the force of the last packet that carried one
  lost,                 \* a later one was refused
  cut,                  \* the spring went off inside a tick that had used it
  armed, unarmed        \* last control packet; samples queued without one

table   == <<effects>>
timer   == <<timer_armed, queued>>
bringup == <<tf_ready, tf_init_queued, tf_init_attempts, init>>
winding == <<tf_streaming, tf_recentre_sent, tf_stop_sent, tf_stop_attempts>>
gate    == <<kf_idle_ticks, kf_gated>>
knobs   == <<autocenter, texture_route>>
world   == <<stopping, foreign, foreigners>>
calls   == <<pc, left>>
wire    == <<pending_work, told, lost, armed, unarmed>>
vars == <<table, timer, tpc, tick, bringup, winding, gate, knobs, last_force,
          world, calls, wire, cut>>

NoShape == [type |-> "constant", texture |-> FALSE, bounded |-> FALSE, delay |-> FALSE]
Absent  == [uploaded |-> FALSE, playing |-> FALSE, shape |-> NoShape,
            delayed |-> FALSE, replays |-> 0, use_tf |-> FALSE]

Playing == {i \in Effects : effects[i].uploaded /\ effects[i].playing}
Idle    == [any |-> FALSE, sounding |-> FALSE, texture |-> FALSE, force |-> 0,
            spring |-> FALSE, idle |-> FALSE, sent |-> FALSE, carriers |-> 0]
-----------------------------------------------------------------------------
(* The queue.                                                              *)

\* Mutant of Room: one packet more than the limit.
RoomOver(limit, ok) ==
  IF ok THEN ~stopping /\ pending_work <= limit
        ELSE stopping \/ pending_work > limit \/ AllocFails

\* A slot is left, the driver is up and memory is found, or not.
Room(limit, ok) ==
  IF ok THEN ~stopping /\ pending_work < limit
        ELSE stopping \/ pending_work >= limit \/ AllocFails

Counted(ok) == pending_work' = IF ok THEN pending_work + 1 ELSE pending_work

\* hidpp_dd_tf_queue_ctrl
QueueCtrl(start, ok) ==
  /\ Room(MaxWork - Reserve, ok) /\ Counted(ok)
  /\ armed' = IF ok THEN start ELSE armed
  /\ UNCHANGED <<told, lost, unarmed>>

\* The packet that carries this tick's force was queued, or was not.
Carried(ok) ==
  /\ told' = IF ok THEN tick.force ELSE told
  /\ lost' = ~ok

\* hidpp_dd_tf_queue_stream, with new samples or the window as it is; a foreign
\* stream carries the force for us.
QueueStream(ok, samples) ==
  /\ IF foreign THEN ok /\ UNCHANGED <<pending_work, unarmed>>
     ELSE /\ Room(MaxWork - Reserve, ok) /\ Counted(ok)
          /\ unarmed' = (unarmed \/ (ok /\ samples /\ ~armed))
  /\ Carried(ok)
  /\ UNCHANGED armed

\* hidpp_dd_ff_send_force
SendForce ==
  /\ \E ok \in BOOLEAN :
       /\ IF foreign /\ ~stopping THEN ok /\ UNCHANGED pending_work
          ELSE Room(MaxWork, ok) /\ Counted(ok)
       /\ Carried(ok)
       /\ tick' = [tick EXCEPT !.carriers = IF ok THEN @ + 1 ELSE @]
  /\ UNCHANGED <<armed, unarmed>>

\* hidpp_dd_ff_work_handler; whether the transfer succeeds changes nothing here.
WorkDone ==
  /\ pending_work > 0 /\ pending_work' = pending_work - 1
  /\ UNCHANGED <<told, lost, armed, unarmed>>
  /\ UNCHANGED <<table, timer, tpc, tick, bringup, winding, gate, knobs>>
  /\ UNCHANGED <<last_force, world, calls, cut>>
-----------------------------------------------------------------------------
(* The timer callback.                                                     *)

\* What the clock may have done to a playing effect since the last tick: its
\* delay goes on or is over; its length is over, with a replay left or not.
Aged(e) ==
  IF ~(e.uploaded /\ e.playing) THEN {e}
  ELSE LET run == [e EXCEPT !.delayed = FALSE]
       IN  {run} \cup (IF e.delayed THEN {e} ELSE {})
             \cup (IF ~e.shape.bounded THEN {}
                   ELSE IF e.replays > 0 THEN {[run EXCEPT !.replays = @ - 1]}
                   ELSE {[run EXCEPT !.playing = FALSE]})

\* The driver is stopping: the timer ends here.
TickBail ==
  /\ tpc = "off" /\ queued /\ stopping
  /\ queued' = FALSE /\ timer_armed' = FALSE
  /\ UNCHANGED <<table, tpc, tick, bringup, winding, gate, knobs, last_force>>
  /\ UNCHANGED <<world, calls, wire, cut>>

\* The scan of the table, under effects_lock, and the bring-up it asks for.
TickScan ==
  /\ tpc = "off" /\ queued /\ ~stopping
  /\ queued' = FALSE /\ tpc' = "force"
  /\ effects' \in {t \in [Effects -> UNION {Aged(effects[i]) : i \in Effects}] :
                     \A i \in Effects : t[i] \in Aged(effects[i])}
  /\ LET on       == {i \in Effects : effects'[i].uploaded /\ effects'[i].playing}
         sounding == {i \in on : ~effects'[i].delayed}
         wanted   == /\ texture_route /\ ~tf_ready /\ ~tf_init_queued
                     /\ \E i \in sounding : effects'[i].shape.texture
     IN  /\ tick' = [Idle EXCEPT !.any = (on # {}), !.sounding = (sounding # {}),
                                 !.texture = (\E i \in sounding : effects'[i].use_tf)]
         /\ tf_init_queued' = (tf_init_queued \/ wanted)
         /\ init' = IF wanted THEN "queued" ELSE init
  /\ cut' = FALSE
  /\ UNCHANGED <<timer_armed, tf_ready, tf_init_attempts, winding, gate, knobs>>
  /\ UNCHANGED <<last_force, world, calls, wire>>

\* Gain, the emulated autocenter spring, and whether the tick is an idle one.
TickForce ==
  /\ tpc = "force"
  /\ \E f \in IF tick.sounding \/ autocenter THEN {0, 1} ELSE {0} :
       tick' = [tick EXCEPT !.force = f, !.spring = autocenter,
                  !.idle = (f = 0 /\ ~tick.any /\ ~tick.texture /\ ~tf_streaming)]
  /\ tpc' = CASE tick.texture                 -> "start"
              [] ~tick.texture /\ tf_streaming -> "recentre"
              [] OTHER                        -> "gate"
  /\ UNCHANGED <<table, timer, bringup, winding, gate, knobs, last_force>>
  /\ UNCHANGED <<world, calls, wire, cut>>

TickRest == <<table, timer, bringup, knobs, last_force, world, calls, cut>>

\* Mutant of StartOwed: a wind-down that is half done is forgotten.
StartOwedFresh == ~tf_streaming

\* The engine needs an arm before it takes samples.
StartOwed == ~tf_streaming \/ tf_stop_sent

\* hidpp_dd_tf_tick with a texture playing: arm if it is owed, ...
TickStart ==
  /\ tpc = "start"
  /\ IF ~StartOwed THEN tpc' = "samples" /\ UNCHANGED <<winding, wire>>
     ELSE \E ok \in BOOLEAN :
            /\ QueueCtrl(TRUE, ok)
            /\ tpc' = IF ok THEN "samples" ELSE "gate"
            /\ IF ok THEN /\ tf_streaming' = TRUE /\ tf_recentre_sent' = FALSE
                          /\ tf_stop_sent' = FALSE /\ tf_stop_attempts' = 0
                     ELSE UNCHANGED winding
  /\ UNCHANGED <<tick, gate, TickRest>>

\* Mutant of Sent: the tick is told that nobody has carried its force.
SentNever(ok) == [tick EXCEPT !.carriers = IF ok THEN @ + 1 ELSE @]

\* The force-carrier contract between hidpp_dd_tf_tick and its caller.
Sent(ok) == [tick EXCEPT !.sent = ok, !.carriers = IF ok THEN @ + 1 ELSE @]

\* ... then one packet with the force and four samples.
TickSamples ==
  /\ tpc = "samples" /\ tpc' = "gate"
  /\ \E ok \in BOOLEAN :
       QueueStream(ok, TRUE) /\ tick' = Sent(ok)
  /\ UNCHANGED <<winding, gate, TickRest>>

\* hidpp_dd_tf_tick with none: recentre the window, once, ...
TickRecentre ==
  /\ tpc = "recentre" /\ tpc' = "stop"
  /\ IF tf_recentre_sent THEN UNCHANGED <<tick, winding, wire>>
     ELSE \E ok \in BOOLEAN :
            /\ QueueStream(ok, FALSE) /\ tick' = Sent(ok) /\ tf_recentre_sent' = ok
            /\ UNCHANGED <<tf_streaming, tf_stop_sent, tf_stop_attempts>>
  /\ UNCHANGED <<gate, TickRest>>

\* What a pair that has been queued, or given up, leaves behind: the stream
\* is down (the wind-down) or the session silent (the gate).
PairOver ==
  /\ tf_stop_sent' = FALSE /\ tf_stop_attempts' = 0
  /\ kf_gated' = (kf_gated \/ tick.idle)
  /\ tf_streaming' = FALSE
  /\ UNCHANGED <<tf_recentre_sent, kf_idle_ticks>>

\* Mutant of PairMissed: retried without end.
PairMissedForever(stop) ==
  /\ tf_stop_sent' = stop
  /\ UNCHANGED <<tf_stop_attempts, tf_streaming, tf_recentre_sent, gate>>

\* A half that was refused: the next tick retries, for so many ticks.
PairMissed(stop) ==
  IF tf_stop_attempts + 1 >= StopAttempts THEN PairOver
  ELSE /\ tf_stop_attempts' = tf_stop_attempts + 1 /\ tf_stop_sent' = stop
       /\ UNCHANGED <<tf_streaming, tf_recentre_sent, gate>>

AfterPair == IF tick.idle THEN "send" ELSE "gate"

\* ... and the teardown pair, 0x04 and then 0x03, for the wind-down and for
\* the idle gate.
TickStop ==
  /\ tpc = "stop"
  /\ IF tf_stop_sent THEN tpc' = "arm" /\ UNCHANGED <<winding, gate, wire>>
     ELSE \E ok \in BOOLEAN :
            /\ QueueCtrl(FALSE, ok)
            /\ IF ok THEN /\ tf_stop_sent' = TRUE /\ tpc' = "arm"
                          /\ UNCHANGED <<tf_streaming, tf_recentre_sent>>
                          /\ UNCHANGED <<tf_stop_attempts, gate>>
                     ELSE PairMissed(FALSE) /\ tpc' = AfterPair
  /\ UNCHANGED <<tick, TickRest>>

TickArm ==
  /\ tpc = "arm" /\ tpc' = AfterPair
  /\ \E ok \in BOOLEAN :
       QueueCtrl(TRUE, ok) /\ IF ok THEN PairOver ELSE PairMissed(TRUE)
  /\ UNCHANGED <<tick, TickRest>>

\* Mutant of GateDue: silence begins with the first tick at zero.
GateDueAtOnce == ~kf_gated

\* A session has been at zero for the grace period and is not silent yet.
GateDue == kf_idle_ticks >= GraceTicks /\ ~kf_gated

\* The zero-force idle gate.
TickGate ==
  /\ tpc = "gate"
  /\ IF kf_idle_gate /\ tick.idle
     THEN /\ kf_idle_ticks' = IF kf_idle_ticks < GraceTicks THEN kf_idle_ticks + 1
                                                             ELSE kf_idle_ticks
          /\ tpc' = IF GateDue THEN "stop" ELSE "send"
          /\ UNCHANGED kf_gated
     ELSE kf_idle_ticks' = 0 /\ kf_gated' = FALSE /\ tpc' = "send"
  /\ UNCHANGED <<tick, winding, wire, TickRest>>

TickSend ==
  /\ tpc = "send" /\ tpc' = "decide"
  /\ IF ~tick.sent /\ ~kf_gated THEN SendForce ELSE UNCHANGED <<wire, tick>>
  /\ last_force' = tick.force
  /\ UNCHANGED <<table, timer, bringup, winding, gate, knobs, world, calls, cut>>

\* Mutant of StillNeeded: what the scan saw is all there is.
StillNeededScan == tick.any \/ tf_streaming \/ autocenter

\* Mutant of StillNeeded: only what plays at the moment of the decision.
StillNeededNow == Playing # {} \/ tf_streaming \/ autocenter

\* An effect that started since the scan found the timer armed: look again.
StillNeeded == tick.any \/ Playing # {} \/ tf_streaming \/ autocenter

\* The decision to go on, under effects_lock.
TickDecide ==
  /\ tpc = "decide"
  /\ IF StillNeeded /\ ~stopping
     THEN tpc' = "restart" /\ UNCHANGED timer_armed
     ELSE tpc' = "off" /\ timer_armed' = FALSE
  /\ cut' = (tick.spring /\ ~autocenter /\ tick.force # 0)
  /\ tick' = Idle
  /\ UNCHANGED <<table, queued, bringup, winding, gate, knobs, last_force>>
  /\ UNCHANGED <<world, calls, wire>>

\* hrtimer_forward_now and HRTIMER_RESTART
TickRestart ==
  /\ tpc = "restart" /\ tpc' = "off" /\ queued' = TRUE
  /\ UNCHANGED <<timer_armed, table, tick, bringup, winding, gate, knobs>>
  /\ UNCHANGED <<last_force, world, calls, wire, cut>>

TimerStep ==
  \/ TickBail \/ TickScan \/ TickForce \/ TickStart \/ TickSamples \/ TickRecentre
  \/ TickStop \/ TickArm \/ TickGate \/ TickSend \/ TickDecide \/ TickRestart
-----------------------------------------------------------------------------
(* The bring-up of the texture channel: 2 x 68 packets on a queue of its   *)
(* own.  It ends early when the driver stops or its interface is gone.     *)

InitWork ==
  /\ init = "queued"
  /\ \/ stopping /\ init' = "no" /\ UNCHANGED tf_init_queued
     \/ ~stopping /\ AllocFails /\ init' = "no" /\ tf_init_queued' = FALSE
     \/ ~stopping /\ init' = "sending" /\ UNCHANGED tf_init_queued
  /\ UNCHANGED <<tf_ready, tf_init_attempts, table, timer, tpc, tick, winding>>
  /\ UNCHANGED <<gate, knobs, last_force, world, calls, wire, cut>>

InitEnds ==
  /\ init = "sending" /\ init' = "no"
  /\ \/ /\ tf_ready' = TRUE /\ armed' = TRUE
        /\ UNCHANGED <<tf_init_queued, tf_init_attempts>>
     \/ /\ tf_init_attempts' = tf_init_attempts + 1       \* a packet failed
        /\ tf_init_queued' = IF tf_init_attempts' < InitAttempts THEN FALSE ELSE tf_init_queued
        /\ UNCHANGED <<tf_ready, armed>>
     \/ /\ stopping /\ UNCHANGED <<tf_ready, armed, tf_init_queued, tf_init_attempts>>
  /\ UNCHANGED <<pending_work, told, lost, unarmed>>
  /\ UNCHANGED <<table, timer, tpc, tick, winding, gate, knobs, last_force>>
  /\ UNCHANGED <<world, calls, cut>>
-----------------------------------------------------------------------------
(* The calls of a program.                                                 *)

Call(c, place) ==
  /\ pc[c] = "out" /\ left > 0 /\ left' = left - 1
  /\ pc' = [pc EXCEPT ![c] = place]

CallRest == <<timer, tpc, tick, bringup, winding, gate, last_force, world, wire>>

\* hidpp_dd_ff_upload, of a new effect or over one of the same type.
Upload(c, i, s) ==
  /\ effects[i].uploaded => s.type = effects[i].shape.type
  /\ effects' = [effects EXCEPT ![i] =
       [@ EXCEPT !.shape = s, !.uploaded = TRUE,
                 !.playing = effects[i].uploaded /\ effects[i].playing]]
  /\ Call(c, IF effects'[i].playing /\ s.type = "constant" THEN "kick" ELSE "out")
  /\ UNCHANGED <<knobs, cut, CallRest>>

\* hidpp_dd_ff_erase; the input core has stopped the effect with playback(0).
Erase(c, i) ==
  /\ effects[i].uploaded /\ ~effects[i].playing /\ Call(c, "out")
  /\ effects' = [effects EXCEPT ![i] =
       [@ EXCEPT !.shape = NoShape, !.uploaded = FALSE, !.playing = FALSE]]
  /\ UNCHANGED <<knobs, cut, CallRest>>

\* hidpp_dd_ff_playback: the channel is chosen here, for the whole play.
Playback(c, i, value) ==
  /\ effects[i].uploaded
  /\ effects' = [effects EXCEPT ![i] =
       LET e == effects[i]
       IN  IF value = 0 THEN [e EXCEPT !.playing = FALSE]
           ELSE [e EXCEPT !.playing = TRUE, !.replays = value - 1,
                          !.delayed = e.shape.delay,
                          !.use_tf = texture_route /\ tf_ready /\ e.shape.texture]]
  /\ Call(c, IF \E k \in Effects : effects'[k].uploaded /\ effects'[k].playing
             THEN "kick" ELSE "release")
  /\ UNCHANGED <<knobs, cut, CallRest>>

\* hidpp_dd_ff_set_autocenter and wheel_autocenter_store
SetAutocenter(c, on) ==
  /\ on # autocenter /\ autocenter' = on
  /\ Call(c, IF on THEN "kick" ELSE "out")
  /\ UNCHANGED <<texture_route, table, cut, CallRest>>

\* wheel_texture_route_store
SetRoute(c, tf) ==
  /\ tf # texture_route /\ texture_route' = tf
  /\ Call(c, "out")
  /\ UNCHANGED <<autocenter, table, cut, CallRest>>

\* The last section of playback when nothing plays any more: is there a force
\* to release?
Release(c) ==
  /\ pc[c] = "release"
  /\ pc' = [pc EXCEPT ![c] = IF last_force # 0 THEN "kick" ELSE "out"]
  /\ UNCHANGED <<left, table, knobs, cut, CallRest>>

\* Mutant of MayArm: hrtimer_start whoever else runs the timer.
MayArmAlways == ~stopping

\* Only a timer that is not armed is started.
MayArm == ~timer_armed /\ ~stopping

\* hidpp_dd_ff_timer_kick
Kick(c) ==
  /\ pc[c] = "kick" /\ pc' = [pc EXCEPT ![c] = "out"]
  /\ IF MayArm THEN timer_armed' = TRUE /\ queued' = TRUE ELSE UNCHANGED timer
  /\ UNCHANGED <<left, table, tpc, tick, bringup, winding, gate, knobs>>
  /\ UNCHANGED <<last_force, world, wire, cut>>

CallerBegins(c) ==
  \/ /\ "effects" \in Calls
     /\ \E i \in Effects : \/ \E s \in Shapes : Upload(c, i, s)
                           \/ Erase(c, i)
                           \/ \E v \in 0..MaxReplays : Playback(c, i, v)
  \/ "autocenter" \in Calls /\ \E b \in BOOLEAN : SetAutocenter(c, b)
  \/ "route" \in Calls /\ \E b \in BOOLEAN : SetRoute(c, b)

CallerContinues(c) == Release(c) \/ Kick(c)
-----------------------------------------------------------------------------
(* The world: another process's stream, as the interceptor sees it, and    *)
(* the driver's removal.                                                   *)

WorldRest == <<table, timer, tpc, tick, bringup, winding, gate, knobs, last_force,
               calls, wire, cut>>

ForeignBegins ==
  /\ ~foreign /\ foreigners < MaxForeign
  /\ foreign' = TRUE /\ foreigners' = foreigners + 1
  /\ UNCHANGED <<stopping, WorldRest>>

ForeignEnds ==
  /\ foreign /\ foreign' = FALSE
  /\ UNCHANGED <<stopping, foreigners, WorldRest>>

Stop ==
  /\ ~stopping /\ stopping' = TRUE
  /\ UNCHANGED <<foreign, foreigners, WorldRest>>
-----------------------------------------------------------------------------
Init ==
  /\ effects = [i \in Effects |-> Absent]
  /\ timer_armed = FALSE /\ queued = FALSE /\ tpc = "off" /\ tick = Idle
  /\ tf_ready = FALSE /\ tf_init_queued = FALSE /\ tf_init_attempts = 0
  /\ init = "no"
  /\ tf_streaming = FALSE /\ tf_recentre_sent = FALSE /\ tf_stop_sent = FALSE
  /\ tf_stop_attempts = 0
  /\ kf_idle_ticks = 0 /\ kf_gated = FALSE
  /\ autocenter = FALSE /\ texture_route = TRUE /\ last_force = 0
  /\ stopping = FALSE /\ foreign = FALSE /\ foreigners = 0
  /\ pc = [c \in Callers |-> "out"] /\ left = Budget
  /\ pending_work = 0 /\ told = 0 /\ lost = FALSE /\ cut = FALSE
  /\ armed = FALSE /\ unarmed = FALSE

Next ==
  \/ TimerStep \/ WorkDone \/ InitWork \/ InitEnds
  \/ \E c \in Callers : CallerBegins(c) \/ CallerContinues(c)
  \/ ForeignBegins \/ ForeignEnds \/ Stop

Spec == Init /\ [][Next]_vars

\* A queued timer fires and its callback runs to the end; the worker, the
\* bring-up and a call under way go on.
FairSpec ==
  /\ Spec /\ WF_vars(TimerStep) /\ WF_vars(WorkDone)
  /\ WF_vars(InitWork) /\ WF_vars(InitEnds)
  /\ \A c \in Callers : WF_vars(CallerContinues(c))
-----------------------------------------------------------------------------
EffectType ==
  [uploaded : BOOLEAN, playing : BOOLEAN, shape : Shapes \cup {NoShape},
   delayed : BOOLEAN, replays : 0..MaxReplays - 1, use_tf : BOOLEAN]

TickType ==
  [any : BOOLEAN, sounding : BOOLEAN, texture : BOOLEAN, force : {0, 1},
   spring : BOOLEAN, idle : BOOLEAN, sent : BOOLEAN, carriers : Nat]

Places == {"off", "force", "start", "samples", "recentre", "stop", "arm", "gate",
           "send", "decide", "restart"}

TableOK == effects \in [Effects -> EffectType]

TimerOK ==
  /\ timer_armed \in BOOLEAN /\ queued \in BOOLEAN
  /\ tpc \in Places /\ tick \in TickType

BringupOK ==
  /\ tf_ready \in BOOLEAN /\ tf_init_queued \in BOOLEAN
  /\ tf_init_attempts \in 0..InitAttempts /\ init \in {"no", "queued", "sending"}
  /\ init # "no" => tf_init_queued                         \* one at a time, and
  /\ ~tf_init_queued \/ init # "no" => tf_init_attempts < InitAttempts \* so many

StreamOK ==
  /\ tf_streaming \in BOOLEAN /\ tf_recentre_sent \in BOOLEAN
  /\ tf_stop_sent \in BOOLEAN /\ tf_stop_attempts \in 0..StopAttempts - 1
  /\ kf_idle_ticks \in 0..GraceTicks /\ kf_gated \in BOOLEAN

CallsOK ==
  /\ autocenter \in BOOLEAN /\ texture_route \in BOOLEAN
  /\ stopping \in BOOLEAN /\ foreign \in BOOLEAN /\ foreigners \in 0..MaxForeign
  /\ pc \in [Callers -> {"out", "kick", "release"}] /\ left \in 0..Budget

WireOK ==
  /\ pending_work \in 0..MaxWork
  /\ last_force \in {0, 1} /\ told \in {0, 1} /\ lost \in BOOLEAN /\ cut \in BOOLEAN
  /\ armed \in BOOLEAN /\ unarmed \in BOOLEAN

\* The types, and the bounds of the counters the code keeps in narrow fields:
\* the queue never holds more than its limit, and no retry is counted past its
\* own.
TypeOK == TableOK /\ TimerOK /\ BringupOK /\ StreamOK /\ CallsOK /\ WireOK

\* No lost wake-up: whatever the interleaving of callers with the callback's
\* two sections, an effect that plays (or a spring that is on) has a timer
\* armed for it, or a caller on its way to arm it.
NoLostWakeup ==
  (Playing # {} \/ autocenter) /\ ~stopping
    => timer_armed \/ \E c \in Callers : pc[c] = "kick"

\* Never two arms of one timer: it is not queued under its own callback, and
\* the flag is set exactly while it is queued or its callback runs.
OneArm ==
  /\ ~(queued /\ tpc # "off")
  /\ timer_armed = (queued \/ tpc # "off")

\* The force-carrier contract: a tick queues (or yields) its force once, and
\* goes without only when it was refused, gated or stopped.
CarrierContract ==
  /\ tick.carriers <= 1
  /\ tpc = "decide" /\ tick.carriers = 0 => lost \/ kf_gated \/ stopping

\* A timer that has stopped left no force behind: the last force packet said
\* zero, unless a later one was refused or the spring was switched off inside
\* the very tick that used it.
ReleasedAtRest ==
  ~timer_armed /\ ~stopping /\ ~lost /\ ~cut => told = 0

\* Silence begins at zero: when the gate ends the stream the wheel was told
\* so before.
GatedAtZero == kf_gated /\ tpc = "off" /\ ~lost => told = 0

\* No sample packet is queued behind a STOP: a texture that restarts in the
\* middle of a wind-down gets its arm first.
SamplesAfterArm == ~unarmed

\* When nothing plays any more the stream is wound down and the timer ends,
\* however long the queue is full.
FallsIdle ==
  <>[](Playing = {} /\ ~autocenter) => <>[](~timer_armed /\ (~tf_streaming \/ stopping))

\* "fires the timer immediately to emit a single zero-force packet": a timer
\* at rest has told the wheel zero.
ReleaseArrives ==
  ~timer_armed /\ ~stopping /\ ~cut => told = 0

\* Autocenter written to 0 disables the spring: once the timer is at rest no
\* force of it is left.
SpringReleases ==
  ~timer_armed /\ ~stopping /\ ~lost => told = 0
-----------------------------------------------------------------------------
(* What the invariants above rest on, place by place of the callback.      *)

\* Who has carried the tick's force so far.
CarrierPlaces ==
  /\ tpc \in {"off", "force", "start", "samples", "recentre", "restart"}
       => ~tick.sent /\ tick.carriers = 0
  /\ tpc \in {"stop", "arm", "gate", "send"}
       => tick.carriers = IF tick.sent THEN 1 ELSE 0
  /\ tick.carriers = 1 => told = tick.force /\ ~lost
  /\ CarrierContract

\* The engine is armed while a stream is up and not half wound down.
ArmPlaces ==
  /\ SamplesAfterArm
  /\ tpc = "samples" => armed
  /\ tf_streaming /\ ~tf_stop_sent => armed

\* A session that counts idle ticks has told the wheel zero, or tried to.
GatePlaces ==
  /\ tick.idle => /\ tick.force = 0 /\ ~tick.sent
                  /\ tpc \in {"gate", "stop", "arm", "send", "decide"}
  /\ tpc \in {"off", "force", "decide", "restart"}
       \/ (tpc \in {"gate", "stop", "arm"} /\ tick.idle)
       => (kf_gated \/ kf_idle_ticks > 0 => lost \/ told = 0)
  /\ tpc \in {"stop", "arm"} /\ tick.idle => kf_idle_ticks > 0
  /\ tpc = "send" => /\ kf_gated => lost \/ told = 0
                     /\ kf_idle_ticks > 0 => tick.idle

\* A tick's force comes from an effect or from the spring.
ForcePlaces ==
  /\ tick.sounding => tick.any
  /\ tick.force # 0 => tick.sounding \/ tick.spring
  /\ ReleasedAtRest
=============================================================================
