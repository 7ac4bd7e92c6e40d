--------------------------- MODULE DdForceProofs ---------------------------
(***************************************************************************)
(* The safety properties of DdForce, for any table, any number of callers  *)
(* and any limits.  TypeOK, OneArm and NoLostWakeup are inductive; the     *)
(* other four follow from what holds at each place of the callback         *)
(* (CarrierPlaces, ArmPlaces, GatePlaces, ForcePlaces).                    *)
(***************************************************************************)
EXTENDS DdForce, TLAPS

USE ForceAssumption DEF table, timer, bringup, winding, gate, knobs, world, calls, wire
-----------------------------------------------------------------------------
(* Types.                                                                  *)

\* What the clock does to an effect leaves it an effect.
LEMMA AgedType ==
  ASSUME NEW e \in EffectType
  PROVE  Aged(e) \subseteq EffectType
<1>1. [e EXCEPT !.delayed = FALSE] \in EffectType
  BY DEF EffectType
<1>2. [[e EXCEPT !.delayed = FALSE] EXCEPT !.playing = FALSE] \in EffectType
  BY DEF EffectType
<1>3. ASSUME e.replays > 0
      PROVE  [[e EXCEPT !.delayed = FALSE] EXCEPT !.replays = @ - 1] \in EffectType
  <2> DEFINE r == [e EXCEPT !.delayed = FALSE]
  <2>1. r.replays = e.replays /\ e.replays - 1 \in 0..MaxReplays - 1
    BY <1>3 DEF EffectType
  <2> HIDE DEF r
  <2>2. r \in EffectType => [r EXCEPT !.replays = r.replays - 1] \in EffectType
    BY <2>1 DEF EffectType
  <2> QED
    BY <1>1, <2>2 DEF r
<1>4. [e EXCEPT !.delayed = FALSE].replays = e.replays
  BY DEF EffectType
<1> QED
  BY <1>1, <1>2, <1>3, <1>4 DEF Aged

\* A control packet moves the queue within its limit.
LEMMA CtrlWire ==
  ASSUME WireOK, NEW start \in BOOLEAN, NEW ok \in BOOLEAN, QueueCtrl(start, ok),
         UNCHANGED <<last_force, cut>>
  PROVE  WireOK'
<1>1. pending_work' \in 0..MaxWork
  BY DEF WireOK, QueueCtrl, Room, Counted
<1>2. armed' \in BOOLEAN
  BY DEF WireOK, QueueCtrl
<1> QED
  BY <1>1, <1>2 DEF WireOK, QueueCtrl

\* So does a stream packet.
LEMMA StreamWire ==
  ASSUME WireOK, TimerOK, NEW ok \in BOOLEAN, NEW samples \in BOOLEAN,
         QueueStream(ok, samples), UNCHANGED <<last_force, cut>>
  PROVE  WireOK'
<1>1. pending_work' \in 0..MaxWork
  BY DEF WireOK, QueueStream, Room, Counted
<1>2. told' \in {0, 1} /\ lost' \in BOOLEAN
  BY DEF WireOK, QueueStream, Carried, TimerOK, TickType
<1>3. unarmed' \in BOOLEAN
  BY DEF WireOK, QueueStream
<1> QED
  BY <1>1, <1>2, <1>3 DEF WireOK, QueueStream

\* A tick that counts a carrier is still a tick.
LEMMA CarrierTick ==
  ASSUME TimerOK, NEW ok \in BOOLEAN, NEW sent \in BOOLEAN
  PROVE  [tick EXCEPT !.sent = sent, !.carriers = IF ok THEN @ + 1 ELSE @] \in TickType
<1> DEFINE n == IF ok THEN tick.carriers + 1 ELSE tick.carriers
<1>1. n \in Nat
  BY DEF TimerOK, TickType
<1> HIDE DEF n
<1>2. [tick EXCEPT !.sent = sent, !.carriers = n] \in TickType
  BY <1>1 DEF TimerOK, TickType
<1> QED
  BY <1>2 DEF TimerOK, TickType, n

\* The counters of a pair stay below their limit.
LEMMA PairStream ==
  ASSUME StreamOK, TimerOK, NEW stop \in BOOLEAN, PairOver \/ PairMissed(stop)
  PROVE  StreamOK'
<1>1. CASE PairOver
  <2>1. kf_gated' \in BOOLEAN /\ tf_stop_attempts' \in 0..StopAttempts - 1
    BY <1>1 DEF StreamOK, PairOver, TimerOK, TickType
  <2> QED
    BY <1>1, <2>1 DEF StreamOK, PairOver
<1>2. CASE PairMissed(stop) /\ ~PairOver
  <2>1. tf_stop_attempts' \in 0..StopAttempts - 1
    BY <1>2 DEF StreamOK, PairMissed
  <2> QED
    BY <1>2, <2>1 DEF StreamOK, PairMissed
<1> QED
  BY <1>1, <1>2

\* One slot of the table is replaced.
LEMMA TableSlot ==
  ASSUME TableOK, NEW i \in Effects, NEW r \in EffectType,
         effects' = [effects EXCEPT ![i] = r]
  PROVE  TableOK'
BY DEF TableOK

\* The callback's own steps.
LEMMA TimerTypes ==
  ASSUME TypeOK, TimerStep
  PROVE  TypeOK'
<1>1. CASE TickBail
  <2>1. TableOK' /\ TimerOK'
    BY <1>1 DEF TypeOK, TickBail, TableOK, TimerOK
  <2>2. BringupOK' /\ StreamOK'
    BY <1>1 DEF TypeOK, TickBail, BringupOK, StreamOK
  <2>3. CallsOK' /\ WireOK'
    BY <1>1 DEF TypeOK, TickBail, CallsOK, WireOK
  <2> QED
    BY <2>1, <2>2, <2>3 DEF TypeOK
<1>2. CASE TickScan
  <2>1. TableOK'
    <3>1. \A i \in Effects : effects[i] \in EffectType
      BY DEF TypeOK, TableOK
    <3>2. \A i \in Effects : effects'[i] \in Aged(effects[i])
      BY <1>2 DEF TickScan
    <3>3. effects' = [i \in Effects |-> effects'[i]]
      BY <1>2 DEF TickScan
    <3> QED
      BY <3>1, <3>2, <3>3, AgedType DEF TableOK
  <2>2. TimerOK'
    <3>1. tick' \in TickType
      BY <1>2 DEF TypeOK, TimerOK, CallsOK, TickScan, TickType, Idle
    <3> QED
      BY <1>2, <3>1 DEF TypeOK, TimerOK, TickScan, Places
  <2>3. BringupOK'
    BY <1>2 DEF TypeOK, TickScan, BringupOK
  <2>4. StreamOK'
    BY <1>2 DEF TypeOK, TickScan, StreamOK
  <2>5. CallsOK' /\ WireOK'
    BY <1>2 DEF TypeOK, TickScan, CallsOK, WireOK
  <2> QED
    BY <2>1, <2>2, <2>3, <2>4, <2>5 DEF TypeOK
<1>3. CASE TickForce
  <2>1. TimerOK'
    <3>1. PICK f \in {0, 1} :
            tick' = [tick EXCEPT !.force = f, !.spring = autocenter,
                       !.idle = (f = 0 /\ ~tick.any /\ ~tick.texture /\ ~tf_streaming)]
      BY <1>3 DEF TickForce
    <3>2. tick' \in TickType
      BY <3>1 DEF TypeOK, TimerOK, CallsOK, TickType
    <3> QED
      BY <1>3, <3>2 DEF TypeOK, TimerOK, TickForce, Places
  <2>2. TableOK' /\ BringupOK'
    BY <1>3 DEF TypeOK, TickForce, TableOK, BringupOK
  <2>3. StreamOK'
    BY <1>3 DEF TypeOK, TickForce, StreamOK
  <2>4. CallsOK' /\ WireOK'
    BY <1>3 DEF TypeOK, TickForce, CallsOK, WireOK
  <2> QED
    BY <2>1, <2>2, <2>3, <2>4 DEF TypeOK
<1>4. CASE TickStart
  <2>1. TableOK' /\ TimerOK'
    BY <1>4 DEF TypeOK, TickStart, TableOK, TimerOK, TickRest, Places
  <2>2. BringupOK' /\ CallsOK'
    BY <1>4 DEF TypeOK, TickStart, BringupOK, CallsOK, TickRest
  <2>3. StreamOK'
    <3>1. tf_stop_attempts' = tf_stop_attempts \/ tf_stop_attempts' = 0
      BY <1>4 DEF TickStart
    <3>2. tf_stop_attempts' \in 0..StopAttempts - 1
      BY <3>1 DEF TypeOK, StreamOK
    <3> QED
      BY <1>4, <3>2 DEF TypeOK, TickStart, StreamOK
  <2>4. WireOK'
    <3>1. (\E ok \in BOOLEAN : QueueCtrl(TRUE, ok)) \/ UNCHANGED wire
      BY <1>4 DEF TickStart
    <3>2. UNCHANGED <<last_force, cut>>
      BY <1>4 DEF TickStart, TickRest
    <3> QED
      BY <3>1, <3>2, CtrlWire DEF TypeOK, WireOK
  <2> QED
    BY <2>1, <2>2, <2>3, <2>4 DEF TypeOK
<1>5. CASE TickSamples
  <2>1. TimerOK'
    <3>1. TimerOK
      BY DEF TypeOK
    <3>2. tick' = tick \/ \E ok \in BOOLEAN : tick' = Sent(ok)
      BY <1>5 DEF TickSamples
    <3>3. tick' \in TickType
      BY <3>1, <3>2, CarrierTick DEF Sent, TimerOK
    <3> QED
      BY <1>5, <3>1, <3>3 DEF TimerOK, TickSamples, Places, TickRest
  <2>2. TableOK' /\ BringupOK'
    BY <1>5 DEF TypeOK, TickSamples, TableOK, BringupOK, TickRest
  <2>3. StreamOK'
    BY <1>5 DEF TypeOK, TickSamples, StreamOK, TickRest
  <2>4. CallsOK'
    BY <1>5 DEF TypeOK, TickSamples, CallsOK, TickRest
  <2>5. WireOK'
    <3>1. (\E ok \in BOOLEAN : QueueStream(ok, TRUE)) \/ UNCHANGED wire
      BY <1>5 DEF TickSamples
    <3>2. UNCHANGED <<last_force, cut>>
      BY <1>5 DEF TickSamples, TickRest
    <3> QED
      BY <3>1, <3>2, StreamWire DEF TypeOK, WireOK
  <2> QED
    BY <2>1, <2>2, <2>3, <2>4, <2>5 DEF TypeOK
<1>6. CASE TickRecentre
  <2>1. TimerOK'
    <3>1. TimerOK
      BY DEF TypeOK
    <3>2. tick' = tick \/ \E ok \in BOOLEAN : tick' = Sent(ok)
      BY <1>6 DEF TickRecentre
    <3>3. tick' \in TickType
      BY <3>1, <3>2, CarrierTick DEF Sent, TimerOK
    <3> QED
      BY <1>6, <3>1, <3>3 DEF TimerOK, TickRecentre, Places, TickRest
  <2>2. TableOK' /\ BringupOK'
    BY <1>6 DEF TypeOK, TickRecentre, TableOK, BringupOK, TickRest
  <2>3. StreamOK'
    BY <1>6 DEF TypeOK, TickRecentre, StreamOK, TickRest
  <2>4. CallsOK'
    BY <1>6 DEF TypeOK, TickRecentre, CallsOK, TickRest
  <2>5. WireOK'
    <3>1. (\E ok \in BOOLEAN : QueueStream(ok, FALSE)) \/ UNCHANGED wire
      BY <1>6 DEF TickRecentre
    <3>2. UNCHANGED <<last_force, cut>>
      BY <1>6 DEF TickRecentre, TickRest
    <3> QED
      BY <3>1, <3>2, StreamWire DEF TypeOK, WireOK
  <2> QED
    BY <2>1, <2>2, <2>3, <2>4, <2>5 DEF TypeOK
<1>7. CASE TickStop
  <2>1. TableOK' /\ TimerOK'
    BY <1>7 DEF TypeOK, TickStop, TableOK, TimerOK, TickRest, Places, AfterPair
  <2>2. BringupOK' /\ CallsOK'
    BY <1>7 DEF TypeOK, TickStop, BringupOK, CallsOK, TickRest
  <2>3. StreamOK'
    <3>1. CASE PairMissed(FALSE)
      BY <3>1, PairStream DEF TypeOK
    <3>2. CASE ~PairMissed(FALSE)
      BY <1>7, <3>2 DEF TypeOK, TickStop, StreamOK
    <3> QED
      BY <3>1, <3>2
  <2>4. WireOK'
    <3>1. (\E ok \in BOOLEAN : QueueCtrl(FALSE, ok)) \/ UNCHANGED wire
      BY <1>7 DEF TickStop
    <3>2. UNCHANGED <<last_force, cut>>
      BY <1>7 DEF TickStop, TickRest
    <3> QED
      BY <3>1, <3>2, CtrlWire DEF TypeOK, WireOK
  <2> QED
    BY <2>1, <2>2, <2>3, <2>4 DEF TypeOK
<1>8. CASE TickArm
  <2>1. TableOK' /\ TimerOK'
    BY <1>8 DEF TypeOK, TickArm, TableOK, TimerOK, TickRest, Places, AfterPair
  <2>2. BringupOK' /\ CallsOK'
    BY <1>8 DEF TypeOK, TickArm, BringupOK, CallsOK, TickRest
  <2>3. StreamOK'
    <3>1. PairOver \/ PairMissed(TRUE)
      BY <1>8 DEF TickArm
    <3> QED
      BY <3>1, PairStream DEF TypeOK
  <2>4. WireOK'
    <3>1. (\E ok \in BOOLEAN : QueueCtrl(TRUE, ok)) \/ UNCHANGED wire
      BY <1>8 DEF TickArm
    <3>2. UNCHANGED <<last_force, cut>>
      BY <1>8 DEF TickArm, TickRest
    <3> QED
      BY <3>1, <3>2, CtrlWire DEF TypeOK, WireOK
  <2> QED
    BY <2>1, <2>2, <2>3, <2>4 DEF TypeOK
<1>9. CASE TickGate
  <2>1. TableOK' /\ TimerOK'
    BY <1>9 DEF TypeOK, TickGate, TableOK, TimerOK, TickRest, Places
  <2>2. BringupOK' /\ CallsOK'
    BY <1>9 DEF TypeOK, TickGate, BringupOK, CallsOK, TickRest
  <2>3. StreamOK'
    <3>1. kf_idle_ticks' \in 0..GraceTicks
      BY <1>9 DEF TypeOK, StreamOK, TickGate
    <3>2. kf_gated' \in BOOLEAN
      BY <1>9 DEF TypeOK, StreamOK, TickGate
    <3> QED
      BY <1>9, <3>1, <3>2 DEF TypeOK, StreamOK, TickGate
  <2>4. WireOK'
    BY <1>9 DEF TypeOK, TickGate, WireOK, TickRest
  <2> QED
    BY <2>1, <2>2, <2>3, <2>4 DEF TypeOK
<1>10. CASE TickSend
  <2>1. TimerOK'
    <3>1. TimerOK
      BY DEF TypeOK
    <3>2. tick.sent \in BOOLEAN /\ tick = [tick EXCEPT !.sent = tick.sent]
      BY <3>1 DEF TimerOK, TickType
    <3>3. tick' = tick \/ \E ok \in BOOLEAN :
             tick' = [tick EXCEPT !.carriers = IF ok THEN @ + 1 ELSE @]
      BY <1>10 DEF TickSend, SendForce
    <3>4. \A ok \in BOOLEAN : [tick EXCEPT !.carriers = IF ok THEN @ + 1 ELSE @]
             = [tick EXCEPT !.sent = tick.sent, !.carriers = IF ok THEN @ + 1 ELSE @]
      BY <3>1 DEF TimerOK, TickType
    <3>5. tick' \in TickType
      BY <3>1, <3>2, <3>3, <3>4, CarrierTick DEF TimerOK
    <3> QED
      BY <1>10, <3>1, <3>5 DEF TimerOK, TickSend, Places
  <2>2. TableOK' /\ BringupOK'
    BY <1>10 DEF TypeOK, TickSend, TableOK, BringupOK
  <2>3. StreamOK'
    BY <1>10 DEF TypeOK, TickSend, StreamOK
  <2>4. CallsOK'
    BY <1>10 DEF TypeOK, TickSend, CallsOK
  <2>5. WireOK'
    <3>1. pending_work' \in 0..MaxWork
      BY <1>10 DEF TypeOK, WireOK, TickSend, SendForce, Room, Counted
    <3>2. told' \in {0, 1} /\ lost' \in BOOLEAN /\ last_force' \in {0, 1}
      BY <1>10 DEF TypeOK, WireOK, TickSend, SendForce, Carried, TimerOK, TickType
    <3> QED
      BY <1>10, <3>1, <3>2 DEF TypeOK, WireOK, TickSend, SendForce
  <2> QED
    BY <2>1, <2>2, <2>3, <2>4, <2>5 DEF TypeOK
<1>11. CASE TickDecide
  <2>1. TimerOK'
    <3>1. tick' \in TickType
      BY <1>11 DEF TypeOK, TimerOK, CallsOK, TickDecide, TickType, Idle
    <3> QED
      BY <1>11, <3>1 DEF TypeOK, TimerOK, TickDecide, Places
  <2>2. TableOK' /\ BringupOK'
    BY <1>11 DEF TypeOK, TickDecide, TableOK, BringupOK
  <2>3. StreamOK'
    BY <1>11 DEF TypeOK, TickDecide, StreamOK
  <2>4. CallsOK'
    BY <1>11 DEF TypeOK, TickDecide, CallsOK
  <2>5. WireOK'
    BY <1>11 DEF TypeOK, TickDecide, WireOK, TimerOK, TickType
  <2> QED
    BY <2>1, <2>2, <2>3, <2>4, <2>5 DEF TypeOK
<1>12. CASE TickRestart
  <2>1. TableOK' /\ TimerOK'
    BY <1>12 DEF TypeOK, TickRestart, TableOK, TimerOK, Places
  <2>2. BringupOK' /\ StreamOK'
    BY <1>12 DEF TypeOK, TickRestart, BringupOK, StreamOK
  <2>3. CallsOK' /\ WireOK'
    BY <1>12 DEF TypeOK, TickRestart, CallsOK, WireOK
  <2> QED
    BY <2>1, <2>2, <2>3 DEF TypeOK
<1> QED
  BY <1>1, <1>2, <1>3, <1>4, <1>5, <1>6, <1>7, <1>8, <1>9, <1>10, <1>11, <1>12 DEF TimerStep

\* The calls of a program.
LEMMA CallTypes ==
  ASSUME TypeOK, NEW c \in Callers, CallerBegins(c) \/ CallerContinues(c)
  PROVE  TypeOK'
<1>1. ASSUME NEW i \in Effects, NEW s \in Shapes, Upload(c, i, s)
      PROVE  TypeOK'
  <2>1. TableOK'
    <3> DEFINE r == [effects[i] EXCEPT !.shape = s, !.uploaded = TRUE,
                       !.playing = effects[i].uploaded /\ effects[i].playing]
    <3>1. effects[i] \in EffectType
      BY DEF TypeOK, TableOK
    <3>2. r \in EffectType
      BY <1>1, <3>1 DEF EffectType
    <3>3. effects' = [effects EXCEPT ![i] = r]
      BY <1>1 DEF Upload
    <3> QED
      BY <3>2, <3>3, TableSlot DEF TypeOK
  <2>2. TimerOK' /\ BringupOK'
    BY <1>1 DEF TypeOK, Upload, TimerOK, BringupOK, CallRest
  <2>3. StreamOK' /\ WireOK'
    BY <1>1 DEF TypeOK, Upload, StreamOK, WireOK, CallRest
  <2>4. CallsOK'
    <3>1. PICK place \in {"out", "kick", "release"} : Call(c, place)
      BY <1>1 DEF Upload
    <3> QED
      BY <1>1, <3>1 DEF TypeOK, CallsOK, Upload, Call, CallRest
  <2> QED
    BY <2>1, <2>2, <2>3, <2>4 DEF TypeOK
<1>2. ASSUME NEW i \in Effects, Erase(c, i)
      PROVE  TypeOK'
  <2>1. TableOK'
    <3> DEFINE r == [effects[i] EXCEPT !.shape = NoShape, !.uploaded = FALSE, !.playing = FALSE]
    <3>1. effects[i] \in EffectType
      BY DEF TypeOK, TableOK
    <3>2. r \in EffectType
      BY <1>2, <3>1 DEF EffectType
    <3>3. effects' = [effects EXCEPT ![i] = r]
      BY <1>2 DEF Erase
    <3> QED
      BY <3>2, <3>3, TableSlot DEF TypeOK
  <2>2. TimerOK' /\ BringupOK'
    BY <1>2 DEF TypeOK, Erase, TimerOK, BringupOK, CallRest
  <2>3. StreamOK' /\ WireOK'
    BY <1>2 DEF TypeOK, Erase, StreamOK, WireOK, CallRest
  <2>4. CallsOK'
    <3>1. PICK place \in {"out", "kick", "release"} : Call(c, place)
      BY <1>2 DEF Erase
    <3> QED
      BY <1>2, <3>1 DEF TypeOK, CallsOK, Erase, Call, CallRest
  <2> QED
    BY <2>1, <2>2, <2>3, <2>4 DEF TypeOK
<1>3. ASSUME NEW i \in Effects, NEW v \in 0..MaxReplays, Playback(c, i, v)
      PROVE  TypeOK'
  <2>1. TableOK'
    <3> DEFINE off == [effects[i] EXCEPT !.playing = FALSE]
               use == texture_route /\ tf_ready /\ effects[i].shape.texture
               on == [effects[i] EXCEPT !.playing = TRUE, !.replays = v - 1,
                        !.delayed = effects[i].shape.delay, !.use_tf = use]
    <3>1. effects[i] \in EffectType /\ use \in BOOLEAN
      BY DEF TypeOK, TableOK
    <3>0. effects[i].shape \in Shapes \cup {NoShape}
      BY <3>1 DEF EffectType
    <3>2. effects[i].shape.delay \in BOOLEAN
      <4>1. \A x \in Shapes : x.delay \in BOOLEAN
        OBVIOUS
      <4>2. NoShape.delay \in BOOLEAN
        BY DEF NoShape
      <4> QED
        BY <3>0, <4>1, <4>2
    <3>3. off \in EffectType
      BY <3>1 DEF EffectType
    <3>4. v # 0 => v - 1 \in 0..MaxReplays - 1
      OBVIOUS
    <3> HIDE DEF use
    <3>5. v # 0 => on \in EffectType
      BY <3>1, <3>2, <3>4 DEF EffectType
    <3>6. effects' = [effects EXCEPT ![i] = IF v = 0 THEN off ELSE on]
      BY <1>3 DEF Playback, use
    <3> QED
      BY <3>3, <3>5, <3>6, TableSlot DEF TypeOK
  <2>2. TimerOK' /\ BringupOK'
    BY <1>3 DEF TypeOK, Playback, TimerOK, BringupOK, CallRest
  <2>3. StreamOK' /\ WireOK'
    BY <1>3 DEF TypeOK, Playback, StreamOK, WireOK, CallRest
  <2>4. CallsOK'
    <3>1. PICK place \in {"out", "kick", "release"} : Call(c, place)
      BY <1>3 DEF Playback
    <3> QED
      BY <1>3, <3>1 DEF TypeOK, CallsOK, Playback, Call, CallRest
  <2> QED
    BY <2>1, <2>2, <2>3, <2>4 DEF TypeOK
<1>4. ASSUME NEW b \in BOOLEAN, SetAutocenter(c, b)
      PROVE  TypeOK'
  <2>1. TableOK' /\ TimerOK'
    BY <1>4 DEF TypeOK, SetAutocenter, TableOK, TimerOK, CallRest
  <2>2. BringupOK' /\ StreamOK'
    BY <1>4 DEF TypeOK, SetAutocenter, BringupOK, StreamOK, CallRest
  <2>3. WireOK'
    BY <1>4 DEF TypeOK, SetAutocenter, WireOK, CallRest
  <2>4. CallsOK'
    <3>1. PICK place \in {"out", "kick", "release"} : Call(c, place)
      BY <1>4 DEF SetAutocenter
    <3> QED
      BY <1>4, <3>1 DEF TypeOK, CallsOK, SetAutocenter, Call, CallRest
  <2> QED
    BY <2>1, <2>2, <2>3, <2>4 DEF TypeOK
<1>5. ASSUME NEW b \in BOOLEAN, SetRoute(c, b)
      PROVE  TypeOK'
  <2>1. TableOK' /\ TimerOK'
    BY <1>5 DEF TypeOK, SetRoute, TableOK, TimerOK, CallRest
  <2>2. BringupOK' /\ StreamOK'
    BY <1>5 DEF TypeOK, SetRoute, BringupOK, StreamOK, CallRest
  <2>3. WireOK'
    BY <1>5 DEF TypeOK, SetRoute, WireOK, CallRest
  <2>4. CallsOK'
    <3>1. PICK place \in {"out", "kick", "release"} : Call(c, place)
      BY <1>5 DEF SetRoute
    <3> QED
      BY <1>5, <3>1 DEF TypeOK, CallsOK, SetRoute, Call, CallRest
  <2> QED
    BY <2>1, <2>2, <2>3, <2>4 DEF TypeOK
<1>6. CASE Release(c)
  <2>1. TableOK' /\ TimerOK'
    BY <1>6 DEF TypeOK, Release, TableOK, TimerOK, CallRest
  <2>2. BringupOK' /\ StreamOK'
    BY <1>6 DEF TypeOK, Release, BringupOK, StreamOK, CallRest
  <2>3. WireOK'
    BY <1>6 DEF TypeOK, Release, WireOK, CallRest
  <2>4. CallsOK'
    BY <1>6 DEF TypeOK, Release, CallsOK, CallRest
  <2> QED
    BY <2>1, <2>2, <2>3, <2>4 DEF TypeOK
<1>7. CASE Kick(c)
  <2>1. TableOK' /\ TimerOK'
    BY <1>7 DEF TypeOK, Kick, TableOK, TimerOK
  <2>2. BringupOK' /\ StreamOK'
    BY <1>7 DEF TypeOK, Kick, BringupOK, StreamOK
  <2>3. WireOK'
    BY <1>7 DEF TypeOK, Kick, WireOK
  <2>4. CallsOK'
    BY <1>7 DEF TypeOK, Kick, CallsOK
  <2> QED
    BY <2>1, <2>2, <2>3, <2>4 DEF TypeOK
<1> QED
  BY <1>1, <1>2, <1>3, <1>4, <1>5, <1>6, <1>7 DEF CallerBegins, CallerContinues

\* The worker, the bring-up and the world.
LEMMA WorldTypes ==
  ASSUME TypeOK, WorkDone \/ InitWork \/ InitEnds \/ ForeignBegins \/ ForeignEnds \/ Stop
  PROVE  TypeOK'
<1>1. CASE WorkDone
  <2>1. TableOK' /\ TimerOK'
    BY <1>1 DEF TypeOK, WorkDone, TableOK, TimerOK
  <2>2. BringupOK' /\ StreamOK'
    BY <1>1 DEF TypeOK, WorkDone, BringupOK, StreamOK
  <2>3. CallsOK'
    BY <1>1 DEF TypeOK, WorkDone, CallsOK
  <2>4. WireOK'
    BY <1>1 DEF TypeOK, WorkDone, WireOK
  <2> QED
    BY <2>1, <2>2, <2>3, <2>4 DEF TypeOK
<1>2. CASE InitWork
  <2>1. TableOK' /\ TimerOK'
    BY <1>2 DEF TypeOK, InitWork, TableOK, TimerOK
  <2>2. BringupOK' /\ StreamOK'
    BY <1>2 DEF TypeOK, InitWork, BringupOK, StreamOK
  <2>3. CallsOK'
    BY <1>2 DEF TypeOK, InitWork, CallsOK
  <2>4. WireOK'
    BY <1>2 DEF TypeOK, InitWork, WireOK
  <2> QED
    BY <2>1, <2>2, <2>3, <2>4 DEF TypeOK
<1>3. CASE InitEnds
  <2>1. TableOK' /\ TimerOK'
    BY <1>3 DEF TypeOK, InitEnds, TableOK, TimerOK
  <2>2. BringupOK'
    <3>1. tf_init_attempts \in 0..InitAttempts - 1 /\ tf_init_queued
      BY <1>3 DEF TypeOK, BringupOK, InitEnds
    <3>2. CASE tf_init_attempts' = tf_init_attempts /\ tf_init_queued' = tf_init_queued
      BY <1>3, <3>1, <3>2 DEF TypeOK, BringupOK, InitEnds
    <3>3. CASE /\ tf_init_attempts' = tf_init_attempts + 1
               /\ tf_init_queued' = IF tf_init_attempts' < InitAttempts
                                     THEN FALSE ELSE tf_init_queued
      <4>1. tf_init_attempts' \in 0..InitAttempts
        BY <3>1, <3>3
      <4>2. ~tf_init_queued' => tf_init_attempts' < InitAttempts
        <5>1. CASE tf_init_attempts' < InitAttempts
          BY <5>1
        <5>2. CASE ~(tf_init_attempts' < InitAttempts)
          BY <3>1, <3>3, <5>2
        <5> QED
          BY <5>1, <5>2
      <4>3. tf_init_queued' \in BOOLEAN /\ tf_ready' \in BOOLEAN
        BY <1>3, <3>1 DEF TypeOK, BringupOK, InitEnds
      <4> QED
        BY <1>3, <4>1, <4>2, <4>3 DEF TypeOK, BringupOK, InitEnds
    <3> QED
      BY <1>3, <3>2, <3>3 DEF InitEnds
  <2>3. StreamOK'
    BY <1>3 DEF TypeOK, InitEnds, StreamOK
  <2>4. CallsOK'
    BY <1>3 DEF TypeOK, InitEnds, CallsOK
  <2>5. WireOK'
    BY <1>3 DEF TypeOK, InitEnds, WireOK
  <2> QED
    BY <2>1, <2>2, <2>3, <2>4, <2>5 DEF TypeOK
<1>4. CASE ForeignBegins
  <2>1. TableOK' /\ TimerOK'
    BY <1>4 DEF TypeOK, ForeignBegins, TableOK, TimerOK, WorldRest
  <2>2. BringupOK' /\ StreamOK'
    BY <1>4 DEF TypeOK, ForeignBegins, BringupOK, StreamOK, WorldRest
  <2>3. CallsOK'
    BY <1>4 DEF TypeOK, ForeignBegins, CallsOK, WorldRest
  <2>4. WireOK'
    BY <1>4 DEF TypeOK, ForeignBegins, WireOK, WorldRest
  <2> QED
    BY <2>1, <2>2, <2>3, <2>4 DEF TypeOK
<1>5. CASE ForeignEnds
  <2>1. TableOK' /\ TimerOK'
    BY <1>5 DEF TypeOK, ForeignEnds, TableOK, TimerOK, WorldRest
  <2>2. BringupOK' /\ StreamOK'
    BY <1>5 DEF TypeOK, ForeignEnds, BringupOK, StreamOK, WorldRest
  <2>3. CallsOK'
    BY <1>5 DEF TypeOK, ForeignEnds, CallsOK, WorldRest
  <2>4. WireOK'
    BY <1>5 DEF TypeOK, ForeignEnds, WireOK, WorldRest
  <2> QED
    BY <2>1, <2>2, <2>3, <2>4 DEF TypeOK
<1>6. CASE Stop
  <2>1. TableOK' /\ TimerOK'
    BY <1>6 DEF TypeOK, Stop, TableOK, TimerOK, WorldRest
  <2>2. BringupOK' /\ StreamOK'
    BY <1>6 DEF TypeOK, Stop, BringupOK, StreamOK, WorldRest
  <2>3. CallsOK'
    BY <1>6 DEF TypeOK, Stop, CallsOK, WorldRest
  <2>4. WireOK'
    BY <1>6 DEF TypeOK, Stop, WireOK, WorldRest
  <2> QED
    BY <2>1, <2>2, <2>3, <2>4 DEF TypeOK
<1> QED
  BY <1>1, <1>2, <1>3, <1>4, <1>5, <1>6

LEMMA TypeStep ==
  ASSUME TypeOK, [Next]_vars
  PROVE  TypeOK'
<1>1. CASE UNCHANGED vars
  BY <1>1 DEF TypeOK, TableOK, TimerOK, BringupOK, StreamOK, CallsOK, WireOK, vars
<1>2. CASE Next
  BY <1>2, TimerTypes, CallTypes, WorldTypes DEF Next
<1> QED
  BY <1>1, <1>2

LEMMA TypeInit == Init => TypeOK
<1> SUFFICES ASSUME Init PROVE TypeOK
  OBVIOUS
<1>1. TableOK
  BY DEF Init, TableOK, Absent, EffectType
<1>2. TimerOK
  BY DEF Init, TimerOK, Places, TickType, Idle
<1>3. BringupOK
  <2>1. tf_init_attempts \in 0..InitAttempts /\ tf_init_attempts < InitAttempts
    BY DEF Init
  <2> QED
    BY <2>1 DEF Init, BringupOK
<1>4. StreamOK
  <2>1. tf_stop_attempts \in 0..StopAttempts - 1 /\ kf_idle_ticks \in 0..GraceTicks
    BY DEF Init
  <2> QED
    BY <2>1 DEF Init, StreamOK
<1>5. CallsOK
  <2>1. foreigners \in 0..MaxForeign /\ left \in 0..Budget
    BY DEF Init
  <2> QED
    BY <2>1 DEF Init, CallsOK
<1>6. WireOK
  <2>1. pending_work \in 0..MaxWork
    BY DEF Init
  <2> QED
    BY <2>1 DEF Init, WireOK
<1> QED
  BY <1>1, <1>2, <1>3, <1>4, <1>5, <1>6 DEF TypeOK

\* Every counter of the force engine stays within the field and the limit the
\* code gives it, whatever the limits, the table and the number of callers.
THEOREM TypeCorrect == Spec => []TypeOK
<1>1. TypeOK /\ [Next]_vars => TypeOK'
  BY TypeStep
<1> QED
  BY TypeInit, <1>1, PTL DEF Spec
-----------------------------------------------------------------------------
(* The hand-over of the timer.                                             *)

\* The steps of the callback between its two sections leave the hand-over be.
LEMMA MiddleFrame ==
  ASSUME \/ TickForce \/ TickStart \/ TickSamples \/ TickRecentre \/ TickStop
         \/ TickArm \/ TickGate \/ TickSend
  PROVE  /\ UNCHANGED <<effects, timer_armed, queued, autocenter, stopping, pc>>
         /\ tpc \notin {"off", "restart"} /\ tpc' \notin {"off", "restart"}
<1>1. CASE TickForce
  BY <1>1 DEF TickForce
<1>2. CASE TickStart
  BY <1>2 DEF TickStart, TickRest
<1>3. CASE TickSamples
  BY <1>3 DEF TickSamples, TickRest
<1>4. CASE TickRecentre
  BY <1>4 DEF TickRecentre, TickRest
<1>5. CASE TickStop
  BY <1>5 DEF TickStop, TickRest, AfterPair
<1>6. CASE TickArm
  BY <1>6 DEF TickArm, TickRest, AfterPair
<1>7. CASE TickGate
  BY <1>7 DEF TickGate, TickRest
<1>8. CASE TickSend
  BY <1>8 DEF TickSend
<1> QED
  BY <1>1, <1>2, <1>3, <1>4, <1>5, <1>6, <1>7, <1>8

\* So do the worker, the bring-up and a foreign stream; stopping is for good.
LEMMA WorldFrame ==
  ASSUME WorkDone \/ InitWork \/ InitEnds \/ ForeignBegins \/ ForeignEnds \/ Stop
  PROVE  /\ UNCHANGED <<effects, timer_armed, queued, autocenter, tpc, tick, pc>>
         /\ stopping => stopping'
<1>1. CASE WorkDone
  BY <1>1 DEF WorkDone
<1>2. CASE InitWork
  BY <1>2 DEF InitWork
<1>3. CASE InitEnds
  BY <1>3 DEF InitEnds
<1>4. CASE ForeignBegins \/ ForeignEnds \/ Stop
  BY <1>4 DEF ForeignBegins, ForeignEnds, Stop, WorldRest
<1> QED
  BY <1>1, <1>2, <1>3, <1>4

LEMMA OneArmStep ==
  ASSUME TypeOK, OneArm, [Next]_vars
  PROVE  OneArm'
<1>1. CASE UNCHANGED vars
  BY <1>1 DEF vars, OneArm
<1>2. CASE TickBail
  BY <1>2 DEF TickBail, OneArm
<1>3. CASE TickScan
  BY <1>3 DEF TickScan, OneArm
<1>4. CASE \/ TickForce \/ TickStart \/ TickSamples \/ TickRecentre \/ TickStop
           \/ TickArm \/ TickGate \/ TickSend
  BY <1>4, MiddleFrame DEF OneArm
<1>5. CASE TickDecide
  BY <1>5 DEF TickDecide, OneArm
<1>6. CASE TickRestart
  BY <1>6 DEF TickRestart, OneArm
<1>7. CASE WorkDone \/ InitWork \/ InitEnds \/ ForeignBegins \/ ForeignEnds \/ Stop
  BY <1>7, WorldFrame DEF OneArm
<1>8. ASSUME NEW c \in Callers, CallerBegins(c)
      PROVE  OneArm'
  <2>1. UNCHANGED <<timer_armed, queued, tpc>>
    BY <1>8 DEF CallerBegins, Upload, Erase, Playback, SetAutocenter, SetRoute, CallRest
  <2> QED
    BY <2>1 DEF OneArm
<1>9. ASSUME NEW c \in Callers, CallerContinues(c)
      PROVE  OneArm'
  <2>1. CASE Release(c)
    BY <2>1 DEF Release, CallRest, OneArm
  <2>2. CASE Kick(c)
    BY <2>2 DEF Kick, MayArm, OneArm, TypeOK, TimerOK
  <2> QED
    BY <1>9, <2>1, <2>2 DEF CallerContinues
<1> QED
  BY <1>1, <1>2, <1>3, <1>4, <1>5, <1>6, <1>7, <1>8, <1>9 DEF Next, TimerStep

\* A call takes a caller from outside to its next section, nobody else.
LEMMA CallPc ==
  ASSUME TypeOK, NEW c \in Callers, NEW place, Call(c, place)
  PROVE  /\ pc'[c] = place
         /\ \A d \in Callers : pc[d] = "kick" => pc'[d] = "kick"
BY DEF TypeOK, CallsOK, Call

\* An upload or an erase starts nothing.
LEMMA SlotPlaying ==
  ASSUME TableOK, NEW i \in Effects, NEW r,
         effects' = [effects EXCEPT ![i] = r],
         r.uploaded /\ r.playing => effects[i].uploaded /\ effects[i].playing
  PROVE  Playing' \subseteq Playing
BY DEF TableOK, Playing

LEMMA WakeupStep ==
  ASSUME TypeOK, OneArm, NoLostWakeup, [Next]_vars
  PROVE  NoLostWakeup'
<1>1. CASE UNCHANGED vars
  BY <1>1 DEF vars, NoLostWakeup, Playing
<1>2. CASE TickBail
  BY <1>2 DEF TickBail, NoLostWakeup
<1>3. CASE TickScan
  BY <1>3 DEF TickScan, OneArm, NoLostWakeup
<1>4. CASE \/ TickForce \/ TickStart \/ TickSamples \/ TickRecentre \/ TickStop
           \/ TickArm \/ TickGate \/ TickSend
  BY <1>4, MiddleFrame DEF NoLostWakeup, Playing
<1>5. CASE TickDecide
  <2>1. CASE StillNeeded /\ ~stopping
    BY <1>5, <2>1 DEF TickDecide, OneArm, NoLostWakeup
  <2>2. CASE ~(StillNeeded /\ ~stopping)
    <3>1. UNCHANGED <<effects, autocenter, stopping>>
      BY <1>5 DEF TickDecide
    <3> QED
      BY <3>1, <2>2 DEF StillNeeded, NoLostWakeup, Playing
  <2> QED
    BY <2>1, <2>2
<1>6. CASE TickRestart
  BY <1>6 DEF TickRestart, NoLostWakeup, Playing
<1>7. CASE WorkDone \/ InitWork \/ InitEnds \/ ForeignBegins \/ ForeignEnds \/ Stop
  BY <1>7, WorldFrame DEF NoLostWakeup, Playing
<1>8. ASSUME NEW c \in Callers, CallerBegins(c)
      PROVE  NoLostWakeup'
  <2>1. UNCHANGED <<timer_armed, stopping>>
    BY <1>8 DEF CallerBegins, Upload, Erase, Playback, SetAutocenter, SetRoute, CallRest
  <2>2. ASSUME NEW i \in Effects, NEW s \in Shapes, Upload(c, i, s)
        PROVE  NoLostWakeup'
    <3> DEFINE r == [effects[i] EXCEPT !.shape = s, !.uploaded = TRUE,
                       !.playing = effects[i].uploaded /\ effects[i].playing]
    <3>1. effects' = [effects EXCEPT ![i] = r] /\ autocenter' = autocenter
      BY <2>2 DEF Upload
    <3>2. effects[i] \in EffectType
      BY DEF TypeOK, TableOK
    <3>3. r.uploaded /\ r.playing => effects[i].uploaded /\ effects[i].playing
      BY <3>2 DEF EffectType
    <3> HIDE DEF r
    <3>4. Playing' \subseteq Playing
      BY <3>1, <3>3, SlotPlaying DEF TypeOK
    <3>5. \A d \in Callers : pc[d] = "kick" => pc'[d] = "kick"
      BY <2>2, CallPc DEF Upload
    <3> QED
      BY <2>1, <3>1, <3>4, <3>5 DEF NoLostWakeup
  <2>3. ASSUME NEW i \in Effects, Erase(c, i)
        PROVE  NoLostWakeup'
    <3> DEFINE r == [effects[i] EXCEPT !.shape = NoShape, !.uploaded = FALSE,
                                       !.playing = FALSE]
    <3>1. effects' = [effects EXCEPT ![i] = r] /\ autocenter' = autocenter
      BY <2>3 DEF Erase
    <3>2. effects[i] \in EffectType
      BY DEF TypeOK, TableOK
    <3>3. ~r.uploaded
      BY <3>2 DEF EffectType
    <3> HIDE DEF r
    <3>4. Playing' \subseteq Playing
      BY <3>1, <3>3, SlotPlaying DEF TypeOK
    <3>5. \A d \in Callers : pc[d] = "kick" => pc'[d] = "kick"
      BY <2>3, CallPc DEF Erase
    <3> QED
      BY <2>1, <3>1, <3>4, <3>5 DEF NoLostWakeup
  <2>4. ASSUME NEW i \in Effects, NEW v \in 0..MaxReplays, Playback(c, i, v)
        PROVE  NoLostWakeup'
    <3>1. Call(c, IF Playing' # {} THEN "kick" ELSE "release") /\ autocenter' = autocenter
      BY <2>4 DEF Playback, Playing
    <3>2. CASE Playing' # {}
      <4>1. pc'[c] = "kick"
        BY <3>1, <3>2, CallPc
      <4> QED
        BY <4>1 DEF NoLostWakeup
    <3>3. CASE Playing' = {}
      <4>1. \A d \in Callers : pc[d] = "kick" => pc'[d] = "kick"
        BY <3>1, CallPc
      <4> QED
        BY <2>1, <3>1, <3>3, <4>1 DEF NoLostWakeup
    <3> QED
      BY <3>2, <3>3
  <2>5. ASSUME NEW b \in BOOLEAN, SetAutocenter(c, b)
        PROVE  NoLostWakeup'
    <3>1. Call(c, IF b THEN "kick" ELSE "out") /\ autocenter' = b /\ effects' = effects
      BY <2>5 DEF SetAutocenter
    <3>2. CASE b
      <4>1. pc'[c] = "kick"
        BY <3>1, <3>2, CallPc
      <4> QED
        BY <4>1 DEF NoLostWakeup
    <3>3. CASE ~b
      <4>1. \A d \in Callers : pc[d] = "kick" => pc'[d] = "kick"
        BY <3>1, CallPc
      <4> QED
        BY <2>1, <3>1, <3>3, <4>1 DEF NoLostWakeup, Playing
    <3> QED
      BY <3>2, <3>3
  <2>6. ASSUME NEW b \in BOOLEAN, SetRoute(c, b)
        PROVE  NoLostWakeup'
    <3>1. \A d \in Callers : pc[d] = "kick" => pc'[d] = "kick"
      BY <2>6, CallPc DEF SetRoute
    <3>2. UNCHANGED <<effects, autocenter>>
      BY <2>6 DEF SetRoute
    <3> QED
      BY <2>1, <3>1, <3>2 DEF NoLostWakeup, Playing
  <2> QED
    BY <1>8, <2>2, <2>3, <2>4, <2>5, <2>6 DEF CallerBegins
<1>9. ASSUME NEW c \in Callers, CallerContinues(c)
      PROVE  NoLostWakeup'
  <2>1. CASE Release(c)
    <3>1. UNCHANGED <<effects, autocenter, timer_armed, stopping>>
      BY <2>1 DEF Release, CallRest
    <3>2. \A d \in Callers : pc[d] = "kick" => pc'[d] = "kick"
      BY <2>1 DEF Release, TypeOK, CallsOK
    <3> QED
      BY <3>1, <3>2 DEF NoLostWakeup, Playing
  <2>2. CASE Kick(c)
    <3>1. UNCHANGED <<effects, autocenter, stopping>>
      BY <2>2 DEF Kick
    <3>2. timer_armed' \/ stopping
      BY <2>2 DEF Kick, MayArm
    <3> QED
      BY <3>1, <3>2 DEF NoLostWakeup
  <2> QED
    BY <1>9, <2>1, <2>2 DEF CallerContinues
<1> QED
  BY <1>1, <1>2, <1>3, <1>4, <1>5, <1>6, <1>7, <1>8, <1>9 DEF Next, TimerStep

\* hidpp_dd_ff_timer_kick's claim, "No lost wake-up, and never two arms of one
\* timer", for any number of effects and of concurrent callers.
THEOREM TimerHandover == Spec => [](OneArm /\ NoLostWakeup)
<1> DEFINE I == TypeOK /\ OneArm /\ NoLostWakeup
<1>1. Init => I
  <2> SUFFICES ASSUME Init PROVE I
    OBVIOUS
  <2>1. Playing = {}
    <3>1. \A i \in Effects : effects[i] = Absent
      BY DEF Init
    <3> QED
      BY <3>1 DEF Playing, Absent
  <2>2. OneArm
    BY DEF Init, OneArm
  <2>3. NoLostWakeup
    BY <2>1 DEF Init, NoLostWakeup
  <2> QED
    BY <2>2, <2>3, TypeInit
<1>2. I /\ [Next]_vars => I'
  BY TypeStep, OneArmStep, WakeupStep
<1> QED
  BY <1>1, <1>2, PTL DEF Spec

\* hidpp_dd_ff_timer_kick never arms a timer that is already armed, nor one
\* whose callback has yet to decide, for any number of callers.
THEOREM NeverTwiceArmed == Spec => []OneArm
<1>1. Spec => [](TypeOK /\ OneArm)
  <2>1. Init => OneArm  BY DEF Init, OneArm
  <2>2. TypeOK /\ OneArm /\ [Next]_vars => OneArm'  BY OneArmStep
  <2> QED  BY <2>1, <2>2, TypeCorrect, PTL DEF Spec
<1> QED  BY <1>1, PTL
-----------------------------------------------------------------------------
(* The stream is armed before samples.                                     *)

LEMMA ArmPlacesStep ==
  ASSUME TypeOK, ArmPlaces, [Next]_vars
  PROVE  ArmPlaces'
<1> USE DEF ArmPlaces, SamplesAfterArm
<1>1. CASE UNCHANGED vars
  BY <1>1 DEF vars
<1>2. CASE TickBail \/ TickScan \/ TickForce
  <2>1. UNCHANGED <<winding, wire>> /\ tpc' # "samples"
    <3>1. CASE TickBail
      BY <3>1 DEF TickBail
    <3>2. CASE TickScan
      BY <3>2 DEF TickScan
    <3>3. CASE TickForce
      BY <3>3 DEF TickForce
    <3> QED
      BY <1>2, <3>1, <3>2, <3>3
  <2> QED
    BY <2>1
<1>3. CASE TickStart
  <2>1. CASE ~StartOwed
    BY <1>3, <2>1 DEF TickStart, StartOwed
  <2>2. CASE StartOwed
    <3>1. PICK ok \in BOOLEAN :
            /\ QueueCtrl(TRUE, ok)
            /\ tpc' = IF ok THEN "samples" ELSE "gate"
            /\ ~ok => UNCHANGED winding
      BY <1>3, <2>2 DEF TickStart
    <3> QED
      BY <3>1 DEF QueueCtrl
  <2> QED
    BY <2>1, <2>2
<1>4. CASE TickSamples
  <2>1. PICK ok \in BOOLEAN : QueueStream(ok, TRUE)
    BY <1>4 DEF TickSamples
  <2> QED
    BY <1>4, <2>1 DEF TickSamples, QueueStream
<1>5. CASE TickRecentre
  <2>1. UNCHANGED <<tf_streaming, tf_stop_sent, armed>> /\ tpc' = "stop"
    BY <1>5 DEF TickRecentre, QueueStream
  <2>2. unarmed' = unarmed
    <3>1. UNCHANGED wire \/ \E ok \in BOOLEAN : QueueStream(ok, FALSE)
      BY <1>5 DEF TickRecentre
    <3> QED
      BY <3>1 DEF QueueStream, TypeOK, WireOK
  <2> QED
    BY <2>1, <2>2
<1>6. CASE TickStop
  <2>1. tpc' # "samples" /\ unarmed' = unarmed
    BY <1>6 DEF TickStop, AfterPair, QueueCtrl
  <2>2. CASE tf_stop_sent
    BY <1>6, <2>1, <2>2 DEF TickStop
  <2>3. CASE ~tf_stop_sent
    <3>1. PICK ok \in BOOLEAN :
            /\ QueueCtrl(FALSE, ok)
            /\ ok => tf_stop_sent'
            /\ ~ok => PairMissed(FALSE)
      BY <1>6, <2>3 DEF TickStop
    <3>2. CASE ok
      BY <2>1, <3>1, <3>2
    <3>3. CASE ~ok
      <4>1. armed' = armed
        BY <3>1, <3>3 DEF QueueCtrl
      <4>2. tf_streaming' => tf_streaming
        BY <3>1, <3>3 DEF PairMissed, PairOver
      <4> QED
        BY <2>1, <2>3, <4>1, <4>2
    <3> QED
      BY <3>2, <3>3
  <2> QED
    BY <2>2, <2>3
<1>7. CASE TickArm
  <2>1. PICK ok \in BOOLEAN :
          QueueCtrl(TRUE, ok) /\ IF ok THEN PairOver ELSE PairMissed(TRUE)
    BY <1>7 DEF TickArm
  <2>2. tpc' # "samples" /\ unarmed' = unarmed
    BY <1>7, <2>1 DEF TickArm, AfterPair, QueueCtrl
  <2>3. ~tf_streaming' \/ tf_stop_sent'
    BY <2>1 DEF PairOver, PairMissed
  <2> QED
    BY <2>2, <2>3
<1>8. CASE TickGate
  BY <1>8 DEF TickGate
<1>9. CASE TickSend
  BY <1>9 DEF TickSend, SendForce
<1>10. CASE TickDecide \/ TickRestart
  BY <1>10 DEF TickDecide, TickRestart
<1>11. CASE WorkDone \/ InitWork \/ ForeignBegins \/ ForeignEnds \/ Stop
  BY <1>11 DEF WorkDone, InitWork, ForeignBegins, ForeignEnds, Stop, WorldRest
<1>12. CASE InitEnds
  BY <1>12 DEF InitEnds
<1>13. ASSUME NEW c \in Callers, CallerBegins(c) \/ CallerContinues(c)
       PROVE  ArmPlaces'
  <2>1. UNCHANGED <<winding, wire, tpc>>
    BY <1>13 DEF CallerBegins, CallerContinues, Upload, Erase, Playback, SetAutocenter,
                 SetRoute, Release, Kick, CallRest
  <2> QED
    BY <2>1
<1> QED
  BY <1>1, <1>2, <1>3, <1>4, <1>5, <1>6, <1>7, <1>8, <1>9, <1>10, <1>11, <1>12, <1>13
  DEF Next, TimerStep

\* No texture packet goes out behind a STOP, however the wind-down, the gate
\* and a full queue interleave.
THEOREM ArmedBeforeSamples == Spec => []SamplesAfterArm
<1>1. Init => ArmPlaces
  BY DEF Init, ArmPlaces, SamplesAfterArm
<1>2. TypeOK /\ ArmPlaces /\ [Next]_vars => ArmPlaces'
  BY ArmPlacesStep
<1>3. ArmPlaces => SamplesAfterArm
  BY DEF ArmPlaces
<1> QED
  BY <1>1, <1>2, <1>3, TypeCorrect, PTL DEF Spec
-----------------------------------------------------------------------------
(* One carrier for a tick's force, silence at zero, and release at rest.   *)

\* Nobody but the callback writes what these are about.
LEMMA OutsideFrame ==
  ASSUME TypeOK, Next, ~TimerStep
  PROVE  /\ UNCHANGED <<tpc, tick, told, lost, kf_idle_ticks, kf_gated, cut>>
         /\ stopping => stopping'
         /\ timer_armed => timer_armed'
<1>1. CASE WorkDone
  BY <1>1 DEF WorkDone
<1>2. CASE InitWork
  BY <1>2 DEF InitWork
<1>3. CASE InitEnds
  BY <1>3 DEF InitEnds
<1>4. CASE ForeignBegins \/ ForeignEnds \/ Stop
  BY <1>4 DEF ForeignBegins, ForeignEnds, Stop, WorldRest
<1>5. ASSUME NEW c \in Callers, CallerBegins(c)
      PROVE  UNCHANGED <<tpc, tick, told, lost, kf_idle_ticks, kf_gated, cut,
                         stopping, timer_armed>>
  BY <1>5 DEF CallerBegins, Upload, Erase, Playback, SetAutocenter, SetRoute, CallRest
<1>6. ASSUME NEW c \in Callers, CallerContinues(c)
      PROVE  /\ UNCHANGED <<tpc, tick, told, lost, kf_idle_ticks, kf_gated, cut, stopping>>
             /\ timer_armed => timer_armed'
  BY <1>6 DEF CallerContinues, Release, Kick, CallRest
<1> QED
  BY <1>1, <1>2, <1>3, <1>4, <1>5, <1>6 DEF Next

\* A tick begins with nothing but what the scan saw.
LEMMA ScanTick ==
  ASSUME TickScan
  PROVE  /\ ~tick'.sent /\ tick'.carriers = 0 /\ ~tick'.idle /\ tick'.force = 0
         /\ tick'.sounding => tick'.any
<1> DEFINE on == {i \in Effects : effects'[i].uploaded /\ effects'[i].playing}
           sounding == {i \in on : ~effects'[i].delayed}
           texture == \E i \in sounding : effects'[i].use_tf
<1>1. tick' = [Idle EXCEPT !.any = (on # {}), !.sounding = (sounding # {}),
                           !.texture = texture]
  BY DEF TickScan
<1>2. sounding \subseteq on
  OBVIOUS
<1> HIDE DEF on, sounding, texture
<1> QED
  BY <1>1, <1>2 DEF Idle

\* The force is summed; the rest of the tick is kept.
LEMMA ForceTick ==
  ASSUME TypeOK, TickForce
  PROVE  /\ tick'.sent = tick.sent /\ tick'.carriers = tick.carriers
         /\ tick'.any = tick.any /\ tick'.sounding = tick.sounding
         /\ tick'.force # 0 => tick'.sounding \/ tick'.spring
         /\ tick'.idle => tick'.force = 0 /\ tpc' = "gate"
<1>1. PICK f \in IF tick.sounding \/ autocenter THEN {0, 1} ELSE {0} :
        tick' = [tick EXCEPT !.force = f, !.spring = autocenter,
                   !.idle = (f = 0 /\ ~tick.any /\ ~tick.texture /\ ~tf_streaming)]
  BY DEF TickForce
<1>2. /\ tick'.force = f /\ tick'.spring = autocenter
      /\ tick'.idle = (f = 0 /\ ~tick.any /\ ~tick.texture /\ ~tf_streaming)
      /\ tick'.sent = tick.sent /\ tick'.carriers = tick.carriers
      /\ tick'.any = tick.any /\ tick'.sounding = tick.sounding
  BY <1>1 DEF TypeOK, TimerOK, TickType
<1>3. f # 0 => tick.sounding \/ autocenter
  OBVIOUS
<1>4. tick'.idle => ~tick.texture /\ ~tf_streaming /\ f = 0
  BY <1>2
<1>5. ~tick.texture /\ ~tf_streaming => tpc' = "gate"
  BY DEF TickForce
<1> QED
  BY <1>2, <1>3, <1>4, <1>5

\* A packet with the force was queued, or not.
LEMMA SentTick ==
  ASSUME TypeOK, NEW ok \in BOOLEAN
  PROVE  /\ Sent(ok).sent = ok
         /\ Sent(ok).carriers = IF ok THEN tick.carriers + 1 ELSE tick.carriers
         /\ Sent(ok).force = tick.force /\ Sent(ok).idle = tick.idle
         /\ Sent(ok).any = tick.any /\ Sent(ok).sounding = tick.sounding
         /\ Sent(ok).spring = tick.spring
BY DEF TypeOK, TimerOK, TickType, Sent

\* What the two packets of hidpp_dd_tf_tick that carry the force do.
LEMMA TextureTick ==
  ASSUME TypeOK, CarrierPlaces, TickSamples \/ TickRecentre
  PROVE  /\ UNCHANGED <<kf_idle_ticks, kf_gated, cut, stopping, timer_armed>>
         /\ tick'.force = tick.force /\ tick'.idle = tick.idle /\ tick'.any = tick.any
         /\ tick'.sounding = tick.sounding /\ tick'.spring = tick.spring
         /\ tick'.carriers = IF tick'.sent THEN 1 ELSE 0
         /\ tick'.carriers = 1 => told' = tick'.force /\ ~lost'
         /\ tpc' = IF tpc = "samples" THEN "gate" ELSE "stop"
<1>1. /\ UNCHANGED <<kf_idle_ticks, kf_gated, cut, stopping, timer_armed>>
      /\ tpc' = IF tpc = "samples" THEN "gate" ELSE "stop"
      /\ tpc \in {"samples", "recentre"}
  BY DEF TickSamples, TickRecentre, TickRest
<1>2. ~tick.sent /\ tick.carriers = 0
  BY <1>1 DEF CarrierPlaces
<1>3. tick' = tick \/ \E ok \in BOOLEAN, smp \in BOOLEAN : QueueStream(ok, smp) /\ tick' = Sent(ok)
  BY DEF TickSamples, TickRecentre
<1>4. CASE tick' = tick
  BY <1>1, <1>2, <1>4
<1>5. ASSUME NEW ok \in BOOLEAN, NEW smp \in BOOLEAN, QueueStream(ok, smp), tick' = Sent(ok)
      PROVE  /\ tick'.force = tick.force /\ tick'.idle = tick.idle /\ tick'.any = tick.any
             /\ tick'.sounding = tick.sounding /\ tick'.spring = tick.spring
             /\ tick'.carriers = IF tick'.sent THEN 1 ELSE 0
             /\ tick'.carriers = 1 => told' = tick'.force /\ ~lost'
  <2>1. /\ tick'.force = tick.force /\ tick'.idle = tick.idle /\ tick'.any = tick.any
        /\ tick'.sounding = tick.sounding /\ tick'.spring = tick.spring
        /\ tick'.sent = ok /\ tick'.carriers = IF ok THEN 0 + 1 ELSE 0
    BY <1>2, <1>5, SentTick
  <2>2. told' = (IF ok THEN tick.force ELSE told) /\ lost' = ~ok
    BY <1>5 DEF QueueStream, Carried
  <2>3. CASE ok
    <3>1. tick'.carriers = 1
      BY <2>1, <2>3
    <3>2. told' = tick.force
      BY <2>2, <2>3
    <3>3. ~lost'
      BY <2>2, <2>3
    <3>4. tick'.sent
      BY <2>1, <2>3
    <3> QED
      BY <2>1, <3>1, <3>2, <3>3, <3>4
  <2>4. CASE ~ok
    BY <2>1, <2>2, <2>4
  <2> QED
    BY <2>3, <2>4
<1> QED
  BY <1>1, <1>3, <1>4, <1>5

\* The control packets leave the force alone.
LEMMA CtrlTick ==
  ASSUME TickStart \/ TickStop \/ TickArm \/ TickGate
  PROVE  UNCHANGED <<tick, told, lost, cut, stopping, timer_armed>>
<1>1. CASE TickStart
  BY <1>1 DEF TickStart, TickRest, QueueCtrl
<1>2. CASE TickStop
  BY <1>2 DEF TickStop, TickRest, QueueCtrl
<1>3. CASE TickArm
  BY <1>3 DEF TickArm, TickRest, QueueCtrl
<1>4. CASE TickGate
  BY <1>4 DEF TickGate, TickRest
<1> QED
  BY <1>1, <1>2, <1>3, <1>4

\* The last packet of a tick.
LEMMA SendTick ==
  ASSUME TypeOK, TickSend
  PROVE  /\ UNCHANGED <<kf_idle_ticks, kf_gated, cut, stopping, timer_armed>>
         /\ tpc = "send" /\ tpc' = "decide"
         /\ tick'.force = tick.force /\ tick'.idle = tick.idle /\ tick'.any = tick.any
         /\ tick'.sent = tick.sent
         /\ tick'.sounding = tick.sounding /\ tick'.spring = tick.spring
         /\ \/ tick.sent \/ kf_gated
            \/ tick'.carriers = tick.carriers /\ lost'
            \/ tick'.carriers = tick.carriers + 1 /\ told' = tick.force /\ ~lost'
         /\ tick.sent \/ kf_gated => UNCHANGED <<tick, told, lost>>
<1>1. /\ UNCHANGED <<kf_idle_ticks, kf_gated, cut, stopping, timer_armed>>
      /\ tpc = "send" /\ tpc' = "decide"
  BY DEF TickSend
<1>2. CASE tick.sent \/ kf_gated
  BY <1>1, <1>2 DEF TickSend
<1>3. CASE ~(tick.sent \/ kf_gated)
  <2>1. PICK ok \in BOOLEAN :
          /\ Carried(ok)
          /\ tick' = [tick EXCEPT !.carriers = IF ok THEN tick.carriers + 1 ELSE tick.carriers]
    BY <1>3 DEF TickSend, SendForce
  <2>2. /\ tick'.force = tick.force /\ tick'.idle = tick.idle /\ tick'.any = tick.any
        /\ tick'.sent = tick.sent
        /\ tick'.sounding = tick.sounding /\ tick'.spring = tick.spring
        /\ tick'.carriers = IF ok THEN tick.carriers + 1 ELSE tick.carriers
    BY <2>1 DEF TypeOK, TimerOK, TickType
  <2> QED
    BY <1>1, <1>3, <2>1, <2>2 DEF Carried
<1> QED
  BY <1>2, <1>3

LEMMA CarrierStep ==
  ASSUME TypeOK, CarrierPlaces, [Next]_vars
  PROVE  CarrierPlaces'
<1> USE DEF CarrierPlaces, CarrierContract
<1>1. CASE UNCHANGED vars
  BY <1>1 DEF vars
<1>2. CASE Next /\ ~TimerStep
  BY <1>2, OutsideFrame
<1>3. CASE TickBail
  BY <1>3 DEF TickBail
<1>4. CASE TickScan
  <2>1. tpc' = "force"
    BY <1>4 DEF TickScan
  <2> QED
    BY <1>4, <2>1, ScanTick
<1>5. CASE TickForce
  <2>1. tpc = "force" /\ tpc' \in {"start", "recentre", "gate"}
    BY <1>5 DEF TickForce
  <2> QED
    BY <1>5, <2>1, ForceTick
<1>6. CASE TickStart
  <2>1. tpc = "start" /\ tpc' \in {"samples", "gate"}
    BY <1>6 DEF TickStart
  <2> QED
    BY <1>6, <2>1, CtrlTick
<1>7. CASE TickSamples \/ TickRecentre
  BY <1>7, TextureTick
<1>8. CASE TickStop \/ TickArm \/ TickGate
  <2>1. tpc \in {"stop", "arm", "gate"} /\ tpc' \in {"stop", "arm", "gate", "send"}
    BY <1>8 DEF TickStop, TickArm, TickGate, AfterPair
  <2> QED
    BY <1>8, <2>1, CtrlTick
<1>9. CASE TickSend
  <2>1. CASE tick.sent
    BY <1>9, <2>1, SendTick
  <2>2. CASE ~tick.sent
    BY <1>9, <2>2, SendTick
  <2> QED
    BY <2>1, <2>2
<1>10. CASE TickDecide
  BY <1>10 DEF TickDecide, Idle
<1>11. CASE TickRestart
  BY <1>11 DEF TickRestart
<1> QED
  BY <1>1, <1>2, <1>3, <1>4, <1>5, <1>6, <1>7, <1>8, <1>9, <1>10, <1>11 DEF TimerStep

LEMMA GateStep ==
  ASSUME TypeOK, CarrierPlaces, GatePlaces, [Next]_vars
  PROVE  GatePlaces'
<1> USE DEF GatePlaces
<1>1. CASE UNCHANGED vars
  BY <1>1 DEF vars
<1>2. CASE Next /\ ~TimerStep
  BY <1>2, OutsideFrame
<1>3. CASE TickBail
  BY <1>3 DEF TickBail
<1>4. CASE TickScan
  BY <1>4, ScanTick DEF TickScan
<1>5. CASE TickForce
  <2>1. /\ tpc = "force" /\ tpc' \in {"start", "recentre", "gate"}
        /\ UNCHANGED <<told, lost, kf_idle_ticks, kf_gated>>
    BY <1>5 DEF TickForce
  <2>2. ~tick.sent
    BY <2>1 DEF CarrierPlaces
  <2> QED
    BY <1>5, <2>1, <2>2, ForceTick
<1>6. CASE TickStart
  <2>1. /\ tpc = "start" /\ tpc' \in {"samples", "gate"}
        /\ UNCHANGED <<kf_idle_ticks, kf_gated>>
    BY <1>6 DEF TickStart
  <2> QED
    BY <1>6, <2>1, CtrlTick
<1>7. CASE TickSamples \/ TickRecentre
  <2>1. ~tick.idle
    BY <1>7 DEF TickSamples, TickRecentre
  <2> QED
    BY <1>7, <2>1, TextureTick
<1>8. CASE TickStop \/ TickArm
  <2>1. /\ tpc \in {"stop", "arm"} /\ kf_idle_ticks' = kf_idle_ticks
        /\ tpc' \in {"arm", AfterPair}
    BY <1>8 DEF TickStop, TickArm, PairMissed, PairOver
  <2>2. UNCHANGED <<tick, told, lost>>
    BY <1>8, CtrlTick
  <2>3. CASE tick.idle
    <3>1. lost \/ told = 0
      BY <2>1, <2>3
    <3> QED
      BY <2>1, <2>2, <2>3, <3>1 DEF AfterPair
  <2>4. CASE ~tick.idle
    BY <2>1, <2>2, <2>4 DEF AfterPair
  <2> QED
    BY <2>3, <2>4
<1>9. CASE TickGate
  <2>1. tpc = "gate" /\ UNCHANGED <<tick, told, lost>>
    BY <1>9, CtrlTick DEF TickGate
  <2>2. CASE kf_idle_gate /\ tick.idle
    <3>1. /\ kf_idle_ticks' = IF kf_idle_ticks < GraceTicks THEN kf_idle_ticks + 1
                                                            ELSE kf_idle_ticks
          /\ kf_gated' = kf_gated
          /\ tpc' = IF GateDue THEN "stop" ELSE "send"
      BY <1>9, <2>2 DEF TickGate
    <3>2. GateDue => kf_idle_ticks > 0
      BY DEF GateDue, TypeOK, StreamOK
    <3>3. kf_idle_ticks > 0 => kf_idle_ticks' > 0
      BY <3>1 DEF TypeOK, StreamOK
    <3> QED
      BY <2>1, <2>2, <3>1, <3>2, <3>3
  <2>3. CASE ~(kf_idle_gate /\ tick.idle)
    <3>1. kf_idle_ticks' = 0 /\ ~kf_gated' /\ tpc' = "send"
      BY <1>9, <2>3 DEF TickGate
    <3> QED
      BY <2>1, <3>1
  <2> QED
    BY <2>2, <2>3
<1>10. CASE TickSend
  <2>1. CASE tick.sent \/ kf_gated
    BY <1>10, <2>1, SendTick
  <2>2. CASE ~(tick.sent \/ kf_gated)
    BY <1>10, <2>2, SendTick
  <2> QED
    BY <2>1, <2>2
<1>11. CASE TickDecide
  <2>1. tpc = "decide" /\ UNCHANGED <<told, lost, kf_idle_ticks, kf_gated>> /\ tick' = Idle
        /\ tpc' \in {"off", "restart"}
    BY <1>11 DEF TickDecide
  <2> QED
    BY <2>1 DEF Idle
<1>12. CASE TickRestart
  BY <1>12 DEF TickRestart
<1> QED
  BY <1>1, <1>2, <1>3, <1>4, <1>5, <1>6, <1>7, <1>8, <1>9, <1>10, <1>11, <1>12
  DEF TimerStep

LEMMA ForceStep ==
  ASSUME TypeOK, OneArm, CarrierPlaces, GatePlaces, ForcePlaces, [Next]_vars
  PROVE  ForcePlaces'
<1> USE DEF ForcePlaces, ReleasedAtRest
<1>1. CASE UNCHANGED vars
  BY <1>1 DEF vars
<1>2. CASE Next /\ ~TimerStep
  BY <1>2, OutsideFrame
<1>3. CASE TickBail
  BY <1>3 DEF TickBail
<1>4. CASE TickScan
  <2>1. timer_armed /\ timer_armed' = timer_armed
    BY <1>4 DEF TickScan, OneArm
  <2> QED
    BY <1>4, <2>1, ScanTick
<1>5. CASE TickForce
  <2>1. timer_armed /\ timer_armed' = timer_armed
    BY <1>5 DEF TickForce, OneArm
  <2> QED
    BY <1>5, <2>1, ForceTick
<1>6. CASE TickStart \/ TickStop \/ TickArm \/ TickGate
  BY <1>6, CtrlTick
<1>7. CASE TickSamples \/ TickRecentre
  <2>1. timer_armed
    BY <1>7 DEF TickSamples, TickRecentre, OneArm
  <2> QED
    BY <1>7, <2>1, TextureTick
<1>8. CASE TickSend
  <2>1. timer_armed
    BY <1>8 DEF TickSend, OneArm
  <2> QED
    BY <1>8, <2>1, SendTick
<1>9. CASE TickDecide
  <2>1. /\ tpc = "decide" /\ tick' = Idle /\ UNCHANGED <<told, lost, stopping, autocenter>>
        /\ cut' = (tick.spring /\ ~autocenter /\ tick.force # 0)
    BY <1>9 DEF TickDecide
  <2>2. ~timer_armed' => ~(StillNeeded /\ ~stopping)
    BY <1>9 DEF TickDecide, OneArm
  <2>3. ASSUME ~timer_armed', ~stopping', ~lost', ~cut'
        PROVE  told' = 0
    <3>1. ~tick.any /\ ~autocenter
      BY <2>1, <2>2, <2>3 DEF StillNeeded
    <3>2. tick.force = 0
      BY <2>1, <2>3, <3>1
    <3>3. CASE tick.carriers = 1
      BY <2>1, <3>2, <3>3 DEF CarrierPlaces
    <3>4. CASE tick.carriers # 1
      <4>1. tick.carriers = 0
        BY <3>4 DEF CarrierPlaces, CarrierContract, TypeOK, TimerOK, TickType
      <4>2. kf_gated
        BY <2>1, <2>3, <4>1 DEF CarrierPlaces, CarrierContract
      <4> QED
        BY <2>1, <2>3, <4>2 DEF GatePlaces
    <3> QED
      BY <3>3, <3>4
  <2> QED
    BY <2>1, <2>3 DEF Idle
<1>10. CASE TickRestart
  BY <1>10 DEF TickRestart
<1> QED
  BY <1>1, <1>2, <1>3, <1>4, <1>5, <1>6, <1>7, <1>8, <1>9, <1>10 DEF TimerStep

LEMMA PlacesInvariant == Spec => [](OneArm /\ CarrierPlaces /\ GatePlaces /\ ForcePlaces)
<1> DEFINE I == OneArm /\ CarrierPlaces /\ GatePlaces /\ ForcePlaces
<1>1. Init => I
  <2> SUFFICES ASSUME Init PROVE I
    OBVIOUS
  <2>1. tick = Idle /\ tpc = "off" /\ told = 0
    BY DEF Init
  <2>2. OneArm
    BY DEF Init, OneArm
  <2>3. CarrierPlaces
    BY <2>1 DEF CarrierPlaces, CarrierContract, Idle
  <2>4. GatePlaces
    BY <2>1 DEF GatePlaces, Idle
  <2>5. ForcePlaces
    BY <2>1 DEF ForcePlaces, ReleasedAtRest, Idle
  <2> QED
    BY <2>2, <2>3, <2>4, <2>5
<1>2. TypeOK /\ I /\ [Next]_vars => I'
  BY OneArmStep, CarrierStep, GateStep, ForceStep
<1> QED
  BY <1>1, <1>2, TypeCorrect, PTL DEF Spec

\* hidpp_dd_tf_tick's force-carrier contract: a tick's force is queued or
\* yielded once, and only a full queue, the gate or a stop leaves it out.
THEOREM OneCarrier == Spec => []CarrierContract
<1>1. CarrierPlaces => CarrierContract
  BY DEF CarrierPlaces
<1> QED
  BY <1>1, PlacesInvariant, PTL

\* The idle gate goes silent at zero force only.
THEOREM SilentAtZero == Spec => []GatedAtZero
<1>1. GatePlaces => GatedAtZero
  BY DEF GatePlaces, GatedAtZero
<1> QED
  BY <1>1, PlacesInvariant, PTL

\* A timer that has stopped has released the wheel, but for the two cases the
\* property names.
THEOREM ReleasesAtRest == Spec => []ReleasedAtRest
<1>1. ForcePlaces => ReleasedAtRest
  BY DEF ForcePlaces
<1> QED
  BY <1>1, PlacesInvariant, PTL
=============================================================================
