----------------------------- MODULE ScsPlugin -----------------------------
(***************************************************************************)
(* logi-tf-scs: the telemetry plugin the truck simulators load.  The game  *)
(* calls it back with channel values, events and configuration; it keeps   *)
(* the newest of each and sends a sample at the end of a frame.            *)
(***************************************************************************)
EXTENDS Naturals

CONSTANTS Rpms,       \* engine speeds, zero among them
          Redlines    \* rpm limits a configuration may carry, zero among them

RedlineAssumption == Redlines \subseteq Nat

VARIABLES
  loaded,    \* scs_telemetry_init was accepted and the socket is open
  paused, rpm, maxRpm, throttle,   \* State
  heard,     \* what the daemon heard last: an engine speed, or nothing yet
  game       \* history: what the simulator is doing

vars == <<loaded, paused, rpm, maxRpm, throttle, heard, game>>

Init ==
  /\ loaded = FALSE /\ paused = TRUE /\ rpm = 0 /\ maxRpm = 0 /\ throttle = 0
  /\ heard = <<>> /\ game = "menu"

\* scs_telemetry_init: refuse, or reset the state and register.  The socket
\* may fail to open, which is not fatal.
ScsInit ==
  /\ ~loaded
  /\ \/ loaded' = TRUE /\ paused' = TRUE /\ rpm' = 0 /\ maxRpm' = 0 /\ throttle' = 0
     \/ UNCHANGED <<loaded, paused, rpm, maxRpm, throttle>>
  /\ game' = "menu" /\ UNCHANGED heard

\* scs_value_t is tagged; as_float reads nothing out of another type, and a
\* callback may come without a value.
Values(payload) == [type : {"float", "s32", "null"}, v : payload]

AsFloat(val, old) == IF val.type = "float" THEN val.v ELSE old

\* The channel callbacks.
Channel ==
  /\ loaded /\ game = "driving"
  /\ \/ \E v \in Values(Rpms) : rpm' = AsFloat(v, rpm) /\ UNCHANGED throttle
     \/ \E t \in Values({0, 1}) : throttle' = AsFloat(t, throttle) /\ UNCHANGED rpm
  /\ UNCHANGED <<loaded, paused, maxRpm, heard, game>>

\* on_event(CONFIGURATION): only a truck's positive limit is kept.
Configuration ==
  /\ loaded
  /\ \E m \in Redlines : maxRpm' = IF m > 0 THEN m ELSE maxRpm
  /\ UNCHANGED <<loaded, paused, rpm, throttle, heard, game>>

FrameEnd ==
  /\ loaded
  /\ heard' = IF ~paused /\ maxRpm > 0 THEN <<rpm, throttle>> ELSE heard
  /\ UNCHANGED <<loaded, paused, rpm, maxRpm, throttle, game>>

EngineOffNothing == heard

EngineOff == IF maxRpm > 0 THEN <<0, 0>> ELSE heard

Paused ==
  /\ loaded /\ game = "driving" /\ game' = "menu"
  /\ paused' = TRUE /\ heard' = EngineOff
  /\ UNCHANGED <<loaded, rpm, maxRpm, throttle>>

Started ==
  /\ loaded /\ game = "menu" /\ game' = "driving" /\ paused' = FALSE
  /\ UNCHANGED <<loaded, rpm, maxRpm, throttle, heard>>

ScsShutdown ==
  /\ loaded /\ loaded' = FALSE /\ heard' = EngineOff /\ game' = "gone"
  /\ UNCHANGED <<paused, rpm, maxRpm, throttle>>

Next == ScsInit \/ Channel \/ Configuration \/ FrameEnd \/ Paused \/ Started
          \/ ScsShutdown

Spec == Init /\ [][Next]_vars

-----------------------------------------------------------------------------
(***************************************************************************)
(* The last word before silence is engine off: in a menu, in a pause and   *)
(* after the plugin is unloaded the daemon is not left holding the engine  *)
(* speed of the drive (send_engine_off on PAUSED and on shutdown).         *)
(***************************************************************************)
EngineOffInMenus == game # "driving" => heard \in {<<>>, <<0, 0>>}
=============================================================================
