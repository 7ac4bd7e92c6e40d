---------------------------- MODULE MCTelemetry -----------------------------
(***************************************************************************)
(* The programs between a game and the wheel, one at a time on one bench:  *)
(* Init puts a component on it, and v1, v2, ... are that component's       *)
(* variables in the order of its vars. Bounds are small and named in the   *)
(* components.                                                             *)
(***************************************************************************)
EXTENDS Integers, Sequences

VARIABLES part,   \* the component on the bench
          v1, v2, v3, v4, v5, v6, v7, v8, v9, v10, v11, v12, v13, v14, v15,
          v16, v17

vars == <<part, v1, v2, v3, v4, v5, v6, v7, v8, v9, v10, v11, v12, v13, v14,
          v15, v16, v17>>

Programs == {"a", "b", "c"}

Gains == [engine |-> 2, limiter |-> 1, pit |-> 1, shift |-> 1, abs |-> 1,
          slip |-> 1, airborne |-> 3]

G923 == INSTANCE G923Stream WITH
  Half <- 4, Samples <- {0, 3}, Forces <- {-5, 0, 2}, Inverted <- TRUE,
  Capacity <- 1, MaxPending <- 3, NewPerPacket <- 2, IdleTicks <- 1,
  MaxOpens <- 1, MaxFaults <- 2, caller <- v1, chan <- v2, wpc <- v3,
  asked <- v4, pending <- v5, idle <- v6, silent <- v7, ffb <- v8,
  engine <- v9, cur <- v10, lost <- v11, opens <- v12, faults <- v13

Keepalive == INSTANCE FfbKeepalive WITH
  Events <- {3, 4}, Slots <- {0}, MaxOpens <- 2, MaxFaults <- 1, MaxPlugs <- 1,
  rig <- v1, target <- v2, user <- v3, pc <- v4, lib <- v5, node <- v6,
  id <- v7, effects <- v8, alone <- v9, opens <- v10, faults <- v11,
  plugs <- v12

Relay == INSTANCE RelayFanout WITH
  Listeners <- Programs, FanoutPorts <- 2, Ids <- {1, 2}, Queue <- 1,
  MaxChurn <- 6, port <- v1, role <- v2, recvq <- v3, seen <- v4, twice <- v5,
  hungry <- v6, churn <- v7

Rev == INSTANCE RevDisplay WITH
  Backends <- {"attr", "classdevs"}, Pairs <- 2, Pace <- 1, HalfFlash <- 2,
  Refresh <- 1, MaxChanges <- 2, MaxFaults <- [attr |-> 1, classdevs |-> 0],
  backend <- v1, driven <- v2, revs <- v3, pit <- v4, strip <- v5, lit <- v6,
  lastLevel <- v7, sinceWrite <- v8, flash <- v9, text <- v10, last <- v11,
  sinceText <- v12, gain <- v13, sincePoll <- v14, published <- v15,
  changes <- v16, budget <- v17

Haptics == INSTANCE TfHaptics WITH
  Revs <- {0, 1, 2, 9}, Ceiling <- 5, Redline <- 2, Lag <- 3, Dwell <- 2,
  BurstLen <- 2, Gain <- Gains, MaxPackets <- 2, learned <- v1, tel <- v2,
  limMax <- v3, dwell <- v4, engaged <- v5, lastGear <- v6, burst <- v7,
  smooth <- v8, mixed <- v9, drawn <- v10, steady <- v11, packets <- v12

\* What the proofs assume of the constants.
ASSUME BenchAssumption ==
  /\ Keepalive!NodeAssumption /\ Relay!PortAssumption
  /\ G923!WireAssumption /\ Haptics!RevsAssumption

\* The variables a component with n of them leaves over.
Spare13 == v14 = 0 /\ v15 = 0 /\ v16 = 0 /\ v17 = 0
Spare12 == v13 = 0 /\ Spare13
Spare7 == v8 = 0 /\ v9 = 0 /\ v10 = 0 /\ v11 = 0 /\ v12 = 0 /\ Spare12

Kept13 == UNCHANGED <<v14, v15, v16, v17>>
Kept12 == UNCHANGED <<v13>> /\ Kept13
Kept7 == UNCHANGED <<v8, v9, v10, v11, v12>> /\ Kept12

Init ==
  \/ part = "g923" /\ G923!Init /\ Spare13
  \/ part = "dd" /\ Keepalive!Init /\ Spare12
  \/ part = "relay" /\ Relay!Init /\ Spare7
  \/ part = "rev" /\ Rev!Init
  \/ part = "haptics" /\ Haptics!Init /\ Spare12

Next ==
  /\ UNCHANGED part
  /\ \/ part = "g923" /\ G923!Next /\ Kept13
     \/ part = "dd" /\ Keepalive!Next /\ Kept12
     \/ part = "relay" /\ Relay!Next /\ Kept7
     \/ part = "rev" /\ Rev!Next
     \/ part = "haptics" /\ Haptics!Next /\ Kept12

\* What each component's own specification, or the loop and the threads it
\* runs in, is fair to.
Fairness ==
  /\ WF_(G923!vars)(part = "g923" /\ G923!Writer)
  /\ WF_(G923!vars)(part = "g923" /\ G923!Stopping)
  /\ WF_(Relay!vars)(part = "relay" /\ Relay!Produce)
  /\ \A l \in Programs : /\ WF_(Relay!vars)(part = "relay" /\ Relay!Drain(l))
                         /\ WF_(Relay!vars)(part = "relay" /\ Relay!Promote(l))
  /\ WF_(Rev!vars)(part = "rev" /\ Rev!Elapse)
  /\ WF_(Rev!vars)(part = "rev" /\ Rev!Update)
  /\ WF_(Rev!vars)(part = "rev" /\ Rev!UpdateScreen)
  /\ WF_(Rev!vars)(part = "rev" /\ Rev!Scale)
  /\ WF_(Haptics!vars)(part = "haptics" /\ Haptics!Render)

Spec == Init /\ [][Next]_vars /\ Fairness

-----------------------------------------------------------------------------
\* g923.rs: the writer thread never leaves the wheel pulling (issue #13),
\* the game's own force is carried while no texture comes, and stop()
\* returns whether the channel is full or the writer is dead.  tf.rs and
\* ffb_keepalive.rs: a direct-drive stream is stabilised from its first
\* sample to its last (issue #57) and leaves no effect behind.
StreamEndsWell ==
  /\ [](part = "dd" => /\ Keepalive!TypeOK /\ Keepalive!OnlyOwnEffect
                       /\ Keepalive!StabilisedWhileStreaming)
  /\ [](part = "g923" => G923!TypeOK /\ G923!NeverLeftPulling)
  /\ \A f \in {-5, 0, 2} :
       <>[](part = "g923" /\ G923!ForceAlone(f)) => <>[](part = "g923" => G923!Carried(f))
  /\ part = "g923" /\ G923!StopWaits ~> ~(part = "g923" /\ G923!StopWaits)

\* relay.rs: every program that listens is handed a sample again,
\* through each takeover of the base port, and no sample reaches it twice.
EachListenerOnce ==
  /\ [](part = "relay" => Relay!TypeOK /\ Relay!NoSampleTwice)
  /\ \A l \in Programs : part = "relay" /\ Relay!Deaf(l) ~> ~(part = "relay" /\ Relay!Deaf(l))

\* leds.rs, screen.rs and the gain poll: when the telemetry settles, strip,
\* screen and gain come to show it, whatever was paced away or failed.
CatchesUp == <>[](part = "rev" => Rev!CaughtUp)

\* effects.rs: the limiter cuts only on an engine held at its redline, and a
\* game at rest goes exactly silent.
EffectsEnd ==
  /\ [](part = "haptics" => Haptics!LimiterMeansHeld)
  /\ <>[](part = "haptics" => Haptics!SilentAtRest)
=============================================================================
