---------------------------- MODULE TfSimProofs ----------------------------
(***************************************************************************)
(* Proofs about TfSim, for any games and configuration, any timeouts, with *)
(* the daemon and the sweep interleaved, signalled, killed and restarted   *)
(* in any way; about the session that holds the daemon's stream and the    *)
(* sweep's, for any event nodes and effect slots, any number of wheels of  *)
(* any kind, and any number of streams, failed system calls, kills,        *)
(* replugs and effects of the game; about the telemetry port the           *)
(* daemon shares, for any number of programs, forwarding ports, samples    *)
(* and queue lengths, however programs come, go and take the base port     *)
(* over; about the writer thread of a G923, for any words, bounds and      *)
(* faults; and about the decoders and the rev limiter, for any speeds and  *)
(* dwell.                                                                  *)
(***************************************************************************)
EXTENDS TfSim, SequenceTheorems, TLAPS

CONSTANTS
  Events, Slots, MaxOpens, MaxFaults, MaxPlugs,
  Listeners, FanoutPorts, Ids, Queue, MaxChurn,
  Half, Samples, Forces, Inverted, Capacity, MaxPending, NewPerPacket, IdleTicks,
  Revs, Ceiling, Redline, Lag, Dwell, BurstLen, Gain, MaxPackets

VARIABLES
  rig, target, user, stage, lib, node, id, effects, alone, opens, faults, plugs,
  port, role, recvq, seen, twice, hungry, churn,
  caller, chan, wpc, asked, pending, idle, silent, ffb, engine, cur, lost,
  learned, tel, limMax, dwell, engaged, lastGear, burst, smooth, mixed, drawn,
  steady, packets

Keepalive == INSTANCE FfbKeepalive WITH pc <- stage
Relay     == INSTANCE RelayFanout
G923      == INSTANCE G923Stream
Haptics   == INSTANCE TfHaptics

(***************************************************************************)
(* The daemon and the sweep.                                               *)
(***************************************************************************)
LEMMA MinOfTwo ==
  ASSUME NEW a \in Nat, NEW b \in Nat
  PROVE  Min({a, b}) \in 0..b
<1> DEFINE P(x) == \A y \in {a, b} : x =< y
<1>1. \E x \in {a, b} : P(x)  OBVIOUS
<1>2. Min({a, b}) = CHOOSE x \in {a, b} : P(x)  BY DEF Min
<1>3. Min({a, b}) \in {a, b} /\ P(Min({a, b}))  BY <1>1, <1>2
<1> QED  BY <1>3

LEMMA Spans ==
  /\ Silence \in Nat /\ Standby \in Nat /\ Precedence \in Nat
  /\ MaxGen \in Nat /\ Retry \in Nat /\ MaxDt \in Nat
BY SimAssumption

\* No session is not a session.
LEMMA SessionIsOne == \A a \in Sessions : a # NoSession
<1> SUFFICES ASSUME NEW a \in Sessions PROVE a # NoSession  OBVIOUS
<1>1. a.game \in Games \cup {Captured}  BY DEF Sessions
<1>2. a.game # None  BY <1>1, SimAssumption DEF Captured, None
<1>3. NoSession.game = None  BY DEF NoSession
<1> QED  BY <1>2, <1>3

LEMMA SessionType ==
  ASSUME NEW g \in Games \cup {Captured}, NEW f \in BOOLEAN, NEW s \in BOOLEAN,
         NEW l \in BOOLEAN
  PROVE  /\ Session(g, f, s, l) \in Sessions
         /\ Session(g, f, s, l).stream = s /\ Session(g, f, s, l).lease = s
         /\ Session(g, f, s, l).leds = l /\ Session(g, f, s, l).parked = FALSE
         /\ Session(g, f, s, l).key = IF s THEN "wheel" ELSE ""
<1>1. /\ 0 \in 0..Silence /\ 0 \in 0..Standby /\ 0 \in 0..MaxGen /\ 0 \in 0..Precedence
      /\ Precedence \in 0..Precedence
  BY Spans
<1>2. Session(g, f, s, l) \in Sessions  BY <1>1 DEF Session, Sessions
<1> QED  BY <1>2 DEF Session

\* What the passing of time leaves of a session.
LEMMA ElapseType ==
  ASSUME NEW a \in Sessions, NEW dt \in 0..MaxDt
  PROVE  /\ Elapse(a, dt) \in Sessions
         /\ Elapse(a, dt).stream = a.stream /\ Elapse(a, dt).lease = a.lease
         /\ Elapse(a, dt).leds = a.leds /\ Elapse(a, dt).parked = a.parked
         /\ Elapse(a, dt).key = a.key
<1>1. a # NoSession  BY SessionIsOne
<1>a. a.tel \in 0..Silence /\ a.cap \in 0..Precedence /\ a.gen \in 0..MaxGen
  BY DEF Sessions
<1>2. /\ a.tel + dt \in Nat /\ a.cap + dt \in Nat /\ a.gen + dt \in Nat
  BY <1>a, Spans
<1>3. /\ Min({a.tel + dt, Silence}) \in 0..Silence
      /\ Min({a.cap + dt, Precedence}) \in 0..Precedence
      /\ Min({a.gen + dt, MaxGen}) \in 0..MaxGen
  BY <1>2, Spans, MinOfTwo
<1>4. Elapse(a, dt) = [a EXCEPT !.tel = Min({a.tel + dt, Silence}),
                               !.cap = Min({a.cap + dt, Precedence}),
                               !.gen = Min({a.gen + dt, MaxGen})]
  BY <1>1 DEF Elapse, Sessions
<1> QED  BY <1>3, <1>4 DEF Sessions

LEMMA InputType ==
  /\ NoInput \in Inputs
  /\ \A i \in Inputs : i.cap \in BOOLEAN /\ i.force \in BOOLEAN /\ i.tel \in Games \cup {None}
<1>1. NoInput \in Inputs  BY DEF Inputs
<1> SUFFICES ASSUME NEW i \in Inputs
             PROVE  i.cap \in BOOLEAN /\ i.force \in BOOLEAN /\ i.tel \in Games \cup {None}
  BY <1>1
<1>2. CASE i = NoInput  BY <1>2 DEF NoInput
<1>3. CASE i = [NoInput EXCEPT !.cap = TRUE]  BY <1>3 DEF NoInput
<1>4. CASE i \in [cap : BOOLEAN, tel : Games, force : BOOLEAN]  BY <1>4
<1> QED  BY <1>2, <1>3, <1>4 DEF Inputs
-----------------------------------------------------------------------------
(* Types.                                                                  *)

LEMMA TypeInit == Init => TypeOK
<1> SUFFICES ASSUME Init PROVE TypeOK  OBVIOUS
<1> USE DEF Init
<1>1. retry \in 0..Retry  BY Spans
<1>2. input \in Inputs  BY InputType
<1>3. /\ stop \in BOOLEAN /\ crashed \in BOOLEAN /\ feeding \subseteq Programs
      /\ markers \subseteq Marked /\ active \in {NoSession} \cup Sessions
      /\ holder \in Programs \cup {None} /\ opener \in Games \cup {Captured, None}
  OBVIOUS
<1> QED  BY <1>1, <1>2, <1>3 DEF TypeOK

LEMMA SessionOpen ==
  ASSUME TypeOK, active # NoSession
  PROVE  active \in Sessions
BY DEF TypeOK

\* The parts of the loop that open a session.
LEMMA OpenType ==
  ASSUME TypeOK, OpenLights \/ LeaveNative \/ StartOpen \/ TakeForOpen \/ OpenStream,
         pc \in {"open", "opening"} => opener # None
  PROVE  TypeOK'
<1> USE DEF TypeOK
<1>a. Retry \in 0..Retry  BY Spans
<1>b. input.force \in BOOLEAN /\ input.tel \in Games \cup {None}  BY InputType
<1>1. CASE OpenLights
  <2>1. input.tel \in Games  BY <1>1, <1>b DEF OpenLights, MayOpen, Useless
  <2>2. LightsOnly(input.tel, input.force) \in Sessions
    BY <1>b, <2>1, SessionType DEF LightsOnly
  <2> QED  BY <1>1, <1>a, <2>2 DEF OpenLights, others
<1>2. CASE LeaveNative
  BY <1>2, <1>a DEF LeaveNative, others
<1>3. CASE StartOpen
  BY <1>3, <1>b DEF StartOpen, others
<1>4. CASE TakeForOpen
  <2>1. opener \in Games \cup {Captured}  BY <1>4 DEF TakeForOpen
  <2>2. LightsOnly(opener, input.force) \in Sessions
    BY <1>b, <2>1, SessionType DEF LightsOnly
  <2>3. pc' \in {"watchdog", "captured", "opening"}
    BY <1>4 DEF TakeForOpen, Resumption
  <2>4. active' \in {active, LightsOnly(opener, input.force)} /\ retry' \in {retry, Retry}
    BY <1>4 DEF TakeForOpen
  <2>5. opener' \in {opener, None} /\ holder' \in {holder, "daemon"}
    BY <1>4 DEF TakeForOpen, Acquired
  <2> QED
    BY <1>4, <1>a, <2>2, <2>3, <2>4, <2>5 DEF TakeForOpen, others, Programs
<1>5. CASE OpenStream
  <2>1. opener \in Games \cup {Captured}  BY <1>5 DEF OpenStream
  <2>2. ASSUME NEW lights \in LightsFree
        PROVE  Session(opener, input.force /\ opener # Captured, TRUE,
                       lights /\ opener # Captured) \in Sessions
    <3>1. lights \in BOOLEAN  BY DEF LightsFree
    <3>2. /\ (input.force /\ opener # Captured) \in BOOLEAN
          /\ (lights /\ opener # Captured) \in BOOLEAN
      BY <1>b, <3>1
    <3> QED  BY <2>1, <3>2, SessionType
  <2>3. active' \in {NoSession} \cup Sessions  BY <1>5, <2>2 DEF OpenStream
  <2>4. pc' \in {"watchdog", "captured"} /\ retry' \in {retry, Retry} /\ opener' = None
    BY <1>5 DEF OpenStream, Resumption
  <2>5. feeding' \subseteq Programs /\ holder' \in Programs \cup {None}
    BY <1>5 DEF OpenStream, Fed, Released, Programs
  <2> QED  BY <1>5, <1>a, <2>3, <2>4, <2>5 DEF OpenStream, others
<1> QED  BY <1>1, <1>2, <1>3, <1>4, <1>5

\* The parts that use one or give it up.
LEMMA UseType ==
  ASSUME TypeOK,
         \/ Drain \/ Refresh \/ CapturedPart \/ Watchdog \/ ParkLease \/ CloseStream
         \/ CloseLease \/ Exit,
         pc = "parking" => active # NoSession
  PROVE  TypeOK'
<1> USE DEF TypeOK
<1>a. NoInput \in Inputs  BY InputType
<1>z. /\ 0 \in 0..Silence /\ 0 \in 0..Standby /\ 0 \in 0..MaxGen /\ 0 \in 0..Precedence
      /\ Standby \in 0..Standby
  BY Spans
<1>f. /\ Fed("daemon") \subseteq Programs /\ Unfed("daemon") \subseteq Programs
      /\ Parked \subseteq Programs
  BY DEF Fed, Unfed, Parked, Programs
<1>1. CASE Drain
  <2>1. PICK dt \in 0..MaxDt, i \in Inputs :
          /\ input' = i /\ active' = Elapse(active, dt)
          /\ retry' = IF dt > retry THEN 0 ELSE retry - dt
    BY <1>1 DEF Drain
  <2>2. active' \in {NoSession} \cup Sessions
    <3>1. CASE active = NoSession  BY <2>1, <3>1 DEF Elapse
    <3>2. CASE active # NoSession  BY <2>1, <3>2, SessionOpen, ElapseType
    <3> QED  BY <3>1, <3>2
  <2>3. retry' \in 0..Retry  BY <2>1, Spans
  <2> QED  BY <1>1, <2>1, <2>2, <2>3 DEF Drain, others
<1>2. CASE Refresh
  <2>1. active' \in {NoSession} \cup Sessions
    <3>1. CASE active' = active  BY <3>1
    <3>2. CASE ~Useless /\ active # NoSession
      <4>1. input.tel \in Games /\ input.force \in BOOLEAN
        BY <3>2, InputType DEF Useless
      <4>2. active' = [active EXCEPT !.game = input.tel, !.force = input.force, !.tel = 0]
        BY <1>2, <3>2 DEF Refresh
      <4> QED  BY <1>z, <3>2, <4>1, <4>2, SessionOpen DEF Sessions
    <3> QED  BY <1>2, <3>1, <3>2 DEF Refresh
  <2> QED  BY <1>2, <2>1 DEF Refresh, others
<1>3. CASE CapturedPart
  <2>1. CASE CapturedIdle  BY <2>1 DEF CapturedIdle, others
  <2>2. CASE CapturedOpen  BY <2>2 DEF CapturedOpen, others
  <2>3. CASE CapturedPush
    <3>1. active \in Sessions  BY <2>3, SessionOpen DEF CapturedPush
    <3>2. /\ Touched \in Sessions
          /\ [Touched EXCEPT !.lease = TRUE, !.parked = FALSE, !.zero = 0] \in Sessions
      BY <1>z, <3>1 DEF Touched, Sessions
    <3>3. active' \in Sessions  BY <2>3, <3>2 DEF CapturedPush
    <3>4. holder' \in {holder, "daemon"} /\ feeding' \in {feeding, Fed("daemon")}
      BY <2>3 DEF CapturedPush, Acquired
    <3> QED  BY <2>3, <1>f, <3>3, <3>4 DEF CapturedPush, others, Programs
  <2> QED  BY <1>3, <2>1, <2>2, <2>3 DEF CapturedPart
<1>4. CASE Watchdog
  <2>1. CASE Nothing \/ Yield \/ WentSilent
    BY <2>1, <1>a DEF Nothing, Yield, WentSilent, others
  <2>2. CASE NothingToRender
    BY <2>2, <1>a DEF NothingToRender, Lit, others
  <2>3. CASE RenderSilence
    <3> DEFINE z == IF active.parked THEN active.zero
                    ELSE Min({active.zero + active.gen, Standby})
               a == [active EXCEPT !.gen = 0, !.zero = z]
    <3>1. active \in Sessions  BY <2>3, SessionOpen DEF RenderSilence, MayRender
    <3>2. active.zero \in 0..Standby /\ active.gen \in 0..MaxGen  BY <3>1 DEF Sessions
    <3>3. active.zero + active.gen \in Nat  BY <3>2, Spans
    <3>4. z \in 0..Standby  BY <3>2, <3>3, Spans, MinOfTwo
    <3>5. /\ active' = a \/ active' = [a EXCEPT !.parked = TRUE]
          /\ pc' \in {"parking", "drain", "closing"}
          /\ feeding' \in {feeding, Parked, Fed("daemon")}
      BY <2>3 DEF RenderSilence
    <3> HIDE DEF z
    <3>6. a \in Sessions /\ [a EXCEPT !.parked = TRUE] \in Sessions
      BY <1>z, <3>1, <3>4 DEF Sessions
    <3> QED  BY <2>3, <1>a, <1>f, <3>5, <3>6 DEF RenderSilence, Lit, others
  <2>4. CASE RenderForce
    <3> DEFINE a == [active EXCEPT !.gen = 0, !.zero = 0]
    <3>1. active \in Sessions  BY <2>4, SessionOpen DEF RenderForce, MayRender
    <3>2. /\ active' \in {a, [a EXCEPT !.lease = TRUE, !.parked = FALSE],
                          [a EXCEPT !.zero = Standby]}
          /\ pc' \in {"drain", "closing"} /\ holder' \in {holder, "daemon"}
          /\ feeding' \in {feeding, Fed("daemon")}
      BY <2>4 DEF RenderForce, Acquired
    <3>3. /\ a \in Sessions /\ [a EXCEPT !.lease = TRUE, !.parked = FALSE] \in Sessions
          /\ [a EXCEPT !.zero = Standby] \in Sessions
      BY <1>z, <3>1 DEF Sessions
    <3> HIDE DEF a
    <3>4. active' \in Sessions  BY <3>2, <3>3
    <3> QED  BY <2>4, <1>a, <1>f, <3>2, <3>4 DEF RenderForce, Lit, others, Programs
  <2> QED  BY <1>4, <2>1, <2>2, <2>3, <2>4 DEF Watchdog
<1>5. CASE ParkLease
  <2>1. active \in Sessions  BY <1>5, SessionOpen DEF ParkLease
  <2>2. [active EXCEPT !.lease = FALSE] \in Sessions  BY <2>1 DEF Sessions
  <2>3. holder' \in {holder, None}  BY <1>5 DEF ParkLease, Released
  <2> QED  BY <1>5, <2>2, <2>3 DEF ParkLease, others
<1>6. CASE CloseStream
  BY <1>6, <1>f DEF CloseStream
<1>7. CASE CloseLease
  <2>1. holder' \in {holder, None}  BY <1>7 DEF CloseLease, Released
  <2> QED  BY <1>7, <2>1 DEF CloseLease, others
<1>8. CASE Exit
  BY <1>8 DEF Exit, others
<1> QED  BY <1>1, <1>2, <1>3, <1>4, <1>5, <1>6, <1>7, <1>8

\* The sweep and the world around both.
LEMMA AroundType ==
  ASSUME TypeOK,
         Sweep \/ WriterIdles \/ Signal \/ Launcher \/ Crash \/ SweepCrash \/ Restart
  PROVE  TypeOK'
<1> USE DEF TypeOK
<1>a. NoInput \in Inputs /\ 0 \in 0..Retry  BY InputType, Spans
<1>f. /\ Fed("sweep") \subseteq Programs /\ Unfed("sweep") \subseteq Programs
      /\ Unfed("daemon") \subseteq Programs
  BY DEF Fed, Unfed, Programs
<1>1. CASE Sweep
  <2>1. holder' \in Programs \cup {None}
    BY <1>1 DEF Sweep, SweepAsks, SweepOpens, SweepAborts, SweepAborted, SweepPlays,
       SweepStops, SweepReleases, Acquired, Released, Programs
  <2>2. feeding' \in {feeding, Fed("sweep"), Unfed("sweep")}
    BY <1>1 DEF Sweep, SweepAsks, SweepOpens, SweepAborts, SweepAborted, SweepPlays,
       SweepStops, SweepReleases
  <2>3. spc' \in {"off", "leased", "countdown", "playing", "done", "aborting"}
    BY <1>1 DEF Sweep, SweepAsks, SweepOpens, SweepAborts, SweepAborted, SweepPlays,
       SweepStops, SweepReleases
  <2>4. UNCHANGED sweepOthers
    BY <1>1 DEF Sweep, SweepAsks, SweepOpens, SweepAborts, SweepAborted, SweepPlays,
       SweepStops, SweepReleases
  <2> QED  BY <1>f, <2>1, <2>2, <2>3, <2>4 DEF sweepOthers
<1>2. CASE WriterIdles  BY <1>2, <1>f DEF WriterIdles
<1>3. CASE Signal  BY <1>3 DEF Signal
<1>4. CASE Launcher  BY <1>4 DEF Launcher
<1>5. CASE Crash
  <2>1. holder' \in {holder, None}  BY <1>5 DEF Crash, Released
  <2> QED  BY <1>5, <1>a, <1>f, <2>1 DEF Crash
<1>6. CASE SweepCrash
  <2>1. holder' \in {holder, None}  BY <1>6 DEF SweepCrash, Released
  <2> QED  BY <1>6, <1>f, <2>1 DEF SweepCrash, sweepOthers
<1>7. CASE Restart  BY <1>7, <1>a DEF Restart
<1> QED  BY <1>1, <1>2, <1>3, <1>4, <1>5, <1>6, <1>7
-----------------------------------------------------------------------------
(***************************************************************************)
(* What a step of the daemon does to its session, its lease and its feed.  *)
(***************************************************************************)

\* A session stays what it is for: its stream, its lights, the lease it asks for.
Kept ==
  /\ active \in Sessions /\ active' \in Sessions
  /\ active # NoSession /\ active' # NoSession
  /\ active'.stream = active.stream /\ active'.leds = active.leds
  /\ active'.key = active.key
AsItIs == Kept /\ active'.lease = active.lease /\ active'.parked = active.parked

\* The lights alone, or nothing.
LightsOrNothing ==
  \/ active' = active
  \/ /\ active' \in Sessions /\ active' # NoSession /\ ~active'.stream
     /\ active'.leds /\ active'.key = ""

LEMMA DrainDoes ==
  ASSUME TypeOK, Drain \/ Refresh
  PROVE  (active = NoSession /\ active' = NoSession) \/ AsItIs
<1>1. CASE active = NoSession  BY <1>1 DEF Drain, Refresh, Elapse
<1>2. CASE active # NoSession
  <2>1. active \in Sessions  BY <1>2, SessionOpen
  <2>2. CASE Drain
    <3>1. PICK dt \in 0..MaxDt : active' = Elapse(active, dt)  BY <2>2 DEF Drain
    <3> QED  BY <1>2, <2>1, <3>1, ElapseType, SessionIsOne DEF AsItIs, Kept
  <2>3. CASE Refresh
    <3>1. CASE active' = active  BY <1>2, <2>1, <3>1 DEF AsItIs, Kept
    <3>2. CASE active' = [active EXCEPT !.game = input.tel, !.force = input.force, !.tel = 0]
               /\ ~Useless
      <4>1. input.tel \in Games /\ input.force \in BOOLEAN
        BY <3>2, InputType DEF Useless, TypeOK
      <4>2. 0 \in 0..Silence  BY Spans
      <4>3. active' \in Sessions  BY <2>1, <3>2, <4>1, <4>2 DEF Sessions
      <4>4. /\ active'.stream = active.stream /\ active'.leds = active.leds
            /\ active'.key = active.key
            /\ active'.lease = active.lease /\ active'.parked = active.parked
        BY <2>1, <3>2 DEF Sessions
      <4> QED  BY <1>2, <2>1, <4>3, <4>4, SessionIsOne DEF AsItIs, Kept
    <3> QED  BY <2>3, <1>2, <3>1, <3>2 DEF Refresh
  <2> QED  BY <2>2, <2>3
<1> QED  BY <1>1, <1>2

LEMMA LightsDo ==
  ASSUME TypeOK, TypeOK', OpenLights
  PROVE  LightsOrNothing /\ UNCHANGED <<holder, feeding, strip, crashed>>
<1>1. input.force \in BOOLEAN /\ input.tel \in Games
  BY InputType DEF OpenLights, MayOpen, Useless, TypeOK
<1>2. /\ LightsOnly(input.tel, input.force) \in Sessions
      /\ ~LightsOnly(input.tel, input.force).stream
      /\ LightsOnly(input.tel, input.force).leds
      /\ LightsOnly(input.tel, input.force).key = ""
  BY <1>1, SessionType DEF LightsOnly
<1>3. LightsOnly(input.tel, input.force) # NoSession  BY <1>2, SessionIsOne
<1>4. active' = active \/ active' = LightsOnly(input.tel, input.force)
  BY DEF OpenLights
<1> QED  BY <1>2, <1>3, <1>4 DEF OpenLights, others, LightsOrNothing

LEMMA TakeDoes ==
  ASSUME TypeOK, TakeForOpen, opener # None
  PROVE  \/ /\ LightsOrNothing /\ pc' \in {"watchdog", "captured"}
            /\ UNCHANGED <<holder, feeding, strip, crashed>>
         \/ /\ Grants("wheel") /\ holder' = Acquired("daemon", "wheel")
            /\ pc' = "opening" /\ UNCHANGED <<active, opener, feeding, strip, crashed>>
<1>1. input.force \in BOOLEAN /\ opener \in Games \cup {Captured}
  BY InputType DEF TypeOK
<1>2. /\ LightsOnly(opener, input.force) \in Sessions
      /\ ~LightsOnly(opener, input.force).stream
      /\ LightsOnly(opener, input.force).leds
      /\ LightsOnly(opener, input.force).key = ""
  BY <1>1, SessionType DEF LightsOnly
<1>3. LightsOnly(opener, input.force) # NoSession  BY <1>2, SessionIsOne
<1>4. \/ /\ active' = active \/ active' = LightsOnly(opener, input.force)
         /\ pc' \in {"watchdog", "captured"} /\ UNCHANGED <<holder, feeding, strip, crashed>>
      \/ /\ Grants("wheel") /\ holder' = Acquired("daemon", "wheel")
         /\ pc' = "opening" /\ UNCHANGED <<active, opener, feeding, strip, crashed>>
  BY DEF TakeForOpen, Resumption, others
<1> QED  BY <1>2, <1>3, <1>4 DEF LightsOrNothing

LEMMA OpenDoes ==
  ASSUME TypeOK, OpenStream, opener # None
  PROVE  /\ pc' \in {"watchdog", "captured"} /\ UNCHANGED <<strip, crashed>>
         /\ \/ /\ active' \in Sessions /\ active' # NoSession
               /\ active'.stream /\ active'.lease /\ ~active'.parked
               /\ active'.key = "wheel" /\ holder' = holder
               /\ feeding' \in {feeding, Fed("daemon")}
            \/ /\ active' = active /\ holder' = Released("daemon")
               /\ feeding' = feeding
<1>1. input.force \in BOOLEAN /\ opener \in Games \cup {Captured}
  BY InputType DEF TypeOK
<1>2. ASSUME NEW lights \in LightsFree,
             active' = Session(opener, input.force /\ opener # Captured, TRUE,
                               lights /\ opener # Captured)
      PROVE  /\ active' \in Sessions /\ active' # NoSession
             /\ active'.stream /\ active'.lease /\ ~active'.parked
             /\ active'.key = "wheel"
  <2> DEFINE f == input.force /\ opener # Captured
             l == lights /\ opener # Captured
  <2>1. f \in BOOLEAN /\ l \in BOOLEAN  BY <1>1 DEF LightsFree
  <2>2. active' = Session(opener, f, TRUE, l)  BY <1>2
  <2> HIDE DEF f, l
  <2>3. Session(opener, f, TRUE, l) \in Sessions  BY <1>1, <2>1, SessionType
  <2>4. active' \in Sessions  BY <2>2, <2>3
  <2>5. /\ active'.stream = TRUE /\ active'.lease = TRUE
        /\ active'.parked = FALSE /\ active'.key = "wheel"
    BY <2>2 DEF Session
  <2> QED  BY <2>4, <2>5, SessionIsOne
<1>3. pc' \in {"watchdog", "captured"} /\ UNCHANGED <<strip, crashed>>
  BY DEF OpenStream, Resumption, others
<1>4. \/ /\ \E lights \in LightsFree :
              active' = Session(opener, input.force /\ opener # Captured, TRUE,
                                lights /\ opener # Captured)
         /\ feeding' \in {feeding, Fed("daemon")} /\ holder' = holder
      \/ /\ active' = active /\ holder' = Released("daemon")
         /\ feeding' = feeding
  BY DEF OpenStream
<1> QED  BY <1>2, <1>3, <1>4

\* Samples put on the endpoint of a session that has one.
Pushed == IF active.stream THEN Fed("daemon") ELSE feeding

LEMMA PushDoes ==
  ASSUME TypeOK, CapturedPush
  PROVE  /\ Kept /\ UNCHANGED <<strip, crashed, opener>> /\ pc' = "watchdog"
         /\ \/ /\ active.lease /\ AsItIs /\ holder' = holder
               /\ feeding' \in {feeding, Pushed}
            \/ /\ ~active.lease /\ Grants(active.key)
               /\ holder' = Acquired("daemon", active.key)
               /\ active'.lease /\ ~active'.parked /\ feeding' = Pushed
            \/ /\ AsItIs /\ UNCHANGED <<holder, feeding>>
<1> DEFINE b == [Touched EXCEPT !.lease = TRUE, !.parked = FALSE, !.zero = 0]
<1>1. active \in Sessions /\ active # NoSession  BY SessionOpen DEF CapturedPush
<1>2. 0 \in 0..Silence /\ 0 \in 0..Standby /\ 0 \in 0..MaxGen /\ 0 \in 0..Precedence
  BY Spans
<1>3. /\ Touched \in Sessions /\ Touched.stream = active.stream
      /\ Touched.leds = active.leds /\ Touched.key = active.key
      /\ Touched.lease = active.lease /\ Touched.parked = active.parked
  BY <1>1, <1>2 DEF Touched, Sessions
<1>4. /\ b \in Sessions /\ b.stream = active.stream /\ b.leds = active.leds
      /\ b.key = active.key /\ b.lease = TRUE /\ b.parked = FALSE
  BY <1>2, <1>3 DEF Sessions
<1>5. \/ /\ active.lease /\ active' = Touched /\ holder' = holder
         /\ feeding' \in {feeding, Pushed}
      \/ /\ ~active.lease /\ Grants(active.key)
         /\ holder' = Acquired("daemon", active.key) /\ active' = b /\ feeding' = Pushed
      \/ active' = Touched /\ UNCHANGED <<holder, feeding>>
  BY DEF CapturedPush, Pushed
<1> HIDE DEF b
<1>6. UNCHANGED <<strip, crashed, opener>> /\ pc' = "watchdog"
  BY DEF CapturedPush, others
<1>7. active' = Touched => AsItIs  BY <1>1, <1>3, SessionIsOne DEF AsItIs, Kept
<1>8. active' = b => Kept /\ active'.lease /\ ~active'.parked
  BY <1>1, <1>4, SessionIsOne DEF Kept
<1> QED  BY <1>5, <1>6, <1>7, <1>8 DEF AsItIs

LEMMA SilenceDoes ==
  ASSUME TypeOK, RenderSilence
  PROVE  /\ Kept /\ active'.lease = active.lease /\ UNCHANGED <<holder, crashed, opener>>
         /\ strip' = Lit
         /\ \/ /\ ~active.parked /\ active'.parked /\ pc' = "parking"
               /\ feeding' = IF active.stream THEN Parked ELSE feeding
            \/ /\ ~active.parked /\ ~active'.parked /\ pc' \in {"drain", "closing"}
               /\ feeding' \in {feeding, Pushed}
            \/ /\ active.parked /\ active'.parked /\ pc' = "drain"
               /\ feeding' = feeding
<1> DEFINE z == IF active.parked THEN active.zero
                ELSE Min({active.zero + active.gen, Standby})
           a == [active EXCEPT !.gen = 0, !.zero = z]
           b == [a EXCEPT !.parked = TRUE]
<1>1. active \in Sessions /\ active # NoSession
  BY SessionOpen DEF RenderSilence, MayRender
<1>a. 0 \in 0..MaxGen  BY Spans
<1>2. active.zero \in 0..Standby /\ active.gen \in 0..MaxGen /\ 0 \in 0..MaxGen
  BY <1>1, <1>a DEF Sessions
<1>3. active.zero + active.gen \in Nat  BY <1>2, Spans
<1>4. z \in 0..Standby  BY <1>2, <1>3, Spans, MinOfTwo
<1>5. \/ /\ ~active.parked /\ active' = b /\ pc' = "parking"
         /\ feeding' = IF active.stream THEN Parked ELSE feeding
      \/ /\ ~active.parked /\ active' = a /\ pc' \in {"drain", "closing"}
         /\ feeding' \in {feeding, Pushed}
      \/ /\ active.parked /\ active' = a /\ pc' = "drain" /\ feeding' = feeding
  BY DEF RenderSilence, Pushed
<1>6. strip' = Lit /\ UNCHANGED <<holder, crashed, opener>>  BY DEF RenderSilence, others
<1> HIDE DEF z
<1>7. /\ a \in Sessions /\ a.stream = active.stream /\ a.leds = active.leds
      /\ a.key = active.key /\ a.lease = active.lease /\ a.parked = active.parked
  BY <1>1, <1>2, <1>4 DEF Sessions
<1> HIDE DEF a
<1>8. /\ b \in Sessions /\ b.stream = active.stream /\ b.leds = active.leds
      /\ b.key = active.key /\ b.lease = active.lease /\ b.parked = TRUE
  BY <1>7 DEF Sessions
<1> HIDE DEF b
<1>9. active' \in {a, b} => Kept /\ active'.lease = active.lease
  BY <1>1, <1>7, <1>8, SessionIsOne DEF Kept
<1> QED  BY <1>5, <1>6, <1>7, <1>8, <1>9

LEMMA ForceDoes ==
  ASSUME TypeOK, RenderForce
  PROVE  /\ Kept /\ UNCHANGED <<crashed, opener>> /\ strip' = Lit
         /\ \/ /\ ~active.parked /\ AsItIs /\ holder' = holder
               /\ pc' \in {"drain", "closing"} /\ feeding' \in {feeding, Pushed}
            \/ /\ active.parked /\ Grants(active.key)
               /\ holder' = Acquired("daemon", active.key)
               /\ active'.lease /\ ~active'.parked /\ feeding' = Pushed /\ pc' = "drain"
            \/ /\ active.parked /\ AsItIs /\ pc' = "drain" /\ UNCHANGED <<holder, feeding>>
<1> DEFINE a == [active EXCEPT !.gen = 0, !.zero = 0]
           b == [a EXCEPT !.lease = TRUE, !.parked = FALSE]
           c == [a EXCEPT !.zero = Standby]
<1>1. active \in Sessions /\ active # NoSession
  BY SessionOpen DEF RenderForce, MayRender
<1>2. 0 \in 0..MaxGen /\ 0 \in 0..Standby /\ Standby \in 0..Standby  BY Spans
<1>5. \/ /\ ~active.parked /\ active' = a /\ holder' = holder
         /\ pc' \in {"drain", "closing"} /\ feeding' \in {feeding, Pushed}
      \/ /\ active.parked /\ Grants(active.key) /\ active' = b
         /\ holder' = Acquired("daemon", active.key) /\ feeding' = Pushed /\ pc' = "drain"
      \/ /\ active.parked /\ active' = c /\ pc' = "drain" /\ UNCHANGED <<holder, feeding>>
  BY DEF RenderForce, Pushed
<1>6. strip' = Lit /\ UNCHANGED <<crashed, opener>>  BY DEF RenderForce, others
<1>7. /\ a \in Sessions /\ a.stream = active.stream /\ a.leds = active.leds
      /\ a.key = active.key /\ a.lease = active.lease /\ a.parked = active.parked
  BY <1>1, <1>2 DEF Sessions
<1> HIDE DEF a
<1>8. /\ b \in Sessions /\ b.stream = active.stream /\ b.leds = active.leds
      /\ b.key = active.key /\ b.lease = TRUE /\ b.parked = FALSE
  BY <1>7 DEF Sessions
<1>9. /\ c \in Sessions /\ c.stream = active.stream /\ c.leds = active.leds
      /\ c.key = active.key /\ c.lease = active.lease /\ c.parked = active.parked
  BY <1>2, <1>7 DEF Sessions
<1> HIDE DEF b, c
<1>10. active' \in {a, c} => AsItIs
  BY <1>1, <1>7, <1>9, SessionIsOne DEF AsItIs, Kept
<1>11. active' = b => Kept /\ active'.lease /\ ~active'.parked
  BY <1>1, <1>8, SessionIsOne DEF Kept
<1> QED  BY <1>5, <1>6, <1>10, <1>11 DEF AsItIs

LEMMA ParkDoes ==
  ASSUME TypeOK, ParkLease, active # NoSession
  PROVE  /\ Kept /\ active'.parked = active.parked /\ ~active'.lease
         /\ holder' = IF active.lease /\ active.key = "wheel" THEN Released("daemon")
                      ELSE holder
         /\ pc' = "drain" /\ UNCHANGED <<feeding, strip, crashed, opener>>
<1>1. active \in Sessions  BY SessionOpen
<1>2. active' = [active EXCEPT !.lease = FALSE]  BY DEF ParkLease
<1>3. /\ active' \in Sessions /\ active'.stream = active.stream
      /\ active'.leds = active.leds /\ active'.key = active.key
      /\ active'.lease = FALSE /\ active'.parked = active.parked
  BY <1>1, <1>2 DEF Sessions
<1> QED  BY <1>1, <1>3, SessionIsOne DEF ParkLease, others, Kept
-----------------------------------------------------------------------------
(***************************************************************************)
(* Where the programs are.                                                 *)
(***************************************************************************)

\* Where the daemon is in its loop says what it has: a stream is being opened
\* only for somebody and without a session, only a parked session gives up its
\* lease, and the lease goes back after the stream is closed or parked.
DaemonPlaces ==
  /\ pc \in {"open", "opening"} => active = NoSession /\ opener # None
  /\ pc = "parking" => active # NoSession /\ active.parked
  /\ pc = "releasing" \/ (pc = "parking" /\ kind = "dd") => "daemon" \notin feeding
  /\ pc = "exited" => active = NoSession

\* A session asks for the wheel's lease exactly if it has a stream, has the
\* lease unless it is parked, and then the lock is the daemon's.
SessionPlaces ==
  active # NoSession =>
    /\ active.key = IF active.stream THEN "wheel" ELSE ""
    /\ active.stream /\ ~active.parked => active.lease
    /\ active.stream /\ active.lease /\ Lockable => holder = "daemon"

\* The daemon has the lock, and its samples are on the wheel, only for a
\* session with a stream or while one is being opened.
WheelPlaces ==
  /\ holder = "daemon" => pc = "opening" \/ (active # NoSession /\ active.stream)
  /\ pc = "opening" /\ Lockable => holder = "daemon"
  /\ "daemon" \in feeding => active # NoSession /\ active.stream
  /\ kind = "dd" /\ "daemon" \in feeding => active.lease

\* The sweep has the lock from before its stream opens until after it closed;
\* a countdown that is aborted has no direct drive stream.
SweepPlaces ==
  /\ kind = "dd" /\ "sweep" \in feeding => spc = "playing"
  /\ Lockable /\ spc \in {"leased", "countdown", "playing", "done"} => holder = "sweep"

\* The strip is lit only for a session that has it.
StripPlaces ==
  strip # "idle" /\ ~crashed => active # NoSession /\ active.leds /\ pc # "releasing"

Places == TypeOK /\ DaemonPlaces /\ SessionPlaces /\ WheelPlaces /\ SweepPlaces /\ StripPlaces

LEMMA DaemonStep ==
  ASSUME Places, TypeOK', Next
  PROVE  DaemonPlaces'
<1> USE DEF Places, DaemonPlaces, WheelPlaces, others, sweepOthers
<1>1. CASE Drain  BY <1>1, DrainDoes DEF Drain, Kept, AsItIs
<1>2. CASE Refresh  BY <1>2, DrainDoes DEF Refresh, Kept, AsItIs
<1>3. CASE OpenLights
  BY <1>3, LightsDo DEF OpenLights, Kept, AsItIs, LightsOrNothing, MayOpen
<1>4. CASE LeaveNative  BY <1>4 DEF LeaveNative, None
<1>5. CASE StartOpen  BY <1>5 DEF StartOpen, MayOpen, Useless
<1>6. CASE TakeForOpen
  BY <1>6, TakeDoes
  DEF TakeForOpen, Kept, AsItIs, LightsOrNothing, Acquired, Grants, None
<1>7. CASE OpenStream
  BY <1>7, OpenDoes DEF OpenStream, Kept, AsItIs, Fed, Released, None
<1>8. CASE CapturedIdle  BY <1>8 DEF CapturedIdle
<1>9. CASE CapturedOpen  BY <1>9 DEF CapturedOpen, None, Captured
<1>10. CASE CapturedPush
  BY <1>10, PushDoes
  DEF CapturedPush, Kept, AsItIs, Pushed, Fed, Acquired, Grants, None
<1>11. CASE Nothing  BY <1>11 DEF Nothing
<1>12. CASE Yield  BY <1>12 DEF Yield
<1>13. CASE WentSilent  BY <1>13 DEF WentSilent
<1>14. CASE NothingToRender  BY <1>14 DEF NothingToRender, MayRender, Lit
<1>15. CASE RenderSilence
  BY <1>15, SilenceDoes
  DEF RenderSilence, Kept, AsItIs, Parked, Pushed, Fed, Unfed
<1>16. CASE RenderForce
  BY <1>16, ForceDoes
  DEF RenderForce, Kept, AsItIs, Pushed, Fed, Acquired, Grants, None
<1>17. CASE ParkLease
  BY <1>17, ParkDoes DEF ParkLease, Kept, AsItIs, Released, None
<1>18. CASE CloseStream  BY <1>18 DEF CloseStream, Unfed, OursToHandBack
<1>19. CASE CloseLease  BY <1>19 DEF CloseLease, Released, None
<1>20. CASE Exit  BY <1>20 DEF Exit
<1>21. CASE SweepAsks  BY <1>21 DEF SweepAsks, Grants, Acquired, None
<1>22. CASE SweepOpens  BY <1>22 DEF SweepOpens, Fed
<1>23. CASE SweepAborts  BY <1>23 DEF SweepAborts, Released, None
<1>24. CASE SweepAborted  BY <1>24 DEF SweepAborted, Unfed
<1>25. CASE SweepPlays  BY <1>25 DEF SweepPlays, Fed
<1>26. CASE SweepStops  BY <1>26 DEF SweepStops, Unfed
<1>27. CASE SweepReleases  BY <1>27 DEF SweepReleases, Released, None
<1>28. CASE WriterIdles  BY <1>28 DEF WriterIdles, Unfed
<1>29. CASE Signal  BY <1>29 DEF Signal
<1>30. CASE Launcher  BY <1>30 DEF Launcher
<1>31. CASE Crash  BY <1>31 DEF Crash, Released, Unfed, None
<1>32. CASE SweepCrash  BY <1>32 DEF SweepCrash, Released, Unfed, None
<1>33. CASE Restart  BY <1>33 DEF Restart
<1> QED
  BY <1>1, <1>2, <1>3, <1>4, <1>5, <1>6, <1>7, <1>8, <1>9, <1>10, <1>11, <1>12,
     <1>13, <1>14, <1>15, <1>16, <1>17, <1>18, <1>19, <1>20, <1>21, <1>22, <1>23,
     <1>24, <1>25, <1>26, <1>27, <1>28, <1>29, <1>30, <1>31, <1>32, <1>33
  DEF Next, Daemon, Telemetry, CapturedPart, Watchdog, Sweep

LEMMA SessionStep ==
  ASSUME Places, TypeOK', Next
  PROVE  SessionPlaces'
<1> USE DEF Places, DaemonPlaces, SessionPlaces, others, sweepOthers
<1>1. CASE Drain  BY <1>1, DrainDoes DEF Drain, Kept, AsItIs, WheelPlaces
<1>2. CASE Refresh  BY <1>2, DrainDoes DEF Refresh, Kept, AsItIs, WheelPlaces
<1>3. CASE OpenLights
  BY <1>3, LightsDo
  DEF OpenLights, Kept, AsItIs, LightsOrNothing, MayOpen, WheelPlaces
<1>4. CASE LeaveNative  BY <1>4 DEF LeaveNative, WheelPlaces, None
<1>5. CASE StartOpen  BY <1>5 DEF StartOpen, MayOpen, Useless, WheelPlaces
<1>6. CASE TakeForOpen
  BY <1>6, TakeDoes
  DEF TakeForOpen, Kept, AsItIs, LightsOrNothing, Acquired, Grants, WheelPlaces, None
<1>7. CASE OpenStream
  BY <1>7, OpenDoes DEF OpenStream, Kept, AsItIs, Fed, Released, WheelPlaces, None
<1>8. CASE CapturedIdle  BY <1>8 DEF CapturedIdle, WheelPlaces
<1>9. CASE CapturedOpen  BY <1>9 DEF CapturedOpen, WheelPlaces, None, Captured
<1>10. CASE CapturedPush
  BY <1>10, PushDoes
  DEF CapturedPush, Kept, AsItIs, Pushed, Fed, Acquired, Grants, WheelPlaces, None
<1>11. CASE Nothing  BY <1>11 DEF Nothing, WheelPlaces
<1>12. CASE Yield  BY <1>12 DEF Yield, WheelPlaces
<1>13. CASE WentSilent  BY <1>13 DEF WentSilent, WheelPlaces
<1>14. CASE NothingToRender
  BY <1>14 DEF NothingToRender, MayRender, Lit, WheelPlaces
<1>15. CASE RenderSilence
  BY <1>15, SilenceDoes
  DEF RenderSilence, Kept, AsItIs, Parked, Pushed, Fed, Unfed, WheelPlaces
<1>16. CASE RenderForce
  BY <1>16, ForceDoes
  DEF RenderForce, Kept, AsItIs, Pushed, Fed, Acquired, Grants, WheelPlaces, None
<1>17. CASE ParkLease
  BY <1>17, ParkDoes DEF ParkLease, Kept, AsItIs, Released, WheelPlaces, None
<1>18. CASE CloseStream
  BY <1>18 DEF CloseStream, Unfed, OursToHandBack, WheelPlaces
<1>19. CASE CloseLease  BY <1>19 DEF CloseLease, Released, WheelPlaces, None
<1>20. CASE Exit  BY <1>20 DEF Exit, WheelPlaces
<1>21. CASE SweepAsks  BY <1>21 DEF SweepAsks, Grants, Acquired, WheelPlaces, None
<1>22. CASE SweepOpens  BY <1>22 DEF SweepOpens, Fed, WheelPlaces
<1>23. CASE SweepAborts  BY <1>23 DEF SweepAborts, Released, WheelPlaces, None
<1>24. CASE SweepAborted  BY <1>24 DEF SweepAborted, Unfed, WheelPlaces
<1>25. CASE SweepPlays  BY <1>25 DEF SweepPlays, Fed, WheelPlaces
<1>26. CASE SweepStops  BY <1>26 DEF SweepStops, Unfed, WheelPlaces
<1>27. CASE SweepReleases  BY <1>27 DEF SweepReleases, Released, WheelPlaces, None
<1>28. CASE WriterIdles  BY <1>28 DEF WriterIdles, Unfed, WheelPlaces
<1>29. CASE Signal  BY <1>29 DEF Signal, WheelPlaces
<1>30. CASE Launcher  BY <1>30 DEF Launcher, WheelPlaces
<1>31. CASE Crash  BY <1>31 DEF Crash, Released, Unfed, WheelPlaces, None
<1>32. CASE SweepCrash  BY <1>32 DEF SweepCrash, Released, Unfed, WheelPlaces, None
<1>33. CASE Restart  BY <1>33 DEF Restart, WheelPlaces
<1> QED
  BY <1>1, <1>2, <1>3, <1>4, <1>5, <1>6, <1>7, <1>8, <1>9, <1>10, <1>11, <1>12,
     <1>13, <1>14, <1>15, <1>16, <1>17, <1>18, <1>19, <1>20, <1>21, <1>22, <1>23,
     <1>24, <1>25, <1>26, <1>27, <1>28, <1>29, <1>30, <1>31, <1>32, <1>33
  DEF Next, Daemon, Telemetry, CapturedPart, Watchdog, Sweep

LEMMA WheelStep ==
  ASSUME Places, TypeOK', Next
  PROVE  WheelPlaces'
<1> USE DEF Places, DaemonPlaces, WheelPlaces, others, sweepOthers
<1>1. CASE Drain  BY <1>1, DrainDoes DEF Drain, Kept, AsItIs, SessionPlaces
<1>2. CASE Refresh  BY <1>2, DrainDoes DEF Refresh, Kept, AsItIs, SessionPlaces
<1>3. CASE OpenLights
  BY <1>3, LightsDo
  DEF OpenLights, Kept, AsItIs, LightsOrNothing, MayOpen, SessionPlaces
<1>4. CASE LeaveNative  BY <1>4 DEF LeaveNative, MayOpen, SessionPlaces
<1>5. CASE StartOpen  BY <1>5 DEF StartOpen, MayOpen, Useless, SessionPlaces
<1>6. CASE TakeForOpen
  BY <1>6, TakeDoes
  DEF TakeForOpen, Kept, AsItIs, LightsOrNothing, Acquired, Grants, SessionPlaces, None
<1>7. CASE OpenStream
  BY <1>7, OpenDoes
  DEF OpenStream, Kept, AsItIs, Fed, Released, SessionPlaces, None
<1>8. CASE CapturedIdle  BY <1>8 DEF CapturedIdle, SessionPlaces
<1>9. CASE CapturedOpen  BY <1>9 DEF CapturedOpen, SessionPlaces, None, Captured
<1>10. CASE CapturedPush
  BY <1>10, PushDoes
  DEF CapturedPush, Kept, AsItIs, Pushed, Fed, Acquired, Grants, SessionPlaces, None
<1>11. CASE Nothing  BY <1>11 DEF Nothing, SessionPlaces
<1>12. CASE Yield  BY <1>12 DEF Yield, SessionPlaces
<1>13. CASE WentSilent  BY <1>13 DEF WentSilent, SessionPlaces
<1>14. CASE NothingToRender
  BY <1>14 DEF NothingToRender, MayRender, Lit, SessionPlaces
<1>15. CASE RenderSilence
  BY <1>15, SilenceDoes
  DEF RenderSilence, Kept, AsItIs, Parked, Pushed, Fed, Unfed, SessionPlaces
<1>16. CASE RenderForce
  BY <1>16, ForceDoes
  DEF RenderForce, Kept, AsItIs, Pushed, Fed, Acquired, Grants, SessionPlaces, None
<1>17. CASE ParkLease
  BY <1>17, ParkDoes DEF ParkLease, Kept, AsItIs, Released, SessionPlaces, None
<1>18. CASE CloseStream
  BY <1>18 DEF CloseStream, Unfed, OursToHandBack, SessionPlaces
<1>19. CASE CloseLease  BY <1>19 DEF CloseLease, Released, SessionPlaces, None
<1>20. CASE Exit  BY <1>20 DEF Exit, SessionPlaces
<1>21. CASE SweepAsks  BY <1>21 DEF SweepAsks, Grants, Acquired, SessionPlaces, None
<1>22. CASE SweepOpens  BY <1>22 DEF SweepOpens, Fed, SessionPlaces
<1>23. CASE SweepAborts  BY <1>23 DEF SweepAborts, Released, SessionPlaces, None
<1>24. CASE SweepAborted  BY <1>24 DEF SweepAborted, Unfed, SessionPlaces
<1>25. CASE SweepPlays  BY <1>25 DEF SweepPlays, Fed, SessionPlaces
<1>26. CASE SweepStops  BY <1>26 DEF SweepStops, Unfed, SessionPlaces
<1>27. CASE SweepReleases  BY <1>27 DEF SweepReleases, Released, SessionPlaces, None
<1>28. CASE WriterIdles  BY <1>28 DEF WriterIdles, Unfed, SessionPlaces
<1>29. CASE Signal  BY <1>29 DEF Signal, SessionPlaces
<1>30. CASE Launcher  BY <1>30 DEF Launcher, SessionPlaces
<1>31. CASE Crash  BY <1>31 DEF Crash, Released, Unfed, SessionPlaces, None
<1>32. CASE SweepCrash
  BY <1>32 DEF SweepCrash, Released, Unfed, SessionPlaces, None
<1>33. CASE Restart  BY <1>33 DEF Restart, SessionPlaces
<1> QED
  BY <1>1, <1>2, <1>3, <1>4, <1>5, <1>6, <1>7, <1>8, <1>9, <1>10, <1>11, <1>12,
     <1>13, <1>14, <1>15, <1>16, <1>17, <1>18, <1>19, <1>20, <1>21, <1>22, <1>23,
     <1>24, <1>25, <1>26, <1>27, <1>28, <1>29, <1>30, <1>31, <1>32, <1>33
  DEF Next, Daemon, Telemetry, CapturedPart, Watchdog, Sweep

LEMMA SweepStep ==
  ASSUME Places, TypeOK', Next
  PROVE  SweepPlaces'
<1> USE DEF Places, DaemonPlaces, SweepPlaces, others, sweepOthers
<1>1. CASE Drain  BY <1>1, DrainDoes DEF Drain, Kept, AsItIs
<1>2. CASE Refresh  BY <1>2, DrainDoes DEF Refresh, Kept, AsItIs
<1>3. CASE OpenLights
  BY <1>3, LightsDo DEF OpenLights, Kept, AsItIs, LightsOrNothing, MayOpen
<1>4. CASE LeaveNative  BY <1>4 DEF LeaveNative, None
<1>5. CASE StartOpen  BY <1>5 DEF StartOpen, MayOpen, Useless
<1>6. CASE TakeForOpen
  BY <1>6, TakeDoes
  DEF TakeForOpen, Kept, AsItIs, LightsOrNothing, Acquired, Grants, None
<1>7. CASE OpenStream
  BY <1>7, OpenDoes DEF OpenStream, Kept, AsItIs, Fed, Released, None
<1>8. CASE CapturedIdle  BY <1>8 DEF CapturedIdle
<1>9. CASE CapturedOpen  BY <1>9 DEF CapturedOpen, None, Captured
<1>10. CASE CapturedPush
  BY <1>10, PushDoes
  DEF CapturedPush, Kept, AsItIs, Pushed, Fed, Acquired, Grants, None
<1>11. CASE Nothing  BY <1>11 DEF Nothing
<1>12. CASE Yield  BY <1>12 DEF Yield
<1>13. CASE WentSilent  BY <1>13 DEF WentSilent
<1>14. CASE NothingToRender  BY <1>14 DEF NothingToRender, MayRender, Lit
<1>15. CASE RenderSilence
  BY <1>15, SilenceDoes
  DEF RenderSilence, Kept, AsItIs, Parked, Pushed, Fed, Unfed
<1>16. CASE RenderForce
  BY <1>16, ForceDoes
  DEF RenderForce, Kept, AsItIs, Pushed, Fed, Acquired, Grants, None
<1>17. CASE ParkLease
  BY <1>17, ParkDoes DEF ParkLease, Kept, AsItIs, Released, None
<1>18. CASE CloseStream  BY <1>18 DEF CloseStream, Unfed, OursToHandBack
<1>19. CASE CloseLease  BY <1>19 DEF CloseLease, Released, None
<1>20. CASE Exit  BY <1>20 DEF Exit
<1>21. CASE SweepAsks  BY <1>21 DEF SweepAsks, Grants, Acquired, None
<1>22. CASE SweepOpens  BY <1>22 DEF SweepOpens, Fed
<1>23. CASE SweepAborts  BY <1>23 DEF SweepAborts, Released, None
<1>24. CASE SweepAborted  BY <1>24 DEF SweepAborted, Unfed
<1>25. CASE SweepPlays  BY <1>25 DEF SweepPlays, Fed
<1>26. CASE SweepStops  BY <1>26 DEF SweepStops, Unfed
<1>27. CASE SweepReleases  BY <1>27 DEF SweepReleases, Released, None
<1>28. CASE WriterIdles  BY <1>28 DEF WriterIdles, Unfed
<1>29. CASE Signal  BY <1>29 DEF Signal
<1>30. CASE Launcher  BY <1>30 DEF Launcher
<1>31. CASE Crash  BY <1>31 DEF Crash, Released, Unfed, None
<1>32. CASE SweepCrash  BY <1>32 DEF SweepCrash, Released, Unfed, None
<1>33. CASE Restart  BY <1>33 DEF Restart
<1> QED
  BY <1>1, <1>2, <1>3, <1>4, <1>5, <1>6, <1>7, <1>8, <1>9, <1>10, <1>11, <1>12,
     <1>13, <1>14, <1>15, <1>16, <1>17, <1>18, <1>19, <1>20, <1>21, <1>22, <1>23,
     <1>24, <1>25, <1>26, <1>27, <1>28, <1>29, <1>30, <1>31, <1>32, <1>33
  DEF Next, Daemon, Telemetry, CapturedPart, Watchdog, Sweep

LEMMA StripStep ==
  ASSUME Places, TypeOK', Next
  PROVE  StripPlaces'
<1> USE DEF Places, DaemonPlaces, StripPlaces, others, sweepOthers
<1>1. CASE Drain  BY <1>1, DrainDoes DEF Drain, Kept, AsItIs
<1>2. CASE Refresh  BY <1>2, DrainDoes DEF Refresh, Kept, AsItIs
<1>3. CASE OpenLights
  BY <1>3, LightsDo DEF OpenLights, Kept, AsItIs, LightsOrNothing, MayOpen
<1>4. CASE LeaveNative  BY <1>4 DEF LeaveNative, None
<1>5. CASE StartOpen  BY <1>5 DEF StartOpen, MayOpen, Useless
<1>6. CASE TakeForOpen
  BY <1>6, TakeDoes
  DEF TakeForOpen, Kept, AsItIs, LightsOrNothing, Acquired, Grants, None
<1>7. CASE OpenStream
  BY <1>7, OpenDoes DEF OpenStream, Kept, AsItIs, Fed, Released, None
<1>8. CASE CapturedIdle  BY <1>8 DEF CapturedIdle
<1>9. CASE CapturedOpen  BY <1>9 DEF CapturedOpen, None, Captured
<1>10. CASE CapturedPush
  BY <1>10, PushDoes
  DEF CapturedPush, Kept, AsItIs, Pushed, Fed, Acquired, Grants, None
<1>11. CASE Nothing  BY <1>11 DEF Nothing
<1>12. CASE Yield  BY <1>12 DEF Yield
<1>13. CASE WentSilent  BY <1>13 DEF WentSilent
<1>14. CASE NothingToRender  BY <1>14 DEF NothingToRender, MayRender, Lit
<1>15. CASE RenderSilence
  BY <1>15, SilenceDoes
  DEF RenderSilence, Kept, AsItIs, Parked, Pushed, Fed, Unfed, Lit
<1>16. CASE RenderForce
  BY <1>16, ForceDoes
  DEF RenderForce, Kept, AsItIs, Pushed, Fed, Acquired, Grants, Lit, None
<1>17. CASE ParkLease
  BY <1>17, ParkDoes DEF ParkLease, Kept, AsItIs, Released, None
<1>18. CASE CloseStream  BY <1>18 DEF CloseStream, Unfed, OursToHandBack
<1>19. CASE CloseLease  BY <1>19 DEF CloseLease, Released, None
<1>20. CASE Exit  BY <1>20 DEF Exit
<1>21. CASE SweepAsks  BY <1>21 DEF SweepAsks, Grants, Acquired, None
<1>22. CASE SweepOpens  BY <1>22 DEF SweepOpens, Fed
<1>23. CASE SweepAborts  BY <1>23 DEF SweepAborts, Released, None
<1>24. CASE SweepAborted  BY <1>24 DEF SweepAborted, Unfed
<1>25. CASE SweepPlays  BY <1>25 DEF SweepPlays, Fed
<1>26. CASE SweepStops  BY <1>26 DEF SweepStops, Unfed
<1>27. CASE SweepReleases  BY <1>27 DEF SweepReleases, Released, None
<1>28. CASE WriterIdles  BY <1>28 DEF WriterIdles, Unfed
<1>29. CASE Signal  BY <1>29 DEF Signal
<1>30. CASE Launcher  BY <1>30 DEF Launcher
<1>31. CASE Crash  BY <1>31 DEF Crash, Released, Unfed, None
<1>32. CASE SweepCrash  BY <1>32 DEF SweepCrash, Released, Unfed, None
<1>33. CASE Restart  BY <1>33 DEF Restart
<1> QED
  BY <1>1, <1>2, <1>3, <1>4, <1>5, <1>6, <1>7, <1>8, <1>9, <1>10, <1>11, <1>12,
     <1>13, <1>14, <1>15, <1>16, <1>17, <1>18, <1>19, <1>20, <1>21, <1>22, <1>23,
     <1>24, <1>25, <1>26, <1>27, <1>28, <1>29, <1>30, <1>31, <1>32, <1>33
  DEF Next, Daemon, Telemetry, CapturedPart, Watchdog, Sweep

LEMMA PlacesInit == Init => Places
<1> SUFFICES ASSUME Init PROVE Places  OBVIOUS
<1>1. TypeOK  BY TypeInit
<1>2. /\ DaemonPlaces /\ SessionPlaces /\ WheelPlaces /\ SweepPlaces /\ StripPlaces
  BY DEF Init, DaemonPlaces, SessionPlaces, WheelPlaces, SweepPlaces, StripPlaces, None
<1> QED  BY <1>1, <1>2 DEF Places

LEMMA PlacesStep ==
  ASSUME Places, [Next]_vars
  PROVE  Places'
<1>1. CASE Next
  <2>1. TypeOK'
    <3>1. TypeOK /\ (pc \in {"open", "opening"} => opener # None)
          /\ (pc = "parking" => active # NoSession)
      BY DEF Places, DaemonPlaces
    <3> QED
      BY <1>1, <3>1, OpenType, UseType, AroundType
      DEF Next, Daemon, Telemetry
  <2> QED
    BY <1>1, <2>1, DaemonStep, SessionStep, WheelStep, SweepStep, StripStep DEF Places
<1>2. CASE UNCHANGED vars
  <2>1. UNCHANGED vars  BY <1>2
  <2>2. TypeOK'  BY <2>1 DEF vars, Places, TypeOK
  <2>3. DaemonPlaces' /\ SessionPlaces' /\ WheelPlaces' /\ SweepPlaces' /\ StripPlaces'
    BY <2>1 DEF vars, Places, DaemonPlaces, SessionPlaces, WheelPlaces, SweepPlaces,
       StripPlaces
  <2> QED  BY <2>2, <2>3 DEF Places
<1> QED  BY <1>1, <1>2

LEMMA PlacesHold == Spec => []Places
<1>1. Init => Places  BY PlacesInit
<1>2. Places /\ [Next]_vars => Places'  BY PlacesStep
<1> QED  BY <1>1, <1>2, PTL DEF Spec
-----------------------------------------------------------------------------
\* On a direct drive wheel whoever puts samples on the endpoint holds the
\* wheel's lease (daemon.rs take_lease, standby and teardown; sweep.rs run).
THEOREM FeederHasLease == Spec => []LeaseCoversFeeding
<1>1. Places => LeaseCoversFeeding
  <2> SUFFICES ASSUME Places, kind = "dd", Lockable, NEW p \in feeding
               PROVE  holder = p
    BY DEF LeaseCoversFeeding
  <2>1. p \in {"daemon", "sweep"}  BY DEF Places, TypeOK, Programs
  <2>2. CASE p = "daemon"  BY <2>2 DEF Places, WheelPlaces, SessionPlaces
  <2>3. CASE p = "sweep"   BY <2>3 DEF Places, SweepPlaces
  <2> QED  BY <2>1, <2>2, <2>3
<1> QED  BY <1>1, PlacesHold, PTL

\* A session for the lights alone never holds the lease or feeds the stream,
\* and the strip shows its own pattern again after every session (daemon.rs
\* run, where it opens and closes one).
THEOREM LightsKeepApart == Spec => []LightsApart
<1>1. Places => LightsApart
  <2> SUFFICES ASSUME Places PROVE LightsApart  OBVIOUS
  <2>1. TypeOK  BY DEF Places
  <2>2. LightsOnlyLeavesWheel
    BY DEF Places, DaemonPlaces, WheelPlaces, LightsOnlyLeavesWheel
  <2>3. StripHandedBack  BY DEF Places, StripPlaces, StripHandedBack
  <2> QED  BY <2>1, <2>2, <2>3 DEF LightsApart
<1> QED  BY <1>1, PlacesHold, PTL

(***************************************************************************)
(* The held session.                                                       *)
(***************************************************************************)
Behind  == Keepalive!DirectDrive \union {"g923", "gone"}
Effects == {Keepalive!Free, "stopped", "playing", "game"}

StreamTypes ==
  /\ rig \in [Events -> Behind]
  /\ target \in Events \union {Keepalive!None} /\ user \in {"daemon", "sweep"}
  /\ stage \in {"closed", "find", "upload", "play", "opened", "close", "release"}
  /\ lib \in {"closed", "open", "streaming", "quiet", "dead"}
  /\ node \in Events \union {Keepalive!None} /\ id \in Slots \union {Keepalive!None}
  /\ effects \in [Events -> [Slots -> Effects]]
  /\ alone \in BOOLEAN

\* What the keepalive has, by where open() and drop() are.  An effect that was
\* uploaded is there, and plays once the stream is open, unless its wheel is
\* gone and the effect with it.
Held ==
  /\ stage # "closed" => target # Keepalive!None
  /\ stage \in {"closed", "find"} => node = Keepalive!None /\ id = Keepalive!None
  /\ stage = "upload" => node # Keepalive!None /\ id = Keepalive!None
  /\ stage = "play" => node # Keepalive!None /\ id # Keepalive!None
  /\ stage \in {"opened", "close", "release"} => (node = Keepalive!None <=> id
       = Keepalive!None)
  /\ stage = "play" /\ rig[node] # "gone" => effects[node][id] = "stopped"
  /\ stage \in {"opened", "close", "release"} /\ id # Keepalive!None /\ rig[node] # "gone" =>
       effects[node][id] = "playing"

\* Samples go out only to a wheel that is there, of a stream that is open, and
\* a sweep's only with the keepalive.
Driven ==
  lib \in {"streaming", "quiet"} =>
    /\ stage \in {"opened", "close"} /\ target \in Events
         /\ rig[target] \in Keepalive!DirectDrive
    /\ user = "sweep" => Keepalive!IsStabilised

\* A wheel does not turn into a direct-drive wheel while it is plugged in: the
\* only one there when the stream opened is the only one that can be found.
StillAlone ==
  stage # "closed" /\ alone =>
    /\ \A e \in Events : rig[e] \in Keepalive!DirectDrive => e = target
    /\ node # Keepalive!None => node = target

StreamInv == StreamTypes /\ Held /\ Driven /\ StillAlone /\ Keepalive!OnlyOwnEffect
LEMMA StreamInit == Keepalive!Init => StreamInv
<1> SUFFICES ASSUME Keepalive!Init PROVE StreamInv  OBVIOUS
<1>1. target \in Events \union {Keepalive!None}  BY DEF Keepalive!Init, Keepalive!Wheels
<1>2. StreamTypes  BY <1>1 DEF Keepalive!Init, StreamTypes, Behind, Effects
<1>3. Held /\ Driven /\ StillAlone  BY DEF Keepalive!Init, Held, Driven, StillAlone
<1>4. Keepalive!OnlyOwnEffect
  BY DEF Keepalive!Init, Keepalive!OnlyOwnEffect, Keepalive!Free
<1> QED  BY <1>2, <1>3, <1>4 DEF StreamInv

LEMMA StreamTypesStep ==
  ASSUME Keepalive!NodeAssumption, StreamInv, Keepalive!Next
  PROVE  StreamTypes'
<1> USE DEF StreamInv, StreamTypes, Keepalive!NodeAssumption, Keepalive!None,
      Keepalive!IsStabilised
<1>1. ASSUME NEW u \in {"daemon", "sweep"}, Keepalive!Open(u) PROVE StreamTypes'
  BY <1>1 DEF Keepalive!Open, Keepalive!Wheels, Held
<1>2. CASE Keepalive!Find  BY <1>2 DEF Keepalive!Find, Keepalive!Found, Keepalive!IsDd
<1>3. CASE Keepalive!Upload
  BY <1>3 DEF Keepalive!Upload, Keepalive!Works, Keepalive!Faulty, Held, Effects,
       Keepalive!Free
<1>4. CASE Keepalive!Play
  BY <1>4 DEF Keepalive!Play, Keepalive!Released, Keepalive!Works, Keepalive!Faulty,
       Held, Effects, Keepalive!Free
<1>5. CASE Keepalive!Refuse  BY <1>5 DEF Keepalive!Refuse, Keepalive!MayDrive
<1>6. CASE Keepalive!Push  BY <1>6 DEF Keepalive!Push, Keepalive!MayDrive
<1>7. CASE Keepalive!Standby  BY <1>7 DEF Keepalive!Standby
<1>8. CASE Keepalive!Resume  BY <1>8 DEF Keepalive!Resume
<1>9. CASE Keepalive!Leave  BY <1>9 DEF Keepalive!Leave, Keepalive!MayDrive
<1>10. CASE Keepalive!CloseStream  BY <1>10 DEF Keepalive!CloseStream
<1>11. CASE Keepalive!DropKeepalive
  BY <1>11 DEF Keepalive!DropKeepalive, Keepalive!Released, Held, Effects, Keepalive!Free
<1>12. CASE Keepalive!Kill
  BY <1>12 DEF Keepalive!Kill, Keepalive!Released, Held, Effects, Keepalive!Free
<1>13. ASSUME NEW e \in Events, Keepalive!Unplug(e) PROVE StreamTypes'
  BY <1>13 DEF Keepalive!Unplug, Behind, Effects, Keepalive!Free, Keepalive!DirectDrive
<1>14. ASSUME NEW e \in Events, Keepalive!Appear(e) PROVE StreamTypes'
  BY <1>14 DEF Keepalive!Appear, Behind, Keepalive!DirectDrive
<1>15. ASSUME NEW e \in Events, NEW s \in Slots, Keepalive!GameEffect(e,
                s) PROVE StreamTypes'
  BY <1>15 DEF Keepalive!GameEffect, Effects, Keepalive!Free
<1> QED
  BY <1>1, <1>2, <1>3, <1>4, <1>5, <1>6, <1>7, <1>8, <1>9, <1>10, <1>11, <1>12, <1>13,
     <1>14, <1>15 DEF Keepalive!Next

LEMMA HeldStep ==
  ASSUME Keepalive!NodeAssumption, StreamInv, StreamTypes', Keepalive!Next
  PROVE  Held'
<1> USE DEF StreamInv, StreamTypes, Held, Keepalive!NodeAssumption, Keepalive!None,
      Keepalive!IsStabilised
<1>1. ASSUME NEW u \in {"daemon", "sweep"}, Keepalive!Open(u) PROVE Held'
  BY <1>1 DEF Keepalive!Open, Keepalive!Wheels
<1>2. CASE Keepalive!Find
  BY <1>2 DEF Keepalive!Find, Keepalive!Found, Keepalive!IsDd, Keepalive!OnlyOwnEffect,
       Keepalive!Free
<1>3. CASE Keepalive!Upload
  BY <1>3 DEF Keepalive!Upload, Keepalive!Works, Keepalive!Faulty,
       Keepalive!OnlyOwnEffect, Keepalive!Free
<1>4. CASE Keepalive!Play
  BY <1>4 DEF Keepalive!Play, Keepalive!Released, Keepalive!Works, Keepalive!Faulty,
       Keepalive!OnlyOwnEffect, Keepalive!Free
<1>5. CASE Keepalive!Refuse  BY <1>5 DEF Keepalive!Refuse, Keepalive!MayDrive
<1>6. CASE Keepalive!Push  BY <1>6 DEF Keepalive!Push, Keepalive!MayDrive
<1>7. CASE Keepalive!Standby  BY <1>7 DEF Keepalive!Standby
<1>8. CASE Keepalive!Resume  BY <1>8 DEF Keepalive!Resume
<1>9. CASE Keepalive!Leave  BY <1>9 DEF Keepalive!Leave, Keepalive!MayDrive
<1>10. CASE Keepalive!CloseStream  BY <1>10 DEF Keepalive!CloseStream
<1>11. CASE Keepalive!DropKeepalive
  BY <1>11 DEF Keepalive!DropKeepalive, Keepalive!Released
<1>12. CASE Keepalive!Kill  BY <1>12 DEF Keepalive!Kill, Keepalive!Released
<1>13. ASSUME NEW e \in Events, Keepalive!Unplug(e) PROVE Held'
  BY <1>13 DEF Keepalive!Unplug, Behind, Effects, Keepalive!Free, Keepalive!DirectDrive
<1>14. ASSUME NEW e \in Events, Keepalive!Appear(e) PROVE Held'
  BY <1>14 DEF Keepalive!Appear, Behind, Keepalive!DirectDrive
<1>15. ASSUME NEW e \in Events, NEW s \in Slots, Keepalive!GameEffect(e, s) PROVE Held'
  BY <1>15 DEF Keepalive!GameEffect, Effects, Keepalive!Free
<1> QED
  BY <1>1, <1>2, <1>3, <1>4, <1>5, <1>6, <1>7, <1>8, <1>9, <1>10, <1>11, <1>12, <1>13,
     <1>14, <1>15 DEF Keepalive!Next

LEMMA DrivenStep ==
  ASSUME Keepalive!NodeAssumption, StreamInv, StreamTypes', Keepalive!Next
  PROVE  Driven'
<1> USE DEF StreamInv, StreamTypes, Driven, Keepalive!NodeAssumption, Keepalive!None,
      Keepalive!IsStabilised
<1>1. ASSUME NEW u \in {"daemon", "sweep"}, Keepalive!Open(u) PROVE Driven'
  BY <1>1 DEF Keepalive!Open, Keepalive!Wheels, Held
<1>2. CASE Keepalive!Find  BY <1>2 DEF Keepalive!Find, Keepalive!Found, Keepalive!IsDd, Held
<1>3. CASE Keepalive!Upload
  BY <1>3 DEF Keepalive!Upload, Keepalive!Works, Keepalive!Faulty, Held
<1>4. CASE Keepalive!Play
  BY <1>4 DEF Keepalive!Play, Keepalive!Released, Keepalive!Works, Keepalive!Faulty, Held
<1>5. CASE Keepalive!Refuse  BY <1>5 DEF Keepalive!Refuse, Keepalive!MayDrive, Held
<1>6. CASE Keepalive!Push  BY <1>6 DEF Keepalive!Push, Keepalive!MayDrive, Held
<1>7. CASE Keepalive!Standby  BY <1>7 DEF Keepalive!Standby, Held
<1>8. CASE Keepalive!Resume  BY <1>8 DEF Keepalive!Resume, Held
<1>9. CASE Keepalive!Leave  BY <1>9 DEF Keepalive!Leave, Keepalive!MayDrive, Held
<1>10. CASE Keepalive!CloseStream  BY <1>10 DEF Keepalive!CloseStream, Held
<1>11. CASE Keepalive!DropKeepalive
  BY <1>11 DEF Keepalive!DropKeepalive, Keepalive!Released, Held
<1>12. CASE Keepalive!Kill  BY <1>12 DEF Keepalive!Kill, Keepalive!Released, Held
<1>13. ASSUME NEW e \in Events, Keepalive!Unplug(e) PROVE Driven'
  BY <1>13 DEF Keepalive!Unplug, Behind, Effects, Keepalive!Free, Keepalive!DirectDrive
<1>14. ASSUME NEW e \in Events, Keepalive!Appear(e) PROVE Driven'
  BY <1>14 DEF Keepalive!Appear, Behind, Keepalive!DirectDrive
<1>15. ASSUME NEW e \in Events, NEW s \in Slots, Keepalive!GameEffect(e, s) PROVE Driven'
  BY <1>15 DEF Keepalive!GameEffect, Effects, Keepalive!Free
<1> QED
  BY <1>1, <1>2, <1>3, <1>4, <1>5, <1>6, <1>7, <1>8, <1>9, <1>10, <1>11, <1>12, <1>13,
     <1>14, <1>15 DEF Keepalive!Next

LEMMA StillAloneStep ==
  ASSUME Keepalive!NodeAssumption, StreamInv, StreamTypes', Keepalive!Next
  PROVE  StillAlone'
<1> USE DEF StreamInv, StreamTypes, StillAlone, Keepalive!NodeAssumption,
      Keepalive!None, Keepalive!IsStabilised
<1>1. ASSUME NEW u \in {"daemon", "sweep"}, Keepalive!Open(u) PROVE StillAlone'
  BY <1>1 DEF Keepalive!Open, Keepalive!Wheels, Held
<1>2. CASE Keepalive!Find
  BY <1>2 DEF Keepalive!Find, Keepalive!Found, Keepalive!IsDd, Keepalive!DirectDrive, Held
<1>3. CASE Keepalive!Upload
  BY <1>3 DEF Keepalive!Upload, Keepalive!Works, Keepalive!Faulty, Held
<1>4. CASE Keepalive!Play
  BY <1>4 DEF Keepalive!Play, Keepalive!Released, Keepalive!Works, Keepalive!Faulty, Held
<1>5. CASE Keepalive!Refuse  BY <1>5 DEF Keepalive!Refuse, Keepalive!MayDrive, Held
<1>6. CASE Keepalive!Push  BY <1>6 DEF Keepalive!Push, Keepalive!MayDrive, Held
<1>7. CASE Keepalive!Standby  BY <1>7 DEF Keepalive!Standby, Held
<1>8. CASE Keepalive!Resume  BY <1>8 DEF Keepalive!Resume, Held
<1>9. CASE Keepalive!Leave  BY <1>9 DEF Keepalive!Leave, Keepalive!MayDrive, Held
<1>10. CASE Keepalive!CloseStream  BY <1>10 DEF Keepalive!CloseStream, Held
<1>11. CASE Keepalive!DropKeepalive
  BY <1>11 DEF Keepalive!DropKeepalive, Keepalive!Released, Held
<1>12. CASE Keepalive!Kill  BY <1>12 DEF Keepalive!Kill, Keepalive!Released, Held
<1>13. ASSUME NEW e \in Events, Keepalive!Unplug(e) PROVE StillAlone'
  BY <1>13 DEF Keepalive!Unplug, Behind, Effects, Keepalive!Free, Keepalive!DirectDrive
<1>14. ASSUME NEW e \in Events, Keepalive!Appear(e) PROVE StillAlone'
  BY <1>14 DEF Keepalive!Appear, Behind, Keepalive!DirectDrive
<1>15. ASSUME NEW e \in Events, NEW s \in Slots, Keepalive!GameEffect(e,
                s) PROVE StillAlone'
  BY <1>15 DEF Keepalive!GameEffect, Effects, Keepalive!Free
<1> QED
  BY <1>1, <1>2, <1>3, <1>4, <1>5, <1>6, <1>7, <1>8, <1>9, <1>10, <1>11, <1>12, <1>13,
     <1>14, <1>15 DEF Keepalive!Next

LEMMA OnlyOwnEffectStep ==
  ASSUME Keepalive!NodeAssumption, StreamInv, StreamTypes', Keepalive!Next
  PROVE  Keepalive!OnlyOwnEffect'
<1> USE DEF StreamInv, StreamTypes, Keepalive!OnlyOwnEffect, Keepalive!NodeAssumption,
      Keepalive!None, Keepalive!IsStabilised
<1>1. ASSUME NEW u \in {"daemon", "sweep"}, Keepalive!Open(u) PROVE Keepalive!OnlyOwnEffect'
  BY <1>1 DEF Keepalive!Open, Keepalive!Wheels, Held
<1>2. CASE Keepalive!Find
  BY <1>2 DEF Keepalive!Find, Keepalive!Found, Keepalive!IsDd, Held, Keepalive!Free
<1>3. CASE Keepalive!Upload
  BY <1>3 DEF Keepalive!Upload, Keepalive!Works, Keepalive!Faulty, Held, Keepalive!Free
<1>4. CASE Keepalive!Play
  BY <1>4 DEF Keepalive!Play, Keepalive!Released, Keepalive!Works, Keepalive!Faulty,
       Held, Keepalive!Free
<1>5. CASE Keepalive!Refuse
  BY <1>5 DEF Keepalive!Refuse, Keepalive!MayDrive, Held, Keepalive!Free
<1>6. CASE Keepalive!Push
  BY <1>6 DEF Keepalive!Push, Keepalive!MayDrive, Held, Keepalive!Free
<1>7. CASE Keepalive!Standby  BY <1>7 DEF Keepalive!Standby, Held, Keepalive!Free
<1>8. CASE Keepalive!Resume  BY <1>8 DEF Keepalive!Resume, Held, Keepalive!Free
<1>9. CASE Keepalive!Leave
  BY <1>9 DEF Keepalive!Leave, Keepalive!MayDrive, Held, Keepalive!Free
<1>10. CASE Keepalive!CloseStream  BY <1>10 DEF Keepalive!CloseStream, Held, Keepalive!Free
<1>11. CASE Keepalive!DropKeepalive
  BY <1>11 DEF Keepalive!DropKeepalive, Keepalive!Released, Held, Keepalive!Free
<1>12. CASE Keepalive!Kill
  BY <1>12 DEF Keepalive!Kill, Keepalive!Released, Held, Keepalive!Free
<1>13. ASSUME NEW e \in Events, Keepalive!Unplug(e) PROVE Keepalive!OnlyOwnEffect'
  BY <1>13 DEF Keepalive!Unplug, Behind, Effects, Keepalive!Free, Keepalive!DirectDrive
<1>14. ASSUME NEW e \in Events, Keepalive!Appear(e) PROVE Keepalive!OnlyOwnEffect'
  BY <1>14 DEF Keepalive!Appear, Behind, Keepalive!DirectDrive
<1>15. ASSUME NEW e \in Events, NEW s \in Slots, Keepalive!GameEffect(e,
                s) PROVE Keepalive!OnlyOwnEffect'
  BY <1>15 DEF Keepalive!GameEffect, Effects, Keepalive!Free
<1> QED
  BY <1>1, <1>2, <1>3, <1>4, <1>5, <1>6, <1>7, <1>8, <1>9, <1>10, <1>11, <1>12, <1>13,
     <1>14, <1>15 DEF Keepalive!Next

LEMMA StreamStep ==
  ASSUME Keepalive!NodeAssumption, StreamInv, [Keepalive!Next]_(Keepalive!vars)
  PROVE  StreamInv'
<1>1. CASE Keepalive!Next
  BY <1>1, StreamTypesStep, HeldStep, DrivenStep, StillAloneStep,
       OnlyOwnEffectStep DEF StreamInv
<1>2. CASE UNCHANGED Keepalive!vars
  <2>1. UNCHANGED Keepalive!vars  BY <1>2
  <2> USE DEF Keepalive!vars, StreamInv
  <2>2. StreamTypes'  BY <2>1 DEF StreamTypes
  <2>3. Held' /\ Driven' /\ StillAlone'
    BY <2>1 DEF Held, Driven, StillAlone, Keepalive!IsStabilised
  <2>4. Keepalive!OnlyOwnEffect'  BY <2>1 DEF Keepalive!OnlyOwnEffect
  <2> QED  BY <2>2, <2>3, <2>4
<1> QED  BY <1>1, <1>2

LEMMA StreamHolds == ASSUME Keepalive!NodeAssumption PROVE Keepalive!Spec => []StreamInv
<1>1. Keepalive!Init => StreamInv  BY StreamInit
<1>2. StreamInv /\ [Keepalive!Next]_(Keepalive!vars) => StreamInv'  BY StreamStep
<1> QED  BY <1>1, <1>2, PTL DEF Keepalive!Spec
\* A stream to the only direct-drive wheel attached has the zero force playing
\* on that very wheel from its first sample to its last, if it is stabilised at
\* all, and a sweep's always is (tf.rs, ffb_keepalive.rs and sweep.rs, issue
\* #57).
THEOREM Stabilised ==
  ASSUME Keepalive!NodeAssumption PROVE Keepalive!Spec => []Keepalive!StabilisedWhileStreaming
<1>1. StreamInv => Keepalive!StabilisedWhileStreaming
  <2> SUFFICES ASSUME StreamInv, lib = "streaming", alone PROVE
                 /\ Keepalive!IsStabilised => effects[target][id] = "playing"
                 /\ user = "sweep" => Keepalive!IsStabilised
    BY DEF Keepalive!StabilisedWhileStreaming
  <2>1. /\ stage \in {"opened", "close"} /\ rig[target] \in Keepalive!DirectDrive
        /\ user = "sweep" => Keepalive!IsStabilised
    BY DEF StreamInv, Driven
  <2>2. Keepalive!IsStabilised => node = target
    BY <2>1 DEF StreamInv, Held, StillAlone, Keepalive!IsStabilised
  <2>3. rig[target] # "gone"  BY <2>1 DEF Keepalive!DirectDrive
  <2> QED  BY <2>1, <2>2, <2>3 DEF StreamInv, Held, Keepalive!IsStabilised
<1> QED  BY <1>1, StreamHolds, PTL

\* The wheel is left with no effect of the stream's, and no slot but the
\* keepalive's is ever taken or freed by it (drop of FfbKeepalive, a killed
\* process and an unplugged wheel included).
THEOREM NothingLeftBehind ==
  ASSUME Keepalive!NodeAssumption PROVE Keepalive!Spec => []Keepalive!OnlyOwnEffect
<1>1. StreamInv => Keepalive!OnlyOwnEffect  BY DEF StreamInv
<1> QED  BY <1>1, StreamHolds, PTL

(***************************************************************************)
(* The shared port.                                                        *)
(***************************************************************************)
Has(s, d)    == \E i \in DOMAIN s : s[i] = d
NoRepeats(s) == \A i, j \in DOMAIN s : s[i] = s[j] => i = j

RelayTypes ==
  /\ port \in [Listeners -> Relay!Ports \cup {Relay!Closed}]
  /\ role \in [Listeners -> {"none", "hub", "follower"}]
  /\ recvq \in [Relay!Ports -> Seq(Ids)] /\ seen \in [Listeners -> SUBSET Ids]

\* A port is one program's, and the base port is the hub's.
OneSocket ==
  /\ \A l, m \in Listeners : port[l] = port[m] /\ port[l] # Relay!Closed => l = m
  /\ \A l \in Listeners : role[l] = "hub" <=> port[l] = Relay!Base
  /\ \A l \in Listeners : role[l] = "follower" => port[l] \in Relay!Ports

\* What waits in a socket goes with it.
NothingUnbound == \A p \in Relay!Ports : ~Relay!Bound(p) => recvq[p] = <<>>

\* A sample waits at most once in a socket, and its program has not had it.
\* One on the base port is new: no program has had it, and it waits nowhere
\* else, so that the hub may pass it on to every other port.
Unseen ==
  /\ \A p \in Relay!Ports : NoRepeats(recvq[p])
  /\ \A p \in Relay!Ports, l \in Listeners : port[l] = p => \A d \in seen[l] : ~Has(recvq[p], d)
  /\ \A l \in Listeners : \A d \in seen[l] : ~Has(recvq[Relay!Base], d)
  /\ \A p \in Relay!Ports \ {Relay!Base} : \A d \in Ids : Has(recvq[Relay!Base], d) => ~Has(recvq[p], d)

RelayInv == RelayTypes /\ OneSocket /\ NothingUnbound /\ Unseen /\ Relay!NoSampleTwice
(* Sequences.                                                              *)

LEMMA HasAppend ==
  ASSUME NEW s \in Seq(Ids), NEW d \in Ids
  PROVE  /\ Append(s, d) \in Seq(Ids)
         /\ \A x : Has(Append(s, d), x) => Has(s, x) \/ x = d
         /\ NoRepeats(s) /\ ~Has(s, d) => NoRepeats(Append(s, d))
<1> DEFINE n == Len(s)
           t == Append(s, d)
<1>1. n \in Nat /\ DOMAIN s = 1..n  BY LenProperties
<1>2. t \in Seq(Ids) /\ Len(t) = n + 1  BY AppendProperties
<1>3. DOMAIN t = 1..(n + 1)  BY <1>2, LenProperties
<1>4. t[n + 1] = d /\ \A i \in 1..n : t[i] = s[i]  BY AppendProperties
<1>5. 1..(n + 1) = 1..n \cup {n + 1}  BY <1>1
<1> HIDE DEF n, t
<1>6. \A x : Has(t, x) => Has(s, x) \/ x = d  BY <1>1, <1>3, <1>4, <1>5 DEF Has
<1>7. ASSUME NoRepeats(s), ~Has(s, d) PROVE NoRepeats(t)
  BY <1>1, <1>3, <1>4, <1>5, <1>7 DEF Has, NoRepeats
<1> QED  BY <1>2, <1>6, <1>7 DEF t

LEMMA HasTail ==
  ASSUME NEW s \in Seq(Ids), s # <<>>
  PROVE  /\ Tail(s) \in Seq(Ids) /\ Head(s) \in Ids /\ Has(s, Head(s))
         /\ \A x : Has(Tail(s), x) => Has(s, x)
         /\ NoRepeats(s) => NoRepeats(Tail(s)) /\ ~Has(Tail(s), Head(s))
<1> DEFINE n == Len(s)
           t == Tail(s)
<1>1. n \in Nat \ {0} /\ DOMAIN s = 1..n  BY EmptySeq, LenProperties
<1>2. /\ t \in Seq(Ids) /\ Head(s) \in Ids /\ Len(t) = n - 1
      /\ \A i \in 1..Len(t) : t[i] = s[i + 1]
  BY HeadTailProperties
<1>3. DOMAIN t = 1..(n - 1) /\ Head(s) = s[1]  BY <1>2, LenProperties
<1> HIDE DEF n, t
<1>4. \A i \in DOMAIN t : i + 1 \in DOMAIN s /\ i + 1 # 1 /\ t[i] = s[i + 1] /\ i \in Nat
  BY <1>1, <1>2, <1>3
<1>5. Has(s, Head(s))  BY <1>1, <1>3 DEF Has
<1>6. \A x : Has(t, x) => Has(s, x)  BY <1>4 DEF Has
<1>7. ASSUME NoRepeats(s) PROVE NoRepeats(t) /\ ~Has(t, Head(s))
  <2>1. NoRepeats(t)  BY <1>4, <1>7 DEF NoRepeats
  <2>2. 1 \in DOMAIN s  BY <1>1
  <2>3. ~Has(t, Head(s))  BY <1>3, <1>4, <1>7, <2>2 DEF NoRepeats, Has
  <2> QED  BY <2>1, <2>3
<1> QED  BY <1>2, <1>5, <1>6, <1>7 DEF t

LEMMA HasNothing == <<>> \in Seq(Ids) /\ NoRepeats(<<>>) /\ \A x : ~Has(<<>>, x)
BY DEF Has, NoRepeats

\* What a datagram sent to a port leaves in the queues.
LEMMA SentTo ==
  ASSUME NEW q \in [Relay!Ports -> Seq(Ids)], NEW p \in Relay!Ports, NEW d \in Ids
  PROVE  /\ Relay!Sent(q, p, d) \in [Relay!Ports -> Seq(Ids)]
         /\ \A o \in Relay!Ports \ {p} : Relay!Sent(q, p, d)[o] = q[o]
         /\ Relay!Sent(q, p, d)[p] = q[p] \/ (Relay!Bound(p)
              /\ Relay!Sent(q, p, d)[p] = Append(q[p], d))
<1>1. Append(q[p], d) \in Seq(Ids)  BY HasAppend
<1> QED  BY <1>1 DEF Relay!Sent
LEMMA RelayInit == Relay!PortAssumption /\ Relay!Init => RelayInv
<1> SUFFICES ASSUME Relay!PortAssumption, Relay!Init PROVE RelayInv  OBVIOUS
<1>p. Relay!Base \in Relay!Ports /\ Relay!Closed \notin Relay!Ports
        /\ Relay!Closed # Relay!Base
  BY DEF Relay!PortAssumption, Relay!Ports, Relay!Closed, Relay!Base
<1>1. RelayTypes  BY HasNothing DEF Relay!Init, RelayTypes
<1>2. OneSocket /\ NothingUnbound /\ Relay!NoSampleTwice
  BY <1>p DEF Relay!Init, OneSocket, NothingUnbound, Relay!NoSampleTwice
<1>3. Unseen  BY <1>p, HasNothing DEF Relay!Init, Unseen
<1> QED  BY <1>1, <1>2, <1>3 DEF RelayInv

LEMMA RelayStep ==
  ASSUME Relay!PortAssumption, RelayInv, [Relay!Next]_(Relay!vars)
  PROVE  RelayInv'
<1> USE DEF RelayInv
<1>p. Relay!Base \in Relay!Ports /\ Relay!Closed \notin Relay!Ports
        /\ Relay!Closed # Relay!Base
  BY DEF Relay!PortAssumption, Relay!Ports, Relay!Closed, Relay!Base
<1>1. CASE Relay!Produce
  <2>1. PICK d \in Ids : /\ ~Relay!InFlight(d) /\ recvq' = Relay!Sent(recvq, Relay!Base, d)
                         /\ seen' = [l \in Listeners |-> seen[l] \ {d}]
    BY <1>1 DEF Relay!Produce
  <2>2. UNCHANGED <<port, role, twice>>  BY <1>1 DEF Relay!Produce
  <2>3. \A p \in Relay!Ports : ~Has(recvq[p], d)
    <3>1. \A p \in Relay!Ports : DOMAIN recvq[p] = 1..Len(recvq[p])
      BY LenProperties DEF RelayTypes
    <3> QED  BY <2>1, <3>1 DEF Relay!InFlight, Has
  <2>4. /\ recvq' \in [Relay!Ports -> Seq(Ids)]
        /\ \A o \in Relay!Ports \ {Relay!Base} : recvq'[o] = recvq[o]
        /\ recvq'[Relay!Base] = recvq[Relay!Base] \/ (Relay!Bound(Relay!Base)
             /\ recvq'[Relay!Base] = Append(recvq[Relay!Base], d))
    BY <1>p, <2>1, SentTo DEF RelayTypes
  <2>5. /\ NoRepeats(recvq'[Relay!Base])
        /\ \A x : Has(recvq'[Relay!Base], x) => Has(recvq[Relay!Base], x) \/ x = d
    <3>1. recvq[Relay!Base] \in Seq(Ids) /\ NoRepeats(recvq[Relay!Base])
            /\ ~Has(recvq[Relay!Base], d)
      BY <1>p, <2>3 DEF RelayTypes, Unseen
    <3> QED  BY <2>4, <3>1, HasAppend
  <2>6. \A l \in Listeners : \A x \in seen'[l] : x \in seen[l] /\ x # d
    BY <2>1
  <2>7. RelayTypes'  BY <2>1, <2>2, <2>4 DEF RelayTypes
  <2>8. OneSocket' /\ Relay!NoSampleTwice'  BY <2>2 DEF OneSocket, Relay!NoSampleTwice
  <2>9. NothingUnbound'  BY <2>2, <2>4 DEF NothingUnbound, Relay!Bound
  <2>10. Unseen'
    <3>1. \A p \in Relay!Ports : NoRepeats(recvq'[p])  BY <2>4, <2>5 DEF Unseen
    <3>2. \A p \in Relay!Ports : \A x : Has(recvq'[p], x) => Has(recvq[p], x) \/ x = d
      BY <2>4, <2>5
    <3>3. \A p \in Relay!Ports, l \in Listeners :
            port'[l] = p => \A x \in seen'[l] : ~Has(recvq'[p], x)
      BY <2>2, <2>6, <3>2 DEF Unseen
    <3>4. \A l \in Listeners : \A x \in seen'[l] : ~Has(recvq'[Relay!Base], x)
      BY <1>p, <2>6, <3>2 DEF Unseen
    <3>5. \A p \in Relay!Ports \ {Relay!Base} : \A x \in Ids :
            Has(recvq'[Relay!Base], x) => ~Has(recvq'[p], x)
      BY <1>p, <2>3, <2>4, <2>5 DEF Unseen
    <3> QED  BY <3>1, <3>3, <3>4, <3>5 DEF Unseen
  <2> QED  BY <2>7, <2>8, <2>9, <2>10
<1>2. ASSUME NEW l \in Listeners, Relay!Open(l) PROVE RelayInv'
  <2>1. UNCHANGED <<recvq, seen, twice>> /\ port[l] = Relay!Closed
    BY <1>2 DEF Relay!Open, Relay!Alive
  <2>2. CASE UNCHANGED <<port, role>>
    BY <2>1, <2>2 DEF RelayTypes, OneSocket, NothingUnbound, Relay!Bound, Unseen,
         Relay!NoSampleTwice
  <2>3. ASSUME NEW p \in Relay!Free, port' = [port EXCEPT ![l] = p],
               role' = [role EXCEPT ![l] = IF p = Relay!Base THEN "hub" ELSE "follower"]
        PROVE  RelayInv'
    <3>1. p \in Relay!Ports /\ \A m \in Listeners : port[m] # p
      BY DEF Relay!Free, Relay!Bound
    <3>2. recvq[p] = <<>>  BY <3>1 DEF NothingUnbound, Relay!Bound
    <3>3. RelayTypes'  BY <2>1, <2>3, <3>1 DEF RelayTypes
    <3>4. OneSocket'  BY <1>p, <2>1, <2>3, <3>1 DEF RelayTypes, OneSocket
    <3>5. NothingUnbound'
      BY <1>p, <2>1, <2>3, <3>1 DEF RelayTypes, NothingUnbound, Relay!Bound
    <3>6. Unseen'
      BY <2>1, <2>3, <3>2, HasNothing DEF RelayTypes, Unseen
    <3> QED  BY <2>1, <3>3, <3>4, <3>5, <3>6 DEF Relay!NoSampleTwice
  <2> QED  BY <1>2, <2>2, <2>3 DEF Relay!Open
<1>3. ASSUME NEW l \in Listeners, Relay!Drain(l) PROVE RelayInv'
  <2> DEFINE p == port[l]
             d == Head(recvq[p])
             q == [recvq EXCEPT ![p] = Tail(recvq[p])]
  <2>1. /\ p \in Relay!Ports /\ recvq[p] \in Seq(Ids) /\ recvq[p] # <<>>
        /\ NoRepeats(recvq[p])
    BY <1>3 DEF Relay!Drain, Relay!Alive, RelayTypes, Unseen
  <2>2. /\ Tail(recvq[p]) \in Seq(Ids) /\ d \in Ids /\ Has(recvq[p], d)
        /\ \A x : Has(Tail(recvq[p]), x) => Has(recvq[p], x)
        /\ NoRepeats(Tail(recvq[p])) /\ ~Has(Tail(recvq[p]), d)
    BY <2>1, HasTail
  <2>3. /\ q \in [Relay!Ports -> Seq(Ids)] /\ q[p] = Tail(recvq[p])
        /\ \A o \in Relay!Ports \ {p} : q[o] = recvq[o]
    BY <2>1, <2>2 DEF RelayTypes
  <2>4. /\ recvq' = IF Relay!Forwards(l) THEN Relay!Fanned(q, d) ELSE q
        /\ twice' = (twice \/ d \in seen[l])
        /\ seen' = [seen EXCEPT ![l] = @ \cup {d}]
        /\ UNCHANGED <<port, role>>
    BY <1>3 DEF Relay!Drain
  <2>5. port[l] = p  OBVIOUS
  <2> HIDE DEF p, d, q
  <2>6. d \notin seen[l]  BY <2>1, <2>2, <2>5 DEF Unseen
  <2>7. /\ \A m \in Listeners \ {l} : seen'[m] = seen[m]
        /\ seen'[l] = seen[l] \cup {d} /\ seen' \in [Listeners -> SUBSET Ids]
    BY <2>2, <2>4 DEF RelayTypes
  <2>8. \A m \in Listeners \ {l} : port[m] # p
    BY <1>p, <2>1, <2>5 DEF OneSocket
  <2>9. OneSocket' /\ Relay!NoSampleTwice'
    BY <2>4, <2>6 DEF OneSocket, Relay!NoSampleTwice
  <2>q. /\ \A o \in Relay!Ports : NoRepeats(q[o])
        /\ \A o \in Relay!Ports : \A x : Has(q[o], x) => Has(recvq[o], x)
        /\ ~Has(q[p], d)
    BY <2>2, <2>3 DEF Unseen
  <2>10. CASE ~Relay!Forwards(l)
    <3>1. recvq' = q  BY <2>4, <2>10
    <3>2. p # Relay!Base
      BY <2>5, <2>10 DEF Relay!Forwards, Relay!RolesForwarding, OneSocket
    <3>3. ~Has(recvq[Relay!Base], d)  BY <1>p, <2>1, <2>2, <3>2 DEF Unseen
    <3>4. RelayTypes'  BY <2>3, <2>4, <2>7, <3>1 DEF RelayTypes
    <3>5. NothingUnbound'
      BY <2>1, <2>3, <2>4, <2>5, <3>1 DEF NothingUnbound, Relay!Bound
    <3>6. \A o \in Relay!Ports, m \in Listeners :
            port'[m] = o => \A x \in seen'[m] : ~Has(recvq'[o], x)
      BY <2>4, <2>5, <2>7, <2>q, <3>1 DEF Unseen
    <3>7. \A m \in Listeners : \A x \in seen'[m] : ~Has(recvq'[Relay!Base], x)
      BY <1>p, <2>7, <2>q, <3>1, <3>3 DEF Unseen
    <3>8. \A o \in Relay!Ports \ {Relay!Base} : \A x \in Ids :
            Has(recvq'[Relay!Base], x) => ~Has(recvq'[o], x)
      BY <1>p, <2>q, <3>1 DEF Unseen
    <3>9. Unseen'  BY <2>q, <3>1, <3>6, <3>7, <3>8 DEF Unseen
    <3> QED  BY <2>9, <3>4, <3>5, <3>9
  <2>11. CASE Relay!Forwards(l)
    <3>1. p = Relay!Base
      BY <2>5, <2>11 DEF Relay!Forwards, Relay!RolesForwarding, OneSocket
    <3>2. recvq' = [o \in Relay!Ports |-> IF o
            = Relay!Base THEN q[o] ELSE Relay!Sent(q, o, d)[o]]
      BY <2>4, <2>11 DEF Relay!Fanned
    <3>3. \A o \in Relay!Ports : ~Has(q[o], d)
      BY <2>2, <2>3, <2>q, <3>1 DEF Unseen
    <3>4. \A m \in Listeners : d \notin seen[m]  BY <2>2, <3>1 DEF Unseen
    <3>5. ASSUME NEW o \in Relay!Ports
          PROVE  /\ recvq'[o] \in Seq(Ids)
                 /\ NoRepeats(recvq'[o])
                 /\ \A x : Has(recvq'[o], x) => Has(q[o], x) \/ (x = d /\ o # Relay!Base)
                 /\ ~Relay!Bound(o) => recvq'[o] = q[o]
      <4>1. CASE o = Relay!Base  BY <2>3, <2>q, <3>2, <4>1
      <4>2. CASE o # Relay!Base
        <5>1. recvq'[o] = Relay!Sent(q, o, d)[o]  BY <3>2, <4>2
        <5>2. recvq'[o] = q[o] \/ (Relay!Bound(o) /\ recvq'[o] = Append(q[o], d))
          BY <2>2, <2>3, <5>1, SentTo
        <5>3. q[o] \in Seq(Ids)  BY <2>3
        <5>4. /\ Append(q[o], d) \in Seq(Ids) /\ NoRepeats(Append(q[o], d))
              /\ \A x : Has(Append(q[o], d), x) => Has(q[o], x) \/ x = d
          BY <2>2, <2>q, <3>3, <5>3, HasAppend
        <5> QED  BY <2>q, <4>2, <5>2, <5>3, <5>4
      <4> QED  BY <4>1, <4>2
    <3>6. RelayTypes'
      <4>1. recvq' = [o \in Relay!Ports |-> recvq'[o]]  BY <3>2
      <4>2. recvq' \in [Relay!Ports -> Seq(Ids)]  BY <3>5, <4>1
      <4> QED  BY <2>4, <2>7, <4>2 DEF RelayTypes
    <3>7. NothingUnbound'
      <4>1. \A o \in Relay!Ports : ~Relay!Bound(o) => q[o] = <<>>
        BY <2>3, <2>5, <3>1 DEF NothingUnbound, Relay!Bound
      <4>2. \A o \in Relay!Ports : ~Relay!Bound(o)' => ~Relay!Bound(o)
        BY <2>4 DEF Relay!Bound
      <4> QED  BY <3>5, <4>1, <4>2 DEF NothingUnbound
    <3>8. \A o \in Relay!Ports, m \in Listeners :
            port'[m] = o => \A x \in seen'[m] : ~Has(recvq'[o], x)
      <4> SUFFICES ASSUME NEW o \in Relay!Ports, NEW m \in Listeners, port'[m] = o,
                          NEW x \in seen'[m], Has(recvq'[o], x)
                   PROVE  FALSE
        OBVIOUS
      <4>1. Has(q[o], x) \/ (x = d /\ o # Relay!Base)  BY <3>5
      <4>2. m # l => x \in seen[m] /\ x # d  BY <2>7, <3>4
      <4>3. m = l => o = Relay!Base /\ (x \in seen[l] \/ x = d)
        BY <2>4, <2>5, <2>7, <3>1
      <4>4. x \in seen[m] => ~Has(q[o], x)  BY <2>4, <2>q DEF Unseen
      <4> QED  BY <3>3, <4>1, <4>2, <4>3, <4>4
    <3>9. \A m \in Listeners : \A x \in seen'[m] : ~Has(recvq'[Relay!Base], x)
      BY <1>p, <2>7, <2>q, <3>3, <3>5 DEF Unseen
    <3>10. \A o \in Relay!Ports \ {Relay!Base} : \A x \in Ids :
             Has(recvq'[Relay!Base], x) => ~Has(recvq'[o], x)
      BY <1>p, <2>q, <3>3, <3>5 DEF Unseen
    <3>11. Unseen'  BY <3>5, <3>8, <3>9, <3>10 DEF Unseen
    <3> QED  BY <2>9, <3>6, <3>7, <3>11
  <2> QED  BY <2>10, <2>11
<1>4. ASSUME NEW l \in Listeners, Relay!Promote(l) PROVE RelayInv'
  <2>1. /\ port' = [port EXCEPT ![l] = Relay!Base] /\ role' = [role EXCEPT ![l] = "hub"]
        /\ recvq' = [recvq EXCEPT ![port[l]] = <<>>] /\ UNCHANGED <<seen, twice>>
        /\ port[l] \in Relay!Ports
    BY <1>4 DEF Relay!Promote, Relay!PromotedPort, OneSocket
  <2>2. recvq[Relay!Base] = <<>> /\ \A m \in Listeners : port[m] # Relay!Base
    BY <1>4 DEF Relay!Promote, Relay!Free, NothingUnbound, Relay!Bound
  <2>3. RelayTypes'  BY <1>p, <2>1, HasNothing DEF RelayTypes
  <2>4. OneSocket'  BY <1>p, <2>1, <2>2 DEF RelayTypes, OneSocket
  <2>5. NothingUnbound'
    BY <1>p, <2>1, <2>2 DEF RelayTypes, NothingUnbound, Relay!Bound, OneSocket
  <2>6. /\ \A o \in Relay!Ports : recvq'[o] = <<>> \/ recvq'[o] = recvq[o]
        /\ recvq'[Relay!Base] = <<>>
    BY <1>p, <2>1, <2>2 DEF RelayTypes
  <2>7. \A m \in Listeners : port'[m] = Relay!Base \/ port'[m] = port[m]
    BY <2>1 DEF RelayTypes
  <2>8. Unseen'  BY <1>p, <2>1, <2>6, <2>7, HasNothing DEF Unseen
  <2> QED  BY <2>1, <2>3, <2>4, <2>5, <2>8 DEF Relay!NoSampleTwice
<1>5. ASSUME NEW l \in Listeners, Relay!Die(l) PROVE RelayInv'
  <2>1. /\ port' = [port EXCEPT ![l] = Relay!Closed] /\ role' = [role EXCEPT ![l] = "none"]
        /\ recvq' = [recvq EXCEPT ![port[l]] = <<>>] /\ UNCHANGED <<seen, twice>>
        /\ port[l] \in Relay!Ports
    BY <1>5 DEF Relay!Die, Relay!Alive, RelayTypes
  <2>3. RelayTypes'  BY <1>p, <2>1, HasNothing DEF RelayTypes
  <2>4. OneSocket'  BY <1>p, <2>1 DEF RelayTypes, OneSocket
  <2>5. NothingUnbound'
    BY <1>p, <2>1 DEF RelayTypes, NothingUnbound, Relay!Bound
  <2>6. \A o \in Relay!Ports : recvq'[o] = <<>> \/ recvq'[o] = recvq[o]
    BY <1>p, <2>1 DEF RelayTypes
  <2>7. \A m \in Listeners : port'[m] = Relay!Closed \/ port'[m] = port[m]
    BY <2>1 DEF RelayTypes
  <2>8. Unseen'  BY <1>p, <2>1, <2>6, <2>7, HasNothing DEF Unseen
  <2> QED  BY <2>1, <2>3, <2>4, <2>5, <2>8 DEF Relay!NoSampleTwice
<1>6. CASE UNCHANGED Relay!vars
  BY <1>6 DEF Relay!vars, RelayTypes, OneSocket, NothingUnbound, Relay!Bound, Unseen,
       Relay!NoSampleTwice
<1> QED  BY <1>1, <1>2, <1>3, <1>4, <1>5, <1>6 DEF Relay!Next

\* No program is handed a sample twice: not through a hub that also follows,
\* not around a takeover, and not by a sample going round (relay.rs drain and
\* poll_promotion).
THEOREM SamplesOnce == ASSUME Relay!PortAssumption PROVE Relay!Spec => []Relay!NoSampleTwice
<1>1. Relay!Init => RelayInv  BY RelayInit
<1>2. RelayInv /\ [Relay!Next]_(Relay!vars) => RelayInv'  BY RelayStep
<1>3. RelayInv => Relay!NoSampleTwice  BY DEF RelayInv
<1> QED  BY <1>1, <1>2, <1>3, PTL DEF Relay!Spec

(***************************************************************************)
(* The stream of a G923.                                                   *)
(***************************************************************************)
\* What the channel, the backlog and the wire hold.
WireTypes ==
  /\ G923!TypeOK /\ chan \in Seq(Seq(Int)) /\ pending \in Seq(Int) /\ ffb \in Int

\* The wheel is left to itself, centred, or the closing stop is known lost.
WireInv == WireTypes /\ G923!NeverLeftPulling

LEMMA LeastOfTwo ==
  ASSUME NEW a \in Int, NEW b \in Int
  PROVE  Min({a, b}) = IF a <= b THEN a ELSE b
<1>1. \E x \in {a, b} : \A y \in {a, b} : x =< y  OBVIOUS
<1>2. PICK m : m = CHOOSE x \in {a, b} : \A y \in {a, b} : x =< y  OBVIOUS
<1>3. m \in {a, b} /\ \A y \in {a, b} : m =< y  BY <1>1, <1>2
<1>4. Min({a, b}) = m  BY <1>2 DEF Min
<1> QED  BY <1>3, <1>4

LEMMA GreatestOfTwo ==
  ASSUME NEW a \in Int, NEW b \in Int
  PROVE  Max({a, b}) = IF a >= b THEN a ELSE b
<1>1. \E x \in {a, b} : \A y \in {a, b} : x >= y  OBVIOUS
<1>2. PICK m : m = CHOOSE x \in {a, b} : \A y \in {a, b} : x >= y  OBVIOUS
<1>3. m \in {a, b} /\ \A y \in {a, b} : m >= y  BY <1>1, <1>2
<1>4. Max({a, b}) = m  BY <1>2 DEF Max
<1> QED  BY <1>3, <1>4

\* What goes on the wire is a word.
LEMMA ClampIs == ASSUME G923!WireAssumption,
  NEW v \in Int PROVE G923!Clamp(v) \in -Half .. Half - 1
<1>1. Half \in Int /\ Half >= 1  BY DEF G923!WireAssumption
<1>2. PICK m : m = Min({v, Half - 1})  OBVIOUS
<1>3. m = IF v <= Half - 1 THEN v ELSE Half - 1
  <2>1. Half - 1 \in Int  BY <1>1
  <2> QED  BY <1>2, <2>1, LeastOfTwo
<1>4. m \in Int /\ m <= Half - 1  BY <1>1, <1>3
<1>5. -Half \in Int  BY <1>1
<1>6. Max({-Half, m}) = IF -Half >= m THEN -Half ELSE m  BY <1>4, <1>5, GreatestOfTwo
<1>7. G923!Clamp(v) = Max({-Half, m})  BY <1>2 DEF G923!Clamp, G923!Max, G923!Min, Max, Min
<1> QED  BY <1>1, <1>4, <1>6, <1>7

LEMMA MixIs ==
  ASSUME G923!WireAssumption, NEW s \in Int, NEW f \in Int
  PROVE  G923!MixToWire(s, f) \in 0 .. (2 * Half - 1)
<1>1. Half \in Int /\ Half >= 1  BY DEF G923!WireAssumption
<1>2. PICK c : c = G923!Clamp(f)  OBVIOUS
<1>3. c \in -Half .. Half - 1  BY <1>2, ClampIs
<1>4. PICK g : g = G923!Signed(c)  OBVIOUS
<1>5. g \in Int  BY <1>1, <1>3, <1>4 DEF G923!Signed
<1>6. s + g \in Int  BY <1>5
<1>7. PICK d : d = G923!Clamp(s + g)  OBVIOUS
<1>8. d \in -Half .. Half - 1  BY <1>6, <1>7, ClampIs
<1>9. G923!MixToWire(s, f) = d + Half  BY <1>2, <1>4, <1>7 DEF G923!MixToWire
<1> QED  BY <1>1, <1>8, <1>9

\* A chunk is of numbers, whatever is padded; what is kept is a backlog.
LEMMA ChunkIs ==
  ASSUME G923!WireAssumption, NEW p \in Seq(Int)
  PROVE  G923!Chunk(p)[NewPerPacket] \in Int
<1>1. NewPerPacket \in Nat /\ NewPerPacket >= 1 /\ Len(p) \in Nat
  BY DEF G923!WireAssumption
<1>2. PICK n : n = Min({Len(p), NewPerPacket})  OBVIOUS
<1>3. n = IF Len(p) <= NewPerPacket THEN Len(p) ELSE NewPerPacket
  BY <1>1, <1>2, LeastOfTwo
<1>4. n \in 0 .. Len(p)  BY <1>1, <1>3
<1>5. G923!Chunk(p)
        = [i \in 1..NewPerPacket |-> IF i <= n THEN p[i] ELSE IF n > 0 THEN p[n] ELSE 0]
  BY <1>2 DEF G923!Chunk, G923!Min, Min
<1>6. G923!Chunk(p)[NewPerPacket]
        = IF NewPerPacket <= n THEN p[NewPerPacket] ELSE IF n > 0 THEN p[n] ELSE 0
  BY <1>1, <1>5
<1>7. \A i \in 1 .. Len(p) : p[i] \in Int  OBVIOUS
<1> QED  BY <1>1, <1>4, <1>6, <1>7

LEMMA RestIs ==
  ASSUME G923!WireAssumption, NEW p \in Seq(Int)
  PROVE  G923!Rest(p) \in Seq(Int) /\ Len(G923!Rest(p)) <= Len(p)
<1>1. NewPerPacket \in Nat /\ Len(p) \in Nat  BY DEF G923!WireAssumption
<1>2. PICK m : m = NewPerPacket + 1  OBVIOUS
<1>3. m \in Int /\ m >= 1 /\ \A i \in m .. Len(p) : p[i] \in Int  BY <1>1, <1>2
<1>4. /\ SubSeq(p, m, Len(p)) \in Seq(Int)
      /\ Len(SubSeq(p, m, Len(p))) = IF m <= Len(p) THEN Len(p) - m + 1 ELSE 0
  BY <1>1, <1>3, SubSeqProperties
<1> QED  BY <1>1, <1>2, <1>3, <1>4 DEF G923!Rest

LEMMA ShedIs ==
  ASSUME G923!WireAssumption, NEW p \in Seq(Int)
  PROVE  G923!Shed(p) \in Seq(Int) /\ Len(G923!Shed(p)) <= MaxPending
<1>1. MaxPending \in Nat /\ Len(p) \in Nat  BY DEF G923!WireAssumption
<1>2. PICK n : n = Min({Len(p), MaxPending})  OBVIOUS
<1>3. n = IF Len(p) <= MaxPending THEN Len(p) ELSE MaxPending  BY <1>1, <1>2, LeastOfTwo
<1>4. PICK m : m = Len(p) - n + 1  OBVIOUS
<1>5. m \in Int /\ m >= 1 /\ \A i \in m .. Len(p) : p[i] \in Int  BY <1>1, <1>3, <1>4
<1>6. /\ SubSeq(p, m, Len(p)) \in Seq(Int)
      /\ Len(SubSeq(p, m, Len(p))) = IF m <= Len(p) THEN Len(p) - m + 1 ELSE 0
  BY <1>1, <1>5, SubSeqProperties
<1>7. G923!Shed(p) = SubSeq(p, m, Len(p))  BY <1>2, <1>4 DEF G923!Shed, G923!Min, Min
<1> QED  BY <1>1, <1>3, <1>4, <1>6, <1>7

LEMMA WireStarts == ASSUME G923!WireAssumption, G923!Init PROVE WireInv
<1>1. Half \in Int /\ Half >= 1 /\ Capacity \in Nat /\ MaxPending \in Nat
  BY DEF G923!WireAssumption
<1>2. ffb \in Int  BY DEF G923!Init, G923!WireAssumption
<1> QED  BY <1>1, <1>2 DEF G923!Init, WireInv, WireTypes, G923!TypeOK,
              G923!NeverLeftPulling, G923!Center

\* The samples of a block and the block behind the others.
LEMMA PushStep == ASSUME G923!WireAssumption, WireInv, G923!Push PROVE WireInv'
<1>1. PICK s \in Samples, n \in 1..NewPerPacket + 1 :
        chan' = IF wpc # "gone" /\ Len(chan) < Capacity
                THEN Append(chan, [i \in 1..n |-> s]) ELSE chan
  BY DEF G923!Push
<1>2. PICK b : b = [i \in 1..n |-> s]  OBVIOUS
<1>3. b \in Seq(Int)
  <2>1. s \in Int /\ n \in Nat  BY DEF G923!WireAssumption
  <2> QED  BY <1>2, <2>1
<1>4. chan \in Seq(Seq(Int)) /\ Len(chan) <= Capacity /\ Capacity \in Nat
  BY DEF WireInv, WireTypes, G923!TypeOK, G923!WireAssumption
<1>5. chan' \in Seq(Seq(Int)) /\ Len(chan') <= Capacity
  <2>1. CASE wpc # "gone" /\ Len(chan) < Capacity
    <3>1. chan' = Append(chan, b)  BY <1>1, <1>2, <2>1
    <3> QED  BY <1>3, <1>4, <2>1, <3>1
  <2>2. CASE ~(wpc # "gone" /\ Len(chan) < Capacity)  BY <1>1, <1>4, <2>2
  <2> QED  BY <2>1, <2>2
<1> QED  BY <1>5 DEF WireInv, WireTypes, G923!TypeOK, G923!NeverLeftPulling, G923!Push,
              G923!Center

LEMMA SentStep == ASSUME G923!WireAssumption, WireInv, G923!StopSent PROVE WireInv'
<1>1. PICK b : b = G923!Stop  OBVIOUS
<1>2. b \in Seq(Int)  BY <1>1 DEF G923!Stop
<1>3. chan \in Seq(Seq(Int)) /\ Len(chan) <= Capacity /\ Capacity \in Nat
  BY DEF WireInv, WireTypes, G923!TypeOK, G923!WireAssumption
<1>4. chan' \in Seq(Seq(Int)) /\ Len(chan') <= Capacity
  <2>1. CASE wpc = "gone"  BY <1>3, <2>1 DEF G923!StopSent
  <2>2. CASE wpc # "gone"
    <3>1. chan' = Append(chan, b) /\ Len(chan) < Capacity  BY <1>1, <2>2 DEF G923!StopSent
    <3> QED  BY <1>2, <1>3, <3>1
  <2> QED  BY <2>1, <2>2
<1> QED  BY <1>4 DEF WireInv, WireTypes, G923!TypeOK, G923!NeverLeftPulling,
              G923!StopSent, G923!Center

LEMMA ReceiveStep == ASSUME G923!WireAssumption, WireInv, G923!Receive PROVE WireInv'
<1>1. chan \in Seq(Seq(Int)) /\ Len(chan) <= Capacity /\ chan # <<>> /\ chan' = Tail(chan)
      /\ pending \in Seq(Int) /\ Len(pending) <= MaxPending
  BY DEF WireInv, WireTypes, G923!TypeOK, G923!Receive
<1>2. Head(chan) \in Seq(Int) /\ chan' \in Seq(Seq(Int)) /\ Len(chan') = Len(chan) - 1
  BY <1>1, HeadTailProperties
<1>3. Len(chan') <= Capacity
  <2>1. Len(chan) \in Nat /\ Capacity \in Nat  BY <1>1 DEF G923!WireAssumption
  <2> QED  BY <1>1, <1>2, <2>1
<1>4. PICK q : q = pending \o Head(chan)  OBVIOUS
<1>5. q \in Seq(Int)  BY <1>1, <1>2, <1>4
<1>6. G923!Shed(q) \in Seq(Int) /\ Len(G923!Shed(q)) <= MaxPending  BY <1>5, ShedIs
<1>7. pending' = pending \/ pending' = G923!Shed(q)  BY <1>4 DEF G923!Receive
<1>8. pending' \in Seq(Int) /\ Len(pending') <= MaxPending  BY <1>1, <1>6, <1>7
<1> QED
  BY <1>2, <1>3, <1>8 DEF WireInv, WireTypes, G923!TypeOK, G923!NeverLeftPulling,
       G923!Receive, G923!Center

\* One tick: every packet is of words, and the writer is not gone after it.
LEMMA TickStep == ASSUME G923!WireAssumption, WireInv, G923!Tick PROVE WireInv'
<1>1. pending \in Seq(Int) /\ Len(pending) <= MaxPending /\ ffb \in Int
        /\ cur \in 0..(2 * Half - 1)
      /\ engine \in {"native", "stream"} /\ Half \in Nat /\ Half >= 1
      /\ MaxPending \in Nat
  BY DEF WireInv, WireTypes, G923!TypeOK, G923!WireAssumption
<1>2. PICK w : w = G923!MixToWire(G923!Chunk(pending)[NewPerPacket], ffb)  OBVIOUS
<1>3. w \in 0..(2 * Half - 1)  BY <1>1, <1>2, ChunkIs, MixIs
<1>4. pending' = G923!Rest(pending)  BY DEF G923!Tick
<1>5. pending' \in Seq(Int) /\ Len(pending') <= MaxPending
  <2>1. G923!Rest(pending) \in Seq(Int) /\ Len(G923!Rest(pending)) <= Len(pending)
    BY <1>1, RestIs
  <2>2. Len(G923!Rest(pending)) \in Nat /\ Len(pending) \in Nat  BY <1>1, <2>1
  <2> QED  BY <1>1, <1>4, <2>1, <2>2
<1>6. G923!Center \in 0..(2 * Half - 1)  BY <1>1 DEF G923!Center
<1>7. /\ wpc' \in {"wait", "fatal"} /\ engine' \in {"native", "stream"}
      /\ cur' = cur \/ cur' = w \/ cur' = G923!Center
  BY <1>1, <1>2 DEF G923!Tick, G923!Fatal
<1>8. UNCHANGED <<caller, chan, ffb>>  BY DEF G923!Tick
<1> QED
  BY <1>1, <1>3, <1>5, <1>6, <1>7, <1>8 DEF WireInv, WireTypes, G923!TypeOK,
       G923!NeverLeftPulling

LEMMA WireSteps == ASSUME G923!WireAssumption, WireInv,
  [G923!Next]_(G923!vars) PROVE WireInv'
<1>1. Half \in Nat /\ Half >= 1 /\ Capacity \in Nat /\ MaxPending \in Nat
        /\ Forces \subseteq Int
  BY DEF G923!WireAssumption
<1>2. CASE G923!Open
  <2>1. G923!Center \in 0..(2 * Half - 1)  BY <1>1 DEF G923!Center
  <2>2. chan' = <<>> /\ pending' = <<>>  BY <1>2 DEF G923!Open
  <2>3. chan' \in Seq(Seq(Int)) /\ Len(chan') <= Capacity  BY <1>1, <2>2
  <2>4. pending' \in Seq(Int) /\ Len(pending') <= MaxPending  BY <1>1, <2>2
  <2> QED  BY <1>2, <2>1, <2>3, <2>4 DEF WireInv, WireTypes, G923!TypeOK,
                G923!NeverLeftPulling, G923!Open
<1>3. CASE G923!StopCall \/ G923!Joined \/ G923!Wake
  BY <1>3 DEF WireInv, WireTypes, G923!TypeOK, G923!NeverLeftPulling, G923!StopCall,
       G923!Joined, G923!Wake, G923!Center
<1>4. CASE G923!Exit \/ G923!FatalStop
  BY <1>4 DEF WireInv, WireTypes, G923!TypeOK, G923!NeverLeftPulling, G923!Exit,
       G923!FatalStop, G923!StopWritten,
              G923!StopLost, G923!Center
<1>5. CASE G923!GameForce
  BY <1>1, <1>5 DEF WireInv, WireTypes, G923!TypeOK, G923!NeverLeftPulling,
       G923!GameForce, G923!Center
<1>6. CASE UNCHANGED G923!vars
  BY <1>6 DEF WireInv, WireTypes, G923!TypeOK, G923!NeverLeftPulling, G923!vars, G923!Center
<1> QED
  BY <1>2, <1>3, <1>4, <1>5, <1>6, PushStep, SentStep, ReceiveStep, TickStep
     DEF G923!Next, G923!Writer, G923!Stopping

\* g923.rs, for any word, samples, forces and bounds of the channel and of the
\* backlog, with any calls failing: once the writer thread is gone the wheel is
\* on its own engine or was told to stay centred, unless the closing stop itself
\* failed; every packet carries words, and the backlog is bounded.
THEOREM NotLeftPulling ==
  ASSUME G923!WireAssumption PROVE G923!Spec => [](G923!TypeOK /\ G923!NeverLeftPulling)
<1>1. G923!Init => WireInv  BY WireStarts
<1>2. WireInv /\ [G923!Next]_(G923!vars) => WireInv'  BY WireSteps
<1>3. WireInv => G923!TypeOK /\ G923!NeverLeftPulling  BY DEF WireInv, WireTypes
<1> QED  BY <1>1, <1>2, <1>3, PTL DEF G923!Spec

(***************************************************************************)
(* The decoders and the rev limiter.                                       *)
(***************************************************************************)
\* A sample is within the redline it comes with, given or learned.
WithinRedline ==
  /\ tel.rpm \in Nat /\ tel.max \in Nat /\ tel.rpm <= tel.max
  /\ learned \in [{"f1", "outgauge"} -> Nat]

\* While the dwell counts, the engine was drawn at the redline the limiter
\* knows, and has not risen for as many blocks.
Dwelling ==
  /\ limMax \in Nat /\ drawn \in Nat /\ dwell \in 0..Dwell /\ steady \in 0..Dwell
  /\ dwell > 0 => drawn >= limMax
  /\ dwell <= steady + 1
  /\ engaged => dwell >= Dwell

HeldInv == WithinRedline /\ Dwelling

LEMMA HighestOf ==
  ASSUME NEW a \in Nat, NEW b \in Nat
  PROVE  Max({a, b}) \in Nat /\ Max({a, b}) >= b
<1>1. \E x \in {a, b} : \A y \in {a, b} : x >= y  OBVIOUS
<1>2. PICK m : m = CHOOSE x \in {a, b} : \A y \in {a, b} : x >= y  OBVIOUS
<1>3. m \in {a, b} /\ \A y \in {a, b} : m >= y  BY <1>1, <1>2
<1>4. Max({a, b}) = m  BY <1>2 DEF Max
<1> QED  BY <1>3, <1>4

LEMMA CountedUpTo ==
  ASSUME NEW a \in Nat, NEW b \in Nat
  PROVE  Min({a, b}) = IF a <= b THEN a ELSE b
<1>1. \E x \in {a, b} : \A y \in {a, b} : x =< y  OBVIOUS
<1>2. PICK m : m = CHOOSE x \in {a, b} : \A y \in {a, b} : x =< y  OBVIOUS
<1>3. m \in {a, b} /\ \A y \in {a, b} : m =< y  BY <1>1, <1>2
<1>4. Min({a, b}) = m  BY <1>2 DEF Min
<1> QED  BY <1>3, <1>4

LEMMA HeldStarts == ASSUME Haptics!RevsAssumption, Haptics!Init PROVE HeldInv
BY DEF Haptics!Init, HeldInv, WithinRedline, Dwelling, Haptics!RevsAssumption, Haptics!Rest

\* A redline learned is at least every speed it was learned from.
LEMMA LearnedIs ==
  ASSUME learned \in [{"f1", "outgauge"} -> Nat], NEW p, p.rpm \in Nat,
         p.format \in {"f1", "outgauge"}
  PROVE  /\ Haptics!Learned(p) \in [{"f1", "outgauge"} -> Nat]
         /\ Haptics!Learned(p)[p.format] >= p.rpm
<1>1. PICK g : g = p.format  OBVIOUS
<1>2. PICK r : r = p.rpm  OBVIOUS
<1>3. PICK m : m = Max({learned[g], r})  OBVIOUS
<1>4. g \in {"f1", "outgauge"} /\ r \in Nat  BY <1>1, <1>2
<1>5. m \in Nat /\ m >= r  BY <1>3, <1>4, HighestOf
<1>6. Haptics!Learned(p) = [learned EXCEPT ![g] = m]
  BY <1>1, <1>2, <1>3 DEF Haptics!Learned, Haptics!Max, Max
<1>7. [learned EXCEPT ![g] = m] \in [{"f1", "outgauge"} -> Nat]
      /\ [learned EXCEPT ![g] = m][g] = m
  BY <1>4, <1>5
<1> QED  BY <1>1, <1>2, <1>5, <1>6, <1>7

\* What a decoder makes of a packet it can use.
LEMMA ParsedIs ==
  ASSUME Haptics!RevsAssumption, learned \in [{"f1", "outgauge"} -> Nat],
         NEW p, p.format \in Haptics!Formats, p.rpm \in Revs, p.max \in {0, Redline},
         Haptics!Usable(p), p.format = "pcars" => p.rpm <= Redline
  PROVE  Haptics!Parsed(p).rpm \in Nat /\ Haptics!Parsed(p).max \in Nat
           /\ Haptics!Parsed(p).rpm <= Haptics!Parsed(p).max
<1>1. p.rpm \in Nat /\ Redline \in Nat /\ Ceiling \in Nat  BY DEF Haptics!RevsAssumption
<1>2. CASE p.format \in {"classic", "wrc", "pcars"}
  <2>1. Haptics!Parsed(p) = [Haptics!Rest EXCEPT !.rpm = p.rpm, !.max = p.max]
    BY <1>2, Zenon DEF Haptics!Parsed
  <2>2. Haptics!Parsed(p).rpm = p.rpm /\ Haptics!Parsed(p).max = p.max
    BY <2>1 DEF Haptics!Rest
  <2>3. p.max = Redline  BY <1>1, <1>2 DEF Haptics!Usable
  <2>4. p.rpm <= Redline
    <3>1. CASE p.format = "pcars"  BY <3>1
    <3>2. CASE p.format # "pcars"  BY <1>1, <3>2 DEF Haptics!Usable, Haptics!RevsAssumption
    <3> QED  BY <3>1, <3>2
  <2> QED  BY <1>1, <2>2, <2>3, <2>4
<1>3. CASE p.format = "f1"
  <2>1. Haptics!Parsed(p) = [Haptics!Rest EXCEPT !.rpm = p.rpm, !.max
          = Haptics!Learned(p)["f1"]]
    <3>1. p.format \notin {"classic", "wrc", "pcars"} /\ p.format # "outgauge"  BY <1>3
    <3> QED  BY <1>3, <3>1 DEF Haptics!Parsed
  <2>2. PICK m : m = Haptics!Learned(p)["f1"]  OBVIOUS
  <2>3. m \in Nat /\ m >= p.rpm  BY <1>1, <1>3, <2>2, LearnedIs
  <2>4. Haptics!Parsed(p).rpm = p.rpm /\ Haptics!Parsed(p).max = m
    BY <2>1, <2>2 DEF Haptics!Rest
  <2> QED  BY <1>1, <2>3, <2>4
<1>4. CASE p.format = "outgauge"
  <2>1. Haptics!Parsed(p) = [Haptics!Rest EXCEPT !.rpm = p.rpm, !.max
          = Haptics!Learned(p)["outgauge"],
                                 !.gear = p.gear, !.lamp = p.lamp]
    <3>1. p.format \notin {"classic", "wrc", "pcars"} /\ p.format # "f1"  BY <1>4
    <3> QED  BY <1>4, <3>1 DEF Haptics!Parsed
  <2>2. PICK m : m = Haptics!Learned(p)["outgauge"]  OBVIOUS
  <2>3. m \in Nat /\ m >= p.rpm  BY <1>1, <1>4, <2>2, LearnedIs
  <2>4. Haptics!Parsed(p).rpm = p.rpm /\ Haptics!Parsed(p).max = m
    BY <2>1, <2>2 DEF Haptics!Rest
  <2> QED  BY <1>1, <2>3, <2>4
<1> QED  BY <1>2, <1>3, <1>4 DEF Haptics!Formats

LEMMA HeardStep ==
  ASSUME HeldInv, NEW t, NEW l, t.rpm \in Nat, t.max \in Nat, t.rpm <= t.max,
         l \in [{"f1", "outgauge"} -> Nat], Haptics!Heard(t, l)
  PROVE  HeldInv'
BY DEF HeldInv, WithinRedline, Dwelling, Haptics!Heard, Haptics!effects

LEMMA DatagramStep == ASSUME Haptics!RevsAssumption, HeldInv,
  Haptics!Datagram PROVE HeldInv'
<1>1. PICK f \in Haptics!Formats, r \in Revs, m \in {0, Redline}, gr \in {0, 1},
           b \in Haptics!Lights :
        LET p == [format |-> f, rpm |-> r, max |-> m, gear |-> gr, lamp |-> b]
        IN /\ f = "pcars" => r <= Redline
           /\ IF ~Haptics!Usable(p) THEN UNCHANGED Haptics!vars
              ELSE Haptics!Heard(Haptics!Parsed(p),
                     IF f \in {"f1", "outgauge"} THEN Haptics!Learned(p) ELSE learned)
  BY DEF Haptics!Datagram
<1>2. PICK p : p = [format |-> f, rpm |-> r, max |-> m, gear |-> gr, lamp |-> b]  OBVIOUS
<1>3. p.format = f /\ p.rpm = r /\ p.max = m  BY <1>2
<1>4. CASE ~Haptics!Usable(p)
  <2>1. UNCHANGED Haptics!vars  BY <1>1, <1>2, <1>4
  <2> QED  BY <2>1 DEF Haptics!vars, HeldInv, WithinRedline, Dwelling
<1>5. CASE Haptics!Usable(p)
  <2>1. PICK l : l
          = IF f \in {"f1", "outgauge"} THEN Haptics!Learned(p) ELSE learned  OBVIOUS
  <2>2. Haptics!Heard(Haptics!Parsed(p), l)  BY <1>1, <1>2, <1>5, <2>1
  <2>3. learned \in [{"f1", "outgauge"} -> Nat]  BY DEF HeldInv, WithinRedline
  <2>4. l \in [{"f1", "outgauge"} -> Nat]
    <3>1. p.rpm \in Nat  BY <1>3 DEF Haptics!RevsAssumption
    <3> QED  BY <1>3, <2>1, <2>3, <3>1, LearnedIs
  <2>5. /\ Haptics!Parsed(p).rpm \in Nat /\ Haptics!Parsed(p).max \in Nat
        /\ Haptics!Parsed(p).rpm <= Haptics!Parsed(p).max
    BY <1>1, <1>2, <1>3, <1>5, <2>3, ParsedIs
  <2>6. PICK t : t = Haptics!Parsed(p)  OBVIOUS
  <2> QED  BY <2>2, <2>4, <2>5, <2>6, HeardStep
<1> QED  BY <1>4, <1>5

LEMMA RelayedStep == ASSUME Haptics!RevsAssumption, HeldInv,
  Haptics!RelaySample PROVE HeldInv'
<1>1. PICK r \in 0..Redline, gr \in {0, 1}, a \in BOOLEAN :
        Haptics!Heard([rpm |-> r, max |-> Redline, gear |-> gr, lamp |-> "none", air |-> a],
                      learned)
  BY DEF Haptics!RelaySample
<1>2. PICK t : t = [rpm |-> r, max |-> Redline, gear |-> gr, lamp |-> "none", air |-> a]
  OBVIOUS
<1>3. t.rpm \in Nat /\ t.max \in Nat /\ t.rpm <= t.max  BY <1>2 DEF Haptics!RevsAssumption
<1>4. learned \in [{"f1", "outgauge"} -> Nat]  BY DEF HeldInv, WithinRedline
<1> QED  BY <1>1, <1>2, <1>3, <1>4, HeardStep

\* The dwell counts only blocks drawn at a redline that has not moved.
LEMMA RenderStep == ASSUME Haptics!RevsAssumption, HeldInv, Haptics!Render PROVE HeldInv'
<1>1. /\ tel.rpm \in Nat /\ tel.max \in Nat /\ tel.rpm <= tel.max
      /\ limMax \in Nat /\ drawn \in Nat /\ dwell \in Nat /\ steady \in Nat
      /\ dwell <= Dwell /\ steady <= Dwell /\ Dwell \in Nat
      /\ dwell > 0 => drawn >= limMax
      /\ dwell <= steady + 1
  BY DEF HeldInv, WithinRedline, Dwelling, Haptics!RevsAssumption
<1>2. /\ limMax' = tel.max /\ drawn' = tel.rpm /\ tel' = tel /\ learned' = learned
      /\ dwell' = IF Haptics!AtLimit /\ Haptics!Settled THEN Min({dwell + 1, Dwell}) ELSE 0
      /\ engaged' = (dwell' >= Dwell)
      /\ steady' = IF tel.rpm > drawn THEN 0 ELSE Min({steady + 1, Dwell})
  BY DEF Haptics!Render, Haptics!LimiterUpdated, Haptics!Min, Min
<1>3. dwell + 1 \in Nat /\ steady + 1 \in Nat  BY <1>1
<1>4. Min({dwell + 1, Dwell}) = IF dwell + 1 <= Dwell THEN dwell + 1 ELSE Dwell
  BY <1>1, <1>3, CountedUpTo
<1>5. Min({steady + 1, Dwell}) = IF steady + 1 <= Dwell THEN steady + 1 ELSE Dwell
  BY <1>1, <1>3, CountedUpTo
<1>6. steady' \in 0..Dwell  BY <1>1, <1>2, <1>5
<1>7. CASE Haptics!AtLimit /\ Haptics!Settled
  <2>1. tel.rpm >= tel.max /\ tel.max = limMax  BY <1>7 DEF Haptics!AtLimit, Haptics!Settled
  <2>2. dwell' \in 0..Dwell /\ dwell' <= dwell + 1  BY <1>1, <1>2, <1>4, <1>7
  <2>3. dwell' <= steady' + 1
    <3>1. CASE dwell = 0
      <4>1. PICK k : k = IF tel.rpm > drawn THEN 0 ELSE Min({steady + 1, Dwell})  OBVIOUS
      <4>2. k \in Int /\ k >= 0  BY <1>1, <1>5, <4>1
      <4>3. dwell' \in Int /\ dwell' <= 1  BY <1>1, <2>2, <3>1
      <4>4. dwell' <= k + 1  BY <4>2, <4>3
      <4> QED  BY <1>2, <4>1, <4>4
    <3>2. CASE dwell > 0
      <4>1. ~(tel.rpm > drawn)  BY <1>1, <2>1, <3>2
      <4>2. steady' = IF steady + 1 <= Dwell THEN steady + 1 ELSE Dwell
        BY <1>2, <1>5, <4>1
      <4> QED  BY <1>1, <2>2, <4>2
    <3> QED  BY <1>1, <3>1, <3>2
  <2>4. drawn' >= limMax'  BY <1>2, <2>1
  <2>5. engaged' => dwell' >= Dwell  BY <1>2
  <2> QED  BY <1>1, <1>2, <1>6, <2>2, <2>3, <2>4, <2>5 DEF HeldInv, WithinRedline, Dwelling
<1>8. CASE ~(Haptics!AtLimit /\ Haptics!Settled)
  <2>1. dwell' = 0  BY <1>2, <1>8
  <2>2. engaged' => dwell' >= Dwell  BY <1>2
  <2> QED  BY <1>1, <1>2, <1>6, <2>1, <2>2 DEF HeldInv, WithinRedline, Dwelling
<1> QED  BY <1>7, <1>8

LEMMA HeldSteps == ASSUME Haptics!RevsAssumption, HeldInv,
  [Haptics!Next]_(Haptics!vars) PROVE HeldInv'
<1>1. CASE Haptics!TearDown
  BY <1>1 DEF Haptics!TearDown, HeldInv, WithinRedline, Dwelling,
       Haptics!RevsAssumption, Haptics!Rest
<1>2. CASE UNCHANGED Haptics!vars
  BY <1>2 DEF Haptics!vars, HeldInv, WithinRedline, Dwelling
<1> QED  BY <1>1, <1>2, DatagramStep, RelayedStep, RenderStep DEF Haptics!Next

\* effects.rs RevLimiter, over every sequence of datagrams of the five formats,
\* relayed samples, changes of game and blocks: the limiter cuts only once the
\* engine has not climbed for the dwell, also when the redline is learned from
\* the climb itself.
THEOREM CutsOnlyHeld ==
  ASSUME Haptics!RevsAssumption PROVE Haptics!Spec => []Haptics!LimiterMeansHeld
<1>1. Haptics!Init => HeldInv  BY HeldStarts
<1>2. HeldInv /\ [Haptics!Next]_(Haptics!vars) => HeldInv'  BY HeldSteps
<1>3. HeldInv => Haptics!LimiterMeansHeld
  <2> SUFFICES ASSUME HeldInv, engaged PROVE steady >= Dwell - 1
    BY DEF Haptics!LimiterMeansHeld
  <2>1. dwell \in Int /\ steady \in Int /\ Dwell \in Int
    BY DEF HeldInv, Dwelling, Haptics!RevsAssumption
  <2> QED  BY <2>1 DEF HeldInv, Dwelling
<1> QED  BY <1>1, <1>2, <1>3, PTL DEF Haptics!Spec
=============================================================================
