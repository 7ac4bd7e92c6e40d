------------------------------- MODULE TfSim -------------------------------
(***************************************************************************)
(* logi-tf-sim: the daemon that turns game telemetry into haptics          *)
(* (daemon.rs), the test sweep of the apps (sweep.rs), and what they share *)
(* on one wheel: the streaming lease (lease.rs), the session markers of    *)
(* the launcher (native_session.rs) and the rev strip (leds.rs).           *)
(*                                                                         *)
(* The daemon is one thread.  Its loop is cut where another program can    *)
(* see the difference: after the sockets were drained, and between taking, *)
(* using and giving back the lease.  Time is counted in ticks of the loop, *)
(* ages are capped where the code compares them.                           *)
(***************************************************************************)
EXTENDS Naturals, FiniteSetsExt

CONSTANTS Kinds,        \* which wheel may be attached: "dd", "g923"
          Games,        \* ids the decoders report
          Quiet,        \* games whose effective intensity is zero
          Disabled,     \* games switched off in the configuration
          Native,       \* games whose own TrueForce reaches a direct drive wheel
          Marked,       \* games the launcher may leave a session marker for
          LedsOn,       \* configuration key leds
          Lockable,     \* the runtime directory can hold a lock file
          Silence,      \* SILENCE_TIMEOUT_MS
          Standby,      \* ZERO_FORCE_STANDBY_MS
          Precedence,   \* CAPTURED_PRECEDENCE_MS
          MaxGen,       \* MAX_GEN_MS
          Retry,        \* OPEN_RETRY
          MaxDt,        \* bound of the model: ticks one iteration may take
          Faults        \* bound of the model: whether a crash may happen

Programs == {"daemon", "sweep"}
Captured == "captured"      \* CAPTURED_GAME
None     == "none"

ASSUME SimAssumption ==
  /\ Kinds \subseteq {"dd", "g923"} /\ LedsOn \in BOOLEAN
  /\ Lockable \in BOOLEAN /\ Faults \in BOOLEAN
  /\ Quiet \cup Disabled \cup Native \cup Marked \subseteq Games
  /\ Captured \notin Games /\ None \notin Games
  /\ Silence \in Nat \ {0} /\ Standby \in Nat \ {0} /\ Precedence \in Nat \ {0}
  /\ MaxGen \in Nat \ {0} /\ Retry \in Nat \ {0} /\ MaxDt \in Nat \ {0}

VARIABLES
  kind,      \* the wheel on the desk
  pc,        \* where the daemon is in its loop
  stop,      \* STOP, set by the signal handler
  input,     \* what the sockets held: captured samples, newest telemetry
  active,    \* the daemon's Option<Active>
  opener,    \* for whom a stream is being opened
  retry,     \* ticks until next_open_attempt
  spc,       \* where the sweep program is
  holder,    \* who holds the flock of the wheel's lease
  markers,   \* native.<id> files in the runtime directory
  \* what the wheel sees
  feeding,   \* programs whose stream puts sample packets on the endpoint
  strip,     \* what the rev strip shows: its idle pattern or our level
  crashed    \* history: a daemon died and left the strip lit

vars == <<kind, pc, stop, input, active, opener, retry, spc, holder, markers,
          feeding, strip, crashed>>

NoInput == [cap |-> FALSE, tel |-> None, force |-> FALSE]
Inputs  == {NoInput, [NoInput EXCEPT !.cap = TRUE]}
            \cup [cap : BOOLEAN, tel : Games, force : BOOLEAN]

(***************************************************************************)
(* The session of a wheel.  key is the lease it asks for: a lights-only    *)
(* session has the empty key, which is nobody's wheel.                     *)
(***************************************************************************)
Session(g, f, s, l) ==
  [game |-> g, force |-> f, stream |-> s, lease |-> s, leds |-> l,
   key |-> IF s THEN "wheel" ELSE "", parked |-> FALSE, zero |-> 0,
   tel |-> 0, gen |-> 0, cap |-> IF g = Captured THEN 0 ELSE Precedence]

NoSession == [game |-> None]

LightsOnlyKeyed(g, f) == [Session(g, f, FALSE, TRUE) EXCEPT !.key = "wheel"]

LightsOnly(g, f) == Session(g, f, FALSE, TRUE)

Elapse(a, dt) ==
  IF a = NoSession THEN NoSession
  ELSE [a EXCEPT !.tel = Min({@ + dt, Silence}),
                 !.cap = Min({@ + dt, Precedence}),
                 !.gen = Min({@ + dt, MaxGen})]

(***************************************************************************)
(* lease.rs.  A key nobody contests, or a directory that cannot lock, is   *)
(* always granted; only the wheel's own lock file is exclusive.            *)
(***************************************************************************)
Grants(k)     == k # "wheel" \/ ~Lockable \/ holder = None
Acquired(p, k) == IF k = "wheel" /\ Lockable THEN p ELSE holder
Released(p)   == IF holder = p THEN None ELSE holder

(***************************************************************************)
(* The rules that decide whether a game gets a stream.                     *)
(***************************************************************************)
WantsHaptics(g) == g \notin Quiet

NativeHere(g) == g \in markers \/ (kind = "dd" /\ g \in Native)

CapturedWanted ==
  /\ markers = {}
  /\ input.tel = None \/ ~NativeHere(input.tel)

\* other_owner: logi-rpm-bridge comes and goes, so each look is a new answer.
LightsFree == IF LedsOn THEN BOOLEAN ELSE {FALSE}

\* push: samples reach the wheel; a G923 also feeds without any.
Fed(p)   == feeding \cup {p}
Unfed(p) == feeding \ {p}

\* WheelStream::standby: only the direct drive path has something to stop.
ParkedStill == feeding

Parked == IF kind = "dd" THEN Unfed("daemon") ELSE feeding

(***************************************************************************)
(* The daemon's loop.                                                      *)
(***************************************************************************)
Init ==
  /\ kind \in Kinds /\ pc = "drain" /\ stop = FALSE /\ input = NoInput
  /\ active = NoSession /\ opener = None /\ retry = 0 /\ spc = "off"
  /\ holder = None /\ markers = {}
  /\ feeding = {} /\ strip = "idle" /\ crashed = FALSE

others == <<kind, stop, spc, markers, crashed>>

\* Poll the sockets and keep the newest telemetry that parsed.
Drain ==
  /\ pc = "drain" /\ ~stop
  /\ \E dt \in 0..MaxDt, i \in Inputs :
       /\ input' = i
       /\ active' = Elapse(active, dt)
       /\ retry' = IF dt > retry THEN 0 ELSE retry - dt
  /\ pc' = "telemetry"
  /\ UNCHANGED <<others, opener, holder, feeding, strip>>

Useless == input.tel = None \/ input.tel \in Disabled

\* A session exists: it follows the newest sample, whichever game sent it.
Refresh ==
  /\ pc = "telemetry"
  /\ Useless \/ active # NoSession \/ retry > 0
  /\ active' = IF Useless \/ active = NoSession THEN active
               ELSE [active EXCEPT !.game = input.tel, !.force = input.force,
                                   !.tel = 0]
  /\ pc' = "captured"
  /\ UNCHANGED <<others, input, opener, retry, holder, feeding, strip>>

MayOpen == pc = "telemetry" /\ ~Useless /\ active = NoSession /\ retry = 0

\* Haptics off, or the game drives the wheel itself: rev display only.
OpenLights ==
  /\ MayOpen /\ TRUE \in LightsFree
  /\ ~WantsHaptics(input.tel) \/ NativeHere(input.tel)
  /\ \/ active' = LightsOnly(input.tel, input.force) /\ UNCHANGED retry
     \/ retry' = Retry /\ UNCHANGED active      \* no rev display found
  /\ pc' = "captured"
  /\ UNCHANGED <<others, input, opener, holder, feeding, strip>>

\* A native title with nothing to light: nothing to do for it.
LeaveNative ==
  /\ MayOpen /\ FALSE \in LightsFree /\ NativeHere(input.tel)
  /\ retry' = Retry /\ pc' = "captured"
  /\ UNCHANGED <<others, input, active, opener, holder, feeding, strip>>

\* Everything else opens the stream.
StartOpen ==
  /\ MayOpen /\ ~NativeHere(input.tel)
  /\ WantsHaptics(input.tel) \/ FALSE \in LightsFree
  /\ opener' = input.tel /\ pc' = "open"
  /\ UNCHANGED <<others, input, active, retry, holder, feeding, strip>>

Resumption == IF opener = Captured THEN "watchdog" ELSE "captured"

\* open_g923 / open_dd: refuse, be refused the lease, or take it.
TakeForOpen ==
  /\ pc = "open"
  /\ \/ /\ kind = "g923" /\ opener # Captured
        /\ TRUE \in LightsFree                                 \* NoHaptics
        /\ \/ active' = LightsOnly(opener, input.force) /\ UNCHANGED retry
           \/ retry' = Retry /\ UNCHANGED active
        /\ pc' = Resumption /\ opener' = None /\ UNCHANGED holder
     \/ /\ kind = "g923" \/ ~Grants("wheel")                   \* NoHaptics, Busy
        /\ retry' = Retry /\ pc' = Resumption /\ opener' = None
        /\ UNCHANGED <<active, holder>>
     \/ /\ Grants("wheel") /\ holder' = Acquired("daemon", "wheel")
        /\ pc' = "opening" /\ UNCHANGED <<active, retry, opener>>
  /\ UNCHANGED <<others, input, feeding, strip>>

\* With the lease held, the stream opens or the lease goes back.
OpenStream ==
  /\ pc = "opening"
  /\ \/ /\ \E lights \in LightsFree :
             active' = Session(opener, input.force /\ opener # Captured, TRUE,
                               lights /\ opener # Captured)
        /\ feeding' = IF kind = "g923" THEN Fed("daemon") ELSE feeding
        /\ UNCHANGED <<holder, retry>>
     \/ /\ holder' = Released("daemon") /\ retry' = Retry
        /\ UNCHANGED <<active, feeding>>
  /\ pc' = Resumption /\ opener' = None
  /\ UNCHANGED <<others, input, strip>>

(***************************************************************************)
(* Captured TrueForce: the game's own samples, pushed as they are.         *)
(***************************************************************************)
Touched == [active EXCEPT !.tel = 0, !.gen = 0, !.cap = 0]

CapturedIdle ==
  /\ pc = "captured"
  /\ ~input.cap \/ (active = NoSession /\ (retry > 0 \/ ~CapturedWanted))
  /\ pc' = "watchdog"
  /\ UNCHANGED <<others, input, active, opener, retry, holder, feeding, strip>>

CapturedOpen ==
  /\ pc = "captured" /\ input.cap /\ active = NoSession /\ retry = 0
  /\ CapturedWanted
  /\ opener' = Captured /\ pc' = "open"
  /\ UNCHANGED <<others, input, active, retry, holder, feeding, strip>>

CapturedPush ==
  /\ pc = "captured" /\ input.cap /\ active # NoSession
  /\ \/ /\ active.lease /\ active' = Touched /\ UNCHANGED holder
        /\ \/ feeding' = IF active.stream THEN Fed("daemon") ELSE feeding
           \/ UNCHANGED feeding                        \* a failure is logged
     \/ /\ ~active.lease /\ Grants(active.key)         \* and resume, and push
        /\ holder' = Acquired("daemon", active.key)
        /\ active' = [Touched EXCEPT !.lease = TRUE, !.parked = FALSE,
                                     !.zero = 0]
        /\ feeding' = IF active.stream THEN Fed("daemon") ELSE feeding
     \/ /\ ~active.lease /\ ~Grants(active.key)        \* Busy: dropped
        /\ active' = Touched /\ UNCHANGED <<holder, feeding>>
  /\ pc' = "watchdog"
  /\ UNCHANGED <<others, input, opener, retry, strip>>

(***************************************************************************)
(* Watchdog and generation.                                                *)
(***************************************************************************)
HasPrecedence == active.cap < Precedence

\* The rev display rides the same telemetry.
Lit == IF active.leds THEN "rev" ELSE strip

Silent == ~active.force \/ active.game = Captured \/ ~WantsHaptics(active.game)

Nothing ==
  /\ pc = "watchdog" /\ active = NoSession
  /\ pc' = "drain" /\ input' = NoInput
  /\ UNCHANGED <<others, active, opener, retry, holder, feeding, strip>>

Yield ==
  /\ pc = "watchdog" /\ active # NoSession /\ HasPrecedence
  /\ pc' = "drain" /\ input' = NoInput
  /\ UNCHANGED <<others, active, opener, retry, holder, feeding, strip>>

TelemetryDeadUnlessParked == active.tel >= Silence /\ ~active.parked

TelemetryDead == active.tel >= Silence

WentSilent ==
  /\ pc = "watchdog" /\ active # NoSession /\ ~HasPrecedence
  /\ TelemetryDead
  /\ pc' = "closing" /\ input' = NoInput
  /\ UNCHANGED <<others, active, opener, retry, holder, feeding, strip>>

MayRender ==
  pc = "watchdog" /\ active # NoSession /\ ~HasPrecedence /\ ~TelemetryDead

NothingToRender ==
  /\ MayRender /\ active.gen = 0
  /\ strip' = Lit /\ pc' = "drain" /\ input' = NoInput
  /\ UNCHANGED <<others, active, opener, retry, holder, feeding>>

\* SilenceGate::observe on a silent block.
RenderSilence ==
  /\ MayRender /\ active.gen > 0 /\ Silent
  /\ LET z == IF active.parked THEN active.zero
              ELSE Min({active.zero + active.gen, Standby})
         a == [active EXCEPT !.gen = 0, !.zero = z]
     IN \/ /\ ~active.parked /\ z >= Standby           \* EnterStandby
           /\ active' = [a EXCEPT !.parked = TRUE]
           /\ feeding' = IF active.stream THEN Parked ELSE feeding
           /\ pc' = "parking"
        \/ /\ ~active.parked /\ z < Standby
           /\ active' = a
           /\ \/ /\ pc' = "drain"
                 /\ feeding' = IF active.stream THEN Fed("daemon") ELSE feeding
              \/ /\ active.stream /\ pc' = "closing"   \* the push failed
                 /\ UNCHANGED feeding
        \/ /\ active.parked /\ active' = a
           /\ pc' = "drain" /\ UNCHANGED feeding
  /\ strip' = Lit /\ input' = NoInput
  /\ UNCHANGED <<others, opener, retry, holder>>

\* And on a block with force: push, or come back from standby first.
RenderForce ==
  /\ MayRender /\ active.gen > 0 /\ ~Silent
  /\ LET a == [active EXCEPT !.gen = 0, !.zero = 0]
     IN \/ /\ ~active.parked /\ active' = a /\ UNCHANGED holder
           /\ \/ /\ pc' = "drain"
                 /\ feeding' = IF active.stream THEN Fed("daemon") ELSE feeding
              \/ /\ active.stream /\ pc' = "closing"
                 /\ UNCHANGED feeding
        \/ /\ active.parked /\ Grants(active.key)      \* Resume
           /\ holder' = Acquired("daemon", active.key)
           /\ active' = [a EXCEPT !.lease = TRUE, !.parked = FALSE]
           /\ feeding' = IF active.stream THEN Fed("daemon") ELSE feeding
           /\ pc' = "drain"
        \/ /\ active.parked /\ ~Grants(active.key)     \* hold_standby
           /\ active' = [a EXCEPT !.zero = Standby]
           /\ pc' = "drain" /\ UNCHANGED <<holder, feeding>>
  /\ strip' = Lit /\ input' = NoInput
  /\ UNCHANGED <<others, opener, retry>>

\* The lease of a parked stream is dropped after the stream is.
ParkLease ==
  /\ pc = "parking"
  /\ holder' = IF active.lease /\ active.key = "wheel" THEN Released("daemon")
               ELSE holder
  /\ active' = [active EXCEPT !.lease = FALSE]
  /\ pc' = "drain"
  /\ UNCHANGED <<others, input, opener, retry, feeding, strip>>

\* Teardown: strip and screen handed back, stream dropped, lease last.
OursToHandBackWithStream == active # NoSession /\ active.stream /\ active.leds

OursToHandBack == active # NoSession /\ active.leds

CloseStream ==
  /\ pc = "closing"
  /\ strip' = IF OursToHandBack THEN "idle" ELSE strip
  /\ crashed' = (crashed /\ ~OursToHandBack)
  /\ feeding' = Unfed("daemon") /\ pc' = "releasing"
  /\ UNCHANGED <<kind, stop, spc, markers, input, active, opener, retry,
                 holder>>

CloseLease ==
  /\ pc = "releasing"
  /\ holder' = Released("daemon") /\ active' = NoSession
  /\ pc' = IF stop THEN "exited" ELSE "drain"
  /\ UNCHANGED <<others, input, opener, retry, feeding, strip>>

Exit ==
  /\ pc = "drain" /\ stop /\ pc' = "closing"
  /\ UNCHANGED <<others, input, active, opener, retry, holder, feeding, strip>>

(***************************************************************************)
(* The test sweep, another process: it asks for the lease before anything  *)
(* else, counts down, plays and lets the stream go before the lease.       *)
(***************************************************************************)
sweepVars == <<spc, holder, feeding>>
sweepOthers == <<kind, pc, stop, input, active, opener, retry, markers,
                 strip, crashed>>

SweepAsks ==
  /\ spc = "off" /\ Grants("wheel")
  /\ holder' = Acquired("sweep", "wheel") /\ spc' = "leased"
  /\ UNCHANGED <<sweepOthers, feeding>>

SweepOpens ==
  /\ spc = "leased"
  /\ \/ /\ spc' = "countdown"
        /\ feeding' = IF kind = "g923" THEN Fed("sweep") ELSE feeding
     \/ spc' = "done" /\ UNCHANGED feeding       \* no wheel, or unstabilised
  /\ UNCHANGED <<sweepOthers, holder>>

\* A signal during the countdown: stream_probe and _lease leave together,
\* the binding declared last first.
SweepAborts ==
  /\ spc = "countdown"
  /\ holder' = Released("sweep") /\ spc' = "aborting"
  /\ UNCHANGED <<sweepOthers, feeding>>

SweepAborted ==
  /\ spc = "aborting"
  /\ feeding' = Unfed("sweep") /\ spc' = "off"
  /\ UNCHANGED <<sweepOthers, holder>>

SweepPlays ==
  /\ spc \in {"countdown", "playing"}
  /\ feeding' = Fed("sweep") /\ spc' = "playing"
  /\ UNCHANGED <<sweepOthers, holder>>

\* The end of the sweep, a signal, or a failed push: the stream goes first.
SweepStops ==
  /\ spc = "playing"
  /\ feeding' = Unfed("sweep") /\ spc' = "done"
  /\ UNCHANGED <<sweepOthers, holder>>

SweepReleases ==
  /\ spc = "done"
  /\ holder' = Released("sweep") /\ spc' = "off"
  /\ UNCHANGED <<sweepOthers, feeding>>

(***************************************************************************)
(* The world around them.                                                  *)
(***************************************************************************)
\* The G923's own writer thread goes quiet after a while of zero force.
WriterIdles ==
  /\ kind = "g923" /\ "daemon" \in feeding
  /\ active # NoSession /\ active.parked
  /\ feeding' = Unfed("daemon")
  /\ UNCHANGED <<kind, pc, stop, input, active, opener, retry, spc, holder,
                 markers, strip, crashed>>

Signal ==
  /\ ~stop /\ pc # "exited" /\ stop' = TRUE
  /\ UNCHANGED <<kind, pc, input, active, opener, retry, spc, holder, markers,
                 feeding, strip, crashed>>

\* logi-launch writes and removes a session marker.
Launcher ==
  /\ \/ \E g \in Marked : markers' = markers \cup {g}
     \/ \E g \in markers : markers' = markers \ {g}
  /\ UNCHANGED <<kind, pc, stop, input, active, opener, retry, spc, holder,
                 feeding, strip, crashed>>

\* A killed process: the kernel closes its streams and drops its flock.
Crash ==
  /\ Faults /\ pc # "exited"
  /\ pc' = "exited" /\ crashed' = (strip # "idle")
  /\ holder' = Released("daemon") /\ feeding' = Unfed("daemon")
  /\ active' = NoSession /\ input' = NoInput /\ opener' = None /\ retry' = 0
  /\ UNCHANGED <<kind, stop, spc, markers, strip>>

SweepCrash ==
  /\ Faults /\ spc # "off"
  /\ spc' = "off" /\ holder' = Released("sweep") /\ feeding' = Unfed("sweep")
  /\ UNCHANGED sweepOthers

Restart ==
  /\ pc = "exited"
  /\ pc' = "drain" /\ stop' = FALSE /\ retry' = 0 /\ input' = NoInput
  /\ UNCHANGED <<kind, active, opener, spc, holder, markers, feeding,
                 strip, crashed>>

Telemetry == Refresh \/ OpenLights \/ LeaveNative \/ StartOpen
CapturedPart == CapturedIdle \/ CapturedOpen \/ CapturedPush
Watchdog == Nothing \/ Yield \/ WentSilent \/ NothingToRender
              \/ RenderSilence \/ RenderForce
Daemon == Drain \/ Telemetry \/ TakeForOpen \/ OpenStream \/ CapturedPart
            \/ Watchdog \/ ParkLease \/ CloseStream \/ CloseLease \/ Exit
Sweep == SweepAsks \/ SweepOpens \/ SweepAborts \/ SweepAborted \/ SweepPlays
           \/ SweepStops \/ SweepReleases

Next == Daemon \/ Sweep \/ WriterIdles \/ Signal \/ Launcher \/ Crash
          \/ SweepCrash \/ Restart

Spec == Init /\ [][Next]_vars

\* The loop runs, its clock advances, and a program that was signalled or
\* finished runs to the end of its teardown.
TimePasses == Drain /\ (active # NoSession => active'.gen > active.gen \/ active.gen = MaxGen)
FairSpec == Spec /\ WF_vars(Daemon) /\ SF_vars(TimePasses)

-----------------------------------------------------------------------------
(***************************************************************************)
(* Properties.                                                             *)
(***************************************************************************)
Sessions ==
  [game : Games \cup {Captured}, force : BOOLEAN, stream : BOOLEAN,
   lease : BOOLEAN, leds : BOOLEAN, key : {"wheel", ""}, parked : BOOLEAN,
   zero : 0..Standby, tel : 0..Silence, gen : 0..MaxGen, cap : 0..Precedence]

TypeOK ==
  /\ kind \in Kinds /\ stop \in BOOLEAN
  /\ pc \in {"drain", "telemetry", "open", "opening", "captured", "watchdog",
             "parking", "closing", "releasing", "exited"}
  /\ spc \in {"off", "leased", "countdown", "playing", "done", "aborting"}
  /\ input \in Inputs /\ retry \in 0..Retry
  /\ opener \in Games \cup {Captured, None}
  /\ holder \in Programs \cup {None} /\ feeding \subseteq Programs
  /\ markers \subseteq Marked /\ strip \in {"idle", "rev"}
  /\ crashed \in BOOLEAN
  /\ active \in {NoSession} \cup Sessions

(***************************************************************************)
(* On a direct drive wheel a program puts samples on the endpoint only     *)
(* while it holds the wheel's lease, through every standby, resumption,    *)
(* captured burst, failed open, crash and teardown (take_lease before the  *)
(* stream is opened or resumed, dropped after it is parked or closed).     *)
(***************************************************************************)
LeaseCoversFeeding ==
  kind = "dd" /\ Lockable => \A p \in feeding : holder = p

(***************************************************************************)
(* A lights-only session never touches the wheel's stream or its lease:    *)
(* strength zero or a native title leaves the wheel to others, even when   *)
(* captured samples or returning force make it ask for its lease back.     *)
(***************************************************************************)
LightsOnlyLeavesWheel ==
  active # NoSession /\ ~active.stream =>
    holder # "daemon" /\ "daemon" \notin feeding

(***************************************************************************)
(* The strip is handed back on every way out of a session: between         *)
(* sessions it shows its own pattern, unless a killed daemon left it lit.  *)
(***************************************************************************)
StripHandedBack ==
  active = NoSession /\ ~crashed => strip = "idle"

\* The lights keep to themselves: a session for the lights alone never holds
\* the wheel's lease or feeds its stream, and the strip shows its own pattern
\* again after every session (daemon.rs run, where it opens and closes one).
LightsApart == TypeOK /\ LightsOnlyLeavesWheel /\ StripHandedBack

(***************************************************************************)
(* lease.rs: two programs never stream to one wheel at the same time.      *)
(***************************************************************************)
OneStreamer == Lockable => Cardinality(feeding) <= 1

(***************************************************************************)
(* daemon.rs on a game whose strength is zero: the stream stays closed.    *)
(***************************************************************************)
ZeroStrengthStaysClosed ==
  pc = "opening" /\ opener # Captured => WantsHaptics(opener)

(***************************************************************************)
(* Once telemetry and captured samples stop for good, the daemon gives the *)
(* wheel up: the watchdog closes the session, the lease is released and    *)
(* nothing of the daemon's stays on the endpoint.                          *)
(***************************************************************************)
SilenceReleasesWheel ==
  <>[](input = NoInput /\ pc # "exited") => <>[](holder # "daemon" /\ active = NoSession)
=============================================================================
