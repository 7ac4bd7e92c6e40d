------------------------------ MODULE TfStream ------------------------------
(***************************************************************************)
(* A libtrueforce wheel: the hidraw session (session.c), the 1 kHz stream  *)
(* thread (stream.c) and the SDK calls that share them (exports.c).        *)
(*                                                                         *)
(* Two mutexes protect the device.  No section of the code keeps `lock'    *)
(* across a wait (the stop pair drops it for its 2 ms sleep, Pause for its *)
(* condition variable), so a critical section is one atomic action and the *)
(* interleavings are those of the sections: a caller between two of its    *)
(* sections is a value of pc, the stream thread between two of its own a   *)
(* value of tpc.  The tick works UNLOCKED on tf_window and tf_last_current *)
(* after it drained the ring, and logitf_stream_clear writes both: what    *)
(* that race leaves is chosen slot by slot (torn).                         *)
(*                                                                         *)
(* Samples are signed offsets from the centre 0x8000, so centre is 0.      *)
(* The ring is the queue of FreshQueue, which TfRing implements.           *)
(***************************************************************************)
EXTENDS FreshQueue

CONSTANTS Callers,      \* threads of the program that call the SDK
          Allowed,      \* [Callers -> SUBSET Ops]: what each one calls
          Budget,       \* bound of the model: [Callers -> Nat], calls each makes
          Window,       \* LOGITF_TF_WINDOW
          New,          \* LOGITF_TF_NEW: samples of one timer expiration
          MaxExpiries,  \* most expirations one tick reports (64 in the code)
          HoldTicks,    \* LOGITF_TF_STARVE_HOLD_TICKS
          DecayStep,    \* LOGITF_TF_STARVE_DECAY_STEP
          DecayTicks,   \* LOGITF_TF_STARVE_DECAY_TICKS
          GraceTicks,   \* LOGITF_TF_IDLE_GRACE_TICKS
          FullScale,    \* 0x8000, the largest offset from centre
          MaxFaults,    \* bound of the model: system calls that fail once
          MaxUnplugs,   \* bound of the model: unplugs of the wheel
          AllowLate     \* whether a live thread may miss Pause's 50 ms

Ops == {"push", "clear", "pause", "resume", "close"}

ASSUME StreamAssumption ==
  /\ Allowed \in [Callers -> SUBSET Ops]
  /\ Budget \in [Callers -> Nat] /\ MaxFaults \in Nat /\ MaxUnplugs \in Nat
  /\ Window \in Nat /\ MaxPending \in Nat /\ MaxBatch \in Nat
  /\ New \in 1..Window /\ MaxWant \in New..Window /\ MaxExpiries \in Nat \ {0}
  /\ HoldTicks \in Nat /\ GraceTicks \in Nat \ {0} /\ AllowLate \in BOOLEAN
  /\ FullScale \in Nat /\ 0 \in Samples /\ Samples \subseteq -FullScale..FullScale
  /\ DecayTicks \in Nat /\ DecayStep \in Nat \ {0}
  /\ DecayStep * DecayTicks >= FullScale

\* A thread that closes the wheel is the only one that feeds or closes it:
\* logitf_stream_stop joins the stream thread (twice is undefined), and a
\* push between its session_ensure and its stream_start trusts the session
\* it found.  Pauses, resumes and clears may come from any thread, and so
\* may pushes where nobody closes.
ASSUME OwnerAssumption ==
  \A c, d \in Callers :
    "close" \in Allowed[c] /\ Allowed[d] \cap {"push", "close"} # {} => c = d

VARIABLES
  fd,           \* hidraw_fd: "none", "live", or "dead" once its wheel is gone
  initialized, paused, armed_idle, pending,   \* tf_initialized, tf_paused, ...
  running, shutting_down, stream_error,       \* the stream's own flags
  stopfd,       \* the eventfd that asks the thread to exit has been written
  window, cur,  \* tf_window, oldest first, and tf_last_current
  starved, idle,              \* tf_starved_ticks, tf_idle_ticks
  tpc,          \* where the stream thread is
  tick,         \* its locals: cached flags, packet, the window as it read it
  torn,         \* a clear has written the window since it did
  pc, arg, left,              \* per caller: place, batch, calls still to make
  plugged, unplugs, faults,   \* the wheel's presence; the bounds' counters
  \* history
  engine,       \* what the wheel was last told to be
  split,        \* a packet reached the wheel inside another's stop pair
  unserved,     \* a Pause's request was dropped before the thread saw it
  dry           \* ticks in a row that drained nothing, up to DryCap

session == <<fd, initialized, paused, armed_idle, pending>>
stream  == <<running, shutting_down, stream_error, stopfd>>
sound   == <<window, cur, starved, idle, dry>>
thread  == <<tpc, tick, torn>>
caller  == <<pc, arg, left>>
wheel   == <<plugged, unplugs, faults, engine, split>>
vars == <<session, stream, sound, thread, caller, wheel, unserved, qvars>>

DryCap == HoldTicks + (IF DecayTicks > Window THEN DecayTicks ELSE Window)
Centre == [i \in 1..Window |-> 0]
ThreadAlive == tpc \notin {"off", "exited"}
-----------------------------------------------------------------------------
(* The wire.  A write on a live fd may fail once in a while; on a dead or  *)
(* closed one it always fails.                                             *)

\* The processes between the 0x04 and the 0x03 of a stop pair.
InPair == {c \in Callers : pc[c] \in {"stopGap", "closeGap"}}
            \cup (IF tpc \in {"tearGap", "gateGap"} THEN {"thread"} ELSE {})

Results == IF fd = "live"
           THEN {"ok"} \cup (IF faults < MaxFaults THEN {"transient"} ELSE {})
           ELSE {"fatal"}

EngineAfter(kind) ==
  CASE kind = "stop" -> "stopped"
    [] kind = "arm"  -> "armed"
    [] OTHER         -> "started"   \* init, sample and keepalive packets

Write(p, kind, r) ==
  /\ r \in Results
  /\ faults' = IF r = "transient" THEN faults + 1 ELSE faults
  /\ engine' = IF r = "ok" THEN EngineAfter(kind) ELSE engine
  /\ split'  = (split \/ (r = "ok" /\ InPair \ {p} # {}))
  /\ UNCHANGED <<plugged, unplugs>>

Unplug ==
  /\ plugged /\ unplugs < MaxUnplugs
  /\ plugged' = FALSE /\ unplugs' = unplugs + 1
  /\ fd' = IF fd = "live" THEN "dead" ELSE fd
  /\ engine' = "cold"
  /\ UNCHANGED <<initialized, paused, armed_idle, pending, faults, split>>
  /\ UNCHANGED <<stream, sound, thread, caller, unserved, qvars>>

Replug ==
  /\ ~plugged /\ plugged' = TRUE
  /\ UNCHANGED <<unplugs, faults, engine, split>>
  /\ UNCHANGED <<session, stream, sound, thread, caller, unserved, qvars>>
-----------------------------------------------------------------------------
(* The stream thread.                                                      *)

\* Mutant of Exit: the thread ends without saying why.
ExitUnrecorded(e) == tpc' = "exited" /\ UNCHANGED stream

\* stream_record_error, then the loop's break; the first error stays.
Exit(e) ==
  /\ tpc' = "exited"
  /\ stream_error' = IF stream_error = "none" THEN e ELSE stream_error
  /\ UNCHANGED <<running, shutting_down, stopfd>>

\* The poll reports the stop eventfd before anything else.
ThreadStop ==
  /\ tpc = "poll" /\ stopfd
  /\ tpc' = "exited"
  /\ UNCHANGED <<tick, torn, session, stream, sound, caller, wheel, unserved, qvars>>

\* POLLERR, POLLHUP or POLLNVAL on the hidraw fd.
ThreadHangup ==
  /\ tpc = "poll" /\ ~stopfd /\ fd # "live"
  /\ Exit("ENODEV")
  /\ UNCHANGED <<tick, torn, session, sound, caller, wheel, unserved, qvars>>

TickReady == tpc = "poll" /\ ~stopfd /\ fd = "live"

\* A tick that finds Pause's request serves it and does nothing else.
TickTeardown ==
  /\ TickReady /\ pending
  /\ IF armed_idle
     THEN /\ pending' = FALSE
          /\ UNCHANGED <<tpc, stream, wheel>>
     ELSE \E r \in Results :
            /\ Write("thread", "stop", r)
            /\ IF r = "ok" THEN tpc' = "tearGap" /\ UNCHANGED <<pending, stream>>
                           ELSE pending' = FALSE /\ Exit("EIO")
  /\ UNCHANGED <<fd, initialized, paused, armed_idle, tick, torn>>
  /\ UNCHANGED <<sound, caller, unserved, qvars>>

\* The second half of a pair the thread began, for Pause or for the gate.
ThreadArm ==
  /\ tpc \in {"tearGap", "gateGap"}
  /\ \E r \in Results :
       /\ Write("thread", "arm", r)
       /\ armed_idle' = (armed_idle \/ r = "ok")
       /\ IF r = "ok" THEN tpc' = "poll" /\ UNCHANGED stream ELSE Exit("EIO")
  /\ pending' = (pending /\ tpc = "gateGap")
  /\ UNCHANGED <<fd, initialized, paused, tick, torn>>
  /\ UNCHANGED <<sound, caller, unserved, qvars>>

\* The locked opening of an ordinary tick: two flags are cached.
TickCache ==
  /\ TickReady /\ ~pending
  /\ tick' = [tick EXCEPT !.paused = paused, !.armed = armed_idle]
  /\ tpc' = "cached"
  /\ UNCHANGED <<torn, session, stream, sound, caller, wheel, unserved, qvars>>

Wanted(expiries) ==
  IF expiries * New < MaxWant THEN expiries * New ELSE MaxWant

TickDrain ==
  /\ tpc = "cached"
  /\ \E expiries \in 1..MaxExpiries : QDrain(Wanted(expiries))
  /\ tick' = [tick EXCEPT !.window = window, !.cur = cur]
  /\ torn' = FALSE
  /\ tpc' = "drained"
  /\ UNCHANGED <<session, stream, sound, caller, wheel, unserved>>

\* Mutant of Decayed: a starved stream holds its force.
HeldForce(v) == v

\* decay_towards_centre: a fixed step, never past the centre.
Decayed(v) ==
  IF v > 0 THEN IF v > DecayStep THEN v - DecayStep ELSE 0
           ELSE IF v < -DecayStep THEN v + DecayStep ELSE 0

Shifted(w, new) == SubSeq(w \o new, Len(new) + 1, Len(new) + Window)

\* Store w and c; slots a racing clear also wrote hold either value.
Store(w, c) ==
  IF torn
  THEN /\ window' \in {x \in [1..Window -> Samples] : \A i \in 1..Window : x[i] \in {w[i], 0}}
       /\ cur' \in {c, 0}
  ELSE window' = w /\ cur' = c

\* Mutant of Holding: the counter is compared before it counts this tick.
HoldingOneMore == starved <= HoldTicks

\* The tick's ++tf_starved_ticks is still within the hold.
Holding == starved < HoldTicks

TickUpdate ==
  /\ tpc = "drained"
  /\ \/ /\ out # <<>>
        /\ LET w == Shifted(tick.window, out) IN Store(w, w[Window])
        /\ starved' = 0 /\ dry' = 0
     \/ /\ out = <<>> /\ Holding
        /\ starved' = starved + 1
        /\ dry' = IF dry < DryCap THEN dry + 1 ELSE dry
        /\ UNCHANGED <<window, cur>>
     \/ /\ out = <<>> /\ ~Holding
        /\ Store(Shifted(tick.window, [i \in 1..New |-> 0]), Decayed(tick.cur))
        /\ starved' = HoldTicks + 1    \* saturates one past the bound
        /\ dry' = IF dry < DryCap THEN dry + 1 ELSE dry
  /\ tpc' = "updated" /\ torn' = FALSE
  /\ tick' = [tick EXCEPT !.window = Centre, !.cur = 0]     \* no longer used
  /\ UNCHANGED <<idle, session, stream, caller, wheel, unserved, qvars>>

\* An empty drain, or a block of pushed silence (block_is_silent).
IdleShape == \A i \in 1..Len(out) : out[i] = 0

\* Mutant of GateDue: one tick late.
GateDueLate == cur = 0 /\ idle + 1 > GraceTicks

\* A centred session has been idle for the whole grace period.
GateDue == cur = 0 /\ idle + 1 >= GraceTicks

\* Mutant of Resuming: the flag outlives the standby.
ResumingUnmarked == UNCHANGED armed_idle

\* A sample packet ends the standby the pair left the engine in.
Resuming == armed_idle' = FALSE

\* What the tick sends: nothing, the gate's stop pair, a keepalive or samples.
TickDecide ==
  /\ tpc = "updated"
  /\ \/ /\ tick.paused \/ (IdleShape /\ tick.armed)
        /\ tpc' = "poll"
        /\ UNCHANGED <<idle, armed_idle, tick>>
     \/ /\ ~tick.paused /\ IdleShape /\ ~tick.armed
        /\ GateDue /\ idle' = 0 /\ tpc' = "gate"
        /\ UNCHANGED <<armed_idle, tick>>
     \/ /\ ~tick.paused /\ IdleShape /\ ~tick.armed
        /\ ~GateDue /\ idle' = IF cur = 0 THEN idle + 1 ELSE 0
        /\ tick' = [tick EXCEPT !.packet = "keepalive"]
        /\ tpc' = "write"
        /\ UNCHANGED armed_idle
     \/ /\ ~tick.paused /\ ~IdleShape
        /\ idle' = 0 /\ Resuming
        /\ tick' = [tick EXCEPT !.packet = "samples"]
        /\ tpc' = "write"
  /\ UNCHANGED <<fd, initialized, paused, pending, window, cur, starved, dry>>
  /\ UNCHANGED <<torn, stream, caller, wheel, unserved, qvars>>

\* The silence gate's stop pair, first half; the guard is read under `lock'.
TickGate ==
  /\ tpc = "gate"
  /\ IF armed_idle
     THEN tpc' = "poll" /\ UNCHANGED <<stream, wheel>>
     ELSE \E r \in Results :
            /\ Write("thread", "stop", r)
            /\ IF r = "ok" THEN tpc' = "gateGap" /\ UNCHANGED stream
                           ELSE Exit("EIO")
  /\ UNCHANGED <<tick, torn, session, sound, caller, unserved, qvars>>

\* A transient failure is left to the next tick; the wheel's absence is not.
TickWrite ==
  /\ tpc = "write"
  /\ \E r \in Results :
       /\ Write("thread", tick.packet, r)
       /\ IF r = "fatal" THEN Exit("ENODEV") ELSE tpc' = "poll" /\ UNCHANGED stream
  /\ UNCHANGED <<tick, torn, session, sound, caller, unserved, qvars>>

ThreadStep ==
  \/ ThreadStop \/ ThreadHangup \/ TickTeardown \/ ThreadArm \/ TickCache
  \/ TickDrain \/ TickUpdate \/ TickDecide \/ TickGate \/ TickWrite
-----------------------------------------------------------------------------
(* The callers.                                                            *)

Goto(c, place) == pc' = [pc EXCEPT ![c] = place]

\* Entry into a call: place is where the first section leaves the caller.
Call(c, op, place) ==
  /\ pc[c] = "out" /\ op \in Allowed[c] /\ left[c] > 0
  /\ left' = [left EXCEPT ![c] = @ - 1]
  /\ Goto(c, place)

\* logiTrueForceSetTorqueTF*: session_ensure, stream_start, push_s16.
PushCall(c, batch) ==
  /\ Call(c, "push", "ensure")
  /\ arg' = [arg EXCEPT ![c] = batch]
  /\ UNCHANGED <<session, stream, sound, thread, wheel, unserved, qvars>>

\* logitf_session_ensure, under `lock' to the end of the init sequence.
SessionEnsure(c) ==
  /\ pc[c] = "ensure"
  /\ \/ /\ initialized /\ fd # "none"
        /\ Goto(c, "start") /\ UNCHANGED <<session, idle, wheel>>
     \/ /\ fd = "none" /\ ~plugged                    \* LOGITF_ERR_NOT_FOUND
        /\ Goto(c, "out") /\ UNCHANGED <<session, idle, wheel>>
     \/ /\ IF fd = "none" THEN plugged ELSE ~initialized
        /\ \/ /\ fd \in {"none", "live"}              \* both passes went out
              /\ fd' = "live" /\ initialized' = TRUE /\ paused' = FALSE
              /\ armed_idle' = FALSE /\ idle' = 0
              /\ engine' = "started"
              /\ split' = (split \/ InPair # {})
              /\ UNCHANGED <<pending, plugged, unplugs, faults>>
              /\ Goto(c, "start")
           \/ /\ fd = "dead" \/ faults < MaxFaults    \* open or a packet failed
              /\ faults' = IF fd = "dead" THEN faults ELSE faults + 1
              /\ fd' = "none"
              /\ engine' \in {engine, IF plugged THEN "started" ELSE engine}
              /\ UNCHANGED <<initialized, paused, armed_idle, pending, idle>>
              /\ UNCHANGED <<plugged, unplugs, split>>
              /\ Goto(c, "out")
  /\ UNCHANGED <<window, cur, starved, dry, arg, left>>
  /\ UNCHANGED <<stream, thread, unserved, qvars>>

\* logitf_stream_start: everything is reset, then the thread is created, or
\* its timer, eventfd or thread could not be.
StreamStart(c) ==
  /\ pc[c] = "start"
  /\ \/ /\ running
        /\ Goto(c, "check")
        /\ UNCHANGED <<stream, sound, thread, pending, wheel, unserved>>
     \/ /\ ~running
        /\ window' = Centre /\ cur' = 0 /\ idle' = 0 /\ starved' = 0 /\ dry' = 0
        /\ stream_error' = "none" /\ pending' = FALSE
        /\ unserved' = (unserved \/ pending)
        /\ \/ /\ running' = TRUE /\ stopfd' = FALSE /\ tpc' = "poll"
              /\ Goto(c, "check") /\ UNCHANGED faults
           \/ /\ faults < MaxFaults /\ faults' = faults + 1
              /\ Goto(c, "out") /\ UNCHANGED <<running, stopfd, tpc>>
        /\ UNCHANGED <<shutting_down, tick, torn, plugged, unplugs, engine, split>>
  /\ UNCHANGED <<fd, initialized, paused, armed_idle, arg, left>>
  /\ UNCHANGED qvars

PushCheck(c) ==
  /\ pc[c] = "check"
  /\ Goto(c, IF stream_error # "none" THEN "out" ELSE "push")
  /\ UNCHANGED <<arg, left, session, stream, sound, thread, wheel, unserved, qvars>>

PushRing(c) ==
  /\ pc[c] = "push"
  /\ Goto(c, "out") /\ arg' = [arg EXCEPT ![c] = <<>>]
  /\ IF shutting_down \/ ~running
     THEN UNCHANGED qvars
     ELSE QPush(arg[c])
  /\ UNCHANGED <<left, unserved, session, stream, sound, thread, wheel>>

\* logiTrueForceClearTF: the ring under its lock, then the window under `lock'.
ClearCall(c) ==
  /\ Call(c, "clear", "clear")
  /\ QClear
  /\ UNCHANGED <<arg, unserved, session, stream, sound, thread, wheel>>

ClearWindow(c) ==
  /\ pc[c] = "clear" /\ Goto(c, "out")
  /\ window' = Centre /\ cur' = 0
  /\ torn' = (torn \/ tpc = "drained")
  /\ UNCHANGED <<starved, idle, dry, tpc, tick, arg, left, unserved>>
  /\ UNCHANGED <<session, stream, wheel, qvars>>

\* Mutant of PauseCall: the caller writes the pair itself.
PauseWritesPair(c) ==
  /\ initialized /\ ~armed_idle
  /\ Call(c, "pause", "stopGap")
  /\ paused' = TRUE
  /\ \E r \in Results : Write(c, "stop", r)
  /\ UNCHANGED <<fd, initialized, armed_idle, pending, arg>>
  /\ UNCHANGED <<stream, sound, thread, unserved, qvars>>

\* Mutant of Requested: no request for a session that looks torn down.
RequestedUnlessArmed == initialized /\ ~armed_idle

\* Pause asks for a teardown whenever there is a session to tear down.
Requested == initialized

\* logiTrueForcePause, up to its wait.
PauseCall(c) ==
  /\ \/ /\ paused /\ (~initialized \/ armed_idle)
        /\ Call(c, "pause", "out")
        /\ UNCHANGED <<paused, pending>>
     \/ /\ ~(paused /\ (~initialized \/ armed_idle))
        /\ Call(c, "pause", IF Requested THEN "wait" ELSE "out")
        /\ paused' = TRUE /\ pending' = (pending \/ Requested)
  /\ UNCHANGED <<fd, initialized, armed_idle, arg, unserved>>
  /\ UNCHANGED <<stream, sound, thread, wheel, qvars>>

PauseServed(c) ==
  /\ pc[c] = "wait" /\ ~pending /\ Goto(c, "out")
  /\ UNCHANGED <<arg, left, session, stream, sound, thread, wheel, unserved, qvars>>

\* Mutant of PauseTimeout: an unbounded wait.
PauseNeverTimesOut(c) == pc[c] = "wait" /\ FALSE /\ UNCHANGED vars

\* The 50 ms are over.  A thread that has exited never answers; a live one
\* answers at its next tick, unless the machine keeps it from running.
PauseTimeout(c) ==
  /\ pc[c] = "wait" /\ pending /\ (AllowLate \/ ~ThreadAlive) /\ Goto(c, "out")
  /\ pending' = FALSE
  /\ unserved' = TRUE
  /\ UNCHANGED <<fd, initialized, paused, armed_idle, arg, left>>
  /\ UNCHANGED <<stream, sound, thread, wheel, qvars>>

ResumeCall(c) ==
  /\ Call(c, "resume", "out")
  /\ paused' = FALSE
  /\ UNCHANGED <<fd, initialized, armed_idle, pending, arg, unserved>>
  /\ UNCHANGED <<stream, sound, thread, wheel, qvars>>

\* Mutant of CloseCall: the thread is signalled and not joined.
CloseWithoutJoin(c) ==
  /\ Call(c, "close", "close")
  /\ shutting_down' = running /\ stopfd' = running
  /\ UNCHANGED <<running, stream_error, arg>>
  /\ UNCHANGED <<session, sound, thread, wheel, unserved, qvars>>

\* logiWheelClose: logitf_stream_stop (refuse pushes, signal, join, end the
\* session's sound), then logitf_session_close.
CloseCall(c) ==
  /\ \/ ~running /\ Call(c, "close", "close") /\ UNCHANGED <<shutting_down, stopfd>>
     \/ running /\ Call(c, "close", "join") /\ shutting_down' = TRUE /\ stopfd' = TRUE
  /\ UNCHANGED <<running, stream_error, arg>>
  /\ UNCHANGED <<session, sound, thread, wheel, unserved, qvars>>

\* Mutant of StillStarted: a paused session is taken for one torn down.
StillStartedUnlessPaused == initialized /\ ~armed_idle /\ ~paused

\* What decides whether stop and close owe the wheel a stop pair.
StillStarted == initialized /\ ~armed_idle

StreamStopped == running' = FALSE /\ shutting_down' = FALSE

StopJoin(c) ==
  /\ pc[c] = "join" /\ tpc = "exited" /\ tpc' = "off"
  /\ IF StillStarted
     THEN \E r \in Results :
            /\ Write(c, "stop", r)
            /\ IF r = "ok" THEN Goto(c, "stopGap") /\ UNCHANGED <<running, shutting_down>>
                           ELSE Goto(c, "close") /\ StreamStopped
     ELSE Goto(c, "close") /\ StreamStopped /\ UNCHANGED wheel
  /\ UNCHANGED <<stream_error, stopfd, tick, torn, arg, left>>
  /\ UNCHANGED <<session, sound, unserved, qvars>>

StopArm(c) ==
  /\ pc[c] = "stopGap" /\ Goto(c, "close")
  /\ \E r \in Results :
       Write(c, "arm", r) /\ armed_idle' = (armed_idle \/ r = "ok")
  /\ StreamStopped
  /\ UNCHANGED <<fd, initialized, paused, pending, stream_error, stopfd, arg, left>>
  /\ UNCHANGED <<sound, thread, unserved, qvars>>

SessionClosed ==
  /\ fd' = "none" /\ initialized' = FALSE /\ armed_idle' = FALSE
  /\ UNCHANGED <<paused, pending>>

SessionClose(c) ==
  /\ pc[c] = "close"
  /\ IF fd # "none" /\ StillStarted
     THEN \E r \in Results :
            /\ Write(c, "stop", r)
            /\ IF r = "ok" THEN Goto(c, "closeGap") /\ UNCHANGED session
                           ELSE Goto(c, "out") /\ SessionClosed
     ELSE Goto(c, "out") /\ SessionClosed /\ UNCHANGED wheel
  /\ UNCHANGED <<arg, left, unserved, stream, sound, thread, qvars>>

SessionArm(c) ==
  /\ pc[c] = "closeGap" /\ Goto(c, "out")
  /\ \E r \in Results : Write(c, "arm", r)
  /\ SessionClosed
  /\ UNCHANGED <<arg, left, stream, sound, thread, unserved, qvars>>

CallerBegins(c) ==
  \/ \E batch \in Batches : PushCall(c, batch)
  \/ ClearCall(c) \/ PauseCall(c) \/ ResumeCall(c) \/ CloseCall(c)

CallerContinues(c) ==
  \/ SessionEnsure(c) \/ StreamStart(c) \/ PushCheck(c) \/ PushRing(c)
  \/ ClearWindow(c) \/ PauseServed(c) \/ PauseTimeout(c)
  \/ StopJoin(c) \/ StopArm(c) \/ SessionClose(c) \/ SessionArm(c)
-----------------------------------------------------------------------------
Init ==
  /\ fd = "none" /\ initialized = FALSE /\ paused = FALSE
  /\ armed_idle = FALSE /\ pending = FALSE
  /\ running = FALSE /\ shutting_down = FALSE /\ stream_error = "none"
  /\ stopfd = FALSE
  /\ window = Centre /\ cur = 0 /\ starved = 0 /\ idle = 0
  /\ tpc = "off" /\ torn = FALSE
  /\ tick = [paused |-> FALSE, armed |-> FALSE, packet |-> "keepalive",
             window |-> Centre, cur |-> 0]
  /\ pc = [c \in Callers |-> "out"]
  /\ arg = [c \in Callers |-> <<>>]
  /\ left = Budget
  /\ plugged = TRUE /\ unplugs = 0 /\ faults = 0
  /\ engine = "cold" /\ split = FALSE
  /\ unserved = FALSE /\ dry = 0
  /\ QInit

Next ==
  \/ ThreadStep
  \/ \E c \in Callers : CallerBegins(c) \/ CallerContinues(c)
  \/ Unplug \/ Replug

Spec == Init /\ [][Next]_vars

\* The timer keeps expiring, so the thread keeps taking its steps; a caller
\* inside a call goes on with it (timeouts end on their own); nobody has to
\* begin a call, and the wheel need not be plugged back in.
FairSpec == Spec /\ WF_vars(ThreadStep) /\ \A c \in Callers : WF_vars(CallerContinues(c))
-----------------------------------------------------------------------------
SessionOK ==
  /\ fd \in {"none", "live", "dead"}
  /\ initialized \in BOOLEAN /\ paused \in BOOLEAN
  /\ armed_idle \in BOOLEAN /\ pending \in BOOLEAN /\ unserved \in BOOLEAN

StreamOK ==
  /\ running \in BOOLEAN /\ shutting_down \in BOOLEAN /\ stopfd \in BOOLEAN
  /\ stream_error \in {"none", "EIO", "ENODEV"}

SoundOK ==
  /\ window \in [1..Window -> Samples] /\ cur \in -FullScale..FullScale
  /\ starved \in 0..HoldTicks + 1 /\ idle \in 0..GraceTicks - 1
  /\ dry \in 0..DryCap

ThreadOK ==
  /\ tpc \in {"off", "poll", "cached", "drained", "updated", "gate", "gateGap",
              "tearGap", "write", "exited"}
  /\ tick \in [paused : BOOLEAN, armed : BOOLEAN,
               packet : {"keepalive", "samples"},
               window : [1..Window -> Samples], cur : -FullScale..FullScale]
  /\ torn \in BOOLEAN

CallerOK ==
  /\ pc \in [Callers -> {"out", "ensure", "start", "check", "push", "clear",
                         "wait", "join", "stopGap", "close", "closeGap"}]
  /\ arg \in [Callers -> {<<>>} \cup Batches]
  /\ left \in [Callers -> Nat] /\ \A c \in Callers : left[c] <= Budget[c]

WheelOK ==
  /\ plugged \in BOOLEAN /\ split \in BOOLEAN
  /\ unplugs \in 0..MaxUnplugs /\ faults \in 0..MaxFaults
  /\ engine \in {"cold", "started", "stopped", "armed"}

QueueOK ==
  /\ queue \in Seq(Samples) /\ Len(queue) <= MaxPending
  /\ out \in Seq(Samples) /\ Len(out) <= MaxWant

TypeOK == SessionOK /\ StreamOK /\ SoundOK /\ ThreadOK /\ CallerOK /\ WheelOK /\ QueueOK

\* Single-emitter ordering: nothing reaches the wheel between the 0x04 and
\* the 0x03 of a stop pair but the 0x03.
PairNotSplit == ~split

\* tf_armed_idle is what Pause, the gate, stop and close trust instead of
\* sending the pair again: while it is set on a live wheel, the last thing
\* that wheel heard was a whole pair.
ArmedIdleTruthful == armed_idle /\ fd = "live" => engine = "armed"

\* Nothing but a failing system call makes the library let go of a wheel
\* whose engine it left running or stopped but not armed.
CloseLeavesWheelQuiet == fd = "none" /\ faults = 0 => engine \in {"cold", "armed"}

\* The stream thread never outlives the session it writes to: a thread with
\* a closed hidraw_fd would write to whatever takes the number next.
SessionOutlivesThread == ThreadAlive => initialized /\ fd # "none" /\ running

\* Once every Pause has returned and each was served, a paused wheel is torn
\* down between ticks, and stays so: no race of Pause with the gate, with a
\* resume packet in flight or with another Pause leaves the engine running
\* and unfed.
PausedEngineDown ==
  /\ paused /\ initialized /\ tpc = "poll" /\ ~pending
  /\ faults = 0 /\ ~unserved /\ \A c \in Callers : pc[c] # "wait"
  => armed_idle

\* A producer that stopped mid-waveform cannot command a stale force: after
\* the hold and the decay, counted in ticks that drained nothing, the force
\* is centred, and the window no longer holds what was played before.
StaleForceBounded ==
  /\ dry >= HoldTicks + DecayTicks => cur = 0
  /\ dry * New >= HoldTicks * New + Window => window = Centre

\* What the tick of the stream thread keeps through every interleaving with
\* the callers: the stop pair is never split by another packet, the cached
\* tf_armed_idle is what the wheel does, and a starved window holds no force
\* beyond its hold and decay (logitf_stream_tick_n).
TickSound == TypeOK /\ PairNotSplit /\ ArmedIdleTruthful /\ StaleForceBounded

\* A stream thread that stopped by itself has said why, so that the next
\* push fails: no push is accepted into a ring nobody drains.
DeadStreamReported ==
  running /\ tpc = "exited" /\ ~shutting_down => stream_error # "none"

\* A Pause that returned leaves the engine torn down, the thread being
\* prompt (no timeout on a live thread) and no system call failing.
PauseTearsDown ==
  /\ paused /\ initialized /\ tpc = "poll" /\ ~pending
  /\ faults = 0 /\ \A c \in Callers : pc[c] # "wait"
  => armed_idle

\* Every call returns: Pause does not hang on a thread that died, and the
\* join in close is always answered.
CallsReturn == \A c \in Callers : pc[c] # "out" ~> pc[c] = "out"

\* When the program stops calling, the wheel ends up silent: the stream
\* thread is gone, or the gate's stop pair went out, or the session is paused.
FallsSilent == <>[](~ThreadAlive \/ armed_idle \/ paused)
=============================================================================
