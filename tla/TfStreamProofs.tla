--------------------------- MODULE TfStreamProofs ---------------------------
(***************************************************************************)
(* Proofs about TfStream, for any number of callers, any window, hold,     *)
(* decay and grace, any number of failing system calls and unplugs, under  *)
(* OwnerAssumption: who closes the wheel is the only one to feed it.       *)
(***************************************************************************)
EXTENDS TfStream, SequenceTheorems, TLAPS

LEMMA Sizes ==
  /\ Window \in Nat /\ Window >= 1 /\ New \in Nat /\ New >= 1 /\ New <= Window
  /\ MaxWant \in Nat /\ MaxWant >= 1 /\ MaxWant <= Window
  /\ MaxPending \in Nat /\ MaxBatch \in Nat /\ HoldTicks \in Nat
  /\ DecayTicks \in Nat /\ DecayStep \in Nat /\ DecayStep >= 1
  /\ FullScale \in Nat /\ GraceTicks \in Nat /\ GraceTicks >= 1
  /\ MaxFaults \in Nat /\ MaxUnplugs \in Nat
  /\ DryCap \in Nat /\ DryCap >= HoldTicks + Window /\ DryCap >= HoldTicks + DecayTicks
BY StreamAssumption DEF DryCap

LEMMA SampleIsOffset == 0 \in Samples /\ \A s \in Samples : s \in -FullScale..FullScale
BY StreamAssumption

LEMMA CentreType == Centre \in [1..Window -> Samples]
BY SampleIsOffset DEF Centre
-----------------------------------------------------------------------------
(* The operators the steps are made of.                                    *)

\* The newest n of a sequence are at most n.
LEMMA NewestType ==
  ASSUME NEW s \in Seq(Samples), NEW n \in Nat
  PROVE  Newest(s, n) \in Seq(Samples) /\ Len(Newest(s, n)) <= n
<1>1. Len(s) \in Nat  BY LenProperties
<1>2. CASE Len(s) <= n  BY <1>2 DEF Newest
<1>3. CASE ~(Len(s) <= n)
  <2> DEFINE lo == Len(s) - n + 1
             hi == Len(s)
             w  == SubSeq(s, lo, hi)
  <2>1. lo \in Int /\ hi \in Int /\ lo >= 1 /\ hi - lo + 1 = n  BY <1>1, <1>3
  <2>2. \A j \in lo..hi : s[j] \in Samples  BY <1>1, <2>1, ElementOfSeq
  <2>3. Newest(s, n) = w  BY <1>3 DEF Newest
  <2> HIDE DEF lo, hi
  <2>4. /\ w \in Seq(Samples)
        /\ Len(w) = IF lo <= hi THEN hi - lo + 1 ELSE 0
    BY <2>1, <2>2, SubSeqProperties
  <2> HIDE DEF w
  <2> QED  BY <2>1, <2>3, <2>4
<1> QED  BY <1>2, <1>3

\* The oldest n are at most n, and what they leave is no longer than before.
LEMMA OldestType ==
  ASSUME NEW s \in Seq(Samples), NEW n \in Nat
  PROVE  /\ Oldest(s, n) \in Seq(Samples) /\ Len(Oldest(s, n)) <= n
         /\ Behind(s, n) \in Seq(Samples) /\ Len(Behind(s, n)) <= Len(s)
<1>1. Len(s) \in Nat  BY LenProperties
<1>2. CASE Len(s) <= n
  <2>1. Oldest(s, n) = s /\ Behind(s, n) = <<>>  BY <1>2 DEF Oldest, Behind
  <2>2. <<>> \in Seq(Samples) /\ Len(<<>>) = 0  BY EmptySeq
  <2> QED  BY <1>1, <1>2, <2>1, <2>2
<1>3. CASE ~(Len(s) <= n)
  <2> DEFINE m == Len(s)
             u == SubSeq(s, 1, n)
             lo == n + 1
             w == SubSeq(s, lo, m)
  <2>1. m \in Int /\ n \in Int /\ lo \in Int /\ n + 1 <= m /\ 1 \in Int  BY <1>1, <1>3
  <2>2. \A j \in 1..m : s[j] \in Samples  BY ElementOfSeq
  <2>3. Oldest(s, n) = u /\ Behind(s, n) = w  BY <1>3 DEF Oldest, Behind
  <2>4. (\A j \in 1..n : s[j] \in Samples) /\ \A j \in lo..m : s[j] \in Samples
    BY <2>1, <2>2
  <2>5. lo <= m /\ m - lo + 1 <= m  BY <2>1
  <2> HIDE DEF m, lo
  <2>6. u \in Seq(Samples) /\ Len(u) = IF 1 <= n THEN n - 1 + 1 ELSE 0
    BY <2>1, <2>4, SubSeqProperties
  <2>7. w \in Seq(Samples) /\ Len(w) = IF lo <= m THEN m - lo + 1 ELSE 0
    BY <2>1, <2>4, SubSeqProperties
  <2> HIDE DEF u, w
  <2>8. Len(u) <= n /\ Len(w) <= m  BY <2>1, <2>5, <2>6, <2>7
  <2> QED  BY <2>3, <2>6, <2>7, <2>8 DEF m
<1> QED  BY <1>2, <1>3

LEMMA BatchType == \A b \in Batches : b \in Seq(Samples)
<1> SUFFICES ASSUME NEW b \in Batches PROVE b \in Seq(Samples)  OBVIOUS
<1>1. PICK n \in 1..MaxBatch : b \in [1..n -> Samples]  BY DEF Batches
<1>2. n \in Nat  BY Sizes
<1> QED  BY <1>1, <1>2

LEMMA PushType ==
  ASSUME QueueOK, NEW b \in Seq(Samples), QPush(b)
  PROVE  QueueOK'
<1>1. queue \o b \in Seq(Samples)  BY ConcatProperties DEF QueueOK
<1>2. /\ Newest(queue \o b, MaxPending) \in Seq(Samples)
      /\ Len(Newest(queue \o b, MaxPending)) <= MaxPending
  BY <1>1, NewestType, Sizes
<1> QED  BY <1>2 DEF QPush, QueueOK

LEMMA DrainType ==
  ASSUME QueueOK, NEW want \in 0..MaxWant, QDrain(want)
  PROVE  QueueOK'
<1>1. want \in Nat /\ want <= MaxWant /\ MaxWant \in Nat /\ MaxPending \in Nat  BY Sizes
<1>2. /\ Oldest(queue, want) \in Seq(Samples) /\ Len(Oldest(queue, want)) <= want
      /\ Behind(queue, want) \in Seq(Samples) /\ Len(Behind(queue, want)) <= Len(queue)
  BY <1>1, OldestType DEF QueueOK
<1>3. /\ Len(Oldest(queue, want)) \in Nat /\ Len(Behind(queue, want)) \in Nat
      /\ Len(queue) \in Nat /\ Len(queue) <= MaxPending
  BY <1>2, LenProperties DEF QueueOK
<1>4. /\ Len(Oldest(queue, want)) <= MaxWant
      /\ Len(Behind(queue, want)) <= MaxPending
  BY <1>1, <1>2, <1>3
<1> QED  BY <1>2, <1>4 DEF QDrain, QueueOK

LEMMA WantedType ==
  ASSUME NEW expiries \in 1..MaxExpiries
  PROVE  Wanted(expiries) \in 0..MaxWant
<1>1. expiries \in Nat /\ New \in Nat /\ MaxWant \in Nat
  BY Sizes, StreamAssumption
<1>2. expiries * New \in Nat  BY <1>1
<1> QED  BY <1>1, <1>2 DEF Wanted

\* A shift keeps the window's width and moves what is kept to the front.
LEMMA ShiftedIs ==
  ASSUME NEW w \in [1..Window -> Samples], NEW new \in Seq(Samples)
  PROVE  /\ Shifted(w, new) \in [1..Window -> Samples]
         /\ \A i \in 1..Window :
              Shifted(w, new)[i] = IF Len(new) + i <= Window THEN w[Len(new) + i]
                                   ELSE new[(Len(new) + i) - Window]
<1> DEFINE n  == Len(new)
           lo == n + 1
           hi == n + Window
           all == w \o new
           v  == SubSeq(all, lo, hi)
<1>1. n \in Nat /\ Window \in Nat  BY LenProperties, Sizes
<1>2. w \in Seq(Samples) /\ Len(w) = Window  BY <1>1
<1>3. /\ all \in Seq(Samples) /\ Len(all) = Window + n
      /\ \A i \in 1..Window + n : all[i] = IF i <= Window THEN w[i] ELSE new[i - Window]
  BY <1>2, ConcatProperties
<1> HIDE DEF all
<1>4. lo \in Int /\ hi \in Int /\ lo >= 1 /\ hi - lo + 1 = Window /\ hi = Window + n
  BY <1>1
<1>5. \A j \in lo..hi : all[j] \in Samples  BY <1>1, <1>3, <1>4, ElementOfSeq
<1> HIDE DEF lo, hi
<1>6. /\ v \in Seq(Samples)
      /\ Len(v) = IF lo <= hi THEN hi - lo + 1 ELSE 0
      /\ \A j \in 1..hi - lo + 1 : v[j] = all[lo + j - 1]
  BY <1>4, <1>5, SubSeqProperties
<1> HIDE DEF v
<1>7. Len(v) = Window  BY <1>1, <1>4, <1>6
<1>8. v \in [1..Window -> Samples]  BY <1>6, <1>7, LenProperties, ElementOfSeq
<1>9. ASSUME NEW i \in 1..Window
      PROVE  v[i] = IF n + i <= Window THEN w[n + i] ELSE new[(n + i) - Window]
  <2>1. v[i] = all[lo + i - 1]  BY <1>4, <1>6
  <2>2. lo + i - 1 = n + i /\ n + i \in 1..Window + n  BY <1>1 DEF lo
  <2> HIDE DEF n
  <2>3. all[n + i] = IF n + i <= Window THEN w[n + i] ELSE new[(n + i) - Window]
    BY <1>3, <2>2
  <2>4. v[i] = all[n + i]  BY <2>1, <2>2
  <2> QED  BY <2>3, <2>4
<1>10. Shifted(w, new) = v  BY DEF Shifted, v, lo, hi, all
<1> QED  BY <1>8, <1>9, <1>10

\* The silence a starved tick shifts in.
LEMMA SilenceType ==
  /\ [i \in 1..New |-> 0] \in Seq(Samples)
  /\ Len([i \in 1..New |-> 0]) = New
<1>1. [i \in 1..New |-> 0] \in [1..New -> Samples] /\ New \in Nat
  BY Sizes, SampleIsOffset
<1> QED  BY <1>1

LEMMA DecayedType ==
  ASSUME NEW v \in -FullScale..FullScale
  PROVE  Decayed(v) \in -FullScale..FullScale
BY Sizes DEF Decayed

\* A store, raced by a clear or not, leaves samples and a force.
LEMMA StoreType ==
  ASSUME NEW w \in [1..Window -> Samples], NEW v \in -FullScale..FullScale,
         Store(w, v)
  PROVE  /\ window' \in [1..Window -> Samples] /\ cur' \in -FullScale..FullScale
         /\ \A i \in 1..Window : window'[i] = w[i] \/ window'[i] = 0
         /\ cur' = v \/ cur' = 0
<1>1. 0 \in -FullScale..FullScale  BY Sizes
<1> QED  BY <1>1 DEF Store

LEMMA WriteType ==
  ASSUME WheelOK, NEW p, NEW kind, NEW r, Write(p, kind, r)
  PROVE  WheelOK'
<1>1. faults' \in 0..MaxFaults  BY Sizes DEF WheelOK, Write, Results
<1>2. engine' \in {"cold", "started", "stopped", "armed"}
  BY DEF WheelOK, Write, EngineAfter
<1>3. split' \in BOOLEAN  BY DEF WheelOK, Write
<1> QED  BY <1>1, <1>2, <1>3 DEF WheelOK, Write
-----------------------------------------------------------------------------
(* Types.                                                                  *)

LEMMA TypeInit == Init => TypeOK
<1> SUFFICES ASSUME Init PROVE TypeOK  OBVIOUS
<1>1. SoundOK
  BY Sizes, CentreType DEF Init, SoundOK
<1>2. ThreadOK
  <2>1. 0 \in -FullScale..FullScale  BY Sizes
  <2> QED  BY <2>1, CentreType DEF Init, ThreadOK
<1>3. CallerOK
  <2>1. \A c \in Callers : left[c] \in Nat /\ left[c] <= Budget[c]
    BY StreamAssumption DEF Init
  <2>2. left \in [Callers -> Nat]  BY StreamAssumption DEF Init
  <2> QED  BY <2>1, <2>2 DEF Init, CallerOK
<1>4. QueueOK
  BY EmptySeq, Sizes DEF Init, QInit, QueueOK
<1>5. WheelOK
  <2>1. unplugs \in 0..MaxUnplugs /\ faults \in 0..MaxFaults  BY Sizes DEF Init
  <2> QED  BY <2>1 DEF Init, WheelOK
<1>6. SessionOK /\ StreamOK  BY DEF Init, SessionOK, StreamOK
<1> QED  BY <1>1, <1>2, <1>3, <1>4, <1>5, <1>6 DEF TypeOK

\* The thread's steps but the two that move samples.
LEMMA ThreadType ==
  ASSUME TypeOK,
         \/ ThreadStop \/ ThreadHangup \/ TickTeardown \/ ThreadArm \/ TickCache
         \/ TickGate \/ TickWrite
  PROVE  TypeOK'
<1>1. ASSUME ThreadStop PROVE TypeOK'
  BY <1>1 DEF ThreadStop, TypeOK, SessionOK, StreamOK, SoundOK, ThreadOK, CallerOK,
     WheelOK, QueueOK, session, stream, sound, caller, wheel, qvars
<1>2. ASSUME ThreadHangup PROVE TypeOK'
  BY <1>2 DEF ThreadHangup, Exit, TypeOK, SessionOK, StreamOK, SoundOK, ThreadOK,
     CallerOK, WheelOK, QueueOK, session, sound, caller, wheel, qvars
<1>3. ASSUME TickTeardown PROVE TypeOK'
  <2>1. WheelOK'
    BY <1>3, WriteType DEF TickTeardown, TypeOK, WheelOK, wheel
  <2>2. /\ pending' = FALSE \/ pending' = pending
        /\ tpc' \in {tpc, "tearGap", "exited"}
        /\ UNCHANGED stream \/ Exit("EIO")
    BY <1>3 DEF TickTeardown, Exit
  <2>3. SessionOK'  BY <1>3, <2>2 DEF TickTeardown, TypeOK, SessionOK
  <2>4. StreamOK'  BY <2>2 DEF Exit, TypeOK, StreamOK, stream
  <2>5. ThreadOK'  BY <1>3, <2>2 DEF TickTeardown, TypeOK, ThreadOK
  <2> QED
    BY <1>3, <2>1, <2>3, <2>4, <2>5 DEF TickTeardown, TypeOK, SoundOK, CallerOK, QueueOK, sound,
       caller, qvars
<1>4. ASSUME ThreadArm PROVE TypeOK'
  <2>1. WheelOK'
    BY <1>4, WriteType DEF ThreadArm, TypeOK
  <2>2. SessionOK' /\ StreamOK' /\ ThreadOK'
    BY <1>4 DEF ThreadArm, Exit, TypeOK, SessionOK, StreamOK, ThreadOK, stream
  <2> QED
    BY <1>4, <2>1, <2>2 DEF ThreadArm, TypeOK, SoundOK, CallerOK, QueueOK, sound,
       caller, qvars
<1>5. ASSUME TickCache PROVE TypeOK'
  <2>1. ThreadOK'
    BY <1>5 DEF TickCache, TypeOK, SessionOK, ThreadOK
  <2> QED
    BY <1>5, <2>1 DEF TickCache, TypeOK, SessionOK, StreamOK, SoundOK, CallerOK,
       WheelOK, QueueOK, session, stream, sound, caller, wheel, qvars
<1>6. ASSUME TickGate PROVE TypeOK'
  <2>1. WheelOK'
    BY <1>6, WriteType DEF TickGate, TypeOK, WheelOK, wheel
  <2>2. StreamOK' /\ ThreadOK'
    BY <1>6 DEF TickGate, Exit, TypeOK, StreamOK, ThreadOK, stream
  <2> QED
    BY <1>6, <2>1, <2>2 DEF TickGate, TypeOK, SessionOK, SoundOK, CallerOK, QueueOK,
       session, sound, caller, qvars
<1>7. ASSUME TickWrite PROVE TypeOK'
  <2>1. WheelOK'
    BY <1>7, WriteType DEF TickWrite, TypeOK
  <2>2. StreamOK' /\ ThreadOK'
    BY <1>7 DEF TickWrite, Exit, TypeOK, StreamOK, ThreadOK, stream
  <2> QED
    BY <1>7, <2>1, <2>2 DEF TickWrite, TypeOK, SessionOK, SoundOK, CallerOK, QueueOK,
       session, sound, caller, qvars
<1> QED  BY <1>1, <1>2, <1>3, <1>4, <1>5, <1>6, <1>7

LEMMA TickDrainType ==
  ASSUME TypeOK, TickDrain
  PROVE  TypeOK'
<1>1. QueueOK'
  BY WantedType, DrainType DEF TickDrain, TypeOK
<1>2. ThreadOK'
  BY DEF TickDrain, TypeOK, ThreadOK, SoundOK
<1> QED
  BY <1>1, <1>2 DEF TickDrain, TypeOK, SessionOK, StreamOK, SoundOK, CallerOK, WheelOK,
     session, stream, sound, caller, wheel

LEMMA TickUpdateType ==
  ASSUME TypeOK, TickUpdate
  PROVE  TypeOK'
<1>1. /\ tick.window \in [1..Window -> Samples] /\ tick.cur \in -FullScale..FullScale
      /\ out \in Seq(Samples)
  BY DEF TypeOK, ThreadOK, QueueOK
<1>2. window' \in [1..Window -> Samples] /\ cur' \in -FullScale..FullScale
  <2>1. CASE out # <<>> /\ Store(Shifted(tick.window, out), Shifted(tick.window, out)[Window])
    <3>1. Shifted(tick.window, out) \in [1..Window -> Samples]  BY <1>1, ShiftedIs
    <3>2. Shifted(tick.window, out)[Window] \in -FullScale..FullScale
      BY <3>1, Sizes, SampleIsOffset
    <3> QED  BY <2>1, <3>1, <3>2, StoreType
  <2>2. CASE UNCHANGED <<window, cur>>
    BY <2>2 DEF TypeOK, SoundOK
  <2>3. CASE Store(Shifted(tick.window, [i \in 1..New |-> 0]), Decayed(tick.cur))
    <3>1. Shifted(tick.window, [i \in 1..New |-> 0]) \in [1..Window -> Samples]
      BY <1>1, SilenceType, ShiftedIs
    <3>2. Decayed(tick.cur) \in -FullScale..FullScale  BY <1>1, DecayedType
    <3> QED  BY <2>3, <3>1, <3>2, StoreType
  <2> QED  BY <2>1, <2>2, <2>3 DEF TickUpdate
<1>3. starved' \in 0..HoldTicks + 1 /\ dry' \in 0..DryCap
  <2>1. /\ starved' \in {0, HoldTicks + 1} \/ (starved < HoldTicks /\ starved' = starved + 1)
        /\ dry' = 0 \/ dry' = IF dry < DryCap THEN dry + 1 ELSE dry
    BY DEF TickUpdate, Holding
  <2>2. starved \in 0..HoldTicks + 1 /\ dry \in 0..DryCap  BY DEF TypeOK, SoundOK
  <2> QED  BY <2>1, <2>2, Sizes
<1>4. SoundOK'  BY <1>2, <1>3 DEF TickUpdate, TypeOK, SoundOK
<1>5. ThreadOK'
  <2>1. 0 \in -FullScale..FullScale  BY Sizes
  <2> QED  BY <2>1, CentreType DEF TickUpdate, TypeOK, ThreadOK
<1> QED
  BY <1>4, <1>5 DEF TickUpdate, TypeOK, SessionOK, StreamOK, CallerOK, WheelOK,
     QueueOK, session, stream, caller, wheel, qvars

LEMMA TickDecideType ==
  ASSUME TypeOK, TickDecide
  PROVE  TypeOK'
<1>1. idle' \in 0..GraceTicks - 1
  <2>1. \/ idle' \in {0, idle}
        \/ cur = 0 /\ ~(idle + 1 >= GraceTicks) /\ idle' = idle + 1
    BY DEF TickDecide, GateDue
  <2>2. idle \in 0..GraceTicks - 1  BY DEF TypeOK, SoundOK
  <2> QED  BY <2>1, <2>2, Sizes
<1>2. SoundOK'  BY <1>1 DEF TickDecide, TypeOK, SoundOK
<1>3. ThreadOK'  BY DEF TickDecide, TypeOK, ThreadOK
<1>4. SessionOK'  BY DEF TickDecide, Resuming, TypeOK, SessionOK
<1> QED
  BY <1>2, <1>3, <1>4 DEF TickDecide, TypeOK, StreamOK, CallerOK, WheelOK, QueueOK,
     stream, caller, wheel, qvars

\* Moving a caller, and entering a call.
LEMMA CallType ==
  ASSUME CallerOK, NEW c \in Callers, NEW op,
         NEW place \in {"out", "ensure", "start", "check", "push", "clear",
                        "wait", "join", "stopGap", "close", "closeGap"},
         Call(c, op, place), arg' \in [Callers -> {<<>>} \cup Batches]
  PROVE  CallerOK'
<1>1. left' \in [Callers -> Nat] /\ \A d \in Callers : left'[d] <= Budget[d]
  <2>1. left \in [Callers -> Nat] /\ left[c] > 0 /\ left' = [left EXCEPT ![c] = @ - 1]
    BY DEF CallerOK, Call
  <2>2. left[c] - 1 \in Nat /\ left[c] - 1 <= left[c]  BY <2>1
  <2>3. \A d \in Callers : left[d] <= Budget[d] /\ Budget[d] \in Nat
    BY StreamAssumption DEF CallerOK
  <2>4. left[c] - 1 <= Budget[c]  BY <2>1, <2>2, <2>3
  <2> QED  BY <2>1, <2>2, <2>3, <2>4
<1> QED  BY <1>1 DEF CallerOK, Call, Goto

LEMMA GotoType ==
  ASSUME CallerOK, NEW c \in Callers,
         NEW place \in {"out", "ensure", "start", "check", "push", "clear",
                        "wait", "join", "stopGap", "close", "closeGap"},
         Goto(c, place), UNCHANGED left, arg' \in [Callers -> {<<>>} \cup Batches]
  PROVE  CallerOK'
BY DEF CallerOK, Goto

\* A caller's entry into a call.
LEMMA BeginType ==
  ASSUME TypeOK, NEW c \in Callers, CallerBegins(c)
  PROVE  TypeOK'
<1> USE DEF TypeOK
<1>a. arg \in [Callers -> {<<>>} \cup Batches]  BY DEF CallerOK
<1>1. ASSUME NEW batch \in Batches, PushCall(c, batch) PROVE TypeOK'
  <2>1. arg' \in [Callers -> {<<>>} \cup Batches]  BY <1>1, <1>a DEF PushCall
  <2>2. CallerOK'  BY <1>1, <2>1, CallType DEF PushCall
  <2> QED
    BY <1>1, <2>2 DEF PushCall, SessionOK, StreamOK, SoundOK, ThreadOK, WheelOK,
       QueueOK, session, stream, sound, thread, wheel, qvars
<1>2. ASSUME ClearCall(c) PROVE TypeOK'
  <2>1. CallerOK'  BY <1>2, <1>a, CallType DEF ClearCall
  <2>2. QueueOK'  BY <1>2, EmptySeq, Sizes DEF ClearCall, QClear, QueueOK
  <2> QED
    BY <1>2, <2>1, <2>2 DEF ClearCall, SessionOK, StreamOK, SoundOK, ThreadOK, WheelOK,
       session, stream, sound, thread, wheel
<1>3. ASSUME PauseCall(c) PROVE TypeOK'
  <2>1. CallerOK'
    <3>1. CASE Call(c, "pause", "out")  BY <1>3, <3>1, <1>a, CallType DEF PauseCall
    <3>2. CASE Call(c, "pause", IF Requested THEN "wait" ELSE "out")
      BY <1>3, <3>2, <1>a, CallType DEF PauseCall
    <3> QED  BY <1>3, <3>1, <3>2 DEF PauseCall
  <2>2. SessionOK'  BY <1>3 DEF PauseCall, Requested, SessionOK
  <2> QED
    BY <1>3, <2>1, <2>2 DEF PauseCall, StreamOK, SoundOK, ThreadOK, WheelOK, QueueOK,
       stream, sound, thread, wheel, qvars
<1>4. ASSUME ResumeCall(c) PROVE TypeOK'
  <2>1. CallerOK'  BY <1>4, <1>a, CallType DEF ResumeCall
  <2>2. SessionOK'  BY <1>4 DEF ResumeCall, SessionOK
  <2> QED
    BY <1>4, <2>1, <2>2 DEF ResumeCall, StreamOK, SoundOK, ThreadOK, WheelOK,
       QueueOK, stream, sound, thread, wheel, qvars
<1>5. ASSUME CloseCall(c) PROVE TypeOK'
  <2>1. CallerOK'
    <3>1. CASE Call(c, "close", "close")  BY <1>5, <3>1, <1>a, CallType DEF CloseCall
    <3>2. CASE Call(c, "close", "join")  BY <1>5, <3>2, <1>a, CallType DEF CloseCall
    <3> QED  BY <1>5, <3>1, <3>2 DEF CloseCall
  <2>2. StreamOK'  BY <1>5 DEF CloseCall, StreamOK
  <2> QED
    BY <1>5, <2>1, <2>2 DEF CloseCall, SessionOK, SoundOK, ThreadOK, WheelOK, QueueOK,
       session, sound, thread, wheel, qvars
<1> QED  BY <1>1, <1>2, <1>3, <1>4, <1>5 DEF CallerBegins

\* The sections of a push after its entry.
LEMMA FeedType ==
  ASSUME TypeOK, NEW c \in Callers,
         SessionEnsure(c) \/ StreamStart(c) \/ PushCheck(c) \/ PushRing(c)
  PROVE  TypeOK'
<1> USE DEF TypeOK
<1>a. arg \in [Callers -> {<<>>} \cup Batches]  BY DEF CallerOK
<1>1. ASSUME SessionEnsure(c) PROVE TypeOK'
  <2>1. CallerOK'
    <3>1. Goto(c, "start") \/ Goto(c, "out")  BY <1>1 DEF SessionEnsure
    <3> QED  BY <1>1, <3>1, <1>a, GotoType DEF SessionEnsure
  <2>2. faults' \in 0..MaxFaults
    <3>1. faults' = faults \/ (faults < MaxFaults /\ faults' = faults + 1)
      BY <1>1 DEF SessionEnsure, wheel
    <3> QED  BY <3>1, Sizes DEF WheelOK
  <2>3. /\ engine' \in {engine, "started"} /\ UNCHANGED <<plugged, unplugs>>
        /\ split' = split \/ split' = (split \/ InPair # {})
    BY <1>1 DEF SessionEnsure, wheel
  <2>4. WheelOK'  BY <2>2, <2>3 DEF WheelOK
  <2>5. idle' \in 0..GraceTicks - 1
    <3>1. idle' \in {0, idle}  BY <1>1 DEF SessionEnsure
    <3> QED  BY <3>1, Sizes DEF SoundOK
  <2>6. SoundOK'  BY <1>1, <2>5 DEF SessionEnsure, SoundOK
  <2>7. /\ fd' \in {fd, "live", "none"} /\ initialized' \in {initialized, TRUE}
        /\ paused' \in {paused, FALSE} /\ armed_idle' \in {armed_idle, FALSE}
        /\ pending' = pending /\ unserved' = unserved
    BY <1>1 DEF SessionEnsure, session
  <2>8. SessionOK'  BY <2>7 DEF SessionOK
  <2> QED
    BY <1>1, <2>1, <2>4, <2>6, <2>8 DEF SessionEnsure, StreamOK, ThreadOK, QueueOK,
       stream, thread, qvars
<1>2. ASSUME StreamStart(c) PROVE TypeOK'
  <2>1. CallerOK'
    <3>1. Goto(c, "check") \/ Goto(c, "out")  BY <1>2 DEF StreamStart
    <3> QED  BY <1>2, <3>1, <1>a, GotoType DEF StreamStart
  <2>2. faults' \in 0..MaxFaults
    <3>1. faults' = faults \/ (faults < MaxFaults /\ faults' = faults + 1)
      BY <1>2 DEF StreamStart, wheel
    <3> QED  BY <3>1, Sizes DEF WheelOK
  <2>3. WheelOK'  BY <1>2, <2>2 DEF StreamStart, WheelOK, wheel
  <2>4. SoundOK'
    <3>1. CASE UNCHANGED sound  BY <3>1 DEF SoundOK, sound
    <3>2. CASE window' = Centre /\ cur' = 0 /\ idle' = 0 /\ starved' = 0 /\ dry' = 0
      BY <3>2, Sizes, CentreType DEF SoundOK
    <3> QED  BY <1>2, <3>1, <3>2 DEF StreamStart
  <2>5. StreamOK'  BY <1>2 DEF StreamStart, StreamOK, stream
  <2>6. tpc' \in {tpc, "poll"} /\ UNCHANGED <<tick, torn>>
    BY <1>2 DEF StreamStart, thread
  <2>7. ThreadOK'  BY <2>6 DEF ThreadOK
  <2>8. SessionOK'  BY <1>2 DEF StreamStart, SessionOK
  <2> QED
    BY <1>2, <2>1, <2>3, <2>4, <2>5, <2>7, <2>8 DEF StreamStart, QueueOK, qvars
<1>3. ASSUME PushCheck(c) PROVE TypeOK'
  <2>1. CallerOK'
    BY <1>3, <1>a, GotoType DEF PushCheck
  <2> QED
    BY <1>3, <2>1 DEF PushCheck, SessionOK, StreamOK, SoundOK, ThreadOK, WheelOK,
       QueueOK, session, stream, sound, thread, wheel, qvars
<1>4. ASSUME PushRing(c) PROVE TypeOK'
  <2>1. arg' \in [Callers -> {<<>>} \cup Batches]  BY <1>4, <1>a DEF PushRing
  <2>2. CallerOK'  BY <1>4, <2>1, GotoType DEF PushRing
  <2>3. arg[c] \in Seq(Samples)  BY <1>a, BatchType, EmptySeq
  <2>4. QueueOK'
    <3>1. CASE UNCHANGED qvars  BY <3>1 DEF QueueOK, qvars
    <3>2. CASE QPush(arg[c])  BY <2>3, <3>2, PushType
    <3> QED  BY <1>4, <3>1, <3>2 DEF PushRing
  <2> QED
    BY <1>4, <2>2, <2>4 DEF PushRing, SessionOK, StreamOK, SoundOK, ThreadOK, WheelOK,
       session, stream, sound, thread, wheel
<1> QED  BY <1>1, <1>2, <1>3, <1>4

\* The sections of the other calls after their entry.
LEMMA EndType ==
  ASSUME TypeOK, NEW c \in Callers,
         \/ ClearWindow(c) \/ PauseServed(c) \/ PauseTimeout(c)
         \/ StopJoin(c) \/ StopArm(c) \/ SessionClose(c) \/ SessionArm(c)
  PROVE  TypeOK'
<1> USE DEF TypeOK
<1>a. arg \in [Callers -> {<<>>} \cup Batches]  BY DEF CallerOK
<1>1. ASSUME ClearWindow(c) PROVE TypeOK'
  <2>1. CallerOK'  BY <1>1, <1>a, GotoType DEF ClearWindow
  <2>2. SoundOK'  BY <1>1, Sizes, CentreType DEF ClearWindow, SoundOK
  <2>3. ThreadOK'  BY <1>1 DEF ClearWindow, ThreadOK
  <2> QED
    BY <1>1, <2>1, <2>2, <2>3 DEF ClearWindow, SessionOK, StreamOK, WheelOK, QueueOK,
       session, stream, wheel, qvars
<1>2. ASSUME PauseServed(c) PROVE TypeOK'
  <2>1. CallerOK'  BY <1>2, <1>a, GotoType DEF PauseServed
  <2> QED
    BY <1>2, <2>1 DEF PauseServed, SessionOK, StreamOK, SoundOK, ThreadOK, WheelOK,
       QueueOK, session, stream, sound, thread, wheel, qvars
<1>3. ASSUME PauseTimeout(c) PROVE TypeOK'
  <2>1. CallerOK'  BY <1>3, <1>a, GotoType DEF PauseTimeout
  <2>2. SessionOK'  BY <1>3 DEF PauseTimeout, SessionOK
  <2> QED
    BY <1>3, <2>1, <2>2 DEF PauseTimeout, StreamOK, SoundOK, ThreadOK, WheelOK,
       QueueOK, stream, sound, thread, wheel, qvars
<1>4. ASSUME StopJoin(c) PROVE TypeOK'
  <2>1. CallerOK'
    <3>1. Goto(c, "stopGap") \/ Goto(c, "close")  BY <1>4 DEF StopJoin
    <3> QED  BY <1>4, <3>1, <1>a, GotoType DEF StopJoin
  <2>2. WheelOK'
    <3>1. UNCHANGED wheel \/ \E r \in Results : Write(c, "stop", r)
      BY <1>4 DEF StopJoin
    <3> QED  BY <3>1, WriteType DEF WheelOK, wheel
  <2>3. StreamOK'
    <3>1. StreamStopped \/ UNCHANGED <<running, shutting_down>>  BY <1>4 DEF StopJoin
    <3> QED  BY <1>4, <3>1 DEF StopJoin, StreamStopped, StreamOK
  <2>4. ThreadOK'  BY <1>4 DEF StopJoin, ThreadOK
  <2> QED
    BY <1>4, <2>1, <2>2, <2>3, <2>4 DEF StopJoin, SessionOK, SoundOK, QueueOK, session,
       sound, qvars
<1>5. ASSUME StopArm(c) PROVE TypeOK'
  <2>1. CallerOK'  BY <1>5, <1>a, GotoType DEF StopArm
  <2>2. WheelOK'  BY <1>5, WriteType DEF StopArm
  <2>3. StreamOK'  BY <1>5 DEF StopArm, StreamStopped, StreamOK
  <2>4. SessionOK'  BY <1>5 DEF StopArm, SessionOK
  <2> QED
    BY <1>5, <2>1, <2>2, <2>3, <2>4 DEF StopArm, SoundOK, ThreadOK, QueueOK, sound,
       thread, qvars
<1>6. ASSUME SessionClose(c) PROVE TypeOK'
  <2>1. CallerOK'
    <3>1. Goto(c, "closeGap") \/ Goto(c, "out")  BY <1>6 DEF SessionClose
    <3> QED  BY <1>6, <3>1, <1>a, GotoType DEF SessionClose
  <2>2. WheelOK'
    <3>1. UNCHANGED wheel \/ \E r \in Results : Write(c, "stop", r)
      BY <1>6 DEF SessionClose
    <3> QED  BY <3>1, WriteType DEF WheelOK, wheel
  <2>3. SessionOK'
    <3>1. SessionClosed \/ UNCHANGED session  BY <1>6 DEF SessionClose
    <3> QED  BY <1>6, <3>1 DEF SessionClose, SessionClosed, SessionOK, session
  <2> QED
    BY <1>6, <2>1, <2>2, <2>3 DEF SessionClose, StreamOK, SoundOK, ThreadOK, QueueOK,
       stream, sound, thread, qvars
<1>7. ASSUME SessionArm(c) PROVE TypeOK'
  <2>1. CallerOK'  BY <1>7, <1>a, GotoType DEF SessionArm
  <2>2. WheelOK'  BY <1>7, WriteType DEF SessionArm
  <2>3. SessionOK'  BY <1>7 DEF SessionArm, SessionClosed, SessionOK
  <2> QED
    BY <1>7, <2>1, <2>2, <2>3 DEF SessionArm, StreamOK, SoundOK, ThreadOK, QueueOK,
       stream, sound, thread, qvars
<1> QED  BY <1>1, <1>2, <1>3, <1>4, <1>5, <1>6, <1>7

LEMMA WorldType ==
  ASSUME TypeOK, Unplug \/ Replug
  PROVE  TypeOK'
<1> USE DEF TypeOK
<1>1. ASSUME Unplug PROVE TypeOK'
  <2>1. unplugs' \in 0..MaxUnplugs  BY <1>1, Sizes DEF Unplug, WheelOK
  <2>2. WheelOK'  BY <1>1, <2>1 DEF Unplug, WheelOK
  <2>3. SessionOK'  BY <1>1 DEF Unplug, SessionOK
  <2> QED
    BY <1>1, <2>2, <2>3 DEF Unplug, StreamOK, SoundOK, ThreadOK, CallerOK, QueueOK,
       stream, sound, thread, caller, qvars
<1>2. ASSUME Replug PROVE TypeOK'
  BY <1>2 DEF Replug, SessionOK, StreamOK, SoundOK, ThreadOK, CallerOK, WheelOK,
     QueueOK, session, stream, sound, thread, caller, qvars
<1> QED  BY <1>1, <1>2

LEMMA TypeStep ==
  ASSUME TypeOK, [Next]_vars
  PROVE  TypeOK'
<1>1. ASSUME ThreadStep PROVE TypeOK'
  BY <1>1, ThreadType, TickDrainType, TickUpdateType, TickDecideType DEF ThreadStep
<1>2. ASSUME NEW c \in Callers, CallerBegins(c) PROVE TypeOK'
  BY <1>2, BeginType
<1>3. ASSUME NEW c \in Callers, CallerContinues(c) PROVE TypeOK'
  BY <1>3, FeedType, EndType DEF CallerContinues
<1>4. ASSUME UNCHANGED vars PROVE TypeOK'
  BY <1>4 DEF vars, TypeOK, SessionOK, StreamOK, SoundOK, ThreadOK, CallerOK, WheelOK,
     QueueOK, session, stream, sound, thread, caller, wheel, qvars
<1> QED  BY <1>1, <1>2, <1>3, <1>4, WorldType DEF Next

\* Every counter of the stream stays within the width the code relies on: the
\* window always holds samples, the starvation counter saturates, the gate
\* counts no further than its grace, the queue and a packet keep their bounds.
THEOREM TypeCorrect == Spec => []TypeOK
<1>1. TypeOK /\ [Next]_vars => TypeOK'  BY TypeStep
<1> QED  BY TypeInit, <1>1, PTL DEF Spec
-----------------------------------------------------------------------------
(* Who may be where: the session, the thread and the callers of a close.   *)

Feeding == {"ensure", "start", "check", "push"}
Closing == {"join", "stopGap", "close", "closeGap"}

Places ==
  /\ initialized <=> fd # "none"
  /\ ~running => tpc = "off"
  /\ tpc # "off" => initialized
  /\ running /\ stopfd => shutting_down
  /\ tpc = "exited" /\ ~shutting_down => stream_error # "none"
  /\ \A c \in Callers :
       /\ pc[c] \in Feeding => "push" \in Allowed[c]
       /\ pc[c] \in Closing => "close" \in Allowed[c]
       /\ pc[c] = "start" => initialized
       /\ pc[c] \in {"join", "stopGap"} => running /\ shutting_down
       /\ pc[c] = "stopGap" => tpc = "off"
       /\ pc[c] \in {"close", "closeGap"} => ~running

\* Two callers that feed or close, one of which closes, are one.
LEMMA OneOwner ==
  ASSUME Places, NEW c \in Callers, NEW d \in Callers, pc[c] \in Closing,
         pc[d] \in Feeding \cup Closing
  PROVE  c = d
<1>1. "close" \in Allowed[c] /\ ("push" \in Allowed[d] \/ "close" \in Allowed[d])
  BY DEF Places
<1>2. Allowed[d] \cap {"push", "close"} # {}  BY <1>1
<1> QED  BY <1>1, <1>2, OwnerAssumption

\* The thread leaves by itself only with a reason, or when asked.
LEMMA PlacesThread ==
  ASSUME TypeOK, Places, ThreadStep
  PROVE  Places'
<1> USE DEF TypeOK, SessionOK, StreamOK, ThreadOK
<1>1. CASE ThreadStop
  BY <1>1 DEF ThreadStop, Places, session, stream, caller
<1>2. CASE ThreadHangup
  BY <1>2 DEF ThreadHangup, Exit, Places, session, caller
<1>3. CASE TickTeardown
  BY <1>3 DEF TickTeardown, TickReady, Exit, Places, stream, caller
<1>4. CASE ThreadArm
  BY <1>4 DEF ThreadArm, Exit, Places, stream, caller
<1>5. CASE TickCache
  BY <1>5 DEF TickCache, TickReady, Places, session, stream, caller
<1>6. CASE TickDrain
  BY <1>6 DEF TickDrain, Places, session, stream, caller
<1>7. CASE TickUpdate
  BY <1>7 DEF TickUpdate, Places, session, stream, caller
<1>8. CASE TickDecide
  BY <1>8 DEF TickDecide, Places, stream, caller
<1>9. CASE TickGate
  BY <1>9 DEF TickGate, Exit, Places, session, stream, caller
<1>10. CASE TickWrite
  BY <1>10 DEF TickWrite, Exit, Places, session, stream, caller
<1> QED
  BY <1>1, <1>2, <1>3, <1>4, <1>5, <1>6, <1>7, <1>8, <1>9, <1>10 DEF ThreadStep

\* Entering a call of its list puts a caller where it may be.
LEMMA PlacesBegin ==
  ASSUME TypeOK, Places, NEW c \in Callers, CallerBegins(c)
  PROVE  Places'
<1> USE DEF TypeOK, SessionOK, StreamOK, ThreadOK, CallerOK
<1>1. ASSUME NEW batch \in Batches, PushCall(c, batch) PROVE Places'
  BY <1>1 DEF PushCall, Call, Goto, Places, Feeding, Closing, session, stream, thread
<1>2. CASE ClearCall(c)
  BY <1>2 DEF ClearCall, Call, Goto, Places, Feeding, Closing, session, stream, thread
<1>3. CASE PauseCall(c)
  BY <1>3 DEF PauseCall, Call, Goto, Places, Feeding, Closing, stream, thread
<1>4. CASE ResumeCall(c)
  BY <1>4 DEF ResumeCall, Call, Goto, Places, Feeding, Closing, stream, thread
<1>5. CASE CloseCall(c)
  <2>1. ASSUME NEW d \in Callers, d # c PROVE pc[d] \notin Closing
    <3>1. "close" \in Allowed[c]  BY <1>5 DEF CloseCall, Call
    <3>2. SUFFICES ASSUME pc[d] \in Closing PROVE FALSE  OBVIOUS
    <3>3. Allowed[d] \cap {"push", "close"} # {}  BY <3>2 DEF Places
    <3> QED  BY <2>1, <3>1, <3>3, OwnerAssumption
  <2> QED
    BY <1>5, <2>1 DEF CloseCall, Call, Goto, Places, Feeding, Closing, session, thread
<1> QED  BY <1>1, <1>2, <1>3, <1>4, <1>5 DEF CallerBegins

LEMMA PlacesContinue ==
  ASSUME TypeOK, Places, NEW c \in Callers, CallerContinues(c)
  PROVE  Places'
<1> USE DEF TypeOK, SessionOK, StreamOK, ThreadOK, CallerOK
<1>1. CASE SessionEnsure(c)
  BY <1>1 DEF SessionEnsure, Goto, Places, Feeding, Closing, session, stream, thread
<1>2. CASE StreamStart(c)
  <2>1. ASSUME NEW d \in Callers PROVE pc[d] \notin Closing
    <3> SUFFICES ASSUME pc[d] \in Closing PROVE FALSE  OBVIOUS
    <3>1. pc[c] \in Feeding /\ pc[c] \notin Closing
      BY <1>2 DEF StreamStart, Feeding, Closing
    <3>2. d = c  BY <3>1, OneOwner
    <3> QED  BY <3>1, <3>2
  <2> QED
    BY <1>2, <2>1 DEF StreamStart, Goto, Places, Feeding, Closing, stream, thread
<1>3. CASE PushCheck(c)
  BY <1>3 DEF PushCheck, Goto, Places, Feeding, Closing, session, stream, thread
<1>4. CASE PushRing(c)
  BY <1>4 DEF PushRing, Goto, Places, Feeding, Closing, session, stream, thread
<1>5. CASE ClearWindow(c)
  BY <1>5 DEF ClearWindow, Goto, Places, Feeding, Closing, session, stream
<1>6. CASE PauseServed(c)
  BY <1>6 DEF PauseServed, Goto, Places, Feeding, Closing, session, stream, thread
<1>7. CASE PauseTimeout(c)
  BY <1>7 DEF PauseTimeout, Goto, Places, Feeding, Closing, stream, thread
<1>a. ASSUME pc[c] \in Closing, NEW d \in Callers, d # c
      PROVE  pc[d] \notin Feeding \cup Closing
  BY <1>a, OneOwner
<1>8. CASE StopJoin(c)
  <2>1. \A d \in Callers : d # c => pc[d] \notin Feeding \cup Closing
    BY <1>8, <1>a DEF StopJoin, Closing
  <2>2. CASE Goto(c, "stopGap") /\ UNCHANGED <<running, shutting_down>>
    BY <1>8, <2>1, <2>2 DEF StopJoin, Goto, Places, Feeding, Closing, session
  <2>3. CASE Goto(c, "close") /\ StreamStopped
    BY <1>8, <2>1, <2>3 DEF StopJoin, StreamStopped, Goto, Places, Feeding, Closing, session
  <2> QED  BY <1>8, <2>2, <2>3 DEF StopJoin
<1>9. CASE StopArm(c)
  <2>1. \A d \in Callers : d # c => pc[d] \notin Feeding \cup Closing
    BY <1>9, <1>a DEF StopArm, Closing
  <2> QED
    BY <1>9, <2>1 DEF StopArm, StreamStopped, Goto, Places, Feeding, Closing, thread
<1>10. CASE SessionClose(c)
  <2>1. \A d \in Callers : d # c => pc[d] \notin Feeding \cup Closing
    BY <1>10, <1>a DEF SessionClose, Closing
  <2>2. CASE Goto(c, "closeGap") /\ UNCHANGED session
    BY <1>10, <2>1, <2>2 DEF SessionClose, Goto, Places, Feeding, Closing, session, stream, thread
  <2>3. CASE Goto(c, "out") /\ SessionClosed
    BY <1>10, <2>1, <2>3
    DEF SessionClose, SessionClosed, Goto, Places, Feeding, Closing, stream, thread
  <2> QED  BY <1>10, <2>2, <2>3 DEF SessionClose
<1>11. CASE SessionArm(c)
  <2>1. \A d \in Callers : d # c => pc[d] \notin Feeding \cup Closing
    BY <1>11, <1>a DEF SessionArm, Closing
  <2> QED
    BY <1>11, <2>1 DEF SessionArm, SessionClosed, Goto, Places, Feeding, Closing, stream, thread
<1> QED
  BY <1>1, <1>2, <1>3, <1>4, <1>5, <1>6, <1>7, <1>8, <1>9, <1>10, <1>11 DEF CallerContinues

LEMMA PlacesStep ==
  ASSUME TypeOK, Places, [Next]_vars
  PROVE  Places'
<1>1. ASSUME Unplug \/ Replug PROVE Places'
  BY <1>1 DEF Unplug, Replug, Places, session, stream, thread, caller, TypeOK, SessionOK
<1>2. ASSUME UNCHANGED vars PROVE Places'
  BY <1>2 DEF vars, Places, session, stream, thread, caller
<1> QED  BY <1>1, <1>2, PlacesThread, PlacesBegin, PlacesContinue DEF Next

LEMMA PlacesInvariant == Spec => [](TypeOK /\ Places)
<1>1. Init => Places
  BY DEF Init, Places, Feeding, Closing
<1>2. TypeOK /\ Places /\ [Next]_vars => Places'  BY PlacesStep
<1> QED  BY <1>1, <1>2, TypeCorrect, PTL DEF Spec

\* A stream thread never runs on a closed hidraw_fd: a session is closed only
\* after its thread was joined, and none is started without one.
THEOREM ThreadHasSession == Spec => []SessionOutlivesThread
<1>1. TypeOK /\ Places => SessionOutlivesThread
  BY DEF Places, SessionOutlivesThread, ThreadAlive, TypeOK, StreamOK
<1> QED  BY <1>1, PlacesInvariant, PTL

\* A stream thread that ended by itself left its reason for the next push,
\* until a start replaces it.
THEOREM DeadStreamSaysWhy == Spec => []DeadStreamReported
<1>1. TypeOK /\ Places => DeadStreamReported
  BY DEF Places, DeadStreamReported
<1> QED  BY <1>1, PlacesInvariant, PTL
-----------------------------------------------------------------------------
(* What the wheel has heard.                                               *)

\* The flag is true of the wheel, the tick's copy of it is the flag, and
\* whoever is between the halves of a pair found it clear.
Heard ==
  /\ ArmedIdleTruthful /\ CloseLeavesWheelQuiet /\ PairNotSplit
  /\ fd = "dead" => engine = "cold"
  /\ tpc \in {"cached", "drained", "updated"} => tick.armed = armed_idle
  /\ tpc \in {"gate", "gateGap", "tearGap", "write"} => ~armed_idle
  /\ \A c \in Callers : pc[c] \in {"stopGap", "closeGap"} => ~armed_idle

\* While the thread lives, no caller is between the halves of a pair.
LEMMA ThreadAlone ==
  ASSUME Places, tpc # "off"
  PROVE  InPair \ {"thread"} = {}
BY DEF Places, InPair

\* While a caller closes, the thread and every other caller are outside one.
LEMMA CloserAlone ==
  ASSUME Places, NEW c \in Callers, pc[c] \in Closing, tpc \in {"off", "exited"}
  PROVE  InPair \ {c} = {}
<1>1. \A d \in Callers : pc[d] \in {"stopGap", "closeGap"} => d = c
  BY OneOwner DEF Closing
<1> QED  BY <1>1 DEF InPair

\* A write of somebody alone splits no pair, and one to a wheel that is gone
\* leaves it cold.
LEMMA WriteHeard ==
  ASSUME TypeOK, Heard, NEW p, NEW kind, NEW r, Write(p, kind, r), InPair \ {p} = {}
  PROVE  /\ split' = FALSE
         /\ fd = "live" /\ r = "ok" => engine' = EngineAfter(kind)
         /\ fd = "live" /\ r # "ok" => faults' # 0
         /\ fd # "live" => r = "fatal" /\ engine' = engine /\ faults' = faults
         /\ r # "ok" => engine' = engine
<1>1. split = FALSE  BY DEF Heard, PairNotSplit, TypeOK, WheelOK
<1>2. fd = "live" /\ r # "ok" => faults' # 0
  BY Sizes DEF Write, Results, TypeOK, WheelOK
<1> QED  BY <1>1, <1>2 DEF Write, Results

LEMMA HeardThread ==
  ASSUME TypeOK, Places, Heard, ThreadStep
  PROVE  Heard'
<1> USE DEF TypeOK, SessionOK, ThreadOK
<1>a. ASSUME tpc # "off" PROVE \A c \in Callers : pc[c] \notin {"stopGap", "closeGap"}
  BY <1>a DEF Places
<1>1. CASE ThreadStop
  BY <1>1 DEF ThreadStop, Heard, ArmedIdleTruthful, CloseLeavesWheelQuiet, PairNotSplit,
     session, caller, wheel
<1>2. CASE ThreadHangup
  BY <1>2 DEF ThreadHangup, Exit, Heard, ArmedIdleTruthful, CloseLeavesWheelQuiet,
     PairNotSplit, session, caller, wheel
<1>3. CASE TickTeardown
  <2>1. tpc = "poll" /\ fd = "live" /\ UNCHANGED <<fd, armed_idle, tick, pc>>
    BY <1>3 DEF TickTeardown, TickReady, caller
  <2>2. CASE armed_idle
    BY <1>3, <2>1, <2>2 DEF TickTeardown, Heard, ArmedIdleTruthful,
       CloseLeavesWheelQuiet, PairNotSplit, wheel
  <2>3. CASE ~armed_idle
    <3>1. PICK r \in Results : Write("thread", "stop", r) /\ tpc' \in {"tearGap", "exited"}
      BY <1>3, <2>3 DEF TickTeardown, Exit
    <3>2. split' = FALSE  BY <2>1, <3>1, ThreadAlone, WriteHeard
    <3> QED
      BY <2>1, <2>3, <3>1, <3>2 DEF Heard, ArmedIdleTruthful, CloseLeavesWheelQuiet, PairNotSplit
  <2> QED  BY <2>2, <2>3
<1>4. CASE ThreadArm
  <2>1. tpc \in {"tearGap", "gateGap"} /\ UNCHANGED <<fd, tick, pc>>
    BY <1>4 DEF ThreadArm, caller
  <2>2. PICK r \in Results : /\ Write("thread", "arm", r)
                             /\ armed_idle' = (armed_idle \/ r = "ok")
                             /\ tpc' \in {"poll", "exited"}
    BY <1>4 DEF ThreadArm, Exit
  <2>3. /\ split' = FALSE
        /\ fd = "live" /\ r = "ok" => engine' = "armed"
        /\ fd # "live" => r = "fatal" /\ engine' = engine /\ faults' = faults
    BY <2>1, <2>2, ThreadAlone, WriteHeard DEF EngineAfter
  <2>4. fd # "none" /\ ~armed_idle  BY <2>1 DEF Places, Heard
  <2> QED
    BY <1>a, <2>1, <2>2, <2>3, <2>4 DEF Heard, ArmedIdleTruthful, CloseLeavesWheelQuiet, PairNotSplit
<1>5. CASE TickCache
  BY <1>5 DEF TickCache, TickReady, Heard, ArmedIdleTruthful, CloseLeavesWheelQuiet,
     PairNotSplit, session, caller, wheel
<1>6. CASE TickDrain
  BY <1>6 DEF TickDrain, Heard, ArmedIdleTruthful, CloseLeavesWheelQuiet, PairNotSplit,
     session, caller, wheel
<1>7. CASE TickUpdate
  BY <1>7 DEF TickUpdate, Heard, ArmedIdleTruthful, CloseLeavesWheelQuiet, PairNotSplit,
     session, caller, wheel
<1>8. CASE TickDecide
  <2>1. /\ tpc = "updated" /\ tick.armed = armed_idle
        /\ UNCHANGED <<fd, pc, engine, faults, split>>
    BY <1>8 DEF TickDecide, Heard, caller, wheel
  <2>2. \/ tpc' = "poll" /\ UNCHANGED armed_idle
        \/ tpc' \in {"gate", "write"} /\ ~tick.armed /\ UNCHANGED armed_idle
        \/ tpc' = "write" /\ armed_idle' = FALSE
    BY <1>8 DEF TickDecide, Resuming
  <2> QED
    BY <1>a, <2>1, <2>2 DEF Heard, ArmedIdleTruthful, CloseLeavesWheelQuiet, PairNotSplit
<1>9. CASE TickGate
  <2>1. tpc = "gate" /\ UNCHANGED <<fd, armed_idle, tick, pc>> /\ ~armed_idle
    BY <1>9 DEF TickGate, session, caller, Heard
  <2>2. PICK r \in Results : /\ Write("thread", "stop", r)
                             /\ tpc' \in {"gateGap", "exited"}
    BY <1>9, <2>1 DEF TickGate, Exit
  <2>3. /\ split' = FALSE
        /\ fd # "live" => r = "fatal" /\ engine' = engine /\ faults' = faults
    BY <2>1, <2>2, ThreadAlone, WriteHeard
  <2>4. fd # "none"  BY <2>1 DEF Places
  <2> QED
    BY <2>1, <2>2, <2>3, <2>4 DEF Heard, ArmedIdleTruthful, CloseLeavesWheelQuiet, PairNotSplit
<1>10. CASE TickWrite
  <2>1. tpc = "write" /\ UNCHANGED <<fd, armed_idle, tick, pc>> /\ ~armed_idle
    BY <1>10 DEF TickWrite, session, caller, Heard
  <2>2. PICK r \in Results : /\ Write("thread", tick.packet, r)
                             /\ tpc' \in {"poll", "exited"}
    BY <1>10 DEF TickWrite, Exit
  <2>3. /\ split' = FALSE
        /\ fd # "live" => r = "fatal" /\ engine' = engine /\ faults' = faults
    BY <2>1, <2>2, ThreadAlone, WriteHeard
  <2>4. fd # "none"  BY <2>1 DEF Places
  <2> QED
    BY <2>1, <2>2, <2>3, <2>4 DEF Heard, ArmedIdleTruthful, CloseLeavesWheelQuiet, PairNotSplit
<1> QED
  BY <1>1, <1>2, <1>3, <1>4, <1>5, <1>6, <1>7, <1>8, <1>9, <1>10 DEF ThreadStep

LEMMA HeardBegin ==
  ASSUME TypeOK, Places, Heard, NEW c \in Callers, CallerBegins(c)
  PROVE  Heard'
<1> USE DEF TypeOK, SessionOK, ThreadOK, CallerOK
<1>1. UNCHANGED <<fd, armed_idle, thread, wheel>>
  BY DEF CallerBegins, PushCall, ClearCall, PauseCall, ResumeCall, CloseCall, session
<1>2. \E place \in {"ensure", "clear", "out", "wait", "close", "join"} :
        pc' = [pc EXCEPT ![c] = place]
  BY DEF CallerBegins, PushCall, ClearCall, PauseCall, ResumeCall, CloseCall, Call, Goto
<1> QED
  BY <1>1, <1>2 DEF Heard, ArmedIdleTruthful, CloseLeavesWheelQuiet, PairNotSplit,
     thread, wheel

LEMMA HeardContinue ==
  ASSUME TypeOK, Places, Heard, NEW c \in Callers, CallerContinues(c)
  PROVE  Heard'
<1> USE DEF TypeOK, SessionOK, ThreadOK, CallerOK
<1>1. CASE SessionEnsure(c)
  <2>1. UNCHANGED thread /\ \E place \in {"start", "out"} : pc' = [pc EXCEPT ![c] = place]
    BY <1>1 DEF SessionEnsure, Goto
  <2>2. CASE UNCHANGED <<session, wheel>>
    BY <2>1, <2>2 DEF Heard, ArmedIdleTruthful, CloseLeavesWheelQuiet, PairNotSplit,
       session, wheel, thread
  <2>3. CASE ~UNCHANGED <<session, wheel>>
    <3>1. fd = "none" /\ tpc = "off" /\ ~initialized
      BY <1>1, <2>3 DEF SessionEnsure, Places, session, wheel
    <3>2. \A d \in Callers : pc[d] \notin Closing
      <4> SUFFICES ASSUME NEW d \in Callers, pc[d] \in Closing PROVE FALSE  OBVIOUS
      <4>1. pc[c] = "ensure"  BY <1>1 DEF SessionEnsure
      <4>2. d = c  BY <4>1, OneOwner DEF Feeding
      <4> QED  BY <4>1, <4>2 DEF Closing
    <3>3. InPair = {}  BY <3>1, <3>2 DEF InPair, Closing
    <3>4. CASE fd' = "live"
      BY <1>1, <2>1, <2>3, <3>1, <3>2, <3>3, <3>4 DEF SessionEnsure, Heard, ArmedIdleTruthful,
         CloseLeavesWheelQuiet, PairNotSplit, Closing, thread
    <3>5. CASE fd' = "none"
      <4>1. faults' # 0 /\ split' = split /\ armed_idle' = armed_idle
        BY <1>1, <2>3, <3>1, <3>5, Sizes DEF SessionEnsure, session, wheel, WheelOK
      <4> QED
        BY <2>1, <3>1, <3>5, <4>1 DEF Heard, ArmedIdleTruthful, CloseLeavesWheelQuiet,
           PairNotSplit, thread
    <3> QED  BY <1>1, <2>3, <3>1, <3>4, <3>5 DEF SessionEnsure
  <2> QED  BY <2>2, <2>3
<1>2. CASE StreamStart(c)
  <2>1. UNCHANGED <<fd, armed_idle, engine, split, tick>>
    BY <1>2 DEF StreamStart, wheel, thread
  <2>2. \E place \in {"check", "out"} : pc' = [pc EXCEPT ![c] = place]
    BY <1>2 DEF StreamStart, Goto
  <2>3. faults' = faults \/ faults' # 0
    BY <1>2, Sizes DEF StreamStart, wheel, WheelOK
  <2>4. tpc' = tpc \/ tpc' = "poll"  BY <1>2 DEF StreamStart, thread
  <2> QED
    BY <2>1, <2>2, <2>3, <2>4 DEF Heard, ArmedIdleTruthful, CloseLeavesWheelQuiet, PairNotSplit
<1>3. CASE PushCheck(c) \/ PushRing(c) \/ ClearWindow(c) \/ PauseServed(c) \/ PauseTimeout(c)
  <2>1. UNCHANGED <<fd, armed_idle, tpc, tick, wheel>>
    BY <1>3 DEF PushCheck, PushRing, ClearWindow, PauseServed, PauseTimeout, session, thread
  <2>2. \E place \in {"out", "push"} : pc' = [pc EXCEPT ![c] = place]
    BY <1>3 DEF PushCheck, PushRing, ClearWindow, PauseServed, PauseTimeout, Goto
  <2> QED
    BY <2>1, <2>2 DEF Heard, ArmedIdleTruthful, CloseLeavesWheelQuiet, PairNotSplit, wheel
<1>a. ASSUME pc[c] \in Closing, NEW d \in Callers, d # c
      PROVE  pc[d] \notin {"stopGap", "closeGap"}
  BY <1>a, OneOwner DEF Closing
<1>4. CASE StopJoin(c)
  <2>1. /\ pc[c] = "join" /\ tpc = "exited" /\ tpc' = "off" /\ fd # "none"
        /\ UNCHANGED <<session, tick>>
    BY <1>4 DEF StopJoin, Places
  <2>2. InPair \ {c} = {}  BY <2>1, CloserAlone DEF Closing
  <2>3. CASE UNCHANGED wheel /\ Goto(c, "close")
    BY <2>1, <2>3 DEF Goto, Heard, ArmedIdleTruthful, CloseLeavesWheelQuiet, PairNotSplit,
       session, wheel
  <2>4. ASSUME ~armed_idle, NEW r \in Results, Write(c, "stop", r),
               Goto(c, "stopGap") \/ Goto(c, "close")
        PROVE  Heard'
    <3>1. /\ split' = FALSE
          /\ fd # "live" => r = "fatal" /\ engine' = engine /\ faults' = faults
      BY <2>2, <2>4, WriteHeard
    <3> QED
      BY <2>1, <2>4, <3>1 DEF Goto, Heard, ArmedIdleTruthful, CloseLeavesWheelQuiet,
         PairNotSplit, session
  <2> QED  BY <1>4, <2>3, <2>4 DEF StopJoin, StillStarted
<1>5. CASE StopArm(c)
  <2>1. /\ pc[c] = "stopGap" /\ tpc = "off" /\ ~armed_idle
        /\ UNCHANGED <<fd, thread>> /\ pc' = [pc EXCEPT ![c] = "close"]
    BY <1>5 DEF StopArm, Places, Heard, Goto
  <2>2. InPair \ {c} = {}  BY <2>1, CloserAlone DEF Closing
  <2>3. PICK r \in Results : Write(c, "arm", r) /\ armed_idle' = (armed_idle \/ r = "ok")
    BY <1>5 DEF StopArm
  <2>4. /\ split' = FALSE
        /\ fd = "live" /\ r = "ok" => engine' = "armed"
        /\ fd # "live" => r = "fatal" /\ engine' = engine /\ faults' = faults
    BY <2>2, <2>3, WriteHeard DEF EngineAfter
  <2>5. \A d \in Callers : d # c => pc[d] \notin {"stopGap", "closeGap"}
    BY <1>a, <2>1 DEF Closing
  <2> QED
    BY <2>1, <2>3, <2>4, <2>5 DEF Heard, ArmedIdleTruthful, CloseLeavesWheelQuiet,
       PairNotSplit, thread
<1>6. CASE SessionClose(c)
  <2>1. pc[c] = "close" /\ tpc = "off" /\ UNCHANGED thread
    BY <1>6 DEF SessionClose, Places
  <2>2. InPair \ {c} = {}  BY <2>1, CloserAlone DEF Closing
  <2>3. CASE ~(fd # "none" /\ StillStarted)
    <3>1. /\ fd = "none" \/ armed_idle
          /\ SessionClosed /\ UNCHANGED wheel /\ pc' = [pc EXCEPT ![c] = "out"]
      BY <1>6, <2>3 DEF SessionClose, StillStarted, Goto, Places
    <3> QED
      BY <2>1, <3>1 DEF SessionClosed, Heard, ArmedIdleTruthful, CloseLeavesWheelQuiet,
         PairNotSplit, wheel, thread
  <2>4. CASE fd # "none" /\ StillStarted
    <3>1. PICK r \in Results :
            /\ Write(c, "stop", r)
            /\ IF r = "ok" THEN Goto(c, "closeGap") /\ UNCHANGED session
                           ELSE Goto(c, "out") /\ SessionClosed
      BY <1>6, <2>4 DEF SessionClose
    <3>2. /\ split' = FALSE
          /\ fd = "live" /\ r # "ok" => faults' # 0
          /\ fd # "live" => r = "fatal" /\ engine' = engine /\ faults' = faults
          /\ r # "ok" => engine' = engine
      BY <2>2, <3>1, WriteHeard
    <3>3. CASE r = "ok"
      BY <2>1, <2>4, <3>1, <3>2, <3>3 DEF StillStarted, Goto, Heard, ArmedIdleTruthful,
         CloseLeavesWheelQuiet, PairNotSplit, session, thread
    <3>4. CASE r # "ok"
      BY <2>1, <2>4, <3>1, <3>2, <3>4 DEF StillStarted, Goto, SessionClosed, Heard,
         ArmedIdleTruthful, CloseLeavesWheelQuiet, PairNotSplit, thread
    <3> QED  BY <3>3, <3>4
  <2> QED  BY <2>3, <2>4
<1>7. CASE SessionArm(c)
  <2>1. /\ pc[c] = "closeGap" /\ tpc = "off" /\ SessionClosed /\ UNCHANGED thread
        /\ pc' = [pc EXCEPT ![c] = "out"]
    BY <1>7 DEF SessionArm, Goto, Places
  <2>2. InPair \ {c} = {}  BY <2>1, CloserAlone DEF Closing
  <2>3. PICK r \in Results : Write(c, "arm", r)  BY <1>7 DEF SessionArm
  <2>4. /\ split' = FALSE
        /\ fd = "live" /\ r = "ok" => engine' = "armed"
        /\ fd = "live" /\ r # "ok" => faults' # 0
        /\ fd # "live" => r = "fatal" /\ engine' = engine /\ faults' = faults
    BY <2>2, <2>3, WriteHeard DEF EngineAfter
  <2> QED
    BY <2>1, <2>3, <2>4 DEF SessionClosed, Heard, ArmedIdleTruthful, CloseLeavesWheelQuiet,
       PairNotSplit, thread
<1> QED
  BY <1>1, <1>2, <1>3, <1>4, <1>5, <1>6, <1>7 DEF CallerContinues

LEMMA HeardStep ==
  ASSUME TypeOK, Places, Heard, [Next]_vars
  PROVE  Heard'
<1>1. ASSUME Unplug PROVE Heard'
  BY <1>1 DEF Unplug, Heard, ArmedIdleTruthful, CloseLeavesWheelQuiet, PairNotSplit,
     thread, caller, TypeOK, SessionOK
<1>2. ASSUME Replug PROVE Heard'
  BY <1>2 DEF Replug, Heard, ArmedIdleTruthful, CloseLeavesWheelQuiet, PairNotSplit,
     session, thread, caller
<1>3. ASSUME UNCHANGED vars PROVE Heard'
  BY <1>3 DEF vars, Heard, ArmedIdleTruthful, CloseLeavesWheelQuiet, PairNotSplit,
     session, thread, caller, wheel
<1> QED  BY <1>1, <1>2, <1>3, HeardThread, HeardBegin, HeardContinue DEF Next

LEMMA HeardInvariant == Spec => [](TypeOK /\ Places /\ Heard)
<1>1. Init => Heard
  BY DEF Init, Heard, ArmedIdleTruthful, CloseLeavesWheelQuiet, PairNotSplit
<1>2. TypeOK /\ Places /\ Heard /\ [Next]_vars => Heard'  BY HeardStep
<1> QED  BY <1>1, <1>2, PlacesInvariant, PTL DEF Spec

\* Without a failing system call, close never lets go of a wheel whose engine
\* it left running: it finds the pair sent, or sends it, or the wheel is gone.
THEOREM CloseQuiets == Spec => []CloseLeavesWheelQuiet
<1>1. Heard => CloseLeavesWheelQuiet  BY DEF Heard
<1> QED  BY <1>1, HeardInvariant, PTL
-----------------------------------------------------------------------------
(* A served Pause.                                                         *)

\* A paused session that is not being closed and whose request was taken has
\* its engine armed, and the tick under way, if any, knows of the pause.
PauseHeld ==
  /\ paused /\ initialized /\ ~pending /\ ~unserved /\ faults = 0
  /\ tpc # "exited"
  /\ \A c \in Callers : pc[c] \notin {"stopGap", "close", "closeGap"}
  => /\ armed_idle
     /\ tpc \in {"off", "poll", "cached", "drained", "updated"}
     /\ tpc \in {"cached", "drained", "updated"} => tick.paused

LEMMA HeldThread ==
  ASSUME TypeOK, Places, PauseHeld, ThreadStep
  PROVE  PauseHeld'
<1> USE DEF TypeOK, SessionOK, ThreadOK
<1>1. CASE ThreadStop
  BY <1>1 DEF ThreadStop, PauseHeld
<1>2. CASE ThreadHangup
  BY <1>2 DEF ThreadHangup, Exit, PauseHeld
<1>3. CASE TickTeardown
  <2>1. CASE armed_idle
    BY <1>3, <2>1 DEF TickTeardown, TickReady, PauseHeld, wheel, caller
  <2>2. CASE ~armed_idle
    <3>1. pending' = TRUE \/ tpc' = "exited"
      BY <1>3, <2>2 DEF TickTeardown, Exit
    <3> QED  BY <3>1 DEF PauseHeld
  <2> QED  BY <2>1, <2>2
<1>4. CASE ThreadArm
  <2>1. tpc' = "exited" \/ (tpc' = "poll" /\ armed_idle' = TRUE)
    BY <1>4 DEF ThreadArm, Exit
  <2> QED  BY <2>1 DEF PauseHeld
<1>5. CASE TickCache
  BY <1>5 DEF TickCache, TickReady, PauseHeld, session, caller, wheel
<1>6. CASE TickDrain
  BY <1>6 DEF TickDrain, PauseHeld, session, caller, wheel
<1>7. CASE TickUpdate
  BY <1>7 DEF TickUpdate, PauseHeld, session, caller, wheel
<1>8. CASE TickDecide
  <2>1. tpc = "updated" /\ UNCHANGED <<initialized, paused, pending, unserved, faults, pc>>
    BY <1>8 DEF TickDecide, caller, wheel
  <2>2. ~tick.paused \/ (tpc' = "poll" /\ UNCHANGED armed_idle)
    BY <1>8 DEF TickDecide
  <2> QED  BY <2>1, <2>2 DEF PauseHeld
<1>9. CASE TickGate
  <2>1. tpc = "gate" /\ UNCHANGED <<session, unserved, pc>>
    BY <1>9 DEF TickGate, caller
  <2>2. faults' = 0 => faults = 0
    BY <1>9, Sizes DEF TickGate, Write, wheel, WheelOK
  <2> QED  BY <2>1, <2>2 DEF PauseHeld, session
<1>10. CASE TickWrite
  <2>1. tpc = "write" /\ UNCHANGED <<session, unserved, pc>>
    BY <1>10 DEF TickWrite, caller
  <2>2. faults' = 0 => faults = 0
    BY <1>10, Sizes DEF TickWrite, Write, WheelOK
  <2> QED  BY <2>1, <2>2 DEF PauseHeld, session
<1> QED
  BY <1>1, <1>2, <1>3, <1>4, <1>5, <1>6, <1>7, <1>8, <1>9, <1>10 DEF ThreadStep

LEMMA HeldBegin ==
  ASSUME TypeOK, Places, PauseHeld, NEW c \in Callers, CallerBegins(c)
  PROVE  PauseHeld'
<1> USE DEF TypeOK, SessionOK, ThreadOK, CallerOK
<1>1. ASSUME NEW batch \in Batches, PushCall(c, batch) PROVE PauseHeld'
  BY <1>1 DEF PushCall, Call, Goto, PauseHeld, session, thread, wheel
<1>2. CASE ClearCall(c)
  BY <1>2 DEF ClearCall, Call, Goto, PauseHeld, session, thread, wheel
<1>3. CASE PauseCall(c)
  <2>1. /\ UNCHANGED <<initialized, armed_idle, unserved, thread, wheel>>
        /\ \/ UNCHANGED <<paused, pending>>
           \/ pending' = (pending \/ initialized)
        /\ \E place \in {"out", "wait"} : pc' = [pc EXCEPT ![c] = place]
        /\ pc[c] = "out"
    BY <1>3 DEF PauseCall, Requested, Call, Goto
  <2>2. CASE UNCHANGED <<paused, pending>>
    BY <2>1, <2>2 DEF PauseHeld, thread, wheel
  <2>3. CASE pending' = (pending \/ initialized)
    <3>1. initialized' => pending'  BY <2>1, <2>3
    <3> QED  BY <3>1 DEF PauseHeld
  <2> QED  BY <2>1, <2>2, <2>3
<1>4. CASE ResumeCall(c)
  BY <1>4 DEF ResumeCall, PauseHeld
<1>5. CASE CloseCall(c)
  BY <1>5 DEF CloseCall, Call, Goto, PauseHeld, session, thread, wheel
<1> QED  BY <1>1, <1>2, <1>3, <1>4, <1>5 DEF CallerBegins

LEMMA HeldContinue ==
  ASSUME TypeOK, Places, PauseHeld, NEW c \in Callers, CallerContinues(c)
  PROVE  PauseHeld'
<1> USE DEF TypeOK, SessionOK, ThreadOK, CallerOK
<1>1. CASE SessionEnsure(c)
  <2>1. \/ paused' = FALSE
        \/ UNCHANGED session /\ UNCHANGED wheel
        \/ fd' = "none" /\ initialized' = initialized /\ (fd = "none" \/ ~initialized)
    BY <1>1 DEF SessionEnsure
  <2>2. /\ UNCHANGED <<thread, unserved>> /\ pc[c] = "ensure"
        /\ \E place \in {"start", "out"} : pc' = [pc EXCEPT ![c] = place]
    BY <1>1 DEF SessionEnsure, Goto
  <2> QED  BY <2>1, <2>2 DEF Places, PauseHeld, session, wheel, thread
<1>2. CASE StreamStart(c)
  <2>1. /\ UNCHANGED <<initialized, paused, armed_idle>> /\ pc[c] = "start"
        /\ \E place \in {"check", "out"} : pc' = [pc EXCEPT ![c] = place]
    BY <1>2 DEF StreamStart, Goto
  <2>2. CASE running
    BY <1>2, <2>1, <2>2 DEF StreamStart, PauseHeld, thread, wheel
  <2>3. CASE ~running
    <3>1. /\ tpc = "off" /\ tpc' \in {"off", "poll"} /\ unserved' = (unserved \/ pending)
      BY <1>2, <2>3 DEF StreamStart, Places
    <3>2. faults' = 0 => faults = 0
      BY <1>2, <2>3, Sizes DEF StreamStart, WheelOK
    <3> QED  BY <2>1, <3>1, <3>2 DEF PauseHeld
  <2> QED  BY <2>2, <2>3
<1>3. CASE PushCheck(c) \/ PushRing(c) \/ ClearWindow(c) \/ PauseServed(c)
  <2>1. UNCHANGED <<session, unserved, tpc, tick, wheel>>
    BY <1>3 DEF PushCheck, PushRing, ClearWindow, PauseServed, thread
  <2>2. /\ pc[c] \in {"check", "push", "clear", "wait"}
        /\ \E place \in {"out", "push"} : pc' = [pc EXCEPT ![c] = place]
    BY <1>3 DEF PushCheck, PushRing, ClearWindow, PauseServed, Goto
  <2> QED  BY <2>1, <2>2 DEF PauseHeld, session, wheel
<1>4. CASE PauseTimeout(c)
  BY <1>4 DEF PauseTimeout, PauseHeld
<1>5. CASE StopJoin(c)
  <2>1. pc[c] = "join" /\ pc'[c] \in {"stopGap", "close"}
    BY <1>5 DEF StopJoin, Goto
  <2> QED  BY <2>1 DEF PauseHeld
<1>6. CASE StopArm(c)
  BY <1>6 DEF StopArm, Goto, PauseHeld
<1>7. CASE SessionClose(c)
  <2>1. pc'[c] = "closeGap" \/ initialized' = FALSE
    BY <1>7 DEF SessionClose, SessionClosed, Goto
  <2> QED  BY <2>1 DEF PauseHeld
<1>8. CASE SessionArm(c)
  BY <1>8 DEF SessionArm, SessionClosed, PauseHeld
<1> QED
  BY <1>1, <1>2, <1>3, <1>4, <1>5, <1>6, <1>7, <1>8 DEF CallerContinues

LEMMA HeldStep ==
  ASSUME TypeOK, Places, PauseHeld, [Next]_vars
  PROVE  PauseHeld'
<1>1. ASSUME Unplug \/ Replug PROVE PauseHeld'
  BY <1>1 DEF Unplug, Replug, PauseHeld, session, thread, caller
<1>2. ASSUME UNCHANGED vars PROVE PauseHeld'
  BY <1>2 DEF vars, PauseHeld, session, thread, caller, wheel
<1> QED  BY <1>1, <1>2, HeldThread, HeldBegin, HeldContinue DEF Next

\* logiTrueForcePause: once its request was taken, no race with the silence
\* gate, a resume packet in flight, a Resume or another Pause leaves a paused
\* engine running and unfed.
THEOREM PauseTakes == Spec => []PausedEngineDown
<1>1. Init => PauseHeld  BY DEF Init, PauseHeld
<1>2. TypeOK /\ Places /\ PauseHeld /\ [Next]_vars => PauseHeld'  BY HeldStep
<1>3. TypeOK /\ Places /\ PauseHeld => PausedEngineDown
  BY DEF Places, PauseHeld, PausedEngineDown
<1> QED  BY <1>1, <1>2, <1>3, PlacesInvariant, PTL DEF Spec
-----------------------------------------------------------------------------
(* A starved stream.                                                       *)

LEMMA Scaled ==
  ASSUME NEW a \in Nat, NEW x \in Nat, NEW y \in Nat
  PROVE  /\ a * x \in Nat /\ a * (x + 1) = a * x + a
         /\ x <= y => a * x <= a * y
<1>1. a * x \in Nat /\ a * (x + 1) = a * x + a  OBVIOUS
<1>2. ASSUME x <= y PROVE a * x <= a * y
  <2>1. y - x \in Nat /\ a * y = a * x + a * (y - x)  BY <1>2
  <2>2. a * (y - x) \in Nat  BY <2>1
  <2> QED  BY <1>1, <2>1, <2>2
<1> QED  BY <1>1, <1>2

\* After n dry ticks a force is centred or within what n - HoldTicks steps of
\* the decay leave of full scale.
ForceBelow(v, n) ==
  n >= HoldTicks => \/ v = 0
                    \/ /\ v <= FullScale - DecayStep * (n - HoldTicks)
                       /\ -v <= FullScale - DecayStep * (n - HoldTicks)

\* After n dry ticks the slots shifted in since the hold are silent.
QuietBehind(w, n) ==
  n >= HoldTicks =>
    \A i \in 1..Window : i > Window - New * (n - HoldTicks) => w[i] = 0

\* The window and the force obey both, and so does the tick's copy of them.
Starving ==
  /\ starved = IF dry <= HoldTicks THEN dry ELSE HoldTicks + 1
  /\ ForceBelow(cur, dry) /\ QuietBehind(window, dry)
  /\ tpc = "drained" => ForceBelow(tick.cur, dry) /\ QuietBehind(tick.window, dry)

LEMMA CentredIsQuiet ==
  ASSUME NEW n \in Nat
  PROVE  ForceBelow(0, n) /\ QuietBehind(Centre, n)
BY DEF ForceBelow, QuietBehind, Centre

\* Until the hold is over nothing is asked.
LEMMA HeldIsBelow ==
  ASSUME NEW n \in 0..HoldTicks, NEW v \in -FullScale..FullScale,
         NEW w \in [1..Window -> Samples]
  PROVE  ForceBelow(v, n) /\ QuietBehind(w, n)
<1>1. n \in Nat /\ HoldTicks \in Nat /\ FullScale \in Nat /\ Window \in Nat  BY Sizes
<1>2. CASE n < HoldTicks  BY <1>1, <1>2 DEF ForceBelow, QuietBehind
<1>3. CASE n = HoldTicks
  <2>1. DecayStep * (n - HoldTicks) = 0 /\ New * (n - HoldTicks) = 0
    BY <1>1, <1>3, Sizes
  <2> QED  BY <1>1, <2>1 DEF ForceBelow, QuietBehind
<1> QED  BY <1>1, <1>2, <1>3

\* decay_towards_centre takes one step off the bound.
LEMMA DecayStepsDown ==
  ASSUME NEW n \in 0..DryCap, n >= HoldTicks, NEW v \in -FullScale..FullScale,
         ForceBelow(v, n)
  PROVE  ForceBelow(Decayed(v), IF n < DryCap THEN n + 1 ELSE n)
<1> DEFINE k == n - HoldTicks
           b == DecayStep * k
<1>1. /\ n \in Nat /\ HoldTicks \in Nat /\ FullScale \in Nat /\ DecayStep \in Nat
      /\ DecayStep >= 1 /\ DecayTicks \in Nat /\ DryCap \in Nat
      /\ DryCap >= HoldTicks + DecayTicks /\ v \in Int
  BY Sizes
<1>2. k \in Nat /\ (n + 1) - HoldTicks = k + 1  BY <1>1
<1>3. v = 0 \/ (v <= FullScale - b /\ -v <= FullScale - b)
  BY DEF ForceBelow
<1> HIDE DEF k
<1>4. b \in Nat /\ DecayStep * (k + 1) = b + DecayStep  BY <1>1, <1>2, Scaled
<1>5. CASE n < DryCap
  <2> HIDE DEF b
  <2>1. \/ Decayed(v) = 0
        \/ /\ Decayed(v) <= FullScale - (b + DecayStep)
           /\ -Decayed(v) <= FullScale - (b + DecayStep)
    BY <1>1, <1>3, <1>4 DEF Decayed
  <2>2. DecayStep * ((n + 1) - HoldTicks) = b + DecayStep  BY <1>2, <1>4
  <2> QED  BY <1>5, <2>1, <2>2 DEF ForceBelow
<1>6. CASE ~(n < DryCap)
  <2>1. DecayTicks <= k  BY <1>1, <1>6 DEF k
  <2>2. DecayStep * DecayTicks <= b  BY <1>1, <1>2, <2>1, Scaled
  <2>3. DecayStep * DecayTicks \in Nat /\ DecayStep * DecayTicks >= FullScale
    BY <1>1, StreamAssumption, Scaled
  <2> HIDE DEF b
  <2>4. v = 0  BY <1>1, <1>3, <1>4, <2>2, <2>3
  <2>5. Decayed(v) = 0  BY <1>1, <2>4 DEF Decayed
  <2> QED  BY <1>6, <2>5 DEF ForceBelow
<1> QED  BY <1>5, <1>6

\* A starved tick shifts New slots of silence in behind the silent ones.
LEMMA SilenceMovesIn ==
  ASSUME NEW n \in 0..DryCap, n >= HoldTicks, NEW w \in [1..Window -> Samples],
         QuietBehind(w, n)
  PROVE  QuietBehind(Shifted(w, [i \in 1..New |-> 0]), IF n < DryCap THEN n + 1 ELSE n)
<1> DEFINE k == n - HoldTicks
           q == New * k
           z == [i \in 1..New |-> 0]
           s == Shifted(w, z)
           m == IF n < DryCap THEN n + 1 ELSE n
<1>1. /\ n \in Nat /\ HoldTicks \in Nat /\ New \in Nat /\ New >= 1 /\ New <= Window
      /\ Window \in Nat /\ DryCap \in Nat /\ DryCap >= HoldTicks + Window
  BY Sizes
<1>2. k \in Nat /\ (n + 1) - HoldTicks = k + 1  BY <1>1
<1>3. \A i \in 1..Window : i > Window - q => w[i] = 0  BY DEF QuietBehind
<1>4. z \in Seq(Samples) /\ Len(z) = New /\ \A i \in 1..New : z[i] = 0
  BY SilenceType
<1>5. ASSUME NEW i \in 1..Window
      PROVE  s[i] = IF New + i <= Window THEN w[New + i] ELSE 0
  <2> HIDE DEF z
  <2>1. s[i] = IF Len(z) + i <= Window THEN w[Len(z) + i] ELSE z[(Len(z) + i) - Window]
    BY <1>4, ShiftedIs
  <2>2. ~(New + i <= Window) => (New + i) - Window \in 1..New  BY <1>1
  <2> QED  BY <1>4, <2>1, <2>2
<1> HIDE DEF k, s
<1>6. q \in Nat /\ New * (k + 1) = q + New  BY <1>1, <1>2, Scaled
<1>7. ASSUME NEW i \in 1..Window, i > Window - New * (m - HoldTicks) PROVE s[i] = 0
  <2>1. CASE n < DryCap
    <3>1. New * (m - HoldTicks) = q + New  BY <1>2, <1>6, <2>1
    <3> HIDE DEF q, m
    <3>2. i > Window - (q + New)  BY <1>7, <3>1
    <3>3. CASE New + i <= Window
      <4>1. New + i \in 1..Window /\ New + i > Window - q  BY <1>1, <1>6, <3>2, <3>3
      <4> QED  BY <1>3, <1>5, <3>3, <4>1
    <3>4. CASE ~(New + i <= Window)  BY <1>5, <3>4
    <3> QED  BY <3>3, <3>4
  <2>2. CASE ~(n < DryCap)
    <3>1. Window <= k  BY <1>1, <2>2 DEF k
    <3>2. k <= q
      <4>1. New * k = k + (New - 1) * k /\ New - 1 \in Nat  BY <1>1, <1>2
      <4>2. (New - 1) * k \in Nat  BY <1>2, <4>1
      <4> QED  BY <1>2, <4>1, <4>2
    <3> HIDE DEF q, m
    <3>3. \A j \in 1..Window : w[j] = 0  BY <1>1, <1>2, <1>3, <1>6, <3>1, <3>2
    <3>4. New + i <= Window => New + i \in 1..Window  BY <1>1
    <3> QED  BY <1>5, <3>3, <3>4
  <2> QED  BY <2>1, <2>2
<1>8. QuietBehind(s, m)
  <2> HIDE DEF m
  <2> QED  BY <1>7 DEF QuietBehind
<1> QED  BY <1>8 DEF s

\* A clear racing the store only silences further.
LEMMA TornIsQuieter ==
  ASSUME NEW n \in Nat, NEW w \in [1..Window -> Samples],
         NEW v \in -FullScale..FullScale, Store(w, v),
         ForceBelow(v, n), QuietBehind(w, n)
  PROVE  ForceBelow(cur', n) /\ QuietBehind(window', n)
<1>1. /\ \A i \in 1..Window : window'[i] = w[i] \/ window'[i] = 0
      /\ cur' = v \/ cur' = 0
  BY StoreType
<1> QED  BY <1>1 DEF ForceBelow, QuietBehind

LEMMA StarvingUpdate ==
  ASSUME TypeOK, Starving, TickUpdate
  PROVE  Starving'
<1>1. /\ tick.window \in [1..Window -> Samples] /\ tick.cur \in -FullScale..FullScale
      /\ out \in Seq(Samples) /\ dry \in 0..DryCap /\ tpc = "drained" /\ tpc' = "updated"
      /\ window \in [1..Window -> Samples] /\ cur \in -FullScale..FullScale
  BY DEF TypeOK, ThreadOK, QueueOK, SoundOK, TickUpdate
<1>2. window' \in [1..Window -> Samples] /\ cur' \in -FullScale..FullScale
  BY TickUpdateType DEF TypeOK, SoundOK
<1>3. /\ starved = IF dry <= HoldTicks THEN dry ELSE HoldTicks + 1
      /\ ForceBelow(tick.cur, dry) /\ QuietBehind(tick.window, dry)
  BY <1>1 DEF Starving
<1>4. /\ dry \in Nat /\ HoldTicks \in Nat /\ DryCap \in Nat /\ DryCap > HoldTicks
  BY <1>1, Sizes
<1>5. CASE starved' = 0 /\ dry' = 0
  <2>1. 0 \in 0..HoldTicks  BY Sizes
  <2>2. ForceBelow(cur', 0) /\ QuietBehind(window', 0)  BY <1>2, <2>1, HeldIsBelow
  <2> QED  BY <1>1, <1>5, <2>1, <2>2 DEF Starving
<1>6. CASE /\ Holding /\ starved' = starved + 1
           /\ dry' = IF dry < DryCap THEN dry + 1 ELSE dry
           /\ UNCHANGED <<window, cur>>
  <2>1. starved = dry /\ dry < HoldTicks /\ dry' = dry + 1 /\ dry + 1 \in 0..HoldTicks
    BY <1>3, <1>4, <1>6 DEF Holding
  <2>2. ForceBelow(cur, dry + 1) /\ QuietBehind(window, dry + 1)
    BY <1>1, <2>1, HeldIsBelow
  <2> QED  BY <1>1, <1>4, <1>6, <2>1, <2>2 DEF Starving
<1>7. CASE /\ ~Holding
           /\ Store(Shifted(tick.window, [i \in 1..New |-> 0]), Decayed(tick.cur))
           /\ starved' = HoldTicks + 1
           /\ dry' = IF dry < DryCap THEN dry + 1 ELSE dry
  <2> DEFINE n == IF dry < DryCap THEN dry + 1 ELSE dry
             w == Shifted(tick.window, [i \in 1..New |-> 0])
             v == Decayed(tick.cur)
  <2>1. dry >= HoldTicks  BY <1>3, <1>4, <1>7 DEF Holding
  <2>2. ForceBelow(v, n)  BY <1>1, <1>3, <2>1, DecayStepsDown
  <2>3. QuietBehind(w, n)  BY <1>1, <1>3, <2>1, SilenceMovesIn
  <2>4. w \in [1..Window -> Samples]  BY <1>1, SilenceType, ShiftedIs
  <2>5. v \in -FullScale..FullScale  BY <1>1, DecayedType
  <2>6. n \in Nat /\ n > HoldTicks  BY <1>1, <1>4, <2>1
  <2> HIDE DEF w, v
  <2>7. Store(w, v) /\ dry' = n  BY <1>7 DEF w, v
  <2> HIDE DEF n
  <2>8. ForceBelow(cur', n) /\ QuietBehind(window', n)
    BY <2>2, <2>3, <2>4, <2>5, <2>6, <2>7, TornIsQuieter
  <2> QED  BY <1>1, <1>4, <1>7, <2>6, <2>7, <2>8 DEF Starving
<1> QED  BY <1>5, <1>6, <1>7 DEF TickUpdate

LEMMA StarvingStep ==
  ASSUME TypeOK, Places, Starving, [Next]_vars
  PROVE  Starving'
<1> USE DEF TypeOK
<1>a. ASSUME UNCHANGED <<window, cur, starved, dry>>,
             tpc' # "drained" \/ UNCHANGED <<tpc, tick>>
      PROVE  Starving'
  BY <1>a DEF Starving
<1>1. CASE UNCHANGED vars
  BY <1>1, <1>a DEF vars, sound, thread
<1>2. CASE ThreadStep /\ ~TickDrain /\ ~TickUpdate
  <2>1. CASE ThreadStop  BY <2>1, <1>a DEF ThreadStop, sound
  <2>2. CASE ThreadHangup  BY <2>2, <1>a DEF ThreadHangup, Exit, sound
  <2>3. CASE TickTeardown  BY <2>3, <1>a DEF TickTeardown, Exit, TickReady, sound
  <2>4. CASE ThreadArm  BY <2>4, <1>a DEF ThreadArm, Exit, sound
  <2>5. CASE TickCache  BY <2>5, <1>a DEF TickCache, sound
  <2>6. CASE TickDecide  BY <2>6, <1>a DEF TickDecide
  <2>7. CASE TickGate  BY <2>7, <1>a DEF TickGate, Exit, sound
  <2>8. CASE TickWrite  BY <2>8, <1>a DEF TickWrite, Exit, sound
  <2> QED
    BY <1>2, <2>1, <2>2, <2>3, <2>4, <2>5, <2>6, <2>7, <2>8 DEF ThreadStep
<1>3. CASE TickDrain
  BY <1>3 DEF TickDrain, Starving, sound, ThreadOK
<1>4. CASE TickUpdate  BY <1>4, StarvingUpdate
<1>5. ASSUME NEW c \in Callers, CallerBegins(c) PROVE Starving'
  <2>1. UNCHANGED <<sound, thread>>
    BY <1>5 DEF CallerBegins, PushCall, ClearCall, PauseCall, ResumeCall, CloseCall
  <2> QED  BY <2>1, <1>a DEF sound, thread
<1>6. ASSUME NEW c \in Callers, CallerContinues(c) PROVE Starving'
  <2>1. CASE StreamStart(c)
    <3>1. CASE running
      BY <2>1, <3>1, <1>a DEF StreamStart, sound, thread
    <3>2. CASE ~running
      <4>1. /\ tpc' # "drained" /\ window' = Centre /\ cur' = 0 /\ starved' = 0 /\ dry' = 0
        BY <2>1, <3>2 DEF StreamStart, Places
      <4>2. ForceBelow(0, 0) /\ QuietBehind(Centre, 0) /\ 0 <= HoldTicks
        BY CentredIsQuiet, Sizes
      <4> QED  BY <4>1, <4>2 DEF Starving
    <3> QED  BY <3>1, <3>2
  <2>2. CASE ClearWindow(c)
    <3>1. dry \in Nat  BY Sizes DEF SoundOK
    <3>2. ForceBelow(0, dry) /\ QuietBehind(Centre, dry)  BY <3>1, CentredIsQuiet
    <3> QED  BY <2>2, <3>2 DEF ClearWindow, Starving
  <2>3. CASE SessionEnsure(c)
    BY <2>3, <1>a DEF SessionEnsure, thread
  <2>4. CASE \/ PushCheck(c) \/ PushRing(c) \/ PauseServed(c) \/ PauseTimeout(c)
             \/ StopArm(c) \/ SessionClose(c) \/ SessionArm(c)
    <3>1. UNCHANGED <<sound, thread>>
      BY <2>4 DEF PushCheck, PushRing, PauseServed, PauseTimeout, StopArm, SessionClose,
         SessionArm
    <3> QED  BY <3>1, <1>a DEF sound, thread
  <2>5. CASE StopJoin(c)
    BY <2>5, <1>a DEF StopJoin, sound
  <2> QED  BY <1>6, <2>1, <2>2, <2>3, <2>4, <2>5 DEF CallerContinues
<1>7. CASE Unplug \/ Replug
  BY <1>7, <1>a DEF Unplug, Replug, sound, thread
<1> QED  BY <1>1, <1>2, <1>3, <1>4, <1>5, <1>6, <1>7 DEF Next

LEMMA StarvingIsBounded ==
  ASSUME TypeOK, Starving
  PROVE  StaleForceBounded
<1>1. /\ dry \in Nat /\ HoldTicks \in Nat /\ DecayTicks \in Nat /\ DecayStep \in Nat
      /\ FullScale \in Nat /\ New \in Nat /\ New >= 1 /\ Window \in Nat /\ cur \in Int
      /\ window \in [1..Window -> Samples]
  BY Sizes DEF TypeOK, SoundOK
<1>2. ASSUME dry >= HoldTicks + DecayTicks PROVE cur = 0
  <2> DEFINE k == dry - HoldTicks
             b == DecayStep * k
  <2>1. k \in Nat /\ DecayTicks <= k /\ dry >= HoldTicks  BY <1>1, <1>2
  <2>2. cur = 0 \/ (cur <= FullScale - b /\ -cur <= FullScale - b)
    BY <2>1 DEF Starving, ForceBelow
  <2> HIDE DEF k
  <2>3. DecayStep * DecayTicks <= b /\ b \in Nat  BY <1>1, <2>1, Scaled
  <2>4. DecayStep * DecayTicks \in Nat /\ DecayStep * DecayTicks >= FullScale
    BY <1>1, StreamAssumption, Scaled
  <2> HIDE DEF b
  <2> QED  BY <1>1, <2>2, <2>3, <2>4
<1>3. ASSUME dry * New >= HoldTicks * New + Window PROVE window = Centre
  <2>1. dry >= HoldTicks
    <3> SUFFICES ASSUME dry <= HoldTicks PROVE dry >= HoldTicks  BY <1>1
    <3>1. New * dry <= New * HoldTicks  BY <1>1, Scaled
    <3>2. dry * New = New * dry /\ HoldTicks * New = New * HoldTicks  BY <1>1
    <3>3. New * dry \in Nat /\ New * HoldTicks \in Nat  BY <1>1, Scaled
    <3>4. Window <= 0  BY <1>1, <1>3, <3>1, <3>2, <3>3
    <3> QED  BY <3>4, Sizes
  <2> DEFINE k == dry - HoldTicks
  <2>2. k \in Nat /\ New * k = dry * New - HoldTicks * New  BY <1>1, <2>1
  <2>3. New * k >= Window /\ New * k \in Nat
    <3> HIDE DEF k
    <3>1. dry * New \in Nat /\ HoldTicks * New \in Nat  BY <1>1
    <3> QED  BY <1>1, <1>3, <2>2, <3>1
  <2>4. \A i \in 1..Window : i > Window - New * k => window[i] = 0
    BY <2>1 DEF Starving, QuietBehind
  <2> HIDE DEF k
  <2>5. \A i \in 1..Window : window[i] = 0  BY <1>1, <2>3, <2>4
  <2> QED  BY <1>1, <2>5 DEF Centre
<1> QED  BY <1>2, <1>3 DEF StaleForceBounded

\* logitf_stream_tick_n, interleaved with any number of callers: pairs stay
\* whole, tf_armed_idle is true of the wheel, and a producer that stopped
\* commands no force beyond the hold and the decay.
THEOREM TickKeepsSound == Spec => []TickSound
<1>1. Init => Starving
  <2> SUFFICES ASSUME Init PROVE Starving  OBVIOUS
  <2>1. ForceBelow(0, 0) /\ QuietBehind(Centre, 0) /\ 0 <= HoldTicks
    BY CentredIsQuiet, Sizes
  <2> QED  BY <2>1 DEF Init, Starving
<1>2. TypeOK /\ Places /\ Starving /\ [Next]_vars => Starving'  BY StarvingStep
<1>3. Spec => []Starving
  BY <1>1, <1>2, PlacesInvariant, PTL DEF Spec
<1>4. TypeOK /\ Heard /\ Starving => TickSound
  BY StarvingIsBounded DEF Heard, TickSound
<1> QED  BY <1>3, <1>4, HeardInvariant, PTL
=============================================================================
