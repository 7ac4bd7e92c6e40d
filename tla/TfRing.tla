------------------------------- MODULE TfRing -------------------------------
(***************************************************************************)
(* The sample ring of libtrueforce's stream (stream.c): a power-of-two     *)
(* array indexed by two free-running unsigned counters that wrap at the    *)
(* width of the C type.  Every operation below runs under ring_lock, so    *)
(* each is one atomic action.                                              *)
(*                                                                         *)
(* What is delicate here is the arithmetic: occupancy is read through a    *)
(* mask, the counters wrap, and a push copies its samples in BEFORE it     *)
(* sheds the oldest ones, so for the length of that copy the ring holds    *)
(* more than the bound.                                                    *)
(***************************************************************************)
EXTENDS Integers, Sequences

CONSTANTS Samples,      \* sample values
          Ring,         \* LOGITF_TF_RING: slots (a power of two in the code)
          IndexMod,     \* 2^32 in the code: where ring_head and ring_tail wrap
          MaxPending,   \* LOGITF_TF_MAX_PENDING
          MaxBatch,     \* longest batch one push call may carry
          MaxWant,      \* LOGITF_TF_CATCHUP_MAX
          MaxOffered    \* bound of the model: samples pushed in one run

ASSUME RingAssumption ==
  /\ 0 \in Samples
  /\ Ring \in Nat \ {0}
  /\ MaxPending \in Nat \ {0}
  /\ MaxBatch \in Nat \ {0}
  /\ MaxWant \in Nat \ {0}
  /\ MaxOffered \in Nat

\* Both are powers of two in the code, so the counter's range is a whole
\* number of laps: masking a wrapped counter still finds its slot.
ASSUME LapAssumption ==
  /\ IndexMod \in Nat \ {0}
  /\ \E laps \in 1..IndexMod : IndexMod = laps * Ring

\* A full backlog plus a full push must fit, for the copy precedes the
\* shedding.  The code has 512 + 512 < 4096; its static assertion only
\* demands MaxPending < Ring - 1.
ASSUME RoomAssumption == 2 * MaxPending < Ring

VARIABLES head,         \* ring_head, the producer's counter
          tail,         \* ring_tail, the consumer's counter
          ring,         \* the slots
          ring_dropped, \* samples shed since the stream started
          out,          \* new_samples of the last tick
          \* history: what the program offered, what the wheel drained and
          \* what a clear discarded, since the stream started, and what the
          \* ring still held when it did
          offered, drained, cleared, carried

vars == <<head, tail, ring, ring_dropped, out, offered, drained, cleared, carried>>

Slot(i) == i % Ring

\* ring_occupied: the difference of the counters through the slot mask.
Occupied(h, t) == (h - t) % Ring

\* How far the drain loop can run: it compares the counters themselves.
Apart(h, t) == (h - t) % IndexMod

\* Mutant of NoteDropped: it counts the calls that shed, not the samples.
NoteDroppedCalls(n) == ring_dropped' = ring_dropped + IF n > 0 THEN 1 ELSE 0

\* note_dropped, without its rate-limited message.
NoteDropped(n) == ring_dropped' = ring_dropped + n

\* The slots after a copy of batch at the producer's counter.
Copied(batch) ==
  [s \in 0..Ring - 1 |->
     LET k == (s - head) % Ring
     IN  IF k < Len(batch) THEN batch[k + 1] ELSE ring[s]]

\* Mutant of Kept: the head of a long batch, not its tail.
KeptOldest(batch) ==
  IF Len(batch) > MaxPending THEN SubSeq(batch, 1, MaxPending) ELSE batch

\* A push longer than the whole bound keeps its newest tail.
Kept(batch) ==
  IF Len(batch) > MaxPending
  THEN SubSeq(batch, Len(batch) - MaxPending + 1, Len(batch))
  ELSE batch

\* Mutant of Over: a backlog one past the bound is let be.
OverLate(n) == IF n > MaxPending + 1 THEN n - MaxPending ELSE 0

\* How far n is past the bound.
Over(n) == IF n > MaxPending THEN n - MaxPending ELSE 0

Batches == UNION {[1..n -> Samples] : n \in 1..MaxBatch}

Init ==
  /\ head = 0 /\ tail = 0
  /\ ring = [s \in 0..Ring - 1 |-> 0]
  /\ ring_dropped = 0
  /\ out = <<>>
  /\ offered = 0 /\ drained = 0 /\ cleared = 0 /\ carried = 0

\* logitf_stream_push_s16, from the point where it holds ring_lock on a
\* running stream: trim, copy, then shed the oldest beyond the bound.
Push(batch) ==
  /\ offered + Len(batch) <= MaxOffered
  /\ LET kept == Kept(batch)
         h    == (head + Len(kept)) % IndexMod
         over == Over(Occupied(h, tail))
     IN  /\ ring' = Copied(kept)
         /\ head' = h
         /\ tail' = (tail + over) % IndexMod
         /\ NoteDropped(Over(Len(batch)) + over)
  /\ offered' = offered + Len(batch)
  /\ UNCHANGED <<out, drained, cleared, carried>>

\* Mutant of Drain: the counter moves before the slot is read.
DrainSkips(want) ==
  /\ LET n == IF want <= Apart(head, tail) THEN want ELSE Apart(head, tail)
     IN  /\ out' = [k \in 1..n |-> ring[Slot(tail + k)]]
         /\ tail' = (tail + n) % IndexMod
         /\ drained' = drained + n
  /\ UNCHANGED <<head, ring, ring_dropped, offered, cleared, carried>>

\* Mutant of Drain: the consumer's counter is wider than the producer's.
DrainUnwrapped(want) ==
  /\ LET n == IF want <= Apart(head, tail) THEN want ELSE Apart(head, tail)
     IN  /\ out' = [k \in 1..n |-> ring[Slot(tail + k - 1)]]
         /\ tail' = tail + n
         /\ drained' = drained + n
  /\ UNCHANGED <<head, ring, ring_dropped, offered, cleared, carried>>

\* The drain loop of logitf_stream_tick_n.
Drain(want) ==
  /\ LET n == IF want <= Apart(head, tail) THEN want ELSE Apart(head, tail)
     IN  /\ out' = [k \in 1..n |-> ring[Slot(tail + k - 1)]]
         /\ tail' = (tail + n) % IndexMod
         /\ drained' = drained + n
  /\ UNCHANGED <<head, ring, ring_dropped, offered, cleared, carried>>

\* The ring half of logitf_stream_clear.
Clear ==
  /\ tail' = head
  /\ cleared' = cleared + Apart(head, tail)
  /\ UNCHANGED <<head, ring, ring_dropped, out, offered, drained, carried>>

\* logitf_stream_start restarts the count of dropped samples and leaves the
\* ring itself alone, whatever an earlier session left in it.
Restart ==
  /\ ring_dropped' = 0
  /\ offered' = 0 /\ drained' = 0 /\ cleared' = 0
  /\ carried' = Apart(head, tail)
  /\ UNCHANGED <<head, tail, ring, out>>

Next ==
  \/ \E batch \in Batches : Push(batch)
  \/ \E want \in 1..MaxWant : Drain(want)
  \/ Clear
  \/ Restart

Spec == Init /\ [][Next]_vars
-----------------------------------------------------------------------------
TypeOK ==
  /\ head \in 0..IndexMod - 1
  /\ tail \in 0..IndexMod - 1
  /\ ring \in [0..Ring - 1 -> Samples]
  /\ out \in Seq(Samples)
  /\ ring_dropped \in Nat
  /\ offered \in Nat /\ drained \in Nat /\ cleared \in Nat /\ carried \in Nat

\* The backlog the wheel can be behind by is bounded as a latency: the two
\* counters are never more than MaxPending samples apart, wrapped or not, so
\* the masked occupancy the shedding reads is the true one.
BacklogBounded ==
  /\ Apart(head, tail) <= MaxPending
  /\ Occupied(head, tail) = Apart(head, tail)

\* Load-shedding is reported exactly: every sample offered since the stream
\* started (and every one an earlier session left behind) was drained,
\* cleared, counted in ring_dropped, or is still pending.
Accounting ==
  carried + offered = drained + cleared + ring_dropped + Apart(head, tail)

\* The queue the ring stands for.
Pending == [k \in 1..Apart(head, tail) |-> ring[Slot(tail + k - 1)]]

\* The ring implements the bounded first-in first-out queue, through every
\* wrap of its counters: what a tick takes is the oldest, in order, and no
\* step but a push adds to what is pending.
Queue == INSTANCE FreshQueue WITH queue <- Pending, out <- out
ImplementsFreshQueue == Queue!QSpec

\* A push sheds the oldest: whatever was pending and whatever is pushed, what
\* is pending afterwards is the newest of both, in the order they came.
PushShedsOldest ==
  [][\A batch \in Batches :
       Push(batch) => Pending' = Queue!Newest(Pending \o batch, MaxPending)]_vars

\* The ring is the first-in first-out queue of FreshQueue, and a push leaves
\* exactly the newest of what was pending and what it brought (stream.c,
\* logitf_stream_push_s16).
RingIsFreshQueue == ImplementsFreshQueue /\ PushShedsOldest
=============================================================================
