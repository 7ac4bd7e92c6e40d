---------------------------- MODULE TfRingProofs ----------------------------
(***************************************************************************)
(* Proofs about TfRing, for every ring size, counter width and latency     *)
(* bound its assumptions allow (the code's 4096, 2^32 and 512 among them). *)
(*                                                                         *)
(* The argument: write Gap(h, t, d) for "the producer is d samples ahead   *)
(* of the consumer, up to whole wraps of the counters".  Moving a counter  *)
(* by n moves the gap by n, wrap or no wrap; a gap smaller than the ring   *)
(* is what both the masked occupancy and the unmasked distance read.  The  *)
(* backlog is at most MaxPending before a push, so at most 2 * MaxPending  *)
(* after its copy, still smaller than the ring: shedding reads the truth.  *)
(***************************************************************************)
EXTENDS TfRing, SequenceTheorems, TLAPS

\* The two constants of division, as the provers need them.
LEMMA Division ==
  ASSUME NEW a \in Int, NEW b \in Nat \ {0}
  PROVE  /\ a % b \in 0..b - 1
         /\ a \div b \in Int
         /\ a = b * (a \div b) + (a % b)
  BY Z3

\* A multiple of b strictly between -b and b is zero.
LEMMA SmallMultiple ==
  ASSUME NEW b \in Nat \ {0}, NEW k \in Int, -b < b * k, b * k < b
  PROVE  k = 0
<1>1. CASE k >= 1
  <2>1. b * k >= b  BY <1>1
  <2> QED  BY <2>1
<1>2. CASE k <= -1
  <2>1. b * k <= -b  BY <1>2
  <2> QED  BY <2>1
<1> QED  BY <1>1, <1>2

\* The remainder is the only number of its range that division can leave.
LEMMA RemainderUnique ==
  ASSUME NEW b \in Nat \ {0}, NEW q \in Int, NEW r \in 0..b - 1,
         NEW a \in Int, a = b * q + r
  PROVE  a % b = r
<1> DEFINE k == (a \div b) - q
<1>1. /\ a % b \in 0..b - 1
      /\ a \div b \in Int
      /\ a = b * (a \div b) + (a % b)
  BY Division
<1>2. k \in Int /\ r - (a % b) = b * k  BY <1>1
<1>3. -b < r - (a % b) /\ r - (a % b) < b  BY <1>1
<1> HIDE DEF k
<1>4. k = 0  BY <1>2, <1>3, SmallMultiple
<1> QED  BY <1>1, <1>2, <1>4
-----------------------------------------------------------------------------
\* The producer's counter is d ahead of the consumer's, up to whole wraps.
Gap(h, t, d) == \E q \in Int : h - t = IndexMod * q + d

LEMMA CountersWrap == IndexMod \in Nat \ {0} /\ Ring \in Nat \ {0} /\ Ring <= IndexMod
<1>1. PICK laps \in 1..IndexMod : IndexMod = laps * Ring  BY LapAssumption
<1>2. laps * Ring >= Ring  BY <1>1, RingAssumption, LapAssumption
<1> QED  BY <1>1, <1>2, RingAssumption, LapAssumption

LEMMA ApartIsGap ==
  ASSUME NEW h \in Int, NEW t \in Int
  PROVE  Apart(h, t) \in 0..IndexMod - 1 /\ Gap(h, t, Apart(h, t))
<1>1. h - t \in Int  OBVIOUS
<1>2. /\ (h - t) % IndexMod \in 0..IndexMod - 1
      /\ (h - t) \div IndexMod \in Int
      /\ h - t = IndexMod * ((h - t) \div IndexMod) + ((h - t) % IndexMod)
  BY <1>1, Division, CountersWrap
<1> QED  BY <1>2 DEF Apart, Gap

\* A gap smaller than the ring is what both readings of the counters give.
LEMMA GapIsRead ==
  ASSUME NEW h \in Int, NEW t \in Int, NEW d \in 0..Ring - 1, Gap(h, t, d)
  PROVE  Apart(h, t) = d /\ Occupied(h, t) = d
<1>1. PICK q \in Int : h - t = IndexMod * q + d  BY DEF Gap
<1>2. PICK laps \in 1..IndexMod : IndexMod = laps * Ring  BY LapAssumption
<1>3. d \in 0..IndexMod - 1 /\ h - t \in Int  BY CountersWrap
<1>4. Apart(h, t) = d  BY <1>1, <1>3, RemainderUnique, CountersWrap DEF Apart
<1>5. laps * q \in Int /\ h - t = Ring * (laps * q) + d
  <2>1. IndexMod * q = Ring * (laps * q)  BY <1>2, CountersWrap
  <2> QED  BY <1>1, <1>2, <2>1
<1>6. Occupied(h, t) = d
  BY <1>3, <1>5, RemainderUnique, CountersWrap DEF Occupied
<1> QED  BY <1>4, <1>6

\* Advancing the producer widens the gap, through a wrap or not.
LEMMA ProducerMoves ==
  ASSUME NEW h \in Int, NEW t \in Int, NEW d \in Int, NEW n \in Int, Gap(h, t, d)
  PROVE  /\ (h + n) % IndexMod \in 0..IndexMod - 1
         /\ Gap((h + n) % IndexMod, t, d + n)
<1>1. PICK q \in Int : h - t = IndexMod * q + d  BY DEF Gap
<1> DEFINE w == (h + n) \div IndexMod
<1>2. /\ (h + n) % IndexMod \in 0..IndexMod - 1
      /\ w \in Int
      /\ h + n = IndexMod * w + ((h + n) % IndexMod)
  BY Division, CountersWrap
<1> HIDE DEF w
<1>3. ((h + n) % IndexMod) - t = IndexMod * (q - w) + (d + n)
  BY <1>1, <1>2, CountersWrap
<1>4. q - w \in Int  BY <1>1, <1>2
<1> QED  BY <1>2, <1>3, <1>4 DEF Gap

\* Advancing the consumer narrows it.
LEMMA ConsumerMoves ==
  ASSUME NEW h \in Int, NEW t \in Int, NEW d \in Int, NEW n \in Int, Gap(h, t, d)
  PROVE  /\ (t + n) % IndexMod \in 0..IndexMod - 1
         /\ Gap(h, (t + n) % IndexMod, d - n)
<1>1. PICK q \in Int : h - t = IndexMod * q + d  BY DEF Gap
<1> DEFINE w == (t + n) \div IndexMod
<1>2. /\ (t + n) % IndexMod \in 0..IndexMod - 1
      /\ w \in Int
      /\ t + n = IndexMod * w + ((t + n) % IndexMod)
  BY Division, CountersWrap
<1> HIDE DEF w
<1>3. h - ((t + n) % IndexMod) = IndexMod * (q + w) + (d - n)
  BY <1>1, <1>2, CountersWrap
<1>4. q + w \in Int  BY <1>1, <1>2
<1> QED  BY <1>2, <1>3, <1>4 DEF Gap
-----------------------------------------------------------------------------
LEMMA BatchIsSequence ==
  ASSUME NEW batch \in Batches
  PROVE  batch \in Seq(Samples) /\ Len(batch) \in 1..MaxBatch
<1>1. PICK n \in 1..MaxBatch : batch \in [1..n -> Samples]  BY DEF Batches
<1>2. n \in Nat  BY RingAssumption
<1>3. batch \in Seq(Samples) /\ Len(batch) = n  BY <1>1, <1>2
<1> QED  BY <1>3

\* The trim keeps at most MaxPending samples and accounts for the others.
LEMMA KeptLength ==
  ASSUME NEW batch \in Batches
  PROVE  /\ Kept(batch) \in Seq(Samples)
         /\ Len(Kept(batch)) \in 0..MaxPending
         /\ Over(Len(batch)) \in Nat
         /\ Len(batch) = Len(Kept(batch)) + Over(Len(batch))
<1>1. batch \in Seq(Samples) /\ Len(batch) \in 1..MaxBatch  BY BatchIsSequence
<1>2. MaxPending \in Nat \ {0} /\ MaxBatch \in Nat  BY RingAssumption
<1>3. CASE Len(batch) > MaxPending
  <2>1. Kept(batch) = SubSeq(batch, Len(batch) - MaxPending + 1, Len(batch))
    BY <1>3 DEF Kept
  <2>2. Kept(batch) \in Seq(Samples) /\ Len(Kept(batch)) = MaxPending
    BY <2>1, <1>1, <1>2, <1>3
  <2> QED  BY <2>2, <1>1, <1>2, <1>3 DEF Over
<1>4. CASE ~(Len(batch) > MaxPending)
  BY <1>1, <1>2, <1>4 DEF Kept, Over
<1> QED  BY <1>3, <1>4

\* A copy fills slots with samples.
LEMMA CopiedType ==
  ASSUME TypeOK, NEW batch \in Seq(Samples)
  PROVE  Copied(batch) \in [0..Ring - 1 -> Samples]
<1> SUFFICES ASSUME NEW s \in 0..Ring - 1
             PROVE  (IF (s - head) % Ring < Len(batch)
                     THEN batch[((s - head) % Ring) + 1] ELSE ring[s]) \in Samples
  BY DEF Copied
<1>1. s - head \in Int  BY DEF TypeOK
<1>2. (s - head) % Ring \in 0..Ring - 1  BY <1>1, Division, CountersWrap
<1>3. ring[s] \in Samples  BY DEF TypeOK
<1>4. CASE (s - head) % Ring < Len(batch)
  <2>1. ((s - head) % Ring) + 1 \in 1..Len(batch)  BY <1>2, <1>4
  <2> QED  BY <2>1, <1>4
<1> QED  BY <1>3, <1>4

\* The slot a counter points at is a slot.
LEMMA SlotInRing ==
  ASSUME NEW i \in Int
  PROVE  Slot(i) \in 0..Ring - 1
BY Division, CountersWrap DEF Slot
-----------------------------------------------------------------------------
\* The inductive invariant: the three invariants together.  Accounting needs
\* the true distance, which only the bound gives; the bound needs the types.
RingInv == TypeOK /\ BacklogBounded /\ Accounting

LEMMA CountersRead ==
  ASSUME RingInv
  PROVE  /\ head \in Int /\ tail \in Int
         /\ Apart(head, tail) \in 0..MaxPending
         /\ Gap(head, tail, Apart(head, tail))
<1>1. head \in Int /\ tail \in Int /\ MaxPending \in Nat
  BY CountersWrap, RingAssumption DEF RingInv, TypeOK
<1>2. Apart(head, tail) \in 0..IndexMod - 1 /\ Gap(head, tail, Apart(head, tail))
  BY <1>1, ApartIsGap
<1>3. Apart(head, tail) <= MaxPending  BY DEF RingInv, BacklogBounded
<1> QED  BY <1>1, <1>2, <1>3, CountersWrap

\* The readings of the counters after a push, and what it sheds.
LEMMA PushCounters ==
  ASSUME RingInv, NEW n \in 0..MaxPending
  PROVE  LET h    == (head + n) % IndexMod
             over == Over(Occupied(h, tail))
             t    == (tail + over) % IndexMod
         IN  /\ h \in 0..IndexMod - 1
             /\ t \in 0..IndexMod - 1
             /\ over \in Nat
             /\ Apart(h, t) <= MaxPending
             /\ Occupied(h, t) = Apart(h, t)
             /\ Apart(h, t) = Apart(head, tail) + n - over
<1> DEFINE h    == (head + n) % IndexMod
           over == Over(Occupied(h, tail))
           t    == (tail + over) % IndexMod
           d    == Apart(head, tail)
<1>1. head \in Int /\ tail \in Int /\ MaxPending \in Nat /\ n \in Nat
  BY RingAssumption, CountersRead
<1>2. d \in 0..MaxPending /\ Gap(head, tail, d)
  BY CountersRead
<1> HIDE DEF d
<1>a. d \in Int /\ n \in Int /\ d + n \in Int  BY <1>1, <1>2
<1>3. h \in 0..IndexMod - 1 /\ Gap(h, tail, d + n)
  BY <1>1, <1>2, <1>a, ProducerMoves
<1>4. d + n \in 0..Ring - 1
  BY <1>1, <1>2, <1>a, RoomAssumption, CountersWrap
<1>5. h \in Int  BY <1>3, CountersWrap
<1> HIDE DEF h
<1>6. Occupied(h, tail) = d + n  BY <1>1, <1>3, <1>4, <1>5, GapIsRead
<1>7. over \in Nat /\ d + n - over \in 0..MaxPending
  BY <1>1, <1>2, <1>6 DEF Over
<1> HIDE DEF over
<1>b. over \in Int  BY <1>7
<1>8. t \in 0..IndexMod - 1 /\ Gap(h, t, (d + n) - over)
  BY <1>1, <1>3, <1>5, <1>a, <1>b, ConsumerMoves
<1>9. t \in Int /\ (d + n) - over \in 0..Ring - 1
  BY <1>1, <1>2, <1>7, <1>8, CountersWrap, RoomAssumption
<1> HIDE DEF t
<1>10. Apart(h, t) = (d + n) - over /\ Occupied(h, t) = (d + n) - over
  BY <1>5, <1>8, <1>9, GapIsRead
<1>11. /\ h \in 0..IndexMod - 1
       /\ t \in 0..IndexMod - 1
       /\ over \in Nat
       /\ Apart(h, t) <= MaxPending
       /\ Occupied(h, t) = Apart(h, t)
       /\ Apart(h, t) = d + n - over
  BY <1>1, <1>2, <1>3, <1>7, <1>8, <1>10
<1> QED  BY <1>11 DEF h, over, t, d

\* The readings of the counters after the consumer takes n pending samples.
LEMMA TakeCounters ==
  ASSUME RingInv, NEW n \in 0..Apart(head, tail)
  PROVE  LET t == (tail + n) % IndexMod
         IN  /\ t \in 0..IndexMod - 1
             /\ Apart(head, t) <= MaxPending
             /\ Occupied(head, t) = Apart(head, t)
             /\ Apart(head, t) = Apart(head, tail) - n
<1> DEFINE t == (tail + n) % IndexMod
           d == Apart(head, tail)
<1>1. head \in Int /\ tail \in Int /\ MaxPending \in Nat
  BY RingAssumption, CountersRead
<1>2. d \in 0..MaxPending /\ Gap(head, tail, d)
  BY CountersRead
<1>3. n \in Nat /\ d - n \in 0..MaxPending  BY <1>1, <1>2
<1> HIDE DEF d
<1>a. d \in Int /\ n \in Int  BY <1>1, <1>2, <1>3
<1>4. t \in 0..IndexMod - 1 /\ Gap(head, t, d - n)
  BY <1>1, <1>2, <1>a, ConsumerMoves
<1>5. t \in Int /\ d - n \in 0..Ring - 1
  BY <1>1, <1>3, <1>4, CountersWrap, RoomAssumption
<1> HIDE DEF t
<1>6. Apart(head, t) = d - n /\ Occupied(head, t) = d - n
  BY <1>1, <1>4, <1>5, GapIsRead
<1>7. /\ t \in 0..IndexMod - 1
      /\ Apart(head, t) <= MaxPending
      /\ Occupied(head, t) = Apart(head, t)
      /\ Apart(head, t) = d - n
  BY <1>3, <1>4, <1>6, <1>1
<1> QED  BY <1>7 DEF t, d
-----------------------------------------------------------------------------
LEMMA InitEstablishes == Init => RingInv
<1> SUFFICES ASSUME Init PROVE RingInv  OBVIOUS
<1>1. Gap(0, 0, 0)
  <2>1. 0 - 0 = IndexMod * 0 + 0  BY CountersWrap
  <2> QED  BY <2>1 DEF Gap
<1>2. Apart(head, tail) = 0 /\ Occupied(head, tail) = 0
  <2>1. 0 \in 0..Ring - 1  BY CountersWrap
  <2> QED  BY <1>1, <2>1, GapIsRead DEF Init
<1>3. TypeOK  BY CountersWrap, RingAssumption DEF Init, TypeOK
<1>4. BacklogBounded  BY <1>2, RingAssumption DEF BacklogBounded
<1>5. Accounting  BY <1>2 DEF Accounting, Init
<1> QED  BY <1>3, <1>4, <1>5 DEF RingInv

LEMMA PushPreserves ==
  ASSUME RingInv, NEW batch \in Batches, Push(batch)
  PROVE  RingInv'
<1> DEFINE kept == Kept(batch)
           n    == Len(kept)
           all  == Len(batch)
           trim == Over(all)
           h    == (head + n) % IndexMod
           over == Over(Occupied(h, tail))
           t    == (tail + over) % IndexMod
<1>1. /\ kept \in Seq(Samples) /\ n \in 0..MaxPending
      /\ trim \in Nat /\ all = n + trim
  BY KeptLength
<1>2. /\ h \in 0..IndexMod - 1
      /\ t \in 0..IndexMod - 1
      /\ over \in Nat
      /\ Apart(h, t) <= MaxPending
      /\ Occupied(h, t) = Apart(h, t)
      /\ Apart(h, t) = Apart(head, tail) + n - over
  BY <1>1, PushCounters
<1>3. /\ ring' = Copied(kept) /\ head' = h /\ tail' = t
      /\ ring_dropped' = ring_dropped + (trim + over)
      /\ offered' = offered + all
      /\ UNCHANGED <<out, drained, cleared, carried>>
  BY DEF Push, NoteDropped
<1>4. Copied(kept) \in [0..Ring - 1 -> Samples]
  BY <1>1, CopiedType DEF RingInv
<1>5. n \in Nat /\ MaxPending \in Nat  BY <1>1, RingAssumption
<1>6. Apart(head, tail) \in Nat  BY <1>5, CountersRead
<1> HIDE DEF kept, n, h, over, t, trim, all
<1>7. TypeOK'
  <2>1. ring_dropped' \in Nat /\ offered' \in Nat
    BY <1>1, <1>2, <1>3, <1>5 DEF RingInv, TypeOK
  <2> QED  BY <1>2, <1>3, <1>4, <2>1 DEF RingInv, TypeOK
<1>8. BacklogBounded'  BY <1>2, <1>3 DEF BacklogBounded, Apart, Occupied
<1>9. Accounting'
  <2>1. carried + offered = drained + cleared + ring_dropped + Apart(head, tail)
    BY DEF RingInv, Accounting
  <2>2. Apart(head', tail') = Apart(head, tail) + n - over  BY <1>2, <1>3
  <2>a. /\ carried \in Nat /\ offered \in Nat /\ drained \in Nat
        /\ cleared \in Nat /\ ring_dropped \in Nat
    BY DEF RingInv, TypeOK
  <2>b. /\ carried' = carried /\ drained' = drained /\ cleared' = cleared
        /\ offered' = offered + (n + trim)
        /\ ring_dropped' = ring_dropped + (trim + over)
    BY <1>1, <1>3
  <2>c. n \in Nat /\ trim \in Nat /\ over \in Nat  BY <1>1, <1>2, <1>5
  <2>3. carried' + offered' = drained' + cleared' + ring_dropped' + Apart(head', tail')
    BY <1>6, <2>1, <2>2, <2>a, <2>b, <2>c
  <2> QED  BY <2>3 DEF Accounting, Apart
<1> QED  BY <1>7, <1>8, <1>9 DEF RingInv

LEMMA DrainPreserves ==
  ASSUME RingInv, NEW want \in 1..MaxWant, Drain(want)
  PROVE  RingInv'
<1> DEFINE n == IF want <= Apart(head, tail) THEN want ELSE Apart(head, tail)
           t == (tail + n) % IndexMod
<1>1. Apart(head, tail) \in Nat /\ tail \in Int /\ want \in Nat
  BY CountersRead, RingAssumption
<1>2. n \in 0..Apart(head, tail)  BY <1>1
<1>3. /\ t \in 0..IndexMod - 1
      /\ Apart(head, t) <= MaxPending
      /\ Occupied(head, t) = Apart(head, t)
      /\ Apart(head, t) = Apart(head, tail) - n
  BY <1>2, TakeCounters
<1>4. /\ out' = [k \in 1..n |-> ring[Slot(tail + k - 1)]]
      /\ tail' = t /\ drained' = drained + n
      /\ UNCHANGED <<head, ring, ring_dropped, offered, cleared, carried>>
  BY DEF Drain
<1>5. n \in Nat  BY <1>1, <1>2
<1> HIDE DEF n, t
<1>6. out' \in Seq(Samples)
  <2>1. ASSUME NEW k \in 1..n PROVE ring[Slot(tail + k - 1)] \in Samples
    <3>1. tail + k - 1 \in Int  BY <1>1, <1>5
    <3>2. Slot(tail + k - 1) \in 0..Ring - 1  BY <3>1, SlotInRing
    <3> QED  BY <3>2 DEF RingInv, TypeOK
  <2>2. out' \in [1..n -> Samples]  BY <2>1, <1>4
  <2> QED  BY <2>2, <1>5
<1>7. TypeOK'  BY <1>3, <1>4, <1>5, <1>6 DEF RingInv, TypeOK
<1>8. BacklogBounded'  BY <1>3, <1>4 DEF BacklogBounded, Apart, Occupied
<1>9. Accounting'
  <2>1. carried + offered = drained + cleared + ring_dropped + Apart(head, tail)
    BY DEF RingInv, Accounting
  <2>2. Apart(head', tail') = Apart(head, tail) - n  BY <1>3, <1>4
  <2>3. carried' + offered' = drained' + cleared' + ring_dropped' + Apart(head', tail')
    BY <1>1, <1>4, <1>5, <2>1, <2>2 DEF RingInv, TypeOK
  <2> QED  BY <2>3 DEF Accounting, Apart
<1> QED  BY <1>7, <1>8, <1>9 DEF RingInv

LEMMA ClearPreserves == RingInv /\ Clear => RingInv'
<1> SUFFICES ASSUME RingInv, Clear PROVE RingInv'  OBVIOUS
<1>1. head \in Int /\ head \in 0..IndexMod - 1 /\ Apart(head, tail) \in Nat
  BY CountersRead, RingAssumption DEF RingInv, TypeOK
<1>2. Gap(head, head, 0)
  <2>1. head - head = IndexMod * 0 + 0  BY <1>1, CountersWrap
  <2> QED  BY <2>1 DEF Gap
<1>3. Apart(head, head) = 0 /\ Occupied(head, head) = 0
  <2>1. 0 \in 0..Ring - 1  BY CountersWrap
  <2> QED  BY <1>1, <1>2, <2>1, GapIsRead
<1>4. TypeOK'  BY <1>1 DEF RingInv, TypeOK, Clear
<1>5. BacklogBounded'
  BY <1>3, RingAssumption DEF BacklogBounded, Apart, Occupied, Clear
<1>6. Accounting'
  <2>1. carried + offered = drained + cleared + ring_dropped + Apart(head, tail)
    BY DEF RingInv, Accounting
  <2>2. Apart(head', tail') = 0  BY <1>3 DEF Clear
  <2>3. carried' + offered' = drained' + cleared' + ring_dropped' + Apart(head', tail')
    BY <1>1, <2>1, <2>2 DEF RingInv, TypeOK, Clear
  <2> QED  BY <2>3 DEF Accounting, Apart
<1> QED  BY <1>4, <1>5, <1>6 DEF RingInv

LEMMA RestartPreserves == RingInv /\ Restart => RingInv'
<1> SUFFICES ASSUME RingInv, Restart PROVE RingInv'  OBVIOUS
<1>1. Apart(head, tail) \in Nat  BY CountersRead, RingAssumption
<1>2. TypeOK'  BY <1>1 DEF RingInv, TypeOK, Restart
<1>3. BacklogBounded'
  BY DEF RingInv, BacklogBounded, Apart, Occupied, Restart
<1>4. Accounting'
  <2>1. Apart(head', tail') = Apart(head, tail)  BY DEF Restart
  <2>2. carried' + offered' = drained' + cleared' + ring_dropped' + Apart(head', tail')
    BY <1>1, <2>1 DEF Restart
  <2> QED  BY <2>2 DEF Accounting, Apart
<1> QED  BY <1>2, <1>3, <1>4 DEF RingInv

LEMMA StutterPreserves == RingInv /\ UNCHANGED vars => RingInv'
BY DEF RingInv, TypeOK, BacklogBounded, Accounting, Apart, Occupied, vars

LEMMA NextPreserves == RingInv /\ [Next]_vars => RingInv'
BY PushPreserves, DrainPreserves, ClearPreserves, RestartPreserves,
   StutterPreserves DEF Next

\* Whatever sequence of pushes, drains, clears and restarts: counters stay
\* in their width, slots hold samples.
THEOREM TypeCorrect == Spec => []TypeOK
<1>1. RingInv => TypeOK  BY DEF RingInv
<1> QED  BY <1>1, InitEstablishes, NextPreserves, PTL DEF Spec

\* logitf_stream_push_s16 bounds the backlog as a latency whatever the
\* producer does, and the mask of ring_occupied never hides a full lap.
THEOREM LatencyBounded == Spec => []BacklogBounded
<1>1. RingInv => BacklogBounded  BY DEF RingInv
<1> QED  BY <1>1, InitEstablishes, NextPreserves, PTL DEF Spec

\* ring_dropped counts exactly the samples that were neither played nor
\* cleared: note_dropped is called for every sample lost and for no other.
THEOREM LossAccounted == Spec => []Accounting
<1>1. RingInv => Accounting  BY DEF RingInv
<1> QED  BY <1>1, InitEstablishes, NextPreserves, PTL DEF Spec
-----------------------------------------------------------------------------
(* The ring implements the queue.  A slot is found by a counter modulo the *)
(* ring, whole wraps of the counter being whole laps of the ring.          *)

\* Wrapping a counter moves it by whole laps of the ring.
LEMMA WrapKeepsSlot ==
  ASSUME NEW a \in Int, NEW b \in Int
  PROVE  Slot((a % IndexMod) + b) = Slot(a + b)
<1>1. PICK laps \in 1..IndexMod : IndexMod = laps * Ring  BY LapAssumption
<1> DEFINE w == a \div IndexMod
           u == (a % IndexMod) + b
<1>2. /\ a % IndexMod \in 0..IndexMod - 1
      /\ w \in Int
      /\ a = IndexMod * w + (a % IndexMod)
  BY Division, CountersWrap
<1>3. laps \in Int /\ Ring \in Nat \ {0} /\ IndexMod \in Nat \ {0}
  BY <1>1, CountersWrap
<1>4. u \in Int  BY <1>2, <1>3
<1>5. /\ u % Ring \in 0..Ring - 1
      /\ u \div Ring \in Int
      /\ u = Ring * (u \div Ring) + (u % Ring)
  BY <1>4, <1>3, Division
<1>6. a + b = IndexMod * w + u  BY <1>2, <1>3
<1> HIDE DEF w, u
<1>7. IndexMod * w = Ring * (laps * w)  BY <1>1, <1>2, <1>3
<1>8. laps * w \in Int  BY <1>2, <1>3
<1> DEFINE z == laps * w
<1>9. z \in Int /\ a + b = Ring * z + u  BY <1>6, <1>7, <1>8
<1> HIDE DEF z
<1>10. a + b = Ring * (z + (u \div Ring)) + (u % Ring)
  BY <1>3, <1>5, <1>9
<1>11. z + (u \div Ring) \in Int /\ a + b \in Int  BY <1>5, <1>9
<1> DEFINE n == a + b
           q == z + (u \div Ring)
           r == u % Ring
<1>12. /\ Ring \in Nat \ {0} /\ q \in Int /\ r \in 0..Ring - 1 /\ n \in Int
       /\ n = Ring * q + r
  BY <1>3, <1>5, <1>10, <1>11
<1> HIDE DEF n, q, r
<1>13. n % Ring = r  BY <1>12, RemainderUnique
<1> QED  BY <1>13 DEF Slot, u, n, r

\* Where the i-th sample from the consumer lies as seen from the producer,
\* who is d ahead: behind it for a pending one, ahead for a new one.
LEMMA SlotFromProducer ==
  ASSUME NEW h \in Int, NEW t \in Int, NEW d \in Int, Gap(h, t, d),
         NEW i \in Int, NEW r \in 0..Ring - 1,
         r = (i - 1) - d \/ r = Ring + ((i - 1) - d)
  PROVE  (Slot(t + i - 1) - h) % Ring = r
<1>1. PICK laps \in 1..IndexMod : IndexMod = laps * Ring  BY LapAssumption
<1>2. PICK q \in Int : h - t = IndexMod * q + d  BY DEF Gap
<1>3. laps \in Int /\ Ring \in Nat \ {0} /\ IndexMod \in Nat \ {0}
  BY <1>1, CountersWrap
<1> DEFINE z == laps * q
           a == t + i - 1
           v == a \div Ring
<1>4. z \in Int /\ IndexMod * q = Ring * z  BY <1>1, <1>2, <1>3
<1>5. a \in Int  OBVIOUS
<1>6. /\ a % Ring \in 0..Ring - 1
      /\ v \in Int
      /\ a = Ring * v + (a % Ring)
  BY <1>3, <1>5, Division
<1>7. h - t = Ring * z + d  BY <1>2, <1>4
<1>8. a - h = (i - 1) - d - Ring * z  BY <1>3, <1>4, <1>7
<1>9. a - h = Ring * v + ((a % Ring) - h)  BY <1>3, <1>5, <1>6
<1> HIDE DEF z, a, v
<1>10. (a % Ring) - h \in Int  BY <1>3, <1>6
<1>11. (a % Ring) - h = ((i - 1) - d) - Ring * z - Ring * v
  BY <1>3, <1>4, <1>5, <1>6, <1>8, <1>9
<1>12. (a % Ring) - h = Ring * (-z - v) + ((i - 1) - d)
  BY <1>3, <1>4, <1>6, <1>11
<1>13. (a % Ring) - h = Ring * ((-z - v) - 1) + (Ring + ((i - 1) - d))
  BY <1>3, <1>4, <1>6, <1>12
<1>14. -z - v \in Int /\ (-z - v) - 1 \in Int  BY <1>4, <1>6
<1>15. ((a % Ring) - h) % Ring = r
  <2> DEFINE e  == (a % Ring) - h
             q1 == -z - v
             q2 == (-z - v) - 1
  <2>1. e \in Int /\ q1 \in Int /\ q2 \in Int  BY <1>10, <1>14
  <2>2. e = Ring * q1 + r \/ e = Ring * q2 + r  BY <1>12, <1>13
  <2> HIDE DEF e, q1, q2
  <2>3. ASSUME e = Ring * q1 + r PROVE e % Ring = r
    BY <1>3, <2>1, <2>3, RemainderUnique
  <2>4. ASSUME e = Ring * q2 + r PROVE e % Ring = r
    BY <1>3, <2>1, <2>4, RemainderUnique
  <2>5. e % Ring = r  BY <2>2, <2>3, <2>4
  <2> QED  BY <2>5 DEF e
<1> QED  BY <1>15 DEF a, Slot

\* What is pending, as a sequence.
LEMMA PendingIs ==
  ASSUME RingInv
  PROVE  /\ Pending \in Seq(Samples)
         /\ Len(Pending) = Apart(head, tail)
         /\ Len(Pending) \in 0..MaxPending
         /\ \A i \in 1..Len(Pending) : Pending[i] = ring[Slot(tail + i - 1)]
<1>1. head \in Int /\ tail \in Int /\ Apart(head, tail) \in 0..MaxPending
  BY CountersRead
<1>2. Apart(head, tail) \in Nat  BY <1>1, RingAssumption
<1>3. ASSUME NEW k \in 1..Apart(head, tail)
      PROVE  ring[Slot(tail + k - 1)] \in Samples
  <2>1. tail + k - 1 \in Int  BY <1>1, <1>2
  <2>2. Slot(tail + k - 1) \in 0..Ring - 1  BY <2>1, SlotInRing
  <2> QED  BY <2>2 DEF RingInv, TypeOK
<1>4. Pending \in [1..Apart(head, tail) -> Samples]  BY <1>3 DEF Pending
<1>5. Pending \in Seq(Samples) /\ Len(Pending) = Apart(head, tail)  BY <1>2, <1>4
<1> QED  BY <1>1, <1>5 DEF Pending

PendingShape ==
  /\ Pending \in Seq(Samples)
  /\ Len(Pending) = Apart(head, tail)
  /\ \A i \in 1..Len(Pending) : Pending[i] = ring[Slot(tail + i - 1)]

\* The same of the state a step leads to.
LEMMA PendingIsNext == RingInv' => PendingShape'
<1>1. RingInv => PendingShape  BY PendingIs DEF PendingShape
<1> QED  BY <1>1, PTL

\* A copy of n samples at the producer leaves what is pending alone and puts
\* the new samples behind it: the i-th from the consumer's counter is the
\* i-th of both in a row.
LEMMA CopiedBehind ==
  ASSUME RingInv, NEW kept \in Seq(Samples), Len(kept) \in 0..MaxPending,
         NEW i \in 1..Len(Pending) + Len(kept)
  PROVE  Copied(kept)[Slot(tail + i - 1)] = (Pending \o kept)[i]
<1> DEFINE d == Len(Pending)
           n == Len(kept)
           s == Slot(tail + i - 1)
<1>1. /\ Pending \in Seq(Samples) /\ d \in 0..MaxPending
      /\ \A j \in 1..d : Pending[j] = ring[Slot(tail + j - 1)]
  BY PendingIs
<1>2. head \in Int /\ tail \in Int /\ Gap(head, tail, d)
  BY CountersRead, PendingIs
<1>3. /\ MaxPending \in Nat /\ d \in Nat /\ n \in Nat /\ n <= MaxPending
      /\ d <= MaxPending /\ Ring \in Nat /\ 2 * MaxPending < Ring /\ i \in Int
      /\ 1 <= i /\ i <= d + n
  BY <1>1, RingAssumption, RoomAssumption, CountersWrap
<1>4. (Pending \o kept)[i] = IF i <= d THEN Pending[i] ELSE kept[i - d]
  BY <1>1, ConcatProperties
<1>5. s \in 0..Ring - 1
  <2>1. tail + i - 1 \in Int  BY <1>2, <1>3
  <2> QED  BY <2>1, SlotInRing
<1>6. Copied(kept)[s] = IF (s - head) % Ring < n THEN kept[((s - head) % Ring) + 1]
                                                ELSE ring[s]
  BY <1>5 DEF Copied
<1>7. CASE i <= d
  <2> DEFINE r == Ring + ((i - 1) - d)
  <2>1. r \in 0..Ring - 1 /\ r >= n  BY <1>3, <1>7
  <2>2. (s - head) % Ring = r
    <3>1. d \in Int /\ (r = (i - 1) - d \/ r = Ring + ((i - 1) - d))  BY <1>3
    <3> HIDE DEF d, r
    <3>2. (Slot(tail + i - 1) - head) % Ring = r
      BY <1>2, <1>3, <2>1, <3>1, SlotFromProducer
    <3> QED  BY <3>2
  <2>3. Pending[i] = ring[s]  BY <1>1, <1>3, <1>7
  <2> HIDE DEF r, s, d, n
  <2>4. ~(r < n)  BY <1>3, <2>1
  <2> QED  BY <1>4, <1>6, <1>7, <2>2, <2>3, <2>4 DEF s
<1>8. CASE i > d
  <2> DEFINE r == (i - 1) - d
  <2>1. r \in 0..Ring - 1 /\ r < n  BY <1>3, <1>8
  <2>2. (s - head) % Ring = r
    <3>1. d \in Int /\ (r = (i - 1) - d \/ r = Ring + ((i - 1) - d))  BY <1>3
    <3> HIDE DEF d, r
    <3>2. (Slot(tail + i - 1) - head) % Ring = r
      BY <1>2, <1>3, <2>1, <3>1, SlotFromProducer
    <3> QED  BY <3>2
  <2>3. r + 1 = i - d /\ ~(i <= d)  BY <1>3, <1>8
  <2> HIDE DEF r, s, d, n
  <2> QED  BY <1>4, <1>6, <2>1, <2>2, <2>3 DEF s
<1> QED  BY <1>3, <1>7, <1>8

\* What is pending after a push: the newest of what was and what was kept.
LEMMA PushPending ==
  ASSUME RingInv, RingInv', NEW batch \in Batches, Push(batch)
  PROVE  LET all  == Pending \o Kept(batch)
         IN  Pending' = SubSeq(all, Over(Len(all)) + 1, Len(all))
<1> DEFINE kept == Kept(batch)
           n    == Len(kept)
           d    == Apart(head, tail)
           all  == Pending \o kept
           h    == (head + n) % IndexMod
           over == Over(Occupied(h, tail))
           t    == (tail + over) % IndexMod
<1>1. kept \in Seq(Samples) /\ n \in 0..MaxPending  BY KeptLength
<1>2. ring' = Copied(kept) /\ head' = h /\ tail' = t  BY DEF Push
<1>3. over \in Nat /\ Apart(h, t) = d + n - over  BY <1>1, PushCounters
<1>4. /\ Pending \in Seq(Samples) /\ Len(Pending) = d /\ d \in 0..MaxPending
  BY PendingIs
<1>5. all \in Seq(Samples) /\ Len(all) = d + n
  BY <1>1, <1>4, ConcatProperties
<1>6. over = Over(Len(all))
  <2>1. head \in Int /\ tail \in Int /\ Gap(head, tail, d)  BY CountersRead
  <2>2. d \in Int /\ n \in Int /\ n \in Nat /\ d + n \in 0..Ring - 1
    BY <1>1, <1>4, RingAssumption, RoomAssumption, CountersWrap
  <2>3. h \in 0..IndexMod - 1 /\ Gap(h, tail, d + n)
    BY <2>1, <2>2, ProducerMoves
  <2>4. h \in Int  BY <2>3, CountersWrap
  <2> HIDE DEF h, d, n, all
  <2>5. Occupied(h, tail) = d + n  BY <2>1, <2>2, <2>3, <2>4, GapIsRead
  <2>6. over = Over(d + n)  BY <2>5 DEF over
  <2> QED  BY <1>5, <2>6
<1>7. /\ Pending' \in Seq(Samples) /\ Len(Pending') = d + n - over
      /\ \A i \in 1..d + n - over : Pending'[i] = ring'[Slot(tail' + i - 1)]
  <2>1. /\ Pending' \in Seq(Samples) /\ Len(Pending') = Apart(head', tail')
        /\ \A i \in 1..Len(Pending') : Pending'[i] = ring'[Slot(tail' + i - 1)]
    BY PendingIsNext DEF PendingShape, Apart, Slot
  <2> QED  BY <1>2, <1>3, <2>1
<1>8. /\ MaxPending \in Nat /\ d \in Nat /\ n \in Nat /\ over \in Nat /\ over <= d + n
      /\ tail \in Int
  <2>1. Over(Len(all)) <= Len(all)
    BY <1>1, <1>4, <1>5, RingAssumption DEF Over
  <2> QED  BY <1>1, <1>3, <1>4, <1>5, <1>6, <2>1, RingAssumption, CountersRead
<1>9. ASSUME NEW i \in 1..d + n - over PROVE Pending'[i] = all[over + i]
  <2>1. Pending'[i] = ring'[Slot(t + i - 1)]  BY <1>2, <1>7
  <2>2. Slot(t + i - 1) = Slot(tail + (over + i) - 1)
    <3> HIDE DEF over, d, n
    <3>1. tail + over \in Int /\ i - 1 \in Int /\ i \in Int  BY <1>8
    <3>2. Slot(((tail + over) % IndexMod) + (i - 1)) = Slot((tail + over) + (i - 1))
      BY <3>1, WrapKeepsSlot
    <3>3. t \in Int /\ t + i - 1 = t + (i - 1)
      <4>1. (tail + over) % IndexMod \in 0..IndexMod - 1  BY <3>1, Division, CountersWrap
      <4>2. t \in Int  BY <4>1, CountersWrap
      <4> HIDE DEF t
      <4> QED  BY <3>1, <4>2
    <3>4. (tail + over) + (i - 1) = tail + (over + i) - 1  BY <1>8, <3>1
    <3> QED  BY <3>2, <3>3, <3>4
  <2>3. over + i \in 1..Len(Pending) + Len(kept)  BY <1>4, <1>8
  <2>4. Copied(kept)[Slot(tail + (over + i) - 1)] = all[over + i]
    <3> HIDE DEF over, d, kept
    <3> QED  BY <1>1, <2>3, CopiedBehind
  <2> QED  BY <1>2, <2>1, <2>2, <2>4
<1>10. Pending' = SubSeq(all, over + 1, d + n)
  <2> HIDE DEF all, over, d, n
  <2> DEFINE w == SubSeq(all, over + 1, d + n)
  <2>1. \A j \in over + 1 .. d + n : all[j] \in Samples
    BY <1>5, <1>8, ElementOfSeq
  <2>2. /\ w \in Seq(Samples)
        /\ Len(w) = IF over + 1 <= d + n THEN (d + n) - (over + 1) + 1 ELSE 0
        /\ \A j \in 1 .. (d + n) - (over + 1) + 1 : w[j] = all[(over + 1) + j - 1]
    <3>1. over + 1 \in Int /\ d + n \in Int  BY <1>8
    <3> QED  BY <2>1, <3>1, SubSeqProperties
  <2>3. Len(w) = d + n - over  BY <1>8, <2>2
  <2>4. ASSUME NEW j \in 1..d + n - over PROVE Pending'[j] = w[j]
    <3>1. w[j] = all[(over + 1) + j - 1]  BY <1>8, <2>2
    <3>2. (over + 1) + j - 1 = over + j  BY <1>8
    <3> QED  BY <1>9, <3>1, <3>2
  <2> HIDE DEF w
  <2>5. Pending' = w  BY <1>7, <2>2, <2>3, <2>4, SeqEqual
  <2> QED  BY <2>5 DEF w
<1>11. Pending' = SubSeq(all, Over(Len(all)) + 1, Len(all))  BY <1>5, <1>6, <1>10
<1> QED  BY <1>11

\* A long enough end of two sequences in a row is an end of the second.
LEMMA EndOfConcat ==
  ASSUME NEW p \in Seq(Samples), NEW b \in Seq(Samples), NEW n \in 0..Len(b)
  PROVE  SubSeq(p \o b, Len(p) + Len(b) - n + 1, Len(p) + Len(b))
           = SubSeq(b, Len(b) - n + 1, Len(b))
<1> DEFINE d == Len(p)
           m == Len(b)
           full == p \o b
           u == SubSeq(full, d + m - n + 1, d + m)
           v == SubSeq(b, m - n + 1, m)
<1>1. d \in Nat /\ m \in Nat /\ n \in Nat /\ n <= m  BY LenProperties
<1>2. /\ full \in Seq(Samples) /\ Len(full) = d + m
      /\ \A i \in 1..d + m : full[i] = IF i <= d THEN p[i] ELSE b[i - d]
  BY ConcatProperties
<1> HIDE DEF full
<1>3. /\ u \in Seq(Samples) /\ Len(u) = n
      /\ \A j \in 1..n : u[j] = full[(d + m - n + 1) + j - 1]
  <2>1. \A j \in d + m - n + 1 .. d + m : full[j] \in Samples
    BY <1>1, <1>2, ElementOfSeq
  <2>2. d + m - n + 1 \in Int /\ d + m \in Int  BY <1>1
  <2> HIDE DEF d, m
  <2>3. /\ u \in Seq(Samples)
        /\ Len(u) = IF d + m - n + 1 <= d + m
                    THEN (d + m) - (d + m - n + 1) + 1 ELSE 0
        /\ \A j \in 1..(d + m) - (d + m - n + 1) + 1 :
             u[j] = full[(d + m - n + 1) + j - 1]
    BY <2>1, <2>2, SubSeqProperties
  <2> HIDE DEF u
  <2>4. (d + m) - (d + m - n + 1) + 1 = n  BY <1>1
  <2>5. Len(u) = n  BY <1>1, <2>3
  <2> QED  BY <2>3, <2>4, <2>5
<1>4. /\ v \in Seq(Samples) /\ Len(v) = n
      /\ \A j \in 1..n : v[j] = b[(m - n + 1) + j - 1]
  <2> DEFINE lo == m - n + 1
  <2>1. \A j \in lo .. m : b[j] \in Samples
    BY <1>1, ElementOfSeq
  <2>2. lo \in Int /\ m \in Int  BY <1>1
  <2> HIDE DEF m, lo
  <2>a. /\ SubSeq(b, lo, m) \in Seq(Samples)
        /\ Len(SubSeq(b, lo, m)) = IF lo <= m THEN m - lo + 1 ELSE 0
        /\ \A j \in 1..m - lo + 1 : SubSeq(b, lo, m)[j] = b[lo + j - 1]
    BY <2>1, <2>2, SubSeqProperties
  <2>3. /\ v \in Seq(Samples)
        /\ Len(v) = IF m - n + 1 <= m THEN m - (m - n + 1) + 1 ELSE 0
        /\ \A j \in 1..m - (m - n + 1) + 1 : v[j] = b[(m - n + 1) + j - 1]
    BY <2>a DEF lo
  <2> HIDE DEF v
  <2>4. m - (m - n + 1) + 1 = n  BY <1>1
  <2>5. Len(v) = n  BY <1>1, <2>3
  <2> QED  BY <2>3, <2>4, <2>5
<1>5. ASSUME NEW j \in 1..n PROVE u[j] = v[j]
  <2> HIDE DEF u, v, d, m
  <2>1. /\ (d + m - n + 1) + j - 1 = d + m - n + j
        /\ (m - n + 1) + j - 1 = m - n + j
        /\ d + m - n + j \in 1..d + m /\ ~(d + m - n + j <= d)
        /\ (d + m - n + j) - d = m - n + j
    BY <1>1
  <2>2. u[j] = full[d + m - n + j]  BY <1>3, <2>1
  <2>3. full[d + m - n + j] = b[m - n + j]  BY <1>2, <2>1
  <2>4. v[j] = b[m - n + j]  BY <1>4, <2>1
  <2> QED  BY <2>2, <2>3, <2>4
<1> HIDE DEF u, v
<1>6. u = v  BY <1>3, <1>4, <1>5, SeqEqual
<1> QED  BY <1>6 DEF u, v, d, m, full

\* Trimming the push first and shedding afterwards leaves what shedding the
\* untrimmed push would have left.
LEMMA TrimThenShed ==
  ASSUME NEW p \in Seq(Samples), NEW batch \in Batches
  PROVE  LET all == p \o Kept(batch)
         IN  SubSeq(all, Over(Len(all)) + 1, Len(all))
               = Queue!Newest(p \o batch, MaxPending)
<1> DEFINE kept == Kept(batch)
           all  == p \o kept
           full == p \o batch
           d    == Len(p)
           m    == Len(batch)
<1>1. /\ batch \in Seq(Samples) /\ m \in Nat /\ d \in Nat
      /\ MaxPending \in Nat /\ MaxPending # 0
  BY BatchIsSequence, LenProperties, RingAssumption
<1>2. kept \in Seq(Samples) /\ Len(kept) \in Nat
  BY KeptLength, LenProperties
<1>3. all \in Seq(Samples) /\ Len(all) = d + Len(kept)
  BY <1>2, ConcatProperties
<1>4. full \in Seq(Samples) /\ Len(full) = d + m
  BY <1>1, ConcatProperties
<1> DEFINE left == SubSeq(all, Over(Len(all)) + 1, Len(all))
           goal == left = Queue!Newest(full, MaxPending)
<1>5. ASSUME m <= MaxPending PROVE goal
  <2>1. kept = batch /\ all = full  BY <1>1, <1>5 DEF Kept
  <2>2. CASE d + m <= MaxPending
    <3>1. Over(d + m) = 0 /\ Queue!Newest(full, MaxPending) = full
      BY <1>1, <1>4, <2>2 DEF Over, Queue!Newest
    <3> HIDE DEF full
    <3>2. SubSeq(full, 1, Len(full)) = full  BY <1>4, SubSeqFull
    <3> HIDE DEF all
    <3>3. left = SubSeq(full, 0 + 1, Len(full))  BY <1>4, <2>1, <3>1
    <3>4. 0 + 1 = 1  OBVIOUS
    <3> QED  BY <3>1, <3>2, <3>3, <3>4
  <2>3. CASE d + m > MaxPending
    <3>1. Over(d + m) + 1 = d + m - MaxPending + 1
      BY <1>1, <2>3 DEF Over
    <3>2. Queue!Newest(full, MaxPending) = SubSeq(full, d + m - MaxPending + 1, d + m)
      BY <1>1, <1>4, <2>3 DEF Queue!Newest
    <3> HIDE DEF full, all
    <3> QED  BY <1>4, <2>1, <3>1, <3>2
  <2> HIDE DEF goal
  <2> QED  BY <1>1, <2>2, <2>3
<1>6. ASSUME m > MaxPending PROVE goal
  <2>1. kept = SubSeq(batch, m - MaxPending + 1, m) /\ Len(kept) = MaxPending
    <3>1. kept = SubSeq(batch, m - MaxPending + 1, m)  BY <1>6 DEF Kept
    <3>2. Len(batch) = Len(kept) + Over(Len(batch))  BY KeptLength
    <3>3. Over(Len(batch)) = m - MaxPending  BY <1>6 DEF Over
    <3> HIDE DEF kept
    <3> QED  BY <1>1, <1>2, <3>1, <3>2, <3>3
  <2> HIDE DEF kept
  <2>2. Over(Len(all)) + 1 = d + MaxPending - MaxPending + 1
    BY <1>1, <1>3, <2>1 DEF Over
  <2>3. SubSeq(p \o kept, Len(p) + Len(kept) - MaxPending + 1, Len(p) + Len(kept))
          = SubSeq(kept, Len(kept) - MaxPending + 1, Len(kept))
    <3>1. MaxPending \in 0..Len(kept)  BY <1>1, <2>1
    <3> QED  BY <1>2, <3>1, EndOfConcat
  <2>4. SubSeq(all, Over(Len(all)) + 1, Len(all)) = SubSeq(kept, MaxPending - MaxPending + 1, MaxPending)
    BY <1>3, <2>1, <2>2, <2>3
  <2>5. SubSeq(kept, MaxPending - MaxPending + 1, MaxPending) = kept
    <3>1. MaxPending - MaxPending + 1 = 1  BY <1>1
    <3> QED  BY <1>2, <2>1, <3>1, SubSeqFull
  <2>6. Queue!Newest(full, MaxPending) = SubSeq(full, d + m - MaxPending + 1, d + m)
    BY <1>1, <1>4, <1>6 DEF Queue!Newest
  <2>7. SubSeq(p \o batch, Len(p) + Len(batch) - MaxPending + 1, Len(p) + Len(batch))
          = SubSeq(batch, Len(batch) - MaxPending + 1, Len(batch))
    BY <1>1, <1>6, EndOfConcat
  <2>8. left = kept  BY <2>4, <2>5
  <2>9. Queue!Newest(full, MaxPending) = kept  BY <2>1, <2>6, <2>7
  <2> HIDE DEF left
  <2> QED  BY <2>8, <2>9
<1> HIDE DEF goal
<1>7. goal  BY <1>1, <1>5, <1>6
<1> QED  BY <1>7 DEF goal

\* A push leaves the newest of what was pending and what it brought.
LEMMA PushIsNewest ==
  ASSUME RingInv, RingInv', NEW batch \in Batches, Push(batch)
  PROVE  Pending' = Queue!Newest(Pending \o batch, MaxPending)
BY PushPending, TrimThenShed, PendingIs

\* A sequence that reads like a part of another is that part.
LEMMA PartOf ==
  ASSUME NEW s \in Seq(Samples), NEW lo \in 1..Len(s) + 1,
         NEW hi \in lo - 1..Len(s), NEW w \in Seq(Samples),
         Len(w) = hi - lo + 1, \A j \in 1..Len(w) : w[j] = s[lo + j - 1]
  PROVE  w = SubSeq(s, lo, hi)
<1> DEFINE v == SubSeq(s, lo, hi)
<1>1. Len(s) \in Nat /\ lo \in Int /\ hi \in Int /\ lo - 1 <= hi  BY LenProperties
<1>2. \A j \in lo..hi : s[j] \in Samples  BY <1>1, ElementOfSeq
<1>3. /\ v \in Seq(Samples)
      /\ Len(v) = IF lo <= hi THEN hi - lo + 1 ELSE 0
      /\ \A j \in 1..hi - lo + 1 : v[j] = s[lo + j - 1]
  BY <1>1, <1>2, SubSeqProperties
<1> HIDE DEF v
<1>4. Len(v) = Len(w)  BY <1>1, <1>3
<1>5. w = v  BY <1>3, <1>4, SeqEqual
<1> QED  BY <1>5 DEF v

\* What a tick takes is the oldest of what is pending, and the rest stays.
LEMMA DrainIsQueueDrain ==
  ASSUME RingInv, RingInv', NEW want \in 1..MaxWant, Drain(want)
  PROVE  Queue!QDrain(want)
<1> DEFINE d == Apart(head, tail)
           n == IF want <= d THEN want ELSE d
           t == (tail + n) % IndexMod
           P == Pending
<1>1. /\ P \in Seq(Samples) /\ Len(P) = d /\ d \in Nat /\ want \in Nat /\ tail \in Int
      /\ P = [k \in 1..d |-> ring[Slot(tail + k - 1)]]
      /\ \A i \in 1..d : P[i] = ring[Slot(tail + i - 1)]
  BY PendingIs, CountersRead, RingAssumption DEF Pending
<1>2. n \in 0..d /\ n \in Nat  BY <1>1
<1>3. Apart(head, t) = d - n  BY <1>2, TakeCounters
<1>4. /\ out' = [k \in 1..n |-> ring[Slot(tail + k - 1)]]
      /\ tail' = t /\ head' = head /\ ring' = ring
  BY DEF Drain
<1>5. /\ Pending' \in Seq(Samples) /\ Len(Pending') = d - n
      /\ \A i \in 1..d - n : Pending'[i] = ring[Slot(t + i - 1)]
  <2>1. /\ Pending' \in Seq(Samples) /\ Len(Pending') = Apart(head', tail')
        /\ \A i \in 1..Len(Pending') : Pending'[i] = ring'[Slot(tail' + i - 1)]
    BY PendingIsNext DEF PendingShape, Apart, Slot
  <2> QED  BY <1>3, <1>4, <2>1
<1>6. ASSUME NEW i \in 1..d - n PROVE Pending'[i] = P[n + i]
  <2> HIDE DEF d, n, P
  <2>1. tail + n \in Int /\ i - 1 \in Int /\ i \in Int  BY <1>1, <1>2
  <2>2. Slot(((tail + n) % IndexMod) + (i - 1)) = Slot((tail + n) + (i - 1))
    BY <2>1, WrapKeepsSlot
  <2>3. t \in Int
    <3>1. (tail + n) % IndexMod \in 0..IndexMod - 1  BY <2>1, Division, CountersWrap
    <3> QED  BY <3>1, CountersWrap
  <2>4. t + i - 1 = t + (i - 1)
    <3> HIDE DEF t
    <3> QED  BY <2>1, <2>3
  <2>5. (tail + n) + (i - 1) = tail + (n + i) - 1  BY <1>1, <1>2, <2>1
  <2>6. n + i \in 1..d  BY <1>1, <1>2
  <2>7. P[n + i] = ring[Slot(tail + (n + i) - 1)]  BY <1>1, <2>6
  <2>8. Pending'[i] = ring[Slot(t + i - 1)]  BY <1>5
  <2>9. Slot(t + i - 1) = Slot(tail + (n + i) - 1)  BY <2>2, <2>4, <2>5 DEF t
  <2> QED  BY <2>7, <2>8, <2>9
<1>7. out' \in Seq(Samples) /\ Len(out') = n /\ \A j \in 1..n : out'[j] = P[j]
  <2>1. out' \in Seq(Samples)  BY DEF RingInv, TypeOK
  <2> HIDE DEF d, n, P, t
  <2>2. Len(out') = n  BY <1>2, <1>4, <2>1
  <2>3. ASSUME NEW j \in 1..n PROVE out'[j] = P[j]
    <3>1. j \in 1..d  BY <1>1, <1>2
    <3> QED  BY <1>1, <1>4, <3>1
  <2> QED  BY <2>1, <2>2, <2>3
<1>8. out' = Queue!Oldest(P, want)
  <2>1. CASE d <= want
    <3>1. n = d  BY <1>1, <2>1
    <3> HIDE DEF n, d, P
    <3>2. out' = P  BY <1>1, <1>4, <3>1
    <3>3. Queue!Oldest(P, want) = P  BY <1>1, <2>1 DEF Queue!Oldest
    <3> QED  BY <3>2, <3>3
  <2>2. CASE ~(d <= want)
    <3>1. n = want /\ want <= d  BY <1>1, <2>2
    <3> HIDE DEF n, d, P
    <3>2. 1 \in 1..Len(P) + 1 /\ want \in 1 - 1..Len(P) /\ Len(out') = want - 1 + 1
      BY <1>1, <1>7, <3>1
    <3>3. \A j \in 1..Len(out') : out'[j] = P[1 + j - 1]
      <4> SUFFICES ASSUME NEW j \in 1..Len(out') PROVE out'[j] = P[1 + j - 1]  OBVIOUS
      <4>1. j \in 1..n /\ 1 + j - 1 = j  BY <1>2, <1>7
      <4> QED  BY <1>7, <4>1
    <3>4. out' = SubSeq(P, 1, want)  BY <1>1, <1>7, <3>2, <3>3, PartOf
    <3>5. Queue!Oldest(P, want) = SubSeq(P, 1, want)
      BY <1>1, <2>2 DEF Queue!Oldest
    <3> QED  BY <3>4, <3>5
  <2> QED  BY <2>1, <2>2
<1>9. Pending' = Queue!Behind(P, want)
  <2>1. CASE d <= want
    <3>1. n = d /\ d - n = 0  BY <1>1, <2>1
    <3> HIDE DEF n, d, P
    <3>2. Pending' = <<>>  BY <1>5, <3>1, EmptySeq
    <3>3. Queue!Behind(P, want) = <<>>  BY <1>1, <2>1 DEF Queue!Behind
    <3> QED  BY <3>2, <3>3
  <2>2. CASE ~(d <= want)
    <3>1. n = want /\ want <= d  BY <1>1, <2>2
    <3> HIDE DEF n, d, P
    <3>2. /\ want + 1 \in 1..Len(P) + 1 /\ Len(P) \in (want + 1) - 1..Len(P)
          /\ Len(Pending') = Len(P) - (want + 1) + 1
      BY <1>1, <1>5, <3>1
    <3>3. \A j \in 1..Len(Pending') : Pending'[j] = P[(want + 1) + j - 1]
      <4> SUFFICES ASSUME NEW j \in 1..Len(Pending')
                   PROVE  Pending'[j] = P[(want + 1) + j - 1]  OBVIOUS
      <4>1. j \in 1..d - n /\ (want + 1) + j - 1 = n + j  BY <1>1, <1>2, <1>5, <3>1
      <4> QED  BY <1>6, <4>1
    <3>4. Pending' = SubSeq(P, want + 1, Len(P))  BY <1>1, <1>5, <3>2, <3>3, PartOf
    <3>5. Queue!Behind(P, want) = SubSeq(P, want + 1, Len(P))
      BY <1>1, <2>2 DEF Queue!Behind
    <3> QED  BY <3>4, <3>5
  <2> QED  BY <2>1, <2>2
<1> QED  BY <1>8, <1>9 DEF Queue!QDrain

\* A clear empties the queue and leaves the last packet's samples alone.
LEMMA ClearIsQueueClear ==
  ASSUME RingInv, RingInv', Clear
  PROVE  Queue!QClear
<1>1. head \in Int  BY CountersRead
<1>2. Apart(head, head) = 0
  <2>1. head - head = IndexMod * 0 + 0 /\ 0 \in 0..Ring - 1  BY <1>1, CountersWrap
  <2>2. Gap(head, head, 0)  BY <2>1 DEF Gap
  <2> QED  BY <1>1, <2>1, <2>2, GapIsRead
<1>3. Pending' \in Seq(Samples) /\ Len(Pending') = Apart(head', tail')
  BY PendingIsNext DEF PendingShape, Apart
<1>4. Pending' = <<>>  BY <1>2, <1>3, EmptySeq DEF Clear
<1> QED  BY <1>4 DEF Queue!QClear, Clear

\* Every step of the ring is a step of the queue or leaves it alone.
LEMMA StepIsQueueStep ==
  ASSUME RingInv, RingInv', [Next]_vars
  PROVE  [Queue!QNext]_(Queue!qvars)
<1>1. ASSUME NEW batch \in Batches, Push(batch) PROVE Queue!QNext
  <2>1. Queue!QPush(batch)  BY <1>1, PushIsNewest DEF Queue!QPush, Push
  <2>2. batch \in Queue!Batches  BY DEF Batches, Queue!Batches
  <2> QED  BY <2>1, <2>2 DEF Queue!QNext
<1>2. ASSUME NEW want \in 1..MaxWant, Drain(want) PROVE Queue!QNext
  BY <1>2, DrainIsQueueDrain DEF Queue!QNext
<1>3. ASSUME Clear PROVE Queue!QNext
  BY <1>3, ClearIsQueueClear DEF Queue!QNext
<1>4. ASSUME Restart PROVE UNCHANGED Queue!qvars
  BY <1>4 DEF Restart, Queue!qvars, Pending, Apart, Slot
<1>5. ASSUME UNCHANGED vars PROVE UNCHANGED Queue!qvars
  BY <1>5 DEF vars, Queue!qvars, Pending, Apart, Slot
<1> QED  BY <1>1, <1>2, <1>3, <1>4, <1>5 DEF Next

LEMMA InitIsQueueInit == Init => Queue!QInit
<1> SUFFICES ASSUME Init PROVE Queue!QInit  OBVIOUS
<1>1. RingInv  BY InitEstablishes
<1>2. Apart(0, 0) = 0
  <2>1. 0 - 0 = IndexMod * 0 + 0 /\ 0 \in 0..Ring - 1  BY CountersWrap
  <2>2. Gap(0, 0, 0)  BY <2>1 DEF Gap
  <2> QED  BY <2>1, <2>2, GapIsRead
<1>3. Pending \in Seq(Samples) /\ Len(Pending) = Apart(head, tail)
  BY <1>1, PendingIs
<1>4. Pending = <<>>  BY <1>2, <1>3, EmptySeq DEF Init
<1> QED  BY <1>4 DEF Queue!QInit, Init

\* The ring of stream.c is the queue trueforce.h promises, for every ring
\* size, counter width and latency bound: through every wrap of its counters
\* a tick takes the oldest samples in order, a clear empties it, and a push
\* (logitf_stream_push_s16) leaves the newest of what was and what came.
THEOREM RingImplementsQueue == Spec => RingIsFreshQueue
<1>1. ASSUME RingInv, RingInv', [Next]_vars
      PROVE  \/ \A batch \in Batches :
                  Push(batch) => Pending' = Queue!Newest(Pending \o batch, MaxPending)
             \/ UNCHANGED vars
  <2>1. ASSUME NEW batch \in Batches, Push(batch)
        PROVE  Pending' = Queue!Newest(Pending \o batch, MaxPending)
    BY <1>1, <2>1, PushIsNewest
  <2> QED  BY <2>1
<1>2. Spec => []RingInv
  BY InitEstablishes, NextPreserves, PTL DEF Spec
<1>3. Spec => PushShedsOldest
  BY <1>1, <1>2, PTL DEF Spec, PushShedsOldest
<1>4. Spec => ImplementsFreshQueue
  BY <1>2, InitIsQueueInit, StepIsQueueStep, PTL
     DEF Spec, ImplementsFreshQueue, Queue!QSpec
<1> QED  BY <1>3, <1>4 DEF RingIsFreshQueue
=============================================================================
