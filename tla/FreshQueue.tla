----------------------------- MODULE FreshQueue -----------------------------
(***************************************************************************)
(* What libtrueforce promises about the samples a program has pushed and   *)
(* the wheel has not yet played (trueforce.h, "Trueforce audio-haptic      *)
(* stream"): a first-in first-out queue that never holds more than         *)
(* MaxPending samples, because a push that would exceed the bound loses    *)
(* the OLDEST samples.  Freshness wins over completeness: nobody can feel  *)
(* a dropped millisecond, everybody can feel a second of delay.            *)
(*                                                                         *)
(* TfRing is the ring buffer that implements this queue; TfStream uses it. *)
(***************************************************************************)
EXTENDS Integers, Sequences

CONSTANTS Samples,      \* sample values
          MaxPending,   \* LOGITF_TF_MAX_PENDING: the latency bound, in samples
          MaxBatch,     \* longest batch one push call may carry
          MaxWant       \* LOGITF_TF_CATCHUP_MAX: most one packet may drain

VARIABLES queue,        \* pending samples, oldest first
          out           \* the samples the last drain handed to the packet

qvars == <<queue, out>>

\* The newest n samples of s, all of them when there are no more than n.
Newest(s, n) == IF Len(s) <= n THEN s ELSE SubSeq(s, Len(s) - n + 1, Len(s))

\* The oldest n samples of s, and what they leave behind.
Oldest(s, n) == IF Len(s) <= n THEN s ELSE SubSeq(s, 1, n)
Behind(s, n) == IF Len(s) <= n THEN <<>> ELSE SubSeq(s, n + 1, Len(s))

\* Every batch a program may push: at least one sample, at most MaxBatch.
Batches == UNION {[1..n -> Samples] : n \in 1..MaxBatch}

QInit == queue = <<>> /\ out = <<>>

QPush(batch) ==
  /\ queue' = Newest(queue \o batch, MaxPending)
  /\ UNCHANGED out

QDrain(want) ==
  /\ out'   = Oldest(queue, want)
  /\ queue' = Behind(queue, want)

QClear ==
  /\ queue' = <<>>
  /\ UNCHANGED out

QNext ==
  \/ \E batch \in Batches : QPush(batch)
  \/ \E want \in 1..MaxWant : QDrain(want)
  \/ QClear

QSpec == QInit /\ [][QNext]_qvars
=============================================================================
