----------------------------- MODULE MCTfStream -----------------------------
(***************************************************************************)
(* Instances of TfStream.  The constants are the code's scaled down with   *)
(* their order kept: a window of three slots for thirteen, one sample per  *)
(* expiration for four, a hold of one tick for eight, a decay of two for   *)
(* forty, a grace of two for five hundred.                                 *)
(***************************************************************************)
EXTENDS TfStream, TLC

CONSTANTS c1, c2

\* One thread owns the wheel (it opens, feeds and closes it); another pauses,
\* resumes and clears.
OwnerAndController ==
  (c1 :> {"push", "close", "pause"}) @@ (c2 :> {"pause", "resume", "clear"})

ThreeAndTwo == (c1 :> 3) @@ (c2 :> 2)
TwoAndOne == (c1 :> 2) @@ (c2 :> 1)
=============================================================================
