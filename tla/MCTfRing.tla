------------------------------ MODULE MCTfRing ------------------------------
(***************************************************************************)
(* TfRing on a ring of five slots whose counters wrap after two laps: the  *)
(* smallest with room for a full backlog of two and a full push.           *)
(***************************************************************************)
EXTENDS TfRing
=============================================================================
