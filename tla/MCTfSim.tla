------------------------------ MODULE MCTfSim ------------------------------
(***************************************************************************)
(* TfSim on one wheel with the daemon and one sweep: a game to synthesise  *)
(* for, one at strength zero and one with native TrueForce.                *)
(***************************************************************************)
EXTENDS TfSim
=============================================================================
