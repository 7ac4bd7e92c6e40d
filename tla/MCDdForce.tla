----------------------------- MODULE MCDdForce -----------------------------
(***************************************************************************)
(* Instances of DdForce: a queue of two or three packets of which one is   *)
(* open to any packet and the rest kept for forces (eight and two in the   *)
(* code), a grace of one tick, pairs given up after two ticks and          *)
(* bring-ups after two failures.                                           *)
(***************************************************************************)
EXTENDS DdForce

CONSTANTS c1, c2, e1

Steady  == [type |-> "constant", texture |-> FALSE, bounded |-> FALSE, delay |-> FALSE]
Burst   == [type |-> "periodic", texture |-> TRUE, bounded |-> TRUE, delay |-> FALSE]
Late    == [type |-> "periodic", texture |-> FALSE, bounded |-> TRUE, delay |-> TRUE]

ForceShapes   == {Steady, Late}
TextureShapes == {Burst}
=============================================================================
