----------------------------- MODULE MCVelocity -----------------------------
(***************************************************************************)
(* Velocity for TLC.                                                       *)
(***************************************************************************)
EXTENDS Velocity
=============================================================================
