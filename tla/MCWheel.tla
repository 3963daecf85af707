------------------------------ MODULE MCWheel ------------------------------
(* Instances of Wheel for TLC. *)
EXTENDS Wheel
=============================================================================
