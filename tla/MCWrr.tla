------------------------------- MODULE MCWrr -------------------------------
(* Instances of Wrr for TLC. *)
EXTENDS Wrr

CONSTANT c1
=============================================================================
