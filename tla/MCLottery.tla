----------------------------- MODULE MCLottery -----------------------------
(* Instances of Lottery for TLC. *)
EXTENDS Lottery, TLC

CONSTANTS c1, c2

Symmetry == Permutations(CPU)
=============================================================================
