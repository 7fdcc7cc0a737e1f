------------------------------- MODULE MCShm -------------------------------
(* Instances of Shm for TLC. *)
EXTENDS Shm, TLC

CONSTANTS p1, p2, p3, g1, g2

Procs == {p1, p2, p3}
Pages == {g1, g2}
Keys == {1, 2}
Symmetry == Permutations(Procs \ {InitProc}) \cup Permutations(Pages)
=============================================================================
