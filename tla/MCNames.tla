------------------------------ MODULE MCNames ------------------------------
(* Instances of Names for TLC. *)
EXTENDS Names, TLC

CONSTANTS p1, p2

Paths == {<<"a">>, <<"b">>, <<"a", "b">>}
Short == {<<"b">>}
Long == {<<"b", "a">>}
Symmetry == Permutations(Proc)
=============================================================================
