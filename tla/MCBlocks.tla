------------------------------ MODULE MCBlocks ------------------------------
(* Instances of Blocks for TLC. *)
EXTENDS Blocks

CONSTANTS f1, f2

\* One file that grows into its doubly indirect blocks, and a small one that
\* competes with it for space.
Sizes == [ip \in Inode |-> IF ip = f1 THEN 7 ELSE 1]
=============================================================================
