------------------------------ MODULE MCProc -------------------------------
(* An instance of Proc for TLC. *)
EXTENDS Proc
=============================================================================
