----------------------------- MODULE MCMailbox -----------------------------
(* Instances of Mailbox for TLC. *)
EXTENDS Mailbox

CONSTANTS p1, p2, p3

Procs == {p1, p2, p3}
=============================================================================
