------------------------------ MODULE Channel ------------------------------
(***************************************************************************)
(* What a set of mailboxes promises its users: each one, once opened, is a *)
(* bounded FIFO queue until it is closed.  A closed mailbox takes no more  *)
(* messages and hands out the ones it still holds.                         *)
(***************************************************************************)
EXTENDS Naturals, Sequences

CONSTANTS Box, Msg, Cap

VARIABLES opened,   \* the mailboxes that exist
          queue,    \* their messages, the oldest first
          closed    \* the mailboxes that were closed

chanVars == <<opened, queue, closed>>

Init ==
  /\ opened = {}
  /\ queue = [b \in Box |-> <<>>]
  /\ closed = {}

Open(b) ==
  /\ b \in Box \ opened
  /\ opened' = opened \cup {b}
  /\ UNCHANGED <<queue, closed>>

Put(b, m) ==
  /\ b \in opened \ closed
  /\ Len(queue[b]) < Cap
  /\ queue' = [queue EXCEPT ![b] = Append(@, m)]
  /\ UNCHANGED <<opened, closed>>

Take(b) ==
  /\ b \in opened
  /\ queue[b] # <<>>
  /\ queue' = [queue EXCEPT ![b] = Tail(@)]
  /\ UNCHANGED <<opened, closed>>

Close(b) ==
  /\ b \in opened
  /\ closed' = closed \cup {b}
  /\ UNCHANGED <<opened, queue>>

Next == \E b \in Box : Open(b) \/ Take(b) \/ Close(b) \/ \E m \in Msg : Put(b, m)

Spec == Init /\ [][Next]_chanVars
=============================================================================
