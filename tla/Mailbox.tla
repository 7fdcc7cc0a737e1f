------------------------------ MODULE Mailbox ------------------------------
(***************************************************************************)
(* Mailboxes of Lab 3 (Task 3.1, kernel/mbox.c), with the sleep and wakeup *)
(* of kernel/proc.c they block on.                                         *)
(*                                                                         *)
(* mbox_send, mbox_recv and mbox_close touch a box only while they hold    *)
(* its lock, so what they do from acquire to release (or to the sleep that *)
(* gives the lock up, atomically with becoming SLEEPING) is one action.    *)
(* mbox_create looks for the key, looks for an unused box and claims it    *)
(* without any lock: each of these accesses is an action of its own.       *)
(***************************************************************************)
EXTENDS Integers, FiniteSets, Sequences

CONSTANTS Proc,       \* processes
          Creators,   \* the processes that call mbox_create
          Key,        \* keys the programs use
          Msg,        \* messages
          MAX_MBOX, MBOX_CAP,
          MaxSends    \* bound on the calls of mbox_send

ASSUME MailboxAssumption ==
  /\ IsFiniteSet(Proc)
  /\ Creators \subseteq Proc
  /\ Key \subseteq Int /\ Msg \subseteq Int
  /\ MAX_MBOX \in Nat \ {0} /\ MBOX_CAP \in Nat \ {0}
  /\ MaxSends \in Nat

Box == 0 .. (MAX_MBOX - 1)

VARIABLES box,       \* mboxes.box, without the locks
          loc,       \* where each process is in which call; early is history: a sender
                     \*   went to sleep before mbox_create had returned the box
          sleeping,  \* SLEEPING processes; their channel is &box[loc.i]
          made,      \* ids that mbox_create has returned
          sends      \* number of calls of mbox_send

vars == <<box, loc, sleeping, made, sends>>

User == [pc |-> "user", key |-> 0, i |-> 0, msg |-> 0, early |-> FALSE]

mboxinit ==
  box = [b \in Box |-> [used |-> 0, key |-> 0, closed |-> 0,
                        head |-> 0, tail |-> 0, count |-> 0,
                        buf |-> [j \in 0 .. (MBOX_CAP - 1) |-> 0]]]

Init ==
  /\ mboxinit
  /\ loc = [p \in Proc |-> User]
  /\ sleeping = {}
  /\ made = {}
  /\ sends = 0

At(p, pc) == loc[p].pc = pc /\ p \notin sleeping

Goto(p, l) == loc' = [loc EXCEPT ![p] = l]

\* At pc in mbox_create of key k, with box i at hand.
Creates(pc, k, i) == [pc |-> pc, key |-> k, i |-> i, msg |-> 0, early |-> FALSE]

\* Mutant: only the receivers are woken.
WakeupReceivers(b) == {q \in sleeping : loc[q].i # b \/ loc[q].pc = "send"}

\* The sleepers left once the channel of box b is woken.
wakeup(b) == {q \in sleeping : loc[q].i # b}

-----------------------------------------------------------------------------
(* mbox_create *)

mbox_create(p, k) ==
  /\ At(p, "user") /\ p \in Creators
  /\ Goto(p, Creates("find", k, 0))
  /\ UNCHANGED <<box, sleeping, made, sends>>

\* Mutant: a closed box is not found.
KeyMatchesOpen(i, k) == box[i].used = 1 /\ box[i].key = k /\ box[i].closed = 0

KeyMatches(i, k) == box[i].used = 1 /\ box[i].key = k

\* One iteration of the scan for the key; the box that matches is returned.
find_id_by_key(p) ==
  LET i == loc[p].i
      match == KeyMatches(i, loc[p].key)
  IN  /\ At(p, "find")
      /\ \/ match /\ Goto(p, User) /\ made' = made \cup {i}
         \/ /\ ~match /\ UNCHANGED made
            /\ IF i + 1 \in Box
               THEN Goto(p, Creates("find", loc[p].key, i + 1))
               ELSE Goto(p, Creates("scan", loc[p].key, 0))
      /\ UNCHANGED <<box, sleeping, sends>>

\* One iteration of the scan for an unused box; -1 when there is none.
scan_unused(p) ==
  LET i == loc[p].i
  IN  /\ At(p, "scan")
      /\ \/ box[i].used = 0 /\ Goto(p, Creates("claim", loc[p].key, i))
         \/ /\ box[i].used = 1
            /\ Goto(p, IF i + 1 \in Box THEN Creates("scan", loc[p].key, i + 1) ELSE User)
      /\ UNCHANGED <<box, sleeping, made, sends>>

claim_used(p) ==
  /\ At(p, "claim")
  /\ box' = [box EXCEPT ![loc[p].i].used = 1]
  /\ Goto(p, Creates("setkey", loc[p].key, loc[p].i))
  /\ UNCHANGED <<sleeping, made, sends>>

claim_key(p) ==
  /\ At(p, "setkey")
  /\ box' = [box EXCEPT ![loc[p].i].key = loc[p].key]
  /\ Goto(p, Creates("reset", loc[p].key, loc[p].i))
  /\ UNCHANGED <<sleeping, made, sends>>

\* Box r with another ring buffer.
Ring(r, head, tail, count, buf) ==
  [used |-> r.used, key |-> r.key, closed |-> r.closed,
   head |-> head, tail |-> tail, count |-> count, buf |-> buf]

Emptied(r) == [Ring(r, 0, 0, 0, r.buf) EXCEPT !.closed = 0]

\* The critical section at the end of mbox_create, and its return.
reset_box(p) ==
  /\ At(p, "reset")
  /\ box' = [box EXCEPT ![loc[p].i] = Emptied(@)]
  /\ made' = made \cup {loc[p].i}
  /\ Goto(p, User)
  /\ UNCHANGED <<sleeping, sends>>

-----------------------------------------------------------------------------
(* mbox_send, mbox_recv, mbox_close *)

\* Mutants: the message goes to the head; the index does not wrap.
PushedAtHead(r, m) ==
  Ring(r, r.head, (r.tail + 1) % MBOX_CAP, r.count + 1, [r.buf EXCEPT ![r.head] = m])

PoppedNoWrap(r) == Ring(r, r.head + 1, r.tail, r.count - 1, r.buf)

Pushed(r, m) ==
  Ring(r, r.head, (r.tail + 1) % MBOX_CAP, r.count + 1, [r.buf EXCEPT ![r.tail] = m])

Popped(r) == Ring(r, (r.head + 1) % MBOX_CAP, r.tail, r.count - 1, r.buf)

\* p goes to sleep on box b in the loop pc; m is kept for the next try.
Block(p, pc, b, m) ==
  /\ Goto(p, [pc |-> pc, key |-> 0, i |-> b, msg |-> m, early |-> pc = "send" /\ b \notin made])
  /\ sleeping' = sleeping \cup {p}
  /\ UNCHANGED box

\* From acquiring the lock, at the call or after a wakeup, to the sleep or the
\* return.  (The test of used is made only at the call; used is never reset.)
SendTry(p, b, m) ==
  LET r == box[b]
  IN  /\ \/ /\ r.used = 0 \/ r.closed = 1
            /\ Goto(p, User)
            /\ UNCHANGED <<box, sleeping>>
         \/ /\ r.used = 1 /\ r.closed = 0 /\ r.count = MBOX_CAP
            /\ Block(p, "send", b, m)
         \/ /\ r.used = 1 /\ r.closed = 0 /\ r.count # MBOX_CAP
            /\ box' = [box EXCEPT ![b] = Pushed(r, m)]
            /\ sleeping' = wakeup(b)
            /\ Goto(p, User)
      /\ UNCHANGED made

RecvTry(p, b) ==
  LET r == box[b]
  IN  /\ \/ /\ r.used = 0 \/ (r.count = 0 /\ r.closed = 1)
            /\ Goto(p, User)
            /\ UNCHANGED <<box, sleeping>>
         \/ /\ r.used = 1 /\ r.count = 0 /\ r.closed = 0
            /\ Block(p, "recv", b, 0)
         \/ /\ r.used = 1 /\ r.count # 0
            /\ box' = [box EXCEPT ![b] = Popped(r)]
            /\ sleeping' = wakeup(b)
            /\ Goto(p, User)
      /\ UNCHANGED <<made, sends>>

\* Any id may be given, that of a box which mbox_create is still making too.
\* One out of range is refused and changes nothing.
mbox_send(p, b, m) ==
  /\ At(p, "user") /\ sends < MaxSends
  /\ sends' = sends + 1
  /\ SendTry(p, b, m)

send_again(p) == At(p, "send") /\ SendTry(p, loc[p].i, loc[p].msg) /\ UNCHANGED sends

\* The message is out of the box before sys_mbox_recv copies it to the caller; a
\* copyout that fails loses it.
mbox_recv(p, b) == At(p, "user") /\ RecvTry(p, b)

recv_again(p) == At(p, "recv") /\ RecvTry(p, loc[p].i)

\* Mutant: mbox_close without its wakeup.
CloseSilently(p, b) ==
  /\ At(p, "user")
  /\ box' = [box EXCEPT ![b].closed = IF box[b].used = 1 THEN 1 ELSE @]
  /\ UNCHANGED <<loc, sleeping, made, sends>>

mbox_close(p, b) ==
  /\ At(p, "user")
  /\ box' = [box EXCEPT ![b].closed = IF box[b].used = 1 THEN 1 ELSE @]
  /\ sleeping' = IF box[b].used = 1 THEN wakeup(b) ELSE sleeping
  /\ UNCHANGED <<loc, made, sends>>

\* kkill makes a sleeper RUNNABLE; it goes on with the call, whose loops do not
\* look at p->killed.
kkill(p) ==
  /\ p \in sleeping
  /\ sleeping' = sleeping \ {p}
  /\ UNCHANGED <<box, loc, made, sends>>

\* What a process does inside a call, once it is given the CPU.
Step(p) ==
  \/ find_id_by_key(p) \/ scan_unused(p) \/ claim_used(p) \/ claim_key(p)
  \/ reset_box(p) \/ send_again(p) \/ recv_again(p)

Next ==
  \E p \in Proc : \/ Step(p)
                  \/ kkill(p)
                  \/ \E k \in Key : mbox_create(p, k)
                  \/ \E b \in Box : \/ mbox_recv(p, b) \/ mbox_close(p, b)
                                    \/ \E m \in Msg : mbox_send(p, b, m)

Spec == Init /\ [][Next]_vars

\* The scheduler keeps giving the CPU to a RUNNABLE process.
FairSpec == Spec /\ \A p \in Proc : WF_vars(Step(p))
-----------------------------------------------------------------------------
(* Properties. *)

Mail == [used : {0, 1}, key : Key \cup {0}, closed : {0, 1},
         head : 0 .. (MBOX_CAP - 1), tail : 0 .. (MBOX_CAP - 1),
         count : 0 .. MBOX_CAP, buf : [0 .. (MBOX_CAP - 1) -> Msg \cup {0}]]

\* Types; in particular count stays within 0 .. MBOX_CAP, which mbox_send and
\* mbox_recv only ever compare with the two ends.
TypeOK ==
  /\ box \in [Box -> Mail]
  /\ loc \in [Proc -> [pc : {"user", "find", "scan", "claim", "setkey", "reset",
                             "send", "recv"},
                       key : Key \cup {0}, i : Box, msg : Msg \cup {0}, early : BOOLEAN]]
  /\ sleeping \in SUBSET {p \in Proc : loc[p].pc \in {"send", "recv"}}
  /\ made \in SUBSET Box
  /\ sends \in 0 .. MaxSends

\* p is in mbox_send on a full open box, or in mbox_recv on an empty open one.
MustWait(p) ==
  LET r == box[loc[p].i]
  IN  r.closed = 0 /\ r.count = (IF loc[p].pc = "send" THEN MBOX_CAP ELSE 0)

\* p fell asleep in mbox_send on a full box that mbox_create then emptied, without
\* a wakeup.
Stranded(p) ==
  LET r == box[loc[p].i]
  IN  p \in sleeping /\ loc[p].early /\ loc[p].pc = "send" /\ r.closed = 0 /\ r.count = 0

\* No lost wakeup: whoever sleeps in mbox_send sleeps on a full open box, and
\* whoever sleeps in mbox_recv on an empty open one, although senders and
\* receivers share one channel.  The one exception is a sender that was asleep
\* before mbox_create returned the box, and only while the box stays empty.
SleepersHaveCause == \A p \in sleeping : MustWait(p) \/ Stranded(p)

\* The messages of a ring buffer, the oldest first.
Contents(r) == [j \in 1 .. r.count |-> r.buf[(r.head + j - 1) % MBOX_CAP]]

Abstract == INSTANCE Channel WITH
  Cap <- MBOX_CAP,
  opened <- made,
  queue <- [b \in Box |-> IF b \in made THEN Contents(box[b]) ELSE <<>>],
  closed <- {b \in made : box[b].closed = 1}

\* From the moment an mbox_create returns its id, a box is a bounded FIFO
\* channel: no call loses, duplicates, reorders or invents a message, and no
\* later mbox_create of its key empties or reopens it.
ImplementsChannel == Abstract!Spec

\* At most one box in use has a given key, so that all who create a mailbox
\* under one key, one after the other, get the same box.
OneBoxPerKey ==
  \A b, c \in Box :
    box[b].used = 1 /\ box[c].used = 1 /\ box[b].key = box[c].key /\ box[b].key # 0 => b = c

\* The id that mbox_create(key) returns is that of a box with this key (mbox.c:
\* "if mboxes.box[i].key == key then it returns i").
CreateReturnsItsBox ==
  [][\A p \in Proc : loc[p].pc \in {"find", "reset"} /\ loc'[p].pc = "user"
                       => box'[loc[p].i].key = loc[p].key]_vars

\* Nobody stays blocked in mbox_send on a box that has room, in mbox_recv on one
\* that holds messages, or in either on a box that mbox_close has closed, except
\* the senders that mbox_create strands.
BlockedGetThrough ==
  \A p \in Proc :
    (loc[p].pc \in {"send", "recv"} /\ ~MustWait(p) /\ ~Stranded(p))
      ~> (loc[p].pc = "user" \/ MustWait(p))
=============================================================================
