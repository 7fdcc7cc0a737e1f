--------------------------- MODULE MailboxProofs ---------------------------
(***************************************************************************)
(* Proofs about Mailbox, for any number of processes, boxes, messages and  *)
(* for any capacity.  What they say beyond the types needs that one        *)
(* process at most creates mailboxes: mbox_create takes no lock.           *)
(***************************************************************************)
EXTENDS Mailbox, TLAPS

SingleCreator == \A p, q \in Creators : p = q

Creating == {"find", "scan", "claim", "setkey", "reset"}

\* The ring buffers: count is the distance from head to tail.
RingInv == \A b \in Box : box[b].tail = (box[b].head + box[b].count) % MBOX_CAP

\* Boxes that are handed out are in use; one in use that is not handed out is
\* being made.
UseInv ==
  /\ \A b \in made : box[b].used = 1
  /\ \A b \in Box \ made : box[b].used = 1 =>
       \E p \in Creators : loc[p].pc \in {"setkey", "reset"} /\ loc[p].i = b

\* Where a creator is, and what its scans have found.
CreateInv ==
  /\ \A p \in Proc : loc[p].pc \in Creating => p \in Creators
  /\ \A p \in Proc : loc[p].pc = "claim" => box[loc[p].i].used = 0
  /\ \A p \in Proc : loc[p].pc \in {"setkey", "reset"} => box[loc[p].i].used = 1 /\ loc[p].i \notin made
  /\ \A p \in Proc, b \in Box : loc[p].pc = "find" /\ b < loc[p].i => ~KeyMatches(b, loc[p].key)
  /\ \A p \in Proc, b \in Box : loc[p].pc \in {"scan", "claim"} => ~KeyMatches(b, loc[p].key)
  /\ \A p \in Proc, b \in Box : loc[p].pc = "setkey" /\ b # loc[p].i => ~KeyMatches(b, loc[p].key)
  /\ \A p \in Proc : loc[p].pc = "setkey" => box[loc[p].i].key = 0
  /\ \A b \in Box : box[b].used = 0 => box[b].key = 0

\* Who sleeps in mbox_send on a box that is not handed out yet is early.
CallInv == \A p \in sleeping : loc[p].pc = "send" /\ loc[p].i \notin made => loc[p].early

\* A sender keeps its message.
SendInv == \A p \in Proc : loc[p].pc = "send" => loc[p].msg \in Msg

IInv == /\ TypeOK /\ RingInv /\ UseInv /\ CreateInv /\ CallInv /\ SendInv
        /\ OneBoxPerKey /\ SleepersHaveCause
-----------------------------------------------------------------------------
(* The ring buffer. *)

\* What Pushed and Popped make of a record, field by field.
LEMMA PushedFields ==
  ASSUME NEW r \in Mail, NEW m \in Msg, r.count # MBOX_CAP
  PROVE  /\ Pushed(r, m) \in Mail
         /\ Pushed(r, m).used = r.used /\ Pushed(r, m).key = r.key /\ Pushed(r, m).closed = r.closed
         /\ Pushed(r, m).head = r.head /\ Pushed(r, m).count = r.count + 1
         /\ Pushed(r, m).tail = (r.tail + 1) % MBOX_CAP
         /\ Pushed(r, m).buf = [r.buf EXCEPT ![r.tail] = m]
<1> DEFINE new == [used |-> r.used, key |-> r.key, closed |-> r.closed, head |-> r.head,
                   tail |-> (r.tail + 1) % MBOX_CAP, count |-> r.count + 1,
                   buf |-> [r.buf EXCEPT ![r.tail] = m]]
<1>1. Pushed(r, m) = new
  BY Zenon DEF Pushed, Ring
<1>2. /\ r.tail \in 0 .. (MBOX_CAP - 1) /\ r.count \in 0 .. MBOX_CAP
      /\ r.buf \in [0 .. (MBOX_CAP - 1) -> Msg \cup {0}]
  BY Zenon DEF Mail
<1>3. (r.tail + 1) % MBOX_CAP \in 0 .. (MBOX_CAP - 1) /\ r.count + 1 \in 0 .. MBOX_CAP
  BY <1>2, MailboxAssumption
<1>4. [r.buf EXCEPT ![r.tail] = m] \in [0 .. (MBOX_CAP - 1) -> Msg \cup {0}]
  BY <1>2, Zenon
<1>5. new \in Mail
  BY <1>2, <1>3, <1>4, Zenon DEF Mail
<1> QED
  BY <1>1, <1>5

\* What Popped makes of a record when mbox_recv finds a message.
LEMMA PoppedFields ==
  ASSUME NEW r \in Mail, r.count # 0
  PROVE  /\ Popped(r) \in Mail
         /\ Popped(r).used = r.used /\ Popped(r).key = r.key /\ Popped(r).closed = r.closed
         /\ Popped(r).head = (r.head + 1) % MBOX_CAP /\ Popped(r).count = r.count - 1
         /\ Popped(r).tail = r.tail /\ Popped(r).buf = r.buf
<1> DEFINE new == [used |-> r.used, key |-> r.key, closed |-> r.closed,
                   head |-> (r.head + 1) % MBOX_CAP, tail |-> r.tail, count |-> r.count - 1,
                   buf |-> r.buf]
<1>1. Popped(r) = new
  BY Zenon DEF Popped, Ring
<1>2. r.head \in 0 .. (MBOX_CAP - 1) /\ r.count \in 0 .. MBOX_CAP
  BY Zenon DEF Mail
<1>3. (r.head + 1) % MBOX_CAP \in 0 .. (MBOX_CAP - 1) /\ r.count - 1 \in 0 .. MBOX_CAP
  BY <1>2, MailboxAssumption
<1>4. new \in Mail
  BY <1>3, Zenon DEF Mail
<1> QED
  BY <1>1, <1>4

\* An index into buf[MBOX_CAP] wraps at most once.
LEMMA ModIndex ==
  ASSUME NEW n \in Nat \ {0}, NEW h \in 0 .. (n - 1), NEW j \in 0 .. n
  PROVE  (h + j) % n = IF h + j < n THEN h + j ELSE h + j - n
OBVIOUS

\* Indices behind one that wraps.
LEMMA ModShift ==
  ASSUME NEW n \in Nat \ {0}, NEW h \in 0 .. (n - 1), NEW j \in 0 .. n
  PROVE  /\ (((h + 1) % n) + j) % n = (h + 1 + j) % n
         /\ (((h + j) % n) + 1) % n = (h + j + 1) % n
<1>1. (h + 1) % n = IF h + 1 < n THEN h + 1 ELSE 0
  OBVIOUS
<1>2. (h + j) % n = IF h + j < n THEN h + j ELSE h + j - n
  OBVIOUS
<1>3. (h + j + 1) % n = IF h + j + 1 < n THEN h + j + 1
                        ELSE IF h + j + 1 < 2 * n THEN h + j + 1 - n ELSE 0
  OBVIOUS
<1> QED
  BY <1>1, <1>2, <1>3

\* What a box holds is a sequence of its messages.
LEMMA ContentsSeq ==
  ASSUME NEW r \in Mail
  PROVE  /\ Contents(r) \in Seq(Msg \cup {0}) /\ Len(Contents(r)) = r.count
         /\ \A j \in 1 .. r.count : Contents(r)[j] = r.buf[(r.head + j - 1) % MBOX_CAP]
<1>1. /\ r.count \in Nat /\ r.head \in 0 .. (MBOX_CAP - 1)
      /\ r.buf \in [0 .. (MBOX_CAP - 1) -> Msg \cup {0}]
  BY MailboxAssumption DEF Mail
<1>2. \A j \in 1 .. r.count : (r.head + j - 1) % MBOX_CAP \in 0 .. (MBOX_CAP - 1)
  BY <1>1, MailboxAssumption
<1>3. Contents(r) \in [1 .. r.count -> Msg \cup {0}]
  BY <1>1, <1>2, Zenon DEF Contents
<1>4. Contents(r) \in Seq(Msg \cup {0}) /\ Len(Contents(r)) = r.count
  BY <1>1, <1>3
<1> QED
  BY <1>4, Zenon DEF Contents

\* mbox_send appends the message to what the box holds.
LEMMA PushedContents ==
  ASSUME NEW r \in Mail, NEW m \in Msg, r.count # MBOX_CAP, r.tail = (r.head + r.count) % MBOX_CAP
  PROVE  /\ Contents(Pushed(r, m)) = Append(Contents(r), m)
         /\ Pushed(r, m).tail = (Pushed(r, m).head + Pushed(r, m).count) % MBOX_CAP
<1> DEFINE s == Pushed(r, m)
<1>1. /\ s \in Mail /\ s.head = r.head /\ s.count = r.count + 1
      /\ s.tail = (r.tail + 1) % MBOX_CAP /\ s.buf = [r.buf EXCEPT ![r.tail] = m]
  BY PushedFields, Zenon
<1>2. /\ r.count \in 0 .. (MBOX_CAP - 1) /\ r.head \in 0 .. (MBOX_CAP - 1)
      /\ r.tail \in 0 .. (MBOX_CAP - 1)
      /\ r.buf \in [0 .. (MBOX_CAP - 1) -> Msg \cup {0}]
  BY MailboxAssumption DEF Mail
<1> HIDE DEF s
<1>3. s.tail = (s.head + s.count) % MBOX_CAP
  <2>1. (((r.head + r.count) % MBOX_CAP) + 1) % MBOX_CAP = (r.head + r.count + 1) % MBOX_CAP
    <3>1. MBOX_CAP \in Nat \ {0} /\ r.count \in 0 .. MBOX_CAP
      BY <1>2, MailboxAssumption
    <3> QED
      BY <1>2, <3>1, ModShift, Zenon
  <2>2. s.head + s.count = r.head + r.count + 1
    BY <1>1, <1>2
  <2> QED
    BY <1>1, <2>1, <2>2, Zenon
<1>4. Contents(s) \in Seq(Msg \cup {0}) /\ Len(Contents(s)) = r.count + 1
  BY <1>1, ContentsSeq, Zenon
<1>5. /\ Append(Contents(r), m) \in Seq(Msg \cup {0}) /\ Len(Append(Contents(r), m)) = r.count + 1
      /\ \A j \in 1 .. r.count : Append(Contents(r), m)[j] = Contents(r)[j]
      /\ Append(Contents(r), m)[r.count + 1] = m
  BY <1>2, ContentsSeq
<1>6. ASSUME NEW j \in 1 .. r.count PROVE Contents(s)[j] = Contents(r)[j]
  <2>1. (r.head + j - 1) % MBOX_CAP \in (0 .. (MBOX_CAP - 1)) \ {r.tail}
    <3> DEFINE h == r.head
               n == MBOX_CAP
               k == r.count
               at == (r.head + j - 1) % MBOX_CAP
               t == r.tail
    <3>1. n \in Nat \ {0} /\ h \in 0 .. (n - 1) /\ k \in 0 .. (n - 1) /\ j \in 1 .. k
      BY <1>2, MailboxAssumption, Zenon
    <3>2. j - 1 \in 0 .. n /\ h + j - 1 = h + (j - 1)
      BY <3>1
    <3>3. at = IF h + (j - 1) < n THEN h + (j - 1) ELSE h + (j - 1) - n
      BY <3>1, <3>2, ModIndex, Zenon
    <3>4. t = IF h + k < n THEN h + k ELSE h + k - n
      <4>1. k \in 0 .. n /\ t = (h + k) % n
        BY <3>1
      <4> QED
        BY <3>1, <4>1, ModIndex, Zenon
    <3> HIDE DEF h, n, k, at, t
    <3>5. at \in (0 .. (n - 1)) \ {t}
      BY <3>1, <3>3, <3>4
    <3> QED
      BY <3>5, Zenon DEF n, at, t
  <2>2. Contents(s)[j] = s.buf[(s.head + j - 1) % MBOX_CAP]
    <3>1. j \in 1 .. s.count
      BY <1>1, <1>2
    <3> QED
      BY <1>1, <3>1, ContentsSeq, Zenon
  <2>3. Contents(r)[j] = r.buf[(r.head + j - 1) % MBOX_CAP]
    BY ContentsSeq, Zenon
  <2> QED
    BY <1>1, <1>2, <2>1, <2>2, <2>3
<1>7. Contents(s)[r.count + 1] = m
  <2>1. Contents(s)[r.count + 1] = s.buf[(s.head + (r.count + 1) - 1) % MBOX_CAP]
    <3>1. r.count + 1 \in 1 .. s.count
      BY <1>1, <1>2
    <3> QED
      BY <1>1, <3>1, ContentsSeq, Zenon
  <2>2. s.head + (r.count + 1) - 1 = r.head + r.count
    BY <1>1, <1>2
  <2>3. s.buf[r.tail] = m
    BY <1>1, <1>2, Zenon
  <2> QED
    BY <2>1, <2>2, <2>3, Zenon
<1>8. Contents(s) = Append(Contents(r), m)
  BY <1>2, <1>4, <1>5, <1>6, <1>7
<1> QED
  BY <1>3, <1>8, Zenon DEF s

\* mbox_recv takes the oldest message away.
LEMMA PoppedContents ==
  ASSUME NEW r \in Mail, r.count # 0, r.tail = (r.head + r.count) % MBOX_CAP
  PROVE  /\ Contents(r) # <<>> /\ Contents(Popped(r)) = Tail(Contents(r))
         /\ Popped(r).tail = (Popped(r).head + Popped(r).count) % MBOX_CAP
<1> DEFINE s == Popped(r)
<1>1. /\ s \in Mail /\ s.head = (r.head + 1) % MBOX_CAP /\ s.count = r.count - 1
      /\ s.tail = r.tail /\ s.buf = r.buf
  BY PoppedFields, Zenon
<1>2. r.count \in 1 .. MBOX_CAP /\ r.head \in 0 .. (MBOX_CAP - 1)
  BY MailboxAssumption DEF Mail
<1> HIDE DEF s
<1>3. ASSUME NEW j \in 0 .. MBOX_CAP PROVE (s.head + j) % MBOX_CAP = (r.head + 1 + j) % MBOX_CAP
  BY <1>1, <1>2, ModShift, MailboxAssumption, Zenon
<1>4. s.tail = (s.head + s.count) % MBOX_CAP
  <2>1. (s.head + s.count) % MBOX_CAP = (r.head + 1 + s.count) % MBOX_CAP
    <3>1. s.count \in 0 .. MBOX_CAP
      BY <1>1, <1>2, MailboxAssumption
    <3> QED
      BY <1>3, <3>1, Zenon
  <2>2. r.head + 1 + s.count = r.head + r.count
    BY <1>1, <1>2
  <2> QED
    BY <1>1, <2>1, <2>2, Zenon
<1>5. Contents(s) \in Seq(Msg \cup {0}) /\ Len(Contents(s)) = r.count - 1
  BY <1>1, ContentsSeq, Zenon
<1>6. /\ Contents(r) # <<>>
      /\ Tail(Contents(r)) \in Seq(Msg \cup {0}) /\ Len(Tail(Contents(r))) = r.count - 1
      /\ \A j \in 1 .. (r.count - 1) : Tail(Contents(r))[j] = Contents(r)[j + 1]
  BY <1>2, ContentsSeq
<1>7. ASSUME NEW j \in 1 .. (r.count - 1) PROVE Contents(s)[j] = Tail(Contents(r))[j]
  <2>1. Contents(s)[j] = s.buf[(s.head + j - 1) % MBOX_CAP]
    <3>1. j \in 1 .. s.count
      BY <1>1, <1>2, Zenon
    <3> QED
      BY <1>1, <3>1, ContentsSeq, Zenon
  <2>2. Contents(r)[j + 1] = r.buf[(r.head + (j + 1) - 1) % MBOX_CAP]
    <3>1. j + 1 \in 1 .. r.count
      BY <1>2
    <3> QED
      BY <1>2, <3>1, ContentsSeq, Zenon
  <2>3. j - 1 \in 0 .. MBOX_CAP /\ s.head \in Int
    <3>1. s.head \in Int
      BY <1>1 DEF Mail
    <3> QED
      BY <1>2, <3>1, MailboxAssumption
  <2>4. (s.head + (j - 1)) % MBOX_CAP = (r.head + 1 + (j - 1)) % MBOX_CAP
    BY <1>3, <2>3, Zenon
  <2>5. s.head + j - 1 = s.head + (j - 1) /\ r.head + (j + 1) - 1 = r.head + 1 + (j - 1)
    BY <1>2, <2>3
  <2> QED
    BY <1>1, <1>6, <2>1, <2>2, <2>4, <2>5, Zenon
<1>8. Contents(s) = Tail(Contents(r))
  BY <1>2, <1>5, <1>6, <1>7
<1> QED
  BY <1>4, <1>6, <1>8, Zenon DEF s
-----------------------------------------------------------------------------
(* Types. *)

Loc == [pc : {"user", "find", "scan", "claim", "setkey", "reset", "send", "recv"},
        key : Key \cup {0}, i : Box, msg : Msg \cup {0}, early : BOOLEAN]

\* The places in the code that a step of mbox_create goes to.
LEMMA LocType ==
  /\ User \in Loc
  /\ \A pc \in Creating, k \in Key \cup {0}, i \in Box : Creates(pc, k, i) \in Loc
  /\ 0 \in Box
BY MailboxAssumption DEF User, Creates, Creating, Loc, Box

\* mbox_create and mbox_close write one field of a box, or empty its ring.
LEMMA BoxFields ==
  ASSUME NEW r \in Mail, NEW u \in {0, 1}, NEW k \in Key \cup {0}
  PROVE  /\ [r EXCEPT !.used = u] \in Mail /\ [r EXCEPT !.key = k] \in Mail
         /\ [r EXCEPT !.closed = u] \in Mail /\ Emptied(r) \in Mail
<1>1. [r EXCEPT !.used = u] \in Mail
  BY Zenon DEF Mail
<1>2. [r EXCEPT !.key = k] \in Mail
  BY Zenon DEF Mail
<1>3. [r EXCEPT !.closed = u] \in Mail
  BY Zenon DEF Mail
<1>4. Emptied(r) = [used |-> r.used, key |-> r.key, closed |-> 0, head |-> 0, tail |-> 0,
                    count |-> 0, buf |-> r.buf]
  BY DEF Emptied, Ring
<1>5. 0 \in 0 .. (MBOX_CAP - 1) /\ 0 \in 0 .. MBOX_CAP
  BY MailboxAssumption
<1>6. Emptied(r) \in Mail
  BY <1>4, <1>5 DEF Mail
<1> QED
  BY <1>1, <1>2, <1>3, <1>6, Zenon

\* p goes to l, and sleeps only in the loops of mbox_send and mbox_recv.
LEMMA SleepType ==
  ASSUME TypeOK, NEW p \in Proc \ sleeping, NEW l \in Loc, loc' = [loc EXCEPT ![p] = l],
         \/ sleeping' \subseteq sleeping
         \/ sleeping' = sleeping \cup {p} /\ l.pc \in {"send", "recv"}
  PROVE  /\ loc' \in [Proc -> Loc]
         /\ sleeping' \in SUBSET {q \in Proc : loc'[q].pc \in {"send", "recv"}}
<1>1. loc \in [Proc -> Loc] /\ sleeping \in SUBSET {q \in Proc : loc[q].pc \in {"send", "recv"}}
  BY Zenon DEF TypeOK, Loc
<1> QED
  BY <1>1

\* A try of mbox_send, at the call or after a wakeup, keeps the types.
LEMMA SendType ==
  ASSUME TypeOK, NEW p \in Proc \ sleeping, NEW b \in Box, NEW m \in Msg, SendTry(p, b, m)
  PROVE  /\ box' \in [Box -> Mail] /\ loc' \in [Proc -> Loc] /\ made' = made
         /\ sleeping' \in SUBSET {q \in Proc : loc'[q].pc \in {"send", "recv"}}
<1> DEFINE e == "send" = "send" /\ b \notin made
           l == [pc |-> "send", key |-> 0, i |-> b, msg |-> m, early |-> e]
<1>1. box \in [Box -> Mail] /\ box[b] \in Mail
  BY Zenon DEF TypeOK
<1>2. l \in Loc /\ l.pc = "send"
  BY Zenon DEF Loc
<1> HIDE DEF l
<1>3. CASE Goto(p, User) /\ UNCHANGED <<box, sleeping>>
  BY <1>1, <1>3, SleepType, LocType, Zenon DEF SendTry, Goto
<1>4. CASE Block(p, "send", b, m)
  <2>1. loc' = [loc EXCEPT ![p] = l] /\ sleeping' = sleeping \cup {p} /\ UNCHANGED box
    BY <1>4, Zenon DEF Block, Goto, l
  <2> QED
    BY <1>1, <1>2, <2>1, SleepType, Zenon DEF SendTry
<1>5. CASE /\ box[b].count # MBOX_CAP /\ box' = [box EXCEPT ![b] = Pushed(box[b], m)]
           /\ sleeping' = wakeup(b) /\ Goto(p, User)
  <2>1. box' \in [Box -> Mail]
    BY <1>1, <1>5, PushedFields, Zenon
  <2> QED
    BY <1>5, <2>1, SleepType, LocType, Zenon DEF SendTry, Goto, wakeup
<1> QED
  BY <1>3, <1>4, <1>5, Zenon DEF SendTry

\* The same for mbox_recv.
LEMMA RecvType ==
  ASSUME TypeOK, NEW p \in Proc \ sleeping, NEW b \in Box, RecvTry(p, b)
  PROVE  /\ box' \in [Box -> Mail] /\ loc' \in [Proc -> Loc] /\ made' = made
         /\ sleeping' \in SUBSET {q \in Proc : loc'[q].pc \in {"send", "recv"}}
<1> DEFINE e == "recv" = "send" /\ b \notin made
           l == [pc |-> "recv", key |-> 0, i |-> b, msg |-> 0, early |-> e]
<1>1. box \in [Box -> Mail] /\ box[b] \in Mail
  BY Zenon DEF TypeOK
<1>2. l \in Loc /\ l.pc = "recv"
  BY Zenon DEF Loc
<1> HIDE DEF l
<1>3. CASE Goto(p, User) /\ UNCHANGED <<box, sleeping>>
  BY <1>1, <1>3, SleepType, LocType, Zenon DEF RecvTry, Goto
<1>4. CASE Block(p, "recv", b, 0)
  <2>1. loc' = [loc EXCEPT ![p] = l] /\ sleeping' = sleeping \cup {p} /\ UNCHANGED box
    BY <1>4, Zenon DEF Block, Goto, l
  <2> QED
    BY <1>1, <1>2, <2>1, SleepType, Zenon DEF RecvTry
<1>5. CASE /\ box[b].count # 0 /\ box' = [box EXCEPT ![b] = Popped(box[b])]
           /\ sleeping' = wakeup(b) /\ Goto(p, User)
  <2>1. box' \in [Box -> Mail]
    BY <1>1, <1>5, PoppedFields, Zenon
  <2> QED
    BY <1>5, <2>1, SleepType, LocType, Zenon DEF RecvTry, Goto, wakeup
<1> QED
  BY <1>3, <1>4, <1>5, Zenon DEF RecvTry

\* mboxinit leaves every box empty and unused.
LEMMA TypeInit == Init => TypeOK
<1> SUFFICES ASSUME Init PROVE TypeOK
  BY Zenon
<1>1. 0 \in 0 .. (MBOX_CAP - 1) /\ 0 \in 0 .. MBOX_CAP
  BY MailboxAssumption
<1>2. box \in [Box -> Mail]
  BY <1>1, Zenon DEF Init, mboxinit, Mail
<1>3. loc \in [Proc -> Loc] /\ sends \in 0 .. MaxSends
  BY LocType, MailboxAssumption DEF Init
<1> QED
  BY <1>2, <1>3, Zenon DEF Init, TypeOK, Loc

\* Every step keeps the types, with any number of creators.
LEMMA TypeStep == TypeOK /\ SendInv /\ [Next]_vars => TypeOK' /\ SendInv'
<1> SUFFICES ASSUME TypeOK, SendInv, [Next]_vars PROVE TypeOK' /\ SendInv'
  BY Zenon
<1> DEFINE Good == /\ box' \in [Box -> Mail] /\ loc' \in [Proc -> Loc]
                   /\ sleeping' \in SUBSET {q \in Proc : loc'[q].pc \in {"send", "recv"}}
                   /\ made' \in SUBSET Box /\ sends' \in 0 .. MaxSends /\ SendInv'
<1>0. /\ box \in [Box -> Mail] /\ loc \in [Proc -> Loc] /\ made \in SUBSET Box
      /\ sleeping \in SUBSET {q \in Proc : loc[q].pc \in {"send", "recv"}} /\ sends \in 0 .. MaxSends
  BY Zenon DEF TypeOK, Loc
<1>1. ASSUME UNCHANGED vars PROVE Good
  BY <1>0, <1>1, Zenon DEF SendInv, vars
<1>2. ASSUME NEW p \in Proc, NEW k \in Key, mbox_create(p, k) PROVE Good
  BY <1>0, <1>2, SleepType, LocType DEF mbox_create, At, Goto, Creates, SendInv, Loc
<1>3. ASSUME NEW p \in Proc, find_id_by_key(p) PROVE Good
  <2>1. loc[p].i \in Box /\ p \in Proc \ sleeping /\ loc[p].key \in Key \cup {0}
    BY <1>0, <1>3, Zenon DEF find_id_by_key, At, Loc
  <2>2. PICK l \in Loc : loc' = [loc EXCEPT ![p] = l] /\ l.pc # "send"
    <3>1. CASE loc[p].i + 1 \in Box /\ Goto(p, Creates("find", loc[p].key, loc[p].i + 1))
      BY <2>1, <3>1, LocType, Zenon DEF Goto, Creates, Creating
    <3>2. CASE Goto(p, Creates("scan", loc[p].key, 0))
      BY <2>1, <3>2, LocType, Zenon DEF Goto, Creates, Creating
    <3>3. CASE Goto(p, User)
      BY <3>3, LocType, Zenon DEF Goto, User
    <3> QED
      BY <1>3, <3>1, <3>2, <3>3, Zenon DEF find_id_by_key
  <2>3. made' \in SUBSET Box /\ UNCHANGED <<box, sleeping, sends>>
    BY <1>0, <1>3, <2>1, Zenon DEF find_id_by_key
  <2>4. SendInv'
    BY <1>0, <2>1, <2>2, Zenon DEF SendInv
  <2> QED
    BY <1>0, <2>1, <2>2, <2>3, <2>4, SleepType, Zenon
<1>4. ASSUME NEW p \in Proc, scan_unused(p) PROVE Good
  <2>1. loc[p].i \in Box /\ p \in Proc \ sleeping /\ loc[p].key \in Key \cup {0}
    BY <1>0, <1>4, Zenon DEF scan_unused, At, Loc
  <2>2. PICK l \in Loc : loc' = [loc EXCEPT ![p] = l] /\ l.pc # "send"
    <3>1. CASE Goto(p, Creates("claim", loc[p].key, loc[p].i))
      BY <2>1, <3>1, LocType, Zenon DEF Goto, Creates, Creating
    <3>2. CASE loc[p].i + 1 \in Box /\ Goto(p, Creates("scan", loc[p].key, loc[p].i + 1))
      BY <2>1, <3>2, LocType, Zenon DEF Goto, Creates, Creating
    <3>3. CASE Goto(p, User)
      BY <3>3, LocType, Zenon DEF Goto, User
    <3> QED
      BY <1>4, <3>1, <3>2, <3>3, Zenon DEF scan_unused
  <2>3. made' \in SUBSET Box /\ UNCHANGED <<box, sleeping, sends>>
    BY <1>0, <1>4, <2>1, Zenon DEF scan_unused
  <2>4. SendInv'
    BY <1>0, <2>1, <2>2, Zenon DEF SendInv
  <2> QED
    BY <1>0, <2>1, <2>2, <2>3, <2>4, SleepType, Zenon
<1>5. ASSUME NEW p \in Proc, claim_used(p) PROVE Good
  <2>1. loc[p].i \in Box /\ p \in Proc \ sleeping /\ loc[p].key \in Key \cup {0}
    BY <1>0, <1>5, Zenon DEF claim_used, At, Loc
  <2>2. box[loc[p].i] \in Mail
    BY <1>0, <2>1, Zenon
  <2>3. [box[loc[p].i] EXCEPT !.used = 1] \in Mail
    BY <2>2, Zenon DEF Mail
  <2>4. box' \in [Box -> Mail]
    BY <1>0, <1>5, <2>1, <2>3, Zenon DEF claim_used
  <2>5. Creates("setkey", loc[p].key, loc[p].i) \in Loc /\ SendInv'
    BY <1>0, <1>5, <2>1, Zenon DEF claim_used, Goto, SendInv, Creates, Loc
  <2> QED
    BY <1>0, <1>5, <2>1, <2>4, <2>5, SleepType, Zenon DEF claim_used, Goto
<1>6. ASSUME NEW p \in Proc, claim_key(p) PROVE Good
  <2>1. loc[p].i \in Box /\ p \in Proc \ sleeping /\ loc[p].key \in Key \cup {0}
    BY <1>0, <1>6, Zenon DEF claim_key, At, Loc
  <2>2. box[loc[p].i] \in Mail
    BY <1>0, <2>1, Zenon
  <2>3. [box[loc[p].i] EXCEPT !.key = loc[p].key] \in Mail
    BY <2>1, <2>2, Zenon DEF Mail
  <2>4. box' \in [Box -> Mail]
    BY <1>0, <1>6, <2>1, <2>3, Zenon DEF claim_key
  <2>5. Creates("reset", loc[p].key, loc[p].i) \in Loc /\ SendInv'
    BY <1>0, <1>6, <2>1, Zenon DEF claim_key, Goto, SendInv, Creates, Loc
  <2> QED
    BY <1>0, <1>6, <2>1, <2>4, <2>5, SleepType, Zenon DEF claim_key, Goto
<1>7. ASSUME NEW p \in Proc, reset_box(p) PROVE Good
  <2>1. loc[p].i \in Box /\ p \in Proc \ sleeping
    BY <1>0, <1>7, Zenon DEF reset_box, At, Loc
  <2>2. box[loc[p].i] \in Mail
    BY <1>0, <2>1, Zenon
  <2>3. Emptied(box[loc[p].i]) \in Mail
    BY <2>2, BoxFields, Zenon
  <2>4. box' \in [Box -> Mail]
    BY <1>0, <1>7, <2>1, <2>3, Zenon DEF reset_box
  <2>5. SendInv' /\ made' \in SUBSET Box /\ sends' \in 0 .. MaxSends
    BY <1>0, <1>7, <2>1, Zenon DEF reset_box, Goto, SendInv, User
  <2> QED
    BY <1>7, <2>1, <2>4, <2>5, SleepType, LocType, Zenon DEF reset_box, Goto
<1>8. ASSUME NEW p \in Proc, NEW b \in Box, NEW m \in Msg, mbox_send(p, b, m) PROVE Good
  <2>1. SendInv'
    BY <1>0, <1>8 DEF mbox_send, SendTry, Block, Goto, User, SendInv
  <2>2. sends' \in 0 .. MaxSends
    BY <1>0, <1>8, MailboxAssumption DEF mbox_send
  <2> QED
    BY <1>0, <1>8, <2>1, <2>2, SendType, Zenon DEF mbox_send, At
<1>9. ASSUME NEW p \in Proc, send_again(p) PROVE Good
  <2>1. p \in Proc \ sleeping /\ loc[p].i \in Box /\ loc[p].msg \in Msg
    BY <1>0, <1>9, Zenon DEF send_again, At, Loc, SendInv
  <2>2. SendInv'
    BY <1>0, <1>9, <2>1 DEF send_again, SendTry, Block, Goto, User, SendInv
  <2> QED
    BY <1>0, <1>9, <2>1, <2>2, SendType, Zenon DEF send_again
<1>10. ASSUME NEW p \in Proc \ sleeping, NEW b \in Box, RecvTry(p, b) PROVE Good
  <2>1. SendInv' /\ sends' = sends
    BY <1>0, <1>10 DEF RecvTry, Block, Goto, User, SendInv
  <2> QED
    BY <1>0, <1>10, <2>1, RecvType, Zenon
<1>11. ASSUME NEW p \in Proc, NEW b \in Box, mbox_close(p, b) PROVE Good
  <2> DEFINE u == IF box[b].used = 1 THEN 1 ELSE box[b].closed
  <2>1. box[b] \in Mail /\ u \in {0, 1}
    BY <1>0, Zenon DEF Mail
  <2>2. [box[b] EXCEPT !.closed = u] \in Mail
    BY <2>1, Zenon DEF Mail
  <2>3. box' \in [Box -> Mail]
    BY <1>0, <1>11, <2>2, Zenon DEF mbox_close
  <2> QED
    BY <1>0, <1>11, <2>3, Zenon DEF mbox_close, wakeup, SendInv
<1>12. ASSUME NEW p \in Proc, kkill(p) PROVE Good
  BY <1>0, <1>12, Zenon DEF kkill, SendInv
<1>13. ASSUME NEW p \in Proc, recv_again(p) PROVE p \in Proc \ sleeping /\ loc[p].i \in Box
  BY <1>0, <1>13, ZenonT(30) DEF recv_again, At, Loc
<1>14. Good
  BY <1>1, <1>2, <1>3, <1>4, <1>5, <1>6, <1>7, <1>8, <1>9, <1>10, <1>11, <1>12, <1>13
     DEF Next, Step, mbox_recv, recv_again, At
<1> QED
  BY <1>14, Zenon DEF TypeOK, Loc

\* Nobody is in mbox_send at boot.
LEMMA SendInit == Init => SendInv
BY DEF Init, SendInv, User

\* The indices of the ring buffers and all other variables stay in range, for
\* any number of processes, boxes and creators: TypeOK.
THEOREM TypeCorrect == Spec => []TypeOK
BY TypeInit, TypeStep, SendInit, PTL DEF Spec
-----------------------------------------------------------------------------
(* The inductive invariant, with one creator. *)

\* A call of mbox_send, mbox_recv or mbox_close leaves what is said of the
\* creation of boxes alone.
LEMMA CallsKeepCreation ==
  ASSUME TypeOK, UseInv, CreateInv, OneBoxPerKey, TypeOK', made' = made,
         \A b \in Box : box'[b].used = box[b].used /\ box'[b].key = box[b].key,
         \A q \in Proc : loc'[q] = loc[q] \/ (loc[q].pc \notin Creating /\ loc'[q].pc \notin Creating)
  PROVE  UseInv' /\ CreateInv' /\ OneBoxPerKey'
<1>0. \A q \in Proc : loc'[q].pc \in Creating => loc'[q] = loc[q] /\ loc[q].i \in Box
  BY Zenon DEF TypeOK
<1>1. \A q \in Proc : loc[q].pc \in Creating => loc'[q] = loc[q]
  BY Zenon
<1>2. UseInv'
  <2>1. \A b \in made : b \in Box
    BY Zenon DEF TypeOK
  <2>2. \A q \in Creators : q \in Proc
    BY MailboxAssumption, Zenon
  <2> QED
    BY <1>1, <2>1, <2>2 DEF UseInv, Creating
<1>3. CreateInv'
  BY <1>0 DEF CreateInv, Creating, KeyMatches
<1>4. OneBoxPerKey'
  BY DEF OneBoxPerKey
<1> QED
  BY <1>2, <1>3, <1>4, Zenon

\* What is said of calls in progress is kept by a step of p, not asleep, that
\* leaves the boxes alone or empties one that is not handed out yet.
LEMMA CreationKeepsCalls ==
  ASSUME TypeOK, RingInv, CallInv, SleepersHaveCause, NEW p \in Proc \ sleeping,
         \A q \in Proc \ {p} : loc'[q] = loc[q], loc'[p].pc \notin {"send", "recv"},
         sleeping' = sleeping, made \subseteq made',
         \A b \in Box : \/ /\ box'[b].head = box[b].head /\ box'[b].tail = box[b].tail
                           /\ box'[b].count = box[b].count /\ box'[b].closed = box[b].closed
                        \/ /\ b \notin made /\ box'[b].head = 0 /\ box'[b].tail = 0
                           /\ box'[b].count = 0 /\ box'[b].closed = 0
  PROVE  RingInv' /\ CallInv' /\ SleepersHaveCause'
<1>1. RingInv'
  <2>1. 0 = (0 + 0) % MBOX_CAP
    BY MailboxAssumption
  <2> QED
    BY <2>1, Zenon DEF RingInv
<1>2. \A q \in sleeping : loc'[q] = loc[q] /\ loc[q].pc \in {"send", "recv"} /\ loc[q].i \in Box
  BY Zenon DEF TypeOK
<1>3. CallInv'
  BY <1>2, Zenon DEF CallInv
<1>4. SleepersHaveCause'
  <2> SUFFICES ASSUME NEW q \in sleeping PROVE (MustWait(q) \/ Stranded(q))'
    BY Zenon DEF SleepersHaveCause
  <2>1. loc'[q] = loc[q] /\ loc[q].pc \in {"send", "recv"} /\ loc[q].i \in Box
    BY <1>2, Zenon
  <2>2. MustWait(q) \/ Stranded(q)
    BY Zenon DEF SleepersHaveCause
  <2>3. CASE /\ box'[loc[q].i].count = box[loc[q].i].count
             /\ box'[loc[q].i].closed = box[loc[q].i].closed
    BY <2>1, <2>2, <2>3, Zenon DEF MustWait, Stranded
  <2>4. CASE /\ loc[q].i \notin made
             /\ box'[loc[q].i].count = 0 /\ box'[loc[q].i].closed = 0
    <3>1. loc[q].pc = "send" => loc[q].early
      BY <2>4, Zenon DEF CallInv
    <3> QED
      BY <2>1, <2>4, <3>1, Zenon DEF MustWait, Stranded
  <2> QED
    BY <2>1, <2>3, <2>4, Zenon
<1> QED
  BY <1>1, <1>3, <1>4, Zenon

\* The steps of mbox_create.
LEMMA CreateKeepsInv ==
  ASSUME SingleCreator, IInv, TypeOK', SendInv', NEW p \in Proc,
         \/ \E k \in Key : mbox_create(p, k)
         \/ find_id_by_key(p) \/ scan_unused(p) \/ claim_used(p) \/ claim_key(p) \/ reset_box(p)
  PROVE  IInv'
<1> DEFINE i == loc[p].i
<1> DEFINE k == loc[p].key
<1>0. /\ box \in [Box -> Mail] /\ loc \in [Proc -> Loc] /\ i \in Box /\ k \in Key \cup {0}
      /\ made \subseteq Box /\ p \in Proc \ sleeping
  BY Zenon DEF IInv, TypeOK, Loc, At, mbox_create, find_id_by_key, scan_unused, claim_used, claim_key,
         reset_box
<1>1. p \in Creators
  BY Zenon DEF IInv, CreateInv, Creating, At, mbox_create, find_id_by_key, scan_unused, claim_used,
         claim_key, reset_box
<1>2. \A q \in Proc : q # p => loc[q].pc \notin Creating
  BY <1>1, Zenon DEF IInv, CreateInv, SingleCreator
<1>3. \A q \in Creators : q = p
  BY <1>1, Zenon DEF SingleCreator
<1>4. /\ TypeOK /\ RingInv /\ UseInv /\ CreateInv /\ CallInv /\ SendInv
      /\ OneBoxPerKey /\ SleepersHaveCause
  BY Zenon DEF IInv
<1> USE DEF Goto, At
<1> HIDE DEF i, k
<1>5. ASSUME NEW kk \in Key, mbox_create(p, kk) PROVE IInv'
  <2>1. /\ loc'[p] = Creates("find", kk, 0) /\ \A q \in Proc \ {p} : loc'[q] = loc[q]
        /\ UNCHANGED <<box, sleeping, made>>
    BY <1>0, <1>5, Zenon DEF mbox_create
  <2>2. /\ loc'[p].pc = "find" /\ loc'[p].i = 0 /\ loc'[p].key = kk /\ loc[p].pc = "user"
    BY <1>5, <2>1 DEF Creates, mbox_create
  <2>3. RingInv' /\ CallInv' /\ SleepersHaveCause'
    BY <1>0, <1>4, <2>1, <2>2, CreationKeepsCalls, Zenon
  <2>4. UseInv' /\ OneBoxPerKey'
    BY <1>3, <1>4, <2>1, <2>2, ZenonT(30) DEF UseInv, OneBoxPerKey
  <2>5. CreateInv'
    <3>1. \A b \in Box : ~(b < 0)
      BY DEF Box
    <3> QED
      BY <1>1, <1>2, <1>4, <2>1, <2>2, <3>1 DEF CreateInv, Creating, KeyMatches
  <2> QED
    BY <2>3, <2>4, <2>5, Zenon DEF IInv
<1>6. ASSUME find_id_by_key(p) PROVE IInv' /\ made' = made
  <2>0. /\ (\A q \in Proc \ {p} : loc'[q] = loc[q]) /\ UNCHANGED <<box, sleeping>>
        /\ loc[p].pc = "find"
    BY <1>0, <1>6, ZenonT(30) DEF find_id_by_key
  <2>1. CASE KeyMatches(i, k)
    <3>1. loc'[p] = User /\ made' = made \cup {i}
      BY <1>0, <1>6, <2>1, ZenonT(30) DEF find_id_by_key, i, k
    <3>2. i \in made
      BY <1>0, <1>3, <1>4, <2>0, <2>1, Zenon DEF UseInv, KeyMatches
    <3>3. made' = made /\ loc'[p].pc = "user"
      BY <3>1, <3>2 DEF User
    <3>4. RingInv' /\ CallInv' /\ SleepersHaveCause'
      BY <1>0, <1>4, <2>0, <3>3, CreationKeepsCalls, Zenon
    <3>5. UseInv' /\ OneBoxPerKey'
      BY <1>3, <1>4, <2>0, <3>3, ZenonT(30) DEF UseInv, OneBoxPerKey
    <3>6. CreateInv'
      BY <1>1, <1>2, <1>4, <2>0, <3>3 DEF CreateInv, Creating, KeyMatches
    <3> QED
      BY <3>3, <3>4, <3>5, <3>6, Zenon DEF IInv
  <2>2. CASE ~KeyMatches(i, k)
    <3>1. /\ made' = made
          /\ loc'[p] = IF i + 1 \in Box THEN Creates("find", k, i + 1) ELSE Creates("scan", k, 0)
      BY <1>0, <1>6, <2>2, Zenon DEF find_id_by_key, i, k
    <3>2. /\ loc'[p].key = k
          /\ \/ i + 1 \in Box /\ loc'[p].pc = "find" /\ loc'[p].i = i + 1
             \/ i + 1 \notin Box /\ loc'[p].pc = "scan"
      BY <3>1, SMTT(30) DEF Creates
    <3>3. \A b \in Box : b < i => ~KeyMatches(b, k)
      BY <1>4, <2>0, Zenon DEF CreateInv, i, k
    <3>4. \A b \in Box : b < i + 1 => b < i \/ b = i
      BY <1>0 DEF Box
    <3>5. i + 1 \notin Box => \A b \in Box : b < i + 1
      BY <1>0, MailboxAssumption, SMTT(30) DEF Box
    <3>6. RingInv' /\ CallInv' /\ SleepersHaveCause'
      BY <1>0, <1>4, <2>0, <3>1, <3>2, CreationKeepsCalls, Zenon
    <3>7. UseInv' /\ OneBoxPerKey'
      BY <1>3, <1>4, <2>0, <3>1, <3>2, ZenonT(30) DEF UseInv, OneBoxPerKey
    <3>8. CreateInv'
      BY <1>1, <1>2, <1>4, <2>0, <2>2, <3>2, <3>3, <3>4, <3>5 DEF CreateInv, Creating, KeyMatches
    <3> QED
      BY <3>1, <3>6, <3>7, <3>8, Zenon DEF IInv
  <2> QED
    BY <2>1, <2>2, Zenon
<1>7. ASSUME scan_unused(p) PROVE IInv'
  <2>0. /\ (\A q \in Proc \ {p} : loc'[q] = loc[q]) /\ UNCHANGED <<box, sleeping, made>>
        /\ loc[p].pc = "scan"
    BY <1>0, <1>7, Zenon DEF scan_unused
  <2>1. \/ box[i].used = 0 /\ loc'[p] = Creates("claim", k, i)
        \/ loc'[p] = Creates("scan", k, i + 1)
        \/ loc'[p] = User
    BY <1>0, <1>7, Zenon DEF scan_unused, i, k
  <2>2. \/ box[i].used = 0 /\ loc'[p].pc = "claim" /\ loc'[p].key = k /\ loc'[p].i = i
        \/ loc'[p].pc = "scan" /\ loc'[p].key = k
        \/ loc'[p].pc = "user"
    BY <2>1 DEF Creates, User
  <2>3. RingInv' /\ CallInv' /\ SleepersHaveCause'
    BY <1>0, <1>4, <2>0, <2>2, CreationKeepsCalls, Zenon
  <2>4. UseInv' /\ OneBoxPerKey'
    BY <1>3, <1>4, <2>0, <2>2, ZenonT(30) DEF UseInv, OneBoxPerKey
  <2>5. CreateInv'
    BY <1>1, <1>2, <1>4, <2>0, <2>2 DEF CreateInv, Creating, KeyMatches, k
  <2> QED
    BY <2>3, <2>4, <2>5, Zenon DEF IInv
<1>8. ASSUME claim_used(p) PROVE IInv'
  <2>0. /\ (\A q \in Proc \ {p} : loc'[q] = loc[q]) /\ UNCHANGED <<sleeping, made>>
        /\ loc[p].pc = "claim" /\ loc'[p] = Creates("setkey", k, i)
        /\ box' = [box EXCEPT ![i].used = 1]
    BY <1>0, <1>8, Zenon DEF claim_used, i, k
  <2>1. loc'[p].pc = "setkey" /\ loc'[p].key = k /\ loc'[p].i = i
    BY <2>0 DEF Creates
  <2>2. box[i].used = 0 /\ box[i].key = 0 /\ i \notin made
    BY <1>0, <1>4, <2>0 DEF CreateInv, UseInv, i
  <2>3. \A b \in Box : /\ box'[b].key = box[b].key /\ box'[b].closed = box[b].closed
                       /\ box'[b].count = box[b].count /\ box'[b].head = box[b].head
                       /\ box'[b].tail = box[b].tail
                       /\ box'[b].used = IF b = i THEN 1 ELSE box[b].used
    BY <1>0, <2>0 DEF Mail
  <2>4. RingInv' /\ CallInv' /\ SleepersHaveCause'
    BY <1>0, <1>4, <2>0, <2>1, <2>3, CreationKeepsCalls, ZenonT(30)
  <2>5. UseInv'
    BY <1>0, <1>1, <1>3, <1>4, <2>0, <2>1, <2>2, <2>3 DEF UseInv
  <2>6. OneBoxPerKey'
    BY <1>0, <1>4, <2>2, <2>3 DEF OneBoxPerKey
  <2>7. CreateInv'
    <3>1. \A b \in Box : ~KeyMatches(b, k)
      BY <1>4, <2>0, Zenon DEF CreateInv, k
    <3> QED
      BY <1>0, <1>1, <1>2, <1>4, <2>0, <2>1, <2>2, <2>3, <3>1 DEF CreateInv, Creating, KeyMatches
  <2> QED
    BY <2>4, <2>5, <2>6, <2>7, Zenon DEF IInv
<1>9. ASSUME claim_key(p) PROVE IInv'
  <2>0. /\ (\A q \in Proc \ {p} : loc'[q] = loc[q]) /\ UNCHANGED <<sleeping, made>>
        /\ loc[p].pc = "setkey" /\ loc'[p] = Creates("reset", k, i)
        /\ box' = [box EXCEPT ![i].key = k]
    BY <1>0, <1>9, Zenon DEF claim_key, i, k
  <2>1. loc'[p].pc = "reset" /\ loc'[p].key = k /\ loc'[p].i = i
    BY <2>0 DEF Creates
  <2>2. box[i].used = 1 /\ i \notin made
    BY <1>0, <1>4, <2>0, Zenon DEF CreateInv, i
  <2>3. \A b \in Box : /\ box'[b].used = box[b].used /\ box'[b].closed = box[b].closed
                       /\ box'[b].count = box[b].count /\ box'[b].head = box[b].head
                       /\ box'[b].tail = box[b].tail
                       /\ box'[b].key = IF b = i THEN k ELSE box[b].key
    BY <1>0, <2>0 DEF Mail
  <2>4. RingInv' /\ CallInv' /\ SleepersHaveCause'
    BY <1>0, <1>4, <2>0, <2>1, <2>3, CreationKeepsCalls, ZenonT(30)
  <2>5. UseInv'
    BY <1>0, <1>1, <1>3, <1>4, <2>0, <2>1, <2>2, <2>3 DEF UseInv, i
  <2>6. OneBoxPerKey'
    <3>1. \A b \in Box : b # i => ~(box[b].used = 1 /\ box[b].key = k)
      BY <1>4, <2>0, Zenon DEF CreateInv, KeyMatches, i, k
    <3> QED
      BY <1>0, <1>4, <2>3, <3>1 DEF OneBoxPerKey
  <2>7. CreateInv'
    BY <1>0, <1>1, <1>2, <1>4, <2>0, <2>1, <2>2, <2>3 DEF CreateInv, Creating, KeyMatches
  <2> QED
    BY <2>4, <2>5, <2>6, <2>7, Zenon DEF IInv
<1>10. ASSUME reset_box(p) PROVE IInv'
  <2>0. /\ (\A q \in Proc \ {p} : loc'[q] = loc[q]) /\ UNCHANGED <<sleeping>>
        /\ made' = made \cup {i} /\ loc[p].pc = "reset" /\ loc'[p] = User
        /\ box' = [box EXCEPT ![i] = Emptied(box[i])]
    BY <1>0, <1>10, Zenon DEF reset_box, i
  <2>1. loc'[p].pc = "user"
    BY <2>0, SMTT(30) DEF User
  <2>2. box[i].used = 1 /\ i \notin made
    BY <1>0, <1>4, <2>0, Zenon DEF CreateInv, i
  <2>3. /\ Emptied(box[i]).used = box[i].used /\ Emptied(box[i]).key = box[i].key
        /\ Emptied(box[i]).head = 0 /\ Emptied(box[i]).tail = 0 /\ Emptied(box[i]).count = 0
        /\ Emptied(box[i]).closed = 0
    BY Zenon DEF Emptied, Ring
  <2>4. \A b \in Box : /\ box'[b].used = box[b].used /\ box'[b].key = box[b].key
                       /\ b # i => box'[b] = box[b]
                       /\ b = i => /\ box'[b].head = 0 /\ box'[b].tail = 0 /\ box'[b].count = 0
                                   /\ box'[b].closed = 0
    BY <1>0, <2>0, <2>3, Zenon
  <2>5. RingInv' /\ CallInv' /\ SleepersHaveCause'
    BY <1>0, <1>4, <2>0, <2>1, <2>2, <2>4, CreationKeepsCalls, ZenonT(30)
  <2>6. UseInv'
    BY <1>0, <1>3, <1>4, <2>0, <2>1, <2>2, <2>4 DEF UseInv, i
  <2>7. OneBoxPerKey'
    BY <1>0, <1>4, <2>4, SMTT(30) DEF OneBoxPerKey
  <2>8. CreateInv'
    <3>1. \A q \in Proc : loc'[q].pc \notin Creating
      BY <1>2, <2>0, <2>1, ZenonT(30) DEF Creating
    <3>2. \A b \in Box : box'[b].used = 0 => box'[b].key = 0
      BY <1>4, <2>4, ZenonT(30) DEF CreateInv
    <3> QED
      BY <3>1, <3>2, Zenon DEF CreateInv, Creating
  <2> QED
    BY <2>5, <2>6, <2>7, <2>8, Zenon DEF IInv
<1> QED
  BY <1>5, <1>6, <1>7, <1>8, <1>9, <1>10, Zenon

\* A step of p that returns to user code, or that only puts it to sleep with a
\* cause, and does not touch the boxes.
LEMMA WaitKeepsInv ==
  ASSUME IInv, TypeOK', SendInv', NEW p \in Proc \ sleeping, NEW b \in Box,
         loc[p].pc \in {"user", "send", "recv"}, UNCHANGED <<box, made>>,
         \A q \in Proc \ {p} : loc'[q] = loc[q],
         \/ sleeping' = sleeping /\ loc'[p].pc = "user"
         \/ /\ sleeping' = sleeping \cup {p} /\ loc'[p].i = b /\ box[b].closed = 0
            /\ \/ loc'[p].pc = "send" /\ box[b].count = MBOX_CAP /\ (b \notin made => loc'[p].early)
               \/ loc'[p].pc = "recv" /\ box[b].count = 0
  PROVE  IInv'
<1>1. UseInv' /\ CreateInv' /\ OneBoxPerKey'
  <2>1. /\ TypeOK /\ UseInv /\ CreateInv /\ OneBoxPerKey
        /\ \A q \in Proc : loc'[q] = loc[q] \/ (loc[q].pc \notin Creating /\ loc'[q].pc \notin Creating)
    BY Zenon DEF IInv, Creating
  <2> QED
    BY <2>1, CallsKeepCreation, Zenon
<1>2. sleeping \subseteq Proc \ {p} /\ sleeping \subseteq sleeping'
  BY Zenon DEF IInv, TypeOK
<1>3. RingInv' /\ CallInv'
  BY <1>2, Zenon DEF IInv, RingInv, CallInv
<1>4. SleepersHaveCause'
  <2> SUFFICES ASSUME NEW q \in sleeping' PROVE (MustWait(q) \/ Stranded(q))'
    BY Zenon DEF SleepersHaveCause
  <2>1. CASE q \in sleeping
    <3>1. loc'[q] = loc[q] /\ (MustWait(q) \/ Stranded(q))
      BY <1>2, <2>1, Zenon DEF IInv, SleepersHaveCause
    <3> QED
      BY <1>2, <2>1, <3>1, Zenon DEF MustWait, Stranded
  <2>2. CASE q \notin sleeping
    BY <2>2, Zenon DEF MustWait
  <2> QED
    BY <2>1, <2>2, Zenon
<1> QED
  BY <1>1, <1>3, <1>4, Zenon DEF IInv

\* A step that changes box b, keeps its ring a ring and wakes those who sleep
\* on it.
LEMMA ChangeKeepsInv ==
  ASSUME IInv, TypeOK', SendInv', NEW p \in Proc \ sleeping, NEW b \in Box, NEW r \in Mail,
         loc[p].pc \in {"user", "send", "recv"}, made' = made,
         \A q \in Proc \ {p} : loc'[q] = loc[q], loc'[p].pc = "user",
         box' = [box EXCEPT ![b] = r], sleeping' = wakeup(b),
         r.used = box[b].used, r.key = box[b].key, r.tail = (r.head + r.count) % MBOX_CAP
  PROVE  IInv'
<1>0. box \in [Box -> Mail] /\ b \in Box /\ sleeping \subseteq Proc \ {p}
  BY Zenon DEF IInv, TypeOK
<1>1. box'[b] = r /\ \A c \in Box \ {b} : box'[c] = box[c]
  BY <1>0, Zenon
<1>2. UseInv' /\ CreateInv' /\ OneBoxPerKey'
  <2>1. /\ TypeOK /\ UseInv /\ CreateInv /\ OneBoxPerKey
        /\ \A q \in Proc : loc'[q] = loc[q] \/ (loc[q].pc \notin Creating /\ loc'[q].pc \notin Creating)
    BY Zenon DEF IInv, Creating
  <2>2. \A c \in Box : box'[c].used = box[c].used /\ box'[c].key = box[c].key
    BY <1>1, Zenon
  <2> QED
    BY <2>1, <2>2, CallsKeepCreation, Zenon
<1>3. \A q \in sleeping' : q \in sleeping /\ loc'[q] = loc[q] /\ loc[q].i \in Box \ {b}
  BY <1>0, Zenon DEF wakeup, IInv, TypeOK
<1>4. RingInv' /\ CallInv'
  <2>1. RingInv'
    BY <1>1 DEF IInv, RingInv
  <2>2. CallInv'
    BY <1>3, Zenon DEF IInv, CallInv
  <2> QED
    BY <2>1, <2>2, Zenon
<1>5. SleepersHaveCause'
  <2> SUFFICES ASSUME NEW q \in sleeping' PROVE (MustWait(q) \/ Stranded(q))'
    BY Zenon DEF SleepersHaveCause
  <2>1. loc'[q] = loc[q] /\ box'[loc[q].i] = box[loc[q].i] /\ q \in sleeping
    BY <1>1, <1>3, Zenon
  <2>2. MustWait(q) \/ Stranded(q)
    BY <2>1, Zenon DEF IInv, SleepersHaveCause
  <2> QED
    BY <2>1, <2>2, Zenon DEF MustWait, Stranded
<1> QED
  BY <1>2, <1>4, <1>5, Zenon DEF IInv

\* A try of mbox_send: refused, put to sleep, or done.
LEMMA SendKeepsInv ==
  ASSUME IInv, TypeOK', SendInv', NEW p \in Proc \ sleeping, NEW b \in Box, NEW m \in Msg,
         loc[p].pc \in {"user", "send"}, SendTry(p, b, m)
  PROVE  IInv'
<1>0. /\ box \in [Box -> Mail] /\ loc \in [Proc -> Loc] /\ b \in Box /\ box[b] \in Mail
      /\ box[b].tail = (box[b].head + box[b].count) % MBOX_CAP /\ made' = made
  BY ZenonT(30) DEF IInv, TypeOK, Loc, RingInv, SendTry
<1>1. CASE Goto(p, User) /\ UNCHANGED <<box, sleeping>>
  <2>1. loc'[p].pc = "user" /\ \A q \in Proc \ {p} : loc'[q] = loc[q]
    BY <1>0, <1>1, Zenon DEF Goto, User
  <2> QED
    BY <1>0, <1>1, <2>1, WaitKeepsInv, Zenon
<1>2. CASE box[b].closed = 0 /\ box[b].count = MBOX_CAP /\ Block(p, "send", b, m)
  <2>1. /\ loc'[p].pc = "send" /\ loc'[p].i = b /\ \A q \in Proc \ {p} : loc'[q] = loc[q]
        /\ b \notin made => loc'[p].early
    BY <1>0, <1>2, Zenon DEF Goto, Block
  <2> QED
    BY <1>0, <1>2, <2>1, WaitKeepsInv, Zenon DEF Block
<1>3. CASE /\ box[b].count # MBOX_CAP /\ box' = [box EXCEPT ![b] = Pushed(box[b], m)]
           /\ sleeping' = wakeup(b) /\ Goto(p, User)
  <2>1. loc'[p].pc = "user" /\ \A q \in Proc \ {p} : loc'[q] = loc[q]
    BY <1>0, <1>3, Zenon DEF Goto, User
  <2> DEFINE r == Pushed(box[b], m)
  <2>2. /\ r \in Mail /\ r.used = box[b].used /\ r.key = box[b].key
        /\ r.tail = (r.head + r.count) % MBOX_CAP
    BY <1>0, <1>3, PushedFields, PushedContents, ZenonT(30)
  <2> HIDE DEF r
  <2>3. box' = [box EXCEPT ![b] = r]
    BY <1>3, Zenon DEF r
  <2> QED
    BY <1>0, <1>3, <2>1, <2>2, <2>3, ChangeKeepsInv, Zenon
<1> QED
  BY <1>1, <1>2, <1>3, Zenon DEF SendTry

\* A try of mbox_recv: refused, put to sleep, or done.
LEMMA RecvKeepsInv ==
  ASSUME IInv, TypeOK', SendInv', NEW p \in Proc \ sleeping, NEW b \in Box,
         loc[p].pc \in {"user", "recv"}, RecvTry(p, b)
  PROVE  IInv'
<1>0. /\ box \in [Box -> Mail] /\ loc \in [Proc -> Loc] /\ b \in Box /\ box[b] \in Mail
      /\ box[b].tail = (box[b].head + box[b].count) % MBOX_CAP /\ made' = made
  BY Zenon DEF IInv, TypeOK, Loc, RingInv, RecvTry
<1>1. CASE Goto(p, User) /\ UNCHANGED <<box, sleeping>>
  <2>1. loc'[p].pc = "user" /\ \A q \in Proc \ {p} : loc'[q] = loc[q]
    BY <1>0, <1>1, ZenonT(30) DEF Goto, User
  <2> QED
    BY <1>0, <1>1, <2>1, WaitKeepsInv, Zenon
<1>2. CASE box[b].closed = 0 /\ box[b].count = 0 /\ Block(p, "recv", b, 0)
  <2>1. /\ loc'[p].pc = "recv" /\ loc'[p].i = b /\ \A q \in Proc \ {p} : loc'[q] = loc[q]
    BY <1>0, <1>2, Zenon DEF Goto, Block
  <2> QED
    BY <1>0, <1>2, <2>1, WaitKeepsInv, Zenon DEF Block
<1>3. CASE /\ box[b].count # 0 /\ box' = [box EXCEPT ![b] = Popped(box[b])]
           /\ sleeping' = wakeup(b) /\ Goto(p, User)
  <2>1. loc'[p].pc = "user" /\ \A q \in Proc \ {p} : loc'[q] = loc[q]
    BY <1>0, <1>3, Zenon DEF Goto, User
  <2> DEFINE r == Popped(box[b])
  <2>2. /\ r \in Mail /\ r.used = box[b].used /\ r.key = box[b].key
        /\ r.tail = (r.head + r.count) % MBOX_CAP
    BY <1>0, <1>3, PoppedFields, PoppedContents, Zenon
  <2> HIDE DEF r
  <2>3. box' = [box EXCEPT ![b] = r]
    BY <1>3, Zenon DEF r
  <2> QED
    BY <1>0, <1>3, <2>1, <2>2, <2>3, ChangeKeepsInv, Zenon
<1> QED
  BY <1>1, <1>2, <1>3, Zenon DEF RecvTry

\* mbox_close of a box in use.
LEMMA CloseKeepsInv ==
  ASSUME IInv, TypeOK', SendInv', NEW p \in Proc, NEW b \in Box, box[b].used = 1, mbox_close(p, b)
  PROVE  IInv'
<1>0. /\ box \in [Box -> Mail] /\ loc \in [Proc -> Loc] /\ box[b] \in Mail
      /\ box[b].tail = (box[b].head + box[b].count) % MBOX_CAP
      /\ p \in Proc \ sleeping /\ loc[p].pc = "user"
  BY Zenon DEF IInv, TypeOK, Loc, RingInv, mbox_close, At
<1> DEFINE r == [box[b] EXCEPT !.closed = 1]
<1>1. /\ r \in Mail /\ r.used = box[b].used /\ r.key = box[b].key
      /\ r.tail = (r.head + r.count) % MBOX_CAP
  BY <1>0, Zenon DEF Mail
<1>2. box' = [box EXCEPT ![b] = r] /\ sleeping' = wakeup(b) /\ loc' = loc /\ made' = made
  BY <1>0, Zenon DEF mbox_close
<1> HIDE DEF r
<1> QED
  BY <1>0, <1>1, <1>2, ChangeKeepsInv, Zenon

\* What is said of boxes and calls, when only fewer processes sleep.
LEMMA SameKeepsInv ==
  ASSUME IInv, TypeOK', SendInv', UNCHANGED <<box, loc, made>>, sleeping' \subseteq sleeping
  PROVE  IInv'
<1>1. RingInv' /\ CallInv'
  BY Zenon DEF IInv, RingInv, CallInv
<1>2. UseInv' /\ OneBoxPerKey'
  BY ZenonT(30) DEF IInv, UseInv, OneBoxPerKey
<1>3. CreateInv'
  BY DEF IInv, CreateInv, KeyMatches
<1>4. SleepersHaveCause'
  BY Zenon DEF IInv, SleepersHaveCause, MustWait, Stranded
<1> QED
  BY <1>1, <1>2, <1>3, <1>4, Zenon DEF IInv

\* kkill only takes a process out of the sleepers.
LEMMA KillKeepsInv ==
  ASSUME IInv, TypeOK', SendInv', NEW p \in Proc, kkill(p)
  PROVE  IInv'
<1>0. UNCHANGED <<box, loc, made>> /\ sleeping' \subseteq sleeping
  BY Zenon DEF kkill
<1> QED
  BY <1>0, SameKeepsInv, Zenon

\* The invariant holds after mboxinit.
LEMMA InvInit == Init => IInv
<1> SUFFICES ASSUME Init PROVE IInv
  BY Zenon
<1>1. TypeOK /\ SendInv
  BY TypeInit, SendInit, Zenon
<1>2. RingInv
  <2>1. 0 = (0 + 0) % MBOX_CAP
    BY MailboxAssumption
  <2> QED
    BY <2>1, Zenon DEF Init, mboxinit, RingInv
<1>a. /\ \A b \in Box : box[b].used = 0 /\ box[b].key = 0 /\ box[b].count = 0
      /\ \A q \in Proc : loc[q].pc = "user"
      /\ made = {} /\ sleeping = {}
  BY Zenon DEF Init, mboxinit, User
<1>3. UseInv /\ OneBoxPerKey
  BY <1>a DEF UseInv, OneBoxPerKey
<1>4. CreateInv /\ CallInv /\ SleepersHaveCause
  BY <1>a, Zenon DEF CreateInv, CallInv, SleepersHaveCause, Creating
<1> QED
  BY <1>1, <1>2, <1>3, <1>4, Zenon DEF IInv

\* Every step keeps the invariant.
LEMMA InvStep ==
  ASSUME SingleCreator, IInv, [Next]_vars
  PROVE  IInv'
<1>1. TypeOK' /\ SendInv'
  BY TypeStep, Zenon DEF IInv
<1>2. CASE UNCHANGED vars
  <2>1. UNCHANGED <<box, loc, made, sleeping>>
    BY <1>2, Zenon DEF vars
  <2> QED
    BY <1>1, <2>1, SameKeepsInv, Zenon
<1>3. ASSUME NEW p \in Proc,
             \/ \E k \in Key : mbox_create(p, k)
             \/ find_id_by_key(p) \/ scan_unused(p) \/ claim_used(p) \/ claim_key(p) \/ reset_box(p)
      PROVE  IInv'
  BY <1>1, <1>3, CreateKeepsInv, Zenon
<1>4. ASSUME NEW p \in Proc, NEW b \in Box, NEW m \in Msg, mbox_send(p, b, m) PROVE IInv'
  BY <1>1, <1>4, SendKeepsInv, ZenonT(30) DEF mbox_send, At
<1>5. ASSUME NEW p \in Proc, send_again(p) PROVE IInv'
  <2>1. loc[p].i \in Box /\ loc[p].msg \in Msg /\ p \in Proc \ sleeping /\ loc[p].pc = "send"
    BY <1>5, Zenon DEF IInv, TypeOK, SendInv, send_again, At
  <2> QED
    BY <1>1, <1>5, <2>1, SendKeepsInv, Zenon DEF send_again
<1>6. ASSUME NEW p \in Proc, NEW b \in Box, mbox_recv(p, b) PROVE IInv'
  BY <1>1, <1>6, RecvKeepsInv, Zenon DEF mbox_recv, At
<1>7. ASSUME NEW p \in Proc, recv_again(p) PROVE IInv'
  <2>1. loc[p].i \in Box /\ p \in Proc \ sleeping /\ loc[p].pc = "recv"
    BY <1>7, Zenon DEF IInv, TypeOK, recv_again, At
  <2> QED
    BY <1>1, <1>7, <2>1, RecvKeepsInv, Zenon DEF recv_again
<1>8. ASSUME NEW p \in Proc, NEW b \in Box, mbox_close(p, b) PROVE IInv'
  <2>1. CASE box[b].used = 1
    BY <1>1, <1>8, <2>1, CloseKeepsInv, Zenon
  <2>2. CASE box[b].used # 1
    <3>1. box \in [Box -> Mail]
      BY Zenon DEF IInv, TypeOK
    <3>2. UNCHANGED <<box, loc, made, sleeping>>
      BY <1>8, <2>2, <3>1, Zenon DEF mbox_close, Mail
    <3> QED
      BY <1>1, <3>2, SameKeepsInv, Zenon
  <2> QED
    BY <2>1, <2>2, Zenon
<1>9. ASSUME NEW p \in Proc, kkill(p) PROVE IInv'
  BY <1>1, <1>9, KillKeepsInv, Zenon
<1> QED
  BY <1>2, <1>3, <1>4, <1>5, <1>6, <1>7, <1>8, <1>9, Zenon DEF Next, Step

\* With one creator, mbox_create never gives one key two boxes.
THEOREM KeysApart ==
  ASSUME SingleCreator
  PROVE  Spec => []OneBoxPerKey
<1>1. IInv /\ [Next]_vars => IInv'
  BY InvStep, Zenon
<1>2. IInv => OneBoxPerKey
  BY DEF IInv
<1> QED
  BY InvInit, <1>1, <1>2, PTL DEF Spec

\* With one creator, no sleeper in mbox_send or mbox_recv has lost its wakeup,
\* except senders that mbox_create, which empties the box without a wakeup, has
\* found asleep there.
THEOREM NoLostWakeup ==
  ASSUME SingleCreator
  PROVE  Spec => []SleepersHaveCause
<1>1. IInv /\ [Next]_vars => IInv'
  BY InvStep, Zenon
<1>2. IInv => SleepersHaveCause
  BY Zenon DEF IInv
<1> QED
  BY InvInit, <1>1, <1>2, PTL DEF Spec
-----------------------------------------------------------------------------
(* Refinement: a box that is handed out is a bounded FIFO channel. *)

\* What a box holds is a matter of head, count and buf.
LEMMA SameContents ==
  ASSUME NEW r, NEW s, r.head = s.head, r.count = s.count, r.buf = s.buf
  PROVE  Contents(r) = Contents(s)
BY Zenon DEF Contents

\* A step that changes no box that is handed out, and hands none out, is a
\* stuttering step of the channels.
LEMMA StutterStep ==
  ASSUME made' = made, \A b \in made : box'[b] = box[b]
  PROVE  UNCHANGED Abstract!chanVars
<1>1. [b \in Box |-> IF b \in made THEN Contents(box[b]) ELSE <<>>]'
        = [b \in Box |-> IF b \in made THEN Contents(box[b]) ELSE <<>>]
  BY ZenonT(30) DEF Contents
<1>2. {b \in made : box[b].closed = 1}' = {b \in made : box[b].closed = 1}
  BY Zenon
<1> QED
  BY <1>1, <1>2, Zenon DEF Abstract!chanVars

\* mbox_create opens a channel in its last step, and nothing else.
LEMMA CreateRefines ==
  ASSUME SingleCreator, IInv, TypeOK', NEW p \in Proc,
         \/ \E k \in Key : mbox_create(p, k)
         \/ find_id_by_key(p) \/ scan_unused(p) \/ claim_used(p) \/ claim_key(p) \/ reset_box(p)
  PROVE  [Abstract!Next]_(Abstract!chanVars)
<1>0. /\ box \in [Box -> Mail] /\ loc[p].i \in Box /\ made \subseteq Box
  BY Zenon DEF IInv, TypeOK
<1>1. CASE \/ \E k \in Key : mbox_create(p, k)
           \/ scan_unused(p)
  <2>1. UNCHANGED <<box, made>>
    BY <1>1, Zenon DEF mbox_create, scan_unused
  <2> QED
    BY <2>1, StutterStep, Zenon
<1>2. CASE find_id_by_key(p)
  <2>1. box' = box /\ loc[p].pc = "find"
    BY <1>2, ZenonT(30) DEF find_id_by_key, At
  <2>2. made' = made
    <3>1. p \in Creators /\ \A q \in Creators : q = p
      BY <2>1, ZenonT(30) DEF IInv, CreateInv, Creating, SingleCreator
    <3>2. KeyMatches(loc[p].i, loc[p].key) => loc[p].i \in made
      BY <1>0, <2>1, <3>1, Zenon DEF IInv, UseInv, KeyMatches
    <3> QED
      BY <1>2, <3>2, ZenonT(30) DEF find_id_by_key
  <2> QED
    BY <2>1, <2>2, StutterStep, Zenon
<1>3. CASE claim_used(p)
  <2>1. loc[p].i \notin made /\ box' = [box EXCEPT ![loc[p].i].used = 1] /\ made' = made
    BY <1>3 DEF claim_used, At, IInv, CreateInv, UseInv
  <2>2. \A b \in made : box'[b] = box[b]
    BY <1>0, <2>1, Zenon
  <2> QED
    BY <2>1, <2>2, StutterStep, Zenon
<1>4. CASE claim_key(p)
  <2>1. /\ loc[p].i \notin made /\ box' = [box EXCEPT ![loc[p].i].key = loc[p].key]
        /\ made' = made
    BY <1>4, Zenon DEF claim_key, At, IInv, CreateInv
  <2>2. \A b \in made : box'[b] = box[b]
    BY <1>0, <2>1, Zenon
  <2> QED
    BY <2>1, <2>2, StutterStep, Zenon
<1>5. CASE reset_box(p)
  <2> DEFINE i == loc[p].i
  <2>1. /\ i \in Box /\ i \notin made /\ box' = [box EXCEPT ![i] = Emptied(box[i])]
        /\ made' = made \cup {i}
    BY <1>0, <1>5, Zenon DEF reset_box, At, IInv, CreateInv
  <2> HIDE DEF i
  <2>2. box[i] \in Mail /\ Emptied(box[i]) \in Mail
    BY <1>0, <2>1, BoxFields, ZenonT(30)
  <2>3. Emptied(box[i]).count = 0 /\ Emptied(box[i]).closed = 0
    BY Zenon DEF Emptied, Ring
  <2>4. Contents(Emptied(box[i])) = <<>>
    <3>1. Len(Contents(Emptied(box[i]))) = 0 /\ Contents(Emptied(box[i])) \in Seq(Msg \cup {0})
      BY <2>2, <2>3, ContentsSeq, Zenon
    <3> QED
      BY <3>1
  <2>5. box'[i] = Emptied(box[i]) /\ \A b \in Box \ {i} : box'[b] = box[b]
    BY <1>0, <2>1, Zenon
  <2>6. Contents(box'[i]) = <<>> /\ box'[i].closed = 0
    BY <2>3, <2>4, <2>5, ZenonT(30)
  <2>7. [b \in Box |-> IF b \in made THEN Contents(box[b]) ELSE <<>>]'
          = [b \in Box |-> IF b \in made THEN Contents(box[b]) ELSE <<>>]
    <3>1. \A b \in Box : (IF b \in made' THEN Contents(box'[b]) ELSE <<>>)
                           = IF b \in made THEN Contents(box[b]) ELSE <<>>
      BY <2>1, <2>5, <2>6
    <3> QED
      BY <3>1, Zenon
  <2>8. {b \in made : box[b].closed = 1}' = {b \in made : box[b].closed = 1}
    BY <1>0, <2>1, <2>5, <2>6
  <2>9. Abstract!Open(i)
    BY <2>1, <2>7, <2>8, Zenon DEF Abstract!Open
  <2> QED
    BY <2>1, <2>9, Zenon DEF Abstract!Next
<1> QED
  BY <1>1, <1>2, <1>3, <1>4, <1>5, Zenon

\* What the channels become when box b, handed out, becomes r.
LEMMA ChangedChannels ==
  ASSUME IInv, NEW b \in made, NEW r, made' = made, box' = [box EXCEPT ![b] = r]
  PROVE  /\ [c \in Box |-> IF c \in made THEN Contents(box[c]) ELSE <<>>]'
              = [[c \in Box |-> IF c \in made THEN Contents(box[c]) ELSE <<>>]
                   EXCEPT ![b] = Contents(r)]
         /\ {c \in made : box[c].closed = 1}'
              = IF r.closed = 1 THEN {c \in made : box[c].closed = 1} \cup {b}
                ELSE {c \in made : box[c].closed = 1} \ {b}
<1>0. box \in [Box -> Mail] /\ made \subseteq Box /\ b \in Box
  BY Zenon DEF IInv, TypeOK
<1>1. box'[b] = r /\ \A c \in Box \ {b} : box'[c] = box[c]
  BY <1>0, Zenon
<1>2. \A c \in Box : (IF c \in made' THEN Contents(box'[c]) ELSE <<>>)
                       = IF c = b THEN Contents(r) ELSE IF c \in made THEN Contents(box[c]) ELSE <<>>
  BY <1>0, <1>1, Zenon
<1>3. {c \in made' : box'[c].closed = 1}
        = IF r.closed = 1 THEN {c \in made : box[c].closed = 1} \cup {b}
          ELSE {c \in made : box[c].closed = 1} \ {b}
  BY <1>0, <1>1, ZenonT(30)
<1> QED
  BY <1>0, <1>2, <1>3, Zenon

\* What is done to a box that is not handed out is nothing to the channels.
LEMMA EarlyStep ==
  ASSUME IInv, NEW b \in Box \ made, NEW r, made' = made, box' = [box EXCEPT ![b] = r]
  PROVE  UNCHANGED Abstract!chanVars
<1>1. box \in [Box -> Mail] /\ made \subseteq Box
  BY Zenon DEF IInv, TypeOK
<1>2. \A c \in made : box'[c] = box[c]
  BY <1>1, Zenon
<1> QED
  BY <1>2, StutterStep, Zenon

\* A try of mbox_send puts its message in the channel, or does nothing to it.
LEMMA SendRefines ==
  ASSUME IInv, NEW p \in Proc, NEW b \in Box, NEW m \in Msg, SendTry(p, b, m)
  PROVE  [Abstract!Next]_(Abstract!chanVars)
<1>0. /\ box \in [Box -> Mail] /\ b \in Box /\ box[b] \in Mail /\ made' = made
      /\ box[b].tail = (box[b].head + box[b].count) % MBOX_CAP
  BY Zenon DEF IInv, TypeOK, RingInv, SendTry
<1>1. CASE box' = box
  BY <1>0, <1>1, StutterStep, Zenon
<1>2. CASE /\ b \in made /\ box[b].closed = 0 /\ box[b].count # MBOX_CAP
           /\ box' = [box EXCEPT ![b] = Pushed(box[b], m)]
  <2> DEFINE r == Pushed(box[b], m)
  <2>1. r.closed = 0 /\ Contents(r) = Append(Contents(box[b]), m)
    BY <1>0, <1>2, PushedFields, PushedContents, Zenon
  <2>2. Len(Contents(box[b])) < MBOX_CAP
    <3>1. box[b].count \in 0 .. MBOX_CAP /\ Len(Contents(box[b])) = box[b].count
      BY <1>0, ContentsSeq, Zenon DEF Mail
    <3> QED
      BY <1>2, <3>1, MailboxAssumption
  <2> HIDE DEF r
  <2>3. box' = [box EXCEPT ![b] = r]
    BY <1>2, Zenon DEF r
  <2> DEFINE q == [c \in Box |-> IF c \in made THEN Contents(box[c]) ELSE <<>>]
             cl == {c \in made : box[c].closed = 1}
  <2>4. q' = [q EXCEPT ![b] = Contents(r)] /\ (r.closed # 1 => cl' = cl \ {b})
    BY <1>0, <1>2, <2>3, ChangedChannels, Zenon
  <2>5. q[b] = Contents(box[b]) /\ b \notin cl
    BY <1>0, <1>2
  <2>6. cl' = cl /\ q' = [q EXCEPT ![b] = Append(q[b], m)]
    <3>0. r.closed # 1
      BY <2>1, SMTT(30)
    <3> HIDE DEF q, cl
    <3>1. cl' = cl
      BY <2>4, <2>5, <3>0, ZenonT(30)
    <3> QED
      BY <2>1, <2>4, <2>5, <3>1, Zenon
  <2>7. Abstract!Put(b, m)
    BY <1>0, <1>2, <2>2, <2>5, <2>6, Zenon DEF Abstract!Put
  <2> QED
    BY <1>0, <2>7, Zenon DEF Abstract!Next
<1>3. CASE b \notin made /\ box' = [box EXCEPT ![b] = Pushed(box[b], m)]
  BY <1>0, <1>3, EarlyStep, Zenon
<1> QED
  BY <1>1, <1>2, <1>3, Zenon DEF SendTry, Block

\* A try of mbox_recv takes the oldest message, or does nothing to the channel.
LEMMA RecvRefines ==
  ASSUME IInv, NEW p \in Proc, NEW b \in Box, RecvTry(p, b)
  PROVE  [Abstract!Next]_(Abstract!chanVars)
<1>0. /\ box \in [Box -> Mail] /\ b \in Box /\ box[b] \in Mail /\ made' = made
      /\ box[b].tail = (box[b].head + box[b].count) % MBOX_CAP
  BY Zenon DEF IInv, TypeOK, RingInv, RecvTry
<1>1. CASE box' = box
  BY <1>0, <1>1, StutterStep, Zenon
<1>2. CASE b \in made /\ box[b].count # 0 /\ box' = [box EXCEPT ![b] = Popped(box[b])]
  <2> DEFINE r == Popped(box[b])
  <2>1. /\ r.closed = box[b].closed /\ Contents(r) = Tail(Contents(box[b]))
        /\ Contents(box[b]) # <<>>
    BY <1>0, <1>2, PoppedFields, PoppedContents, Zenon
  <2> HIDE DEF r
  <2>3. box' = [box EXCEPT ![b] = r]
    BY <1>2, Zenon DEF r
  <2> DEFINE q == [c \in Box |-> IF c \in made THEN Contents(box[c]) ELSE <<>>]
             cl == {c \in made : box[c].closed = 1}
  <2>4. /\ q' = [q EXCEPT ![b] = Contents(r)]
        /\ r.closed = 1 => cl' = cl \cup {b}
        /\ r.closed # 1 => cl' = cl \ {b}
    BY <1>0, <1>2, <2>3, ChangedChannels, Zenon
  <2>5. q[b] = Contents(box[b]) /\ (b \in cl <=> box[b].closed = 1)
    BY <1>0, <1>2, Zenon
  <2>6. cl' = cl /\ q' = [q EXCEPT ![b] = Tail(q[b])]
    <3> HIDE DEF q, cl
    <3>1. cl' = cl
      BY <2>1, <2>4, <2>5, ZenonT(30)
    <3> QED
      BY <2>1, <2>4, <2>5, <3>1, Zenon
  <2>7. Abstract!Take(b)
    BY <1>0, <2>1, <2>5, <2>6, Zenon DEF Abstract!Take
  <2> QED
    BY <1>0, <2>7, Zenon DEF Abstract!Next
<1>3. CASE b \notin made /\ box' = [box EXCEPT ![b] = Popped(box[b])]
  BY <1>0, <1>3, EarlyStep, Zenon
<1> QED
  BY <1>1, <1>2, <1>3, Zenon DEF RecvTry, Block

\* mbox_close closes the channel and keeps its messages.
LEMMA CloseRefines ==
  ASSUME IInv, NEW p \in Proc, NEW b \in made, mbox_close(p, b)
  PROVE  [Abstract!Next]_(Abstract!chanVars)
<1>0. box \in [Box -> Mail] /\ b \in Box /\ box[b] \in Mail /\ box[b].used = 1 /\ made' = made
  BY DEF IInv, TypeOK, UseInv, mbox_close
<1> DEFINE r == [box[b] EXCEPT !.closed = 1]
<1>1. r.closed = 1 /\ r.head = box[b].head /\ r.count = box[b].count /\ r.buf = box[b].buf
  BY <1>0, Zenon DEF Mail
<1>2. box' = [box EXCEPT ![b] = r]
  BY <1>0, Zenon DEF mbox_close
<1> HIDE DEF r
<1>3. Contents(r) = Contents(box[b])
  BY <1>1, SameContents, Zenon
<1> DEFINE q == [c \in Box |-> IF c \in made THEN Contents(box[c]) ELSE <<>>]
           cl == {c \in made : box[c].closed = 1}
<1>4. q' = [q EXCEPT ![b] = Contents(r)] /\ cl' = cl \cup {b}
  BY <1>0, <1>1, <1>2, ChangedChannels, Zenon
<1>5. q[b] = Contents(box[b]) /\ q = [c \in Box |-> q[c]]
  BY <1>0, Zenon
<1>6. q' = q
  <2> HIDE DEF q, cl
  <2> QED
    BY <1>3, <1>4, <1>5, Zenon
<1>7. Abstract!Close(b)
  BY <1>0, <1>4, <1>6, Zenon DEF Abstract!Close
<1> QED
  BY <1>0, <1>7, Zenon DEF Abstract!Next

\* Every step of the mailboxes is one of the channels, or none.
LEMMA StepRefines ==
  ASSUME SingleCreator, IInv, [Next]_vars
  PROVE  [Abstract!Next]_(Abstract!chanVars)
<1>1. TypeOK'
  BY TypeStep, Zenon DEF IInv
<1>2. CASE UNCHANGED vars
  BY <1>2, StutterStep, Zenon DEF vars
<1>3. ASSUME NEW p \in Proc,
             \/ \E k \in Key : mbox_create(p, k)
             \/ find_id_by_key(p) \/ scan_unused(p) \/ claim_used(p) \/ claim_key(p) \/ reset_box(p)
      PROVE  [Abstract!Next]_(Abstract!chanVars)
  BY <1>1, <1>3, CreateRefines, Zenon
<1>4. ASSUME NEW p \in Proc, NEW b \in Box, NEW m \in Msg, mbox_send(p, b, m)
      PROVE  [Abstract!Next]_(Abstract!chanVars)
  BY <1>4, SendRefines, Zenon DEF mbox_send
<1>5. ASSUME NEW p \in Proc, send_again(p) PROVE [Abstract!Next]_(Abstract!chanVars)
  <2>1. loc[p].i \in Box /\ loc[p].msg \in Msg
    BY <1>5, Zenon DEF IInv, TypeOK, SendInv, send_again, At
  <2> QED
    BY <1>5, <2>1, SendRefines, Zenon DEF send_again
<1>6. ASSUME NEW p \in Proc, NEW b \in Box, mbox_recv(p, b)
      PROVE  [Abstract!Next]_(Abstract!chanVars)
  BY <1>6, RecvRefines, Zenon DEF mbox_recv
<1>7. ASSUME NEW p \in Proc, recv_again(p) PROVE [Abstract!Next]_(Abstract!chanVars)
  <2>1. loc[p].i \in Box
    BY <1>7, Zenon DEF IInv, TypeOK, recv_again, At
  <2> QED
    BY <1>7, <2>1, RecvRefines, Zenon DEF recv_again
<1>8. ASSUME NEW p \in Proc, NEW b \in Box, mbox_close(p, b)
      PROVE  [Abstract!Next]_(Abstract!chanVars)
  <2>1. CASE b \in made
    BY <1>8, <2>1, CloseRefines, Zenon
  <2>2. CASE b \notin made
    <3>1. PICK u : box' = [box EXCEPT ![b].closed = u] /\ made' = made
      BY <1>8, Zenon DEF mbox_close
    <3> QED
      BY <2>2, <3>1, EarlyStep, Zenon
  <2> QED
    BY <2>1, <2>2, Zenon
<1>9. ASSUME NEW p \in Proc, kkill(p) PROVE [Abstract!Next]_(Abstract!chanVars)
  <2>1. UNCHANGED <<box, made>>
    BY <1>9, Zenon DEF kkill
  <2> QED
    BY <2>1, StutterStep, Zenon
<1> QED
  BY <1>2, <1>3, <1>4, <1>5, <1>6, <1>7, <1>8, <1>9, ZenonT(30) DEF Next, Step

\* With one creator, every mailbox that mbox_create has returned is a bounded
\* FIFO channel: no interleaving of mbox_send, mbox_recv, mbox_close, kkill and
\* further mbox_creates loses, repeats, reorders or invents a message.
THEOREM MailboxesAreChannels ==
  ASSUME SingleCreator
  PROVE  Spec => ImplementsChannel
<1>1. Init => Abstract!Init
  <2> SUFFICES ASSUME Init PROVE Abstract!Init
    BY Zenon
  <2>1. made = {}
    BY Zenon DEF Init
  <2> QED
    BY <2>1, Zenon DEF Abstract!Init
<1>2. IInv /\ [Next]_vars => IInv'
  BY InvStep, Zenon
<1>3. IInv /\ [Next]_vars => [Abstract!Next]_(Abstract!chanVars)
  BY StepRefines, Zenon
<1> QED
  BY InvInit, <1>1, <1>2, <1>3, PTL DEF Spec, ImplementsChannel, Abstract!Spec
=============================================================================
