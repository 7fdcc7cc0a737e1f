-------------------------------- MODULE Maze --------------------------------
(***************************************************************************)
(* The two-player maze of Lab 3 (Task 3.2): user/master.c and the two      *)
(* processes A and B it starts, user/process.c, over shared memory and     *)
(* mailboxes.                                                              *)
(*                                                                         *)
(* Several masters may run at once, each with two children, to which it    *)
(* names the page by its key and the mailboxes by their ids.  The keys     *)
(* come from the pid of the master, so masters with neighbouring pids      *)
(* share a mailbox.  A mailbox is what the Channel module says (Mailbox is *)
(* shown to implement it as long as no two calls of mbox_create overlap);  *)
(* it outlives the master, as the kernel never frees it.  Each child       *)
(* writes its own done flag, which the master reads only after both have   *)
(* exited, so the write belongs to the step of the message before it.      *)
(***************************************************************************)
EXTENDS Integers, FiniteSets, Sequences, Ulib

CONSTANTS Pid,        \* the pids of the masters that are ever run
          MaxL,       \* the longest maze (255)
          MAX_MBOX, MBOX_CAP,
          argv        \* the arguments each master may be given: L, startA, startB

ASSUME MazeAssumption ==
  /\ Pid \subseteq Nat \ {0} /\ IsFiniteSet(Pid)
  /\ \A m \in Pid : m <= 9999989     \* 10 + pid fits into char shm[8]
  /\ MaxL \in Nat \ {0}
  /\ MAX_MBOX \in Nat /\ MBOX_CAP \in Nat \ {0}
  /\ argv \in [Pid -> SUBSET (Int \X Int \X Int)]

Role == {"A", "B"}
end == -1

SHM_KEY(m) == 10 + m
AB_KEY(m) == 10 + m + 100
BA_KEY(m) == 10 + m + 101

\* BA_KEY of a master is AB_KEY of the one with the next pid.  m is alone if no
\* such master ever runs.
Alone(m) == {m - 1, m + 1} \cap Pid = {}

Box == 0 .. (MAX_MBOX - 1)

\* The keys and ids that master passes on survive the way through text (see
\* Ulib).
ASSUME NamesInText == \A x \in Box \cup {SHM_KEY(m) : m \in Pid} : atoi(itoa10(x)) = x

VARIABLES g,        \* the shared page of each master
          master,   \* pc of each master, mail_ab, mail_ba, the verdict it prints
          child,    \* pc, position and received message of each child, and the
                    \*   master whose page it has mapped, mail_ab, mail_ba
          round,    \* history: how often each child has moved
          key,                    \* the key of each mailbox
          opened, queue, closed   \* the mailboxes

mail == <<key, opened, queue, closed>>
vars == <<g, master, child, round, key, opened, queue, closed>>

Mail == INSTANCE Channel WITH Msg <- end .. (MaxL - 1), Cap <- MBOX_CAP

Gone == [pc |-> "gone", pos |-> 0, got |-> 0, page |-> 0, mail_ab |-> -1, mail_ba |-> -1]

Init ==
  /\ g = [m \in Pid |-> [L |-> 0, startA |-> 0, startB |-> 0,
                         done |-> [r \in Role |-> FALSE]]]
  /\ master = [m \in Pid |-> [pc |-> "init", mail_ab |-> -1, mail_ba |-> -1, verdict |-> {}]]
  /\ child = [m \in Pid |-> [r \in Role |-> Gone]]
  /\ round = [m \in Pid |-> [r \in Role |-> 0]]
  /\ key = [b \in Box |-> 0]
  /\ Mail!Init

-----------------------------------------------------------------------------
(* master.c *)

Goto(m, pc) == master' = [master EXCEPT ![m].pc = pc]

\* The shared page is created, mapped and filled, if the arguments are valid.
init_game(m) ==
  /\ master[m].pc = "init"
  /\ \E args \in argv[m] :
       LET L == args[1]
           starts == {args[2], args[3]}
           valid == 1 <= L /\ L <= MaxL /\ starts \subseteq 0 .. (L - 1)
       IN  \/ /\ valid
              /\ g' = [g EXCEPT ![m].L = L, ![m].startA = args[2], ![m].startB = args[3]]
              /\ Goto(m, "create_ab")
           \/ /\ ~valid
              /\ Goto(m, "exit")
              /\ UNCHANGED g
  /\ UNCHANGED <<child, round, mail>>

\* mbox_create(k): the id of the mailbox with that key, of a new one, or -1.
Created(k, id) ==
  LET known == {b \in opened : key[b] = k}
      new == Box \ opened
  IN  IF known # {} THEN id \in known /\ UNCHANGED mail
      ELSE IF new # {}
      THEN /\ id \in new /\ \A b \in new : id <= b
           /\ Mail!Open(id)
           /\ key' = [key EXCEPT ![id] = k]
      ELSE id = -1 /\ UNCHANGED mail

create_ab(m) ==
  /\ master[m].pc = "create_ab"
  /\ \E id \in -1 .. (MAX_MBOX - 1) :
       /\ Created(AB_KEY(m), id)
       /\ master' = [master EXCEPT ![m].pc = "create_ba", ![m].mail_ab = id]
  /\ UNCHANGED <<g, child, round>>

create_ba(m) ==
  /\ master[m].pc = "create_ba"
  /\ \E id \in -1 .. (MAX_MBOX - 1) :
       /\ Created(BA_KEY(m), id)
       /\ master' = [master EXCEPT ![m].pc = "fork", ![m].mail_ba = id]
  /\ UNCHANGED <<g, child, round>>

give_up(m) ==
  /\ master[m].pc = "fork" /\ (master[m].mail_ab < 0 \/ master[m].mail_ba < 0)
  /\ Goto(m, "exit")
  /\ UNCHANGED <<g, child, round, mail>>

\* Mutant: B sends before it receives.
BothSend == [A |-> "send", B |-> "send"]

\* What each role does first.
FirstStep == [A |-> "send", B |-> "recv"]

\* The master whose page shm_get(k) maps, if there is one.
PageOf(k) == {n \in Pid : SHM_KEY(n) = k /\ master[n].pc \notin {"init", "exit"}}

\* Mutant: the mailboxes are swapped.
ArgsSwapped(m) == [shm |-> itoa10(SHM_KEY(m)), ab |-> itoa10(master[m].mail_ba),
                   ba |-> itoa10(master[m].mail_ab)]

\* The arguments of exec.
Args(m) == [shm |-> itoa10(SHM_KEY(m)), ab |-> itoa10(master[m].mail_ab),
            ba |-> itoa10(master[m].mail_ba)]

\* A child as its arguments make it; it leaves if shm_get finds no page.
Started(r, args) ==
  LET pages == PageOf(atoi(args.shm))
      n == CHOOSE n \in pages : TRUE
  IN  IF pages = {} THEN Gone
      ELSE [pc |-> FirstStep[r], got |-> 0, page |-> n,
            pos |-> IF r = "A" THEN g[n].startA ELSE g[n].startB,
            mail_ab |-> atoi(args.ab), mail_ba |-> atoi(args.ba)]

\* Both children are forked.  A fork, the exec or the child's shm_get may fail;
\* then that child never plays.
fork(m) ==
  /\ master[m].pc = "fork" /\ master[m].mail_ab >= 0 /\ master[m].mail_ba >= 0
  /\ \E players \in SUBSET Role :
       child' = [child EXCEPT ![m] =
                   [r \in Role |-> IF r \in players THEN Started(r, Args(m)) ELSE Gone]]
  /\ Goto(m, "wait")
  /\ UNCHANGED <<g, round, mail>>

\* Both waits have returned: the verdict.
wait(m) ==
  /\ master[m].pc = "wait" /\ \A r \in Role : child[m][r].pc = "gone"
  /\ master' = [master EXCEPT ![m].pc = "close_ab",
                              ![m].verdict = {r \in Role : g[m].done[r]}]
  /\ UNCHANGED <<g, child, round, mail>>

mbox_close(m, pc, id, next) ==
  /\ master[m].pc = pc
  /\ Mail!Close(id)
  /\ Goto(m, next)
  /\ UNCHANGED <<g, child, round, key>>

MasterStep(m) ==
  \/ init_game(m) \/ create_ab(m) \/ create_ba(m) \/ give_up(m) \/ fork(m) \/ wait(m)
  \/ mbox_close(m, "close_ab", master[m].mail_ab, "close_ba")
  \/ mbox_close(m, "close_ba", master[m].mail_ba, "exit")

-----------------------------------------------------------------------------
(* process.c *)

\* Mutant: no end marker behind the last cell.
CellUnmarked(L, i, k) == i + k

\* An entry of next_for_A (k = 1) or next_for_B (k = 2).
Cell(L, i, k) == IF i + k < L THEN i + k ELSE end

next_for_A(L, i) == Cell(L, i, 1)
next_for_B(L, i) == Cell(L, i, 2)

\* Mutant: the end marker is not sent.
SendUnlessEnd(id, v) ==
  IF id \in closed \/ v = end THEN UNCHANGED mail ELSE Mail!Put(id, v) /\ UNCHANGED key

\* mbox_send, whose result nobody looks at.
Send(id, v) ==
  IF id \in closed THEN UNCHANGED mail ELSE Mail!Put(id, v) /\ UNCHANGED key

\* recv_loc: v is the message, or end when the mailbox is closed and empty.
recv_loc(id, v) ==
  IF queue[id] = <<>>
  THEN id \in closed /\ v = end /\ UNCHANGED mail
  ELSE v = Head(queue[id]) /\ Mail!Take(id) /\ UNCHANGED key

\* Mutant: A leaves without setting doneA.
BecomeNotDone(m, r, over, c) ==
  /\ child' = [child EXCEPT ![m][r] = IF over THEN [c EXCEPT !.pc = "gone"] ELSE c]
  /\ g' = IF over /\ r # "A" THEN [g EXCEPT ![c.page].done[r] = TRUE] ELSE g

\* Child r of m goes to pc, or is done.
Become(m, r, over, c) ==
  /\ child' = [child EXCEPT ![m][r] = IF over THEN [c EXCEPT !.pc = "gone"] ELSE c]
  /\ g' = IF over THEN [g EXCEPT ![c.page].done[r] = TRUE] ELSE g

A_send(m) ==
  LET c == child[m]["A"]
      next_B == next_for_B(g[c.page].L, c.pos)
  IN  /\ c.pc = "send"
      /\ Send(c.mail_ab, next_B)
      /\ Become(m, "A", next_B = end, [c EXCEPT !.pc = "recv"])
      /\ UNCHANGED <<master, round>>

A_recv(m) ==
  LET c == child[m]["A"]
  IN  /\ c.pc = "recv"
      /\ \E v \in end .. (MaxL - 1) :
           /\ recv_loc(c.mail_ba, v)
           /\ Become(m, "A", v = end, [c EXCEPT !.pc = "send", !.pos = v])
      /\ round' = [round EXCEPT ![m]["A"] = @ + 1]
      /\ UNCHANGED master

B_recv(m) ==
  LET c == child[m]["B"]
  IN  /\ c.pc = "recv"
      /\ \E v \in end .. (MaxL - 1) :
           /\ recv_loc(c.mail_ab, v)
           /\ child' = [child EXCEPT ![m]["B"] = [c EXCEPT !.pc = "send", !.got = v]]
      /\ UNCHANGED <<g, master, round>>

B_send(m) ==
  LET c == child[m]["B"]
      next_A == next_for_A(g[c.page].L, c.pos)
  IN  /\ c.pc = "send"
      /\ Send(c.mail_ba, next_A)
      /\ Become(m, "B", c.got = end \/ next_A = end, [c EXCEPT !.pc = "recv", !.pos = c.got])
      /\ round' = [round EXCEPT ![m]["B"] = @ + 1]
      /\ UNCHANGED master

A(m) == A_send(m) \/ A_recv(m)
B(m) == B_recv(m) \/ B_send(m)

Next == \E m \in Pid : MasterStep(m) \/ A(m) \/ B(m)

Spec == Init /\ [][Next]_vars

\* The scheduler runs every process that can run.
FairSpec ==
  Spec /\ \A m \in Pid : WF_vars(MasterStep(m)) /\ WF_vars(A(m)) /\ WF_vars(B(m))
-----------------------------------------------------------------------------
(* Properties. *)

\* Types; the position of a child that plays on is a cell of the maze, at least
\* as long as no other game interferes.
TypeOK ==
  /\ \A m \in Pid :
       /\ g[m].L \in 0 .. MaxL /\ {g[m].startA, g[m].startB} \subseteq 0 .. MaxL
       /\ g[m].done \in [Role -> BOOLEAN]
       /\ \A r \in Role : child[m][r].pc # "gone" =>
            child[m][r].pos \in 0 .. ((IF Alone(m) THEN g[m].L ELSE MaxL) - 1)
  /\ opened \subseteq Box /\ closed \subseteq opened
  /\ queue \in [Box -> Seq(end .. (MaxL - 1))]

\* Where child r of m is after n moves if both always move at once, each to
\* where the other sends it: two moves take it three cells on, and after an odd
\* number of them it is ahead of where the other one started.
Position(m, r, n) ==
  LET start == [A |-> g[m].startA, B |-> g[m].startB]
      other == [A |-> g[m].startB + 1, B |-> g[m].startA + 2]
  IN  3 * (n \div 2) + IF n % 2 = 0 THEN start[r] ELSE other[r]

\* A child that plays is where it would be if both moved at once, although A
\* and B only exchange messages and are never in the same round at once.
MovesInStep ==
  \A m \in Pid, r \in Role : Alone(m) /\ child[m][r].pc # "gone" =>
    child[m][r].pos = Position(m, r, round[m][r])

\* The two take turns, so a mailbox never holds a second message and no send
\* ever waits for room.
OneMessagePerBox ==
  \A m \in Pid : Alone(m) =>
    \A b \in {master[m].mail_ab, master[m].mail_ba} \cap Box : Len(queue[b]) <= 1

\* B never finishes without A: master's verdict "LOSS: A didn't finish" cannot
\* happen, whichever child fails to start.
NotWithoutA ==
  \A m \in Pid :
    Alone(m) /\ master[m].pc \in {"close_ab", "close_ba"} /\ "B" \in master[m].verdict
      => "A" \in master[m].verdict

\* Every game in which both children start is won, whatever the maze.
GameIsWon ==
  \A m \in {n \in Pid : Alone(n)} :
    (master[m].pc = "wait" /\ \A r \in Role : child[m][r].pc # "gone")
      ~> (master[m].verdict = Role)

\* The page and the mailboxes that a child works on, all named to it in decimal
\* text, are those its master has made for it.  A child of another master works
\* on none of them, unless that master has the next pid, whose mailbox from A to
\* B is this one's from B to A.
OwnGame ==
  \A m \in Pid, r \in Role : child[m][r].pc # "gone" =>
    LET c == child[m][r]
    IN  /\ c.page = m
        /\ key[c.mail_ab] = AB_KEY(m) /\ key[c.mail_ba] = BA_KEY(m)
        /\ \A n \in Pid \ {m}, s \in Role : child[n][s].pc # "gone" =>
             LET d == child[n][s]
             IN  /\ c.page # d.page /\ c.mail_ab # d.mail_ab /\ c.mail_ba # d.mail_ba
                 /\ c.mail_ba = d.mail_ab => n = m + 1
=============================================================================
