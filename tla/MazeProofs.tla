----------------------------- MODULE MazeProofs -----------------------------
(***************************************************************************)
(* Proofs about Maze: whatever the number of masters, their pids and the   *)
(* mazes, a child works on the page and the mailboxes of its own game, and *)
(* shares one only with the game of a neighbouring pid.  In a game without *)
(* such neighbours the two children take turns, move as if they moved at   *)
(* once, and B never finishes without A.                                   *)
(*                                                                         *)
(* BaseInv is about all games: which page and mailboxes are whose.  The    *)
(* rest of the invariant follows the turn of each game that is alone,      *)
(* which is with A, in one mailbox, with B, or in the other mailbox, and   *)
(* says what is then in the message on its way.                            *)
(***************************************************************************)
EXTENDS Maze, TLAPS

\* Facts about the constants, where the provers see them.
LEMMA ConstFacts ==
  /\ \A m \in Pid : m \in Nat /\ m > 0
  /\ MaxL \in Nat /\ MaxL > 0 /\ MAX_MBOX \in Nat
  /\ \A m \in Pid : argv[m] \subseteq Int \X Int \X Int
<1>1. /\ \A m \in Pid : m \in Nat /\ m # 0
      /\ MaxL \in Nat /\ MaxL # 0 /\ MAX_MBOX \in Nat
      /\ argv \in [Pid -> SUBSET (Int \X Int \X Int)]
  BY MazeAssumption
<1>2. \A m \in Pid : argv[m] \subseteq Int \X Int \X Int
  BY <1>1, Zenon
<1>3. (\A m \in Pid : m > 0) /\ MaxL > 0
  BY <1>1
<1> QED
  BY <1>1, <1>2, <1>3, Zenon

\* The keys and ids of every game survive the way through text if they are
\* among the numbers that Ulib has tried.
LEMMA SmallNames ==
  ASSUME \A m \in Pid : 10 + m <= Largest, MAX_MBOX <= Largest + 1
  PROVE  \A x \in Box \cup {SHM_KEY(m) : m \in Pid} : atoi(itoa10(x)) = x
<1>1. Largest \in Nat
  BY DEF Largest
<1> USE <1>1
<1>2. \A m \in Pid : SHM_KEY(m) \in 0 .. Largest
  BY ConstFacts DEF SHM_KEY
<1>3. \A b \in Box : b \in 0 .. Largest
  BY ConstFacts DEF Box
<1> QED
  BY <1>2, <1>3, RoundTrip

-----------------------------------------------------------------------------
(* The inductive invariant. *)

Id == -1 .. (MAX_MBOX - 1)
Cells == 0 .. MaxL
Loc == end .. (MaxL - 1)

Page == [L : Cells, startA : Cells, startB : Cells, done : [Role -> BOOLEAN]]
MasterRec == [pc : {"init", "create_ab", "create_ba", "fork", "wait", "close_ab", "close_ba", "exit"},
              mail_ab : Id, mail_ba : Id, verdict : SUBSET Role]
ChildRec == [pc : {"gone", "send", "recv"}, pos : Loc, got : Loc, page : Pid \cup {0},
             mail_ab : Id, mail_ba : Id]

TypeInv ==
  /\ g \in [Pid -> Page]
  /\ master \in [Pid -> MasterRec]
  /\ child \in [Pid -> [Role -> ChildRec]]
  /\ round \in [Pid -> [Role -> Nat]]
  /\ key \in [Box -> Int]
  /\ opened \in SUBSET Box /\ closed \in SUBSET opened
  /\ queue \in [Box -> Seq(Loc)]

\* The mailboxes of master M, whose pid is m, when K and O are key and opened.
Keys(m, M, K, O) ==
  /\ M.pc \in {"init", "create_ab"} => M.mail_ab = -1
  /\ M.pc \in {"init", "create_ab", "create_ba"} => M.mail_ba = -1
  /\ M.mail_ab # -1 => M.mail_ab \in O /\ K[M.mail_ab] = AB_KEY(m)
  /\ M.mail_ba # -1 => M.mail_ba \in O /\ K[M.mail_ba] = BA_KEY(m)
  /\ M.pc \in {"wait", "close_ab", "close_ba"} => M.mail_ab # -1 /\ M.mail_ba # -1

KeysOf(m) == Keys(m, master[m], key, opened)

\* The page and the children C of master M.
Seats(m, G, M, C) ==
  /\ M.pc # "wait" => C["A"].pc = "gone" /\ C["B"].pc = "gone"
  /\ M.pc \in {"create_ab", "create_ba", "fork"} =>
       G.startA \in 0 .. (G.L - 1) /\ G.startB \in 0 .. (G.L - 1)
  /\ \A r \in Role : C[r].pc # "gone" =>
       /\ C[r].page = m /\ C[r].mail_ab = M.mail_ab /\ C[r].mail_ba = M.mail_ba
       /\ C[r].pos # end

SeatsOf(m) == Seats(m, g[m], master[m], child[m])

\* Every mailbox is some master's.
Owners == \A b \in opened : \E m \in Pid : b \in {master[m].mail_ab, master[m].mail_ba}
NewEmpty == \A b \in Box \ opened : queue[b] = <<>>

BaseInv ==
  /\ TypeInv
  /\ \A m \in Pid : KeysOf(m)
  /\ \A m \in Pid : SeatsOf(m)
  /\ Owners /\ NewEmpty

\* master M has its mailboxes open, C being closed, until it closes them.
Open(M, C) ==
  /\ M.pc \notin {"close_ba", "exit"} => M.mail_ab \notin C
  /\ M.pc # "exit" => M.mail_ba \notin C

OpenOf(m) == Open(master[m], closed)

\* What is in a mailbox, nothing if there is none.
In(b) == IF b \in Box THEN queue[b] ELSE <<>>

\* Position, of a game with page G.
At(G, r, n) ==
  IF n % 2 = 0 THEN 3 * (n \div 2) + (IF r = "A" THEN G.startA ELSE G.startB)
  ELSE 3 * (n \div 2) + (IF r = "A" THEN G.startB + 1 ELSE G.startA + 2)

\* v is a cell of the maze, the place of r's nth move.
Place(G, r, n, v) == v \in 0 .. (G.L - 1) /\ v = At(G, r, n)

\* v, on its way to child r, is its nth place, or the end.
OnWay(G, r, n, v) == v = end \/ Place(G, r, n, v)

\* Before the children start.
Fresh(G, M, R, ab, ba) ==
  M.pc \in {"init", "create_ab", "create_ba", "fork"} =>
    /\ R["A"] = 0 /\ R["B"] = 0 /\ ~G.done["A"] /\ ~G.done["B"]
    /\ ab = <<>> /\ ba = <<>>

\* At most one of the two has the turn, or one message is on its way.
Turn(C, ab, ba) ==
  /\ Len(ab) <= 1 /\ Len(ba) <= 1
  /\ C["A"].pc = "send" => ab = <<>> /\ C["B"].pc # "send" /\ ba = <<>>
  /\ ab # <<>> => C["B"].pc # "send" /\ ba = <<>>
  /\ C["B"].pc = "send" => ba = <<>>

\* Whose turn it is tells how far both are and what the message says.
Says(G, C, R, ab, ba) ==
  /\ C["A"].pc = "send" \/ C["B"].pc = "send" \/ ab # <<>> => R["A"] = R["B"]
  /\ ba # <<>> => R["B"] = R["A"] + 1
  /\ ab # <<>> => OnWay(G, "B", R["B"] + 1, Head(ab)) /\ (Head(ab) = end => G.done["A"])
  /\ C["B"].pc = "send" => OnWay(G, "B", R["B"] + 1, C["B"].got) /\ (C["B"].got = end => G.done["A"])
  /\ ba # <<>> => OnWay(G, "A", R["A"] + 1, Head(ba))
  /\ ab # <<>> \/ C["B"].pc = "send" \/ ba # <<>> => G.done["A"] \/ C["A"].pc = "recv"

\* B is done only if A is, or is about to be told.
BehindA(G, C, ba) ==
  G.done["B"] => G.done["A"] \/ (C["A"].pc = "recv" /\ ba # <<>> /\ Head(ba) = end)

Game(G, M, C, R, ab, ba) ==
  /\ \A r \in Role : C[r].pc # "gone" => Place(G, r, R[r], C[r].pos)
  /\ Fresh(G, M, R, ab, ba)
  /\ Turn(C, ab, ba)
  /\ Says(G, C, R, ab, ba)
  /\ BehindA(G, C, ba)
  /\ M.pc \in {"close_ab", "close_ba"} /\ "B" \in M.verdict => "A" \in M.verdict

GameOf(m) ==
  Game(g[m], master[m], child[m], round[m], In(master[m].mail_ab), In(master[m].mail_ba))

IInv == BaseInv /\ \A m \in Pid : Alone(m) => OpenOf(m) /\ GameOf(m)

-----------------------------------------------------------------------------
(* Operators. *)

\* Where one goes next is two, or one, ahead of where the other is now.
LEMMA AtSteps ==
  ASSUME NEW G \in Page, NEW n \in Nat
  PROVE  /\ At(G, "A", n) \in Nat /\ At(G, "B", n) \in Nat
         /\ At(G, "B", n + 1) = At(G, "A", n) + 2
         /\ At(G, "A", n + 1) = At(G, "B", n) + 1
         /\ At(G, "A", 0) = G.startA /\ At(G, "B", 0) = G.startB
<1>1. G.startA \in Nat /\ G.startB \in Nat
  BY ConstFacts DEF Page, Cells
<1> USE <1>1
<1>2. /\ n \div 2 \in Nat /\ n % 2 \in {0, 1} /\ n = 2 * (n \div 2) + (n % 2)
      /\ 0 % 2 = 0 /\ 0 \div 2 = 0
  OBVIOUS
<1> USE <1>2
<1>3. CASE n % 2 = 0
  <2>1. (n + 1) % 2 = 1 /\ (n + 1) \div 2 = n \div 2
    BY <1>3
  <2> QED
    BY <1>3, <2>1 DEF At
<1>4. CASE n % 2 = 1
  <2>1. (n + 1) % 2 = 0 /\ (n + 1) \div 2 = n \div 2 + 1
    BY <1>4
  <2> QED
    BY <1>4, <2>1 DEF At
<1> QED
  BY <1>3, <1>4, Zenon

\* At is Position.
LEMMA AtPosition ==
  ASSUME NEW m \in Pid, NEW r \in Role, NEW n \in Nat, g[m] \in Page
  PROVE  Position(m, r, n) = At(g[m], r, n)
<1>1. g[m].startA \in Nat /\ g[m].startB \in Nat /\ n \div 2 \in Nat
  BY ConstFacts DEF Page, Cells
<1>2. r = "A" \/ r = "B"
  BY Zenon DEF Role
<1> QED
  BY <1>1, <1>2 DEF Position, At

\* Mailboxes that hold one message at most.
LEMMA OneMessage ==
  ASSUME NEW s \in Seq(Loc), Len(s) <= 1, NEW v \in Loc
  PROVE  /\ s # <<>> => Tail(s) = <<>> /\ Head(s) \in Loc
         /\ s = <<>> => /\ Append(s, v) # <<>> /\ Len(Append(s, v)) = 1
                        /\ Head(Append(s, v)) = v
         /\ Len(<<>>) = 0
<1>1. Len(s) \in Nat /\ Len(Append(s, v)) = Len(s) + 1 /\ Append(s, v) \in Seq(Loc)
  OBVIOUS
<1>2. ASSUME s # <<>> PROVE Tail(s) = <<>> /\ Head(s) \in Loc
  <2>1. Tail(s) \in Seq(Loc) /\ Len(Tail(s)) = Len(s) - 1 /\ Len(s) # 0 /\ Head(s) \in Loc
    BY <1>2
  <2> QED
    BY <2>1
<1>3. ASSUME s = <<>> PROVE /\ Append(s, v) # <<>> /\ Len(Append(s, v)) = 1
                            /\ Head(Append(s, v)) = v
  BY <1>1, <1>3
<1> QED
  BY <1>2, <1>3, Zenon

\* A message sent to an empty mailbox is the only one there.
LEMMA FirstMessage ==
  ASSUME NEW q, q = <<>>, NEW v \in Loc, NEW s, s = Append(q, v)
  PROVE  s \in Seq(Loc) /\ s # <<>> /\ Len(s) = 1 /\ Head(s) = v /\ Len(<<>>) = 0
OBVIOUS

\* The place a child sends to the other is a cell of the maze or the end.
LEMMA CellFacts ==
  ASSUME NEW L \in Cells, NEW i \in Nat, NEW k \in {1, 2}
  PROVE  /\ Cell(L, i, k) \in Loc
         /\ Cell(L, i, k) # end => Cell(L, i, k) \in 0 .. (L - 1) /\ Cell(L, i, k) = i + k
BY ConstFacts DEF Cell, Loc, Cells, end

-----------------------------------------------------------------------------
(* Records. *)

\* What the records of a game are made of.
LEMMA RecordFacts ==
  ASSUME TypeInv, NEW m \in Pid
  PROVE  /\ g[m] \in Page /\ master[m] \in MasterRec /\ round[m] \in [Role -> Nat]
         /\ g[m].L \in Nat /\ g[m].startA \in Nat /\ g[m].startB \in Nat
         /\ g[m].done \in [Role -> BOOLEAN]
         /\ master[m].mail_ab \in Id /\ master[m].mail_ba \in Id
         /\ "A" \in Role /\ "B" \in Role
         /\ child[m] \in [Role -> ChildRec] /\ child[m]["A"] \in ChildRec /\ child[m]["B"] \in ChildRec
         /\ round[m]["A"] \in Nat /\ round[m]["B"] \in Nat
         /\ \A b \in Box : queue[b] \in Seq(Loc)
<1>1. /\ g[m] \in Page /\ master[m] \in MasterRec /\ round[m] \in [Role -> Nat]
      /\ "A" \in Role /\ "B" \in Role
      /\ child[m] \in [Role -> ChildRec]
      /\ \A b \in Box : queue[b] \in Seq(Loc)
  BY Zenon DEF TypeInv, Role
<1> USE <1>1
<1>2. child[m]["A"] \in ChildRec /\ child[m]["B"] \in ChildRec
  BY Zenon
<1>3. round[m]["A"] \in Nat /\ round[m]["B"] \in Nat
  BY Zenon
<1>4. g[m].L \in Nat /\ g[m].startA \in Nat /\ g[m].startB \in Nat /\ g[m].done \in [Role -> BOOLEAN]
  BY ConstFacts DEF Page, Cells
<1>5. master[m].mail_ab \in Id /\ master[m].mail_ba \in Id
  BY Zenon DEF MasterRec
<1> QED
  BY <1>2, <1>3, <1>4, <1>5, Zenon

\* A mailbox that exists, and -1, which is none.
LEMMA BoxFacts ==
  /\ -1 \notin Box /\ -1 \in Id /\ Box \subseteq Id
  /\ \A b \in Id : b # -1 <=> b \in Box
  /\ \A b \in Id : b >= 0 <=> b \in Box
BY ConstFacts DEF Box, Id

-----------------------------------------------------------------------------
(* What a step of one game leaves alone. *)

\* A step of the game of m: the records of the other games, and the mailboxes
\* that are not of m, stay as they are.
Frame(m) ==
  /\ \A n \in Pid \ {m} : /\ g'[n] = g[n] /\ master'[n] = master[n]
                           /\ child'[n] = child[n] /\ round'[n] = round[n]
  /\ \A b \in opened \ {master[m].mail_ab, master[m].mail_ba} :
       queue'[b] = queue[b] /\ (b \in closed' <=> b \in closed)

\* mbox_create has one box per key, and the keys of a master that is alone are
\* nobody else's.
LEMMA DistinctBoxes ==
  ASSUME BaseInv, NEW m \in Pid, NEW n \in Pid
  PROVE  /\ Alone(m) /\ m # n =>
              /\ master[m].mail_ab # -1 =>
                   master[m].mail_ab \in opened \ {master[n].mail_ab, master[n].mail_ba}
              /\ master[m].mail_ba # -1 =>
                   master[m].mail_ba \in opened \ {master[n].mail_ab, master[n].mail_ba}
         /\ master[m].mail_ab # -1 => master[m].mail_ab # master[m].mail_ba
<1>1. KeysOf(m) /\ KeysOf(n)
  BY Zenon DEF BaseInv
<1>2. m \in Nat /\ n \in Nat /\ (Alone(m) => m # n + 1 /\ n # m + 1)
  BY ConstFacts DEF Alone
<1>3. /\ Alone(m) /\ m # n => /\ AB_KEY(m) # AB_KEY(n) /\ BA_KEY(m) # BA_KEY(n)
                               /\ AB_KEY(m) # BA_KEY(n) /\ AB_KEY(n) # BA_KEY(m)
      /\ AB_KEY(m) # BA_KEY(m)
  BY <1>2 DEF AB_KEY, BA_KEY
<1> QED
  BY <1>1, <1>3, Zenon DEF KeysOf, Keys

\* A step of the game of m keeps the games of all other masters that are alone.
LEMMA OtherGame ==
  ASSUME BaseInv, BaseInv', NEW m \in Pid, Frame(m),
         NEW n \in Pid \ {m}, Alone(n), OpenOf(n), GameOf(n)
  PROVE  OpenOf(n)' /\ GameOf(n)'
<1>1. /\ g'[n] = g[n] /\ master'[n] = master[n] /\ child'[n] = child[n] /\ round'[n] = round[n]
      /\ master[n].mail_ab \in Id /\ master[n].mail_ba \in Id
  BY RecordFacts, Zenon DEF Frame, BaseInv
<1> USE <1>1
<1>2. -1 \notin Box /\ -1 \notin closed'
  BY BoxFacts, Zenon DEF BaseInv, TypeInv
<1>3. ASSUME NEW b \in {master[n].mail_ab, master[n].mail_ba}
      PROVE  In(b)' = In(b) /\ (b \in closed' => b \in closed)
  <2>1. CASE b = -1
    BY <1>2, <2>1 DEF In
  <2>2. CASE b # -1
    <3>1. b \in opened \ {master[m].mail_ab, master[m].mail_ba}
      BY <1>3, <2>2, DistinctBoxes, Zenon
    <3>2. queue'[b] = queue[b] /\ (b \in closed' <=> b \in closed)
      BY <3>1, Zenon DEF Frame
    <3> QED
      BY <3>2 DEF In
  <2> QED
    BY <2>1, <2>2, Zenon
<1>4. OpenOf(n)'
  BY <1>3, Zenon DEF OpenOf, Open
<1>5. In(master[n].mail_ab)' = In(master[n].mail_ab) /\ In(master[n].mail_ba)' = In(master[n].mail_ba)
  BY <1>3, Zenon
<1> QED
  BY <1>4, <1>5, Zenon DEF GameOf

\* A step of the game of m keeps BaseInv if it keeps m's part of it.
LEMMA OneGame ==
  ASSUME BaseInv, NEW m \in Pid, TypeInv', Frame(m),
         \A b \in opened : key'[b] = key[b],
         opened \subseteq opened',
         \A b \in opened' \ opened : b \in {master'[m].mail_ab, master'[m].mail_ba},
         master[m].mail_ab # -1 => master'[m].mail_ab = master[m].mail_ab,
         master[m].mail_ba # -1 => master'[m].mail_ba = master[m].mail_ba,
         \A b \in Box \ opened' : queue'[b] = queue[b],
         KeysOf(m)', SeatsOf(m)'
  PROVE  BaseInv'
<1>1. \A n \in Pid \ {m} : /\ g'[n] = g[n] /\ master'[n] = master[n] /\ child'[n] = child[n]
                           /\ KeysOf(n) /\ SeatsOf(n)
  BY Zenon DEF BaseInv, Frame
<1>2. ASSUME NEW n \in Pid \ {m} PROVE KeysOf(n)' /\ SeatsOf(n)'
  <2>1. SeatsOf(n)'
    BY <1>1, Zenon DEF SeatsOf
  <2>2. Keys(n, master[n], key', opened')
    <3>1. Keys(n, master[n], key, opened)
      BY <1>1, Zenon DEF KeysOf
    <3> QED
      BY <3>1, Zenon DEF Keys
  <2>3. KeysOf(n)'
    BY <1>1, <2>2, Zenon DEF KeysOf
  <2> QED
    BY <2>1, <2>3, Zenon
<1>3. Owners'
  <2> SUFFICES ASSUME NEW b \in opened'
               PROVE  \E n \in Pid : b \in {master'[n].mail_ab, master'[n].mail_ba}
    BY Zenon DEF Owners
  <2>1. CASE b \in opened
    <3>1. PICK n \in Pid : b \in {master[n].mail_ab, master[n].mail_ba}
      BY <2>1, Zenon DEF BaseInv, Owners
    <3>2. b # -1
      BY <2>1, BoxFacts, Zenon DEF BaseInv, TypeInv
    <3>3. CASE n = m
      BY <3>1, <3>2, <3>3, Zenon
    <3>4. CASE n # m
      BY <1>1, <3>1, <3>4, Zenon
    <3> QED
      BY <3>3, <3>4, Zenon
  <2> QED
    BY <2>1, Zenon
<1>4. NewEmpty'
  BY ZenonT(30) DEF BaseInv, NewEmpty
<1>5. \A n \in Pid : KeysOf(n)' /\ SeatsOf(n)'
  BY <1>2, Zenon
<1> QED
  BY <1>3, <1>4, <1>5, Zenon DEF BaseInv

\* Before any master runs there are no children and no mailboxes.
LEMMA InitInv == Init => IInv
<1> SUFFICES ASSUME Init PROVE IInv
  BY Zenon
<1>1. TypeInv
  <2>1. g \in [Pid -> Page]
    BY ConstFacts DEF Init, Page, Cells
  <2>2. master \in [Pid -> MasterRec]
    BY BoxFacts, Zenon DEF Init, MasterRec
  <2>3. 0 \in Loc
    BY ConstFacts DEF Loc, end
  <2>4. Gone \in ChildRec
    BY <2>3, BoxFacts, Zenon DEF Gone, ChildRec
  <2>5. child \in [Pid -> [Role -> ChildRec]]
    BY <2>4, Zenon DEF Init
  <2>6. round \in [Pid -> [Role -> Nat]] /\ key \in [Box -> Int]
    BY DEF Init
  <2>7. queue \in [Box -> Seq(Loc)] /\ opened = {} /\ closed = {}
    BY DEF Init, Mail!Init
  <2> QED
    BY <2>1, <2>2, <2>5, <2>6, <2>7, Zenon DEF TypeInv
<1>2. ASSUME NEW m \in Pid PROVE KeysOf(m) /\ SeatsOf(m) /\ OpenOf(m) /\ GameOf(m)
  <2>1. /\ master[m].pc = "init" /\ master[m].mail_ab = -1 /\ master[m].mail_ba = -1
        /\ round[m]["A"] = 0 /\ round[m]["B"] = 0 /\ closed = {}
        /\ ~g[m].done["A"] /\ ~g[m].done["B"]
        /\ child[m]["A"].pc = "gone" /\ child[m]["B"].pc = "gone"
    BY Zenon DEF Init, Role, Gone, Mail!Init
  <2> USE <2>1
  <2>2. KeysOf(m) /\ OpenOf(m)
    BY Zenon DEF KeysOf, Keys, OpenOf, Open
  <2>3. In(master[m].mail_ab) = <<>> /\ In(master[m].mail_ba) = <<>>
    BY BoxFacts, Zenon DEF In
  <2>4. \A r \in Role : child[m][r].pc = "gone"
    BY Zenon DEF Role
  <2>5. SeatsOf(m)
    BY <2>4, Zenon DEF SeatsOf, Seats
  <2> QED
    BY <2>2, <2>3, <2>4, <2>5 DEF GameOf, Game, Fresh, Turn, Says, BehindA
<1>3. Owners /\ NewEmpty
  BY Zenon DEF Init, Mail!Init, Owners, NewEmpty
<1> QED
  BY <1>1, <1>2, <1>3, Zenon DEF IInv, BaseInv

-----------------------------------------------------------------------------
(* master. *)

\* What a step of the game of m has to keep; OtherGame adds the other games.
Keeps(m) == BaseInv' /\ Frame(m) /\ (Alone(m) => OpenOf(m)' /\ GameOf(m)')

\* The part of the invariant that is about the game of m.
LEMMA MineFacts ==
  ASSUME IInv, NEW m \in Pid
  PROVE  /\ BaseInv /\ TypeInv /\ KeysOf(m) /\ SeatsOf(m) /\ closed \subseteq opened /\ opened \subseteq Box
         /\ master[m] \in MasterRec /\ g[m] \in Page /\ m \in Nat
         /\ Alone(m) => OpenOf(m) /\ GameOf(m)
<1>1. BaseInv /\ TypeInv
  BY Zenon DEF IInv, BaseInv
<1>2. master[m] \in MasterRec /\ g[m] \in Page /\ m \in Nat
  BY <1>1, RecordFacts, ConstFacts, Zenon
<1>3. KeysOf(m) /\ SeatsOf(m) /\ closed \subseteq opened /\ opened \subseteq Box
  BY <1>1, Zenon DEF BaseInv, TypeInv
<1> QED
  BY <1>1, <1>2, <1>3, Zenon DEF IInv

\* master goes from one place to another, and the game with it, without a change
\* of the mailboxes, the page or the children.
LEMMA MasterOn ==
  ASSUME IInv, NEW m \in Pid, NEW M \in MasterRec,
         master' = [master EXCEPT ![m] = M],
         M.mail_ab = master[m].mail_ab, M.mail_ba = master[m].mail_ba,
         UNCHANGED <<g, child, round, key, opened, queue>>,
         closed \subseteq closed', closed' \subseteq opened,
         \A b \in closed' \ closed : b \in {M.mail_ab, M.mail_ba},
         Keys(m, M, key, opened), Seats(m, g[m], M, child[m]),
         Alone(m) => /\ Open(M, closed')
                     /\ Game(g[m], M, child[m], round[m], In(M.mail_ab), In(M.mail_ba))
  PROVE  Keeps(m)
<1>1. BaseInv /\ TypeInv
  BY MineFacts, Zenon
<1>2. TypeInv'
  <2>1. master' \in [Pid -> MasterRec]
    BY <1>1, Zenon DEF TypeInv
  <2> QED
    BY <1>1, <2>1, Zenon DEF TypeInv
<1>3. master'[m] = M /\ \A n \in Pid \ {m} : master'[n] = master[n]
  BY <1>1, Zenon DEF TypeInv
<1>4. KeysOf(m)' /\ SeatsOf(m)'
  BY <1>3, Zenon DEF KeysOf, SeatsOf
<1>5. In(M.mail_ab)' = In(M.mail_ab) /\ In(M.mail_ba)' = In(M.mail_ba)
  BY Zenon DEF In
<1>6. Alone(m) => OpenOf(m)' /\ GameOf(m)'
  BY <1>3, <1>5, Zenon DEF GameOf, OpenOf
<1>7. Frame(m)
  BY <1>3, Zenon DEF Frame
<1>8. BaseInv'
  BY <1>1, <1>2, <1>3, <1>4, <1>7, OneGame, Zenon
<1> QED
  BY <1>6, <1>7, <1>8, Zenon DEF Keeps

\* Games that have not begun, or are over.
LEMMA QuietGame ==
  ASSUME IInv, NEW m \in Pid, NEW M \in MasterRec,
         master[m].pc # "wait", M.pc # "wait",
         M.pc \in {"init", "create_ab", "create_ba", "fork"} => M.pc = master[m].pc,
         M.pc \in {"close_ab", "close_ba"} => master[m].pc \in {"close_ab", "close_ba"},
         M.mail_ab = master[m].mail_ab, M.mail_ba = master[m].mail_ba,
         M.verdict = master[m].verdict
  PROVE  /\ Seats(m, g[m], M, child[m])
         /\ Alone(m) => Game(g[m], M, child[m], round[m], In(M.mail_ab), In(M.mail_ba))
<1>1. SeatsOf(m) /\ (Alone(m) => GameOf(m))
  BY MineFacts, Zenon
<1>2. child[m]["A"].pc = "gone" /\ child[m]["B"].pc = "gone"
  BY <1>1, Zenon DEF SeatsOf, Seats
<1>3. \A r \in Role : child[m][r].pc = "gone"
  BY <1>2, Zenon DEF Role
<1>4. Seats(m, g[m], M, child[m])
  BY <1>1, <1>2, <1>3, Zenon DEF SeatsOf, Seats
<1>5. ASSUME Alone(m) PROVE Game(g[m], M, child[m], round[m], In(M.mail_ab), In(M.mail_ba))
  <2>1. GameOf(m)
    BY <1>1, <1>5, Zenon
  <2>2. Fresh(g[m], M, round[m], In(M.mail_ab), In(M.mail_ba))
    BY <2>1, Zenon DEF GameOf, Game, Fresh
  <2>3. M.pc \in {"close_ab", "close_ba"} /\ "B" \in M.verdict => "A" \in M.verdict
    BY <2>1, Zenon DEF GameOf, Game
  <2> QED
    BY <1>3, <2>1, <2>2, <2>3, Zenon DEF GameOf, Game
<1> QED
  BY <1>4, <1>5, Zenon

\* master leaves, without a mailbox or with arguments that are not valid.
LEMMA Leaves ==
  ASSUME IInv, NEW m \in Pid, master[m].pc \in {"init", "fork"},
         Goto(m, "exit"), UNCHANGED <<g, child, round, key, opened, queue, closed>>
  PROVE  Keeps(m)
<1> DEFINE M == [master[m] EXCEPT !.pc = "exit"]
<1>1. master[m] \in MasterRec /\ KeysOf(m) /\ closed \subseteq opened
  BY MineFacts, Zenon
<1>2. /\ M \in MasterRec /\ M.mail_ab = master[m].mail_ab /\ M.mail_ba = master[m].mail_ba
      /\ M.pc = "exit" /\ M.verdict = master[m].verdict
  BY <1>1, Zenon DEF MasterRec
<1>3. master' = [master EXCEPT ![m] = M]
  BY Zenon DEF Goto
<1> HIDE DEF M
<1>4. Keys(m, M, key, opened) /\ Open(M, closed)
  BY <1>1, <1>2, Zenon DEF KeysOf, Keys, Open
<1>5. /\ Seats(m, g[m], M, child[m])
      /\ Alone(m) => Game(g[m], M, child[m], round[m], In(M.mail_ab), In(M.mail_ba))
  BY <1>2, QuietGame, Zenon
<1> QED
  BY <1>1, <1>2, <1>3, <1>4, <1>5, MasterOn, Zenon

\* master gives up for want of a mailbox.
LEMMA give_up_keeps == ASSUME IInv, NEW m \in Pid, give_up(m) PROVE Keeps(m)
<1>1. /\ master[m].pc = "fork" /\ Goto(m, "exit")
      /\ UNCHANGED <<g, child, round, key, opened, queue, closed>>
  BY Zenon DEF give_up, mail
<1> QED
  BY <1>1, Leaves, Zenon

\* master closes a mailbox.
LEMMA mbox_close_keeps ==
  ASSUME IInv, NEW m \in Pid,
         \/ mbox_close(m, "close_ab", master[m].mail_ab, "close_ba")
         \/ mbox_close(m, "close_ba", master[m].mail_ba, "exit")
  PROVE  Keeps(m)
<1>1. master[m] \in MasterRec /\ KeysOf(m) /\ closed \subseteq opened /\ BaseInv /\ (Alone(m) => OpenOf(m))
  BY MineFacts, Zenon
<1> USE <1>1
<1>2. PICK pc \in {"close_ba", "exit"}, id \in {master[m].mail_ab, master[m].mail_ba} :
        /\ mbox_close(m, master[m].pc, id, pc)
        /\ pc = "close_ba" => master[m].pc = "close_ab" /\ id = master[m].mail_ab
        /\ pc = "exit" => master[m].pc = "close_ba" /\ id = master[m].mail_ba
  <2>1. CASE mbox_close(m, "close_ab", master[m].mail_ab, "close_ba")
    BY <2>1, Zenon DEF mbox_close
  <2>2. CASE mbox_close(m, "close_ba", master[m].mail_ba, "exit")
    BY <2>2, Zenon DEF mbox_close
  <2> QED
    BY <2>1, <2>2, Zenon
<1> USE <1>2
<1> DEFINE M == [master[m] EXCEPT !.pc = pc]
<1>3. /\ M \in MasterRec /\ M.mail_ab = master[m].mail_ab /\ M.mail_ba = master[m].mail_ba
      /\ M.pc = pc /\ M.verdict = master[m].verdict
  BY Zenon DEF MasterRec
<1> USE <1>3
<1>4. /\ master' = [master EXCEPT ![m] = M] /\ UNCHANGED <<g, child, round, key, opened, queue>>
      /\ closed' = closed \cup {id} /\ id \in opened
  BY Zenon DEF mbox_close, Goto, mail, Mail!Close
<1> USE <1>4
<1> HIDE DEF M
<1>5. Keys(m, M, key, opened)
  BY Zenon DEF KeysOf, Keys
<1>6. Alone(m) => Open(M, closed')
  <2>1. master[m].mail_ab # -1 => master[m].mail_ab # master[m].mail_ba
    BY DistinctBoxes, Zenon
  <2> QED
    BY <2>1, Zenon DEF KeysOf, Keys, OpenOf, Open
<1>7. /\ Seats(m, g[m], M, child[m])
      /\ Alone(m) => Game(g[m], M, child[m], round[m], In(M.mail_ab), In(M.mail_ba))
  BY QuietGame, Zenon
<1> QED
  BY <1>5, <1>6, <1>7, MasterOn, Zenon

\* master has waited for both children.
LEMMA wait_keeps == ASSUME IInv, NEW m \in Pid, wait(m) PROVE Keeps(m)
<1> DEFINE V == {r \in Role : g[m].done[r]}
           M == [master[m] EXCEPT !.pc = "close_ab", !.verdict = V]
<1>1. /\ master[m] \in MasterRec /\ KeysOf(m) /\ closed \subseteq opened /\ SeatsOf(m)
      /\ Alone(m) => OpenOf(m) /\ GameOf(m)
  BY MineFacts, Zenon
<1> USE <1>1
<1>2. /\ M \in MasterRec /\ M.mail_ab = master[m].mail_ab /\ M.mail_ba = master[m].mail_ba
      /\ M.pc = "close_ab" /\ M.verdict = V
  BY Zenon DEF MasterRec
<1> USE <1>2
<1>3. /\ master' = [master EXCEPT ![m] = M] /\ UNCHANGED <<g, child, round, key, opened, queue, closed>>
      /\ master[m].pc = "wait" /\ child[m]["A"].pc = "gone" /\ child[m]["B"].pc = "gone"
  BY Zenon DEF wait, mail, Role
<1> USE <1>3
<1>4. Alone(m) /\ "B" \in V => "A" \in V
  <2>1. Alone(m) /\ g[m].done["B"] => g[m].done["A"]
    BY Zenon DEF GameOf, Game, BehindA
  <2> QED
    BY <2>1, Zenon DEF Role
<1> HIDE DEF M, V
<1>5. Keys(m, M, key, opened) /\ (Alone(m) => Open(M, closed))
  BY Zenon DEF KeysOf, Keys, OpenOf, Open
<1>6. \A r \in Role : child[m][r].pc = "gone"
  BY Zenon DEF Role
<1>7. Seats(m, g[m], M, child[m])
  BY <1>6, Zenon DEF Seats
<1>8. ASSUME Alone(m) PROVE Game(g[m], M, child[m], round[m], In(M.mail_ab), In(M.mail_ba))
  <2>1. Fresh(g[m], M, round[m], In(M.mail_ab), In(M.mail_ba))
    BY Zenon DEF Fresh
  <2> QED
    BY <1>4, <1>6, <1>8, <2>1, Zenon DEF GameOf, Game
<1> QED
  BY <1>5, <1>7, <1>8, MasterOn, Zenon

\* master takes the arguments.
LEMMA init_game_keeps == ASSUME IInv, NEW m \in Pid, init_game(m) PROVE Keeps(m)
<1>1. /\ master[m] \in MasterRec /\ KeysOf(m) /\ SeatsOf(m) /\ TypeInv /\ BaseInv /\ g[m] \in Page
      /\ Alone(m) => OpenOf(m) /\ GameOf(m)
  BY MineFacts, Zenon
<1>2. master[m].pc = "init" /\ UNCHANGED <<child, round, key, opened, queue, closed>>
  BY Zenon DEF init_game, mail
<1>3. CASE Goto(m, "exit") /\ UNCHANGED g
  BY <1>2, <1>3, Leaves, Zenon
<1>4. ASSUME NEW L \in 1 .. MaxL, NEW a \in 0 .. (L - 1), NEW b \in 0 .. (L - 1),
             g' = [g EXCEPT ![m].L = L, ![m].startA = a, ![m].startB = b],
             Goto(m, "create_ab")
      PROVE  Keeps(m)
  <2> USE <1>1, <1>2
  <2> DEFINE G == [g[m] EXCEPT !.L = L, !.startA = a, !.startB = b]
             M == [master[m] EXCEPT !.pc = "create_ab"]
  <2>1. /\ M \in MasterRec /\ M.mail_ab = master[m].mail_ab /\ M.mail_ba = master[m].mail_ba
        /\ M.pc = "create_ab"
    BY Zenon DEF MasterRec
  <2> USE <2>1
  <2>2. a \in Cells /\ b \in Cells /\ L \in Cells
    BY ConstFacts DEF Cells
  <2>3. G \in Page /\ G.L = L /\ G.startA = a /\ G.startB = b /\ G.done = g[m].done
    BY <2>2, Zenon DEF Page
  <2> USE <2>3
  <2>4. /\ g' \in [Pid -> Page] /\ g'[m] = G /\ \A n \in Pid \ {m} : g'[n] = g[n]
        /\ master' \in [Pid -> MasterRec] /\ master'[m] = M
        /\ \A n \in Pid \ {m} : master'[n] = master[n]
    <3>1. g' = [g EXCEPT ![m] = G] /\ master' = [master EXCEPT ![m] = M]
      BY <1>4, ZenonT(30) DEF Goto
    <3> HIDE DEF G, M
    <3> QED
      BY <3>1, Zenon DEF TypeInv
  <2> USE <2>4
  <2> HIDE DEF G, M
  <2>5. TypeInv' /\ Frame(m)
    BY Zenon DEF TypeInv, Frame
  <2>6. child[m]["A"].pc = "gone" /\ child[m]["B"].pc = "gone"
    BY Zenon DEF SeatsOf, Seats
  <2>7. \A r \in Role : child[m][r].pc = "gone"
    BY <2>6, Zenon DEF Role
  <2>8. KeysOf(m)'
    BY Zenon DEF KeysOf, Keys
  <2>9. SeatsOf(m)'
    <3>1. Seats(m, G, M, child[m])
      BY <2>6, <2>7, Zenon DEF Seats
    <3> QED
      BY <3>1, Zenon DEF SeatsOf
  <2>10. BaseInv'
    BY <2>5, <2>8, <2>9, OneGame, Zenon
  <2>11. ASSUME Alone(m) PROVE OpenOf(m)' /\ GameOf(m)'
    <3>1. OpenOf(m)'
      BY <2>11, Zenon DEF OpenOf, Open
    <3>2. Game(G, M, child[m], round[m], In(master[m].mail_ab), In(master[m].mail_ba))
      BY <2>6, <2>7, <2>11, Zenon DEF GameOf, Game, Fresh, Turn, Says, BehindA
    <3> QED
      BY <3>1, <3>2, Zenon DEF GameOf, In
  <2> QED
    BY <2>5, <2>10, <2>11, Zenon DEF Keeps
<1>5. PICK args \in argv[m] :
        LET valid == 1 <= args[1] /\ args[1] <= MaxL /\ {args[2], args[3]} \subseteq 0 .. (args[1] - 1)
        IN  \/ /\ valid
               /\ g' = [g EXCEPT ![m].L = args[1], ![m].startA = args[2], ![m].startB = args[3]]
               /\ Goto(m, "create_ab")
            \/ /\ ~valid
               /\ Goto(m, "exit")
               /\ UNCHANGED g
  BY Zenon DEF init_game
<1>6. args[1] \in Int
  <2>1. args \in Int \X Int \X Int
    BY ConstFacts, Zenon
  <2> QED
    BY <2>1
<1>7. CASE 1 <= args[1] /\ args[1] <= MaxL /\ {args[2], args[3]} \subseteq 0 .. (args[1] - 1)
  <2>1. args[1] \in 1 .. MaxL /\ args[2] \in 0 .. (args[1] - 1) /\ args[3] \in 0 .. (args[1] - 1)
    BY <1>6, <1>7, ConstFacts
  <2> QED
    BY <1>3, <1>4, <1>5, <2>1, Zenon
<1> QED
  BY <1>3, <1>5, <1>7, Zenon

\* The keys of a master that is alone are nobody else's.
LEMMA NoSuchKey ==
  ASSUME BaseInv, NEW m \in Pid, Alone(m)
  PROVE  /\ master[m].mail_ab = -1 => \A b \in opened : key[b] # AB_KEY(m)
         /\ master[m].mail_ba = -1 => \A b \in opened : key[b] # BA_KEY(m)
<1> SUFFICES ASSUME NEW b \in opened
             PROVE  /\ master[m].mail_ab = -1 => key[b] # AB_KEY(m)
                    /\ master[m].mail_ba = -1 => key[b] # BA_KEY(m)
  BY Zenon
<1>1. PICK n \in Pid : b \in {master[n].mail_ab, master[n].mail_ba}
  BY Zenon DEF BaseInv, Owners
<1>2. b # -1
  BY BoxFacts, Zenon DEF BaseInv, TypeInv
<1>3. m \in Nat /\ n \in Nat /\ m # n + 1 /\ n # m + 1
  BY ConstFacts DEF Alone
<1>4. KeysOf(n)
  BY Zenon DEF BaseInv
<1> QED
  BY <1>1, <1>2, <1>3, <1>4 DEF KeysOf, Keys, AB_KEY, BA_KEY

\* mbox_create finds the mailbox with the key, makes a new one, or there is none
\* left.
LEMMA CreatedFacts ==
  ASSUME TypeInv, NEW k \in Int, NEW id, Created(k, id)
  PROVE  /\ UNCHANGED <<queue, closed>> /\ opened \subseteq opened'
         /\ key' \in [Box -> Int] /\ opened' \in SUBSET Box
         /\ \A b \in opened : key'[b] = key[b]
         /\ \A b \in opened' \ opened : b = id
         /\ id # -1 => id \in opened' /\ key'[id] = k
         /\ id \in opened => key[id] = k
<1>1. opened \subseteq Box /\ -1 \notin Box /\ key \in [Box -> Int]
  BY BoxFacts, Zenon DEF TypeInv
<1> USE <1>1
<1>2. CASE id \in opened /\ key[id] = k /\ UNCHANGED mail
  BY <1>2, Zenon DEF mail
<1>3. CASE id = -1 /\ UNCHANGED mail
  BY <1>3, Zenon DEF mail
<1>4. CASE /\ id \in Box \ opened /\ opened' = opened \cup {id}
           /\ key' = [key EXCEPT ![id] = k] /\ UNCHANGED <<queue, closed>>
  BY <1>4, ZenonT(30)
<1> QED
  BY <1>2, <1>3, <1>4, Zenon DEF Created, Mail!Open

\* A step of master in which it gets a mailbox, or not.
LEMMA GetsBox ==
  ASSUME IInv, NEW m \in Pid, NEW M \in MasterRec, NEW k \in Int, NEW id \in Id,
         Created(k, id),
         UNCHANGED <<g, child, round>>, master' = [master EXCEPT ![m] = M],
         \/ /\ master[m].pc = "create_ab" /\ M.pc = "create_ba" /\ k = AB_KEY(m)
            /\ M.mail_ab = id /\ M.mail_ba = -1
         \/ /\ master[m].pc = "create_ba" /\ M.pc = "fork" /\ k = BA_KEY(m)
            /\ M.mail_ba = id /\ M.mail_ab = master[m].mail_ab
  PROVE  Keeps(m)
<1>1. /\ BaseInv /\ TypeInv /\ KeysOf(m) /\ SeatsOf(m) /\ closed \subseteq opened
      /\ Alone(m) => OpenOf(m) /\ GameOf(m)
  BY MineFacts, Zenon
<1> USE <1>1
<1>2. /\ UNCHANGED <<queue, closed>> /\ opened \subseteq opened'
      /\ key' \in [Box -> Int] /\ opened' \in SUBSET Box
      /\ \A b \in opened : key'[b] = key[b]
      /\ \A b \in opened' \ opened : b = id
      /\ id # -1 => id \in opened' /\ key'[id] = k
      /\ id \in opened => key[id] = k
  BY CreatedFacts, Zenon
<1> USE <1>2
<1>3. master' \in [Pid -> MasterRec] /\ master'[m] = M /\ \A n \in Pid \ {m} : master'[n] = master[n]
  BY Zenon DEF TypeInv
<1> USE <1>3
<1>4. TypeInv' /\ Frame(m)
  BY Zenon DEF TypeInv, Frame
<1>5. KeysOf(m)'
  <2>1. Keys(m, M, key', opened')
    BY Zenon DEF KeysOf, Keys
  <2> QED
    BY <2>1, Zenon DEF KeysOf
<1>6. child[m]["A"].pc = "gone" /\ child[m]["B"].pc = "gone"
  BY Zenon DEF SeatsOf, Seats
<1> USE <1>6
<1>7. \A r \in Role : child[m][r].pc = "gone"
  BY Zenon DEF Role
<1> USE <1>7
<1>8. SeatsOf(m)'
  <2>1. Seats(m, g[m], M, child[m])
    BY Zenon DEF SeatsOf, Seats
  <2> QED
    BY <2>1, Zenon DEF SeatsOf
<1>9. BaseInv'
  <2>1. /\ master[m].mail_ab # -1 => M.mail_ab = master[m].mail_ab
        /\ master[m].mail_ba # -1 => M.mail_ba = master[m].mail_ba
        /\ id \in {M.mail_ab, M.mail_ba}
    BY Zenon DEF KeysOf, Keys
  <2> QED
    BY <1>4, <1>5, <1>8, <2>1, OneGame, ZenonT(30)
<1>10. ASSUME Alone(m) PROVE OpenOf(m)' /\ GameOf(m)'
  <2>1. id \notin opened
    <3>1. \/ k = AB_KEY(m) /\ master[m].mail_ab = -1
          \/ k = BA_KEY(m) /\ master[m].mail_ba = -1
      BY Zenon DEF KeysOf, Keys
    <3>2. \A b \in opened : key[b] # k
      BY <1>10, <3>1, NoSuchKey
    <3> QED
      BY <3>2, Zenon
  <2>2. id \notin closed
    BY <2>1, Zenon
  <2>3. OpenOf(m)'
    <3>1. Open(M, closed)
      BY <1>10, <2>2, BoxFacts, Zenon DEF OpenOf, Open, TypeInv
    <3> QED
      BY <3>1, Zenon DEF OpenOf
  <2>4. In(id) = <<>> /\ In(-1) = <<>>
    BY <2>1, BoxFacts, Zenon DEF In, NewEmpty, BaseInv
  <2>5. In(M.mail_ab) = <<>> /\ In(M.mail_ba) = <<>>
    BY <1>10, <2>4, Zenon DEF GameOf, Game, Fresh
  <2>6. Game(g[m], M, child[m], round[m], In(M.mail_ab), In(M.mail_ba))
    BY <1>10, <2>5, Zenon DEF GameOf, Game, Fresh, Turn, Says, BehindA
  <2>7. GameOf(m)'
    BY <2>6, Zenon DEF GameOf, In
  <2> QED
    BY <2>3, <2>7, Zenon
<1> QED
  BY <1>4, <1>9, <1>10, Zenon DEF Keeps

\* master asks for the mailbox from A to B.
LEMMA create_ab_keeps == ASSUME IInv, NEW m \in Pid, create_ab(m) PROVE Keeps(m)
<1>1. PICK id \in Id :
        /\ Created(AB_KEY(m), id)
        /\ master' = [master EXCEPT ![m].pc = "create_ba", ![m].mail_ab = id]
  BY Zenon DEF create_ab, Id
<1> USE <1>1
<1>2. master[m].pc = "create_ab" /\ UNCHANGED <<g, child, round>>
  BY Zenon DEF create_ab
<1> USE <1>2
<1>3. master[m] \in MasterRec /\ KeysOf(m) /\ m \in Nat
  BY MineFacts, Zenon
<1> USE <1>3
<1> DEFINE M == [master[m] EXCEPT !.pc = "create_ba", !.mail_ab = id]
<1>4. M \in MasterRec /\ M.pc = "create_ba" /\ M.mail_ab = id /\ M.mail_ba = master[m].mail_ba
  BY Zenon DEF MasterRec
<1> USE <1>4
<1>5. master' = [master EXCEPT ![m] = M]
  BY ZenonT(30)
<1>6. AB_KEY(m) \in Int
  BY DEF AB_KEY
<1> HIDE DEF M
<1>7. M.mail_ba = -1
  BY Zenon DEF KeysOf, Keys
<1> QED
  BY <1>5, <1>6, <1>7, GetsBox, ZenonT(30)

\* master asks for the mailbox from B to A.
LEMMA create_ba_keeps == ASSUME IInv, NEW m \in Pid, create_ba(m) PROVE Keeps(m)
<1>1. PICK id \in Id :
        /\ Created(BA_KEY(m), id)
        /\ master' = [master EXCEPT ![m].pc = "fork", ![m].mail_ba = id]
  BY Zenon DEF create_ba, Id
<1> USE <1>1
<1>2. master[m].pc = "create_ba" /\ UNCHANGED <<g, child, round>>
  BY Zenon DEF create_ba
<1> USE <1>2
<1>3. master[m] \in MasterRec /\ m \in Nat
  BY MineFacts, Zenon
<1> USE <1>3
<1> DEFINE M == [master[m] EXCEPT !.pc = "fork", !.mail_ba = id]
<1>4. M \in MasterRec /\ M.pc = "fork" /\ M.mail_ba = id /\ M.mail_ab = master[m].mail_ab
  BY Zenon DEF MasterRec
<1>5. master' = [master EXCEPT ![m] = M]
  BY Zenon
<1>6. BA_KEY(m) \in Int
  BY DEF BA_KEY
<1> HIDE DEF M
<1> QED
  BY <1>4, <1>5, <1>6, GetsBox, ZenonT(30)

\* A child that starts finds the page and the mailboxes of its game.
LEMMA StartedFacts ==
  ASSUME NEW m \in Pid, NEW r \in Role, master[m].pc = "fork",
         master[m].mail_ab \in Box, master[m].mail_ba \in Box
  PROVE  Started(r, Args(m)) =
           [pc |-> FirstStep[r], got |-> 0, page |-> m,
            pos |-> IF r = "A" THEN g[m].startA ELSE g[m].startB,
            mail_ab |-> master[m].mail_ab, mail_ba |-> master[m].mail_ba]
<1>1. /\ atoi(itoa10(SHM_KEY(m))) = SHM_KEY(m)
      /\ atoi(itoa10(master[m].mail_ab)) = master[m].mail_ab
      /\ atoi(itoa10(master[m].mail_ba)) = master[m].mail_ba
  BY NamesInText, Zenon
<1>2. PageOf(SHM_KEY(m)) = {m}
  <2>1. \A n \in Pid : SHM_KEY(n) = SHM_KEY(m) => n = m
    BY ConstFacts DEF SHM_KEY
  <2> QED
    BY <2>1, Zenon DEF PageOf
<1>3. /\ Args(m).shm = itoa10(SHM_KEY(m)) /\ Args(m).ab = itoa10(master[m].mail_ab)
      /\ Args(m).ba = itoa10(master[m].mail_ba)
  BY Zenon DEF Args
<1>4. (CHOOSE n \in {m} : TRUE) = m
  BY Zenon
<1> QED
  BY <1>1, <1>2, <1>3, <1>4, Zenon DEF Started

\* The children start.
LEMMA fork_keeps == ASSUME IInv, NEW m \in Pid, fork(m) PROVE Keeps(m)
<1>1. PICK players \in SUBSET Role :
        child' = [child EXCEPT ![m] =
                    [r \in Role |-> IF r \in players THEN Started(r, Args(m)) ELSE Gone]]
  BY Zenon DEF fork
<1>2. /\ master[m].pc = "fork" /\ master[m].mail_ab >= 0 /\ master[m].mail_ba >= 0
      /\ UNCHANGED <<g, round, key, opened, queue, closed>>
      /\ master' = [master EXCEPT ![m].pc = "wait"]
  BY Zenon DEF fork, Goto, mail
<1> USE <1>2
<1>3. BaseInv /\ TypeInv /\ KeysOf(m) /\ SeatsOf(m) /\ (Alone(m) => OpenOf(m) /\ GameOf(m))
  BY MineFacts, Zenon
<1> USE <1>3
<1>4. /\ master[m] \in MasterRec /\ g[m] \in Page /\ master[m].mail_ab \in Box /\ master[m].mail_ba \in Box
      /\ master[m].mail_ab \in Id /\ master[m].mail_ba \in Id
      /\ g[m].startA \in Nat /\ g[m].startB \in Nat /\ g[m].L \in Nat /\ g[m].L <= MaxL
  <2>1. g[m].L <= MaxL
    BY RecordFacts, ConstFacts DEF Page, Cells
  <2> QED
    BY <2>1, RecordFacts, BoxFacts, Zenon
<1> USE <1>4
<1>5. g[m].startA \in 0 .. (g[m].L - 1) /\ g[m].startB \in 0 .. (g[m].L - 1)
  BY Zenon DEF SeatsOf, Seats
<1> USE <1>5
<1> DEFINE M == [master[m] EXCEPT !.pc = "wait"]
           C == [r \in Role |-> IF r \in players THEN Started(r, Args(m)) ELSE Gone]
<1>6. /\ M \in MasterRec /\ M.pc = "wait" /\ M.mail_ab = master[m].mail_ab
      /\ M.mail_ba = master[m].mail_ba
  BY Zenon DEF MasterRec
<1> USE <1>6
<1>7. /\ master' \in [Pid -> MasterRec] /\ master'[m] = M
      /\ \A n \in Pid \ {m} : master'[n] = master[n]
  BY Zenon DEF TypeInv
<1> USE <1>7
<1>8. \A r \in Role :
        \/ C[r] = Gone
        \/ C[r] = [pc |-> FirstStep[r], got |-> 0, page |-> m,
                   pos |-> IF r = "A" THEN g[m].startA ELSE g[m].startB,
                   mail_ab |-> master[m].mail_ab, mail_ba |-> master[m].mail_ba]
  BY StartedFacts, ZenonT(30)
<1>9. /\ C["A"].pc \in {"gone", "send"} /\ C["B"].pc \in {"gone", "recv"}
      /\ C \in [Role -> ChildRec]
      /\ \A r \in Role : C[r].pc # "gone" =>
           /\ C[r].page = m /\ C[r].mail_ab = M.mail_ab /\ C[r].mail_ba = M.mail_ba
           /\ C[r].pos # end /\ Place(g[m], r, 0, C[r].pos)
  <2> HIDE DEF C, M
  <2>1. 0 \in Loc /\ g[m].startA \in Loc /\ g[m].startB \in Loc /\ g[m].startA # end /\ g[m].startB # end
    BY ConstFacts DEF Loc, end
  <2> USE <2>1
  <2>2. FirstStep["A"] = "send" /\ FirstStep["B"] = "recv"
    BY Zenon DEF FirstStep
  <2> USE <2>2
  <2>3. Place(g[m], "A", 0, g[m].startA) /\ Place(g[m], "B", 0, g[m].startB)
    BY AtSteps, Zenon DEF Place
  <2>4. Gone.pc = "gone" /\ Gone \in ChildRec
    BY BoxFacts, Zenon DEF Gone, ChildRec
  <2>5. ASSUME NEW r \in Role
        PROVE  /\ C[r] \in ChildRec /\ C[r].pc \in {"gone", FirstStep[r]}
               /\ C[r].pc # "gone" =>
                    /\ C[r].page = m /\ C[r].mail_ab = M.mail_ab /\ C[r].mail_ba = M.mail_ba
                    /\ C[r].pos # end /\ Place(g[m], r, 0, C[r].pos)
    <3>1. CASE C[r] = Gone
      BY <2>4, <3>1, Zenon
    <3>2. CASE C[r] # Gone
      <4>1. C[r] = [pc |-> FirstStep[r], got |-> 0, page |-> m,
                    pos |-> IF r = "A" THEN g[m].startA ELSE g[m].startB,
                    mail_ab |-> master[m].mail_ab, mail_ba |-> master[m].mail_ba]
        BY <1>8, <3>2, Zenon
      <4> USE <4>1
      <4>2. r = "A" \/ r = "B"
        BY Zenon DEF Role
      <4> USE <4>2
      <4>3. C[r] \in ChildRec
        BY DEF ChildRec
      <4> QED
        BY <2>3, <4>3
    <3> QED
      BY <3>1, <3>2, Zenon
  <2>6. C \in [Role -> ChildRec]
    BY <2>5, Zenon DEF C
  <2> QED
    BY <2>5, <2>6, Zenon DEF Role
<1> USE <1>9
<1>10. child' \in [Pid -> [Role -> ChildRec]] /\ child'[m] = C /\ \A n \in Pid \ {m} : child'[n] = child[n]
  BY <1>1, Zenon DEF TypeInv
<1> USE <1>10
<1> HIDE DEF C, M
<1>11. TypeInv' /\ Frame(m)
  BY Zenon DEF TypeInv, Frame
<1>12. KeysOf(m)'
  <2>1. Keys(m, M, key, opened)
    BY BoxFacts, Zenon DEF KeysOf, Keys
  <2> QED
    BY <2>1, Zenon DEF KeysOf
<1>13. SeatsOf(m)'
  <2>1. Seats(m, g[m], M, C)
    BY Zenon DEF Seats
  <2> QED
    BY <2>1, Zenon DEF SeatsOf
<1>14. BaseInv'
  BY <1>11, <1>12, <1>13, OneGame, Zenon
<1>15. ASSUME Alone(m) PROVE OpenOf(m)' /\ GameOf(m)'
  <2>1. GameOf(m) /\ OpenOf(m)
    BY <1>15, Zenon
  <2>2. OpenOf(m)'
    <3>1. Open(M, closed)
      BY <2>1, Zenon DEF OpenOf, Open
    <3> QED
      BY <3>1, Zenon DEF OpenOf
  <2>3. /\ In(M.mail_ab) = <<>> /\ In(M.mail_ba) = <<>>
        /\ ~g[m].done["A"] /\ ~g[m].done["B"]
        /\ round[m]["A"] = 0 /\ round[m]["B"] = 0
    BY <2>1, Zenon DEF GameOf, Game, Fresh
  <2>4. \A r \in Role : C[r].pc # "gone" => Place(g[m], r, round[m][r], C[r].pos)
    BY <2>3 DEF Role
  <2>5. Fresh(g[m], M, round[m], <<>>, <<>>)
    BY Zenon DEF Fresh
  <2>6. Turn(C, <<>>, <<>>) /\ Says(g[m], C, round[m], <<>>, <<>>) /\ BehindA(g[m], C, <<>>)
    BY <2>3 DEF Turn, Says, BehindA
  <2>7. Game(g[m], M, C, round[m], In(M.mail_ab), In(M.mail_ba))
    BY <2>3, <2>4, <2>5, <2>6, Zenon DEF Game
  <2>8. GameOf(m)'
    BY <2>7 DEF GameOf, In
  <2> QED
    BY <2>2, <2>8, Zenon
<1> QED
  BY <1>11, <1>14, <1>15, Zenon DEF Keeps

-----------------------------------------------------------------------------
(* The children. *)

\* A child that is there has the page and the mailboxes of its master.
LEMMA Seated ==
  ASSUME IInv, NEW m \in Pid, NEW r \in Role, child[m][r].pc # "gone"
  PROVE  /\ master[m].pc = "wait"
         /\ child[m][r].page = m /\ child[m][r].mail_ab = master[m].mail_ab
         /\ child[m][r].mail_ba = master[m].mail_ba
         /\ child[m][r].pos \in Nat
         /\ master[m].mail_ab \in Box /\ master[m].mail_ba \in Box
         /\ master[m].mail_ab # master[m].mail_ba
         /\ In(master[m].mail_ab) = queue[master[m].mail_ab]
         /\ In(master[m].mail_ba) = queue[master[m].mail_ba]
         /\ queue[master[m].mail_ab] \in Seq(Loc) /\ queue[master[m].mail_ba] \in Seq(Loc)
<1>1. BaseInv /\ TypeInv /\ SeatsOf(m) /\ KeysOf(m)
  BY MineFacts, Zenon
<1> USE <1>1
<1>2. master[m].pc = "wait"
  BY Zenon DEF SeatsOf, Seats, Role
<1> USE <1>2
<1>3. /\ child[m][r].page = m /\ child[m][r].mail_ab = master[m].mail_ab
      /\ child[m][r].mail_ba = master[m].mail_ba /\ child[m][r].pos # end
  BY Zenon DEF SeatsOf, Seats
<1>4. /\ master[m].mail_ab \in Id /\ master[m].mail_ab # -1
      /\ master[m].mail_ba \in Id /\ master[m].mail_ba # -1
  BY RecordFacts, Zenon DEF KeysOf, Keys
<1>5. child[m][r].pos \in Nat
  <2>1. child[m][r].pos \in Loc
    BY Zenon DEF TypeInv, ChildRec
  <2> QED
    BY <1>3, <2>1, ConstFacts DEF Loc, end
<1> QED
  BY <1>3, <1>4, <1>5, BoxFacts, DistinctBoxes, Zenon DEF In, TypeInv

\* In a game that is alone, it also finds the mailboxes open.
LEMMA Playing ==
  ASSUME IInv, NEW m \in Pid, Alone(m), NEW r \in Role, child[m][r].pc # "gone"
  PROVE  /\ GameOf(m) /\ Place(g[m], r, round[m][r], child[m][r].pos)
         /\ master[m].mail_ab \notin closed /\ master[m].mail_ba \notin closed
<1>1. GameOf(m) /\ OpenOf(m) /\ master[m].pc = "wait"
  BY MineFacts, Seated, Zenon
<1> QED
  BY <1>1, Zenon DEF GameOf, Game, OpenOf, Open

\* A step of the children of m that changes what is in one of its mailboxes.
LEMMA ChildOn ==
  ASSUME IInv, NEW m \in Pid, NEW G \in Page, NEW C \in [Role -> ChildRec], NEW R \in [Role -> Nat],
         NEW b \in Box, b \in {master[m].mail_ab, master[m].mail_ba},
         NEW s \in Seq(Loc), NEW ab, NEW ba,
         g' = [g EXCEPT ![m] = G], child' = [child EXCEPT ![m] = C],
         round' = [round EXCEPT ![m] = R], queue' = [queue EXCEPT ![b] = s],
         UNCHANGED <<master, key, opened, closed>>,
         ab = IF master[m].mail_ab = b THEN s ELSE In(master[m].mail_ab),
         ba = IF master[m].mail_ba = b THEN s ELSE In(master[m].mail_ba),
         Seats(m, G, master[m], C),
         Alone(m) => Game(G, master[m], C, R, ab, ba)
  PROVE  Keeps(m)
<1>1. BaseInv /\ TypeInv /\ KeysOf(m) /\ opened \subseteq Box /\ (Alone(m) => OpenOf(m))
  BY MineFacts, Zenon
<1>2. b \in opened
  BY <1>1, BoxFacts, Zenon DEF KeysOf, Keys
<1> USE <1>1
<1>3. /\ g' \in [Pid -> Page] /\ child' \in [Pid -> [Role -> ChildRec]]
      /\ round' \in [Pid -> [Role -> Nat]] /\ queue' \in [Box -> Seq(Loc)]
      /\ g'[m] = G /\ child'[m] = C /\ round'[m] = R
      /\ \A n \in Pid \ {m} : g'[n] = g[n] /\ child'[n] = child[n] /\ round'[n] = round[n]
      /\ queue'[b] = s /\ \A c \in Box \ {b} : queue'[c] = queue[c]
  BY Zenon DEF TypeInv
<1> USE <1>3
<1>4. TypeInv' /\ KeysOf(m)' /\ SeatsOf(m)' /\ Frame(m)
  BY ZenonT(30) DEF TypeInv, KeysOf, SeatsOf, Frame
<1>5. In(master[m].mail_ab)' = ab /\ In(master[m].mail_ba)' = ba
  BY DEF In
<1>6. Alone(m) => OpenOf(m)' /\ GameOf(m)'
  BY <1>5, Zenon DEF GameOf, OpenOf
<1>7. BaseInv'
  BY <1>4, <1>2, OneGame
<1> QED
  BY <1>4, <1>6, <1>7, Zenon DEF Keeps

\* A child goes on, or leaves and sets its flag.
LEMMA BecomeFacts ==
  ASSUME TypeInv, NEW m \in Pid, NEW r \in Role, NEW over \in BOOLEAN, NEW c \in ChildRec,
         c.page = m, Become(m, r, over, c)
  PROVE  \E G \in Page, C \in [Role -> ChildRec] :
           /\ g' = [g EXCEPT ![m] = G] /\ child' = [child EXCEPT ![m] = C]
           /\ G.L = g[m].L /\ G.startA = g[m].startA /\ G.startB = g[m].startB
           /\ G.done[r] = (over \/ g[m].done[r])
           /\ \A q \in Role \ {r} : G.done[q] = g[m].done[q] /\ C[q] = child[m][q]
           /\ over => C[r].pc = "gone"
           /\ ~over => C[r] = c
<1> DEFINE D == IF over THEN [g[m].done EXCEPT ![r] = TRUE] ELSE g[m].done
           G == [g[m] EXCEPT !.done = D]
           c2 == IF over THEN [c EXCEPT !.pc = "gone"] ELSE c
           C == [child[m] EXCEPT ![r] = c2]
<1>1. /\ TypeInv /\ g[m] \in Page /\ g[m].done \in [Role -> BOOLEAN]
      /\ child[m] \in [Role -> ChildRec] /\ g \in [Pid -> Page]
  BY RecordFacts, Zenon DEF TypeInv
<1> USE <1>1
<1>2. /\ D \in [Role -> BOOLEAN] /\ D[r] = (over \/ g[m].done[r])
      /\ \A q \in Role \ {r} : D[q] = g[m].done[q]
  BY Zenon
<1> USE <1>2
<1>3. c2 \in ChildRec /\ (over => c2.pc = "gone") /\ (~over => c2 = c)
  BY Zenon DEF ChildRec
<1> USE <1>3
<1>4. C \in [Role -> ChildRec] /\ C[r] = c2 /\ \A q \in Role \ {r} : C[q] = child[m][q]
  <2> HIDE DEF c2
  <2> QED
    BY Zenon
<1>5. /\ G \in Page /\ G.L = g[m].L /\ G.startA = g[m].startA /\ G.startB = g[m].startB
      /\ G.done = D
  <2> HIDE DEF D
  <2> QED
    BY Zenon DEF Page
<1>6. child' = [child EXCEPT ![m] = C]
  BY Zenon DEF Become
<1>7. g' = [g EXCEPT ![m] = G]
  <2>1. CASE over
    BY <2>1, Zenon DEF Become
  <2>2. CASE ~over
    <3>1. g' = g /\ D = g[m].done
      BY <2>2, Zenon DEF Become
    <3> USE <3>1
    <3>2. G = g[m]
      BY Zenon DEF Page
    <3> HIDE DEF G
    <3> QED
      BY <3>2, Zenon
  <2> QED
    BY <2>1, <2>2, Zenon
<1> HIDE DEF G, C, D, c2
<1> QED
  BY <1>4, <1>5, <1>6, <1>7, Zenon

\* mbox_send by a child: the mailbox takes the message, if it is open.
LEMMA SendFacts ==
  ASSUME TypeInv, NEW id \in Box, NEW v \in Loc, Send(id, v)
  PROVE  \E s \in Seq(Loc) : /\ queue' = [queue EXCEPT ![id] = s]
                             /\ UNCHANGED <<key, opened, closed>>
                             /\ id \notin closed => s = Append(queue[id], v)
<1>1. queue \in [Box -> Seq(Loc)] /\ queue[id] \in Seq(Loc) /\ Append(queue[id], v) \in Seq(Loc)
  BY DEF TypeInv
<1>2. CASE id \in closed
  <2>1. queue' = queue /\ UNCHANGED <<key, opened, closed>>
    BY <1>2, Zenon DEF Send, mail
  <2>2. queue' = [queue EXCEPT ![id] = queue[id]]
    BY <1>1, <2>1, Zenon
  <2> QED
    BY <1>1, <1>2, <2>1, <2>2, Zenon
<1>3. CASE id \notin closed
  BY <1>1, <1>3, Zenon DEF Send, Mail!Put
<1> QED
  BY <1>2, <1>3, Zenon

\* recv_loc by a child: it gets the oldest message, if the mailbox is open.
LEMMA RecvFacts ==
  ASSUME TypeInv, NEW id \in Box, NEW v, recv_loc(id, v)
  PROVE  \E s \in Seq(Loc) : /\ queue' = [queue EXCEPT ![id] = s]
                             /\ UNCHANGED <<key, opened, closed>>
                             /\ id \notin closed => /\ queue[id] # <<>> /\ v = Head(queue[id])
                                                    /\ s = Tail(queue[id])
<1>1. queue \in [Box -> Seq(Loc)] /\ queue[id] \in Seq(Loc)
  BY Zenon DEF TypeInv
<1>2. CASE queue[id] = <<>>
  <2>1. queue' = queue /\ UNCHANGED <<key, opened, closed>> /\ id \in closed
    BY <1>2, Zenon DEF recv_loc, mail
  <2>2. queue' = [queue EXCEPT ![id] = queue[id]]
    BY <1>1, <2>1, Zenon
  <2> QED
    BY <1>1, <2>1, <2>2, Zenon
<1>3. CASE queue[id] # <<>>
  <2>1. Tail(queue[id]) \in Seq(Loc)
    BY <1>1, <1>3
  <2> QED
    BY <1>3, <2>1, Zenon DEF recv_loc, Mail!Take
<1> QED
  BY <1>2, <1>3, Zenon

\* A sends B its next place.
LEMMA A_send_keeps == ASSUME IInv, NEW m \in Pid, A_send(m) PROVE Keeps(m)
<1> DEFINE c == child[m]["A"]
           id == master[m].mail_ab
           ba == In(master[m].mail_ba)
           n == round[m]["A"]
           v == next_for_B(g[c.page].L, c.pos)
           c2 == [c EXCEPT !.pc = "recv"]
<1>1. "A" \in Role /\ "B" \in Role /\ TypeInv /\ SeatsOf(m)
  BY MineFacts, Zenon DEF Role
<1>2. c.pc = "send" /\ Send(c.mail_ab, v) /\ Become(m, "A", v = end, c2) /\ UNCHANGED <<master, round>>
  BY Zenon DEF A_send
<1>3. /\ c.page = m /\ c.mail_ab = id /\ c.mail_ba = master[m].mail_ba /\ c.pos \in Nat
      /\ id \in Box /\ id # master[m].mail_ba /\ master[m].pc = "wait"
      /\ In(id) = queue[id] /\ queue[id] \in Seq(Loc)
  <2>1. child[m]["A"].pc # "gone"
    BY <1>2, Zenon
  <2> QED
    BY <1>1, <2>1, Seated
<1>4. /\ g[m] \in Page /\ g[m].L \in Cells /\ g[m].L \in Nat /\ n \in Nat /\ round[m] \in [Role -> Nat]
      /\ c \in ChildRec /\ child[m] \in [Role -> ChildRec] /\ round \in [Pid -> [Role -> Nat]]
  BY <1>1, RecordFacts, Zenon DEF Page, TypeInv
<1>5. v \in Loc /\ (v # end => v \in 0 .. (g[m].L - 1) /\ v = c.pos + 2)
  <2>1. v = Cell(g[m].L, c.pos, 2)
    BY <1>3, Zenon DEF next_for_B
  <2> QED
    BY <1>3, <1>4, <2>1, CellFacts, Zenon
<1>6. /\ c2 \in ChildRec /\ c2.page = m /\ c2.pc = "recv" /\ c2.pos = c.pos
      /\ c2.mail_ab = id /\ c2.mail_ba = master[m].mail_ba
  BY <1>3, <1>4, ZenonT(30) DEF ChildRec
<1>7. PICK s \in Seq(Loc) : /\ queue' = [queue EXCEPT ![id] = s] /\ UNCHANGED <<key, opened, closed>>
                            /\ id \notin closed => s = Append(queue[id], v)
  <2>1. Send(id, v)
    BY <1>2, <1>3, Zenon
  <2> HIDE DEF id, v
  <2> QED
    BY <1>1, <1>3, <1>5, <2>1, SendFacts, Zenon
<1> HIDE DEF c, v, c2, n, ba
<1>8. PICK G \in Page, C \in [Role -> ChildRec] :
           /\ g' = [g EXCEPT ![m] = G] /\ child' = [child EXCEPT ![m] = C]
           /\ G.L = g[m].L /\ G.startA = g[m].startA /\ G.startB = g[m].startB
           /\ G.done["A"] = (v = end \/ g[m].done["A"])
           /\ \A q \in Role \ {"A"} : G.done[q] = g[m].done[q] /\ C[q] = child[m][q]
           /\ v = end => C["A"].pc = "gone"
           /\ v # end => C["A"] = c2
  <2> DEFINE over == v = end
  <2>1. over \in BOOLEAN /\ (over <=> v = end) /\ Become(m, "A", over, c2)
    BY <1>2, Zenon
  <2> HIDE DEF over
  <2> QED
    BY <1>1, <1>6, <2>1, BecomeFacts
<1>9. /\ G.done["B"] = g[m].done["B"] /\ C["B"] = child[m]["B"]
      /\ \A r \in Role, k \in Nat : At(G, r, k) = At(g[m], r, k)
  BY <1>1, <1>8, Zenon DEF At
<1>10. Seats(m, G, master[m], C)
  <2>1. c.pos # end
    BY <1>3 DEF end
  <2>2. ASSUME NEW r \in Role, C[r].pc # "gone"
        PROVE  /\ C[r].page = m /\ C[r].mail_ab = master[m].mail_ab
               /\ C[r].mail_ba = master[m].mail_ba /\ C[r].pos # end
    <3>1. CASE r = "A"
      BY <1>6, <1>8, <2>1, <2>2, <3>1, Zenon
    <3>2. CASE r = "B"
      BY <1>1, <1>9, <2>2, <3>2, Zenon DEF SeatsOf, Seats
    <3> QED
      BY <3>1, <3>2, Zenon DEF Role
  <2> QED
    BY <1>3, <2>2, Zenon DEF Seats
<1>11. ASSUME Alone(m) PROVE Game(G, master[m], C, round[m], s, ba)
  <2>1. GameOf(m) /\ Place(g[m], "A", n, c.pos) /\ s = Append(queue[id], v)
    BY <1>1, <1>2, <1>7, <1>11, Playing, Zenon DEF c, n
  <2>2. v # end => Place(G, "B", n + 1, v)
    <3>1. At(g[m], "B", n + 1) = At(g[m], "A", n) + 2
      BY <1>4, AtSteps, Zenon
    <3>2. n + 1 \in Nat
      BY <1>4
    <3>3. v # end => v = At(G, "B", n + 1)
      BY <1>1, <1>5, <1>9, <2>1, <3>1, <3>2, Zenon DEF Place
    <3> QED
      BY <1>5, <1>8, <3>3, Zenon DEF Place
  <2>3. queue[id] = <<>> /\ ba = <<>> /\ child[m]["B"].pc # "send" /\ round[m]["B"] = n
    BY <1>2, <1>3, <2>1, Zenon DEF GameOf, Game, Turn, Says, c, n, ba
  <2>4. s # <<>> /\ Len(s) = 1 /\ Head(s) = v /\ Len(<<>>) = 0
    BY <1>5, <2>1, <2>3, FirstMessage, Zenon
  <2>5. ASSUME NEW r \in Role, C[r].pc # "gone" PROVE Place(G, r, round[m][r], C[r].pos)
    <3>1. CASE r = "A"
      BY <1>4, <1>6, <1>8, <1>9, <2>1, <2>5, <3>1, ZenonT(30) DEF Place, n
    <3>2. CASE r = "B"
      <4>1. Place(g[m], "B", n, child[m]["B"].pos)
        BY <1>1, <1>9, <2>1, <2>3, <2>5, <3>2, Zenon DEF GameOf, Game
      <4> QED
        BY <1>1, <1>4, <1>8, <1>9, <2>3, <3>2, <4>1, Zenon DEF Place
    <3> QED
      BY <3>1, <3>2, Zenon DEF Role
  <2>6. Turn(C, s, ba)
    BY <1>6, <1>8, <1>9, <2>3, <2>4 DEF Turn
  <2>7. Says(G, C, round[m], s, ba)
    BY <1>6, <1>8, <1>9, <2>2, <2>3, <2>4, Zenon DEF Says, n, OnWay
  <2>8. BehindA(G, C, ba)
    BY <1>8, <1>9, <2>1, <2>3, ZenonT(30) DEF GameOf, Game, BehindA, ba
  <2>9. Fresh(G, master[m], round[m], s, ba)
    BY <1>3, Zenon DEF Fresh
  <2> QED
    BY <1>3, <2>5, <2>6, <2>7, <2>8, <2>9, Zenon DEF Game
<1>12. round' = [round EXCEPT ![m] = round[m]]
  BY <1>2, <1>4, Zenon
<1> QED
  BY <1>2, <1>3, <1>4, <1>7, <1>8, <1>10, <1>11, <1>12, ChildOn, Zenon DEF ba

\* A goes to where B sends it.
LEMMA A_recv_keeps == ASSUME IInv, NEW m \in Pid, A_recv(m) PROVE Keeps(m)
<1> DEFINE c == child[m]["A"]
           id == master[m].mail_ba
           ab == In(master[m].mail_ab)
           n == round[m]["A"]
           c2(v) == [c EXCEPT !.pc = "send", !.pos = v]
<1>1. "A" \in Role /\ "B" \in Role /\ TypeInv /\ SeatsOf(m)
  BY MineFacts, Zenon DEF Role
<1>2. PICK v \in Loc : recv_loc(c.mail_ba, v) /\ Become(m, "A", v = end, c2(v))
  BY Zenon DEF A_recv, Loc
<1>3. c.pc = "recv" /\ UNCHANGED master /\ round' = [round EXCEPT ![m]["A"] = n + 1]
  BY Zenon DEF A_recv
<1>4. /\ c.page = m /\ c.mail_ba = id /\ c.mail_ab = master[m].mail_ab
      /\ id \in Box /\ id # master[m].mail_ab /\ master[m].pc = "wait"
      /\ In(id) = queue[id] /\ queue[id] \in Seq(Loc)
  <2>1. child[m]["A"].pc # "gone"
    BY <1>3, Zenon
  <2> QED
    BY <1>1, <2>1, Seated
<1>5. /\ g[m] \in Page /\ n \in Nat /\ round[m]["B"] \in Nat /\ round[m] \in [Role -> Nat]
      /\ c \in ChildRec /\ child[m] \in [Role -> ChildRec] /\ round \in [Pid -> [Role -> Nat]]
  BY <1>1, RecordFacts, Zenon DEF TypeInv
<1>6. PICK s \in Seq(Loc) : /\ queue' = [queue EXCEPT ![id] = s] /\ UNCHANGED <<key, opened, closed>>
                            /\ id \notin closed => /\ queue[id] # <<>> /\ v = Head(queue[id])
                                                   /\ s = Tail(queue[id])
  <2>1. recv_loc(id, v)
    BY <1>2, <1>4, Zenon
  <2> HIDE DEF id
  <2> QED
    BY <1>1, <1>4, <2>1, RecvFacts, Zenon
<1>7. /\ c2(v) \in ChildRec /\ c2(v).page = m /\ c2(v).pc = "send" /\ c2(v).pos = v
      /\ c2(v).mail_ab = master[m].mail_ab /\ c2(v).mail_ba = id
  BY <1>4, <1>5, Zenon DEF ChildRec
<1> DEFINE R == [round[m] EXCEPT !["A"] = n + 1]
<1>8. R \in [Role -> Nat] /\ R["A"] = n + 1 /\ R["B"] = round[m]["B"] /\ round' = [round EXCEPT ![m] = R]
  BY <1>1, <1>3, <1>5
<1> HIDE DEF c, c2, n, R, ab
<1>9. PICK G \in Page, C \in [Role -> ChildRec] :
           /\ g' = [g EXCEPT ![m] = G] /\ child' = [child EXCEPT ![m] = C]
           /\ G.L = g[m].L /\ G.startA = g[m].startA /\ G.startB = g[m].startB
           /\ G.done["A"] = (v = end \/ g[m].done["A"])
           /\ \A q \in Role \ {"A"} : G.done[q] = g[m].done[q] /\ C[q] = child[m][q]
           /\ v = end => C["A"].pc = "gone"
           /\ v # end => C["A"] = c2(v)
  <2> DEFINE over == v = end
  <2>1. over \in BOOLEAN /\ (over <=> v = end) /\ Become(m, "A", over, c2(v))
    BY <1>2, Zenon
  <2> HIDE DEF over
  <2> QED
    BY <1>1, <1>7, <2>1, BecomeFacts
<1>10. /\ G.done["B"] = g[m].done["B"] /\ C["B"] = child[m]["B"]
       /\ \A r \in Role, k \in Nat : At(G, r, k) = At(g[m], r, k)
  BY <1>1, <1>9, Zenon DEF At
<1>11. Seats(m, G, master[m], C)
  <2>1. ASSUME NEW r \in Role, C[r].pc # "gone"
        PROVE  /\ C[r].page = m /\ C[r].mail_ab = master[m].mail_ab
               /\ C[r].mail_ba = master[m].mail_ba /\ C[r].pos # end
    <3>1. CASE r = "A"
      BY <1>7, <1>9, <2>1, <3>1, Zenon
    <3>2. CASE r = "B"
      BY <1>1, <1>10, <2>1, <3>2, Zenon DEF SeatsOf, Seats
    <3> QED
      BY <3>1, <3>2, Zenon DEF Role
  <2> QED
    BY <1>4, <2>1, Zenon DEF Seats
<1>12. ASSUME Alone(m) PROVE Game(G, master[m], C, R, ab, s)
  <2>1. GameOf(m) /\ queue[id] # <<>> /\ v = Head(queue[id]) /\ s = Tail(queue[id])
    BY <1>1, <1>3, <1>6, <1>12, Playing, Zenon DEF c
  <2>2. /\ Len(queue[id]) <= 1 /\ ab = <<>> /\ child[m]["B"].pc # "send"
        /\ round[m]["B"] = n + 1 /\ OnWay(g[m], "A", n + 1, v)
        /\ g[m].done["B"] => g[m].done["A"] \/ v = end
    BY <1>3, <1>4, <2>1, Zenon DEF GameOf, Game, Turn, Says, BehindA, c, n, ab
  <2>3. s = <<>> /\ Len(<<>>) = 0
    BY <1>2, <1>4, <2>1, <2>2, OneMessage, Zenon
  <2>4. ASSUME NEW r \in Role, C[r].pc # "gone" PROVE Place(G, r, R[r], C[r].pos)
    <3>1. CASE r = "A"
      <4>1. C["A"] = c2(v) /\ v # end
        BY <1>9, <2>4, <3>1, Zenon
      <4>2. v \in 0 .. (g[m].L - 1) /\ v = At(g[m], "A", n + 1)
        BY <2>2, <4>1, Zenon DEF OnWay, Place
      <4>3. At(G, "A", n + 1) = At(g[m], "A", n + 1)
        <5>1. n + 1 \in Nat
          BY <1>5
        <5> QED
          BY <1>1, <1>10, <5>1, Zenon
      <4> QED
        BY <1>7, <1>8, <1>9, <3>1, <4>1, <4>2, <4>3, Zenon DEF Place
    <3>2. CASE r = "B"
      <4>1. Place(g[m], "B", round[m]["B"], child[m]["B"].pos)
        BY <1>1, <1>10, <2>1, <2>4, <3>2, Zenon DEF GameOf, Game
      <4>2. At(G, "B", round[m]["B"]) = At(g[m], "B", round[m]["B"])
        BY <1>1, <1>5, <1>10, Zenon
      <4> QED
        BY <1>8, <1>9, <1>10, <3>2, <4>1, <4>2, Zenon DEF Place
    <3> QED
      BY <3>1, <3>2, Zenon DEF Role
  <2>5. Turn(C, ab, <<>>)
    BY <1>10, <2>2, <2>3 DEF Turn
  <2>6. Says(G, C, R, ab, <<>>)
    BY <1>8, <1>10, <2>2, Zenon DEF Says
  <2>7. BehindA(G, C, <<>>)
    BY <1>9, <1>10, <2>2, Zenon DEF BehindA
  <2>8. Fresh(G, master[m], R, ab, <<>>)
    BY <1>4, Zenon DEF Fresh
  <2> QED
    BY <1>4, <2>3, <2>4, <2>5, <2>6, <2>7, <2>8, Zenon DEF Game
<1>13. /\ ab = IF master[m].mail_ab = id THEN s ELSE In(master[m].mail_ab)
       /\ s = IF master[m].mail_ba = id THEN s ELSE In(master[m].mail_ba)
  BY <1>4, Zenon DEF ab
<1>14. /\ id \in Box /\ id \in {master[m].mail_ab, master[m].mail_ba}
       /\ UNCHANGED <<master, key, opened, closed>> /\ round' = [round EXCEPT ![m] = R]
       /\ R \in [Role -> Nat] /\ g' = [g EXCEPT ![m] = G] /\ child' = [child EXCEPT ![m] = C]
       /\ queue' = [queue EXCEPT ![id] = s]
  BY <1>3, <1>4, <1>6, <1>8, <1>9, Zenon
<1> HIDE DEF id
<1> QED
  BY <1>11, <1>12, <1>13, <1>14, ChildOn, Zenon

\* B learns its next place.
LEMMA B_recv_keeps == ASSUME IInv, NEW m \in Pid, B_recv(m) PROVE Keeps(m)
<1> DEFINE c == child[m]["B"]
           id == master[m].mail_ab
           ba == In(master[m].mail_ba)
           n == round[m]["B"]
<1>1. "A" \in Role /\ "B" \in Role /\ TypeInv /\ SeatsOf(m)
  BY MineFacts, Zenon DEF Role
<1>2. PICK v \in Loc : /\ recv_loc(c.mail_ab, v)
                       /\ child' = [child EXCEPT ![m]["B"] = [c EXCEPT !.pc = "send", !.got = v]]
  BY Zenon DEF B_recv, Loc
<1>3. c.pc = "recv" /\ UNCHANGED <<g, master, round>>
  BY Zenon DEF B_recv
<1>4. /\ c.page = m /\ c.mail_ab = id /\ c.mail_ba = master[m].mail_ba /\ c.pos \in Nat
      /\ id \in Box /\ id # master[m].mail_ba /\ master[m].pc = "wait"
      /\ In(id) = queue[id] /\ queue[id] \in Seq(Loc)
  <2>1. child[m]["B"].pc # "gone"
    BY <1>3, Zenon
  <2> QED
    BY <1>1, <2>1, Seated
<1>5. /\ g[m] \in Page /\ n \in Nat /\ round[m] \in [Role -> Nat] /\ g \in [Pid -> Page]
      /\ c \in ChildRec /\ child[m] \in [Role -> ChildRec] /\ round \in [Pid -> [Role -> Nat]]
  BY <1>1, RecordFacts, Zenon DEF TypeInv
<1>6. PICK s \in Seq(Loc) : /\ queue' = [queue EXCEPT ![id] = s] /\ UNCHANGED <<key, opened, closed>>
                            /\ id \notin closed => /\ queue[id] # <<>> /\ v = Head(queue[id])
                                                   /\ s = Tail(queue[id])
  <2>1. recv_loc(id, v)
    BY <1>2, <1>4, Zenon
  <2> HIDE DEF id
  <2> QED
    BY <1>1, <1>4, <2>1, RecvFacts, Zenon
<1> DEFINE c2 == [c EXCEPT !.pc = "send", !.got = v]
           C == [child[m] EXCEPT !["B"] = c2]
<1>7. /\ c2 \in ChildRec /\ c2.page = c.page /\ c2.pc = "send" /\ c2.pos = c.pos /\ c2.got = v
      /\ c2.mail_ab = c.mail_ab /\ c2.mail_ba = c.mail_ba
  BY <1>5, Zenon DEF ChildRec
<1>8. C \in [Role -> ChildRec] /\ C["B"] = c2 /\ C["A"] = child[m]["A"] /\ child' = [child EXCEPT ![m] = C]
  <2>1. child' = [child EXCEPT ![m] = C]
    BY <1>2, Zenon
  <2> HIDE DEF c2
  <2> QED
    BY <1>1, <1>5, <1>7, <2>1, Zenon
<1>9. g' = [g EXCEPT ![m] = g[m]] /\ round' = [round EXCEPT ![m] = round[m]]
  BY <1>3, <1>5, Zenon
<1> HIDE DEF c, c2, n, C, ba
<1>10. Seats(m, g[m], master[m], C)
  <2>1. c.pos # end
    BY <1>4 DEF end
  <2>2. ASSUME NEW r \in Role, C[r].pc # "gone"
        PROVE  /\ C[r].page = m /\ C[r].mail_ab = master[m].mail_ab
               /\ C[r].mail_ba = master[m].mail_ba /\ C[r].pos # end
    <3>1. CASE r = "B"
      BY <1>4, <1>7, <1>8, <2>1, <3>1, Zenon
    <3>2. CASE r = "A"
      BY <1>1, <1>8, <2>2, <3>2, Zenon DEF SeatsOf, Seats
    <3> QED
      BY <3>1, <3>2, Zenon DEF Role
  <2> QED
    BY <1>4, <2>2, Zenon DEF Seats
<1>11. ASSUME Alone(m) PROVE Game(g[m], master[m], C, round[m], s, ba)
  <2>1. /\ GameOf(m) /\ queue[id] # <<>> /\ v = Head(queue[id]) /\ s = Tail(queue[id])
        /\ Place(g[m], "B", n, c.pos)
    BY <1>1, <1>3, <1>6, <1>11, Playing, Zenon DEF c, n
  <2>2. /\ Len(queue[id]) <= 1 /\ ba = <<>> /\ child[m]["A"].pc # "send"
        /\ round[m]["A"] = n /\ OnWay(g[m], "B", n + 1, v) /\ (v = end => g[m].done["A"])
        /\ g[m].done["A"] \/ child[m]["A"].pc = "recv"
    BY <1>4, <2>1, Zenon DEF GameOf, Game, Turn, Says, c, n, ba
  <2>3. s = <<>> /\ Len(<<>>) = 0
    BY <1>2, <1>4, <2>1, <2>2, OneMessage, Zenon
  <2>4. ASSUME NEW r \in Role, C[r].pc # "gone" PROVE Place(g[m], r, round[m][r], C[r].pos)
    <3>1. CASE r = "B"
      BY <1>7, <1>8, <2>1, <3>1, Zenon DEF n
    <3>2. CASE r = "A"
      BY <1>1, <1>8, <2>1, <2>4, <3>2, Zenon DEF GameOf, Game
    <3> QED
      BY <3>1, <3>2, Zenon DEF Role
  <2>5. Turn(C, s, ba)
    BY <1>8, <2>2, <2>3 DEF Turn
  <2>6. Says(g[m], C, round[m], s, ba)
    BY <1>7, <1>8, <2>2, <2>3, Zenon DEF Says, n
  <2>7. BehindA(g[m], C, ba)
    BY <1>8, <2>1, Zenon DEF GameOf, Game, BehindA, ba
  <2>8. Fresh(g[m], master[m], round[m], s, ba)
    BY <1>4, Zenon DEF Fresh
  <2> QED
    BY <1>4, <2>4, <2>5, <2>6, <2>7, <2>8, Zenon DEF Game
<1>12. /\ s = IF master[m].mail_ab = id THEN s ELSE In(master[m].mail_ab)
       /\ ba = IF master[m].mail_ba = id THEN s ELSE In(master[m].mail_ba)
  BY <1>4, Zenon DEF ba
<1>13. /\ id \in Box /\ id \in {master[m].mail_ab, master[m].mail_ba} /\ s \in Seq(Loc)
       /\ UNCHANGED <<master, key, opened, closed>> /\ queue' = [queue EXCEPT ![id] = s]
       /\ C \in [Role -> ChildRec] /\ child' = [child EXCEPT ![m] = C]
  BY <1>3, <1>4, <1>6, <1>8, Zenon
<1> HIDE DEF id
<1> QED
  BY <1>5, <1>9, <1>10, <1>11, <1>12, <1>13, ChildOn, Zenon

\* B sends A its next place and goes to its own.
LEMMA B_send_keeps == ASSUME IInv, NEW m \in Pid, B_send(m) PROVE Keeps(m)
<1> DEFINE c == child[m]["B"]
           id == master[m].mail_ba
           ab == In(master[m].mail_ab)
           n == round[m]["B"]
           v == next_for_A(g[c.page].L, c.pos)
           over == c.got = end \/ v = end
           c2 == [c EXCEPT !.pc = "recv", !.pos = c.got]
           R == [round[m] EXCEPT !["B"] = n + 1]
<1>1. "A" \in Role /\ "B" \in Role /\ TypeInv /\ SeatsOf(m)
  BY MineFacts, Zenon DEF Role
<1>2. /\ c.pc = "send" /\ Send(c.mail_ba, v) /\ Become(m, "B", over, c2) /\ UNCHANGED master
      /\ round' = [round EXCEPT ![m]["B"] = n + 1]
  BY Zenon DEF B_send
<1>3. /\ c.page = m /\ c.mail_ba = id /\ c.mail_ab = master[m].mail_ab /\ c.pos \in Nat
      /\ id \in Box /\ id # master[m].mail_ab /\ master[m].pc = "wait"
      /\ In(id) = queue[id] /\ queue[id] \in Seq(Loc)
  <2>1. child[m]["B"].pc # "gone"
    BY <1>2, Zenon
  <2> QED
    BY <1>1, <2>1, Seated
<1>4. /\ g[m] \in Page /\ g[m].L \in Cells /\ g[m].L \in Nat /\ n \in Nat /\ round[m] \in [Role -> Nat]
      /\ c \in ChildRec /\ child[m] \in [Role -> ChildRec] /\ round \in [Pid -> [Role -> Nat]]
  BY <1>1, RecordFacts, Zenon DEF Page, TypeInv
<1>5. v \in Loc /\ (v # end => v \in 0 .. (g[m].L - 1) /\ v = c.pos + 1)
  <2>1. v = Cell(g[m].L, c.pos, 1)
    BY <1>3, Zenon DEF next_for_A
  <2> QED
    BY <1>3, <1>4, <2>1, CellFacts, Zenon
<1>6. /\ c2 \in ChildRec /\ c2.page = m /\ c2.pc = "recv" /\ c2.pos = c.got
      /\ c2.mail_ab = master[m].mail_ab /\ c2.mail_ba = id
  BY <1>3, <1>4, ZenonT(30) DEF ChildRec
<1>7. PICK s \in Seq(Loc) : /\ queue' = [queue EXCEPT ![id] = s] /\ UNCHANGED <<key, opened, closed>>
                            /\ id \notin closed => s = Append(queue[id], v)
  <2>1. Send(id, v)
    BY <1>2, <1>3, Zenon
  <2> HIDE DEF id, v
  <2> QED
    BY <1>1, <1>3, <1>5, <2>1, SendFacts, Zenon
<1>8. R \in [Role -> Nat] /\ R["B"] = n + 1 /\ R["A"] = round[m]["A"] /\ round' = [round EXCEPT ![m] = R]
  BY <1>1, <1>2, <1>4
<1>9. over \in BOOLEAN /\ (over <=> c.got = end \/ v = end)
  BY Zenon
<1> HIDE DEF c, v, c2, n, ab, R, over
<1>10. PICK G \in Page, C \in [Role -> ChildRec] :
           /\ g' = [g EXCEPT ![m] = G] /\ child' = [child EXCEPT ![m] = C]
           /\ G.L = g[m].L /\ G.startA = g[m].startA /\ G.startB = g[m].startB
           /\ G.done["B"] = (over \/ g[m].done["B"])
           /\ \A q \in Role \ {"B"} : G.done[q] = g[m].done[q] /\ C[q] = child[m][q]
           /\ over => C["B"].pc = "gone"
           /\ ~over => C["B"] = c2
  BY <1>1, <1>2, <1>6, <1>9, BecomeFacts
<1>11. /\ G.done["A"] = g[m].done["A"] /\ C["A"] = child[m]["A"]
       /\ \A r \in Role, k \in Nat : At(G, r, k) = At(g[m], r, k)
  BY <1>1, <1>10, Zenon DEF At
<1>12. Seats(m, G, master[m], C)
  <2>1. ASSUME NEW r \in Role, C[r].pc # "gone"
        PROVE  /\ C[r].page = m /\ C[r].mail_ab = master[m].mail_ab
               /\ C[r].mail_ba = master[m].mail_ba /\ C[r].pos # end
    <3>1. CASE r = "B"
      BY <1>6, <1>9, <1>10, <2>1, <3>1, Zenon
    <3>2. CASE r = "A"
      BY <1>1, <1>11, <2>1, <3>2, Zenon DEF SeatsOf, Seats
    <3> QED
      BY <3>1, <3>2, Zenon DEF Role
  <2> QED
    BY <1>3, <2>1, Zenon DEF Seats
<1>13. ASSUME Alone(m) PROVE Game(G, master[m], C, R, ab, s)
  <2>1. GameOf(m) /\ Place(g[m], "B", n, c.pos) /\ s = Append(queue[id], v)
    BY <1>1, <1>2, <1>7, <1>13, Playing, Zenon DEF c, n
  <2>2. /\ queue[id] = <<>> /\ ab = <<>> /\ child[m]["A"].pc # "send"
        /\ round[m]["A"] = n /\ OnWay(g[m], "B", n + 1, c.got) /\ (c.got = end => g[m].done["A"])
        /\ g[m].done["A"] \/ child[m]["A"].pc = "recv"
    BY <1>2, <1>3, <2>1, Zenon DEF GameOf, Game, Turn, Says, c, n, ab
  <2>3. s # <<>> /\ Len(s) = 1 /\ Head(s) = v /\ Len(<<>>) = 0
    BY <1>5, <2>1, <2>2, FirstMessage, Zenon
  <2>4. ASSUME NEW r \in Role, C[r].pc # "gone" PROVE Place(G, r, R[r], C[r].pos)
    <3>1. CASE r = "B"
      <4>1. C["B"] = c2 /\ c.got # end
        BY <1>9, <1>10, <2>4, <3>1, Zenon
      <4>2. c.got \in 0 .. (g[m].L - 1) /\ c.got = At(g[m], "B", n + 1)
        BY <2>2, <4>1, Zenon DEF OnWay, Place
      <4>3. At(G, "B", n + 1) = At(g[m], "B", n + 1)
        <5>1. n + 1 \in Nat
          BY <1>4
        <5> QED
          BY <1>1, <1>11, <5>1, Zenon
      <4> QED
        BY <1>6, <1>8, <1>10, <3>1, <4>1, <4>2, <4>3, Zenon DEF Place
    <3>2. CASE r = "A"
      <4>1. Place(g[m], "A", round[m]["A"], child[m]["A"].pos)
        BY <1>1, <1>11, <2>1, <2>4, <3>2, Zenon DEF GameOf, Game
      <4>2. At(G, "A", round[m]["A"]) = At(g[m], "A", round[m]["A"])
        BY <1>1, <1>4, <1>11, <2>2, Zenon
      <4> QED
        BY <1>8, <1>10, <1>11, <3>2, <4>1, <4>2, Zenon DEF Place
    <3> QED
      BY <3>1, <3>2, Zenon DEF Role
  <2>5. Turn(C, ab, s)
    BY <1>6, <1>9, <1>10, <1>11, <2>2, <2>3 DEF Turn
  <2>6. OnWay(G, "A", n + 1, v)
    <3>1. n + 1 \in Nat
      BY <1>4
    <3>2. At(g[m], "A", n + 1) = At(g[m], "B", n) + 1
      BY <1>4, AtSteps, Zenon
    <3>3. v # end => v = At(G, "A", n + 1)
      BY <1>1, <1>5, <1>11, <2>1, <3>1, <3>2, Zenon DEF Place
    <3> QED
      BY <1>5, <1>10, <3>3, Zenon DEF OnWay, Place
  <2>7. Says(G, C, R, ab, s)
    BY <1>6, <1>8, <1>10, <1>11, <2>2, <2>3, <2>6, Zenon DEF Says
  <2>8. BehindA(G, C, s)
    <3>1. g[m].done["B"] => g[m].done["A"]
      BY <1>3, <2>1, <2>2, Zenon DEF GameOf, Game, BehindA
    <3> QED
      BY <1>9, <1>10, <1>11, <2>2, <2>3, <3>1, Zenon DEF BehindA
  <2>9. Fresh(G, master[m], R, ab, s)
    BY <1>3, Zenon DEF Fresh
  <2> QED
    BY <1>3, <2>4, <2>5, <2>7, <2>8, <2>9, Zenon DEF Game
<1> QED
  BY <1>2, <1>3, <1>7, <1>8, <1>10, <1>12, <1>13, ChildOn, ZenonT(30) DEF ab

-----------------------------------------------------------------------------
(* The theorems. *)

\* Every step of a master or of a child keeps the inductive invariant.
LEMMA NextInv == IInv /\ [Next]_vars => IInv'
<1> SUFFICES ASSUME IInv, [Next]_vars PROVE IInv'
  BY Zenon
<1>1. CASE UNCHANGED vars
  <2>1. UNCHANGED <<g, master, child, round, key, opened, queue, closed>>
    BY <1>1, Zenon DEF vars
  <2> QED
    BY <2>1, Zenon DEF IInv, BaseInv, TypeInv, KeysOf, SeatsOf, Owners, NewEmpty, OpenOf, GameOf, In
<1>2. CASE Next
  <2>1. PICK m \in Pid : MasterStep(m) \/ A(m) \/ B(m)
    BY <1>2, Zenon DEF Next
  <2>2. MasterStep(m) => Keeps(m)
    BY Zenon, init_game_keeps, create_ab_keeps, create_ba_keeps, give_up_keeps, fork_keeps,
       wait_keeps, mbox_close_keeps DEF MasterStep
  <2>3. A(m) => Keeps(m)
    BY A_send_keeps, A_recv_keeps, Zenon DEF A
  <2>4. B(m) => Keeps(m)
    BY B_recv_keeps, B_send_keeps, Zenon DEF B
  <2>5. BaseInv /\ BaseInv' /\ Frame(m) /\ (Alone(m) => OpenOf(m)' /\ GameOf(m)')
    BY <2>1, <2>2, <2>3, <2>4, Zenon DEF Keeps, IInv
  <2>6. ASSUME NEW n \in Pid, Alone(n) PROVE OpenOf(n)' /\ GameOf(n)'
    <3>1. CASE n = m
      BY <2>5, <2>6, <3>1, Zenon
    <3>2. CASE n # m
      BY <2>5, <2>6, <3>2, OtherGame, Zenon DEF IInv
    <3> QED
      BY <3>1, <3>2, Zenon
  <2>7. \A n \in Pid : Alone(n)' <=> Alone(n)
    BY Zenon DEF Alone
  <2> QED
    BY <2>5, <2>6, <2>7, Zenon DEF IInv
<1> QED
  BY <1>1, <1>2, Zenon

\* The inductive invariant holds throughout.
THEOREM MazeInv == Spec => []IInv
BY InitInv, NextInv, PTL DEF Spec

\* Every position that master.c and process.c ever store is a cell, and in a
\* game without neighbours a cell of its maze.
THEOREM MazeTypes == Spec => []TypeOK
<1>1. IInv => TypeOK
  <2> SUFFICES ASSUME IInv PROVE TypeOK
    BY Zenon
  <2>1. TypeInv
    BY Zenon DEF IInv, BaseInv
  <2>2. ASSUME NEW m \in Pid, NEW r \in Role, child[m][r].pc # "gone"
        PROVE  child[m][r].pos \in 0 .. ((IF Alone(m) THEN g[m].L ELSE MaxL) - 1)
    <3>1. CASE Alone(m)
      BY <2>2, <3>1, Playing, Zenon DEF Place
    <3>2. CASE ~Alone(m)
      <4>1. child[m][r].pos \in Loc
        BY <2>1, Zenon DEF TypeInv, ChildRec
      <4>2. child[m][r].pos \in Nat
        BY <2>2, Seated
      <4>3. child[m][r].pos \in 0 .. (MaxL - 1)
        BY <4>1, <4>2, ConstFacts DEF Loc, end
      <4> QED
        BY <3>2, <4>3, Zenon
    <3> QED
      BY <3>1, <3>2, Zenon
  <2>3. ASSUME NEW m \in Pid
        PROVE  /\ g[m].L \in 0 .. MaxL /\ {g[m].startA, g[m].startB} \subseteq 0 .. MaxL
               /\ g[m].done \in [Role -> BOOLEAN]
    BY <2>1, RecordFacts DEF Page, Cells
  <2> QED
    BY <2>1, <2>2, <2>3, Zenon DEF TypeInv, TypeOK, Loc
<1> QED
  BY <1>1, MazeInv, PTL

\* process.c: in a game without neighbours, A and B, which only exchange
\* messages, move as if both moved at once.
THEOREM InStep == Spec => []MovesInStep
<1>1. IInv => MovesInStep
  <2> SUFFICES ASSUME IInv, NEW m \in Pid, NEW r \in Role, Alone(m), child[m][r].pc # "gone"
               PROVE  child[m][r].pos = Position(m, r, round[m][r])
    BY Zenon DEF MovesInStep
  <2>1. child[m][r].pos = At(g[m], r, round[m][r])
    BY Playing, Zenon DEF Place
  <2>2. g[m] \in Page /\ round[m][r] \in Nat
    BY RecordFacts, Zenon DEF IInv, BaseInv
  <2> QED
    BY <2>1, <2>2, AtPosition, Zenon
<1> QED
  BY <1>1, MazeInv, PTL

\* process.c: in a game without neighbours, a mailbox never holds a second
\* message, so no mbox_send waits.
THEOREM TurnsTaken == Spec => []OneMessagePerBox
<1>1. IInv => OneMessagePerBox
  <2> SUFFICES ASSUME IInv, NEW m \in Pid, Alone(m),
                      NEW b \in {master[m].mail_ab, master[m].mail_ba} \cap Box
               PROVE  Len(queue[b]) <= 1
    BY Zenon DEF OneMessagePerBox
  <2>1. GameOf(m)
    BY Zenon DEF IInv
  <2>2. In(b) = queue[b]
    BY Zenon DEF In
  <2> QED
    BY <2>1, <2>2, Zenon DEF GameOf, Game, Turn
<1> QED
  BY <1>1, MazeInv, PTL

\* master.c: in a game without neighbours, the verdict that A alone did not
\* finish is never given.
THEOREM AFinishesFirst == Spec => []NotWithoutA
<1>1. IInv => NotWithoutA
  BY Zenon DEF IInv, GameOf, Game, NotWithoutA
<1> QED
  BY <1>1, MazeInv, PTL

\* master.c and process.c: whatever the pids of the masters, a child works on
\* the page and the mailboxes of its own game, and shares one mailbox at most,
\* with the game of the next pid.
THEOREM GamesApart == Spec => []OwnGame
<1>1. IInv => OwnGame
  <2> SUFFICES ASSUME IInv PROVE OwnGame
    BY Zenon
  <2>1. ASSUME NEW m \in Pid, NEW r \in Role, child[m][r].pc # "gone"
        PROVE  /\ child[m][r].page = m
               /\ key[child[m][r].mail_ab] = AB_KEY(m) /\ key[child[m][r].mail_ba] = BA_KEY(m)
    <3>1. /\ child[m][r].page = m /\ child[m][r].mail_ab = master[m].mail_ab
          /\ child[m][r].mail_ba = master[m].mail_ba
          /\ master[m].mail_ab # -1 /\ master[m].mail_ba # -1
      BY <2>1, Seated, BoxFacts
    <3>2. KeysOf(m)
      BY MineFacts, Zenon
    <3> QED
      BY <3>1, <3>2, Zenon DEF KeysOf, Keys
  <2>2. ASSUME NEW m \in Pid, NEW n \in Pid \ {m}
        PROVE  /\ AB_KEY(m) # AB_KEY(n) /\ BA_KEY(m) # BA_KEY(n)
               /\ BA_KEY(m) = AB_KEY(n) => n = m + 1
    BY <2>2, ConstFacts DEF AB_KEY, BA_KEY
  <2>3. ASSUME NEW m \in Pid, NEW r \in Role, child[m][r].pc # "gone",
               NEW n \in Pid \ {m}, NEW s \in Role, child[n][s].pc # "gone"
        PROVE  /\ child[m][r].page # child[n][s].page
               /\ child[m][r].mail_ab # child[n][s].mail_ab /\ child[m][r].mail_ba # child[n][s].mail_ba
               /\ child[m][r].mail_ba = child[n][s].mail_ab => n = m + 1
    <3>1. /\ child[m][r].page = m
          /\ key[child[m][r].mail_ab] = AB_KEY(m) /\ key[child[m][r].mail_ba] = BA_KEY(m)
      BY <2>1, <2>3, Zenon
    <3>2. /\ child[n][s].page = n
          /\ key[child[n][s].mail_ab] = AB_KEY(n) /\ key[child[n][s].mail_ba] = BA_KEY(n)
      BY <2>1, <2>3, Zenon
    <3>3. /\ AB_KEY(m) # AB_KEY(n) /\ BA_KEY(m) # BA_KEY(n)
          /\ BA_KEY(m) = AB_KEY(n) => n = m + 1
      BY <2>2, Zenon
    <3> QED
      BY <3>1, <3>2, <3>3, Zenon
  <2> QED
    BY <2>1, <2>3 DEF OwnGame
<1> QED
  BY <1>1, MazeInv, PTL
=============================================================================
