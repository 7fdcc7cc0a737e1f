----------------------------- MODULE NamesLemmas -----------------------------
(***************************************************************************)
(* The inductive invariant of Names, and that the steps of all calls but   *)
(* create and unlink keep it, for any number of processes, inodes and open *)
(* files, and for any names, paths and bounds. NamesProofs has the rest    *)
(* and the theorems. What is needed of Cardinality is a hypothesis here,   *)
(* Sized, that NamesProofs discharges.                                     *)
(***************************************************************************)
EXTENDS Names, TLAPS

InodeNo == 0 .. NINODES
InodeRec == [type : {"none", "file", "dir", "symlink"}, nlink : Int, target : Seq(Name),
             ent : [Name -> InodeNo], dotdot : InodeNo]
FileRec == [ip : InodeNo, ref : 0 .. MaxRef]
OpRec == [pc : {"idle", "name", "inode", "bad"},
          call : {"", "open", "create", "mkdir", "chdir", "link", "symlink", "unlink"},
          path : Seq(Name \cup {".."}), new : Seq(Name), dp : InodeNo, ip : InodeNo,
          count : 0 .. MaxFollow]

\* What a call is at each pc.
OpOK(o) ==
  /\ o \in OpRec
  /\ o.pc = "idle" => o = Idle
  /\ o.pc = "name" => /\ o.call # "" /\ o.path # <<>> /\ (o.ip # 0 => o.call = "link")
                      /\ o.path \in Seq(Name) \/ (o.call = "chdir" /\ o.path = <<"..">>)
  /\ o.pc = "inode" => o.ip # 0 /\ o.dp = 0 /\ o.call \in {"open", "create", "mkdir", "chdir", "link", "symlink"}
  /\ o.pc = "bad" => o.ip # 0 /\ o.dp = 0 /\ o.call = "link"
  /\ o.call \in {"open", "symlink"} => o.new # <<>>
  /\ o.call = "link" /\ (o.pc = "inode" \/ o.ip = 0) => o.new # <<>>

\* Inodes of a disk; a symbolic link has a target.
InodesOK(ino) ==
  /\ ino \in [Inum -> InodeRec]
  /\ \A i \in Inum : ino[i].type = "symlink" => ino[i].target # <<>>

TypeInv ==
  /\ InodesOK(inode) /\ InodesOK(disk)
  /\ cwd \in [Proc -> Inum]
  /\ op \in [Proc -> OpRec] /\ \A p \in Proc : OpOK(op[p])
  /\ files \in [File -> FileRec]
  /\ panicked \in BOOLEAN /\ strayed \in BOOLEAN
  /\ group \in 0 .. MaxGroup

-----------------------------------------------------------------------------
(* The order of the names, for the inodes ino of memory or of the disk. *)

EntriesOf(ino, i) == {e \in Inum \X Name : ino[e[1]].ent[e[2]] = i}
SubdirsOf(ino, i) == {n \in Name : ino[i].ent[n] # 0 /\ ino[ino[i].ent[n]].type = "dir"}

\* The links of i, where the calls of sys_link in C have counted one for it.
LinksOf(ino, i, C) ==
  Cardinality(EntriesOf(ino, i)) + Cardinality(SubdirsOf(ino, i)) + Cardinality(C)
    + (IF i = Root THEN 1 ELSE 0)

Counted(ino, C) == \A i \in Inum : ino[i].type # "none" => ino[i].nlink = LinksOf(ino, i, C[i])

\* The directories below the root that are linked.
Linked(ino) == {i \in Inum \ {Root} : ino[i].type = "dir" /\ ino[i].nlink > 0}

Below(ino) ==
  \A i \in Linked(ino) :
    \E n \in Name : EntriesOf(ino, i) = {<<ino[i].dotdot, n>>} /\ ino[ino[i].dotdot].nlink # 0

NoCycle(ino) ==
  \A D \in SUBSET Linked(ino) : D # {} => \E i \in D : ino[i].dotdot \notin D

\* The root is there, and is in no directory; what is free is in none either;
\* entries are only in linked directories.
Tidy(ino) ==
  /\ ino[Root].type = "dir" /\ ino[Root].dotdot = Root /\ EntriesOf(ino, Root) = {}
  /\ \A i \in Inum : ino[i].type = "none" => EntriesOf(ino, i) = {}
  /\ \A i \in Inum : ino[i].type # "dir" \/ ino[i].nlink = 0 => ino[i].ent = NoEntries

Good(ino, C) == Counted(ino, C) /\ Tidy(ino) /\ Below(ino) /\ NoCycle(ino)

Count == [i \in Inum |-> Counting(i)]
NoCount == [i \in Inum |-> {}]

\* A call that has counted a link holds something that is not a directory.
LinkInv(ino) == \A p \in Proc, i \in Inum : p \in Counting(i) => ino[i].type # "dir"

\* What is held is not free.
HeldInv(ino) == \A i \in Inum : ino[i].type = "none" => ~Held(i)

IInv ==
  /\ TypeInv /\ NoOrphans
  /\ ~strayed => /\ Good(inode, Count) /\ LinkInv(inode) /\ HeldInv(inode)
                 /\ Good(disk, NoCount)

\* What the proofs use of Cardinality for the parts of a set U of entries, of
\* names or of processes: NamesProofs shows that they have it.
Sizes(U) ==
  \A S \in SUBSET U :
    /\ Cardinality(S) \in Nat /\ (Cardinality(S) = 0 <=> S = {})
    /\ \A x \in U \ S : Cardinality(S \cup {x}) = Cardinality(S) + 1

Sized == Sizes(Inum \X Name) /\ Sizes(Name) /\ Sizes(Proc)
-----------------------------------------------------------------------------
(* Constants. *)

\* The root is an inode, 0 is none.
LEMMA ConstFacts ==
  /\ NINODES \in Nat \ {0} /\ Root \in Inum /\ 0 \notin Inum /\ Inum \subseteq InodeNo
  /\ 0 \in InodeNo /\ \A i \in InodeNo : i # 0 => i \in Inum
BY NamesAssumption DEF Inum, InodeNo, Root

\* A free inode, a closed file and a process in no call are well-typed.
LEMMA NullTypes ==
  /\ NoEntries \in [Name -> InodeNo] /\ Free \in InodeRec /\ NoFile \in FileRec
  /\ Idle \in OpRec /\ OpOK(Idle) /\ <<>> \in Seq(Name)
  /\ Idle.pc = "idle" /\ Idle.ip = 0 /\ Idle.dp = 0
<1>1. <<>> \in Seq(Name) /\ <<>> \in Seq(Name \cup {".."})
  OBVIOUS
<1>2. NoEntries \in [Name -> InodeNo]
  BY ConstFacts, Zenon DEF NoEntries
<1>3. Free \in InodeRec
  BY <1>1, <1>2, ConstFacts DEF Free, InodeRec
<1>4. NoFile \in FileRec
  BY ConstFacts, NamesAssumption DEF NoFile, FileRec
<1>5. Idle \in OpRec
  BY <1>1, ConstFacts, NamesAssumption DEF Idle, OpRec
<1>6. OpOK(Idle)
  BY <1>5, Zenon DEF OpOK, Idle
<1>7. Idle.pc = "idle" /\ Idle.ip = 0 /\ Idle.dp = 0
  BY Zenon DEF Idle
<1> QED
  BY <1>1, <1>2, <1>5, <1>3, <1>4, <1>6, <1>7, Zenon

\* A call that begins is well-formed and holds nothing yet.
LEMMA CallsFacts ==
  ASSUME NEW o \in Calls
  PROVE  OpOK(o) /\ o.pc = "name" /\ o.ip = 0 /\ o.dp = 0
<1>1. /\ \A n \in Path : n \in Seq(Name) /\ n # <<>> /\ n \in Seq(Name \cup {".."})
      /\ \A n \in Target : n \in Seq(Name) /\ n # <<>>
      /\ <<>> \in Seq(Name) /\ <<"..">> \in Seq(Name \cup {".."}) /\ <<"..">> # <<>>
      /\ 0 \in 0 .. MaxFollow
  BY NamesAssumption
<1>2. ASSUME NEW c \in {"open", "create", "mkdir", "chdir", "link", "symlink", "unlink"}, NEW n, NEW m,
             n \in Path \/ (c = "chdir" /\ n = <<"..">>), m \in Path \cup Target \cup {<<>>},
             c \in {"open", "symlink", "link"} => m # <<>>, o = Begin(c, n, m)
      PROVE  OpOK(o) /\ o.pc = "name" /\ o.ip = 0 /\ o.dp = 0
  <2>1. o \in OpRec
    BY <1>1, <1>2, ConstFacts, Zenon DEF OpRec, Begin
  <2> QED
    BY <1>1, <1>2, <2>1, Zenon DEF OpOK, Begin
<1>3. \/ \E n \in Path : o = Begin("unlink", n, <<>>)
      \/ \E c \in {"create", "mkdir"}, n \in Path : o = Begin(c, n, <<>>)
      \/ \E n \in Path \cup {<<"..">>} : o = Begin("chdir", n, <<>>)
      \/ \E n \in Path : o = Begin("open", n, n)
      \/ \E n, m \in Path : o = Begin("link", n, m)
      \/ \E n \in Path, m \in Target : o = Begin("symlink", n, m)
  BY DEF Calls
<1> QED
  BY <1>1, <1>2, <1>3, Zenon

\* The call that a process makes the next step of holds what op says it holds.
LEMMA OpsFacts ==
  ASSUME TypeInv, NEW p \in Proc, NEW o \in Ops(p)
  PROVE  /\ OpOK(o) /\ o \in OpRec /\ o.pc # "idle" /\ o.ip = op[p].ip /\ o.dp = op[p].dp
         /\ \A i \in Inum : p \in Counting(i) <=> o.ip = i /\ o.call = "link" /\ o.pc \in {"name", "bad"}
         /\ op[p].pc = "idle" => group < MaxGroup
<1>1. CASE op[p].pc = "idle"
  <2>1. o \in Calls /\ group < MaxGroup
    BY <1>1, Zenon DEF Ops
  <2>2. op[p] = Idle
    BY <1>1, Zenon DEF TypeInv, OpOK
  <2>3. OpOK(o) /\ o.pc = "name" /\ o.ip = 0 /\ o.dp = 0
    BY <2>1, CallsFacts, Zenon
  <2>4. op[p].ip = 0 /\ op[p].dp = 0
    BY <2>2, NullTypes, Zenon
  <2>5. o \in OpRec
    BY <2>3, Zenon DEF OpOK
  <2>6. \A i \in Inum : p \notin Counting(i) /\ o.ip # i
    BY <2>3, <2>4, ConstFacts, Zenon DEF Counting
  <2> QED
    BY <2>1, <2>3, <2>4, <2>5, <2>6, Zenon
<1>2. CASE op[p].pc # "idle"
  BY <1>2, Zenon DEF Ops, TypeInv, Counting, OpOK
<1> QED
  BY <1>1, <1>2, Zenon

-----------------------------------------------------------------------------
(* Freeing inodes. *)

\* A part with nothing in it counts 0, one with something at least 1.
LEMMA CardPositive ==
  ASSUME NEW U, Sizes(U)
  PROVE  /\ Cardinality({}) = 0
         /\ \A S \in SUBSET U : S # {} => Cardinality(S) \in Nat /\ Cardinality(S) >= 1
BY DEF Sizes

\* One more counts one more.
LEMMA CardAdd ==
  ASSUME NEW U, Sizes(U), NEW S \in SUBSET U, NEW x \in U, x \notin S
  PROVE  Cardinality(S \cup {x}) = Cardinality(S) + 1
BY Zenon DEF Sizes

\* One less counts one less.
LEMMA CardRemove ==
  ASSUME NEW U, Sizes(U), NEW S \in SUBSET U, NEW x \in S
  PROVE  Cardinality(S \ {x}) = Cardinality(S) - 1
<1> DEFINE T == S \ {x}
<1>1. T \in SUBSET U /\ x \in U /\ x \notin T /\ T \cup {x} = S
  BY Zenon
<1>2. Cardinality(T) \in Nat
  BY <1>1, Zenon DEF Sizes
<1> HIDE DEF T
<1>3. Cardinality(S) = Cardinality(T) + 1
  BY <1>1, CardAdd, Zenon
<1> QED
  BY <1>2, <1>3 DEF T

\* A single one counts 1.
LEMMA CardOne ==
  ASSUME NEW U, Sizes(U), NEW x \in U
  PROVE  Cardinality({x}) = 1
<1>1. {} \in SUBSET U /\ {} \cup {x} = {x}
  BY Zenon
<1> QED
  BY <1>1, CardAdd, CardPositive

\* The entries of an inode, its subdirectories and the calls are parts of such
\* sets, so that its links are a number.
LEMMA CardFacts ==
  ASSUME Sized, NEW ino, NEW i \in Inum, NEW C \in SUBSET Proc
  PROVE  /\ EntriesOf(ino, i) \in SUBSET (Inum \X Name) /\ SubdirsOf(ino, i) \in SUBSET Name
         /\ Cardinality(EntriesOf(ino, i)) \in Nat /\ Cardinality(SubdirsOf(ino, i)) \in Nat
         /\ Cardinality(C) \in Nat /\ LinksOf(ino, i, C) \in Nat
<1>1. EntriesOf(ino, i) \in SUBSET (Inum \X Name) /\ SubdirsOf(ino, i) \in SUBSET Name
  BY Zenon DEF EntriesOf, SubdirsOf
<1>2. Cardinality(EntriesOf(ino, i)) \in Nat /\ Cardinality(SubdirsOf(ino, i)) \in Nat
      /\ Cardinality(C) \in Nat
  BY <1>1, Zenon DEF Sized, Sizes
<1> QED
  BY <1>1, <1>2 DEF LinksOf

\* Inodes freed in ino that have no links are missed by nobody.
LEMMA FreeKeepsGood ==
  ASSUME Sized, NEW ino, InodesOK(ino), NEW C \in [Inum -> SUBSET Proc], Good(ino, C),
         NEW F \in SUBSET Inum, \A i \in F : ino[i].nlink = 0,
         NEW ino2, ino2 = [i \in Inum |-> IF i \in F THEN Free ELSE ino[i]]
  PROVE  InodesOK(ino2) /\ Good(ino2, C)
<1> USE ConstFacts, NullTypes
<1>1. InodesOK(ino2)
  BY Zenon DEF InodesOK, Free
<1>2. \A i \in Inum : /\ EntriesOf(ino, i) \in SUBSET (Inum \X Name)
                      /\ Cardinality(EntriesOf(ino, i)) \in Nat /\ Cardinality(SubdirsOf(ino, i)) \in Nat
                      /\ Cardinality(C[i]) \in Nat
  BY CardFacts, Zenon
<1>3. \A i \in F : EntriesOf(ino, i) = {} /\ i # Root
  <2> TAKE i \in F
  <2>1. CASE ino[i].type = "none"
    BY <2>1, Zenon DEF Good, Tidy
  <2>2. CASE ino[i].type # "none"
    <3>1. LinksOf(ino, i, C[i]) = 0
      BY <2>2, Zenon DEF Good, Counted
    <3>2. Cardinality(EntriesOf(ino, i)) = 0 /\ i # Root
      BY <1>2, <3>1 DEF LinksOf
    <3> QED
      BY <1>2, <3>2, Zenon DEF Sized, Sizes
  <2> QED
    BY <2>1, <2>2, Zenon
<1>4. \A i \in F : ino[i].ent = NoEntries
  BY Zenon DEF Good, Tidy
<1>5. /\ \A i \in Inum : ino2[i].ent = ino[i].ent
      /\ \A i \in Inum \ F : ino2[i] = ino[i]
      /\ \A i \in F : ino2[i].type = "none" /\ ino2[i].nlink = 0
  BY <1>4, Zenon DEF Free
<1>6. \A i \in Inum : EntriesOf(ino2, i) = EntriesOf(ino, i)
  BY <1>5 DEF EntriesOf
<1>7. \A i \in Inum : SubdirsOf(ino2, i) = SubdirsOf(ino, i)
  <2> TAKE i \in Inum
  <2>1. \A n \in Name : ino[i].ent[n] # 0 => ino[i].ent[n] \in Inum \ F
    <3> TAKE n \in Name
    <3> HAVE ino[i].ent[n] # 0
    <3>1. ino[i].ent[n] \in Inum
      BY DEF InodesOK, InodeRec
    <3>2. <<i, n>> \in EntriesOf(ino, ino[i].ent[n])
      BY Zenon DEF EntriesOf
    <3> QED
      BY <1>3, <3>1, <3>2, Zenon
  <2> QED
    BY <1>5, <2>1 DEF SubdirsOf
<1>8. Counted(ino2, C)
  BY <1>5, <1>6, <1>7, ZenonT(30) DEF Good, Counted, LinksOf
<1>9. Tidy(ino2)
  BY <1>3, <1>4, <1>5, <1>6, Zenon DEF Good, Tidy
<1>10. Linked(ino2) = Linked(ino) /\ Linked(ino) \cap F = {}
  <2>1. \A i \in F : ~ (ino[i].nlink > 0) /\ ~ (ino2[i].nlink > 0)
    <3> TAKE i \in F
    <3>1. ino[i].nlink = 0 /\ ino2[i].nlink = 0
      BY <1>5, Zenon
    <3> QED
      BY <3>1, 0 \in Int
  <2>2. \A i \in Inum : i \in Linked(ino) => i \notin F
    BY <2>1, Zenon DEF Linked
  <2>3. \A i \in Inum : i \in Linked(ino2) => i \notin F
    BY <2>1, Zenon DEF Linked
  <2>4. \A i \in Inum : i \in Linked(ino2) <=> i \in Linked(ino)
    BY <1>5, <2>2, <2>3, Zenon DEF Linked
  <2>5. Linked(ino) \subseteq Inum /\ Linked(ino2) \subseteq Inum
    BY Zenon DEF Linked
  <2> QED
    BY <2>2, <2>4, <2>5, Zenon
<1>11. Below(ino2)
  <2> SUFFICES ASSUME NEW i \in Linked(ino)
               PROVE  \E n \in Name : EntriesOf(ino2, i) = {<<ino2[i].dotdot, n>>}
                                      /\ ino2[ino2[i].dotdot].nlink # 0
    BY <1>10, Zenon DEF Below
  <2>1. i \in Inum /\ ino2[i] = ino[i]
    BY <1>5, <1>10, Zenon DEF Linked
  <2>2. PICK n \in Name : EntriesOf(ino, i) = {<<ino[i].dotdot, n>>} /\ ino[ino[i].dotdot].nlink # 0
    BY Zenon DEF Good, Below
  <2>3. ino[i].dotdot \in Inum
    <3>1. <<ino[i].dotdot, n>> \in EntriesOf(ino, i)
      BY <2>2, Zenon
    <3> QED
      BY <3>1, Zenon DEF EntriesOf
  <2> QED
    BY <1>5, <1>6, <2>2, <2>1, <2>3, Zenon
<1>12. NoCycle(ino2)
  <2> SUFFICES ASSUME NEW D \in SUBSET Linked(ino), D # {}
               PROVE  \E i \in D : ino2[i].dotdot \notin D
    BY <1>10, Zenon DEF NoCycle
  <2>1. PICK i \in D : ino[i].dotdot \notin D
    BY Zenon DEF Good, NoCycle
  <2>2. ino2[i] = ino[i]
    BY <1>5, <1>10, Zenon DEF Linked
  <2> QED
    BY <2>1, <2>2, Zenon
<1> QED
  BY <1>1, <1>8, <1>9, <1>11, <1>12, Zenon DEF Good
-----------------------------------------------------------------------------
(* Steps of a call. *)

\* LinkInv and HeldInv for the inodes ino and what is held after the step.
LinkTo(ino) == \A q \in Proc, i \in Inum : q \in Counting(i)' => ino[i].type # "dir"
HeldTo(ino) == \A i \in Inum : ino[i].type = "none" => ~Held(i)'

\* A step of a call keeps the invariant if the inodes it makes, before iput, are
\* in order, and if it puts every inode without links that nobody holds any more.
LEMMA StepKeeps ==
  ASSUME Sized, IInv, NEW p \in Proc, NEW o, OpOK(o), NEW ino, InodesOK(ino), NEW S,
         Step(p, o, ino, S), cwd' \in [Proc -> Inum], files' \in [File -> FileRec],
         strayed' \in BOOLEAN, strayed => strayed',
         op[p].pc = "idle" => group < MaxGroup,
         \A i \in Inum : ino[i].type # "none" /\ ino[i].nlink = 0 => i \in S \/ Held(i)',
         ~strayed' => Good(ino, Count') /\ LinkTo(ino) /\ HeldTo(ino)
  PROVE  IInv'
<1> DEFINE F == {i \in Inum : i \in S /\ ino[i].nlink = 0 /\ ~Held(i)'}
<1>1. /\ op' = [op EXCEPT ![p] = o]
      /\ inode' = [i \in Inum |-> IF i \in F THEN Free ELSE ino[i]]
      /\ panicked' = panicked
  BY Zenon DEF Step, iput, Log
<1>2. /\ F \in SUBSET Inum
      /\ \A i \in F : ino[i].nlink = 0 /\ ~Held(i)' /\ inode'[i] = Free
      /\ \A i \in Inum \ F : inode'[i] = ino[i] /\ (i \in S /\ ino[i].nlink = 0 => Held(i)')
  BY <1>1, Zenon
<1> HIDE DEF F
<1>3. InodesOK(inode')
  BY <1>1, NullTypes, Zenon DEF InodesOK, Free
<1>4. op' \in [Proc -> OpRec] /\ \A q \in Proc : OpOK(op'[q])
  <2>1. op \in [Proc -> OpRec] /\ (\A q \in Proc : OpOK(op[q])) /\ o \in OpRec
    BY Zenon DEF IInv, TypeInv, OpOK
  <2>2. op'[p] = o /\ \A q \in Proc \ {p} : op'[q] = op[q]
    BY <1>1, <2>1, Zenon
  <2> QED
    BY <1>1, <2>1, <2>2, Zenon
<1>5. /\ group' \in 0 .. MaxGroup
      /\ \/ disk' = inode' /\ \A q \in Proc : op'[q].pc = "idle"
         \/ disk' = disk
  <2> DEFINE begins == IF op[p].pc = "idle" THEN 1 ELSE 0
             last == o.pc = "idle" /\ \A q \in Proc \ {p} : op[q].pc = "idle"
  <2>1. group' = (IF last THEN 0 ELSE group + begins) /\ disk' = IF last THEN inode' ELSE disk
    BY Zenon DEF Step, Log
  <2>2. group \in 0 .. MaxGroup /\ MaxGroup \in Nat /\ begins \in {0, 1} /\ (begins = 1 => group < MaxGroup)
    BY NamesAssumption DEF IInv, TypeInv
  <2>3. last => \A q \in Proc : op'[q].pc = "idle"
    BY <1>1, Zenon DEF IInv, TypeInv
  <2> HIDE DEF begins, last
  <2>4. group' \in 0 .. MaxGroup
    BY <2>1, <2>2
  <2> QED
    BY <2>1, <2>3, <2>4, Zenon
<1>6. TypeInv'
  <2>1. InodesOK(disk')
    BY <1>3, <1>5, Zenon DEF IInv, TypeInv
  <2> QED
    BY <1>1, <1>3, <1>5, <1>4, <2>1, Zenon DEF IInv, TypeInv
<1>7. NoOrphans'
  BY <1>2 DEF NoOrphans, Free
<1>8. ASSUME ~strayed'
      PROVE  Good(inode, Count)' /\ LinkInv(inode)' /\ HeldInv(inode)' /\ Good(disk, NoCount)'
  <2>1. Count' \in [Inum -> SUBSET Proc] /\ \A i \in Inum : Count'[i] = Counting(i)'
    BY Zenon DEF Count, Counting
  <2>2. Good(inode', Count')
    BY <1>1, <1>2, <2>1, <1>8, FreeKeepsGood, ZenonT(30)
  <2>3. LinkInv(inode)'
    BY <1>2, <1>8 DEF LinkInv, LinkTo, Free
  <2>4. HeldInv(inode)'
    BY <1>2, <1>8, Zenon DEF HeldInv, HeldTo
  <2>5. (\A q \in Proc : op'[q].pc = "idle") => Count' = NoCount
    BY <2>1, Zenon DEF Counting, NoCount
  <2>6. Good(disk', NoCount)
    BY <1>5, <2>2, <1>8, <2>5, Zenon DEF IInv
  <2> QED
    BY <2>2, <2>3, <2>4, <2>6, Zenon DEF NoCount
<1> QED
  BY <1>6, <1>7, <1>8, Zenon DEF IInv

\* What is held after a step of p that leaves files and current directories alone,
\* and whose call counted a link.
LEMMA HeldStep ==
  ASSUME TypeInv, NEW p \in Proc, NEW o, NEW ino, NEW S, Step(p, o, ino, S)
  PROVE  /\ cwd' = cwd /\ files' = files =>
              \A i \in Inum : /\ Held(i)' => Held(i) \/ i \in {o.ip, o.dp}
                              /\ Held(i) => Held(i)' \/ i \in {op[p].ip, op[p].dp}
         /\ \A i \in Inum : i \in {o.ip, o.dp, cwd'[p]} => Held(i)'
         /\ \A i \in Inum : /\ p \in Counting(i)' <=> o.ip = i /\ o.call = "link" /\ o.pc \in {"name", "bad"}
                            /\ \A q \in Proc \ {p} : q \in Counting(i)' <=> q \in Counting(i)
<1>1. op'[p] = o /\ \A q \in Proc \ {p} : op'[q] = op[q]
  BY Zenon DEF TypeInv, Step
<1>2. cwd' = cwd /\ files' = files =>
        \A i \in Inum : /\ Held(i)' => Held(i) \/ i \in {o.ip, o.dp}
                        /\ Held(i) => Held(i)' \/ i \in {op[p].ip, op[p].dp}
  BY <1>1, Zenon DEF Held
<1>3. \A i \in Inum : i \in {o.ip, o.dp, cwd'[p]} => Held(i)'
  BY <1>1, Zenon DEF Held
<1>4. \A i \in Inum : /\ p \in Counting(i)' <=> o.ip = i /\ o.call = "link" /\ o.pc \in {"name", "bad"}
                      /\ \A q \in Proc \ {p} : q \in Counting(i)' <=> q \in Counting(i)
  BY <1>1, Zenon DEF Counting
<1> QED
  BY <1>2, <1>3, <1>4, Zenon

\* A step that leaves the inodes alone, but for those it puts.
LEMMA KeepStep ==
  ASSUME Sized, IInv, NEW p \in Proc, NEW o2, OpOK(o2), NEW S, Step(p, o2, inode, S),
         op[p].pc = "idle" => group < MaxGroup, cwd' \in [Proc -> Inum], files' \in [File -> FileRec],
         strayed' \in BOOLEAN, strayed => strayed',
         \A i \in Inum : Held(i) => Held(i)' \/ i \in S,
         ~strayed' => \A i \in Inum : Held(i)' => Held(i) \/ inode[i].type # "none",
         \A i \in Inum : p \in Counting(i)' <=> p \in Counting(i)
  PROVE  IInv'
<1>1. TypeInv /\ InodesOK(inode)
  BY Zenon DEF IInv, TypeInv
<1>3. \A i \in Inum : Counting(i)' = Counting(i)
  <2> TAKE i \in Inum
  <2>1. \A q \in Proc : q \in Counting(i)' <=> q \in Counting(i)
    BY <1>1, HeldStep
  <2> QED
    BY <2>1, Zenon DEF Counting
<1>4. Count' = Count
  BY <1>3, Zenon DEF Count
<1>5. \A i \in Inum : inode[i].type # "none" /\ inode[i].nlink = 0 => i \in S \/ Held(i)'
  BY Zenon DEF IInv, NoOrphans
<1>6. ~strayed' => Good(inode, Count') /\ LinkTo(inode) /\ HeldTo(inode)
  BY <1>3, <1>4, Zenon DEF IInv, LinkInv, LinkTo, HeldInv, HeldTo
<1> HIDE DEF IInv
<1> QED
  BY <1>1, <1>5, <1>6, StepKeeps, Zenon

\* The same, where files and current directories do not change, either: p holds
\* what o2 says, and puts the rest of what it held.
LEMMA PlainStep ==
  ASSUME Sized, IInv, NEW p \in Proc, NEW o \in Ops(p), NEW o2, OpOK(o2), NEW S, Step(p, o2, inode, S),
         cwd' = cwd, files' = files, strayed' \in BOOLEAN, strayed => strayed',
         {o.ip, o.dp} \subseteq {0, o2.ip, o2.dp} \cup S,
         ~strayed' => \A i \in Inum : i \in {o2.ip, o2.dp} => i \in {o.ip, o.dp} \/ inode[i].type # "none",
         \A i \in Inum : (o2.ip = i /\ o2.call = "link" /\ o2.pc \in {"name", "bad"})
                           <=> (o.ip = i /\ o.call = "link" /\ o.pc \in {"name", "bad"})
  PROVE  IInv'
<1>1. TypeInv /\ cwd' \in [Proc -> Inum] /\ files' \in [File -> FileRec]
  BY Zenon DEF IInv, TypeInv
<1>3. /\ op[p].pc = "idle" => group < MaxGroup
      /\ o.ip = op[p].ip /\ o.dp = op[p].dp
      /\ \A i \in Inum : p \in Counting(i) <=> o.ip = i /\ o.call = "link" /\ o.pc \in {"name", "bad"}
  BY <1>1, OpsFacts, Zenon
<1>4. /\ \A i \in Inum : Held(i)' => Held(i) \/ i \in {o2.ip, o2.dp}
      /\ \A i \in Inum : Held(i) => Held(i)' \/ i \in {o.ip, o.dp}
      /\ \A i \in Inum : i \in {o2.ip, o2.dp} => Held(i)'
      /\ \A i \in Inum : p \in Counting(i)' <=> o2.ip = i /\ o2.call = "link" /\ o2.pc \in {"name", "bad"}
  BY <1>1, <1>3, HeldStep
<1>5. \A i \in Inum : Held(i) => Held(i)' \/ i \in S
  BY <1>4, ConstFacts, ZenonT(30)
<1>6. \A i \in Inum : i \in {o.ip, o.dp} => Held(i)
  BY <1>3, Zenon DEF Held
<1>7. ~strayed' => \A i \in Inum : Held(i)' => Held(i) \/ inode[i].type # "none"
  BY <1>4, <1>6, Zenon
<1> QED
  BY <1>1, <1>3, <1>4, <1>5, <1>7, KeepStep, ZenonT(30)

\* The names that a call finds lead to inodes that are not free.
LEMMA LookupFacts ==
  ASSUME Sized, IInv, NEW d \in Inum, NEW n \in Name \cup {".."}
  PROVE  /\ dirlookup(d, n) \in InodeNo
         /\ ~strayed /\ dirlookup(d, n) # 0 /\ inode[d].type = "dir" /\ (n = ".." => ~Dead(d))
              => inode[dirlookup(d, n)].type # "none"
<1>1. InodesOK(inode) /\ inode[d] \in InodeRec /\ inode[d].nlink \in Int
  BY Zenon DEF IInv, TypeInv, InodesOK, InodeRec
<1>2. dirlookup(d, n) \in InodeNo
  BY <1>1, Zenon DEF dirlookup, InodeRec
<1>3. ASSUME n # "..", ~strayed, dirlookup(d, n) # 0
      PROVE  inode[dirlookup(d, n)].type # "none"
  <2>1. n \in Name /\ dirlookup(d, n) = inode[d].ent[n] /\ dirlookup(d, n) \in Inum
    BY <1>2, <1>3, ConstFacts, Zenon DEF dirlookup
  <2>2. <<d, n>> \in EntriesOf(inode, dirlookup(d, n))
    BY <2>1, Zenon DEF EntriesOf
  <2> QED
    BY <2>1, <1>3, <2>2, Zenon DEF IInv, Good, Tidy
<1>4. ASSUME n = "..", ~strayed, inode[d].type = "dir", ~Dead(d)
      PROVE  inode[dirlookup(d, n)].type # "none"
  <2>1. dirlookup(d, n) = inode[d].dotdot
    BY <1>4, Zenon DEF dirlookup
  <2>2. CASE d = Root
    BY <2>1, <1>4, <2>2, Zenon DEF IInv, Good, Tidy
  <2>3. CASE d # Root
    <3>1. inode[d].nlink \in Int /\ inode[d].nlink # 0
      BY <1>1, <1>4, Zenon DEF Dead
    <3>2. inode[d].nlink = LinksOf(inode, d, Count[d])
      BY <1>4, Zenon DEF IInv, Good, Counted
    <3>3. inode[d].nlink >= 0
      <4>1. Count[d] \in SUBSET Proc
        BY Zenon DEF Count, Counting
      <4>2. LinksOf(inode, d, Count[d]) \in Nat
        BY <4>1, CardFacts, ZenonT(30)
      <4> QED
        BY <4>2, <3>2
    <3>4. d \in Linked(inode)
      BY <1>4, <2>3, <3>1, <3>3 DEF Linked
    <3>5. PICK m \in Name : EntriesOf(inode, d) = {<<inode[d].dotdot, m>>}
      BY <1>4, <3>4, Zenon DEF IInv, Good, Below
    <3>6. <<inode[d].dotdot, m>> \in EntriesOf(inode, d)
      BY <3>5, Zenon
    <3>7. inode[d].dotdot \in Inum /\ inode[inode[d].dotdot].ent[m] = d
      BY <3>6, Zenon DEF EntriesOf
    <3>8. inode[inode[d].dotdot].ent # NoEntries
      BY <3>7, ConstFacts, Zenon DEF NoEntries
    <3> QED
      BY <2>1, <3>7, <1>4, <3>8, Zenon DEF IInv, Good, Tidy
  <2> QED
    BY <2>2, <2>3, Zenon
<1> QED
  BY <1>2, <1>3, <1>4, Zenon
-----------------------------------------------------------------------------
(* How a call goes on. *)

\* The call o has found inode i; goes on to directory i; begins again with path t;
\* has counted its link.
Found(o, i) == [pc |-> "inode", call |-> o.call, path |-> <<>>, new |-> o.new, dp |-> 0, ip |-> i,
                count |-> o.count]
Onward(o, i) == [pc |-> o.pc, call |-> o.call, path |-> Tail(o.path), new |-> o.new, dp |-> i, ip |-> o.ip,
                 count |-> o.count]
Follow(o, t) == [pc |-> "name", call |-> o.call, path |-> t, new |-> t, dp |-> o.dp, ip |-> 0,
                 count |-> o.count + 1]
Linking(o) == [pc |-> "name", call |-> o.call, path |-> o.new, new |-> <<>>, dp |-> o.dp, ip |-> o.ip,
               count |-> o.count]

\* The actions say the same with EXCEPT.
LEMMA GoingOn ==
  ASSUME NEW o \in OpRec
  PROVE  /\ \A i : Found(o, i) = [o EXCEPT !.pc = "inode", !.dp = 0, !.path = <<>>, !.ip = i]
         /\ \A i : Onward(o, i) = [o EXCEPT !.dp = i, !.path = Tail(@)]
         /\ \A t : Follow(o, t) = [o EXCEPT !.pc = "name", !.ip = 0, !.path = t, !.new = t, !.count = @ + 1]
         /\ Linking(o) = [o EXCEPT !.pc = "name", !.path = o.new, !.new = <<>>]
<1>1. ASSUME NEW i, NEW x, x = [o EXCEPT !.pc = "inode", !.dp = 0, !.path = <<>>, !.ip = i]
      PROVE  x = Found(o, i)
  BY <1>1, Zenon DEF OpRec, Found
<1>2. ASSUME NEW i, NEW x, x = [o EXCEPT !.dp = i, !.path = Tail(@)]
      PROVE  x = Onward(o, i)
  BY <1>2, Zenon DEF OpRec, Onward
<1>3. ASSUME NEW t, NEW x, x = [o EXCEPT !.pc = "name", !.ip = 0, !.path = t, !.new = t, !.count = @ + 1]
      PROVE  x = Follow(o, t)
  BY <1>3, Zenon DEF OpRec, Follow
<1>4. ASSUME NEW x, x = [o EXCEPT !.pc = "name", !.path = o.new, !.new = <<>>]
      PROVE  x = Linking(o)
  BY <1>4, Zenon DEF OpRec, Linking
<1> QED
  BY <1>1, <1>2, <1>3, <1>4, Zenon

\* Paths, their first names and what is behind them.
LEMMA PathFacts ==
  /\ <<>> \in Seq(Name) /\ <<>> \in Seq(Name \cup {".."})
  /\ \A s \in Seq(Name) : s \in Seq(Name \cup {".."})
  /\ \A s \in Seq(Name \cup {".."}) : s # <<>> => s[1] \in Name \cup {".."} /\ Head(s) = s[1]
  /\ \A s \in Seq(Name) : s # <<>> => s[1] \in Name
  /\ \A s \in Seq(Name) : Len(s) > 1 => Tail(s) \in Seq(Name) /\ Tail(s) # <<>>
  /\ \A s : Len(s) > 1 => s # <<"..">>
<1>1. <<>> \in Seq(Name) /\ <<>> \in Seq(Name \cup {".."})
  OBVIOUS
<1>2. \A s \in Seq(Name) : s \in Seq(Name \cup {".."})
  OBVIOUS
<1>3. \A s \in Seq(Name \cup {".."}) : s # <<>> => s[1] \in Name \cup {".."} /\ Head(s) = s[1]
  OBVIOUS
<1>4. \A s \in Seq(Name) : s # <<>> => s[1] \in Name
  OBVIOUS
<1>5. \A s \in Seq(Name) : Len(s) > 1 => Tail(s) \in Seq(Name) /\ Tail(s) # <<>>
  <2> TAKE s \in Seq(Name)
  <2> HAVE Len(s) > 1
  <2>1. s # <<>> /\ Len(s) \in Nat
    OBVIOUS
  <2>2. Tail(s) \in Seq(Name) /\ Len(Tail(s)) = Len(s) - 1
    BY <2>1
  <2>3. Len(Tail(s)) # Len(<<>>)
    BY <2>1, <2>2
  <2> QED
    BY <2>2, <2>3, Zenon
<1>6. \A s : Len(s) > 1 => s # <<"..">>
  <2>1. Len(<<"..">>) = 1
    BY Zenon
  <2>2. ~ (Len(<<"..">>) > 1)
    BY <2>1
  <2> QED
    BY <2>2, Zenon
<1> QED
  BY <1>1, <1>2, <1>3, <1>4, <1>5, <1>6, Zenon

\* The call has found its inode.
LEMMA ToInode ==
  ASSUME NEW o, OpOK(o), o.pc = "name", o.ip = 0,
         o.call \in {"open", "create", "mkdir", "chdir", "link", "symlink"}, NEW i \in Inum
  PROVE  OpOK(Found(o, i)) /\ Found(o, i).pc = "inode" /\ Found(o, i).ip = i /\ Found(o, i).dp = 0
<1>1. o.call \in {"open", "create", "mkdir", "chdir", "link", "symlink"} /\ o.new \in Seq(Name)
      /\ o.count \in 0 .. MaxFollow
  BY Zenon DEF OpOK, OpRec
<1>2. o.call \in {"open", "symlink", "link"} => o.new # <<>>
  BY Zenon DEF OpOK
<1>3. i \in InodeNo /\ 0 \in InodeNo /\ i # 0 /\ <<>> \in Seq(Name \cup {".."})
  BY ConstFacts, PathFacts, Zenon
<1>4. Found(o, i) \in OpRec
  BY <1>1, <1>3, Zenon DEF OpRec, Found
<1> QED
  BY <1>1, <1>3, <1>2, <1>4, Zenon DEF OpOK, Found

\* The call goes on to the next name of its path.
LEMMA ToNext ==
  ASSUME NEW o, OpOK(o), o.pc = "name", Len(o.path) > 1, NEW i \in InodeNo
  PROVE  OpOK(Onward(o, i)) /\ Onward(o, i).pc = "name" /\ Onward(o, i).call = o.call
         /\ Onward(o, i).ip = o.ip /\ Onward(o, i).dp = i
<1>1. o.path \in Seq(Name) /\ Tail(o.path) \in Seq(Name) /\ Tail(o.path) # <<>>
  <2>1. o.path # <<"..">>
    BY PathFacts, Zenon
  <2>2. o.path \in Seq(Name)
    BY <2>1, Zenon DEF OpOK
  <2> QED
    BY <2>2, PathFacts, Zenon
<1>2. Tail(o.path) \in Seq(Name \cup {".."})
  BY <1>1, PathFacts, Zenon
<1>3. Onward(o, i) \in OpRec
  BY <1>2, Zenon DEF OpOK, OpRec, Onward
<1> QED
  BY <1>1, <1>3, Zenon DEF OpOK, Onward

\* A path does not exist: the call is over, or sys_link takes its link back.
LEMMA ToNotFound ==
  ASSUME NEW o, OpOK(o), o.pc = "name"
  PROVE  /\ OpOK(NotFound(o)) /\ NotFound(o).ip = o.ip /\ NotFound(o).dp = 0
         /\ \A i \in Inum : (NotFound(o).ip = i /\ NotFound(o).call = "link" /\ NotFound(o).pc \in {"name", "bad"})
                              <=> (o.ip = i /\ o.call = "link" /\ o.pc \in {"name", "bad"})
<1>1. o \in OpRec /\ (o.ip # 0 => o.call = "link")
  BY Zenon DEF OpOK
<1>2. CASE o.ip = 0
  BY <1>2, NullTypes, ConstFacts, Zenon DEF NotFound
<1>3. CASE o.ip # 0
  <2>1. NotFound(o) = [pc |-> "bad", call |-> o.call, path |-> <<>>, new |-> o.new, dp |-> 0, ip |-> o.ip,
                       count |-> o.count]
    BY <1>1, <1>3, Zenon DEF NotFound, OpRec
  <2>2. o.new \in Seq(Name) /\ o.ip \in InodeNo /\ o.count \in 0 .. MaxFollow /\ o.call = "link"
    BY <1>1, <1>3, Zenon DEF OpRec
  <2>3. 0 \in InodeNo /\ <<>> \in Seq(Name \cup {".."})
    BY ConstFacts, PathFacts, Zenon
  <2>4. NotFound(o) \in OpRec
    BY <2>1, <2>2, <2>3 DEF OpRec
  <2> QED
    BY <1>3, <2>1, <2>2, <2>4 DEF OpOK
<1> QED
  BY <1>2, <1>3, Zenon

\* sys_open begins again with another path.
LEMMA ToFollow ==
  ASSUME NEW o, OpOK(o), o.call = "open", o.pc = "inode", o.count < MaxFollow, NEW t \in Seq(Name), t # <<>>
  PROVE  OpOK(Follow(o, t)) /\ Follow(o, t).call = "open" /\ Follow(o, t).ip = 0 /\ Follow(o, t).dp = 0
<1>1. o.dp = 0 /\ o.count + 1 \in 0 .. MaxFollow /\ t \in Seq(Name \cup {".."})
  <2>1. o.dp = 0 /\ o.count \in 0 .. MaxFollow /\ MaxFollow \in Nat
    BY NamesAssumption, Zenon DEF OpOK, OpRec
  <2> QED
    BY <2>1, PathFacts
<1>2. Follow(o, t) \in OpRec
  BY <1>1, ConstFacts, Zenon DEF OpRec, Follow
<1> QED
  BY <1>1, <1>2, Zenon DEF OpOK, Follow

\* sys_link has counted its link and goes on to the new path.
LEMMA ToNew ==
  ASSUME NEW o, OpOK(o), o.call = "link", o.pc = "inode"
  PROVE  OpOK(Linking(o)) /\ Linking(o).pc = "name" /\ Linking(o).call = "link" /\ Linking(o).ip = o.ip
         /\ Linking(o).dp = 0
<1>1. o.dp = 0 /\ o.ip # 0 /\ o.new # <<>> /\ o.new \in Seq(Name) /\ o.ip \in InodeNo
      /\ o.count \in 0 .. MaxFollow
  BY Zenon DEF OpOK, OpRec
<1>2. o.new \in Seq(Name \cup {".."}) /\ <<>> \in Seq(Name) /\ 0 \in InodeNo
  BY <1>1, PathFacts, ConstFacts, Zenon
<1>3. Linking(o) \in OpRec
  BY <1>1, <1>2, Zenon DEF OpRec, Linking
<1> QED
  BY <1>1, <1>2, <1>3, Zenon DEF OpOK, Linking

\* The inodes that a call locks.
LEMMA LockFacts ==
  ASSUME TypeInv, NEW p \in Proc, NEW o \in Ops(p)
  PROVE  /\ OpOK(o)
         /\ Dir(p, o) \in Inum /\ o.dp \in {0, Dir(p, o)} /\ cwd[p] \in Inum
         /\ At(p, o, "name") => o.pc = "name" /\ inode[Dir(p, o)].type # "none"
         /\ \A pc \in {"inode", "bad"} :
              At(p, o, pc) => o.pc = pc /\ o.ip \in Inum /\ o.dp = 0 /\ inode[o.ip].type # "none"
<1>1. OpOK(o) /\ o \in OpRec
  BY OpsFacts, Zenon
<1>2. o.dp \in InodeNo /\ o.ip \in InodeNo /\ cwd[p] \in Inum
  BY <1>1, Zenon DEF OpRec, TypeInv
<1>3. Dir(p, o) \in Inum /\ o.dp \in {0, Dir(p, o)}
  BY <1>2, ConstFacts, Zenon DEF Dir
<1>4. o.pc \in {"inode", "bad"} => o.ip \in Inum /\ o.dp = 0
  BY <1>1, <1>2, ConstFacts, Zenon DEF OpOK
<1> QED
  BY <1>1, <1>2, <1>3, <1>4, Zenon DEF At, Locked
-----------------------------------------------------------------------------
(* Steps of namex, and of calls that have found their inode. *)

\* A step that changes neither inodes nor what is held.
LEMMA SameKeeps ==
  ASSUME IInv, UNCHANGED <<inode, cwd, op, strayed, group, disk>>, panicked' \in BOOLEAN,
         files' \in [File -> FileRec], \A f \in File : files'[f].ip = files[f].ip
  PROVE  IInv'
<1>1. \A i \in Inum : Held(i)' <=> Held(i)
  BY Zenon DEF Held
<1>2. \A i \in Inum : Counting(i)' = Counting(i)
  BY Zenon DEF Counting
<1>3. Count' = Count
  BY <1>2, Zenon DEF Count
<1>4. TypeInv'
  BY Zenon DEF IInv, TypeInv
<1>5. NoOrphans'
  BY <1>1, Zenon DEF IInv, NoOrphans
<1>6. ASSUME ~strayed
      PROVE  Good(inode, Count)' /\ LinkInv(inode)' /\ HeldInv(inode)' /\ Good(disk, NoCount)'
  BY <1>1, <1>2, <1>3, <1>6, Zenon DEF IInv, LinkInv, HeldInv, NoCount
<1> QED
  BY <1>4, <1>5, <1>6, Zenon DEF IInv

\* panic changes nothing but itself.
LEMMA PanicKeeps ==
  ASSUME IInv, Panic
  PROVE  IInv'
<1>1. UNCHANGED <<inode, cwd, op, strayed, group, disk>> /\ panicked' \in BOOLEAN
      /\ files' \in [File -> FileRec] /\ \A f \in File : files'[f].ip = files[f].ip
  BY Zenon DEF Panic, IInv, TypeInv
<1> QED
  BY <1>1, SameKeeps, Zenon

\* What a call of p may assume of its step.
LEMMA CallFacts ==
  ASSUME IInv, NEW p \in Proc, NEW o \in Ops(p)
  PROVE  /\ TypeInv /\ OpOK(o) /\ strayed \in BOOLEAN /\ Dir(p, o) \in Inum /\ o.dp \in {0, Dir(p, o)}
         /\ (o.pc = "name" => o.path # <<>> /\ (o.ip # 0 => o.call = "link"))
         /\ (o.pc = "name" /\ o.path # <<>> => o.path[1] \in Name \cup {".."} /\ Head(o.path) = o.path[1])
         /\ (o.pc = "name" /\ o.path[1] = ".." => o.path = <<"..">> /\ o.call = "chdir")
<1>1. TypeInv /\ strayed \in BOOLEAN
  BY Zenon DEF IInv, TypeInv
<1>2. OpOK(o) /\ Dir(p, o) \in Inum /\ o.dp \in {0, Dir(p, o)}
  BY <1>1, LockFacts, Zenon
<1>3. o.path \in Seq(Name \cup {".."})
  BY <1>2, Zenon DEF OpOK, OpRec
<1>4. o.pc = "name" => o.path # <<>> /\ (o.ip # 0 => o.call = "link")
                       /\ (o.path \in Seq(Name) \/ (o.call = "chdir" /\ o.path = <<"..">>))
  BY <1>2, Zenon DEF OpOK
<1>5. o.path # <<>> => o.path[1] \in Name \cup {".."} /\ Head(o.path) = o.path[1]
  BY <1>3, PathFacts, Zenon
<1>6. o.pc = "name" /\ o.path[1] = ".." => o.path = <<"..">> /\ o.call = "chdir"
  BY <1>4, PathFacts, NamesAssumption, Zenon
<1> QED
  BY <1>1, <1>2, <1>4, <1>5, <1>6, Zenon

\* The path does not exist.
LEMMA NotFoundStep ==
  ASSUME Sized, IInv, NEW p \in Proc, NEW o \in Ops(p), o.pc = "name",
         Step(p, NotFound(o), inode, {Dir(p, o)}), cwd' = cwd, files' = files, strayed' = strayed
  PROVE  IInv'
<1>2. OpOK(o) /\ strayed \in BOOLEAN /\ o.dp \in {0, Dir(p, o)}
  BY CallFacts, Zenon
<1>3. /\ OpOK(NotFound(o)) /\ NotFound(o).ip = o.ip /\ NotFound(o).dp = 0
      /\ \A i \in Inum : (NotFound(o).ip = i /\ NotFound(o).call = "link" /\ NotFound(o).pc \in {"name", "bad"})
                              <=> (o.ip = i /\ o.call = "link" /\ o.pc \in {"name", "bad"})
  BY <1>2, ToNotFound, Zenon
<1>4. {o.ip, o.dp} \subseteq {0, NotFound(o).ip, NotFound(o).dp} \cup {Dir(p, o)}
  BY <1>2, <1>3, Zenon
<1>5. \A i \in Inum : i \in {NotFound(o).ip, NotFound(o).dp} => i \in {o.ip, o.dp}
  BY <1>3, ConstFacts, Zenon
<1> QED
  BY <1>2, <1>3, <1>4, <1>5, PlainStep

\* namex meets something that is no directory.
LEMMA not_a_dir_keeps ==
  ASSUME Sized, IInv, NEW p \in Proc, NEW o \in Ops(p), not_a_dir(p, o)
  PROVE  IInv'
<1>1. Step(p, NotFound(o), inode, {Dir(p, o)}) /\ cwd' = cwd /\ files' = files /\ strayed' = strayed
      /\ o.pc = "name"
  BY Zenon DEF not_a_dir, At
<1> QED
  BY <1>1, NotFoundStep, Zenon

\* namex goes on to the next directory, and holds it.
LEMMA walk_keeps ==
  ASSUME Sized, IInv, NEW p \in Proc, NEW o \in Ops(p), walk(p, o)
  PROVE  IInv'
<1> DEFINE d == Dir(p, o)
           next == dirlookup(d, Head(o.path))
           o2 == Onward(o, next)
<1>0. o \in OpRec
  BY CallFacts, ZenonT(30) DEF OpOK
<1>1. /\ Step(p, IF next = 0 THEN NotFound(o) ELSE o2, inode, {d})
      /\ cwd' = cwd /\ files' = files /\ strayed' = strayed
      /\ o.pc = "name" /\ Len(o.path) > 1 /\ inode[d].type = "dir"
  BY <1>0, GoingOn, Zenon DEF walk, InDir, At
<1>2. OpOK(o) /\ strayed \in BOOLEAN /\ d \in Inum /\ o.dp \in {0, d} /\ Head(o.path) \in Name
  <2>1. o.path # <<"..">>
    BY <1>1, PathFacts, ZenonT(30)
  <2> QED
    BY <1>1, <2>1, CallFacts, Zenon
<1>3. next \in InodeNo /\ (~strayed /\ next # 0 => inode[next].type # "none")
  BY <1>1, <1>2, LookupFacts, NamesAssumption, Zenon
<1>4. CASE next = 0
  <2>1. Step(p, NotFound(o), inode, {d})
    BY <1>1, <1>4, Zenon
  <2> HIDE DEF next
  <2> QED
    BY <1>1, <1>2, <2>1, NotFoundStep, Zenon
<1>5. CASE next # 0
  <2>1. OpOK(o2) /\ o2.pc = "name" /\ o2.call = o.call /\ o2.ip = o.ip /\ o2.dp = next
    BY <1>1, <1>2, <1>3, ToNext, Zenon
  <2>2. Step(p, o2, inode, {d})
    BY <1>1, <1>5, Zenon
  <2> HIDE DEF o2, next, d
  <2>3. {o.ip, o.dp} \subseteq {0, o2.ip, o2.dp} \cup {d}
    BY <1>2, <2>1, Zenon
  <2>4. ~strayed => \A i \in Inum : i \in {o2.ip, o2.dp} => i \in {o.ip, o.dp} \/ inode[i].type # "none"
    BY <1>3, <2>1, ConstFacts, Zenon
  <2> QED
    BY <1>1, <1>2, <2>1, <2>2, <2>3, <2>4, PlainStep
<1> QED
  BY <1>4, <1>5, Zenon

\* namei returns an inode, which the call holds.
LEMMA namei_keeps ==
  ASSUME Sized, IInv, NEW p \in Proc, NEW o \in Ops(p), namei(p, o)
  PROVE  IInv'
<1> DEFINE d == Dir(p, o)
           next == dirlookup(d, o.path[1])
           o2 == Found(o, next)
<1>0. o \in OpRec
  BY CallFacts, Zenon DEF OpOK
<1>1. /\ Step(p, IF next = 0 THEN Idle ELSE o2, inode, {d})
      /\ cwd' = cwd /\ files' = files /\ strayed' = (strayed \/ (o.path[1] = ".." /\ Dead(d)))
      /\ o.pc = "name" /\ o.ip = 0 /\ inode[d].type = "dir" /\ o.call \in {"open", "chdir", "link"}
  BY <1>0, GoingOn, ZenonT(30) DEF namei, Last, InDir, At
<1>2. OpOK(o) /\ strayed \in BOOLEAN /\ d \in Inum /\ o.dp \in {0, d} /\ o.path[1] \in Name \cup {".."}
  BY <1>1, CallFacts, Zenon
<1>3. next \in InodeNo /\ (~strayed' /\ next # 0 => inode[next].type # "none")
  BY <1>1, <1>2, LookupFacts, Zenon
<1>4. strayed' \in BOOLEAN /\ (strayed => strayed')
  BY <1>1, <1>2, Zenon
<1>5. CASE next = 0
  <2>1. Step(p, Idle, inode, {d})
    BY <1>1, <1>5, Zenon
  <2> HIDE DEF o2, next, d
  <2> QED
    BY <1>1, <1>2, <1>4, <2>1, NullTypes, ConstFacts, PlainStep
<1>6. CASE next # 0
  <2>1. OpOK(o2) /\ o2.pc = "inode" /\ o2.ip = next /\ o2.dp = 0
    BY <1>1, <1>2, <1>3, <1>6, ConstFacts, ToInode, SMTT(30)
  <2>2. Step(p, o2, inode, {d})
    BY <1>1, <1>6, Zenon
  <2> HIDE DEF o2, next, d
  <2> QED
    BY <1>1, <1>2, <1>3, <1>4, <2>1, <2>2, ConstFacts, PlainStep, SMTT(30)
<1> QED
  BY <1>5, <1>6, Zenon

\* sys_open: a file of inode i is opened in a free slot, or none is.
LEMMA OpenFileFacts ==
  ASSUME TypeInv, NEW i \in Inum, OpenFile(i) \/ files' = files
  PROVE  /\ files' \in [File -> FileRec]
         /\ \A f \in File : files'[f].ip = files[f].ip \/ (files[f].ip = 0 /\ files'[f].ip = i)
<1>1. files \in [File -> FileRec]
  BY Zenon DEF TypeInv
<1>2. [ip |-> i, ref |-> 1] \in FileRec
  BY ConstFacts, NamesAssumption DEF FileRec
<1>3. CASE files' = files
  BY <1>1, <1>3, Zenon
<1>4. ASSUME NEW f \in File, files[f] = NoFile, files' = [files EXCEPT ![f] = [ip |-> i, ref |-> 1]]
      PROVE  /\ files' \in [File -> FileRec]
             /\ \A g \in File : files'[g].ip = files[g].ip \/ (files[g].ip = 0 /\ files'[g].ip = i)
  <2>1. files' \in [File -> FileRec]
    BY <1>1, <1>2, <1>4, Zenon
  <2>2. files[f].ip = 0 /\ files'[f].ip = i
    BY <1>1, <1>4 DEF NoFile
  <2> QED
    BY <1>1, <1>4, <2>1, <2>2, Zenon
<1> QED
  BY <1>3, <1>4, Zenon DEF OpenFile

\* A call that has found its inode is over: it has opened a file, or put the inode.
LEMMA OpenStep ==
  ASSUME Sized, IInv, NEW p \in Proc, NEW o \in Ops(p), At(p, o, "inode"), OpenFile(o.ip) \/ files' = files,
         cwd' = cwd, strayed' = strayed, Step(p, Idle, inode, {o.ip})
  PROVE  IInv'
<1>1. TypeInv /\ strayed \in BOOLEAN /\ cwd \in [Proc -> Inum]
  BY Zenon DEF IInv, TypeInv
<1>2. o.pc = "inode" /\ o.ip \in Inum /\ o.dp = 0
  BY <1>1, LockFacts, Zenon
<1>3. /\ o.ip = op[p].ip /\ o.dp = op[p].dp /\ (op[p].pc = "idle" => group < MaxGroup)
      /\ \A i \in Inum : p \notin Counting(i)
  BY <1>1, <1>2, OpsFacts, Zenon
<1>4. /\ files' \in [File -> FileRec]
      /\ \A f \in File : files'[f].ip = files[f].ip \/ (files[f].ip = 0 /\ files'[f].ip = o.ip)
  BY <1>1, <1>2, OpenFileFacts, Zenon
<1>5. op'[p] = Idle /\ \A q \in Proc \ {p} : op'[q] = op[q]
  BY <1>1, Zenon DEF Step, TypeInv
<1>6. \A i \in Inum : p \notin Counting(i)'
  BY <1>5, NullTypes, ConstFacts, Zenon DEF Counting
<1>7. \A i \in Inum : Held(i) => Held(i)' \/ i \in {o.ip}
  BY <1>2, <1>3, <1>4, <1>5, ConstFacts DEF Held
<1>8. \A i \in Inum : Held(i)' => Held(i)
  <2>1. Held(o.ip)
    BY <1>3, Zenon DEF Held
  <2> QED
    BY <1>4, <1>5, <2>1, NullTypes, ConstFacts DEF Held
<1> QED
  BY <1>1, <1>3, <1>4, <1>6, <1>7, <1>8, NullTypes, KeepStep, Zenon

\* sys_open opens the file, or fails.
LEMMA open_end_keeps ==
  ASSUME Sized, IInv, NEW p \in Proc, NEW o \in Ops(p), open_end(p, o)
  PROVE  IInv'
<1>1. /\ At(p, o, "inode") /\ (OpenFile(o.ip) \/ files' = files)
      /\ cwd' = cwd /\ strayed' = strayed /\ Step(p, Idle, inode, {o.ip})
  BY Zenon DEF open_end
<1> QED
  BY <1>1, OpenStep, Zenon

\* create finds a file to open, or fails.
LEMMA create_open_keeps ==
  ASSUME Sized, IInv, NEW p \in Proc, NEW o \in Ops(p), create_open(p, o)
  PROVE  IInv'
<1>1. /\ At(p, o, "inode") /\ (OpenFile(o.ip) \/ files' = files)
      /\ cwd' = cwd /\ strayed' = strayed /\ Step(p, Idle, inode, {o.ip})
  BY Zenon DEF create_open
<1> QED
  BY <1>1, OpenStep, Zenon

\* sys_open follows a symbolic link.
LEMMA open_follow_keeps ==
  ASSUME Sized, IInv, NEW p \in Proc, NEW o \in Ops(p), open_follow(p, o)
  PROVE  IInv'
<1> DEFINE t == NextPath(o)
           o2 == Follow(o, t)
<1>1. TypeInv /\ OpOK(o) /\ o \in OpRec /\ strayed \in BOOLEAN
  BY CallFacts, ZenonT(30) DEF OpOK
<1>2. /\ At(p, o, "inode") /\ o.call = "open" /\ Follows(o)
      /\ cwd' = cwd /\ files' = files /\ strayed' = strayed /\ Step(p, o2, inode, {o.ip})
  BY <1>1, GoingOn, ZenonT(30) DEF open_follow
<1>3. o.pc = "inode" /\ o.ip \in Inum /\ o.dp = 0
  BY <1>1, <1>2, LockFacts, Zenon
<1>4. t \in Seq(Name) /\ t # <<>>
  <2>1. inode[o.ip].target \in Seq(Name) /\ inode[o.ip].target # <<>>
    BY <1>1, <1>2, <1>3, Zenon DEF Follows, TypeInv, InodesOK, InodeRec
  <2>2. o.new \in Seq(Name) /\ o.new # <<>>
    BY <1>1, <1>2, Zenon DEF OpOK, OpRec
  <2>3. inode[o.ip].target[1] \in Name /\ Tail(o.new) \in Seq(Name)
    BY <2>1, <2>2, PathFacts, SMTT(30)
  <2> DEFINE a == inode[o.ip].target[1]
             s == Tail(o.new)
  <2>4. <<a>> \in Seq(Name) /\ Len(<<a>>) = 1 /\ Len(s) \in Nat
    BY <2>3
  <2> HIDE DEF a, s
  <2>5. <<a>> \o s \in Seq(Name) /\ Len(<<a>> \o s) = 1 + Len(s)
    BY <2>3, <2>4 DEF a, s
  <2>6. Len(<<a>> \o s) # Len(<<>>)
    BY <2>4, <2>5
  <2> QED
    BY <2>5, <2>6, Zenon DEF NextPath, a, s
<1>5. o.count < MaxFollow
  BY <1>2, Zenon DEF Follows
<1> HIDE DEF t
<1>6. OpOK(o2) /\ o2.call = "open" /\ o2.ip = 0 /\ o2.dp = 0
  BY <1>1, <1>2, <1>3, <1>4, <1>5, ToFollow, Zenon
<1> HIDE DEF o2
<1>7. {o.ip, o.dp} \subseteq {0, o2.ip, o2.dp} \cup {o.ip}
  BY <1>3, Zenon
<1> QED
  BY <1>1, <1>2, <1>3, <1>6, <1>7, ConstFacts, PlainStep, SMTT(30)

\* create finds the path.
LEMMA create_found_keeps ==
  ASSUME Sized, IInv, NEW p \in Proc, NEW o \in Ops(p), create_found(p, o)
  PROVE  IInv'
<1> DEFINE d == Dir(p, o)
           next == dirlookup(d, o.path[1])
           o2 == Found(o, next)
<1>0. o \in OpRec
  BY CallFacts, ZenonT(30) DEF OpOK
<1>1. /\ Step(p, o2, inode, {d}) /\ cwd' = cwd /\ files' = files /\ strayed' = strayed
      /\ o.pc = "name" /\ inode[d].type = "dir" /\ o.call \in Creating /\ next # 0
  BY <1>0, GoingOn, Zenon DEF create_found, Last, InDir, At
<1>2. OpOK(o) /\ strayed \in BOOLEAN /\ d \in Inum /\ o.dp \in {0, d} /\ o.path[1] \in Name /\ o.ip = 0
  BY <1>1, CallFacts, Zenon DEF Creating
<1>3. next \in Inum /\ (~strayed' => inode[next].type # "none")
  BY <1>1, <1>2, LookupFacts, ConstFacts, NamesAssumption, Zenon
<1>4. OpOK(o2) /\ o2.pc = "inode" /\ o2.ip = next /\ o2.dp = 0
  BY <1>1, <1>2, <1>3, ToInode, ZenonT(30) DEF Creating
<1> HIDE DEF o2, next, d
<1>5. {o.ip, o.dp} \subseteq {0, o2.ip, o2.dp} \cup {d}
  BY <1>2, Zenon
<1>6. ~strayed' => \A i \in Inum : i \in {o2.ip, o2.dp} => i \in {o.ip, o.dp} \/ inode[i].type # "none"
  BY <1>3, <1>4, ConstFacts, Zenon
<1> QED
  BY <1>1, <1>2, <1>4, <1>5, <1>6, ConstFacts, PlainStep, SMTT(30)

\* A call that has come to a directory, or has found its inode, is over without
\* having changed anything.
LEMMA IdleStep ==
  ASSUME Sized, IInv, NEW p \in Proc, NEW o \in Ops(p), o.pc \in {"name", "inode"}, o.call = "link" => o.pc = "inode",
         NEW S, {o.ip, o.dp} \subseteq {0} \cup S,
         Step(p, Idle, inode, S), cwd' = cwd, files' = files, strayed' = strayed
  PROVE  IInv'
<1>1. strayed \in BOOLEAN
  BY Zenon DEF IInv, TypeInv
<1>2. OpOK(Idle) /\ Idle.ip = 0 /\ Idle.dp = 0 /\ Idle.pc = "idle"
  BY NullTypes, Zenon
<1>3. \A i \in Inum : i \notin {Idle.ip, Idle.dp}
  BY <1>2, ConstFacts, Zenon
<1> QED
  BY <1>2, <1>1, <1>3, PlainStep

\* create has no inode or no room.
LEMMA create_fails_keeps ==
  ASSUME Sized, IInv, NEW p \in Proc, NEW o \in Ops(p), create_fails(p, o)
  PROVE  IInv'
<1>1. /\ Step(p, Idle, inode, {Dir(p, o)}) /\ cwd' = cwd /\ files' = files /\ strayed' = strayed
      /\ o.pc = "name" /\ o.call \in Creating
  BY Zenon DEF create_fails, Last, InDir, At
<1>2. o.ip = 0 /\ o.dp \in {0, Dir(p, o)} /\ o.call # "link"
  BY <1>1, CallFacts, Zenon DEF Creating
<1>3. {o.ip, o.dp} \subseteq {0} \cup {Dir(p, o)}
  BY <1>2, Zenon
<1> QED
  BY <1>1, <1>2, <1>3, IdleStep, Zenon

\* sys_chdir puts the old directory.
LEMMA sys_chdir_keeps ==
  ASSUME Sized, IInv, NEW p \in Proc, NEW o \in Ops(p), sys_chdir(p, o)
  PROVE  IInv'
<1>1. TypeInv /\ strayed \in BOOLEAN /\ cwd \in [Proc -> Inum] /\ files \in [File -> FileRec]
  BY Zenon DEF IInv, TypeInv
<1>2. At(p, o, "inode") /\ files' = files /\ strayed' = strayed /\ o.call = "chdir"
  BY Zenon DEF sys_chdir
<1>3. o.pc = "inode" /\ o.ip \in Inum /\ o.dp = 0
  BY <1>1, <1>2, LockFacts, Zenon
<1>4. CASE cwd' = cwd /\ Step(p, Idle, inode, {o.ip})
  <2>1. {o.ip, o.dp} \subseteq {0} \cup {o.ip}
    BY <1>3, Zenon
  <2> QED
    BY <1>2, <1>3, <1>4, <2>1, IdleStep, Zenon
<1>5. CASE cwd' = [cwd EXCEPT ![p] = o.ip] /\ Step(p, Idle, inode, {cwd[p]})
  <2>1. /\ o.ip = op[p].ip /\ o.dp = op[p].dp /\ (op[p].pc = "idle" => group < MaxGroup)
        /\ \A i \in Inum : p \notin Counting(i)
    BY <1>1, <1>3, OpsFacts, Zenon
  <2>2. op'[p] = Idle /\ \A q \in Proc \ {p} : op'[q] = op[q]
    BY <1>1, <1>5, Zenon DEF Step, TypeInv
  <2>3. cwd' \in [Proc -> Inum] /\ cwd'[p] = o.ip /\ \A q \in Proc \ {p} : cwd'[q] = cwd[q]
    BY <1>1, <1>3, <1>5, Zenon
  <2>4. \A i \in Inum : p \notin Counting(i)'
    BY <2>2, NullTypes, ConstFacts, Zenon DEF Counting
  <2>5. \A i \in Inum : Held(i) => Held(i)' \/ i \in {cwd[p]}
    BY <1>2, <1>3, <2>1, <2>2, <2>3, ConstFacts, SMTT(30) DEF Held
  <2>6. \A i \in Inum : Held(i)' => Held(i)
    BY <1>2, <2>1, <2>2, <2>3, NullTypes, ConstFacts, SMTT(30) DEF Held
  <2> QED
    BY <1>1, <1>2, <2>1, <2>3, <1>5, <2>4, <2>5, <2>6, NullTypes, KeepStep, Zenon
<1> QED
  BY <1>4, <1>5, Zenon DEF sys_chdir

\* fileclose puts the inode of the file.
LEMMA close_last_keeps ==
  ASSUME Sized, IInv, NEW p \in Proc, NEW f \in File, close_last(p, f)
  PROVE  IInv'
<1>1. TypeInv /\ strayed \in BOOLEAN /\ cwd \in [Proc -> Inum] /\ files \in [File -> FileRec]
  BY Zenon DEF IInv, TypeInv
<1>2. /\ op[p].pc = "idle" /\ group < MaxGroup /\ files' = [files EXCEPT ![f] = NoFile]
      /\ cwd' = cwd /\ strayed' = strayed /\ Step(p, Idle, inode, {files[f].ip})
  BY Zenon DEF close_last
<1>3. op[p] = Idle
  BY <1>1, <1>2, Zenon DEF TypeInv, OpOK
<1>4. \A q \in Proc : op'[q] = op[q]
  BY <1>1, <1>2, <1>3, Zenon DEF Step, TypeInv
<1>5. files' \in [File -> FileRec] /\ files'[f] = NoFile /\ \A g \in File \ {f} : files'[g] = files[g]
  BY <1>1, <1>2, NullTypes, Zenon
<1>6. files'[f].ip = 0
  BY <1>5 DEF NoFile
<1>7. \A i \in Inum : p \in Counting(i)' <=> p \in Counting(i)
  BY <1>4, Zenon DEF Counting
<1>8. \A i \in Inum : Held(i) => Held(i)' \/ i \in {files[f].ip}
  BY <1>2, <1>4, <1>5, Zenon DEF Held
<1>9. \A i \in Inum : Held(i)' => Held(i)
  BY <1>2, <1>4, <1>5, <1>6, ConstFacts, ZenonT(30) DEF Held
<1> QED
  BY <1>1, <1>2, <1>5, <1>7, <1>8, <1>9, NullTypes, KeepStep, Zenon

\* dup and close of a file that stays open.
LEMMA dup_close_keeps ==
  ASSUME IInv, NEW f \in File, sys_dup(f) \/ sys_close(f)
  PROVE  IInv'
<1>1. files \in [File -> FileRec] /\ panicked \in BOOLEAN
  BY Zenon DEF IInv, TypeInv
<1>2. PICK r \in 0 .. MaxRef : files' = [files EXCEPT ![f].ref = r]
  <2>1. files[f].ref \in 0 .. MaxRef /\ MaxRef \in Nat
    BY <1>1, NamesAssumption, Zenon DEF FileRec
  <2>2. CASE sys_dup(f)
    <3>1. files[f].ref + 1 \in 0 .. MaxRef
      BY <2>1, <2>2 DEF sys_dup
    <3> QED
      BY <2>2, <3>1, Zenon DEF sys_dup
  <2>3. CASE sys_close(f)
    <3>1. files[f].ref - 1 \in 0 .. MaxRef
      BY <2>1, <2>3 DEF sys_close
    <3> QED
      BY <2>3, <3>1, Zenon DEF sys_close
  <2> QED
    BY <2>2, <2>3, Zenon
<1>3. UNCHANGED <<inode, cwd, op, panicked, strayed, group, disk>>
  BY Zenon DEF sys_dup, sys_close
<1>4. files' \in [File -> FileRec] /\ \A g \in File : files'[g].ip = files[g].ip
  BY <1>1, <1>2, Zenon DEF FileRec
<1> QED
  BY <1>1, <1>3, <1>4, SameKeeps, Zenon

\* ireclaim frees what has no links, so that the disk comes back in order.
LEMMA reboot_keeps ==
  ASSUME Sized, IInv, reboot
  PROVE  IInv'
<1> DEFINE F == {i \in Inum : disk[i].nlink = 0}
<1>1. /\ inode' = [i \in Inum |-> IF i \in F THEN Free ELSE disk[i]]
      /\ cwd' = [p \in Proc |-> Root] /\ op' = [p \in Proc |-> Idle] /\ files' = [f \in File |-> NoFile]
      /\ panicked' = FALSE /\ group' = 0 /\ disk' = inode' /\ strayed' = strayed
  BY Zenon DEF reboot, ireclaim
<1>2. F \in SUBSET Inum /\ (\A i \in F : disk[i].nlink = 0) /\ \A i \in Inum \ F : disk[i].nlink # 0
  BY Zenon
<1> HIDE DEF F
<1>3. TypeInv /\ InodesOK(disk) /\ disk \in [Inum -> InodeRec]
  BY Zenon DEF IInv, TypeInv, InodesOK
<1>4. InodesOK(inode')
  BY <1>1, <1>3, NullTypes, Zenon DEF InodesOK, Free
<1>5. TypeInv'
  <2>1. 0 \in 0 .. MaxGroup /\ strayed \in BOOLEAN
    BY <1>3, NamesAssumption DEF TypeInv
  <2> QED
    BY <1>1, <1>4, <2>1, NullTypes, ConstFacts, Zenon DEF TypeInv
<1>6. NoOrphans'
  <2>1. \A i \in Inum : inode'[i].type # "none" => inode'[i].nlink # 0
    BY <1>1, <1>2, Zenon DEF Free
  <2> QED
    BY <2>1, Zenon DEF NoOrphans
<1>7. ASSUME ~strayed'
      PROVE  Good(inode, Count)' /\ LinkInv(inode)' /\ HeldInv(inode)' /\ Good(disk, NoCount)'
  <2>1. Good(disk, NoCount) /\ NoCount \in [Inum -> SUBSET Proc]
    BY <1>1, <1>7, Zenon DEF IInv, NoCount
  <2>2. Good(inode', NoCount)
    BY <1>1, <1>2, <1>3, <2>1, FreeKeepsGood, Zenon
  <2>3. \A i \in Inum : Counting(i)' = {}
    BY <1>1, NullTypes, ConstFacts, Zenon DEF Counting
  <2>4. Count' = NoCount
    BY <2>3, Zenon DEF Count, NoCount
  <2>5. LinkInv(inode)'
    BY <2>3, Zenon DEF LinkInv
  <2>6. inode'[Root].type = "dir"
    BY <2>2, Zenon DEF Good, Tidy
  <2>7. \A i \in Inum : Held(i)' => i = Root
    BY <1>1, NullTypes, ConstFacts, Zenon DEF Held, NoFile
  <2>8. HeldInv(inode)'
    BY <2>6, <2>7, Zenon DEF HeldInv
  <2> QED
    BY <1>1, <2>2, <2>4, <2>5, <2>8, Zenon DEF NoCount
<1> QED
  BY <1>5, <1>6, <1>7, Zenon DEF IInv
-----------------------------------------------------------------------------
(* The initial state, and counting links. *)

\* The file system of mkfs is in order.
LEMMA InitInv ==
  ASSUME Sized, Init
  PROVE  IInv
<1> DEFINE R == [Free EXCEPT !.type = "dir", !.nlink = 1, !.dotdot = Root]
<1>1. R = [type |-> "dir", nlink |-> 1, target |-> <<>>, ent |-> NoEntries, dotdot |-> Root]
  <2>1. ASSUME NEW r, r = R
        PROVE  r = [type |-> "dir", nlink |-> 1, target |-> <<>>, ent |-> NoEntries, dotdot |-> Root]
    BY <2>1, Zenon DEF Free
  <2> QED
    BY <2>1, Zenon
<1>2. R \in InodeRec
  <2>1. <<>> \in Seq(Name) /\ NoEntries \in [Name -> InodeNo] /\ Root \in InodeNo
    BY NullTypes, ConstFacts, Zenon
  <2> HIDE DEF R
  <2> QED
    BY <1>1, <2>1 DEF InodeRec
<1>3. /\ inode = [i \in Inum |-> IF i = Root THEN R ELSE Free] /\ disk = inode
      /\ cwd = [p \in Proc |-> Root] /\ op = [p \in Proc |-> Idle] /\ files = [f \in File |-> NoFile]
      /\ panicked = FALSE /\ strayed = FALSE /\ group = 0
  BY Zenon DEF Init
<1>4. /\ \A i \in Inum : inode[i].ent = NoEntries /\ inode[i].type # "symlink"
      /\ inode[Root].type = "dir" /\ inode[Root].nlink = 1 /\ inode[Root].dotdot = Root
      /\ \A i \in Inum \ {Root} : inode[i].type = "none"
  BY <1>1, <1>3, ConstFacts, Zenon DEF Free
<1>5. InodesOK(inode)
  BY <1>2, <1>3, <1>4, NullTypes, Zenon DEF InodesOK
<1> HIDE DEF R
<1>6. TypeInv
  <2>1. 0 \in 0 .. MaxGroup
    BY NamesAssumption
  <2> QED
    BY <1>3, <1>5, <2>1, NullTypes, ConstFacts, Zenon DEF TypeInv
<1>7. NoOrphans
  BY <1>4 DEF NoOrphans
<1>8. \A i \in Inum : EntriesOf(inode, i) = {} /\ SubdirsOf(inode, i) = {} /\ Counting(i) = {}
  <2> TAKE i \in Inum
  <2>1. EntriesOf(inode, i) = {}
    BY <1>4, ConstFacts DEF EntriesOf, NoEntries
  <2>2. SubdirsOf(inode, i) = {}
    BY <1>4, ZenonT(30) DEF SubdirsOf, NoEntries
  <2>3. Counting(i) = {}
    BY <1>3, NullTypes, ConstFacts, Zenon DEF Counting
  <2> QED
    BY <2>1, <2>2, <2>3, Zenon
<1>9. Count = NoCount /\ \A i \in Inum : NoCount[i] = {}
  BY <1>8, Zenon DEF Count, NoCount
<1>10. Good(inode, NoCount)
  <2>1. Linked(inode) = {}
    BY <1>4, Zenon DEF Linked
  <2>2. Counted(inode, NoCount)
    <3>1. Cardinality({}) = 0
      BY CardPositive, Zenon DEF Sized
    <3> QED
      BY <1>4, <1>8, <1>9, <3>1, SMTT(30) DEF Counted, LinksOf
  <2>3. Tidy(inode)
    BY <1>4, <1>8, ConstFacts, Zenon DEF Tidy
  <2> QED
    BY <2>1, <2>2, <2>3, Zenon DEF Good, Below, NoCycle
<1>11. LinkInv(inode)
  BY <1>8, Zenon DEF LinkInv
<1>12. HeldInv(inode)
  <2>1. \A i \in Inum : Held(i) => i = Root
    BY <1>3, NullTypes, ConstFacts, Zenon DEF Held, NoFile
  <2> QED
    BY <1>4, <2>1, Zenon DEF HeldInv
<1> QED
  BY <1>3, <1>6, <1>7, <1>9, <1>10, <1>11, <1>12, ZenonT(30) DEF IInv

\* i has one entry, in the directory that its ".." says, which is linked.
Parented(ino, i) ==
  /\ i \in Inum /\ ino[i].dotdot \in Inum
  /\ ino[ino[i].dotdot].type = "dir" /\ ino[ino[i].dotdot].nlink # 0
  /\ \E n \in Name : EntriesOf(ino, i) = {<<ino[i].dotdot, n>>} /\ ino[ino[i].dotdot].ent[n] = i

\* A directory that a linked one is in is linked, and is what its ".." says.
LEMMA ParentFacts ==
  ASSUME NEW ino, InodesOK(ino), NEW C \in [Inum -> SUBSET Proc], Good(ino, C), NEW i \in Linked(ino)
  PROVE  Parented(ino, i)
<1>1. i \in Inum /\ i # Root
  BY Zenon DEF Linked
<1>2. PICK n \in Name : EntriesOf(ino, i) = {<<ino[i].dotdot, n>>} /\ ino[ino[i].dotdot].nlink # 0
  BY Zenon DEF Good, Below
<1>3. <<ino[i].dotdot, n>> \in EntriesOf(ino, i)
  BY <1>2, Zenon
<1>4. ino[i].dotdot \in Inum /\ ino[ino[i].dotdot].ent[n] = i
  BY <1>3, Zenon DEF EntriesOf
<1>5. ino[ino[i].dotdot].ent # NoEntries
  BY <1>1, <1>4, ConstFacts, Zenon DEF NoEntries
<1>6. ino[ino[i].dotdot].type = "dir"
  BY <1>4, <1>5, Zenon DEF Good, Tidy
<1> QED
  BY <1>1, <1>2, <1>4, <1>6, Zenon DEF Parented

\* ino2 has the names of ino.  The links of anything but a directory change as
\* much as the calls that have counted one, those of a directory do not.
Recounted(ino, ino2, C, C2) ==
  /\ \A i \in Inum : ino2[i].type = ino[i].type /\ ino2[i].ent = ino[i].ent /\ ino2[i].dotdot = ino[i].dotdot
  /\ \A i \in Inum : ino[i].type = "dir" => ino2[i].nlink = ino[i].nlink
  /\ \A i \in Inum : ino[i].type # "none" =>
       ino2[i].nlink - Cardinality(C2[i]) = ino[i].nlink - Cardinality(C[i])

\* This leaves the names in order.
LEMMA RecountKeeps ==
  ASSUME Sized, NEW ino, InodesOK(ino), NEW ino2, InodesOK(ino2), NEW C \in [Inum -> SUBSET Proc],
         NEW C2 \in [Inum -> SUBSET Proc], Good(ino, C), Recounted(ino, ino2, C, C2)
  PROVE  Good(ino2, C2)
<1>1. \A i \in Inum : EntriesOf(ino2, i) = EntriesOf(ino, i)
  BY Zenon DEF EntriesOf, Recounted
<1>2. \A i \in Inum : SubdirsOf(ino2, i) = SubdirsOf(ino, i)
  <2> TAKE i \in Inum
  <2>1. \A n \in Name : ino[i].ent[n] # 0 => ino[i].ent[n] \in Inum
    BY ConstFacts DEF InodesOK, InodeRec
  <2> QED
    BY <2>1, ZenonT(30) DEF SubdirsOf, Recounted
<1>3. Counted(ino2, C2)
  <2> SUFFICES ASSUME NEW i \in Inum, ino[i].type # "none"
               PROVE  ino2[i].nlink = LinksOf(ino2, i, C2[i])
    BY Zenon DEF Counted, Recounted
  <2>1. ino[i].nlink \in Int /\ ino2[i].nlink \in Int
    BY Zenon DEF InodesOK, InodeRec
  <2>2. ino[i].nlink = LinksOf(ino, i, C[i])
    BY Zenon DEF Good, Counted
  <2>3. /\ Cardinality(EntriesOf(ino, i)) \in Nat /\ Cardinality(SubdirsOf(ino, i)) \in Nat
        /\ Cardinality(C[i]) \in Nat /\ Cardinality(C2[i]) \in Nat
    BY CardFacts, Zenon
  <2>4. ino2[i].nlink - Cardinality(C2[i]) = ino[i].nlink - Cardinality(C[i])
    BY Zenon DEF Recounted
  <2> QED
    BY <1>1, <2>1, <2>2, <2>3, <2>4, <1>2 DEF LinksOf
<1>4. Tidy(ino2)
  BY <1>1, ConstFacts, ZenonT(30) DEF Good, Tidy, Recounted
<1>5. Linked(ino2) = Linked(ino)
  BY Zenon DEF Linked, Recounted
<1>6. Below(ino2)
  <2> SUFFICES ASSUME NEW i \in Linked(ino)
               PROVE  \E n \in Name : EntriesOf(ino2, i) = {<<ino2[i].dotdot, n>>}
                                      /\ ino2[ino2[i].dotdot].nlink # 0
    BY <1>5, Zenon DEF Below
  <2> QED
    <3>1. ino2[i].dotdot = ino[i].dotdot /\ i \in Inum
      BY Zenon DEF Recounted, Linked
    <3>2. Parented(ino, i)
      BY ParentFacts, Zenon
    <3>3. PICK n \in Name : /\ EntriesOf(ino, i) = {<<ino[i].dotdot, n>>} /\ ino[i].dotdot \in Inum
                            /\ ino[ino[i].dotdot].nlink # 0 /\ ino[ino[i].dotdot].type = "dir"
      BY <3>2, Zenon DEF Parented
    <3> QED
      BY <1>1, <3>1, <3>3, Zenon DEF Recounted
<1>7. NoCycle(ino2)
  BY <1>5, Zenon DEF NoCycle, Good, Linked, Recounted
<1> QED
  BY <1>3, <1>4, <1>6, <1>7, Zenon DEF Good
-----------------------------------------------------------------------------
(* sys_link and sys_symlink. *)

\* The inodes with m links of i.
SetLinks(ino, i, m) == [ino EXCEPT ![i].nlink = m]

\* ino2 is ino with m links of i.
Relinked(ino, ino2, i, m) ==
  /\ ino2[i].nlink = m
  /\ \A j \in Inum : /\ ino2[j].type = ino[j].type /\ ino2[j].ent = ino[j].ent
                     /\ ino2[j].dotdot = ino[j].dotdot
                     /\ j # i => ino2[j] = ino[j]

\* Nothing else changes.
LEMMA NlinkFacts ==
  ASSUME NEW ino, InodesOK(ino), NEW i \in Inum, NEW m \in Int, NEW ino2, ino2 = SetLinks(ino, i, m)
  PROVE  InodesOK(ino2) /\ Relinked(ino, ino2, i, m)
<1>1. ino \in [Inum -> InodeRec]
  BY Zenon DEF InodesOK
<1>2. [ino[i] EXCEPT !.nlink = m] \in InodeRec
  BY <1>1, Zenon DEF InodeRec
<1>3. ino2 \in [Inum -> InodeRec] /\ ino2[i] = [ino[i] EXCEPT !.nlink = m] /\ \A j \in Inum \ {i} : ino2[j] = ino[j]
  BY <1>1, <1>2, Zenon DEF SetLinks
<1>4. ino2[i].nlink = m /\ ino2[i].type = ino[i].type /\ ino2[i].ent = ino[i].ent
      /\ ino2[i].dotdot = ino[i].dotdot /\ ino2[i].target = ino[i].target
  BY <1>1, <1>3 DEF InodeRec
<1>5. \A j \in Inum : ino2[j].type = ino[j].type /\ ino2[j].ent = ino[j].ent
                      /\ ino2[j].dotdot = ino[j].dotdot /\ ino2[j].target = ino[j].target
  BY <1>3, <1>4, ZenonT(30)
<1>6. InodesOK(ino2)
  BY <1>3, <1>5 DEF InodesOK
<1> QED
  BY <1>3, <1>4, <1>5, <1>6, Zenon DEF Relinked

\* The call o of p is over, and the inodes that it does not put are as before.
Ends(p, o, ino, S) ==
  /\ {o.ip, o.dp} \subseteq {0} \cup S /\ Step(p, Idle, ino, S) /\ cwd' = cwd /\ files' = files
  /\ \A i \in Inum \ S : ino[i].type = inode[i].type /\ ino[i].nlink = inode[i].nlink

\* A call that is over has put what it held; the others still hold what they did.
LEMMA EndStep ==
  ASSUME IInv, NEW p \in Proc, NEW o \in Ops(p), NEW ino, NEW S, Ends(p, o, ino, S)
  PROVE  /\ \A i \in Inum : ino[i].type # "none" /\ ino[i].nlink = 0 => i \in S \/ Held(i)'
         /\ \A i \in Inum : Held(i)' => Held(i)
         /\ \A i \in Inum : p \notin Counting(i)' /\ \A q \in Proc \ {p} : q \in Counting(i)' <=> q \in Counting(i)
         /\ cwd' \in [Proc -> Inum] /\ files' \in [File -> FileRec] /\ strayed \in BOOLEAN
         /\ op[p].pc = "idle" => group < MaxGroup
<1>1. TypeInv /\ cwd' \in [Proc -> Inum] /\ files' \in [File -> FileRec] /\ strayed \in BOOLEAN
  BY Zenon DEF IInv, TypeInv, Ends
<1>2. o.ip = op[p].ip /\ o.dp = op[p].dp /\ (op[p].pc = "idle" => group < MaxGroup)
  BY <1>1, OpsFacts, ZenonT(30)
<1>3. Idle.ip = 0 /\ Idle.dp = 0 /\ Idle.pc = "idle" /\ 0 \notin Inum
  BY NullTypes, ConstFacts, Zenon
<1>4. /\ \A i \in Inum : /\ Held(i)' => Held(i) \/ i \in {Idle.ip, Idle.dp}
                         /\ Held(i) => Held(i)' \/ i \in {op[p].ip, op[p].dp}
      /\ \A i \in Inum : /\ p \in Counting(i)' <=> Idle.ip = i /\ Idle.call = "link" /\ Idle.pc \in {"name", "bad"}
                         /\ \A q \in Proc \ {p} : q \in Counting(i)' <=> q \in Counting(i)
  BY <1>1, HeldStep, Zenon DEF Ends
<1>5. \A i \in Inum : ino[i].type # "none" /\ ino[i].nlink = 0 => i \in S \/ Held(i)'
  <2> SUFFICES ASSUME NEW i \in Inum, ino[i].type # "none", ino[i].nlink = 0, i \notin S
               PROVE  Held(i)'
    BY Zenon
  <2>1. Held(i)
    BY Zenon DEF Ends, IInv, NoOrphans
  <2>2. i \notin {o.ip, o.dp}
    BY <1>3, Zenon DEF Ends
  <2> QED
    BY <1>2, <1>4, <2>1, <2>2, Zenon
<1> QED
  BY <1>1, <1>2, <1>3, <1>4, <1>5, Zenon

\* It keeps the invariant if the inodes it leaves are in order.
LEMMA EndKeeps ==
  ASSUME Sized, IInv, NEW p \in Proc, NEW o \in Ops(p), NEW ino, InodesOK(ino), NEW S, Ends(p, o, ino, S),
         strayed' \in BOOLEAN, strayed => strayed',
         ~strayed' => Good(ino, Count') /\ LinkTo(ino) /\ HeldTo(ino)
  PROVE  IInv'
<1>1. /\ \A i \in Inum : ino[i].type # "none" /\ ino[i].nlink = 0 => i \in S \/ Held(i)'
      /\ cwd' \in [Proc -> Inum] /\ files' \in [File -> FileRec] /\ (op[p].pc = "idle" => group < MaxGroup)
  BY EndStep, Zenon
<1>2. Step(p, Idle, ino, S)
  BY Zenon DEF Ends
<1> QED
  BY <1>1, <1>2, NullTypes, StepKeeps, Zenon

\* sys_link counts its link.
LEMMA link_count_keeps ==
  ASSUME Sized, IInv, NEW p \in Proc, NEW o \in Ops(p), link_count(p, o)
  PROVE  IInv'
<1>1. TypeInv /\ OpOK(o) /\ o \in OpRec /\ strayed \in BOOLEAN /\ InodesOK(inode)
      /\ cwd \in [Proc -> Inum] /\ files \in [File -> FileRec]
  BY CallFacts, Zenon DEF OpOK, TypeInv
<1>2. At(p, o, "inode") /\ o.call = "link" /\ cwd' = cwd /\ files' = files /\ strayed' = strayed
  BY Zenon DEF link_count
<1>3. o.pc = "inode" /\ o.ip \in Inum /\ o.dp = 0
  BY <1>1, <1>2, LockFacts, Zenon
<1>4. CASE Step(p, Idle, inode, {o.ip})
  <2>1. {o.ip, o.dp} \subseteq {0} \cup {o.ip}
    BY <1>3, Zenon
  <2> QED
    BY <1>2, <1>3, <1>4, <2>1, IdleStep, Zenon
<1>5. CASE inode[o.ip].type # "dir" /\ Step(p, Linking(o), [inode EXCEPT ![o.ip].nlink = @ + 1], {})
  <2> DEFINE i == o.ip
             o2 == Linking(o)
             ino == [inode EXCEPT ![i].nlink = @ + 1]
  <2>1. inode[i].nlink \in Int /\ inode[i].nlink + 1 \in Int
    BY <1>1, <1>3 DEF InodesOK, InodeRec
  <2>2. /\ InodesOK(ino) /\ ino[i].nlink = inode[i].nlink + 1
        /\ \A j \in Inum : /\ ino[j].type = inode[j].type /\ ino[j].ent = inode[j].ent
                           /\ ino[j].dotdot = inode[j].dotdot
                           /\ j # i => ino[j] = inode[j]
    <3> DEFINE m == inode[i].nlink + 1
    <3>1. ino = SetLinks(inode, i, m) /\ i \in Inum /\ m \in Int
      BY <1>3, <2>1, Zenon DEF SetLinks
    <3> HIDE DEF ino, i, m
    <3>2. InodesOK(ino) /\ Relinked(inode, ino, i, m)
      BY <1>1, <3>1, NlinkFacts, Zenon
    <3> QED
      BY <3>2, Zenon DEF m, Relinked
  <2>3. OpOK(o2) /\ o2.pc = "name" /\ o2.call = "link" /\ o2.ip = i /\ o2.dp = 0
    BY <1>1, <1>2, <1>3, ToNew, Zenon
  <2>4. Step(p, o2, ino, {}) /\ inode[i].type # "dir" /\ i \in Inum
    BY <1>3, <1>5, Zenon
  <2>5. /\ o.ip = op[p].ip /\ o.dp = op[p].dp /\ (op[p].pc = "idle" => group < MaxGroup)
        /\ \A j \in Inum : p \notin Counting(j)
    BY <1>1, <1>3, OpsFacts, Zenon
  <2> HIDE DEF o2, ino
  <2>6. /\ \A j \in Inum : /\ Held(j)' => Held(j) \/ j \in {o2.ip, o2.dp}
                           /\ Held(j) => Held(j)' \/ j \in {op[p].ip, op[p].dp}
        /\ \A j \in Inum : j \in {o2.ip, o2.dp, cwd'[p]} => Held(j)'
        /\ \A j \in Inum : /\ p \in Counting(j)' <=> o2.ip = j /\ o2.call = "link" /\ o2.pc \in {"name", "bad"}
                           /\ \A q \in Proc \ {p} : q \in Counting(j)' <=> q \in Counting(j)
    BY <1>1, <1>2, <2>4, HeldStep, ZenonT(30)
  <2>7. Held(i)
    BY <2>5, Zenon DEF Held
  <2>8. \A j \in Inum : Held(j)' <=> Held(j)
    BY <1>3, <2>3, <2>5, <2>6, <2>7, ConstFacts, ZenonT(30)
  <2>9. \A j \in Inum : ino[j].type # "none" /\ ino[j].nlink = 0 => j \in {} \/ Held(j)'
    BY <2>2, <2>7, <2>8, ZenonT(30) DEF IInv, NoOrphans
  <2>10. Counting(i)' = Counting(i) \cup {p} /\ \A j \in Inum \ {i} : Counting(j)' = Counting(j)
    <3>1. \A q \in Proc : q \in Counting(i)' <=> q \in Counting(i) \cup {p}
      BY <2>3, <2>4, <2>6, Zenon
    <3>2. \A j \in Inum \ {i} : \A q \in Proc : q \in Counting(j)' <=> q \in Counting(j)
      BY <2>3, <2>5, <2>6, Zenon
    <3> QED
      BY <3>1, <3>2, Zenon DEF Counting
  <2>11. ASSUME ~strayed
         PROVE  Good(ino, Count') /\ LinkTo(ino) /\ HeldTo(ino)
    <3>1. /\ Count \in [Inum -> SUBSET Proc] /\ Count' \in [Inum -> SUBSET Proc]
          /\ \A j \in Inum : Count[j] = Counting(j) /\ Count'[j] = Counting(j)'
      BY Zenon DEF Count, Counting
    <3>2. Cardinality(Counting(i)') = Cardinality(Counting(i)) + 1 /\ Cardinality(Counting(i)) \in Nat
      <4>1. Counting(i) \in SUBSET Proc
        BY Zenon DEF Counting
      <4>2. Cardinality(Counting(i)) \in Nat
        BY <4>1, <2>4, CardFacts, Zenon
      <4>3. p \notin Counting(i)
        BY <2>4, <2>5, Zenon
      <4> QED
        BY <2>10, <4>1, <4>2, <4>3, CardAdd, SMTT(30) DEF Sized
    <3>3. \A j \in Inum : ino[j].nlink - Cardinality(Count'[j]) = inode[j].nlink - Cardinality(Count[j])
      <4> TAKE j \in Inum
      <4>1. CASE j = i
        BY <2>1, <2>2, <3>1, <3>2, <4>1, SMTT(30)
      <4>2. CASE j # i
        <5>1. ino[j].nlink = inode[j].nlink
          BY <2>2, <4>2, Zenon
        <5>2. Count'[j] = Count[j]
          BY <2>10, <3>1, <4>2, Zenon
        <5> QED
          BY <5>1, <5>2, Zenon
      <4> QED
        BY <4>1, <4>2, Zenon
    <3>4. Good(ino, Count')
      <4>1. Good(inode, Count)
        BY <2>11, Zenon DEF IInv
      <4>2. Recounted(inode, ino, Count, Count')
        BY <2>2, <2>4, <3>3, Zenon DEF Recounted
      <4> QED
        BY <1>1, <2>2, <3>1, <4>1, <4>2, RecountKeeps, Zenon
    <3>5. LinkTo(ino)
      BY <2>2, <2>3, <2>4, <2>6, <2>11, SMTT(30) DEF LinkTo, IInv, LinkInv
    <3>6. HeldTo(ino)
      BY <2>2, <2>8, <2>11, Zenon DEF HeldTo, IInv, HeldInv
    <3> QED
      BY <3>4, <3>5, <3>6, ZenonT(30)
  <2> QED
    BY <1>1, <1>2, <2>2, <2>3, <2>4, <2>5, <2>9, <2>11, StepKeeps, ZenonT(30)
<1> QED
  BY <1>1, <1>4, <1>5, GoingOn, ZenonT(30) DEF link_count, Linkable

\* sys_link takes its link back.
LEMMA link_bad_keeps ==
  ASSUME Sized, IInv, NEW p \in Proc, NEW o \in Ops(p), link_bad(p, o)
  PROVE  IInv'
<1> DEFINE i == o.ip
           ino == [inode EXCEPT ![i].nlink = @ - 1]
<1>1. TypeInv /\ OpOK(o) /\ InodesOK(inode)
  BY CallFacts, ZenonT(30) DEF OpOK, TypeInv
<1>2. At(p, o, "bad") /\ cwd' = cwd /\ files' = files /\ strayed' = strayed /\ Step(p, Idle, ino, {i})
  BY Zenon DEF link_bad
<1>3. o.pc = "bad" /\ i \in Inum /\ o.dp = 0 /\ o.call = "link"
  BY <1>1, <1>2, LockFacts, ZenonT(30) DEF OpOK
<1>4. p \in Counting(i) /\ \A j \in Inum \ {i} : p \notin Counting(j)
  BY <1>1, <1>3, OpsFacts, Zenon
<1>5. inode[i].nlink \in Int /\ inode[i].nlink - 1 \in Int
  BY <1>1, <1>3 DEF InodesOK, InodeRec
<1>6. /\ InodesOK(ino) /\ ino[i].nlink = inode[i].nlink - 1
      /\ \A j \in Inum : /\ ino[j].type = inode[j].type /\ ino[j].ent = inode[j].ent
                         /\ ino[j].dotdot = inode[j].dotdot
                         /\ j # i => ino[j] = inode[j]
  <2> DEFINE m == inode[i].nlink - 1
  <2>1. ino = SetLinks(inode, i, m) /\ i \in Inum /\ m \in Int
    BY <1>3, <1>5, Zenon DEF SetLinks
  <2> HIDE DEF ino, i, m
  <2>2. InodesOK(ino) /\ Relinked(inode, ino, i, m)
    BY <1>1, <2>1, NlinkFacts, Zenon
  <2> QED
    BY <2>2, Zenon DEF m, Relinked
<1> HIDE DEF ino
<1>7. Ends(p, o, ino, {i})
  BY <1>2, <1>3, <1>6, Zenon DEF Ends
<1>8. /\ \A j \in Inum : Held(j)' => Held(j)
      /\ \A j \in Inum : p \notin Counting(j)' /\ \A q \in Proc \ {p} : q \in Counting(j)' <=> q \in Counting(j)
      /\ strayed \in BOOLEAN
  BY <1>7, EndStep, Zenon
<1>9. Counting(i)' = Counting(i) \ {p} /\ \A j \in Inum \ {i} : Counting(j)' = Counting(j)
  <2>1. \A q \in Proc : q \in Counting(i)' <=> q \in Counting(i) \ {p}
    BY <1>3, <1>8, Zenon
  <2>2. \A j \in Inum \ {i} : \A q \in Proc : q \in Counting(j)' <=> q \in Counting(j)
    BY <1>4, <1>8, Zenon
  <2> QED
    BY <2>1, <2>2, Zenon DEF Counting
<1>10. ASSUME ~strayed
       PROVE  Good(ino, Count') /\ LinkTo(ino) /\ HeldTo(ino)
  <2>1. /\ Count \in [Inum -> SUBSET Proc] /\ Count' \in [Inum -> SUBSET Proc]
        /\ \A j \in Inum : Count[j] = Counting(j) /\ Count'[j] = Counting(j)'
    BY Zenon DEF Count, Counting
  <2>2. Cardinality(Counting(i)') = Cardinality(Counting(i)) - 1 /\ Cardinality(Counting(i)) \in Nat
    <3>1. Counting(i) \in SUBSET Proc
      BY Zenon DEF Counting
    <3>2. Cardinality(Counting(i)) \in Nat
      BY <3>1, <1>3, CardFacts, ZenonT(30)
    <3> QED
      BY <1>4, <1>9, <3>1, <3>2, CardRemove, ZenonT(30) DEF Sized
  <2>3. \A j \in Inum : ino[j].nlink - Cardinality(Count'[j]) = inode[j].nlink - Cardinality(Count[j])
    <3> TAKE j \in Inum
    <3>1. CASE j = i
      <4>1. /\ ino[j].nlink = inode[j].nlink - 1 /\ inode[j].nlink \in Int
            /\ Cardinality(Count'[j]) = Cardinality(Count[j]) - 1 /\ Cardinality(Count[j]) \in Nat
        BY <1>5, <1>6, <2>1, <2>2, <3>1, Zenon
      <4> QED
        BY <4>1
    <3>2. CASE j # i
      <4>1. ino[j].nlink = inode[j].nlink
        BY <1>6, <3>2, Zenon
      <4>2. Count'[j] = Count[j]
        BY <1>9, <2>1, <3>2, Zenon
      <4> QED
        BY <4>1, <4>2, Zenon
    <3> QED
      BY <3>1, <3>2, Zenon
  <2>4. Good(ino, Count')
    <3>1. inode[i].type # "dir"
      BY <1>3, <1>4, <1>10, Zenon DEF IInv, LinkInv
    <3>2. Good(inode, Count)
      BY <1>10, Zenon DEF IInv
    <3>3. Recounted(inode, ino, Count, Count')
      BY <1>6, <2>3, <3>1, Zenon DEF Recounted
    <3> QED
      BY <1>1, <1>6, <2>1, <3>2, <3>3, RecountKeeps, Zenon
  <2>5. LinkTo(ino)
    BY <1>6, <1>8, <1>10, ZenonT(30) DEF LinkTo, IInv, LinkInv
  <2>6. HeldTo(ino)
    BY <1>6, <1>8, <1>10, Zenon DEF HeldTo, IInv, HeldInv
  <2> QED
    BY <2>4, <2>5, <2>6, ZenonT(30)
<1> QED
  BY <1>2, <1>6, <1>7, <1>8, <1>10, EndKeeps, Zenon

\* ino2 is ino with i under name n of d.
Entered(ino, ino2, d, n, i) ==
  /\ ino2[d].ent[n] = i
  /\ \A j \in Inum : /\ ino2[j].type = ino[j].type /\ ino2[j].nlink = ino[j].nlink
                     /\ ino2[j].dotdot = ino[j].dotdot
                     /\ j # d => ino2[j] = ino[j]
                     /\ \A m \in Name : j # d \/ m # n => ino2[j].ent[m] = ino[j].ent[m]

\* One entry written.
LEMMA DirlinkFacts ==
  ASSUME InodesOK(inode), NEW d \in Inum, NEW n \in Name, NEW i \in InodeNo
  PROVE  InodesOK(dirlink(d, n, i)) /\ Entered(inode, dirlink(d, n, i), d, n, i)
<1> DEFINE ino == dirlink(d, n, i)
           r == [inode[d] EXCEPT !.ent = [inode[d].ent EXCEPT ![n] = i]]
<1>1. inode \in [Inum -> InodeRec] /\ inode[d] \in InodeRec /\ inode[d].ent \in [Name -> InodeNo]
  BY Zenon DEF InodesOK, InodeRec
<1>2. [inode[d].ent EXCEPT ![n] = i] \in [Name -> InodeNo]
  BY <1>1, Zenon
<1>3. r \in InodeRec
  BY <1>1, <1>2, Zenon DEF InodeRec
<1>4. /\ r.nlink = inode[d].nlink /\ r.type = inode[d].type /\ r.dotdot = inode[d].dotdot
      /\ r.target = inode[d].target /\ r.ent = [inode[d].ent EXCEPT ![n] = i]
  BY <1>1, Zenon DEF InodeRec
<1>5. ino = [inode EXCEPT ![d] = r]
  BY Zenon DEF dirlink
<1> HIDE DEF ino, r
<1>6. ino \in [Inum -> InodeRec] /\ ino[d] = r /\ \A j \in Inum \ {d} : ino[j] = inode[j]
  BY <1>1, <1>3, <1>5, Zenon
<1>7. ino[d].ent[n] = i /\ \A m \in Name : m # n => ino[d].ent[m] = inode[d].ent[m]
  BY <1>1, <1>4, <1>6, Zenon
<1>8. \A j \in Inum : ino[j].type = inode[j].type /\ ino[j].target = inode[j].target
  BY <1>4, <1>6, Zenon
<1>9. InodesOK(ino)
  BY <1>6, <1>8, Zenon DEF InodesOK
<1>10. Entered(inode, ino, d, n, i)
  BY <1>4, <1>6, <1>7, ZenonT(30) DEF Entered
<1> QED
  BY <1>9, <1>10, Zenon DEF ino

\* sys_symlink writes over an existing link.
LEMMA symlink_old_keeps ==
  ASSUME Sized, IInv, NEW p \in Proc, NEW o \in Ops(p), symlink_old(p, o)
  PROVE  IInv'
<1> DEFINE i == o.ip
           t == IF inode[i].type = "symlink" THEN o.new ELSE inode[i].target
           ino == [inode EXCEPT ![i].target = t]
<1>1. TypeInv /\ OpOK(o) /\ InodesOK(inode) /\ inode \in [Inum -> InodeRec]
  BY CallFacts, Zenon DEF OpOK, TypeInv, InodesOK
<1>2. /\ At(p, o, "inode") /\ o.call = "symlink" /\ cwd' = cwd /\ files' = files
      /\ strayed' = (strayed \/ inode[i].type = "dir") /\ Step(p, Idle, ino, {i})
  BY Zenon DEF symlink_old
<1>3. o.pc = "inode" /\ i \in Inum /\ o.dp = 0 /\ o.new \in Seq(Name) /\ o.new # <<>>
  BY <1>1, <1>2, LockFacts, ZenonT(30) DEF OpOK, OpRec
<1>4. t \in Seq(Name) /\ (inode[i].type = "symlink" => t # <<>>)
  BY <1>1, <1>3, Zenon DEF InodeRec
<1> HIDE DEF t
<1>5. /\ ino \in [Inum -> InodeRec] /\ ino[i].target = t
      /\ \A j \in Inum : /\ ino[j].type = inode[j].type /\ ino[j].nlink = inode[j].nlink
                         /\ ino[j].ent = inode[j].ent /\ ino[j].dotdot = inode[j].dotdot
                         /\ j # i => ino[j] = inode[j]
  <2>1. [inode[i] EXCEPT !.target = t] \in InodeRec
    BY <1>1, <1>3, <1>4, ZenonT(30) DEF InodeRec
  <2>2. ino \in [Inum -> InodeRec] /\ ino[i] = [inode[i] EXCEPT !.target = t]
        /\ \A j \in Inum \ {i} : ino[j] = inode[j]
    BY <1>1, <1>3, <2>1, Zenon
  <2> HIDE DEF ino
  <2>3. /\ ino[i].target = t /\ ino[i].type = inode[i].type /\ ino[i].nlink = inode[i].nlink
        /\ ino[i].ent = inode[i].ent /\ ino[i].dotdot = inode[i].dotdot
    BY <1>1, <1>3, <2>2 DEF InodeRec
  <2> QED
    BY <2>2, <2>3, Zenon
<1> HIDE DEF ino
<1>6. InodesOK(ino)
  BY <1>1, <1>4, <1>5, ZenonT(30) DEF InodesOK
<1>7. Ends(p, o, ino, {i})
  BY <1>2, <1>3, <1>5, Zenon DEF Ends
<1>8. /\ \A j \in Inum : Held(j)' => Held(j)
      /\ \A j \in Inum : p \notin Counting(j)' /\ \A q \in Proc \ {p} : q \in Counting(j)' <=> q \in Counting(j)
      /\ strayed \in BOOLEAN
  BY <1>7, EndStep, Zenon
<1>9. \A j \in Inum : Counting(j)' = Counting(j)
  <2>1. \A j \in Inum : p \notin Counting(j)
    BY <1>1, <1>3, OpsFacts, Zenon
  <2>2. \A j \in Inum : \A q \in Proc : q \in Counting(j)' <=> q \in Counting(j)
    BY <1>8, <2>1, Zenon
  <2> QED
    BY <2>2, ZenonT(30) DEF Counting
<1>10. ASSUME ~strayed
       PROVE  Good(ino, Count') /\ LinkTo(ino) /\ HeldTo(ino)
  <2>1. Count' = Count /\ Count \in [Inum -> SUBSET Proc]
    BY <1>9, Zenon DEF Count, Counting
  <2>2. Good(inode, Count) /\ Recounted(inode, ino, Count, Count')
    BY <2>1, <1>5, <1>10, Zenon DEF IInv, Recounted
  <2>3. Good(ino, Count')
    BY <1>1, <1>6, <2>1, <2>2, RecountKeeps, Zenon
  <2>4. LinkTo(ino)
    BY <1>5, <1>9, <1>10, Zenon DEF LinkTo, IInv, LinkInv
  <2>5. HeldTo(ino)
    BY <1>5, <1>8, <1>10, ZenonT(30) DEF HeldTo, IInv, HeldInv
  <2> QED
    BY <2>3, <2>4, <2>5, Zenon
<1>11. strayed' \in BOOLEAN /\ (strayed => strayed')
  BY <1>2, <1>8, Zenon
<1> QED
  BY <1>2, <1>6, <1>7, <1>10, <1>11, EndKeeps, Zenon

\* A call that leaves the names in disorder.
LEMMA StrayStep ==
  ASSUME Sized, IInv, NEW p \in Proc, NEW o \in Ops(p), NEW ino, InodesOK(ino), NEW S,
         Ends(p, o, ino, S), strayed' = TRUE
  PROVE  IInv'
<1>1. strayed' \in BOOLEAN /\ (strayed => strayed') /\ ~(~strayed')
  BY Zenon
<1> QED
  BY <1>1, EndKeeps, Zenon

\* sys_symlink fails on an existing path.
LEMMA symlink_old_fails_keeps ==
  ASSUME Sized, IInv, NEW p \in Proc, NEW o \in Ops(p), symlink_old_fails(p, o)
  PROVE  IInv'
<1> DEFINE ino == [inode EXCEPT ![o.ip].nlink = 0]
<1>1. TypeInv /\ InodesOK(inode)
  BY CallFacts, Zenon DEF TypeInv
<1>2. At(p, o, "inode") /\ cwd' = cwd /\ files' = files /\ strayed' = TRUE /\ Step(p, Idle, ino, {o.ip})
  BY Zenon DEF symlink_old_fails
<1>3. o.pc = "inode" /\ o.ip \in Inum /\ o.dp = 0 /\ 0 \in Int
  BY <1>1, <1>2, LockFacts, SMTT(30)
<1>4. InodesOK(ino) /\ \A j \in Inum \ {o.ip} : ino[j] = inode[j]
  <2>1. ino = SetLinks(inode, o.ip, 0)
    BY Zenon DEF SetLinks
  <2> HIDE DEF ino
  <2>2. InodesOK(ino) /\ Relinked(inode, ino, o.ip, 0)
    BY <1>1, <1>3, <2>1, NlinkFacts, Zenon
  <2> QED
    BY <2>2, Zenon DEF Relinked
<1> HIDE DEF ino
<1>5. Ends(p, o, ino, {o.ip})
  BY <1>2, <1>3, <1>4, Zenon DEF Ends
<1> QED
  BY <1>2, <1>4, <1>5, StrayStep, Zenon

\* sys_symlink fails after its entry was made.
LEMMA symlink_new_fails_keeps ==
  ASSUME Sized, IInv, NEW p \in Proc, NEW o \in Ops(p), symlink_new_fails(p, o)
  PROVE  IInv'
<1> DEFINE d == Dir(p, o)
           n == o.path[1]
<1>1. o.pc = "name" /\ o.call = "symlink" /\ cwd' = cwd /\ files' = files /\ strayed' = TRUE
  BY Zenon DEF symlink_new_fails, Last, InDir, At
<1>2. PICK i \in Inum : Step(p, Idle, dirlink(d, n, i), {d})
  BY Zenon DEF symlink_new_fails
<1>3. TypeInv /\ InodesOK(inode) /\ o.ip = 0 /\ o.dp \in {0, d} /\ d \in Inum /\ n \in Name
  BY <1>1, CallFacts, Zenon DEF TypeInv
<1> DEFINE ino == dirlink(d, n, i)
<1>4. InodesOK(ino) /\ \A j \in Inum : ino[j].type = inode[j].type /\ ino[j].nlink = inode[j].nlink
  <2>1. i \in InodeNo
    BY ConstFacts, Zenon
  <2>2. InodesOK(ino) /\ Entered(inode, ino, d, n, i)
    BY <1>3, <2>1, DirlinkFacts, Zenon
  <2> QED
    BY <2>2, Zenon DEF Entered
<1>5. Ends(p, o, ino, {d})
  BY <1>1, <1>2, <1>3, <1>4, Zenon DEF Ends
<1> HIDE DEF ino, d, n
<1> QED
  BY <1>1, <1>4, <1>5, StrayStep, Zenon

\* A link of i that was counted is entered in a directory that is linked.
EntersLink(ino, ino2, C, C2, d, n, i) ==
  /\ ino[d].type = "dir" /\ ino[d].nlink # 0 /\ ino[d].ent[n] = 0 /\ ino[i].type \notin {"dir", "none"}
  /\ Entered(ino, ino2, d, n, i)
  /\ Cardinality(C2[i]) = Cardinality(C[i]) - 1 /\ \A j \in Inum \ {i} : C2[j] = C[j]

\* This leaves the names in order.
LEMMA EnterKeeps ==
  ASSUME Sized, NEW ino, InodesOK(ino), NEW ino2, InodesOK(ino2), NEW C \in [Inum -> SUBSET Proc],
         NEW C2 \in [Inum -> SUBSET Proc], Good(ino, C),
         NEW d \in Inum, NEW n \in Name, NEW i \in Inum, EntersLink(ino, ino2, C, C2, d, n, i)
  PROVE  Good(ino2, C2)
<1>0. ino[d].ent[n] = 0 /\ ino2[d].ent[n] = i /\ 0 \notin Inum
      /\ \A j \in Inum : \A m \in Name : j # d \/ m # n => ino2[j].ent[m] = ino[j].ent[m]
  BY ConstFacts, Zenon DEF EntersLink, Entered
<1>1. \A j \in Inum \ {i} : EntriesOf(ino2, j) = EntriesOf(ino, j)
  BY <1>0 DEF EntriesOf
<1>2. EntriesOf(ino2, i) = EntriesOf(ino, i) \cup {<<d, n>>} /\ <<d, n>> \notin EntriesOf(ino, i)
  BY <1>0 DEF EntriesOf
<1>3. \A j \in Inum : SubdirsOf(ino2, j) = SubdirsOf(ino, j)
  <2> TAKE j \in Inum
  <2>1. \A m \in Name : /\ ino[j].ent[m] # 0 => ino[j].ent[m] \in Inum
                        /\ ino2[j].ent[m] # 0 => ino2[j].ent[m] \in Inum
    <3>1. ino[j].ent \in [Name -> InodeNo] /\ ino2[j].ent \in [Name -> InodeNo]
      BY ZenonT(30) DEF InodesOK, InodeRec
    <3> QED
      BY <3>1, ConstFacts, ZenonT(30)
  <2>2. \A m \in Name : m \in SubdirsOf(ino2, j) <=> m \in SubdirsOf(ino, j)
    <3> SUFFICES ASSUME NEW m \in Name PROVE m \in SubdirsOf(ino2, j) <=> m \in SubdirsOf(ino, j)
      BY Zenon
    <3>1. \A k \in Inum : ino2[k].type = ino[k].type /\ ino2[k].dotdot = ino[k].dotdot
      BY Zenon DEF EntersLink, Entered
    <3>2. CASE j = d /\ m = n
      BY <1>0, <3>1, <3>2, Zenon DEF SubdirsOf, EntersLink
    <3>3. CASE ino2[j].ent[m] = ino[j].ent[m]
      BY <2>1, <3>1, <3>3, Zenon DEF SubdirsOf
    <3> QED
      BY <1>0, <3>2, <3>3, Zenon
  <2> QED
    BY <2>2, Zenon DEF SubdirsOf
<1>4. Counted(ino2, C2)
  <2> SUFFICES ASSUME NEW j \in Inum, ino[j].type # "none"
               PROVE  ino2[j].nlink = LinksOf(ino2, j, C2[j])
    BY ZenonT(30) DEF Counted, EntersLink, Entered
  <2>1. ino[j].nlink = LinksOf(ino, j, C[j]) /\ ino2[j].nlink = ino[j].nlink
    BY Zenon DEF Good, Counted, EntersLink, Entered
  <2>2. /\ Cardinality(EntriesOf(ino, j)) \in Nat /\ Cardinality(SubdirsOf(ino, j)) \in Nat
        /\ Cardinality(C[j]) \in Nat /\ EntriesOf(ino, j) \in SUBSET (Inum \X Name)
    BY CardFacts, Zenon
  <2>3. CASE j # i
    <3>1. EntriesOf(ino2, j) = EntriesOf(ino, j) /\ SubdirsOf(ino2, j) = SubdirsOf(ino, j) /\ C2[j] = C[j]
      BY <1>1, <1>3, <2>3, Zenon DEF EntersLink
    <3> QED
      BY <2>1, <3>1, Zenon DEF LinksOf
  <2>4. CASE j = i
    <3>1. Cardinality(EntriesOf(ino2, i)) = Cardinality(EntriesOf(ino, i)) + 1
      <4> DEFINE e == <<d, n>>
                 E == EntriesOf(ino, i)
                 U == Inum \X Name
      <4>1. Sizes(U) /\ E \in SUBSET U /\ e \in U /\ e \notin E /\ EntriesOf(ino2, i) = E \cup {e}
        BY <2>2, <1>2, <2>4, Zenon DEF Sized
      <4> HIDE DEF e, E, U
      <4>2. Cardinality(E \cup {e}) = Cardinality(E) + 1
        BY <4>1, CardAdd, Zenon
      <4> QED
        BY <4>1, <4>2, Zenon DEF E
    <3> QED
      BY <1>3, <2>1, <2>2, <2>4, <3>1, SMTT(30) DEF LinksOf, EntersLink
  <2> QED
    BY <2>3, <2>4, Zenon
<1>5. Tidy(ino2)
  <2>1. Root \in Inum /\ i # Root
    BY ConstFacts, Zenon DEF Good, Tidy, EntersLink
  <2> QED
    BY <1>1, <2>1, SMTT(30) DEF Good, Tidy, EntersLink, Entered
<1>6. Linked(ino2) = Linked(ino) /\ i \notin Linked(ino)
  <2>1. \A j \in Inum : ino2[j].type = ino[j].type /\ ino2[j].nlink = ino[j].nlink
    BY Zenon DEF EntersLink, Entered
  <2>2. ino[i].type # "dir"
    BY Zenon DEF EntersLink
  <2> QED
    BY <2>1, <2>2, Zenon DEF Linked
<1>7. Below(ino2)
  <2> SUFFICES ASSUME NEW j \in Linked(ino)
               PROVE  \E m \in Name : EntriesOf(ino2, j) = {<<ino2[j].dotdot, m>>}
                                      /\ ino2[ino2[j].dotdot].nlink # 0
    BY <1>6, Zenon DEF Below
  <2> QED
    <3>1. Parented(ino, j)
      BY ParentFacts, Zenon
    <3> QED
      BY <1>1, <1>6, <3>1, SMTT(30) DEF Parented, EntersLink, Entered
<1>8. NoCycle(ino2)
  BY <1>6, Zenon DEF NoCycle, Good, Linked, EntersLink, Entered
<1> QED
  BY <1>4, <1>5, <1>7, <1>8, Zenon DEF Good

\* sys_link enters its link, or finds that it cannot.
LEMMA link_enter_keeps ==
  ASSUME Sized, IInv, NEW p \in Proc, NEW o \in Ops(p), link_enter(p, o)
  PROVE  IInv'
<1> DEFINE d == Dir(p, o)
           n == o.path[1]
           i == o.ip
           ino == dirlink(d, n, i)
<1>1. /\ o.pc = "name" /\ o.call = "link" /\ cwd' = cwd /\ files' = files /\ inode[d].type = "dir" /\ i # 0
      /\ \/ dirlookup(d, n) = 0 /\ strayed' = (strayed \/ Dead(d)) /\ Step(p, Idle, ino, {d, i})
         \/ strayed' = strayed /\ Step(p, NotFound(o), inode, {d})
  BY Zenon DEF link_enter, Last, InDir, At
<1>2. TypeInv /\ InodesOK(inode) /\ o.dp \in {0, d} /\ d \in Inum /\ n \in Name /\ OpOK(o)
  BY <1>1, CallFacts, Zenon DEF TypeInv
<1>3. CASE strayed' = strayed /\ Step(p, NotFound(o), inode, {d})
  BY <1>1, <1>3, NotFoundStep, Zenon
<1>4. CASE dirlookup(d, n) = 0 /\ strayed' = (strayed \/ Dead(d)) /\ Step(p, Idle, ino, {d, i})
  <2>1. i \in Inum /\ i \in InodeNo
    BY <1>1, <1>2, ConstFacts, ZenonT(30) DEF OpOK, OpRec
  <2>2. inode[d].ent[n] = 0
    BY <1>2, <1>4, NamesAssumption, Zenon DEF dirlookup
  <2>3. /\ InodesOK(ino) /\ ino[d].ent[n] = i
        /\ \A j \in Inum : /\ ino[j].type = inode[j].type /\ ino[j].nlink = inode[j].nlink
                           /\ ino[j].dotdot = inode[j].dotdot
                           /\ j # d => ino[j] = inode[j]
                           /\ \A m \in Name : j # d \/ m # n => ino[j].ent[m] = inode[j].ent[m]
    <3>1. InodesOK(ino) /\ Entered(inode, ino, d, n, i)
      BY <1>2, <2>1, DirlinkFacts, Zenon
    <3> HIDE DEF ino, d, n
    <3> QED
      BY <3>1, Zenon DEF Entered
  <2>4. p \in Counting(i) /\ (\A j \in Inum \ {i} : p \notin Counting(j)) /\ o.ip = op[p].ip
    BY <1>1, <1>2, <2>1, OpsFacts, Zenon
  <2>5. Ends(p, o, ino, {d, i})
    BY <1>1, <1>2, <1>4, <2>3, Zenon DEF Ends
  <2> HIDE DEF ino, d, n
  <2>6. /\ \A j \in Inum : Held(j)' => Held(j)
        /\ \A j \in Inum : p \notin Counting(j)' /\ \A q \in Proc \ {p} : q \in Counting(j)' <=> q \in Counting(j)
        /\ strayed \in BOOLEAN
    BY <2>5, EndStep, Zenon
  <2>7. Counting(i)' = Counting(i) \ {p} /\ \A j \in Inum \ {i} : Counting(j)' = Counting(j)
    <3>1. \A q \in Proc : q \in Counting(i)' <=> q \in Counting(i) \ {p}
      BY <2>1, <2>6, Zenon
    <3>2. \A j \in Inum \ {i} : \A q \in Proc : q \in Counting(j)' <=> q \in Counting(j)
      BY <2>4, <2>6, Zenon
    <3> QED
      BY <3>1, <3>2, ZenonT(30) DEF Counting
  <2>8. strayed' \in BOOLEAN /\ (strayed => strayed')
    BY <1>4, <2>6, Zenon
  <2>9. ASSUME ~strayed'
        PROVE  Good(ino, Count') /\ LinkTo(ino) /\ HeldTo(ino)
    <3>1. /\ Count \in [Inum -> SUBSET Proc] /\ Count' \in [Inum -> SUBSET Proc]
          /\ \A j \in Inum : Count[j] = Counting(j) /\ Count'[j] = Counting(j)'
      BY Zenon DEF Count, Counting
    <3>2. Cardinality(Counting(i)') = Cardinality(Counting(i)) - 1
      <4>1. Counting(i) \in SUBSET Proc
        BY Zenon DEF Counting
      <4> QED
        BY <2>4, <2>7, <4>1, CardRemove, ZenonT(30) DEF Sized
    <3>3. ~strayed /\ inode[d].nlink # 0
      BY <1>4, <2>9, ZenonT(30) DEF Dead
    <3>4. Held(i)
      BY <2>4, Zenon DEF Held
    <3>5. inode[i].type \notin {"dir", "none"} /\ Good(inode, Count)
      BY <2>1, <3>3, <2>4, <3>4, Zenon DEF IInv, LinkInv, HeldInv
    <3>6. /\ Cardinality(Count'[i]) = Cardinality(Count[i]) - 1
          /\ \A j \in Inum \ {i} : Count'[j] = Count[j]
      BY <2>1, <2>7, <3>1, <3>2, ZenonT(30)
    <3>7. Good(ino, Count')
      <4>1. EntersLink(inode, ino, Count, Count', d, n, i)
        BY <1>1, <2>2, <2>3, <3>3, <3>5, <3>6, Zenon DEF EntersLink, Entered
      <4> QED
        BY <1>2, <2>1, <2>3, <3>1, <3>5, <4>1, EnterKeeps, Zenon
    <3>8. LinkTo(ino)
      BY <3>3, <2>3, <2>6, ZenonT(30) DEF LinkTo, IInv, LinkInv
    <3>9. HeldTo(ino)
      BY <3>3, <2>3, <2>6, Zenon DEF HeldTo, IInv, HeldInv
    <3> QED
      BY <3>7, <3>8, <3>9, ZenonT(30)
  <2> QED
    BY <2>3, <2>5, <2>8, <2>9, EndKeeps, Zenon
<1> QED
  BY <1>1, <1>3, <1>4, Zenon
=============================================================================
