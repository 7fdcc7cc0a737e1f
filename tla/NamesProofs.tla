----------------------------- MODULE NamesProofs -----------------------------
(***************************************************************************)
(* Theorems about Names, for any number of processes, inodes and open      *)
(* files, and for any names, paths and bounds: create and sys_unlink keep  *)
(* the inductive invariant IInv of NamesLemmas, so that all steps do, and  *)
(* what follows from it.                                                   *)
(***************************************************************************)
EXTENDS NamesLemmas

-----------------------------------------------------------------------------
(* create. *)

\* There is room for an entry n in d, which is linked, and i is free.
Creatable(ino, C, d, n, i) ==
  /\ ino[d].type = "dir" /\ ino[d].nlink # 0 /\ ino[d].ent[n] = 0
  /\ ino[i].type = "none" /\ C[i] = {}

\* ino2 is ino with a new inode i in d, and k more links of d.
Created(ino, ino2, d, n, i, k) ==
  /\ \A j \in Inum \ {d, i} : ino2[j] = ino[j]
  /\ ino2[d].type = ino[d].type /\ ino2[d].dotdot = ino[d].dotdot /\ ino2[d].nlink = ino[d].nlink + k
  /\ ino2[d].ent[n] = i /\ \A m \in Name \ {n} : ino2[d].ent[m] = ino[d].ent[m]
  /\ ino2[i].type # "none" /\ ino2[i].nlink = 1 /\ ino2[i].ent = NoEntries
  /\ IF ino2[i].type = "dir" THEN k = 1 /\ ino2[i].dotdot = d ELSE k = 0

\* A new inode, with one link, is entered in a directory that is linked, and has
\* this one as its ".." if it is a directory itself.
LEMMA NewKeeps ==
  ASSUME Sized, NEW ino, InodesOK(ino), NEW ino2, InodesOK(ino2), NEW C \in [Inum -> SUBSET Proc], Good(ino, C),
         NEW d \in Inum, NEW n \in Name, NEW i \in Inum, NEW k \in {0, 1},
         Creatable(ino, C, d, n, i), Created(ino, ino2, d, n, i, k)
  PROVE  Good(ino2, C)
<1>1. ino[d].type = "dir" /\ ino[d].nlink # 0 /\ ino[d].ent[n] = 0 /\ ino[i].type = "none" /\ C[i] = {}
  BY Zenon DEF Creatable
<1>2. \A j \in Inum \ {d, i} : ino2[j] = ino[j]
  BY Zenon DEF Created
<1>3. /\ ino2[d].type = "dir" /\ ino2[d].dotdot = ino[d].dotdot /\ ino2[d].nlink = ino[d].nlink + k
      /\ ino2[d].ent[n] = i /\ \A m \in Name \ {n} : ino2[d].ent[m] = ino[d].ent[m]
  BY <1>1, Zenon DEF Created
<1>4. /\ ino2[i].type # "none" /\ ino2[i].nlink = 1 /\ ino2[i].ent = NoEntries
      /\ IF ino2[i].type = "dir" THEN k = 1 /\ ino2[i].dotdot = d ELSE k = 0
  BY Zenon DEF Created
<1>5. i # d /\ i # Root /\ ino[i].ent = NoEntries /\ EntriesOf(ino, i) = {} /\ i # 0 /\ Root \in Inum
  BY <1>1, ConstFacts, Zenon DEF Good, Tidy
<1>6. \A j \in Inum, m \in Name : ino2[j].ent[m] = IF j = d /\ m = n THEN i ELSE ino[j].ent[m]
  BY <1>2, <1>3, <1>4, <1>5
<1>7. EntriesOf(ino2, i) = {<<d, n>>} /\ \A j \in Inum \ {i} : EntriesOf(ino2, j) = EntriesOf(ino, j)
  <2>1. \A j \in Inum, m \in Name : ino[j].ent[m] # i
    <3> TAKE j \in Inum, m \in Name
    <3>1. <<j, m>> \notin EntriesOf(ino, i)
      BY <1>5, Zenon
    <3> QED
      BY <3>1, Zenon DEF EntriesOf
  <2>2. EntriesOf(ino2, i) = {<<d, n>>}
    BY <1>6, <2>1 DEF EntriesOf
  <2>3. \A j \in Inum \ {i} : EntriesOf(ino2, j) = EntriesOf(ino, j)
    BY <1>1, <1>6, ConstFacts, SMTT(30) DEF EntriesOf
  <2> QED
    BY <2>2, <2>3, Zenon
<1>8. \A j \in Inum, m \in Name : ino[j].ent[m] # 0 => ino[j].ent[m] \in Inum \ {i}
  <2> TAKE j \in Inum, m \in Name
  <2>1. ino[j].ent \in [Name -> InodeNo]
    BY ZenonT(30) DEF InodesOK, InodeRec
  <2>2. <<j, m>> \notin EntriesOf(ino, i)
    BY <1>5, Zenon
  <2>3. ino[j].ent[m] # i
    BY <2>2, Zenon DEF EntriesOf
  <2> QED
    BY <2>1, <2>3, ConstFacts, ZenonT(30)
<1>9. \A j \in Inum \ {i} : ino2[j].type = ino[j].type
  BY <1>1, <1>2, <1>3
<1>10. \A j \in Inum \ {d} : SubdirsOf(ino2, j) = SubdirsOf(ino, j)
  BY <1>6, <1>8, <1>9, SMTT(30) DEF SubdirsOf
<1>11. /\ SubdirsOf(ino2, d) = SubdirsOf(ino, d) \cup (IF ino2[i].type = "dir" THEN {n} ELSE {})
       /\ n \notin SubdirsOf(ino, d)
  <2>1. n \notin SubdirsOf(ino, d) /\ SubdirsOf(ino, d) \subseteq Name /\ SubdirsOf(ino2, d) \subseteq Name
    BY <1>1, Zenon DEF SubdirsOf
  <2>2. n \in SubdirsOf(ino2, d) <=> ino2[i].type = "dir"
    BY <1>3, <1>5, Zenon DEF SubdirsOf
  <2>3. \A m \in Name \ {n} : m \in SubdirsOf(ino2, d) <=> m \in SubdirsOf(ino, d)
    BY <1>6, <1>8, <1>9 DEF SubdirsOf
  <2> QED
    BY <2>1, <2>2, <2>3, ZenonT(30)
<1>12. \A j \in Inum : /\ Cardinality(EntriesOf(ino, j)) \in Nat /\ Cardinality(SubdirsOf(ino, j)) \in Nat
                       /\ Cardinality(C[j]) \in Nat /\ SubdirsOf(ino, j) \in SUBSET Name /\ LinksOf(ino, j, C[j]) \in Nat
  BY CardFacts, Zenon
<1>13. Counted(ino2, C)
  <2> SUFFICES ASSUME NEW j \in Inum, ino2[j].type # "none"
               PROVE  ino2[j].nlink = LinksOf(ino2, j, C[j])
    BY Zenon DEF Counted
  <2>1. CASE j \notin {d, i}
    BY <1>2, <1>7, <1>10, <2>1 DEF Good, Counted, LinksOf
  <2>2. CASE j = i
    <3>1. SubdirsOf(ino2, i) = {}
      BY <1>5, <1>10, SMTT(30) DEF SubdirsOf, NoEntries
    <3>2. Cardinality({}) = 0
      BY CardPositive, Zenon DEF Sized
    <3> DEFINE e == <<d, n>>
    <3>3. Cardinality({e}) = 1
      <4>1. e \in Inum \X Name /\ Sizes(Inum \X Name)
        BY Zenon DEF Sized
      <4> HIDE DEF e
      <4> QED
        BY <4>1, CardOne, Zenon
    <3>4. Cardinality(EntriesOf(ino2, i)) = 1
      BY <1>7, <3>3, Zenon
    <3>5. LinksOf(ino2, i, C[i]) = 1 + 0 + 0 + 0
      BY <1>1, <1>5, <3>1, <3>2, <3>4, Zenon DEF LinksOf
    <3>6. 1 + 0 + 0 + 0 = 1
      OBVIOUS
    <3> QED
      BY <1>4, <2>2, <3>5, <3>6, Zenon
  <2>3. CASE j = d
    <3>1. ino[d].nlink = LinksOf(ino, d, C[d])
      BY <1>1, Zenon DEF Good, Counted
    <3>2. Cardinality(SubdirsOf(ino2, d)) = Cardinality(SubdirsOf(ino, d)) + k
      <4>1. CASE ino2[i].type = "dir"
        <5>1. SubdirsOf(ino2, d) = SubdirsOf(ino, d) \cup {n} /\ k = 1
          BY <1>4, <1>11, <4>1, Zenon
        <5> DEFINE s == SubdirsOf(ino, d)
        <5>2. s \in SUBSET Name /\ n \notin s
          BY <1>11, <1>12, ZenonT(30)
        <5> HIDE DEF s
        <5>3. Cardinality(s \cup {n}) = Cardinality(s) + 1
          BY <5>2, CardAdd, SMTT(30) DEF Sized
        <5> QED
          BY <5>1, <5>3, ZenonT(30) DEF s
      <4>2. CASE ino2[i].type # "dir"
        BY <1>4, <1>11, <1>12, <4>2
      <4> QED
        BY <4>1, <4>2, Zenon
    <3> QED
      BY <1>3, <1>5, <1>7, <1>12, <2>3, <3>1, <3>2 DEF LinksOf
  <2> QED
    BY <2>1, <2>2, <2>3, ZenonT(30)
<1>14. ino[d].nlink > 0 /\ ino2[d].nlink > 0
  <2>1. ino[d].nlink \in Nat /\ ino[d].nlink # 0
    BY <1>1, <1>12, Zenon DEF Good, Counted
  <2> QED
    BY <1>3, <2>1
<1>15. Tidy(ino2)
  <2>1. ino2[Root].type = "dir" /\ ino2[Root].dotdot = Root /\ EntriesOf(ino2, Root) = {}
    BY <1>2, <1>3, <1>5, <1>7 DEF Good, Tidy
  <2>2. \A j \in Inum : ino2[j].type = "none" => EntriesOf(ino2, j) = {}
    BY <1>4, <1>7, <1>9, SMTT(30) DEF Good, Tidy
  <2>3. \A j \in Inum : ino2[j].type # "dir" \/ ino2[j].nlink = 0 => ino2[j].ent = NoEntries
    <3> TAKE j \in Inum
    <3>1. CASE j \notin {d, i}
      BY <1>2, <3>1 DEF Good, Tidy
    <3>2. CASE j = d
      BY <1>3, <1>14, <3>2, 0 \in Int, SMTT(30)
    <3>3. CASE j = i
      BY <1>4, <3>3, Zenon
    <3> QED
      BY <3>1, <3>2, <3>3, ZenonT(30)
  <2> QED
    BY <2>1, <2>2, <2>3, ZenonT(30) DEF Tidy
<1>16. Linked(ino2) = Linked(ino) \cup (IF ino2[i].type = "dir" THEN {i} ELSE {}) /\ i \notin Linked(ino)
  <2>1. i \notin Linked(ino) /\ Linked(ino) \subseteq Inum /\ Linked(ino2) \subseteq Inum
    BY <1>1, Zenon DEF Linked
  <2>2. i \in Linked(ino2) <=> ino2[i].type = "dir"
    BY <1>4, <1>5 DEF Linked
  <2>3. d \in Linked(ino2) <=> d \in Linked(ino)
    BY <1>1, <1>3, <1>14, Zenon DEF Linked
  <2>4. \A j \in Inum \ {d, i} : j \in Linked(ino2) <=> j \in Linked(ino)
    BY <1>2, Zenon DEF Linked
  <2> QED
    BY <2>1, <2>2, <2>3, <2>4, SMTT(30)
<1>17. \A j \in Linked(ino) : /\ j \in Inum /\ j # i /\ ino2[j].dotdot = ino[j].dotdot /\ ino[j].dotdot \in Inum \ {i}
                              /\ ino2[ino[j].dotdot].nlink # 0
                              /\ \E m \in Name : EntriesOf(ino, j) = {<<ino[j].dotdot, m>>}
  <2> TAKE j \in Linked(ino)
  <2>0. Parented(ino, j)
    BY ParentFacts, Zenon
  <2>1. /\ j \in Inum /\ ino[j].dotdot \in Inum
        /\ ino[ino[j].dotdot].type = "dir" /\ ino[ino[j].dotdot].nlink # 0
        /\ \E m \in Name : EntriesOf(ino, j) = {<<ino[j].dotdot, m>>}
    BY <2>0, Zenon DEF Parented
  <2>2. j # i /\ ino[j].dotdot # i
    BY <1>1, <1>16, <2>1, Zenon
  <2>3. ino2[ino[j].dotdot].nlink # 0
    BY <1>2, <1>14, <2>1, <2>2, 0 \in Int
  <2> QED
    BY <1>2, <1>3, <2>1, <2>2, <2>3, ZenonT(30)
<1>18. Below(ino2)
  <2> SUFFICES ASSUME NEW j \in Linked(ino2)
               PROVE  \E m \in Name : EntriesOf(ino2, j) = {<<ino2[j].dotdot, m>>}
                                      /\ ino2[ino2[j].dotdot].nlink # 0
    BY Zenon DEF Below
  <2>1. CASE j \in Linked(ino)
    BY <2>1, <1>7, <1>17, SMTT(30)
  <2>2. CASE j = i /\ ino2[i].type = "dir"
    BY <1>4, <1>14, <2>2, <1>7, 0 \in Int
  <2> QED
    BY <1>16, <2>1, <2>2, Zenon
<1>19. NoCycle(ino2)
  <2> SUFFICES ASSUME NEW D \in SUBSET Linked(ino2), D # {}
               PROVE  \E j \in D : ino2[j].dotdot \notin D
    BY Zenon DEF NoCycle
  <2>1. CASE D \subseteq {i}
    <3>1. i \in D /\ i \in Linked(ino2)
      BY <2>1, Zenon
    <3>2. ino2[i].type = "dir"
      BY <1>16, <3>1, Zenon
    <3> QED
      BY <1>4, <3>1, <2>1, <3>2, <1>5, ZenonT(30)
  <2>2. CASE ~(D \subseteq {i})
    <3> DEFINE E == D \ {i}
    <3>1. E \in SUBSET Linked(ino) /\ E # {}
      BY <1>16, <2>2, Zenon
    <3>2. PICK j \in E : ino[j].dotdot \notin E
      BY <3>1, Zenon DEF Good, NoCycle
    <3> QED
      BY <3>1, <3>2, <1>17, ZenonT(30)
  <2> QED
    BY <2>1, <2>2, Zenon
<1> QED
  BY <1>13, <1>15, <1>18, <1>19, ZenonT(30) DEF Good

\* What create makes of the inodes.
NewInodes(d, n, i, o) ==
  [dirlink(d, n, i) EXCEPT ![i] = NewInode(d, o), ![d].nlink = @ + ParentLinks(o)]

\* What is in the inodes that create leaves.
LEMMA NewFacts ==
  ASSUME InodesOK(inode), NEW d \in Inum, NEW n \in Name, NEW i \in Inum, i # d, NEW o, OpOK(o), o.call \in Creating,
         NEW ino, ino = NewInodes(d, n, i, o)
  PROVE  InodesOK(ino) /\ ParentLinks(o) \in {0, 1} /\ Created(inode, ino, d, n, i, ParentLinks(o))
<1> DEFINE r == NewInode(d, o)
           k == ParentLinks(o)
           a == dirlink(d, n, i)
           b == [a EXCEPT ![i] = r]
           T == CASE o.call = "create" -> "file" [] o.call = "mkdir" -> "dir" [] o.call = "symlink" -> "symlink"
           t == IF o.call = "symlink" THEN o.new ELSE <<>>
           u == IF o.call = "mkdir" THEN d ELSE 0
<1>1. r = [type |-> T, nlink |-> 1, target |-> t, ent |-> NoEntries, dotdot |-> u]
  <2>1. ASSUME NEW x, x = r
        PROVE  x = [type |-> T, nlink |-> 1, target |-> t, ent |-> NoEntries, dotdot |-> u]
    BY <2>1, Zenon DEF NewInode, Free
  <2> QED
    BY <2>1, Zenon
<1>2. /\ k \in {0, 1} /\ T \in {"file", "dir", "symlink"} /\ t \in Seq(Name) /\ (T = "symlink" => t # <<>>)
      /\ u \in InodeNo /\ IF T = "dir" THEN k = 1 /\ u = d ELSE k = 0
  <2>1. o.new \in Seq(Name) /\ (o.call = "symlink" => o.new # <<>>) /\ <<>> \in Seq(Name)
    BY PathFacts, Zenon DEF OpOK, OpRec
  <2>2. d \in InodeNo /\ 0 \in InodeNo
    BY ConstFacts, Zenon
  <2>3. CASE o.call = "create"
    BY <2>1, <2>2, <2>3, Zenon DEF ParentLinks
  <2>4. CASE o.call = "mkdir"
    BY <2>1, <2>2, <2>4, Zenon DEF ParentLinks
  <2>5. CASE o.call = "symlink"
    BY <2>1, <2>2, <2>5, ZenonT(30) DEF ParentLinks
  <2> QED
    BY <2>3, <2>4, <2>5, ZenonT(30) DEF Creating
<1> HIDE DEF r, k, T, t, u
<1>3. /\ r \in InodeRec /\ r.type = T /\ r.nlink = 1 /\ r.target = t /\ r.ent = NoEntries /\ r.dotdot = u
  BY <1>1, <1>2, NullTypes, SMTT(30) DEF InodeRec
<1>4. InodesOK(a) /\ Entered(inode, a, d, n, i)
  <2>1. i \in InodeNo
    BY ConstFacts, Zenon
  <2> QED
    BY <2>1, DirlinkFacts, Zenon
<1>5. ino = SetLinks(b, d, b[d].nlink + k)
  BY Zenon DEF r, k, NewInodes, SetLinks
<1> HIDE DEF a
<1>6. /\ InodesOK(a) /\ a[d].ent[n] = i
      /\ \A j \in Inum : /\ a[j].type = inode[j].type /\ a[j].nlink = inode[j].nlink
                         /\ a[j].dotdot = inode[j].dotdot
                         /\ j # d => a[j] = inode[j]
                         /\ \A m \in Name : j # d \/ m # n => a[j].ent[m] = inode[j].ent[m]
  BY <1>4, Zenon DEF Entered
<1>7. b \in [Inum -> InodeRec] /\ b[i] = r /\ \A j \in Inum \ {i} : b[j] = a[j]
  BY <1>3, <1>6, ZenonT(30) DEF InodesOK
<1> HIDE DEF b
<1>8. InodesOK(b)
  BY <1>2, <1>3, <1>6, <1>7 DEF InodesOK
<1>9. b[d].nlink \in Int /\ b[d].nlink + k \in Int
  BY <1>2, <1>7 DEF InodeRec
<1>10. /\ InodesOK(ino) /\ ino[d].nlink = b[d].nlink + k
      /\ \A j \in Inum : /\ ino[j].type = b[j].type /\ ino[j].ent = b[j].ent
                         /\ ino[j].dotdot = b[j].dotdot
                         /\ j # d => ino[j] = b[j]
  <2> DEFINE m == b[d].nlink + k
  <2>1. ino = SetLinks(b, d, m) /\ m \in Int
    BY <1>5, <1>9, Zenon
  <2> HIDE DEF m
  <2>2. InodesOK(ino) /\ Relinked(b, ino, d, m)
    BY <1>8, <2>1, NlinkFacts, Zenon
  <2> QED
    BY <2>2, Zenon DEF m, Relinked
<1>11. /\ InodesOK(ino) /\ k \in {0, 1}
       /\ \A j \in Inum \ {d, i} : ino[j] = inode[j]
       /\ ino[d].type = inode[d].type /\ ino[d].dotdot = inode[d].dotdot /\ ino[d].nlink = inode[d].nlink + k
       /\ ino[d].ent[n] = i /\ \A m \in Name \ {n} : ino[d].ent[m] = inode[d].ent[m]
  BY <1>2, <1>6, <1>7, <1>10, SMTT(30)
<1>12. /\ ino[i].type # "none" /\ ino[i].nlink = 1 /\ ino[i].ent = NoEntries
       /\ IF ino[i].type = "dir" THEN k = 1 /\ ino[i].dotdot = d ELSE k = 0
  BY <1>2, <1>3, <1>7, <1>10, ZenonT(30)
<1> QED
  BY <1>11, <1>12, ZenonT(30) DEF k, Created

\* create makes an inode, opens it as a file or makes it a link.
LEMMA create_new_keeps ==
  ASSUME Sized, IInv, NEW p \in Proc, NEW o \in Ops(p), create_new(p, o)
  PROVE  IInv'
<1> DEFINE d == Dir(p, o)
           n == o.path[1]
           k == ParentLinks(o)
<1>1. o.pc = "name" /\ o.call \in Creating /\ inode[d].type = "dir" /\ dirlookup(d, n) = 0
  BY Zenon DEF create_new, Last, InDir, At
<1>2. PICK i \in Inum : /\ ialloc(i) /\ (OpenFile(i) \/ files' = files) /\ cwd' = cwd
                        /\ strayed' = (strayed \/ Dead(d))
                        /\ Step(p, Idle, NewInodes(d, n, i, o), {d, i})
  BY ZenonT(30) DEF create_new, NewInodes
<1> DEFINE ino == NewInodes(d, n, i, o)
<1>3. /\ TypeInv /\ InodesOK(inode) /\ o.ip = 0 /\ o.dp \in {0, d} /\ d \in Inum /\ n \in Name /\ OpOK(o)
      /\ strayed \in BOOLEAN /\ cwd' \in [Proc -> Inum]
  BY <1>1, <1>2, CallFacts, Zenon DEF TypeInv, Creating
<1>4. i # d /\ inode[i].type = "none" /\ inode[d].ent[n] = 0
  BY <1>1, <1>2, <1>3, NamesAssumption, Zenon DEF ialloc, dirlookup
<1>5. InodesOK(ino) /\ k \in {0, 1} /\ Created(inode, ino, d, n, i, k)
  BY <1>1, <1>3, <1>4, NewFacts, Zenon
<1> HIDE DEF ino, d, n, k
<1>6. /\ \A j \in Inum \ {d, i} : ino[j] = inode[j]
      /\ ino[d].type = inode[d].type /\ ino[d].nlink = inode[d].nlink + k
      /\ ino[i].type # "none" /\ ino[i].nlink = 1
  BY <1>5, Zenon DEF Created
<1>7. /\ files' \in [File -> FileRec]
      /\ \A f \in File : files'[f].ip = files[f].ip \/ (files[f].ip = 0 /\ files'[f].ip = i)
  BY <1>2, <1>3, OpenFileFacts, Zenon
<1>8. /\ o.ip = op[p].ip /\ o.dp = op[p].dp /\ (op[p].pc = "idle" => group < MaxGroup)
      /\ \A j \in Inum : p \notin Counting(j)
  BY <1>3, OpsFacts, ConstFacts, SMTT(30)
<1>9. op'[p] = Idle /\ \A q \in Proc \ {p} : op'[q] = op[q]
  BY <1>2, <1>3, Zenon DEF Step, TypeInv
<1>10. \A j \in Inum : Held(j) => Held(j)' \/ j = d
  BY <1>2, <1>3, <1>7, <1>8, <1>9, ConstFacts, SMTT(30) DEF Held
<1>11. \A j \in Inum : Held(j)' => Held(j) \/ j = i
  BY <1>2, <1>7, <1>9, NullTypes, ConstFacts, SMTT(30) DEF Held
<1>12. \A j \in Inum : Counting(j)' = Counting(j)
  <2>1. \A j \in Inum : p \notin Counting(j)'
    BY <1>9, NullTypes, ConstFacts, Zenon DEF Counting
  <2>2. \A j \in Inum : \A q \in Proc : q \in Counting(j)' <=> q \in Counting(j)
    BY <1>8, <1>9, <2>1, ZenonT(30) DEF Counting
  <2> QED
    BY <2>2, ZenonT(30) DEF Counting
<1>13. \A j \in Inum : ino[j].type # "none" /\ ino[j].nlink = 0 => j \in {d, i} \/ Held(j)'
  BY <1>6, <1>10, Zenon DEF IInv, NoOrphans
<1>14. ASSUME ~strayed'
       PROVE  Good(ino, Count') /\ LinkTo(ino) /\ HeldTo(ino)
  <2>1. Count' = Count /\ Count \in [Inum -> SUBSET Proc] /\ \A j \in Inum : Count[j] = Counting(j)
    BY <1>12, Zenon DEF Count, Counting
  <2>2. ~strayed /\ inode[d].nlink # 0
    BY <1>2, <1>14, ZenonT(30) DEF Dead, d
  <2>3. Good(inode, Count) /\ ~Held(i)
    BY <1>4, <2>2, Zenon DEF IInv, HeldInv
  <2>4. Count[i] = {}
    BY <2>3, <2>1, SMTT(30) DEF Counting, Held
  <2>5. Good(ino, Count')
    <3>1. Creatable(inode, Count, d, n, i)
      BY <1>1, <1>4, <2>2, <2>4, Zenon DEF Creatable, d
    <3> QED
      BY <1>3, <1>5, <2>1, <2>3, <3>1, NewKeeps, Zenon
  <2>6. LinkTo(ino)
    BY <2>2, <2>4, <1>6, <1>12, <2>1, SMTT(30) DEF LinkTo, IInv, LinkInv
  <2>7. HeldTo(ino)
    BY <1>4, <2>2, <1>6, <1>11, SMTT(30) DEF HeldTo, IInv, HeldInv
  <2> QED
    BY <2>5, <2>6, <2>7, Zenon
<1>15. strayed' \in BOOLEAN /\ (strayed => strayed')
  BY <1>2, <1>3, Zenon
<1>16. Step(p, Idle, ino, {d, i})
  BY <1>2, Zenon DEF ino, d, n
<1> QED
  BY <1>3, <1>5, <1>7, <1>8, <1>13, <1>14, <1>15, <1>16, NullTypes, StepKeeps, ZenonT(30)
-----------------------------------------------------------------------------
(* sys_unlink. *)

\* No directory is in itself.
LEMMA NotInItself ==
  ASSUME Sized, NEW ino, InodesOK(ino), NEW C \in [Inum -> SUBSET Proc], Good(ino, C),
         NEW d \in Inum, NEW n \in Name, ino[d].type = "dir", ino[d].ent[n] = d
  PROVE  FALSE
<1>1. <<d, n>> \in EntriesOf(ino, d)
  BY Zenon DEF EntriesOf
<1>2. d # Root /\ ino[d].nlink # 0
  <2>1. ino[d].ent # NoEntries
    BY ConstFacts, Zenon DEF NoEntries
  <2> QED
    BY <1>1, <2>1, Zenon DEF Good, Tidy
<1>3. ino[d].nlink \in Nat
  <2>1. ino[d].nlink = LinksOf(ino, d, C[d])
    BY Zenon DEF Good, Counted
  <2>2. C[d] \in SUBSET Proc
    BY Zenon
  <2> QED
    BY <2>1, <2>2, CardFacts, ZenonT(30)
<1>4. d \in Linked(ino)
  BY <1>2, <1>3 DEF Linked
<1>5. ino[d].dotdot = d
  <2>1. Parented(ino, d)
    BY <1>4, ParentFacts, Zenon
  <2>2. PICK m \in Name : EntriesOf(ino, d) = {<<ino[d].dotdot, m>>}
    BY <2>1, Zenon DEF Parented
  <2> QED
    BY <1>1, <2>2
<1>6. {d} \in SUBSET Linked(ino) /\ {d} # {}
  BY <1>4, Zenon
<1> QED
  BY <1>5, <1>6, Zenon DEF Good, NoCycle

\* The entry n of d is i, which is no directory (k = 0) or one that is empty and
\* that nobody links (k = 1).
Removable(ino, C, d, n, i, k) ==
  /\ i # d /\ ino[d].type = "dir" /\ ino[d].ent[n] = i
  /\ IF ino[i].type = "dir" THEN k = 1 /\ ino[i].ent = NoEntries /\ C[i] = {} ELSE k = 0

\* ino2 is ino without the entry n of d, with k links of d and one of i less.
TakenOut(ino, ino2, d, n, i, k) ==
  /\ \A j \in Inum : ino2[j].type = ino[j].type /\ ino2[j].dotdot = ino[j].dotdot
  /\ \A j \in Inum \ {d, i} : ino2[j] = ino[j]
  /\ ino2[d].ent[n] = 0 /\ \A m \in Name \ {n} : ino2[d].ent[m] = ino[d].ent[m]
  /\ i # d => /\ ino2[i].ent = ino[i].ent
              /\ ino2[d].nlink = ino[d].nlink - k /\ ino2[i].nlink = ino[i].nlink - 1

\* An entry is taken out; an empty directory loses its only one, and its parent
\* the link that ".." was.
LEMMA RemoveKeeps ==
  ASSUME Sized, NEW ino, InodesOK(ino), NEW ino2, InodesOK(ino2), NEW C \in [Inum -> SUBSET Proc], Good(ino, C),
         NEW d \in Inum, NEW n \in Name, NEW i \in Inum, NEW k \in {0, 1},
         Removable(ino, C, d, n, i, k), TakenOut(ino, ino2, d, n, i, k)
  PROVE  Good(ino2, C)
<1>1. /\ i # d /\ ino[d].type = "dir" /\ ino[d].ent[n] = i
      /\ IF ino[i].type = "dir" THEN k = 1 /\ ino[i].ent = NoEntries /\ C[i] = {} ELSE k = 0
  BY Zenon DEF Removable
<1>2. \A j \in Inum : ino2[j].type = ino[j].type /\ ino2[j].dotdot = ino[j].dotdot
  BY Zenon DEF TakenOut
<1>3. \A j \in Inum \ {d, i} : ino2[j] = ino[j]
  BY Zenon DEF TakenOut
<1>4. ino2[d].ent[n] = 0 /\ \A m \in Name \ {n} : ino2[d].ent[m] = ino[d].ent[m]
  BY Zenon DEF TakenOut
<1>5. ino2[i].ent = ino[i].ent /\ ino2[d].nlink = ino[d].nlink - k /\ ino2[i].nlink = ino[i].nlink - 1
  BY <1>1, Zenon DEF TakenOut
<1>6. <<d, n>> \in EntriesOf(ino, i) /\ Root \in Inum
  BY <1>1, ConstFacts, Zenon DEF EntriesOf
<1>7. i # Root /\ ino[i].type # "none" /\ ino[d].nlink # 0
  <2>1. ino[d].ent # NoEntries
    BY <1>1, ConstFacts DEF NoEntries
  <2> QED
    BY <1>6, <2>1, ZenonT(30) DEF Good, Tidy
<1>8. \A j \in Inum, m \in Name : ino2[j].ent[m] = IF j = d /\ m = n THEN 0 ELSE ino[j].ent[m]
  BY <1>3, <1>4, <1>5, ZenonT(30)
<1>9. /\ EntriesOf(ino2, i) = EntriesOf(ino, i) \ {<<d, n>>}
      /\ \A j \in Inum \ {i} : EntriesOf(ino2, j) = EntriesOf(ino, j)
  <2>1. EntriesOf(ino2, i) = EntriesOf(ino, i) \ {<<d, n>>}
    BY <1>8, ConstFacts, SMTT(30) DEF EntriesOf
  <2>2. \A j \in Inum \ {i} : EntriesOf(ino2, j) = EntriesOf(ino, j)
    BY <1>1, <1>8, ConstFacts DEF EntriesOf
  <2> QED
    BY <2>1, <2>2, Zenon
<1>10. \A j \in Inum, m \in Name : ino[j].ent[m] # 0 => ino[j].ent[m] \in Inum
  <2> TAKE j \in Inum, m \in Name
  <2>1. ino[j].ent \in [Name -> InodeNo]
    BY Zenon DEF InodesOK, InodeRec
  <2> QED
    BY <2>1, ConstFacts, ZenonT(30)
<1>11. \A j \in Inum \ {d} : SubdirsOf(ino2, j) = SubdirsOf(ino, j)
  BY <1>2, <1>8, <1>10, SMTT(30) DEF SubdirsOf
<1>12. SubdirsOf(ino2, d) = SubdirsOf(ino, d) \ {n} /\ (n \in SubdirsOf(ino, d) <=> k = 1)
  <2>1. n \in SubdirsOf(ino, d) <=> k = 1
    BY <1>1, ConstFacts DEF SubdirsOf
  <2>2. n \notin SubdirsOf(ino2, d) /\ SubdirsOf(ino, d) \subseteq Name /\ SubdirsOf(ino2, d) \subseteq Name
    BY <1>4, Zenon DEF SubdirsOf
  <2>3. \A m \in Name \ {n} : m \in SubdirsOf(ino2, d) <=> m \in SubdirsOf(ino, d)
    BY <1>2, <1>8, <1>10 DEF SubdirsOf
  <2> QED
    BY <2>1, <2>2, <2>3, Zenon
<1>13. \A j \in Inum : /\ Cardinality(EntriesOf(ino, j)) \in Nat /\ Cardinality(SubdirsOf(ino, j)) \in Nat
                       /\ Cardinality(C[j]) \in Nat /\ SubdirsOf(ino, j) \in SUBSET Name /\ LinksOf(ino, j, C[j]) \in Nat
                       /\ EntriesOf(ino, j) \in SUBSET (Inum \X Name)
  BY CardFacts, Zenon
<1>14. Cardinality(EntriesOf(ino2, i)) = Cardinality(EntriesOf(ino, i)) - 1
  <2> DEFINE e == <<d, n>>
             E == EntriesOf(ino, i)
  <2>1. E \in SUBSET (Inum \X Name) /\ e \in E /\ EntriesOf(ino2, i) = E \ {e}
    BY <1>6, <1>9, <1>13, ZenonT(30)
  <2> HIDE DEF e, E
  <2>2. Cardinality(E \ {e}) = Cardinality(E) - 1
    BY <2>1, CardRemove, ZenonT(30) DEF Sized
  <2> QED
    BY <2>1, <2>2, ZenonT(30) DEF E
<1>15. Cardinality(SubdirsOf(ino2, d)) = Cardinality(SubdirsOf(ino, d)) - k
  <2> DEFINE s == SubdirsOf(ino, d)
  <2>1. s \in SUBSET Name /\ Cardinality(s) \in Nat /\ SubdirsOf(ino2, d) = s \ {n} /\ (n \in s <=> k = 1)
    BY <1>12, <1>13, Zenon
  <2> HIDE DEF s
  <2>2. CASE k = 1
    <3>1. Cardinality(s \ {n}) = Cardinality(s) - 1
      BY <2>1, <2>2, CardRemove, ZenonT(30) DEF Sized
    <3> QED
      BY <2>1, <2>2, <3>1, ZenonT(30) DEF s
  <2>3. CASE k = 0
    <3>1. s \ {n} = s
      BY <2>1, <2>3
    <3>2. SubdirsOf(ino2, d) = s
      BY <2>1, <3>1, Zenon
    <3> DEFINE c == Cardinality(s)
    <3>3. c \in Nat
      BY <2>1, Zenon
    <3> HIDE DEF c
    <3>4. c - k = c
      BY <2>3, <3>3, SMTT(30)
    <3> QED
      BY <3>2, <3>4, Zenon DEF s, c
  <2> QED
    BY <2>2, <2>3, Zenon
<1>16. Counted(ino2, C)
  <2> SUFFICES ASSUME NEW j \in Inum, ino[j].type # "none"
               PROVE  ino2[j].nlink = LinksOf(ino2, j, C[j])
    BY <1>2, Zenon DEF Counted
  <2>1. ino[j].nlink = LinksOf(ino, j, C[j])
    BY Zenon DEF Good, Counted
  <2> DEFINE e == Cardinality(EntriesOf(ino, j))
             s == Cardinality(SubdirsOf(ino, j))
             c == Cardinality(C[j])
             r == IF j = Root THEN 1 ELSE 0
  <2>0. e \in Nat /\ s \in Nat /\ c \in Nat /\ r \in {0, 1} /\ ino[j].nlink = e + s + c + r
    BY <1>13, <2>1, Zenon DEF LinksOf
  <2>2. CASE j \notin {d, i}
    <3>1. EntriesOf(ino2, j) = EntriesOf(ino, j) /\ SubdirsOf(ino2, j) = SubdirsOf(ino, j) /\ ino2[j] = ino[j]
      BY <1>3, <1>9, <1>11, <2>2, Zenon
    <3> QED
      BY <2>1, <3>1, Zenon DEF LinksOf
  <2>3. CASE j = i
    <3>1. SubdirsOf(ino2, j) = SubdirsOf(ino, j) /\ Cardinality(EntriesOf(ino2, j)) = e - 1
      BY <1>1, <1>11, <1>14, <2>3, Zenon
    <3>2. LinksOf(ino2, j, C[j]) = (e - 1) + s + c + r /\ ino2[j].nlink = (e + s + c + r) - 1
      BY <1>5, <2>0, <2>3, <3>1, Zenon DEF LinksOf
    <3> HIDE DEF e, s, c, r
    <3>3. (e + s + c + r) - 1 = (e - 1) + s + c + r
      BY <2>0
    <3> QED
      BY <3>2, <3>3, Zenon
  <2>4. CASE j = d
    <3>1. EntriesOf(ino2, j) = EntriesOf(ino, j) /\ Cardinality(SubdirsOf(ino2, j)) = s - k
      BY <1>1, <1>9, <1>15, <2>4, Zenon
    <3>2. LinksOf(ino2, j, C[j]) = e + (s - k) + c + r /\ ino2[j].nlink = (e + s + c + r) - k
      BY <1>5, <2>0, <2>4, <3>1, Zenon DEF LinksOf
    <3> HIDE DEF e, s, c, r
    <3>3. (e + s + c + r) - k = e + (s - k) + c + r
      BY <2>0
    <3> QED
      BY <3>2, <3>3, Zenon
  <2> QED
    BY <2>2, <2>3, <2>4, Zenon
<1>17. ino[d].nlink > 0 /\ ino2[d].nlink > 0
  <2>1. ino[d].nlink \in Nat /\ ino[d].nlink # 0 /\ ino[d].nlink = LinksOf(ino, d, C[d])
    BY <1>1, <1>7, <1>13, Zenon DEF Good, Counted
  <2>2. CASE k = 0
    BY <1>5, <2>1, <2>2, SMTT(30)
  <2>3. CASE k = 1
    <3>1. Cardinality(SubdirsOf(ino, d)) >= 1
      <4>1. SubdirsOf(ino, d) # {} /\ SubdirsOf(ino, d) \in SUBSET Name
        BY <1>12, <1>13, <2>3, Zenon
      <4> QED
        BY <4>1, CardPositive, Zenon DEF Sized
    <3>2. d = Root \/ Cardinality(EntriesOf(ino, d)) >= 1
      <4> SUFFICES ASSUME d # Root PROVE Cardinality(EntriesOf(ino, d)) >= 1
        BY Zenon
      <4>1. d \in Linked(ino)
        BY <1>1, <2>1 DEF Linked
      <4>2. EntriesOf(ino, d) # {}
        <5>1. \E m \in Name : EntriesOf(ino, d) = {<<ino[d].dotdot, m>>}
          <6>1. Parented(ino, d)
            BY <4>1, ParentFacts, Zenon
          <6> QED
            BY <6>1, Zenon DEF Parented
        <5> QED
          BY <5>1, ZenonT(30)
      <4>3. EntriesOf(ino, d) \in SUBSET (Inum \X Name)
        BY <1>13, Zenon
      <4> QED
        BY <4>2, <4>3, CardPositive, Zenon DEF Sized
    <3> DEFINE e == Cardinality(EntriesOf(ino, d))
               s == Cardinality(SubdirsOf(ino, d))
               c == Cardinality(C[d])
    <3>3. e \in Nat /\ s \in Nat /\ c \in Nat /\ s >= 1 /\ (d = Root \/ e >= 1)
          /\ ino[d].nlink = e + s + c + (IF d = Root THEN 1 ELSE 0)
      BY <2>1, <1>13, <3>1, <3>2, Zenon DEF LinksOf
    <3> HIDE DEF e, s, c
    <3>4. ino[d].nlink >= 2
      BY <3>3
    <3> QED
      BY <1>5, <2>1, <2>3, <3>4, SMTT(30)
  <2> QED
    BY <2>2, <2>3, Zenon
<1>18. k = 1 => ino2[i].nlink = 0
  <2> SUFFICES ASSUME k = 1, ino[i].type = "dir", ino[i].ent = NoEntries, C[i] = {} PROVE ino[i].nlink = 1
    BY <1>1, <1>5
  <2>1. ino[i].nlink = LinksOf(ino, i, C[i])
    BY <1>7, ZenonT(30) DEF Good, Counted
  <2>2. Cardinality(EntriesOf(ino, i)) >= 1
    <3>1. EntriesOf(ino, i) \in SUBSET (Inum \X Name) /\ EntriesOf(ino, i) # {}
      BY <1>6, <1>13, Zenon
    <3> QED
      BY <3>1, CardPositive, Zenon DEF Sized
  <2>3. ino[i].nlink > 0
    <3> DEFINE e == Cardinality(EntriesOf(ino, i))
               s == Cardinality(SubdirsOf(ino, i))
               c == Cardinality(C[i])
    <3>1. e \in Nat /\ s \in Nat /\ c \in Nat /\ e >= 1 /\ ino[i].nlink = e + s + c + 0
      BY <1>7, <2>1, <1>13, <2>2, Zenon DEF LinksOf
    <3> HIDE DEF e, s, c
    <3> QED
      BY <3>1, SMTT(30)
  <2>4. i \in Linked(ino)
    BY <1>7, <2>3, Zenon DEF Linked
  <2>5. PICK e : EntriesOf(ino, i) = {e}
    <3>1. Parented(ino, i)
      BY <2>4, ParentFacts, Zenon
    <3>2. PICK m \in Name : EntriesOf(ino, i) = {<<ino[i].dotdot, m>>}
      BY <3>1, Zenon DEF Parented
    <3> QED
      BY <3>2, Zenon
  <2>6. Cardinality({e}) = 1 /\ Cardinality({}) = 0
    <3>1. e \in Inum \X Name
      BY <1>7, <1>17, <2>1, <1>13, <2>5, Zenon
    <3> QED
      BY <1>7, <1>17, <2>1, <3>1, CardOne, CardPositive, Zenon DEF Sized
  <2>7. SubdirsOf(ino, i) = {}
    BY ZenonT(30) DEF SubdirsOf, NoEntries
  <2> QED
    <3>1. LinksOf(ino, i, C[i]) = 1 + 0 + 0 + 0
      BY <1>7, <2>5, <2>6, <2>7, Zenon DEF LinksOf
    <3>2. 1 + 0 + 0 + 0 = 1
      OBVIOUS
    <3> QED
      BY <2>1, <3>1, <3>2, Zenon
<1>19. Tidy(ino2)
  <2>1. ino2[Root].type = "dir" /\ ino2[Root].dotdot = Root /\ EntriesOf(ino2, Root) = {}
    BY <1>2, <1>7, <1>6, <1>9, Zenon DEF Good, Tidy
  <2>2. \A j \in Inum : ino2[j].type = "none" => EntriesOf(ino2, j) = {}
    <3> TAKE j \in Inum
    <3>1. ino[j].type = "none" => EntriesOf(ino, j) = {} /\ j # i
      BY <1>7, Zenon DEF Good, Tidy
    <3> QED
      BY <1>2, <1>9, <3>1, Zenon
  <2>3. \A j \in Inum : ino2[j].type # "dir" \/ ino2[j].nlink = 0 => ino2[j].ent = NoEntries
    <3> TAKE j \in Inum
    <3>1. CASE j \notin {d, i}
      <4>1. ino2[j] = ino[j]
        BY <1>3, <3>1, Zenon
      <4> QED
        BY <4>1, Zenon DEF Good, Tidy
    <3>2. CASE j = d
      <4>1. ino2[d].nlink # 0
        BY <1>17
      <4> QED
        BY <1>1, <1>2, <3>2, <4>1, Zenon
    <3>3. CASE j = i
      BY <1>1, <1>5, <3>3, Zenon DEF Good, Tidy
    <3> QED
      BY <3>1, <3>2, <3>3, Zenon
  <2> QED
    BY <2>1, <2>2, <2>3, Zenon DEF Tidy
<1>20. Linked(ino2) = Linked(ino) \ {i}
  <2>1. Linked(ino) \subseteq Inum /\ Linked(ino2) \subseteq Inum
    BY Zenon DEF Linked
  <2>2. i \notin Linked(ino2)
    BY <1>1, <1>2, <1>18, 0 \in Int DEF Linked
  <2>3. d \in Linked(ino2) <=> d \in Linked(ino)
    BY <1>2, <1>17, Zenon DEF Linked
  <2>4. \A j \in Inum \ {d, i} : j \in Linked(ino2) <=> j \in Linked(ino)
    BY <1>3, Zenon DEF Linked
  <2> QED
    BY <2>1, <2>2, <2>3, <2>4, ZenonT(30)
<1>21. Below(ino2)
  <2> SUFFICES ASSUME NEW j \in Linked(ino2)
               PROVE  \E m \in Name : EntriesOf(ino2, j) = {<<ino2[j].dotdot, m>>}
                                      /\ ino2[ino2[j].dotdot].nlink # 0
    BY Zenon DEF Below
  <2>1. j \in Linked(ino) /\ j # i
    BY <1>20, Zenon
  <2>0. Parented(ino, j)
    BY <2>1, ParentFacts, Zenon
  <2>2. /\ j \in Inum /\ ino[j].dotdot \in Inum
        /\ ino[ino[j].dotdot].type = "dir" /\ ino[ino[j].dotdot].nlink # 0
    BY <2>0, Zenon DEF Parented
  <2>3. PICK m \in Name : EntriesOf(ino, j) = {<<ino[j].dotdot, m>>} /\ ino[ino[j].dotdot].ent[m] = j
    BY <2>0, Zenon DEF Parented
  <2>4. ino[j].dotdot # i
    <3>1. j # 0 /\ NoEntries[m] = 0
      BY <2>2, ConstFacts, Zenon DEF NoEntries
    <3> QED
      BY <1>1, <2>2, <2>3, <3>1, Zenon
  <2>5. ino2[ino[j].dotdot].nlink # 0
    <3>1. ino2[d].nlink # 0
      BY <1>17
    <3> QED
      BY <1>3, <2>2, <2>4, <3>1, Zenon
  <2> QED
    BY <1>2, <2>1, <2>2, <2>3, <2>5, <1>9, Zenon
<1>22. NoCycle(ino2)
  <2> SUFFICES ASSUME NEW D \in SUBSET Linked(ino2), D # {}
               PROVE  \E j \in D : ino2[j].dotdot \notin D
    BY Zenon DEF NoCycle
  <2>1. D \in SUBSET Linked(ino)
    BY <1>20, Zenon
  <2>2. PICK j \in D : ino[j].dotdot \notin D
    BY <2>1, Zenon DEF Good, NoCycle
  <2> QED
    BY <1>2, <2>1, <2>2, Zenon DEF Linked
<1> QED
  BY <1>16, <1>19, <1>21, <1>22, Zenon DEF Good

\* What unlink makes of the inodes: the entry, a link of the parent if i is a
\* directory, and one of i are gone.
Removed(d, n, i) ==
  [[dirlink(d, n, 0) EXCEPT ![d].nlink = @ - ParentUnlinks(i)] EXCEPT ![i].nlink = @ - 1]

\* What is in the inodes that unlink leaves.
LEMMA RemovedFacts ==
  ASSUME InodesOK(inode), NEW d \in Inum, NEW n \in Name, NEW i \in Inum,
         NEW k, k = ParentUnlinks(i),
         NEW ino, ino = Removed(d, n, i)
  PROVE  InodesOK(ino) /\ k \in {0, 1} /\ TakenOut(inode, ino, d, n, i, k)
<1> DEFINE a == dirlink(d, n, 0)
           m1 == a[d].nlink - k
           b == SetLinks(a, d, m1)
           m2 == b[i].nlink - 1
<1>1. ino = SetLinks(b, i, m2)
  BY Zenon DEF SetLinks, Removed
<1>2. InodesOK(a) /\ Entered(inode, a, d, n, 0)
  <2>1. 0 \in InodeNo
    BY ConstFacts, Zenon
  <2> QED
    BY <2>1, DirlinkFacts, Zenon
<1> HIDE DEF a
<1>3. /\ a[d].ent[n] = 0
      /\ \A j \in Inum : /\ a[j].type = inode[j].type /\ a[j].nlink = inode[j].nlink
                         /\ a[j].dotdot = inode[j].dotdot
                         /\ j # d => a[j] = inode[j]
                         /\ \A m \in Name : j # d \/ m # n => a[j].ent[m] = inode[j].ent[m]
  BY <1>2, Zenon DEF Entered
<1>4. k \in {0, 1} /\ m1 \in Int /\ m1 = inode[d].nlink - k
  <2>1. inode[d].nlink \in Int /\ a[d].nlink = inode[d].nlink
    BY <1>3, Zenon DEF InodesOK, InodeRec
  <2> QED
    BY <2>1 DEF ParentUnlinks
<1> HIDE DEF m1
<1>5. InodesOK(b) /\ Relinked(a, b, d, m1)
  BY <1>2, <1>4, NlinkFacts, Zenon
<1> HIDE DEF b
<1>6. /\ b[d].nlink = m1
      /\ \A j \in Inum : /\ b[j].type = a[j].type /\ b[j].ent = a[j].ent /\ b[j].dotdot = a[j].dotdot
                         /\ j # d => b[j] = a[j]
  BY <1>5, Zenon DEF Relinked
<1>7. m2 \in Int /\ m2 = b[i].nlink - 1
  <2>1. b[i].nlink \in Int
    BY <1>5, Zenon DEF InodesOK, InodeRec
  <2> QED
    BY <2>1
<1> HIDE DEF m2
<1>8. InodesOK(ino) /\ Relinked(b, ino, i, m2)
  BY <1>1, <1>5, <1>7, NlinkFacts, Zenon
<1>9. /\ ino[i].nlink = m2
      /\ \A j \in Inum : /\ ino[j].type = b[j].type /\ ino[j].ent = b[j].ent /\ ino[j].dotdot = b[j].dotdot
                         /\ j # i => ino[j] = b[j]
  BY <1>8, Zenon DEF Relinked
<1>10. \A j \in Inum : /\ ino[j].type = inode[j].type /\ ino[j].dotdot = inode[j].dotdot /\ ino[j].ent = a[j].ent
                       /\ j \notin {d, i} => ino[j] = inode[j]
  BY <1>3, <1>6, <1>9
<1>11. i # d => /\ ino[i].ent = inode[i].ent
                /\ ino[d].nlink = inode[d].nlink - k /\ ino[i].nlink = inode[i].nlink - 1
  <2> HAVE i # d
  <2>1. a[i] = inode[i] /\ b[i] = a[i] /\ ino[d] = b[d]
    BY <1>3, <1>6, <1>9, Zenon
  <2>2. ino[i].ent = inode[i].ent
    BY <1>10, <2>1, Zenon
  <2> QED
    BY <1>4, <1>6, <1>7, <1>9, <2>1, <2>2, Zenon
<1>12. ino[d].ent[n] = 0 /\ \A m \in Name \ {n} : ino[d].ent[m] = inode[d].ent[m]
  <2>1. ino[d].ent = a[d].ent
    BY <1>10, Zenon
  <2> QED
    BY <1>3, <2>1, ZenonT(30)
<1> QED
  BY <1>4, <1>8, <1>10, <1>11, <1>12, ZenonT(30) DEF TakenOut

\* sys_unlink refuses, or takes the entry out.
LEMMA sys_unlink_keeps ==
  ASSUME Sized, IInv, NEW p \in Proc, NEW o \in Ops(p), sys_unlink(p, o)
  PROVE  IInv'
<1> DEFINE d == Dir(p, o)
           n == o.path[1]
           i == dirlookup(d, n)
           ino == Removed(d, n, i)
           k == ParentUnlinks(i)
<1>1. /\ o.pc = "name" /\ o.call = "unlink" /\ cwd' = cwd /\ files' = files /\ strayed' = strayed
      /\ inode[d].type = "dir"
  BY Zenon DEF sys_unlink, Last, InDir, At
<1>2. /\ TypeInv /\ InodesOK(inode) /\ o.ip = 0 /\ o.dp \in {0, d} /\ d \in Inum /\ n \in Name /\ OpOK(o)
      /\ o.call # "link"
  BY <1>1, CallFacts, Zenon DEF TypeInv
<1>3. {o.ip, o.dp} \subseteq {0} \cup {d} /\ {o.ip, o.dp} \subseteq {0} \cup {d, i}
  BY <1>2, Zenon
<1>4. CASE Step(p, Idle, inode, {d})
  BY <1>1, <1>2, <1>3, <1>4, IdleStep, ZenonT(30)
<1>5. CASE Step(p, Idle, inode, {d, i})
  BY <1>1, <1>2, <1>3, <1>5, IdleStep, ZenonT(30)
<1>6. CASE i # 0 /\ ~Refuses(i) /\ inode[i].type # "none" /\ Step(p, Idle, ino, {d, i})
  <2>1. i = inode[d].ent[n] /\ i \in Inum
    BY <1>2, <1>6, ConstFacts, NamesAssumption, LookupFacts, ZenonT(30) DEF dirlookup
  <2> HIDE DEF d, n, i
  <2>2. InodesOK(ino) /\ k \in {0, 1} /\ TakenOut(inode, ino, d, n, i, k)
    BY <1>2, <2>1, RemovedFacts, ZenonT(30)
  <2>3. k = IF inode[i].type = "dir" THEN 1 ELSE 0
    BY Zenon DEF ParentUnlinks
  <2> HIDE DEF ino, k
  <2>4. /\ \A j \in Inum : ino[j].type = inode[j].type
        /\ \A j \in Inum \ {d, i} : ino[j] = inode[j]
    BY <2>2, Zenon DEF TakenOut
  <2>5. Ends(p, o, ino, {d, i})
    BY <1>1, <1>3, <1>6, <2>4, Zenon DEF Ends
  <2>6. /\ \A j \in Inum : Held(j)' => Held(j)
        /\ \A j \in Inum : p \notin Counting(j)' /\ \A q \in Proc \ {p} : q \in Counting(j)' <=> q \in Counting(j)
        /\ strayed \in BOOLEAN
    BY <2>5, EndStep, Zenon
  <2>7. \A j \in Inum : Counting(j)' = Counting(j)
    <3>1. \A j \in Inum : p \notin Counting(j)
      BY <1>2, OpsFacts, Zenon
    <3>2. \A j \in Inum : \A q \in Proc : q \in Counting(j)' <=> q \in Counting(j)
      BY <2>6, <3>1, ZenonT(30)
    <3> QED
      BY <3>2, Zenon DEF Counting
  <2>8. ASSUME ~strayed
        PROVE  Good(ino, Count') /\ LinkTo(ino) /\ HeldTo(ino)
    <3>1. Count' = Count /\ Count \in [Inum -> SUBSET Proc] /\ \A j \in Inum : Count[j] = Counting(j)
      BY <2>7, ZenonT(30) DEF Count, Counting
    <3>2. Good(inode, Count)
      BY <2>8, ZenonT(30) DEF IInv
    <3>3. i # d
      BY <1>1, <1>2, <2>1, <3>1, <3>2, NotInItself, ZenonT(30) DEF d
    <3>4. inode[i].type = "dir" => inode[i].ent = NoEntries /\ Count[i] = {}
      <4>1. inode[i].type = "dir" => inode[i].ent = NoEntries
        BY <1>6, ZenonT(30) DEF Refuses, isdirempty
      <4>2. inode[i].type = "dir" => Counting(i) = {}
        BY <2>1, <2>8, ZenonT(30) DEF IInv, LinkInv, Counting
      <4> QED
        BY <2>1, <3>1, <4>1, <4>2, ZenonT(30)
    <3>5. inode[d].type = "dir" /\ inode[d].ent[n] = i
      BY <1>1, <2>1, Zenon DEF d
    <3>6. IF inode[i].type = "dir" THEN k = 1 /\ inode[i].ent = NoEntries /\ Count[i] = {} ELSE k = 0
      BY <2>3, <3>4, ZenonT(30)
    <3>7. Removable(inode, Count, d, n, i, k)
      BY <3>3, <3>5, <3>6, Zenon DEF Removable
    <3>8. Good(ino, Count')
      BY <1>2, <2>1, <2>2, <3>1, <3>2, <3>7, RemoveKeeps, ZenonT(30)
    <3>9. LinkTo(ino)
      BY <2>4, <2>7, <2>8, ZenonT(30) DEF LinkTo, IInv, LinkInv
    <3>10. HeldTo(ino)
      BY <2>4, <2>6, <2>8, ZenonT(30) DEF HeldTo, IInv, HeldInv
    <3> QED
      BY <3>8, <3>9, <3>10, ZenonT(30)
  <2> QED
    BY <1>1, <2>2, <2>5, <2>6, <2>8, EndKeeps, Zenon
<1> QED
  BY <1>4, <1>5, <1>6, Zenon DEF sys_unlink, Removed
-----------------------------------------------------------------------------
(* All steps. *)

\* Every step keeps the inductive invariant.
LEMMA NextInv ==
  ASSUME Sized, IInv, [Next]_vars
  PROVE  IInv'
<1>1. ASSUME NEW p \in Proc, NEW o \in Ops(p), ilock_panic(p, o) \/ unlink_panic(p, o)
      PROVE  IInv'
  BY <1>1, PanicKeeps, Zenon DEF ilock_panic, unlink_panic
<1>2. ASSUME NEW p \in Proc, NEW o \in Ops(p),
             \/ not_a_dir(p, o) \/ walk(p, o) \/ namei(p, o)
             \/ open_follow(p, o) \/ open_end(p, o)
             \/ create_found(p, o) \/ create_new(p, o) \/ create_fails(p, o) \/ create_open(p, o)
      PROVE  IInv'
  BY ZenonT(30), <1>2, not_a_dir_keeps, walk_keeps, namei_keeps, open_follow_keeps, open_end_keeps,
     create_found_keeps, create_new_keeps, create_fails_keeps, create_open_keeps
<1>3. ASSUME NEW p \in Proc, NEW o \in Ops(p),
             \/ symlink_new_fails(p, o) \/ symlink_old(p, o) \/ symlink_old_fails(p, o)
             \/ link_count(p, o) \/ link_enter(p, o) \/ link_bad(p, o)
             \/ sys_unlink(p, o) \/ sys_chdir(p, o)
      PROVE  IInv'
  BY ZenonT(30), <1>3, symlink_new_fails_keeps, symlink_old_keeps, symlink_old_fails_keeps,
     link_count_keeps, link_enter_keeps, link_bad_keeps, sys_unlink_keeps, sys_chdir_keeps
<1>4. ASSUME NEW f \in File, sys_dup(f) \/ sys_close(f) \/ \E p \in Proc : close_last(p, f)
      PROVE  IInv'
  BY <1>4, dup_close_keeps, close_last_keeps, ZenonT(30)
<1>5. CASE reboot
  BY <1>5, reboot_keeps, Zenon
<1>6. CASE UNCHANGED vars
  <2>1. UNCHANGED <<inode, cwd, op, strayed, group, disk>> /\ panicked' \in BOOLEAN
        /\ files' \in [File -> FileRec] /\ \A f \in File : files'[f].ip = files[f].ip
    BY <1>6, Zenon DEF vars, IInv, TypeInv
  <2> QED
    BY <2>1, SameKeeps, ZenonT(30)
<1> QED
  BY <1>1, <1>2, <1>3, <1>4, <1>5, <1>6, ZenonT(30) DEF Next

-----------------------------------------------------------------------------
(* What the invariant implies. *)

\* The types of TypeOK are those of TypeInv.
LEMMA InvTypes ==
  ASSUME IInv
  PROVE  TypeOK
<1> SUFFICES ASSUME TypeInv PROVE TypeOK
  BY Zenon DEF IInv
<1>1. \A i \in Inum : inode[i] \in InodeRec
  BY Zenon DEF TypeInv, InodesOK
<1>2. \A p \in Proc : op[p] \in OpRec
  BY Zenon DEF TypeInv
<1>3. cwd \in [Proc -> Inum] /\ files \in [File -> FileRec] /\ group \in 0 .. MaxGroup
  BY SMTT(30) DEF TypeInv
<1> QED
  BY <1>1, <1>2, <1>3, ZenonT(30) DEF TypeOK, InodeRec, OpRec, FileRec, InodeNo

\* The links of an inode are those that Good counts.
LEMMA InvCounted ==
  ASSUME IInv
  PROVE  LinksAreCounted
<1> SUFFICES ASSUME ~strayed, NEW i \in Inum, inode[i].type # "none"
             PROVE  inode[i].nlink = Cardinality(Entries(i)) + Cardinality(Subdirs(i))
                      + Cardinality(Counting(i)) + (IF i = Root THEN 1 ELSE 0)
  BY Zenon DEF LinksAreCounted
<1>1. EntriesOf(inode, i) = Entries(i) /\ SubdirsOf(inode, i) = Subdirs(i) /\ Count[i] = Counting(i)
  BY Zenon DEF EntriesOf, Entries, SubdirsOf, Subdirs, Count
<1>2. inode[i].nlink = LinksOf(inode, i, Count[i])
  <2>1. Counted(inode, Count)
    BY Zenon DEF IInv, Good
  <2> QED
    BY <2>1, Zenon DEF Counted
<1> QED
  BY <1>1, <1>2, Zenon DEF LinksOf

\* An inode that is free has no entry and nobody holds it.
LEMMA InvNoneDangles ==
  ASSUME IInv
  PROVE  NothingDangles
<1> SUFFICES ASSUME ~strayed, NEW i \in Inum, inode[i].type = "none"
             PROVE  Entries(i) = {} /\ ~Held(i)
  BY Zenon DEF NothingDangles
<1>1. EntriesOf(inode, i) = Entries(i)
  BY Zenon DEF EntriesOf, Entries
<1>2. Tidy(inode) /\ HeldInv(inode)
  BY Zenon DEF IInv, Good
<1> QED
  BY <1>1, <1>2, Zenon DEF Tidy, HeldInv

\* The one entry of a directory is in its "..", and following ".." ends.
LEMMA InvTree ==
  ASSUME IInv
  PROVE  DirectoriesAreATree
<1> SUFFICES ASSUME ~strayed PROVE DirectoriesAreATree
  BY Zenon DEF DirectoriesAreATree
<1>1. \A i \in Inum : EntriesOf(inode, i) = Entries(i)
  BY Zenon DEF EntriesOf, Entries
<1>2. Below(inode) /\ NoCycle(inode)
  BY Zenon DEF IInv, Good
<1>3. \A i \in Linked(inode) :
        \E n \in Name : Entries(i) = {<<inode[i].dotdot, n>>} /\ ~Dead(inode[i].dotdot)
  BY <1>1, <1>2 DEF Below, Dead, Linked
<1>4. \A D \in SUBSET Linked(inode) : D # {} => \E i \in D : inode[i].dotdot \notin D
  BY <1>2, Zenon DEF NoCycle
<1> QED
  BY <1>3, <1>4, ZenonT(30) DEF DirectoriesAreATree, Linked

-----------------------------------------------------------------------------
(* The theorems. *)

\* The two parts of Sizes.
LEMMA CountedSizes ==
  ASSUME NEW U,
         \A S \in SUBSET U : Cardinality(S) \in Nat /\ (Cardinality(S) = 0 <=> S = {}),
         \A S \in SUBSET U : \A x \in U \ S : Cardinality(S \cup {x}) = Cardinality(S) + 1
  PROVE  Sizes(U)
  BY Zenon DEF Sizes

\* The names and the processes are finitely many, and so are the inodes.
LEMMA FiniteConst == IsFiniteSet(Name) /\ IsFiniteSet(Proc) /\ 1 \in Int /\ NINODES \in Int
  BY NamesAssumption

Sets == INSTANCE FiniteSetTheorems

\* Sets takes the definitions of FiniteSets.
LEMMA SameSets == \A U : Sets!IsFiniteSet(U) = IsFiniteSet(U) /\ Sets!Cardinality(U) = Cardinality(U)
  BY Zenon DEF Sets!IsFiniteSet, IsFiniteSet, Sets!Cardinality, Cardinality

\* Cardinality counts the parts of any finite set.
LEMMA FiniteSizes ==
  ASSUME NEW U, IsFiniteSet(U)
  PROVE  Sizes(U)
<1>1. ASSUME NEW S \in SUBSET U
      PROVE  Sets!IsFiniteSet(S)
  BY <1>1, SameSets, Sets!FS_Subset, Zenon
<1>2. ASSUME NEW S \in SUBSET U
      PROVE  Sets!Cardinality(S) \in Nat /\ (Sets!Cardinality(S) = 0 <=> S = {})
  BY <1>1, <1>2, Sets!FS_CardinalityType, Sets!FS_EmptySet, Zenon
<1>3. ASSUME NEW S \in SUBSET U, NEW x \in U \ S
      PROVE  Sets!Cardinality(S \cup {x}) = Sets!Cardinality(S) + 1
  BY <1>1, <1>3, Sets!FS_AddElement, Zenon
<1>4. \A S \in SUBSET U : Cardinality(S) \in Nat /\ (Cardinality(S) = 0 <=> S = {})
  BY <1>2, SameSets, Zenon
<1>5. \A S \in SUBSET U : \A x \in U \ S : Cardinality(S \cup {x}) = Cardinality(S) + 1
  BY <1>3, SameSets, Zenon
<1> QED
  BY <1>4, <1>5, CountedSizes, Zenon

\* The entries of the directories, the names and the processes can be counted.
LEMMA AllSized == Sized
<1>1. IsFiniteSet(Inum) /\ IsFiniteSet(Name) /\ IsFiniteSet(Proc)
  <2>1. Sets!IsFiniteSet(1 .. NINODES)
    BY FiniteConst, Sets!FS_Interval, Zenon
  <2> QED
    BY <2>1, SameSets, FiniteConst, Zenon DEF Inum
<1>2. IsFiniteSet(Inum \X Name)
  BY <1>1, SameSets, Sets!FS_Product, Zenon
<1> QED
  BY <1>1, <1>2, FiniteSizes, Zenon DEF Sized

\* The inductive invariant holds throughout.
THEOREM NamesInv == Spec => []IInv
<1>1. Init => IInv
  BY AllSized, InitInv, Zenon
<1>2. IInv /\ [Next]_vars => IInv'
  BY AllSized, NextInv, Zenon
<1> QED
  BY <1>1, <1>2, PTL DEF Spec

\* Inodes, calls and files keep their types at every step of every call, and
\* sys_open has never followed more than MaxFollow links.
THEOREM NamesTypes == Spec => []TypeOK
  BY NamesInv, InvTypes, PTL

\* The link counts that create, sys_link and sys_unlink keep agree, at every step
\* and after every crash, with the entries, the ".." and the links under way, as
\* long as no call has left the names in disorder: a symlink written over a
\* directory or not written, a name made in, or a ".." taken from, a directory
\* that was removed.
THEOREM LinksCounted == Spec => []LinksAreCounted
  BY NamesInv, InvCounted, PTL

\* iput never frees an inode that an entry, a call, a process or an open file
\* still refers to, as long as no call has left the names in disorder.
THEOREM NoneDangles == Spec => []NothingDangles
  BY NamesInv, InvNoneDangles, PTL

\* No inode without links is left to nobody, whatever calls have failed half way
\* and wherever a crash came: iput frees it, or ireclaim does at the next boot.
THEOREM NoneOrphaned == Spec => []NoOrphans
<1>1. IInv => NoOrphans
  BY Zenon DEF IInv
<1> QED
  BY <1>1, NamesInv, PTL

\* Whatever is created, moved into by chdir and unlinked, the directories stay a
\* tree below the root, as long as no call has left the names in disorder; a
\* symlink written over a directory does, and so does a name made in a directory
\* that another process has removed.
THEOREM DirectoryTree == Spec => []DirectoriesAreATree
  BY NamesInv, InvTree, PTL
=============================================================================
