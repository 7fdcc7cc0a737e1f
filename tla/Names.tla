------------------------------- MODULE Names -------------------------------
(***************************************************************************)
(* Names, links and symbolic links of Lab 5 (Task 5.2, kernel/sysfile.c,   *)
(* over the inodes and directories of kernel/fs.c of Task 5.1): open,      *)
(* mkdir, chdir, symlink, link, unlink, dup and close by several           *)
(* processes, with crashes.                                                *)
(*                                                                         *)
(* A call walks its path from the current directory.  It locks one inode   *)
(* at a time and keeps a reference to the next one in between: what it     *)
(* does under one lock is an action, and the walk may be overtaken by any  *)
(* other call.  The reference count of an inode is the number of           *)
(* operations, current directories and open files that hold it.  A path is *)
(* a sequence of one-character names.  The log (not part of the            *)
(* repository) makes the operations since the last moment without any      *)
(* survive a crash together or not at all.                                 *)
(***************************************************************************)
EXTENDS Integers, FiniteSets, Sequences

CONSTANTS Proc,
          Name,       \* the names in use, each of one character
          Path,       \* the paths that calls are made with, and ".." for chdir
          Target,     \* the paths that symlink is asked to write
          NINODES,    \* inodes of the disk
          NFILE,      \* size of the file table
          MaxRef,     \* bound on the descriptors of an open file
          MaxFollow,  \* links open follows before it gives up (10)
          MaxGroup    \* bound on the operations the log commits together

ASSUME NamesAssumption ==
  /\ IsFiniteSet(Proc) /\ IsFiniteSet(Name) /\ ".." \notin Name
  /\ IsFiniteSet(Path) /\ Path \subseteq Seq(Name) \ {<<>>}
  /\ IsFiniteSet(Target) /\ Target \subseteq Seq(Name) \ {<<>>}
  /\ NINODES \in Nat \ {0} /\ NFILE \in Nat /\ MaxRef \in Nat \ {0}
  /\ MaxFollow \in Nat \ {0} /\ MaxGroup \in Nat \ {0}

Inum == 1 .. NINODES
Root == 1
File == 1 .. NFILE

NoEntries == [n \in Name |-> 0]
Free == [type |-> "none", nlink |-> 0, target |-> <<>>, ent |-> NoEntries, dotdot |-> 0]
NoFile == [ip |-> 0, ref |-> 0]
Idle == [pc |-> "idle", call |-> "", path |-> <<>>, new |-> <<>>, dp |-> 0, ip |-> 0,
         count |-> 0]

VARIABLES inode,     \* type, links, target of a symlink, entries and ".." of a directory
          cwd,       \* the current directory of each process
          op,        \* the call each process is in, with the inodes it holds
          files,     \* the inode and the number of descriptors of each open file
          panicked,  \* the kernel has called panic
          strayed,   \* history: a call has left the names in disorder
          group,     \* operations begun since the log last committed
          disk       \* the inodes that a crash leaves

vars == <<inode, cwd, op, files, panicked, strayed, group, disk>>

\* The file system that mkfs makes, with a root directory only.
Init ==
  /\ inode = [i \in Inum |-> IF i = Root THEN [Free EXCEPT !.type = "dir", !.nlink = 1,
                                                           !.dotdot = Root]
                             ELSE Free]
  /\ cwd = [p \in Proc |-> Root]
  /\ op = [p \in Proc |-> Idle]
  /\ files = [f \in File |-> NoFile]
  /\ panicked = FALSE
  /\ strayed = FALSE
  /\ group = 0
  /\ disk = inode

-----------------------------------------------------------------------------
(* Inodes and directories *)

\* The inode ialloc finds: the first free one.
ialloc(i) ==
  /\ i \in Inum /\ inode[i].type = "none"
  /\ \A j \in Inum : j < i => inode[j].type # "none"

\* Somebody refers to inode i.
Held(i) == \/ \E q \in Proc : i \in {op[q].ip, op[q].dp, cwd[q]}
           \/ \E f \in File : files[f].ip = i

\* Mutant: the reference count is not looked at.
IputHeld(ino, S) == [i \in Inum |-> IF i \in S /\ ino[i].nlink = 0 THEN Free ELSE ino[i]]

\* The inodes ino after iput of those in S: one without links that nobody holds
\* any more is truncated and freed.
iput(ino, S) ==
  [i \in Inum |-> IF i \in S /\ ino[i].nlink = 0 /\ ~Held(i)' THEN Free ELSE ino[i]]

\* The inode under name n in d, or 0; only directories have entries.
dirlookup(d, n) == IF n = ".." THEN inode[d].dotdot ELSE inode[d].ent[n]

\* d is a directory that was unlinked while somebody held it.
Dead(d) == inode[d].nlink = 0

-----------------------------------------------------------------------------
(* Calls.  o is the call of p: the one p is in, or one that it begins. *)

\* A call c with the path it walks first and the other argument it was given.
Begin(c, path, new) ==
  [pc |-> "name", call |-> c, path |-> path, new |-> new, dp |-> 0, ip |-> 0, count |-> 0]

\* The calls and their arguments.
Calls ==
  {Begin("unlink", n, <<>>) : n \in Path}
  \cup IF strayed THEN {}   \* bound: what comes after that is not followed far
       ELSE {Begin(c, n, <<>>) : c \in {"create", "mkdir"}, n \in Path}
            \cup {Begin("chdir", n, <<>>) : n \in Path \cup {<<"..">>}}
            \cup {Begin("open", n, n) : n \in Path}
            \cup {Begin("link", n, m) : n, m \in Path}
            \cup {Begin("symlink", n, t) : n \in Path, t \in Target}

Ops(p) == IF op[p].pc # "idle" THEN {op[p]} ELSE IF group < MaxGroup THEN Calls ELSE {}

\* The directory that o has come to.
Dir(p, o) == IF o.dp = 0 THEN cwd[p] ELSE o.dp

\* The inode that o locks next.
Locked(p, o) == IF o.pc = "name" THEN Dir(p, o) ELSE o.ip

\* o is at pc and gets its lock; ilock panics if the inode is free.
At(p, o, pc) == ~panicked /\ o.pc = pc /\ inode[Locked(p, o)].type # "none"

\* o looks up a name in the directory that it has come to.
InDir(p, o) == At(p, o, "name") /\ inode[Dir(p, o)].type = "dir"

\* It is the last name of its path.
Last(p, o, calls) == InDir(p, o) /\ Len(o.path) = 1 /\ o.call \in calls

\* begin_op and end_op, in the step that takes p on to o: when no operation is
\* left the log commits.
Log(p, o) ==
  LET begins == IF op[p].pc = "idle" THEN 1 ELSE 0
      last == o.pc = "idle" /\ \A q \in Proc \ {p} : op[q].pc = "idle"
  IN  /\ group' = IF last THEN 0 ELSE group + begins
      /\ disk' = IF last THEN inode' ELSE disk
      /\ UNCHANGED panicked

\* p goes on with o, with files and current directories as given, and puts the
\* inodes S; ino is what the call has made of the inodes.
Step(p, o, ino, S) ==
  /\ op' = [op EXCEPT ![p] = o]
  /\ inode' = iput(ino, S)
  /\ Log(p, o)

Panic == panicked' = TRUE /\ UNCHANGED <<inode, cwd, op, files, strayed, group, disk>>

ilock_panic(p, o) ==
  /\ ~panicked /\ inode[Locked(p, o)].type = "none"
  /\ Panic

-----------------------------------------------------------------------------
(* namex *)

\* What p goes on with when a path does not exist: nameiparent(new) of sys_link
\* fails after the link was counted.
NotFound(o) == IF o.call = "link" /\ o.ip # 0
               THEN [o EXCEPT !.pc = "bad", !.dp = 0, !.path = <<>>]
               ELSE Idle

\* What should be a directory is none.
not_a_dir(p, o) ==
  /\ At(p, o, "name") /\ ~InDir(p, o)
  /\ UNCHANGED <<cwd, files, strayed>>
  /\ Step(p, NotFound(o), inode, {Dir(p, o)})

\* One name of a longer path.
walk(p, o) ==
  LET d == Dir(p, o)
      next == dirlookup(d, Head(o.path))
  IN  /\ InDir(p, o) /\ Len(o.path) > 1
      /\ UNCHANGED <<cwd, files, strayed>>
      /\ Step(p, IF next = 0 THEN NotFound(o) ELSE [o EXCEPT !.dp = next, !.path = Tail(@)],
              inode, {d})

\* The last name, for the calls that want the inode itself.
namei(p, o) ==
  LET d == Dir(p, o)
      next == dirlookup(d, o.path[1])
  IN  /\ Last(p, o, {"open", "chdir", "link"}) /\ o.ip = 0
      /\ strayed' = (strayed \/ (o.path[1] = ".." /\ Dead(d)))
      /\ UNCHANGED <<cwd, files>>
      /\ Step(p, IF next = 0 THEN Idle
                 ELSE [o EXCEPT !.pc = "inode", !.dp = 0, !.path = <<>>, !.ip = next],
              inode, {d})

-----------------------------------------------------------------------------
(* sys_open without O_CREATE *)

\* Inode i, which its caller holds locked, becomes an open file, unless the table
\* of the files or that of the process's descriptors, which is not modelled, is
\* full: filealloc or fdalloc fails.
OpenFile(i) ==
  \/ \E f \in File :
       /\ files[f] = NoFile /\ \A g \in File : g < f => files[g] # NoFile
       /\ files' = [files EXCEPT ![f] = [ip |-> i, ref |-> 1]]
  \/ UNCHANGED files

\* Mutant: one link too many is followed.
FollowsOneMore(o) == inode[o.ip].type = "symlink" /\ o.count <= MaxFollow

\* The loop goes on.
Follows(o) == inode[o.ip].type = "symlink" /\ o.count < MaxFollow

\* The path that open goes on with: readi is asked for len + 1 = 1 character.
NextPath(o) == <<inode[o.ip].target[1]>> \o Tail(o.new)

open_follow(p, o) ==
  /\ At(p, o, "inode") /\ o.call = "open" /\ Follows(o)
  /\ UNCHANGED <<cwd, files, strayed>>
  /\ Step(p, [o EXCEPT !.pc = "name", !.ip = 0, !.path = NextPath(o), !.new = NextPath(o),
                       !.count = @ + 1],
          inode, {o.ip})

\* Past the loop, or without it (O_NOFOLLOW): too many links were followed, or a
\* directory is to be opened for writing, or the file is opened.
open_end(p, o) ==
  /\ At(p, o, "inode") /\ o.call = "open" /\ (~Follows(o) \/ o.count = 0)
  /\ \/ (o.count >= MaxFollow \/ inode[o.ip].type = "dir") /\ UNCHANGED files
     \/ o.count < MaxFollow /\ OpenFile(o.ip)
  /\ UNCHANGED <<cwd, strayed>>
  /\ Step(p, Idle, inode, {o.ip})

-----------------------------------------------------------------------------
(* create, called by sys_open with O_CREATE, sys_mkdir and sys_symlink *)

Creating == {"create", "mkdir", "symlink"}

\* The path exists: p holds its inode and goes on to lock it.
create_found(p, o) ==
  LET d == Dir(p, o)
      next == dirlookup(d, o.path[1])
  IN  /\ Last(p, o, Creating) /\ next # 0
      /\ UNCHANGED <<cwd, files, strayed>>
      /\ Step(p, [o EXCEPT !.pc = "inode", !.dp = 0, !.path = <<>>, !.ip = next], inode, {d})

\* The inodes once i is entered as n in d.
dirlink(d, n, i) == [inode EXCEPT ![d].ent[n] = i]

\* The new inode of o.call; ".." of a new directory is a link of its parent.
NewInode(d, o) ==
  [Free EXCEPT !.type = CASE o.call = "create" -> "file" [] o.call = "mkdir" -> "dir"
                          [] o.call = "symlink" -> "symlink",
               !.nlink = 1,
               !.target = IF o.call = "symlink" THEN o.new ELSE <<>>,
               !.dotdot = IF o.call = "mkdir" THEN d ELSE 0]

\* Mutant: ".." of a new directory is not counted.
ParentLinksNot(o) == 0

\* dp->nlink++ for "..".
ParentLinks(o) == IF o.call = "mkdir" THEN 1 ELSE 0

\* The new inode stays locked until the call is done with it: a file is opened,
\* a target written, before anyone else sees it.
create_new(p, o) ==
  LET d == Dir(p, o)
      n == o.path[1]
  IN  /\ Last(p, o, Creating) /\ dirlookup(d, n) = 0
      /\ \E i \in Inum :
           /\ ialloc(i)
           /\ IF o.call = "create" THEN OpenFile(i) ELSE UNCHANGED files
           /\ UNCHANGED cwd
           /\ strayed' = (strayed \/ Dead(d))
           /\ Step(p, Idle, [dirlink(d, n, i) EXCEPT ![i] = NewInode(d, o),
                                                     ![d].nlink = @ + ParentLinks(o)],
                   {d, i})

\* No inode, or no room for the entry.
create_fails(p, o) ==
  /\ Last(p, o, Creating) /\ dirlookup(Dir(p, o), o.path[1]) = 0
  /\ UNCHANGED <<cwd, files, strayed>>
  /\ Step(p, Idle, inode, {Dir(p, o)})

\* create has returned an inode that was there: a file is opened, another one is
\* not, and mkdir fails.
create_open(p, o) ==
  /\ At(p, o, "inode") /\ o.call \in {"create", "mkdir"}
  /\ IF o.call = "create" /\ inode[o.ip].type = "file" THEN OpenFile(o.ip) ELSE UNCHANGED files
  /\ UNCHANGED <<cwd, strayed>>
  /\ Step(p, Idle, inode, {o.ip})

-----------------------------------------------------------------------------
(* sys_symlink after create *)

\* writei of the target fails: the new inode is freed, its entry stays.
symlink_new_fails(p, o) ==
  LET d == Dir(p, o)
  IN  /\ Last(p, o, {"symlink"}) /\ dirlookup(d, o.path[1]) = 0
      /\ strayed' = TRUE
      /\ UNCHANGED <<cwd, files>>
      /\ \E i \in Inum : ialloc(i) /\ Step(p, Idle, dirlink(d, o.path[1], i), {d})

\* On an existing path the target is written into whatever is there, even over
\* the first entries of a directory, from "." on; which of them are lost is not
\* modelled, only that the names are in disorder.
symlink_old(p, o) ==
  /\ At(p, o, "inode") /\ o.call = "symlink"
  /\ strayed' = (strayed \/ inode[o.ip].type = "dir")
  /\ UNCHANGED <<cwd, files>>
  /\ Step(p, Idle, [inode EXCEPT ![o.ip].target = IF inode[o.ip].type = "symlink" THEN o.new ELSE @],
          {o.ip})

symlink_old_fails(p, o) ==
  /\ At(p, o, "inode") /\ o.call = "symlink"
  /\ strayed' = TRUE
  /\ UNCHANGED <<cwd, files>>
  /\ Step(p, Idle, [inode EXCEPT ![o.ip].nlink = 0], {o.ip})

-----------------------------------------------------------------------------
(* sys_link *)

\* Mutant: a directory gets a second link.
LinkableAll(i) == TRUE

Linkable(i) == inode[i].type # "dir"

link_count(p, o) ==
  /\ At(p, o, "inode") /\ o.call = "link"
  /\ UNCHANGED <<cwd, files, strayed>>
  /\ IF Linkable(o.ip)
     THEN Step(p, [o EXCEPT !.pc = "name", !.path = o.new, !.new = <<>>],
               [inode EXCEPT ![o.ip].nlink = @ + 1], {})
     ELSE Step(p, Idle, inode, {o.ip})

\* dirlink into the locked directory fails if the name exists, or for want of
\* space.
link_enter(p, o) ==
  LET d == Dir(p, o)
      n == o.path[1]
  IN  /\ Last(p, o, {"link"}) /\ o.ip # 0
      /\ UNCHANGED <<cwd, files>>
      /\ \/ /\ dirlookup(d, n) = 0
            /\ strayed' = (strayed \/ Dead(d))
            /\ Step(p, Idle, dirlink(d, n, o.ip), {d, o.ip})
         \/ UNCHANGED strayed /\ Step(p, NotFound(o), inode, {d})

link_bad(p, o) ==
  /\ At(p, o, "bad")
  /\ UNCHANGED <<cwd, files, strayed>>
  /\ Step(p, Idle, [inode EXCEPT ![o.ip].nlink = @ - 1], {o.ip})

-----------------------------------------------------------------------------
(* sys_unlink; directory and inode are both locked until the entry is gone *)

isdirempty(i) == inode[i].ent = NoEntries

Refuses(i) == inode[i].type = "dir" /\ ~isdirempty(i)

\* dp->nlink-- for "..".
ParentUnlinks(i) == IF inode[i].type = "dir" THEN 1 ELSE 0

sys_unlink(p, o) ==
  LET d == Dir(p, o)
      n == o.path[1]
      i == dirlookup(d, n)
  IN  /\ Last(p, o, {"unlink"})
      /\ UNCHANGED <<cwd, files, strayed>>
      /\ \/ (n = ".." \/ i = 0) /\ Step(p, Idle, inode, {d})
         \/ /\ n # ".." /\ i # 0
            /\ inode[i].type # "none" /\ inode[i].nlink >= 1
            /\ IF Refuses(i) THEN Step(p, Idle, inode, {d, i})
               ELSE Step(p, Idle, [[dirlink(d, n, 0) EXCEPT ![d].nlink = @ - ParentUnlinks(i)]
                                      EXCEPT ![i].nlink = @ - 1],
                         {d, i})

\* The inode is free, or has no links.
unlink_panic(p, o) ==
  LET i == dirlookup(Dir(p, o), o.path[1])
  IN  /\ Last(p, o, {"unlink"}) /\ o.path[1] # ".." /\ i # 0
      /\ inode[i].type = "none" \/ inode[i].nlink < 1
      /\ Panic

-----------------------------------------------------------------------------
(* sys_chdir, sys_dup, sys_close *)

\* The old directory is put, and may be gone with that.
sys_chdir(p, o) ==
  /\ At(p, o, "inode") /\ o.call = "chdir"
  /\ UNCHANGED <<files, strayed>>
  /\ \/ /\ inode[o.ip].type = "dir"
        /\ cwd' = [cwd EXCEPT ![p] = o.ip]
        /\ Step(p, Idle, inode, {cwd[p]})
     \/ /\ inode[o.ip].type # "dir"
        /\ UNCHANGED cwd
        /\ Step(p, Idle, inode, {o.ip})

\* dup, or the copy that fork makes.
sys_dup(f) ==
  /\ ~panicked /\ files[f].ref \in 1 .. (MaxRef - 1)
  /\ files' = [files EXCEPT ![f].ref = @ + 1]
  /\ UNCHANGED <<inode, cwd, op, panicked, strayed, group, disk>>

\* fileclose of a file that has other descriptors.
sys_close(f) ==
  /\ ~panicked /\ files[f].ref > 1
  /\ files' = [files EXCEPT ![f].ref = @ - 1]
  /\ UNCHANGED <<inode, cwd, op, panicked, strayed, group, disk>>

\* fileclose of the last descriptor, a transaction of its own.
close_last(p, f) ==
  /\ ~panicked /\ op[p].pc = "idle" /\ group < MaxGroup
  /\ files[f].ref = 1
  /\ files' = [files EXCEPT ![f] = NoFile]
  /\ UNCHANGED <<cwd, strayed>>
  /\ Step(p, Idle, inode, {files[f].ip})

-----------------------------------------------------------------------------
(* A crash, and the next boot *)

\* Mutant: orphans stay.
ReclaimNothing(ino) == ino

\* ireclaim: an inode without links is freed.
ireclaim(ino) == [i \in Inum |-> IF ino[i].nlink = 0 THEN Free ELSE ino[i]]

reboot ==
  /\ inode' = ireclaim(disk)
  /\ cwd' = [p \in Proc |-> Root]
  /\ op' = [p \in Proc |-> Idle]
  /\ files' = [f \in File |-> NoFile]
  /\ panicked' = FALSE
  /\ group' = 0
  /\ disk' = inode'
  /\ UNCHANGED strayed

Next ==
  \/ \E p \in Proc : \E o \in Ops(p) :
       \/ ilock_panic(p, o) \/ not_a_dir(p, o) \/ walk(p, o) \/ namei(p, o)
       \/ open_follow(p, o) \/ open_end(p, o)
       \/ create_found(p, o) \/ create_new(p, o) \/ create_fails(p, o) \/ create_open(p, o)
       \/ symlink_new_fails(p, o) \/ symlink_old(p, o) \/ symlink_old_fails(p, o)
       \/ link_count(p, o) \/ link_enter(p, o) \/ link_bad(p, o)
       \/ sys_unlink(p, o) \/ unlink_panic(p, o) \/ sys_chdir(p, o)
  \/ \E f \in File : sys_dup(f) \/ sys_close(f) \/ \E p \in Proc : close_last(p, f)
  \/ reboot

Spec == Init /\ [][Next]_vars
-----------------------------------------------------------------------------
(* Properties. *)

\* Types; sys_open never follows more than MaxFollow links.
TypeOK ==
  /\ \A i \in Inum :
       /\ inode[i].type \in {"none", "file", "dir", "symlink"} /\ inode[i].nlink \in Int
       /\ inode[i].ent \in [Name -> 0 .. NINODES] /\ inode[i].dotdot \in 0 .. NINODES
  /\ cwd \in [Proc -> Inum]
  /\ \A p \in Proc : {op[p].ip, op[p].dp} \subseteq 0 .. NINODES /\ op[p].count \in 0 .. MaxFollow
  /\ files \in [File -> [ip : 0 .. NINODES, ref : 0 .. MaxRef]]
  /\ group \in 0 .. MaxGroup

Entries(i) == {e \in Inum \X Name : inode[e[1]].ent[e[2]] = i}
Subdirs(i) == {n \in Name : inode[i].ent[n] # 0 /\ inode[inode[i].ent[n]].type = "dir"}
Counting(i) == {p \in Proc : op[p].ip = i /\ op[p].call = "link" /\ op[p].pc \in {"name", "bad"}}

\* The link count of an inode is the number of its entries, of the ".." of the
\* directories in it, and of the links that have counted but not yet entered
\* themselves or given up; the root has one more.  So it is until a call has left
\* the names in disorder.
LinksAreCounted ==
  ~strayed => \A i \in Inum : inode[i].type # "none" =>
    inode[i].nlink = Cardinality(Entries(i)) + Cardinality(Subdirs(i)) + Cardinality(Counting(i))
                       + (IF i = Root THEN 1 ELSE 0)

\* An inode that an entry, a call, a process or an open file refers to is not
\* free, until a call has left the names in disorder.
NothingDangles ==
  ~strayed => \A i \in Inum : inode[i].type = "none" => Entries(i) = {} /\ ~Held(i)

\* An inode without links is held by someone who will put it: none is lost, not
\* even when a file is open, or a call under way, at a crash.
NoOrphans ==
  \A i \in Inum : inode[i].type # "none" /\ inode[i].nlink = 0 => Held(i)

\* The directories are a tree: ".." of one that is linked is the directory its
\* only entry is in, which is linked, too; and no set of them is closed under
\* "..", so that walking up from any of them ends at the root.  So it is until a
\* call has left the names in disorder.
DirectoriesAreATree ==
  LET linked == {i \in Inum \ {Root} : inode[i].type = "dir" /\ inode[i].nlink > 0}
  IN  ~strayed =>
        /\ \A i \in linked :
             \E n \in Name : Entries(i) = {<<inode[i].dotdot, n>>} /\ ~Dead(inode[i].dotdot)
        /\ \A D \in SUBSET linked : D # {} => \E i \in D : inode[i].dotdot \notin D

\* edit_info.txt of Task 5.2: open follows "by reading its content (the path
\* string stored in the symlink inode) and resolving that path with namei(path)".
FollowsTheTarget ==
  [][\A p \in Proc : open_follow(p, op[p]) => op'[p].path = inode[op[p].ip].target]_vars
=============================================================================
