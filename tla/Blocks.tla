------------------------------- MODULE Blocks -------------------------------
(***************************************************************************)
(* Blocks of inodes in Lab 5 (Task 5.1, kernel/fs.c): balloc, bfree, bmap  *)
(* with its doubly indirect level, itrunc, writei, readi.                  *)
(*                                                                         *)
(* An operation holds the lock of its inode from beginning to end, so what *)
(* two operations share is the free map: every balloc, every bfree and     *)
(* every copy is an action.  Offsets and sizes count blocks, and a block   *)
(* holds data or NINDIRECT addresses.  The log makes the disk writes of an *)
(* operation take effect together, so disk and buffer cache are one.       *)
(***************************************************************************)
EXTENDS Integers, FiniteSets, Sequences

CONSTANTS Inode,      \* the files
          NBLOCKS,    \* data blocks of the disk
          NDIRECT, NINDIRECT,
          MaxWrite,   \* blocks in one call of writei
          MaxSize,    \* bound on the blocks of each file
          MaxTruncs   \* bound on the calls of itrunc

ASSUME BlocksAssumption ==
  /\ IsFiniteSet(Inode)
  /\ NBLOCKS \in Nat /\ NDIRECT \in Nat \ {0} /\ NINDIRECT \in Nat \ {0}
  /\ MaxWrite \in Nat /\ MaxSize \in [Inode -> Nat] /\ MaxTruncs \in Nat

Block == 1 .. NBLOCKS
Addr == 0 .. NBLOCKS       \* a block, or 0 for none
Index == 0 .. (NINDIRECT - 1)
NDOUBLY_INDIRECT == NINDIRECT * NINDIRECT
MAXFILE == NDIRECT + NINDIRECT + NDOUBLY_INDIRECT

\* The places where a file keeps addresses.  <<i, Self, Self>> is addrs[i],
\* <<i, j, Self>> is a[j] of the indirect block that this one names, and
\* <<i, j, k>> is a2[k] of the one that a[j] names.
Self == NINDIRECT
Place ==
  {n \in (0 .. (NDIRECT + 1)) \X (0 .. Self) \X (0 .. Self) :
     /\ n[1] < NDIRECT => n[2] = Self
     /\ n[1] = NDIRECT \/ n[2] = Self => n[3] = Self}

VARIABLES used,    \* blocks marked in the free map
          ptr,     \* the addresses a block holds
          val,     \* what a block holds: which block of which file was last
                   \*   copied into it, or Zero
          addrs,   \* ip->addrs
          size,    \* ip->size
          op,      \* the operation that holds ip->lock
          truncs   \* number of calls of itrunc

vars == <<used, ptr, val, addrs, size, op, truncs>>

Zero == <<>>
NoPtrs == [i \in Index |-> 0]
Junk == [i \in Index |-> 1]   \* what a free block holds; no one may rely on it
NoAddrs == [i \in 0 .. (NDIRECT + 1) |-> 0]
Idle == [pc |-> "idle", off |-> 0, left |-> 0, todo |-> {}]

Init ==
  /\ used = {}
  /\ ptr = [b \in Block |-> Junk]
  /\ val = [b \in Block |-> Zero]
  /\ addrs = [ip \in Inode |-> NoAddrs]
  /\ size = [ip \in Inode |-> 0]
  /\ op = [ip \in Inode |-> Idle]
  /\ truncs = 0

-----------------------------------------------------------------------------
(* balloc, bmap *)

\* Mutant: block 0 is taken for a free one.
BallocZero(b) == b = 0

\* The block balloc returns, if any: the first that is free.
balloc(b) == b \in Block \ used /\ \A c \in Block \ used : b <= c

\* Mutant: the outer index is always 0.
PathShort(bn) ==
  IF bn < NDIRECT THEN <<bn, Self, Self>>
  ELSE IF bn - NDIRECT < NINDIRECT THEN <<NDIRECT, bn - NDIRECT, Self>>
  ELSE <<NDIRECT + 1, 0, (bn - NDIRECT - NINDIRECT) % NINDIRECT>>

\* The place where bmap looks for block bn.
Path(bn) ==
  LET i == bn - NDIRECT
      d == i - NINDIRECT
  IN  IF bn < NDIRECT THEN <<bn, Self, Self>>
      ELSE IF i < NINDIRECT THEN <<NDIRECT, i, Self>>
      ELSE <<NDIRECT + 1, d \div NINDIRECT, d % NINDIRECT>>

\* The address at place n, 0 if there is none on the way to it.
At(ip, n) ==
  LET a == addrs[ip][n[1]]
      b == ptr[a][n[2]]
  IN  IF n[2] = Self \/ a = 0 THEN a
      ELSE IF n[3] = Self \/ b = 0 THEN b
      ELSE ptr[b][n[3]]

\* The places of the indirect blocks on the way to n.
Outer(n) == <<n[1], Self, Self>>
Inner(n) == <<n[1], n[2], Self>>

\* The first place on the way to bn where bmap finds a 0.
Missing(ip, bn) ==
  LET n == Path(bn)
  IN  IF At(ip, Outer(n)) = 0 THEN Outer(n)
      ELSE IF At(ip, Inner(n)) = 0 THEN Inner(n)
      ELSE n

\* Mutant: a new block keeps what it held.
ZeroedNot(b) == ptr

\* bzero.
Zeroed(b) == [ptr EXCEPT ![b] = NoPtrs]

\* Block b is entered at place n.
Enter(ip, n, b) ==
  /\ addrs' = IF n[2] = Self THEN [addrs EXCEPT ![ip][n[1]] = b] ELSE addrs
  /\ ptr' = IF n[2] = Self THEN Zeroed(b)
            ELSE IF n[3] = Self THEN [Zeroed(b) EXCEPT ![At(ip, Outer(n))][n[2]] = b]
            ELSE [Zeroed(b) EXCEPT ![At(ip, Inner(n))][n[3]] = b]

-----------------------------------------------------------------------------
(* writei *)

Goto(ip, o) == op' = [op EXCEPT ![ip] = o]

\* The end of writei: the size is brought up to where the write got to.
WriteEnd(ip, off) ==
  /\ size' = [size EXCEPT ![ip] = IF off > @ THEN off ELSE @]
  /\ Goto(ip, Idle)

\* Writes n blocks from block off; refused past the end or the largest file.
writei(ip, off, n) ==
  /\ op[ip].pc = "idle"
  /\ off <= size[ip] /\ off + n <= MAXFILE /\ off + n <= MaxSize[ip]
  /\ Goto(ip, [Idle EXCEPT !.pc = "write", !.off = off, !.left = n])
  /\ UNCHANGED <<used, ptr, val, addrs, size, truncs>>

\* One allocation of bmap: balloc's block is marked and zeroed, and entered
\* where bmap found a 0.  No block left ends the write.
bmap(ip) ==
  LET off == op[ip].off
  IN  /\ op[ip].pc = "write" /\ At(ip, Path(off)) = 0
      /\ \/ \E b \in Addr :
              /\ balloc(b)
              /\ used' = used \cup {b} /\ val' = [val EXCEPT ![b] = Zero]
              /\ Enter(ip, Missing(ip, off), b)
              /\ UNCHANGED <<size, op>>
         \/ /\ used = Block
            /\ WriteEnd(ip, off)
            /\ UNCHANGED <<used, ptr, val, addrs>>
      /\ UNCHANGED truncs

\* either_copyin into the block found, which may fail.
copyin(ip) ==
  LET o == op[ip]
      b == At(ip, Path(o.off))
  IN  /\ o.pc = "write" /\ b # 0
      /\ \/ /\ val' = [val EXCEPT ![b] = <<ip, o.off>>]
            /\ IF o.left = 1
               THEN WriteEnd(ip, o.off + 1)
               ELSE /\ Goto(ip, [o EXCEPT !.off = @ + 1, !.left = @ - 1])
                    /\ UNCHANGED size
         \/ WriteEnd(ip, o.off) /\ UNCHANGED val
      /\ UNCHANGED <<used, ptr, addrs, truncs>>

-----------------------------------------------------------------------------
(* readi *)

\* What readi copies out of n blocks from block off, cut at the size of the
\* file; where a block is missing, bmap would allocate one and zero it.
readi(ip, off, n) ==
  LET left == size[ip] - off
      blocks == IF left < 0 THEN 0 ELSE IF n > left THEN left ELSE n
      Data(b) == IF b = 0 THEN Zero ELSE val[b]
  IN  [k \in 1 .. blocks |-> Data(At(ip, Path(off + k - 1)))]

-----------------------------------------------------------------------------
(* itrunc *)

\* The order of the loops of itrunc: what an indirect block names goes before
\* the block itself.
Before(m, n) ==
  \/ m[1] < n[1]
  \/ m[1] = n[1] /\ m[2] < n[2]
  \/ m[1] = n[1] /\ m[2] = n[2] /\ m[3] < n[3]

\* Mutant: the blocks below the inner indirect blocks are forgotten.
LoopsSingle == {n \in Place : n[3] = Self}

\* The places the loops of itrunc come to.
Loops == Place

itrunc(ip) ==
  /\ op[ip].pc = "idle" /\ truncs < MaxTruncs
  /\ truncs' = truncs + 1
  /\ Goto(ip, [Idle EXCEPT !.pc = "trunc", !.todo = Loops])
  /\ UNCHANGED <<used, ptr, val, addrs, size>>

\* bfree of the next block, which panics if it is free (see NoFreeingFree).
\* From here on the block may hold anything.
bfree(ip) ==
  LET todo == op[ip].todo
  IN  /\ op[ip].pc = "trunc"
      /\ \E n \in todo :
           LET b == At(ip, n)
           IN  /\ b # 0 /\ \A m \in todo : Before(m, n) => At(ip, m) = 0
               /\ used' = used \ {b}
               /\ ptr' = [ptr EXCEPT ![b] = Junk]
               /\ val' = [val EXCEPT ![b] = Zero]
               /\ Goto(ip, [op[ip] EXCEPT !.todo = {m \in todo : Before(n, m)}])
      /\ UNCHANGED <<addrs, size, truncs>>

\* The addresses were cleared one by one, which nobody saw; the size goes last.
trunc_end(ip) ==
  /\ op[ip].pc = "trunc" /\ \A n \in op[ip].todo : At(ip, n) = 0
  /\ addrs' = [addrs EXCEPT ![ip] = NoAddrs]
  /\ size' = [size EXCEPT ![ip] = 0]
  /\ Goto(ip, Idle)
  /\ UNCHANGED <<used, ptr, val, truncs>>

Next ==
  \E ip \in Inode :
    \/ bmap(ip) \/ copyin(ip)
    \/ itrunc(ip) \/ bfree(ip) \/ trunc_end(ip)
    \/ \E off \in 0 .. MAXFILE, n \in 1 .. MaxWrite : writei(ip, off, n)

Spec == Init /\ [][Next]_vars
-----------------------------------------------------------------------------
(* Properties. *)

\* Types; a file is never larger than MAXFILE, and balloc hands out data blocks.
TypeOK ==
  /\ used \subseteq Block
  /\ ptr \in [Block -> [Index -> Addr]]
  /\ val \in [Block -> (Inode \X Nat) \cup {Zero}]
  /\ addrs \in [Inode -> [0 .. (NDIRECT + 1) -> Addr]]
  /\ size \in [Inode -> 0 .. MAXFILE]
  /\ \A ip \in Inode : op[ip].pc \in {"idle", "write", "trunc"}
  /\ truncs \in 0 .. MaxTruncs

\* The places with the blocks of a file; of one being cut, those still to come.
Places(ip) == {n \in IF op[ip].pc = "trunc" THEN op[ip].todo ELSE Place : At(ip, n) # 0}

\* A block is in use exactly while it is in a file, and at one place of one file
\* only: nothing is leaked, not even by a write that runs out of space on the
\* way down, and no block is given away while a file still reaches it.
BlocksPartitioned ==
  /\ used = UNION {{At(ip, n) : n \in Places(ip)} : ip \in Inode}
  /\ \A ip, jp \in Inode : \A m \in Places(ip), n \in Places(jp) :
       At(ip, m) = At(jp, n) => ip = jp /\ m = n

\* bfree's panic "freeing free block" is never reached.
NoFreeingFree == [][\A ip \in Inode : bfree(ip) => used' # used]_vars

\* readi gets back at every block what was written there, through any of the
\* three kinds of blocks, and comes short only at the end of the file.  So no
\* other block number and no other file shares the block, no block comes with
\* what it held before, and none is missing: readi, which runs outside of any
\* transaction, never makes bmap allocate.
ReadsBackWhatWasWritten ==
  \A ip \in Inode : op[ip].pc # "trunc" =>
    \A off \in 0 .. MAXFILE, n \in 1 .. MaxWrite :
      LET r == readi(ip, off, n)
      IN  /\ \A k \in DOMAIN r : r[k] = <<ip, off + k - 1>>
          /\ Len(r) # n => Len(r) < n /\ off + Len(r) >= size[ip]
=============================================================================
