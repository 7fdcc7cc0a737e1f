---------------------------- MODULE BlocksProofs ----------------------------
(***************************************************************************)
(* Proofs about Blocks, for any number of files and of blocks, and any     *)
(* numbers of direct and indirect addresses: every block in use is at one  *)
(* place of one file, and what was written is read back.                   *)
(***************************************************************************)
EXTENDS Blocks, TLAPS

-----------------------------------------------------------------------------
(* Constants, places. *)

\* Blocks, addresses and indices.
LEMMA ConstFacts ==
  /\ NBLOCKS \in Nat /\ NDIRECT \in Nat /\ NDIRECT > 0 /\ NINDIRECT \in Nat /\ NINDIRECT > 0
  /\ Block \subseteq Addr /\ 0 \in Addr /\ 0 \notin Block /\ \A a \in Addr : a # 0 => a \in Block
  /\ Self \notin Index /\ Self \in Nat /\ \A i \in 0 .. Self : i # Self <=> i \in Index
BY BlocksAssumption DEF Block, Addr, Self, Index

\* An address that is not 0 is a block.
LEMMA AddrFacts ==
  /\ \A a \in Addr : a # 0 => a \in Block
  /\ \A b \in Block : b \in Addr /\ b # 0
BY ConstFacts, Zenon

\* What a place is made of.
LEMMA PlaceFacts ==
  ASSUME NEW n \in Place
  PROVE  /\ n = <<n[1], n[2], n[3]>>
         /\ n[1] \in 0 .. (NDIRECT + 1) /\ n[2] \in 0 .. Self /\ n[3] \in 0 .. Self
         /\ n[2] # Self <=> n[2] \in Index
         /\ n[3] # Self <=> n[3] \in Index
         /\ n[2] = Self => n[3] = Self
         /\ n[2] = Self => Outer(n) = n
         /\ n[3] = Self => Inner(n) = n
<1>1. n \in (0 .. (NDIRECT + 1)) \X (0 .. Self) \X (0 .. Self) /\ (n[2] = Self => n[3] = Self)
  BY Zenon DEF Place
<1>2. n = <<n[1], n[2], n[3]>> /\ n[1] \in 0 .. (NDIRECT + 1) /\ n[2] \in 0 .. Self /\ n[3] \in 0 .. Self
  BY <1>1
<1> QED
  BY <1>1, <1>2, ConstFacts, Zenon DEF Outer, Inner

\* The places of the indirect blocks on the way to a place are places.
LEMMA WayFacts ==
  ASSUME NEW n \in Place
  PROVE  /\ Outer(n) \in Place /\ Inner(n) \in Place
         /\ Outer(n)[1] = n[1] /\ Outer(n)[2] = Self /\ Outer(n)[3] = Self
         /\ Inner(n)[1] = n[1] /\ Inner(n)[2] = n[2] /\ Inner(n)[3] = Self
         /\ Outer(Inner(n)) = Outer(n)
<1>1. n[1] \in 0 .. (NDIRECT + 1) /\ n[2] \in 0 .. Self
  BY PlaceFacts, Zenon
<1>2. n[1] < NDIRECT => n[2] = Self
  BY Zenon DEF Place
<1>3. Self \in 0 .. Self
  BY ConstFacts
<1> QED
  BY <1>1, <1>2, <1>3, Zenon DEF Outer, Inner, Place

\* Places are told apart by their parts.
LEMMA PlaceEq ==
  ASSUME NEW m \in Place, NEW n \in Place, m[1] = n[1], m[2] = n[2], m[3] = n[3]
  PROVE  m = n
BY PlaceFacts, Zenon

\* Division by NINDIRECT.
LEMMA DivFacts ==
  ASSUME NEW d \in Nat
  PROVE  /\ d \div NINDIRECT \in Nat /\ d % NINDIRECT \in Index
         /\ d = NINDIRECT * (d \div NINDIRECT) + (d % NINDIRECT)
<1>1. \E q \in Nat, r \in Nat : d = NINDIRECT * q + r /\ r = d % NINDIRECT /\ q = d \div NINDIRECT
  BY ConstFacts
<1>2. d = NINDIRECT * (d \div NINDIRECT) + (d % NINDIRECT)
  BY <1>1, Zenon
<1>3. d \div NINDIRECT \in Nat
  BY <1>1, Zenon
<1>4. d % NINDIRECT \in Index
  BY ConstFacts DEF Index
<1> QED
  BY <1>2, <1>3, <1>4, Zenon

\* The outer index of a doubly indirect block.
LEMMA OuterIndex ==
  ASSUME NEW d \in Nat, d < NDOUBLY_INDIRECT
  PROVE  d \div NINDIRECT \in Index
<1> DEFINE q == d \div NINDIRECT
<1>1. q \in Nat /\ NINDIRECT * q <= d
  BY DivFacts, ConstFacts DEF Index
<1>2. ASSUME q >= NINDIRECT PROVE FALSE
  <2>1. NINDIRECT * q >= NINDIRECT * NINDIRECT
    BY <1>1, <1>2, ConstFacts
  <2> QED
    BY <1>1, <2>1, ConstFacts DEF NDOUBLY_INDIRECT
<1> QED
  BY <1>1, <1>2, ConstFacts DEF Index

\* bmap looks for every block of a file at a place, and for each at another.
LEMMA PathFacts ==
  /\ MAXFILE \in Nat
  /\ \A bn \in Nat : bn < MAXFILE => Path(bn) \in Place
  /\ \A bn, cn \in Nat : bn < MAXFILE /\ cn < MAXFILE /\ Path(bn) = Path(cn) => bn = cn
<1>1. MAXFILE \in Nat /\ NDOUBLY_INDIRECT \in Nat
  BY ConstFacts DEF MAXFILE, NDOUBLY_INDIRECT
<1>2. ASSUME NEW bn \in Nat, bn < MAXFILE
      PROVE  Path(bn) \in Place
  <2>1. CASE bn < NDIRECT
    BY <2>1, ConstFacts DEF Path, Place
  <2>2. CASE ~(bn < NDIRECT) /\ bn - NDIRECT < NINDIRECT
    BY <2>2, ConstFacts DEF Path, Place, Self
  <2>3. CASE ~(bn < NDIRECT) /\ ~(bn - NDIRECT < NINDIRECT)
    <3> DEFINE d == bn - NDIRECT - NINDIRECT
    <3>1. d \in Nat /\ d < NDOUBLY_INDIRECT
      BY <1>1, <1>2, <2>3, ConstFacts DEF MAXFILE
    <3>2. d \div NINDIRECT \in Index /\ d % NINDIRECT \in Index
      BY <3>1, OuterIndex, DivFacts, Zenon
    <3>3. Path(bn) = <<NDIRECT + 1, d \div NINDIRECT, d % NINDIRECT>>
      BY <2>3, Zenon DEF Path
    <3> HIDE DEF d
    <3> QED
      BY <3>2, <3>3, ConstFacts DEF Place, Index, Self
  <2> QED
    BY <2>1, <2>2, <2>3, Zenon
<1>3. ASSUME NEW bn \in Nat, NEW cn \in Nat, Path(bn) = Path(cn)
      PROVE  bn = cn
  <2> DEFINE Kind(x) == IF x < NDIRECT THEN 0 ELSE IF x - NDIRECT < NINDIRECT THEN 1 ELSE 2
             d(x) == x - NDIRECT - NINDIRECT
  <2>1. ASSUME NEW x \in Nat
        PROVE  /\ Kind(x) = 0 => Path(x) = <<x, Self, Self>>
               /\ Kind(x) = 1 => Path(x) = <<NDIRECT, x - NDIRECT, Self>>
               /\ Kind(x) = 2 => Path(x) = <<NDIRECT + 1, d(x) \div NINDIRECT, d(x) % NINDIRECT>> /\ d(x) \in Nat
               /\ Kind(x) = 0 <=> x < NDIRECT
               /\ Kind(x) \in {0, 1, 2}
    BY ConstFacts DEF Path
  <2>2. Kind(bn) = Kind(cn)
    BY <1>3, <2>1, ConstFacts
  <2>3. CASE Kind(bn) = 0
    BY <1>3, <2>1, <2>2, <2>3
  <2>4. CASE Kind(bn) = 1
    BY <1>3, <2>1, <2>2, <2>4, ConstFacts
  <2>5. CASE Kind(bn) = 2
    <3>1. d(bn) \div NINDIRECT = d(cn) \div NINDIRECT /\ d(bn) % NINDIRECT = d(cn) % NINDIRECT
          /\ d(bn) \in Nat /\ d(cn) \in Nat
      BY <1>3, <2>1, <2>2, <2>5
    <3>2. d(bn) = NINDIRECT * (d(bn) \div NINDIRECT) + (d(bn) % NINDIRECT)
      BY <3>1, DivFacts, Zenon
    <3>3. d(cn) = NINDIRECT * (d(cn) \div NINDIRECT) + (d(cn) % NINDIRECT)
      BY <3>1, DivFacts, Zenon
    <3>4. d(bn) = d(cn)
      <4> HIDE DEF d
      <4> QED
        BY <3>1, <3>2, <3>3, Zenon
    <3> QED
      BY <3>4, ConstFacts
  <2> QED
    BY <2>1, <2>3, <2>4, <2>5, Zenon
<1> QED
  BY <1>1, <1>2, <1>3, Zenon

\* The order of itrunc's loops is a strict order of all places.
LEMMA BeforeFacts ==
  ASSUME NEW m \in Place, NEW n \in Place
  PROVE  /\ ~Before(n, n)
         /\ Before(m, n) \/ m = n \/ Before(n, m)
         /\ ~(Before(m, n) /\ Before(n, m))
<1>1. ASSUME NEW p \in Place
      PROVE  p[1] \in Nat /\ p[2] \in Nat /\ p[3] \in Nat
  BY PlaceFacts, ConstFacts
<1>2. m[1] \in Nat /\ m[2] \in Nat /\ m[3] \in Nat /\ n[1] \in Nat /\ n[2] \in Nat /\ n[3] \in Nat
  BY <1>1, Zenon
<1>3. m[1] = n[1] /\ m[2] = n[2] /\ m[3] = n[3] => m = n
  BY PlaceEq, Zenon
<1> QED
  BY <1>2, <1>3 DEF Before

\* What comes after what comes after comes after.
LEMMA BeforeTrans ==
  ASSUME NEW m \in Place, NEW n \in Place, NEW p \in Place, Before(m, n), Before(n, p)
  PROVE  Before(m, p)
<1>1. ASSUME NEW q \in Place
      PROVE  q[1] \in Nat /\ q[2] \in Nat /\ q[3] \in Nat
  BY PlaceFacts, ConstFacts
<1>2. /\ m[1] \in Nat /\ m[2] \in Nat /\ m[3] \in Nat /\ n[1] \in Nat /\ n[2] \in Nat /\ n[3] \in Nat
      /\ p[1] \in Nat /\ p[2] \in Nat /\ p[3] \in Nat
  BY <1>1, Zenon
<1> QED
  BY <1>2 DEF Before

\* itrunc frees an indirect block after the blocks that it leads to.
LEMMA WayLater ==
  ASSUME NEW n \in Place
  PROVE  /\ Outer(n) = n \/ Before(n, Outer(n))
         /\ Inner(n) = n \/ Before(n, Inner(n))
<1>1. n = <<n[1], n[2], n[3]>> /\ n[2] \in 0 .. Self /\ n[3] \in 0 .. Self /\ Self \in Nat
  BY PlaceFacts, ConstFacts, Zenon
<1>2. n[2] = Self => n[3] = Self
  BY PlaceFacts, Zenon
<1> QED
  BY <1>1, <1>2, PlaceFacts, WayFacts DEF Before

-----------------------------------------------------------------------------
(* What is at a place. *)

\* At of a file with addresses A, where the blocks hold addresses P.
Of(A, P, n) ==
  IF n[2] = Self \/ A[n[1]] = 0 THEN A[n[1]]
  ELSE IF n[3] = Self \/ P[A[n[1]]][n[2]] = 0 THEN P[A[n[1]]][n[2]]
  ELSE P[P[A[n[1]]][n[2]]][n[3]]

Addrs == [0 .. (NDIRECT + 1) -> Addr]
Ptrs == [Block -> [Index -> Addr]]

\* At is Of, of the file's addresses.
LEMMA AtOf ==
  \A ip, n : At(ip, n) = Of(addrs[ip], ptr, n)
BY Zenon DEF At, Of

\* bmap goes down one indirect block at a time.
LEMMA OfFacts ==
  ASSUME NEW A \in Addrs, NEW P \in Ptrs, NEW n \in Place
  PROVE  /\ Of(A, P, Outer(n)) = A[n[1]]
         /\ n[2] = Self => Of(A, P, n) = A[n[1]]
         /\ n[2] # Self => Of(A, P, Inner(n)) = IF A[n[1]] = 0 THEN 0 ELSE P[A[n[1]]][n[2]]
         /\ n[3] # Self => Of(A, P, n) = IF Of(A, P, Inner(n)) = 0 THEN 0 ELSE P[Of(A, P, Inner(n))][n[3]]
         /\ A[n[1]] \in Addr
         /\ Of(A, P, Inner(n)) \in Addr
         /\ Of(A, P, n) \in Addr
<1>1. A[n[1]] \in Addr
  BY PlaceFacts, Zenon DEF Addrs
<1>2. Of(A, P, Outer(n)) = A[n[1]]
  BY WayFacts, Zenon DEF Of
<1>3. n[2] = Self => Of(A, P, n) = A[n[1]]
  BY Zenon DEF Of
<1>4. n[2] # Self => Of(A, P, Inner(n)) = IF A[n[1]] = 0 THEN 0 ELSE P[A[n[1]]][n[2]]
  BY WayFacts DEF Of
<1>5. n[3] # Self => n[2] # Self
  BY PlaceFacts, Zenon
<1>6. n[3] # Self => Of(A, P, n) = IF Of(A, P, Inner(n)) = 0 THEN 0 ELSE P[Of(A, P, Inner(n))][n[3]]
  BY <1>4, <1>5, Zenon DEF Of
<1>7. ASSUME NEW a \in Addr, a # 0, NEW j \in Index
      PROVE  P[a][j] \in Addr
  BY <1>7, ConstFacts, Zenon DEF Ptrs
<1>8. Of(A, P, Inner(n)) \in Addr
  <2>1. CASE n[2] = Self
    <3>1. Inner(n) = n
      BY <2>1, PlaceFacts, Zenon
    <3> QED
      BY <1>1, <1>3, <2>1, <3>1, Zenon
  <2>2. CASE n[2] # Self
    BY <1>1, <1>4, <1>7, <2>2, PlaceFacts, ConstFacts, Zenon
  <2> QED
    BY <2>1, <2>2, Zenon
<1>9. Of(A, P, n) \in Addr
  <2>1. CASE n[3] = Self
    BY <1>8, <2>1, PlaceFacts, Zenon
  <2>2. CASE n[3] # Self
    BY <1>6, <1>7, <1>8, <2>2, PlaceFacts, ConstFacts, Zenon
  <2> QED
    BY <2>1, <2>2, Zenon
<1> QED
  BY <1>1, <1>2, <1>3, <1>4, <1>6, <1>8, <1>9, Zenon

\* A place holds what it held when the addresses on the way are the same.
LEMMA SameAt ==
  ASSUME NEW A \in Addrs, NEW P \in Ptrs, NEW Q \in Ptrs, NEW m \in Place,
         m[2] # Self /\ A[m[1]] # 0 => Q[A[m[1]]][m[2]] = P[A[m[1]]][m[2]],
         m[3] # Self /\ Of(A, P, Inner(m)) # 0 => Q[Of(A, P, Inner(m))][m[3]] = P[Of(A, P, Inner(m))][m[3]]
  PROVE  Of(A, Q, m) = Of(A, P, m)
<1>1. CASE m[2] = Self
  BY <1>1, OfFacts
<1>2. CASE m[2] # Self
  <2>1. Of(A, P, Inner(m)) = IF A[m[1]] = 0 THEN 0 ELSE P[A[m[1]]][m[2]]
    BY <1>2, OfFacts, Zenon
  <2>2. Of(A, Q, Inner(m)) = IF A[m[1]] = 0 THEN 0 ELSE Q[A[m[1]]][m[2]]
    BY <1>2, OfFacts, Zenon
  <2>3. Of(A, Q, Inner(m)) = Of(A, P, Inner(m))
    BY <1>2, <2>1, <2>2
  <2>4. CASE m[3] = Self
    <3>1. Inner(m) = m
      BY <2>4, PlaceFacts, Zenon
    <3> QED
      BY <2>3, <3>1, Zenon
  <2>5. CASE m[3] # Self
    <3>1. Of(A, P, m) = IF Of(A, P, Inner(m)) = 0 THEN 0 ELSE P[Of(A, P, Inner(m))][m[3]]
      BY <2>5, OfFacts, Zenon
    <3>2. Of(A, Q, m) = IF Of(A, Q, Inner(m)) = 0 THEN 0 ELSE Q[Of(A, Q, Inner(m))][m[3]]
      BY <2>5, OfFacts, Zenon
    <3> QED
      BY <2>3, <2>5, <3>1, <3>2, Zenon
  <2> QED
    BY <2>4, <2>5, Zenon
<1> QED
  BY <1>1, <1>2, Zenon

\* The places S of a file, with the indirect blocks on the way, hold what they
\* held while none of their blocks is written.
LEMMA Frame ==
  ASSUME NEW A \in Addrs, NEW P \in Ptrs, NEW Q \in Ptrs, NEW S \in SUBSET Place,
         \A n \in S : Outer(n) \in S /\ Inner(n) \in S,
         \A n \in S : Of(A, P, n) # 0 => Q[Of(A, P, n)] = P[Of(A, P, n)]
  PROVE  \A n \in S : Of(A, Q, n) = Of(A, P, n)
<1>1. ASSUME NEW n \in S
      PROVE  Of(A, Q, n) = Of(A, P, n)
  <2>1. n \in Place
    BY Zenon
  <2>2. A[n[1]] = Of(A, P, Outer(n))
    BY <2>1, OfFacts, ZenonT(30)
  <2>3. A[n[1]] # 0 => Q[A[n[1]]] = P[A[n[1]]]
    BY <2>2, Zenon
  <2>4. Of(A, P, Inner(n)) # 0 => Q[Of(A, P, Inner(n))] = P[Of(A, P, Inner(n))]
    BY Zenon
  <2> QED
    BY <2>1, <2>3, <2>4, SameAt
<1> QED
  BY <1>1, Zenon

\* Every block of the file is at one place, and block b at none.
Apart(A, P) == \A m, k \in Place : Of(A, P, m) # 0 /\ Of(A, P, m) = Of(A, P, k) => m = k
Unnamed(A, P, b) == \A m \in Place : Of(A, P, m) # b

\* An indirect block of ip->addrs is at one place only.
LEMMA OuterApart ==
  ASSUME NEW A \in Addrs, NEW P \in Ptrs, Apart(A, P), NEW m \in Place, NEW n \in Place,
         A[m[1]] # 0, A[m[1]] = A[n[1]]
  PROVE  m[1] = n[1]
<1>1. Outer(m) \in Place /\ Outer(n) \in Place
  BY WayFacts, Zenon
<1>2. Of(A, P, Outer(m)) = A[m[1]] /\ Of(A, P, Outer(n)) = A[n[1]]
  BY OfFacts, Zenon
<1>3. Outer(m) = Outer(n)
  BY <1>1, <1>2, Zenon DEF Apart
<1> QED
  BY <1>3, Zenon DEF Outer

\* And so is an inner one.
LEMMA InnerApart ==
  ASSUME NEW A \in Addrs, NEW P \in Ptrs, Apart(A, P), NEW m \in Place, NEW n \in Place,
         Of(A, P, Inner(m)) # 0, Of(A, P, Inner(m)) = Of(A, P, Inner(n))
  PROVE  m[1] = n[1] /\ m[2] = n[2]
<1>1. Inner(m) \in Place /\ Inner(n) \in Place
  BY WayFacts, Zenon
<1>2. Inner(m) = Inner(n)
  BY <1>1, Zenon DEF Apart
<1> QED
  BY <1>2, Zenon DEF Inner

\* None of the one kind is of the other.
LEMMA OuterInnerApart ==
  ASSUME NEW A \in Addrs, NEW P \in Ptrs, Apart(A, P), NEW m \in Place, NEW n \in Place,
         A[m[1]] # 0, n[2] # Self
  PROVE  A[m[1]] # Of(A, P, Inner(n))
<1>1. Outer(m) \in Place /\ Inner(n) \in Place
  BY WayFacts, Zenon
<1>2. Of(A, P, Outer(m)) = A[m[1]]
  BY OfFacts, Zenon
<1>3. Outer(m) # Inner(n)
  BY Zenon DEF Outer, Inner
<1> QED
  BY <1>1, <1>2, <1>3, Zenon DEF Apart

\* No block on the way is one that the file does not name.
LEMMA WayNamed ==
  ASSUME NEW A \in Addrs, NEW P \in Ptrs, NEW b, Unnamed(A, P, b), NEW n \in Place
  PROVE  A[n[1]] # b /\ Of(A, P, Inner(n)) # b
<1>1. Outer(n) \in Place /\ Inner(n) \in Place /\ Of(A, P, Outer(n)) = A[n[1]]
  BY WayFacts, OfFacts, ZenonT(30)
<1> QED
  BY <1>1, Zenon DEF Unnamed

\* What is below a zeroed block is 0.
LEMMA BelowZero ==
  ASSUME NEW A \in Addrs, NEW P \in Ptrs, NEW m \in Place
  PROVE  /\ m[2] # Self /\ A[m[1]] = 0 => Of(A, P, m) = 0
         /\ m[2] # Self /\ A[m[1]] # 0 /\ P[A[m[1]]] = NoPtrs => Of(A, P, m) = 0
         /\ m[3] # Self /\ Of(A, P, Inner(m)) = 0 => Of(A, P, m) = 0
         /\ m[3] # Self /\ Of(A, P, Inner(m)) # 0 /\ P[Of(A, P, Inner(m))] = NoPtrs => Of(A, P, m) = 0
<1>1. \A j \in Index : NoPtrs[j] = 0
  BY Zenon DEF NoPtrs
<1>2. m[2] # Self => m[2] \in Index
  BY PlaceFacts, Zenon
<1>3. m[3] # Self => m[3] \in Index
  BY PlaceFacts, Zenon
<1>4. m[2] # Self => Of(A, P, Inner(m)) = IF A[m[1]] = 0 THEN 0 ELSE P[A[m[1]]][m[2]]
  BY OfFacts, Zenon
<1>5. m[3] # Self => Of(A, P, m) = IF Of(A, P, Inner(m)) = 0 THEN 0 ELSE P[Of(A, P, Inner(m))][m[3]]
  BY OfFacts, Zenon
<1>6. m[3] = Self => Inner(m) = m
  BY PlaceFacts, Zenon
<1>7. m[2] # Self /\ (A[m[1]] = 0 \/ P[A[m[1]]] = NoPtrs) => Of(A, P, Inner(m)) = 0
  BY <1>1, <1>2, <1>4, Zenon
<1>8. m[3] # Self /\ (Of(A, P, Inner(m)) = 0 \/ P[Of(A, P, Inner(m))] = NoPtrs) => Of(A, P, m) = 0
  BY <1>1, <1>3, <1>5, Zenon
<1> QED
  BY <1>6, <1>7, <1>8, Zenon

\* B is A with address b at a.
Put(A, B, a, b) == B[a] = b /\ \A x \in 0 .. (NDIRECT + 1) : x # a => B[x] = A[x]

\* Q is P with block b zeroed; and then with b entered at index j of block c.
Wiped(P, Q, b) == Q[b] = NoPtrs /\ \A c \in Block : c # b => Q[c] = P[c]
Linked(P, Q, b, c, j) ==
  /\ Q[b] = NoPtrs /\ Q[c][j] = b
  /\ \A k \in Index : k # j => Q[c][k] = P[c][k]
  /\ \A d \in Block : d # b /\ d # c => Q[d] = P[d]

\* bzero.
LEMMA ZeroedFacts ==
  ASSUME NEW P \in Ptrs, NEW b \in Block
  PROVE  [P EXCEPT ![b] = NoPtrs] \in Ptrs /\ Wiped(P, [P EXCEPT ![b] = NoPtrs], b)
<1>1. NoPtrs \in [Index -> Addr]
  BY ConstFacts, Zenon DEF NoPtrs
<1> QED
  BY <1>1, Zenon DEF Ptrs, Wiped

\* bzero, and an address entered in an indirect block.
LEMMA LinkedFacts ==
  ASSUME NEW P \in Ptrs, NEW b \in Block, NEW c \in Block, b # c, NEW j \in Index
  PROVE  /\ [[P EXCEPT ![b] = NoPtrs] EXCEPT ![c][j] = b] \in Ptrs
         /\ Linked(P, [[P EXCEPT ![b] = NoPtrs] EXCEPT ![c][j] = b], b, c, j)
<1>1. ASSUME NEW Z \in Ptrs, Wiped(P, Z, b), NEW Q, Q = [Z EXCEPT ![c][j] = b]
      PROVE  Q \in Ptrs /\ Linked(P, Q, b, c, j)
  <2> DEFINE f == [Z[c] EXCEPT ![j] = b]
  <2>1. Z[c] \in [Index -> Addr] /\ Z[c] = P[c] /\ b \in Addr
    BY <1>1, ConstFacts, Zenon DEF Ptrs, Wiped
  <2>2. f \in [Index -> Addr] /\ f[j] = b /\ \A k \in Index : k # j => f[k] = P[c][k]
    BY <2>1, Zenon
  <2> HIDE DEF f
  <2>3. Q = [Z EXCEPT ![c] = f]
    BY <1>1, Zenon DEF Ptrs, f
  <2>4. Q \in Ptrs /\ Q[c] = f /\ \A d \in Block : d # c => Q[d] = Z[d]
    BY <1>1, <2>2, <2>3 DEF Ptrs
  <2> QED
    BY <1>1, <2>2, <2>4, Zenon DEF Wiped, Linked
<1> QED
  BY <1>1, ZeroedFacts, Zenon

\* bmap enters block b, zeroed, in ip->addrs.
LEMMA EnterDirect ==
  ASSUME NEW A \in Addrs, NEW P \in Ptrs, NEW n \in Place, NEW b \in Block, Unnamed(A, P, b),
         n[2] = Self, A[n[1]] = 0,
         NEW B \in Addrs, Put(A, B, n[1], b), NEW Q \in Ptrs, Wiped(P, Q, b)
  PROVE  \A m \in Place : Of(B, Q, m) = IF m = n THEN b ELSE Of(A, P, m)
<1>1. n[1] \in 0 .. (NDIRECT + 1) /\ b \in Addr /\ b # 0 /\ n[3] = Self
  BY PlaceFacts, ConstFacts, Zenon
<1>2. B[n[1]] = b /\ \A a \in 0 .. (NDIRECT + 1) : a # n[1] => B[a] = A[a]
  BY Zenon DEF Put
<1>3. Q[b] = NoPtrs /\ \A c \in Block : c # b => Q[c] = P[c]
  BY Zenon DEF Wiped
<1>4. ASSUME NEW m \in Place, m[1] = n[1], m[2] = Self
      PROVE  m = n /\ Of(B, Q, m) = b
  <2>1. m[3] = Self
    BY <1>4, PlaceFacts, Zenon
  <2>2. m = n
    BY <1>1, <1>4, <2>1, PlaceEq, Zenon
  <2>3. Of(B, Q, m) = B[m[1]]
    BY <1>4, OfFacts, Zenon
  <2> QED
    BY <1>2, <1>4, <2>2, <2>3, Zenon
<1>5. ASSUME NEW m \in Place, m[1] = n[1], m[2] # Self
      PROVE  m # n /\ Of(B, Q, m) = 0 /\ Of(A, P, m) = 0
  <2>1. m # n
    BY <1>5, Zenon
  <2>2. A[m[1]] = 0 /\ B[m[1]] = b
    BY <1>2, <1>5, Zenon
  <2>3. Of(A, P, m) = 0
    BY <1>5, <2>2, BelowZero, Zenon
  <2>4. Of(B, Q, m) = 0
    BY <1>1, <1>3, <1>5, <2>2, BelowZero, Zenon
  <2> QED
    BY <2>1, <2>3, <2>4, Zenon
<1>6. ASSUME NEW m \in Place, m[1] # n[1]
      PROVE  m # n /\ Of(B, Q, m) = Of(A, P, m)
  <2>1. m # n
    BY <1>6, Zenon
  <2>2. m[1] \in 0 .. (NDIRECT + 1)
    BY PlaceFacts, Zenon
  <2>3. B[m[1]] = A[m[1]]
    BY <1>2, <1>6, <2>2, Zenon
  <2>4. Of(B, Q, m) = Of(A, Q, m)
    BY <2>3, Zenon DEF Of
  <2>5. \A k \in Place : Of(A, P, k) # 0 => Q[Of(A, P, k)] = P[Of(A, P, k)]
    <3>1. ASSUME NEW k \in Place, Of(A, P, k) # 0
          PROVE  Q[Of(A, P, k)] = P[Of(A, P, k)]
      <4>1. Of(A, P, k) \in Block
        BY <3>1, OfFacts, ConstFacts, Zenon
      <4>2. Of(A, P, k) # b
        BY Zenon DEF Unnamed
      <4> QED
        BY <1>3, <4>1, <4>2, Zenon
    <3> QED
      BY <3>1, Zenon
  <2>6. \A k \in Place : Outer(k) \in Place /\ Inner(k) \in Place
    BY WayFacts, Zenon
  <2>7. \A k \in Place : Of(A, Q, k) = Of(A, P, k)
    BY <1>3, <2>5, <2>6, Frame
  <2> QED
    BY <2>1, <2>4, <2>7, Zenon
<1>7. \A m \in Place : Of(B, Q, m) = IF m = n THEN b ELSE Of(A, P, m)
  BY <1>4, <1>5, <1>6, Zenon
<1> QED
  BY <1>7, Zenon

\* bmap enters block b, zeroed, in the indirect block o of ip->addrs.
LEMMA EnterIndirect ==
  ASSUME NEW A \in Addrs, NEW P \in Ptrs, NEW n \in Place, NEW b \in Block,
         Unnamed(A, P, b), Apart(A, P), n[2] # Self, n[3] = Self, Of(A, P, n) = 0,
         NEW o, o = A[n[1]], o # 0,
         NEW Q \in Ptrs, Linked(P, Q, b, o, n[2])
  PROVE  \A m \in Place : Of(A, Q, m) = IF m = n THEN b ELSE Of(A, P, m)
<1>1. n[2] \in Index /\ b \in Addr /\ b # 0 /\ o \in Block /\ n = Inner(n)
  BY PlaceFacts, OfFacts, ConstFacts, Zenon
<1>2. /\ Q[b] = NoPtrs /\ Q[o][n[2]] = b
      /\ \A k \in Index : k # n[2] => Q[o][k] = P[o][k]
      /\ \A c \in Block : c # b /\ c # o => Q[c] = P[c]
  BY Zenon DEF Linked
<1>3. ASSUME NEW m \in Place, m[2] = Self
      PROVE  m # n /\ Of(A, Q, m) = Of(A, P, m)
  BY <1>3, OfFacts
<1>4. ASSUME NEW m \in Place, m[2] # Self, m[1] = n[1], m[2] = n[2]
      PROVE  Of(A, Q, Inner(m)) = b /\ Of(A, P, Inner(m)) = 0
  <2>1. Of(A, Q, Inner(m)) = IF A[m[1]] = 0 THEN 0 ELSE Q[A[m[1]]][m[2]]
    BY <1>4, OfFacts, Zenon
  <2>2. Inner(m) = Inner(n)
    BY <1>4, Zenon DEF Inner
  <2>3. Of(A, Q, Inner(m)) = b
    BY <1>2, <1>4, <2>1, Zenon
  <2> QED
    BY <1>1, <2>2, <2>3, Zenon
<1>5. ASSUME NEW m \in Place, m[2] # Self, m[1] = n[1], m[2] = n[2]
      PROVE  Of(A, Q, m) = IF m = n THEN b ELSE Of(A, P, m)
  <2>1. CASE m[3] = Self
    <3>1. m = n /\ Inner(m) = m
      BY <1>5, <2>1, PlaceEq, PlaceFacts
    <3> QED
      BY <1>4, <1>5, <3>1, Zenon
  <2>2. CASE m[3] # Self
    <3>1. m # n
      BY <2>2, Zenon
    <3>2. Of(A, P, m) = 0
      BY <1>4, <1>5, <2>2, BelowZero, Zenon
    <3>3. Of(A, Q, m) = 0
      BY <1>1, <1>2, <1>4, <1>5, <2>2, BelowZero, ZenonT(30)
    <3> QED
      BY <3>1, <3>2, <3>3, Zenon
  <2> QED
    BY <2>1, <2>2, Zenon
<1>6. ASSUME NEW m \in Place, m[2] # Self, ~(m[1] = n[1] /\ m[2] = n[2])
       PROVE  m # n /\ Of(A, Q, m) = Of(A, P, m)
  <2>1. m # n
    BY <1>6, Zenon
  <2>2. A[m[1]] \in Addr /\ A[m[1]] # b /\ Of(A, P, Inner(m)) \in Addr /\ Of(A, P, Inner(m)) # b
    BY OfFacts, WayNamed
  <2>3. m[2] \in Index
    BY <1>6, PlaceFacts, Zenon
  <2>4. A[m[1]] = o => m[1] = n[1]
    BY OuterApart, Zenon
  <2>5. A[m[1]] # 0 => Q[A[m[1]]][m[2]] = P[A[m[1]]][m[2]]
    <3>1. CASE A[m[1]] = o
      BY <1>2, <1>6, <2>3, <2>4, <3>1, Zenon
    <3>2. CASE A[m[1]] # o
      BY <1>2, <2>2, <3>2, AddrFacts, Zenon
    <3> QED
      BY <3>1, <3>2, Zenon
  <2>6. Of(A, P, Inner(m)) # o
    BY <1>6, OuterInnerApart, Zenon
  <2>7. Of(A, P, Inner(m)) # 0 => Q[Of(A, P, Inner(m))] = P[Of(A, P, Inner(m))]
    BY <1>2, <2>2, <2>6, AddrFacts, Zenon
  <2>8. Of(A, Q, m) = Of(A, P, m)
    BY <2>5, <2>7, SameAt, ZenonT(30)
  <2> QED
    BY <2>1, <2>8, Zenon
<1>7. \A m \in Place : Of(A, Q, m) = IF m = n THEN b ELSE Of(A, P, m)
  BY <1>3, <1>5, <1>6, Zenon
<1> QED
  BY <1>7, Zenon

\* bmap enters block b, zeroed, in the inner indirect block i.
LEMMA EnterDoubly ==
  ASSUME NEW A \in Addrs, NEW P \in Ptrs, NEW n \in Place, NEW b \in Block,
         Unnamed(A, P, b), Apart(A, P), n[3] # Self, Of(A, P, n) = 0,
         NEW i, i = Of(A, P, Inner(n)), i # 0,
         NEW Q \in Ptrs, Linked(P, Q, b, i, n[3])
  PROVE  \A m \in Place : Of(A, Q, m) = IF m = n THEN b ELSE Of(A, P, m)
<1>1. n[3] \in Index /\ b \in Addr /\ b # 0 /\ i \in Block /\ n[2] # Self
  BY PlaceFacts, OfFacts, ConstFacts, Zenon
<1>2. /\ Q[i][n[3]] = b
      /\ \A k \in Index : k # n[3] => Q[i][k] = P[i][k]
      /\ \A c \in Block : c # b /\ c # i => Q[c] = P[c]
  BY Zenon DEF Linked
<1>3. ASSUME NEW m \in Place
      PROVE  A[m[1]] # 0 => Q[A[m[1]]] = P[A[m[1]]]
  <2>1. A[m[1]] \in Addr /\ A[m[1]] # b
    BY OfFacts, WayNamed
  <2>2. A[m[1]] # 0 => A[m[1]] # i
    BY <1>1, OuterInnerApart, Zenon
  <2> QED
    BY <1>2, <2>1, <2>2, AddrFacts, Zenon
<1>4. Of(A, Q, n) = b
  <2>1. Of(A, Q, Inner(n)) = i
    <3>1. Of(A, P, Inner(n)) = IF A[n[1]] = 0 THEN 0 ELSE P[A[n[1]]][n[2]]
      BY <1>1, OfFacts, Zenon
    <3>2. Of(A, Q, Inner(n)) = IF A[n[1]] = 0 THEN 0 ELSE Q[A[n[1]]][n[2]]
      BY <1>1, OfFacts, Zenon
    <3> QED
      BY <1>3, <3>1, <3>2, Zenon
  <2>2. Of(A, Q, n) = IF Of(A, Q, Inner(n)) = 0 THEN 0 ELSE Q[Of(A, Q, Inner(n))][n[3]]
    BY OfFacts, Zenon
  <2> QED
    BY <1>2, <2>1, <2>2, Zenon
<1>5. ASSUME NEW m \in Place, m # n
      PROVE  Of(A, Q, m) = Of(A, P, m)
  <2>1. Of(A, P, Inner(m)) \in Addr /\ Of(A, P, Inner(m)) # b
    BY OfFacts, WayNamed
  <2>2. ASSUME m[3] # Self, Of(A, P, Inner(m)) # 0
        PROVE  Q[Of(A, P, Inner(m))][m[3]] = P[Of(A, P, Inner(m))][m[3]]
    <3>1. CASE Of(A, P, Inner(m)) = i
      <4>1. m[1] = n[1] /\ m[2] = n[2]
        BY <2>2, <3>1, InnerApart
      <4>2. m[3] # n[3] /\ m[3] \in Index
        BY <1>5, <2>2, <4>1, PlaceEq, PlaceFacts, Zenon
      <4> QED
        BY <1>2, <3>1, <4>2, Zenon
    <3>2. CASE Of(A, P, Inner(m)) # i
      BY <1>2, <2>1, <2>2, <3>2, AddrFacts, Zenon
    <3> QED
      BY <3>1, <3>2, Zenon
  <2> QED
    BY <1>3, <2>2, SameAt, ZenonT(30)
<1> QED
  BY <1>4, <1>5, Zenon

-----------------------------------------------------------------------------
(* The inductive invariant. *)

Ops == [pc : {"idle", "write", "trunc"}, off : Nat, left : Nat, todo : SUBSET Place]

\* A write never runs past the largest file.  itrunc has still to come to all
\* places after the one it has come to, so to the indirect blocks on the way.
OpInv(o) ==
  /\ o.pc = "write" => o.left >= 1 /\ o.off + o.left <= MAXFILE
  /\ o.pc = "trunc" => \A n \in o.todo, m \in Place : Before(n, m) => m \in o.todo

TypeInv ==
  /\ used \in SUBSET Block
  /\ ptr \in Ptrs
  /\ val \in [Block -> (Inode \X Nat) \cup {Zero}]
  /\ addrs \in [Inode -> Addrs]
  /\ size \in [Inode -> 0 .. MAXFILE]
  /\ op \in [Inode -> Ops]
  /\ truncs \in 0 .. MaxTruncs
  /\ \A ip \in Inode : OpInv(op[ip])

\* The places that count of a file with operation o.
Reached(o) == IF o.pc = "trunc" THEN o.todo ELSE Place

\* What is at these places is in use, what is in use is at one of them, and at
\* no other.
InUse(u, A, P, O) ==
  \A ip \in Inode : \A n \in Reached(O[ip]) : Of(A[ip], P, n) # 0 => Of(A[ip], P, n) \in u
Somewhere(u, A, P, O) ==
  \A b \in u : \E ip \in Inode : \E n \in Reached(O[ip]) : Of(A[ip], P, n) = b
NowhereElse(A, P, O) ==
  \A ip, jp \in Inode : \A m \in Reached(O[ip]), n \in Reached(O[jp]) :
    Of(A[ip], P, m) # 0 /\ Of(A[ip], P, m) = Of(A[jp], P, n) => ip = jp /\ m = n
Owned(u, A, P, O) == InUse(u, A, P, O) /\ Somewhere(u, A, P, O) /\ NowhereElse(A, P, O)

\* The blocks of a file, as far as its size says or a write has got, are there
\* and hold what was copied in.
Written(s, o) == {bn \in Nat : bn < s \/ (o.pc = "write" /\ bn < o.off)}
Filled(A, P, V, S, O) ==
  \A ip \in Inode : O[ip].pc # "trunc" =>
    \A bn \in Written(S[ip], O[ip]) :
      Of(A[ip], P, Path(bn)) # 0 /\ V[Of(A[ip], P, Path(bn))] = <<ip, bn>>

IInv ==
  /\ TypeInv
  /\ Owned(used, addrs, ptr, op)
  /\ Filled(addrs, ptr, val, size, op)

-----------------------------------------------------------------------------
(* Who owns what, after a step. *)

\* The places that count are places, and those of the indirect blocks on the way
\* count too.
LEMMA ReachedFacts ==
  ASSUME NEW o \in Ops, OpInv(o)
  PROVE  /\ Reached(o) \in SUBSET Place
         /\ \A n \in Reached(o) : Outer(n) \in Reached(o) /\ Inner(n) \in Reached(o)
         /\ o.pc # "trunc" => Reached(o) = Place
<1>1. CASE o.pc = "trunc"
  <2>1. Reached(o) = o.todo /\ o.todo \in SUBSET Place
    BY <1>1, Zenon DEF Reached, Ops
  <2>2. ASSUME NEW n \in o.todo
        PROVE  Outer(n) \in o.todo /\ Inner(n) \in o.todo
    <3>1. n \in Place
      BY <2>1, Zenon
    <3>2. \A m \in Place : Before(n, m) => m \in o.todo
      BY <1>1, <3>1, Zenon DEF OpInv
    <3>3. Outer(n) \in Place /\ Inner(n) \in Place
      BY <3>1, WayFacts, Zenon
    <3>4. (Outer(n) = n \/ Before(n, Outer(n))) /\ (Inner(n) = n \/ Before(n, Inner(n)))
      BY <3>1, WayLater, Zenon
    <3> QED
      BY <3>2, <3>3, <3>4, Zenon
  <2> QED
    BY <1>1, <2>1, <2>2, Zenon
<1>2. CASE o.pc # "trunc"
  <2>1. Reached(o) = Place
    BY <1>2, Zenon DEF Reached
  <2> QED
    BY <2>1, WayFacts, Zenon
<1> QED
  BY <1>1, <1>2, Zenon

\* Only the places that count, and what is there, matter.
LEMMA OwnedSame ==
  ASSUME NEW u, NEW A, NEW P, NEW O, Owned(u, A, P, O), NEW B, NEW Q, NEW R,
         \A ip \in Inode : Reached(R[ip]) = Reached(O[ip]),
         \A ip \in Inode : \A n \in Reached(O[ip]) : Of(B[ip], Q, n) = Of(A[ip], P, n)
  PROVE  Owned(u, B, Q, R)
<1>1. InUse(u, A, P, O) /\ Somewhere(u, A, P, O) /\ NowhereElse(A, P, O)
  BY Zenon DEF Owned
<1>2. InUse(u, B, Q, R)
  BY <1>1, Zenon DEF InUse
<1>3. Somewhere(u, B, Q, R)
  BY <1>1 DEF Somewhere
<1>4. NowhereElse(B, Q, R)
  <2>1. ASSUME NEW ip \in Inode, NEW jp \in Inode, NEW m \in Reached(R[ip]), NEW k \in Reached(R[jp]),
               Of(B[ip], Q, m) # 0, Of(B[ip], Q, m) = Of(B[jp], Q, k)
        PROVE  ip = jp /\ m = k
    <3>1. m \in Reached(O[ip]) /\ k \in Reached(O[jp])
      BY Zenon
    <3>2. Of(A[ip], P, m) # 0 /\ Of(A[ip], P, m) = Of(A[jp], P, k)
      BY <2>1, <3>1, Zenon
    <3> QED
      BY <1>1, <3>1, <3>2 DEF NowhereElse
  <2> QED
    BY <2>1 DEF NowhereElse
<1> QED
  BY <1>2, <1>3, <1>4, Zenon DEF Owned

\* A free block comes to a place of file i.
LEMMA OwnedMore ==
  ASSUME Owned(used, addrs, ptr, op),
         NEW i \in Inode, NEW n \in Reached(op[i]), Of(addrs[i], ptr, n) = 0,
         NEW b, b # 0, b \notin used, 0 \notin used,
         \A m \in Reached(op[i]) : Of(addrs'[i], ptr', m) = IF m = n THEN b ELSE Of(addrs[i], ptr, m),
         \A ip \in Inode : ip # i => \A m \in Reached(op[ip]) : Of(addrs'[ip], ptr', m) = Of(addrs[ip], ptr, m)
  PROVE  Owned(used \cup {b}, addrs', ptr', op)
<1>1. InUse(used, addrs, ptr, op) /\ Somewhere(used, addrs, ptr, op) /\ NowhereElse(addrs, ptr, op)
  BY Zenon DEF Owned
<1>2. ASSUME NEW ip \in Inode, NEW m \in Reached(op[ip])
      PROVE  Of(addrs'[ip], ptr', m) = IF ip = i /\ m = n THEN b ELSE Of(addrs[ip], ptr, m)
  BY <1>2, Zenon
<1>3. ASSUME NEW ip \in Inode, NEW m \in Reached(op[ip]), Of(addrs'[ip], ptr', m) # 0
      PROVE  Of(addrs'[ip], ptr', m) \in used \cup {b}
  BY <1>1, <1>2, <1>3, Zenon DEF InUse
<1>4. ASSUME NEW c \in used \cup {b}
      PROVE  \E ip \in Inode : \E m \in Reached(op[ip]) : Of(addrs'[ip], ptr', m) = c
  <2>1. CASE c = b
    BY <2>1, Zenon
  <2>2. CASE c \in used
    <3>1. PICK ip \in Inode : \E m \in Reached(op[ip]) : Of(addrs[ip], ptr, m) = c
      BY <1>1, <2>2, Zenon DEF Somewhere
    <3>2. PICK m \in Reached(op[ip]) : Of(addrs[ip], ptr, m) = c
      BY <3>1, Zenon
    <3>3. c # 0
      BY <2>2, Zenon
    <3> QED
      BY <1>2, <3>2, <3>3, Zenon
  <2> QED
    BY <2>1, <2>2, Zenon
<1>5. ASSUME NEW ip \in Inode, NEW m \in Reached(op[ip]), Of(addrs[ip], ptr, m) = b
      PROVE  FALSE
  BY <1>1, <1>5, Zenon DEF InUse
<1>6. ASSUME NEW ip \in Inode, NEW jp \in Inode, NEW m \in Reached(op[ip]), NEW k \in Reached(op[jp]),
             Of(addrs'[ip], ptr', m) # 0, Of(addrs'[ip], ptr', m) = Of(addrs'[jp], ptr', k)
      PROVE  ip = jp /\ m = k
  <2>1. Of(addrs'[ip], ptr', m) = IF ip = i /\ m = n THEN b ELSE Of(addrs[ip], ptr, m)
    BY <1>2, Zenon
  <2>2. Of(addrs'[jp], ptr', k) = IF jp = i /\ k = n THEN b ELSE Of(addrs[jp], ptr, k)
    BY <1>2, Zenon
  <2>3. CASE ip = i /\ m = n
    BY <1>5, <1>6, <2>1, <2>2, <2>3, Zenon
  <2>4. CASE ~(ip = i /\ m = n)
    <3>1. Of(addrs[ip], ptr, m) # 0 /\ Of(addrs[ip], ptr, m) = Of(addrs[jp], ptr, k)
      BY <1>5, <1>6, <2>1, <2>2, <2>4, Zenon
    <3> QED
      BY <1>1, <3>1, Zenon DEF NowhereElse
  <2> QED
    BY <2>3, <2>4, Zenon
<1>7. InUse(used \cup {b}, addrs', ptr', op)
  BY <1>3, Zenon DEF InUse
<1>8. Somewhere(used \cup {b}, addrs', ptr', op)
  BY <1>4, Zenon DEF Somewhere
<1>9. NowhereElse(addrs', ptr', op)
  BY <1>6 DEF NowhereElse
<1> QED
  BY <1>7, <1>8, <1>9, Zenon DEF Owned

\* bfree of the block at place n of file i, which goes on to the places T.
LEMMA OwnedLess ==
  ASSUME Owned(used, addrs, ptr, op),
         NEW i \in Inode, NEW n \in Reached(op[i]), NEW b, b # 0, b = Of(addrs[i], ptr, n),
         Reached(op'[i]) \subseteq Reached(op[i]), n \notin Reached(op'[i]),
         \A m \in Reached(op[i]) : m = n \/ m \in Reached(op'[i]) \/ Of(addrs[i], ptr, m) = 0,
         0 \notin used,
         \A ip \in Inode : ip # i => Reached(op'[ip]) = Reached(op[ip]),
         \A ip \in Inode : \A m \in Reached(op'[ip]) : Of(addrs[ip], ptr', m) = Of(addrs[ip], ptr, m)
  PROVE  Owned(used \ {b}, addrs, ptr', op')
<1>1. InUse(used, addrs, ptr, op) /\ Somewhere(used, addrs, ptr, op) /\ NowhereElse(addrs, ptr, op)
  BY Zenon DEF Owned
<1>2. ASSUME NEW ip \in Inode, NEW m \in Reached(op'[ip])
      PROVE  m \in Reached(op[ip]) /\ Of(addrs[ip], ptr', m) = Of(addrs[ip], ptr, m) /\ ~(ip = i /\ m = n)
  BY <1>2, Zenon
<1>3. ASSUME NEW ip \in Inode, NEW m \in Reached(op'[ip]), Of(addrs[ip], ptr', m) # 0
      PROVE  Of(addrs[ip], ptr', m) \in used \ {b}
  <2>1. Of(addrs[ip], ptr, m) \in used
    BY <1>1, <1>2, <1>3, Zenon DEF InUse
  <2>2. Of(addrs[ip], ptr, m) # b
    BY <1>1, <1>2, Zenon DEF NowhereElse
  <2> QED
    BY <1>2, <2>1, <2>2, Zenon
<1>4. ASSUME NEW c \in used \ {b}
      PROVE  \E ip \in Inode : \E m \in Reached(op'[ip]) : Of(addrs[ip], ptr', m) = c
  <2>1. c \in used /\ c # b /\ c # 0
    BY <1>4, Zenon
  <2>2. PICK ip \in Inode : \E m \in Reached(op[ip]) : Of(addrs[ip], ptr, m) = c
    BY <1>1, <2>1, Zenon DEF Somewhere
  <2>3. PICK m \in Reached(op[ip]) : Of(addrs[ip], ptr, m) = c
    BY <2>2, Zenon
  <2>4. m \in Reached(op'[ip])
    BY <2>1, <2>3, Zenon
  <2> QED
    BY <1>2, <2>3, <2>4, Zenon
<1>5. ASSUME NEW ip \in Inode, NEW jp \in Inode, NEW m \in Reached(op'[ip]), NEW k \in Reached(op'[jp]),
             Of(addrs[ip], ptr', m) # 0, Of(addrs[ip], ptr', m) = Of(addrs[jp], ptr', k)
      PROVE  ip = jp /\ m = k
  <2>1. /\ m \in Reached(op[ip]) /\ k \in Reached(op[jp])
        /\ Of(addrs[ip], ptr, m) # 0 /\ Of(addrs[ip], ptr, m) = Of(addrs[jp], ptr, k)
    BY <1>2, <1>5, Zenon
  <2> QED
    BY <1>1, <2>1 DEF NowhereElse
<1>6. InUse(used \ {b}, addrs, ptr', op')
  BY <1>3, Zenon DEF InUse
<1>7. Somewhere(used \ {b}, addrs, ptr', op')
  BY <1>4, Zenon DEF Somewhere
<1>8. NowhereElse(addrs, ptr', op')
  BY <1>5 DEF NowhereElse
<1> QED
  BY <1>6, <1>7, <1>8, Zenon DEF Owned

\* The end of itrunc: nothing is left in file i.
LEMMA OwnedNone ==
  ASSUME NEW u, NEW A, NEW P, NEW O, Owned(u, A, P, O), NEW B, NEW R,
         NEW i \in Inode, 0 \notin u,
         \A m \in Reached(O[i]) : Of(A[i], P, m) = 0,
         \A m \in Reached(R[i]) : Of(B[i], P, m) = 0,
         \A ip \in Inode : ip # i => Reached(R[ip]) = Reached(O[ip]),
         \A ip \in Inode : ip # i => B[ip] = A[ip]
  PROVE  Owned(u, B, P, R)
<1>1. InUse(u, A, P, O) /\ Somewhere(u, A, P, O) /\ NowhereElse(A, P, O)
  BY Zenon DEF Owned
<1>2. ASSUME NEW ip \in Inode, NEW m \in Reached(R[ip]), Of(B[ip], P, m) # 0
      PROVE  ip # i /\ m \in Reached(O[ip]) /\ Of(B[ip], P, m) = Of(A[ip], P, m)
  BY <1>2, Zenon
<1>3. ASSUME NEW ip \in Inode, NEW m \in Reached(R[ip]), Of(B[ip], P, m) # 0
      PROVE  Of(B[ip], P, m) \in u
  <2>1. m \in Reached(O[ip]) /\ Of(B[ip], P, m) = Of(A[ip], P, m)
    BY <1>2, <1>3, Zenon
  <2> QED
    BY <1>1, <1>3, <2>1, Zenon DEF InUse
<1>4. ASSUME NEW c \in u
      PROVE  \E ip \in Inode : \E m \in Reached(R[ip]) : Of(B[ip], P, m) = c
  <2>1. PICK ip \in Inode : \E m \in Reached(O[ip]) : Of(A[ip], P, m) = c
    BY <1>1, Zenon DEF Somewhere
  <2>2. PICK m \in Reached(O[ip]) : Of(A[ip], P, m) = c
    BY <2>1, Zenon
  <2>3. ip # i
    BY <2>2, Zenon
  <2> QED
    BY <2>2, <2>3, Zenon
<1>5. ASSUME NEW ip \in Inode, NEW jp \in Inode, NEW m \in Reached(R[ip]), NEW k \in Reached(R[jp]),
             Of(B[ip], P, m) # 0, Of(B[ip], P, m) = Of(B[jp], P, k)
      PROVE  ip = jp /\ m = k
  <2>1. m \in Reached(O[ip]) /\ Of(B[ip], P, m) = Of(A[ip], P, m)
    BY <1>2, <1>5, Zenon
  <2>2. k \in Reached(O[jp]) /\ Of(B[jp], P, k) = Of(A[jp], P, k)
    BY <1>2, <1>5, Zenon
  <2>3. Of(A[ip], P, m) # 0 /\ Of(A[ip], P, m) = Of(A[jp], P, k)
    BY <1>5, <2>1, <2>2, Zenon
  <2> QED
    BY <1>1, <2>1, <2>2, <2>3, Zenon DEF NowhereElse
<1>6. InUse(u, B, P, R)
  BY <1>3, Zenon DEF InUse
<1>7. Somewhere(u, B, P, R)
  BY <1>4, Zenon DEF Somewhere
<1>8. NowhereElse(B, P, R)
  BY <1>5 DEF NowhereElse
<1> QED
  BY <1>6, <1>7, <1>8, Zenon DEF Owned

-----------------------------------------------------------------------------
(* Operations. *)

\* The operation of file i goes on.
LEMMA GotoFacts ==
  ASSUME NEW O \in [Inode -> Ops], \A ip \in Inode : OpInv(O[ip]),
         NEW i \in Inode, NEW o \in Ops, OpInv(o), NEW R, R = [O EXCEPT ![i] = o]
  PROVE  /\ R \in [Inode -> Ops] /\ R[i] = o
         /\ \A ip \in Inode : ip # i => R[ip] = O[ip]
         /\ \A ip \in Inode : OpInv(R[ip])
<1>1. R \in [Inode -> Ops] /\ R[i] = o /\ \A ip \in Inode : ip # i => R[ip] = O[ip]
  BY Zenon
<1>2. \A ip \in Inode : OpInv(R[ip])
  BY <1>1, Zenon
<1> QED
  BY <1>1, <1>2, Zenon

\* No operation.
LEMMA IdleFacts ==
  /\ Idle \in Ops /\ OpInv(Idle) /\ Reached(Idle) = Place /\ Idle.pc = "idle"
  /\ Idle.off = 0 /\ Idle.left = 0 /\ Idle.todo = {}
<1>1. /\ Idle \in Ops /\ Idle.pc = "idle"
      /\ Idle.off = 0 /\ Idle.left = 0 /\ Idle.todo = {}
  BY Zenon DEF Idle, Ops
<1> QED
  BY <1>1, Zenon DEF OpInv, Reached

\* The parts of an operation.
LEMMA OpsFacts ==
  ASSUME NEW o \in Ops, OpInv(o)
  PROVE  /\ o.pc \in {"idle", "write", "trunc"} /\ o.off \in Nat /\ o.left \in Nat /\ o.todo \in SUBSET Place
         /\ o.pc = "write" => o.left >= 1 /\ o.off + o.left <= MAXFILE
         /\ o.pc # "trunc" => Reached(o) = Place
         /\ o.pc = "trunc" => Reached(o) = o.todo
BY Zenon DEF Ops, OpInv, Reached

\* How writei goes on after a block.
LEMMA WriteOn ==
  ASSUME NEW o \in Ops, o.left >= 1, NEW q, q = [o EXCEPT !.off = @ + 1, !.left = @ - 1]
  PROVE  q \in Ops /\ q.pc = o.pc /\ q.off = o.off + 1 /\ q.left = o.left - 1
<1>1. PICK x \in Nat, y \in Nat : x = o.off + 1 /\ y = o.left - 1
  BY DEF Ops
<1>2. q = [o EXCEPT !.off = x, !.left = y]
  BY <1>1, Zenon DEF Ops
<1>3. q \in Ops /\ q.pc = o.pc /\ q.off = x /\ q.left = y
  BY <1>2, Zenon DEF Ops
<1> QED
  BY <1>1, <1>3, Zenon

\* How itrunc starts.
LEMMA TruncOp ==
  ASSUME NEW o, o = [Idle EXCEPT !.pc = "trunc", !.todo = Place]
  PROVE  o \in Ops /\ o.pc = "trunc" /\ o.todo = Place
BY Zenon DEF Idle, Ops

\* How itrunc goes on after a block.
LEMMA TruncOn ==
  ASSUME NEW o \in Ops, NEW T \in SUBSET Place, NEW q, q = [o EXCEPT !.todo = T]
  PROVE  q \in Ops /\ q.pc = o.pc /\ q.todo = T
BY Zenon DEF Ops

\* What was written is below MAXFILE, and so at a place of the file.
LEMMA WrittenFacts ==
  ASSUME NEW s \in 0 .. MAXFILE, NEW o \in Ops, OpInv(o), NEW bn \in Written(s, o)
  PROVE  bn \in Nat /\ bn < MAXFILE /\ Path(bn) \in Place
<1>1. bn \in Nat /\ bn < MAXFILE
  BY OpsFacts, PathFacts DEF Written
<1> QED
  BY <1>1, PathFacts, Zenon

\* The blocks written stay where they are, and hold what they held.
LEMMA FilledKept ==
  ASSUME NEW A, NEW P, NEW V, NEW S, NEW O, Filled(A, P, V, S, O),
         NEW B, NEW Q, NEW W, NEW T, NEW R,
         \A ip \in Inode : R[ip].pc # "trunc" =>
           O[ip].pc # "trunc" /\ Written(T[ip], R[ip]) \subseteq Written(S[ip], O[ip]),
         \A ip \in Inode : R[ip].pc # "trunc" => \A bn \in Written(T[ip], R[ip]) :
           /\ Of(B[ip], Q, Path(bn)) = Of(A[ip], P, Path(bn))
           /\ W[Of(A[ip], P, Path(bn))] = V[Of(A[ip], P, Path(bn))]
  PROVE  Filled(B, Q, W, T, R)
<1>1. ASSUME NEW ip \in Inode, R[ip].pc # "trunc", NEW bn \in Written(T[ip], R[ip])
      PROVE  Of(B[ip], Q, Path(bn)) # 0 /\ W[Of(B[ip], Q, Path(bn))] = <<ip, bn>>
  <2>1. O[ip].pc # "trunc" /\ bn \in Written(S[ip], O[ip])
    BY <1>1, Zenon
  <2>2. Of(A[ip], P, Path(bn)) # 0 /\ V[Of(A[ip], P, Path(bn))] = <<ip, bn>>
    BY <2>1, Zenon DEF Filled
  <2>3. /\ Of(B[ip], Q, Path(bn)) = Of(A[ip], P, Path(bn))
        /\ W[Of(A[ip], P, Path(bn))] = V[Of(A[ip], P, Path(bn))]
    BY <1>1, Zenon
  <2> QED
    BY <2>2, <2>3, Zenon
<1> QED
  BY <1>1, Zenon DEF Filled

\* A file without addresses has no block.
LEMMA NoAddrsFacts ==
  NoAddrs \in Addrs /\ \A P : \A n \in Place : Of(NoAddrs, P, n) = 0
<1>1. NoAddrs \in Addrs /\ \A a \in 0 .. (NDIRECT + 1) : NoAddrs[a] = 0
  BY ConstFacts, Zenon DEF NoAddrs, Addrs
<1>2. \A n \in Place : NoAddrs[n[1]] = 0
  BY <1>1, PlaceFacts, Zenon
<1> QED
  BY <1>1, <1>2, Zenon DEF Of

\* At the start no file has a block.
LEMMA InitInv ==
  Init => IInv
<1> SUFFICES ASSUME Init PROVE IInv
  BY Zenon
<1>1. Junk \in [Index -> Addr] \/ Block = {}
  BY ConstFacts DEF Junk, Block, Addr
<1>2. NoAddrs \in Addrs
  BY NoAddrsFacts, Zenon
<1>3. 0 \in 0 .. MAXFILE /\ 0 \in 0 .. MaxTruncs
  BY PathFacts, BlocksAssumption
<1>4. ptr \in Ptrs
  BY <1>1, Zenon DEF Init, Ptrs
<1>5. val \in [Block -> (Inode \X Nat) \cup {Zero}]
  BY Zenon DEF Init
<1>6. addrs \in [Inode -> Addrs] /\ \A ip \in Inode : addrs[ip] = NoAddrs
  BY <1>2, Zenon DEF Init
<1>7. op \in [Inode -> Ops] /\ \A ip \in Inode : op[ip] = Idle
  BY IdleFacts, Zenon DEF Init
<1>8. size \in [Inode -> 0 .. MAXFILE] /\ \A ip \in Inode : size[ip] = 0
  BY <1>3, Zenon DEF Init
<1>9. TypeInv
  <2>1. used \in SUBSET Block /\ truncs \in 0 .. MaxTruncs
    BY <1>3, Zenon DEF Init
  <2>2. \A ip \in Inode : OpInv(op[ip])
    BY <1>7, IdleFacts, Zenon
  <2> QED
    BY <1>4, <1>5, <1>6, <1>7, <1>8, <2>1, <2>2, Zenon DEF TypeInv
<1>10. ASSUME NEW ip \in Inode, NEW n \in Reached(op[ip])
       PROVE  Of(addrs[ip], ptr, n) = 0
  <2>1. n \in Place
    BY <1>7, IdleFacts, Zenon
  <2> QED
    BY <1>6, <2>1, NoAddrsFacts, Zenon
<1>11. Owned(used, addrs, ptr, op)
  <2>1. used = {}
    BY Zenon DEF Init
  <2> QED
    BY <1>10, <2>1, Zenon DEF Owned, InUse, Somewhere, NowhereElse
<1>12. Filled(addrs, ptr, val, size, op)
  <2>1. ASSUME NEW ip \in Inode
        PROVE  Written(size[ip], op[ip]) = {}
    BY <1>7, <1>8, IdleFacts DEF Written
  <2> QED
    BY <2>1, Zenon DEF Filled
<1> QED
  BY <1>9, <1>11, <1>12, Zenon DEF IInv

\* Only the operation of file i changes, and the places that count do not.
LEMMA OwnedStays ==
  ASSUME IInv, NEW i \in Inode, NEW o, Reached(o) = Reached(op[i]),
         op'[i] = o, \A ip \in Inode : ip # i => op'[ip] = op[ip],
         UNCHANGED <<used, ptr, addrs>>
  PROVE  Owned(used, addrs, ptr, op)'
<1>1. Owned(used, addrs, ptr, op)
  BY Zenon DEF IInv
<1>2. \A ip \in Inode : Reached(op'[ip]) = Reached(op[ip])
  BY Zenon
<1>3. Owned(used, addrs, ptr, op')
  BY <1>1, <1>2, OwnedSame, Zenon
<1> QED
  BY <1>3, Zenon

\* writei starts.
LEMMA writei_keeps ==
  ASSUME IInv, NEW i \in Inode, NEW off \in 0 .. MAXFILE, NEW n \in 1 .. MaxWrite, writei(i, off, n)
  PROVE  IInv'
<1>1. PICK o : o = [Idle EXCEPT !.pc = "write", !.off = off, !.left = n]
  BY Zenon
<1>2. /\ op[i].pc = "idle" /\ off <= size[i] /\ off + n <= MAXFILE
      /\ op' = [op EXCEPT ![i] = o] /\ UNCHANGED <<used, ptr, val, addrs, size, truncs>>
  BY <1>1, Zenon DEF writei, Goto
<1>3. TypeInv
  BY Zenon DEF IInv
<1>4. /\ op \in [Inode -> Ops] /\ op[i] \in Ops /\ size[i] \in 0 .. MAXFILE
      /\ \A ip \in Inode : OpInv(op[ip])
  BY <1>3, Zenon DEF TypeInv
<1>5. off \in Nat /\ n \in Nat /\ n >= 1 /\ size[i] \in Nat
  BY <1>4, PathFacts, BlocksAssumption
<1>6. off \in Nat /\ n \in Nat
  BY <1>5, Zenon
<1>7. o \in Ops /\ o.pc = "write" /\ o.off = off /\ o.left = n
  BY <1>1, <1>6, Zenon DEF Idle, Ops
<1>8. OpInv(o)
  BY <1>2, <1>5, <1>7, Zenon DEF OpInv
<1>9. /\ op' \in [Inode -> Ops] /\ op'[i] = o
      /\ \A ip \in Inode : ip # i => op'[ip] = op[ip]
      /\ \A ip \in Inode : OpInv(op'[ip])
  BY <1>2, <1>4, <1>7, <1>8, GotoFacts, ZenonT(30)
<1>10. TypeInv'
  BY <1>2, <1>3, <1>9, Zenon DEF TypeInv
<1>11. Reached(o) = Reached(op[i])
  BY <1>2, <1>7, Zenon DEF Reached
<1>12. Owned(used, addrs, ptr, op)'
  BY <1>2, <1>9, <1>11, OwnedStays, Zenon
<1>13. Written(size[i], o) = Written(size[i], op[i])
  BY <1>2, <1>5, <1>7 DEF Written
<1>14. \A ip \in Inode : op'[ip].pc # "trunc" =>
         op[ip].pc # "trunc" /\ Written(size[ip], op'[ip]) \subseteq Written(size[ip], op[ip])
  BY <1>2, <1>9, <1>13, Zenon
<1>15. Filled(addrs, ptr, val, size, op)
  BY Zenon DEF IInv
<1>16. Filled(addrs, ptr, val, size, op')
  BY <1>14, <1>15, FilledKept, Zenon
<1>17. Filled(addrs, ptr, val, size, op)'
  BY <1>2, <1>16, Zenon
<1> QED
  BY <1>10, <1>12, <1>17, Zenon DEF IInv

\* itrunc starts.
LEMMA itrunc_keeps ==
  ASSUME IInv, NEW i \in Inode, itrunc(i)
  PROVE  IInv'
<1>1. PICK o : o = [Idle EXCEPT !.pc = "trunc", !.todo = Place]
  BY Zenon
<1>2. /\ op[i].pc = "idle" /\ op' = [op EXCEPT ![i] = o] /\ UNCHANGED <<used, ptr, val, addrs, size>>
      /\ truncs < MaxTruncs /\ truncs' = truncs + 1
  BY <1>1, Zenon DEF itrunc, Goto, Loops
<1>3. TypeInv
  BY Zenon DEF IInv
<1>4. op \in [Inode -> Ops] /\ \A ip \in Inode : OpInv(op[ip])
  BY <1>3, Zenon DEF TypeInv
<1>5. truncs' \in 0 .. MaxTruncs
  BY <1>2, <1>3, BlocksAssumption DEF TypeInv
<1>6. o \in Ops /\ o.pc = "trunc" /\ o.todo = Place
  BY <1>1, TruncOp, Zenon
<1>7. OpInv(o)
  BY <1>6, Zenon DEF OpInv
<1>8. /\ op' \in [Inode -> Ops] /\ op'[i] = o
      /\ \A ip \in Inode : ip # i => op'[ip] = op[ip]
      /\ \A ip \in Inode : OpInv(op'[ip])
  BY <1>2, <1>4, <1>6, <1>7, GotoFacts, ZenonT(30)
<1>9. TypeInv'
  BY <1>2, <1>3, <1>5, <1>8, Zenon DEF TypeInv
<1>10. Reached(o) = Reached(op[i])
  BY <1>2, <1>6, Zenon DEF Reached
<1>11. Owned(used, addrs, ptr, op)'
  BY <1>2, <1>8, <1>10, OwnedStays, Zenon
<1>12. \A ip \in Inode : op'[ip].pc # "trunc" =>
         op[ip].pc # "trunc" /\ Written(size[ip], op'[ip]) \subseteq Written(size[ip], op[ip])
  BY <1>6, <1>8, Zenon
<1>13. Filled(addrs, ptr, val, size, op)
  BY Zenon DEF IInv
<1>14. Filled(addrs, ptr, val, size, op')
  BY <1>12, <1>13, FilledKept, Zenon
<1>15. Filled(addrs, ptr, val, size, op)'
  BY <1>2, <1>14, Zenon
<1> QED
  BY <1>9, <1>11, <1>15, Zenon DEF IInv

\* The size after a write got to block off.
LEMMA WriteEndFacts ==
  ASSUME TypeInv, NEW i \in Inode, NEW off \in 0 .. MAXFILE, WriteEnd(i, off)
  PROVE  /\ size' \in [Inode -> 0 .. MAXFILE]
         /\ \A bn \in Nat : bn < size'[i] <=> bn < size[i] \/ bn < off
         /\ \A ip \in Inode : ip # i => size'[ip] = size[ip]
         /\ op' \in [Inode -> Ops] /\ op'[i] = Idle
         /\ \A ip \in Inode : ip # i => op'[ip] = op[ip]
         /\ \A ip \in Inode : OpInv(op'[ip])
<1>1. size' = [size EXCEPT ![i] = IF off > size[i] THEN off ELSE size[i]] /\ op' = [op EXCEPT ![i] = Idle]
  BY Zenon DEF WriteEnd, Goto
<1>2. size \in [Inode -> 0 .. MAXFILE] /\ op \in [Inode -> Ops] /\ \A ip \in Inode : OpInv(op[ip])
  BY Zenon DEF TypeInv
<1>3. /\ op' \in [Inode -> Ops] /\ op'[i] = Idle
      /\ \A ip \in Inode : ip # i => op'[ip] = op[ip]
      /\ \A ip \in Inode : OpInv(op'[ip])
  BY <1>1, <1>2, IdleFacts, GotoFacts, Zenon
<1>4. /\ size' \in [Inode -> 0 .. MAXFILE]
      /\ size'[i] = IF off > size[i] THEN off ELSE size[i]
      /\ \A ip \in Inode : ip # i => size'[ip] = size[ip]
  BY <1>1, <1>2, Zenon
<1>5. \A bn \in Nat : bn < size'[i] <=> bn < size[i] \/ bn < off
  <2>1. size[i] \in Nat /\ off \in Nat
    BY <1>2, PathFacts
  <2> QED
    BY <1>4, <2>1
<1> QED
  BY <1>3, <1>4, <1>5, Zenon

\* A write that ends before it copied block off leaves what it had copied.
LEMMA write_stops ==
  ASSUME IInv, NEW i \in Inode, op[i].pc = "write", WriteEnd(i, op[i].off),
         UNCHANGED <<used, ptr, val, addrs, truncs>>
  PROVE  IInv'
<1>1. TypeInv
  BY Zenon DEF IInv
<1>2. op[i] \in Ops /\ OpInv(op[i]) /\ size[i] \in 0 .. MAXFILE
  BY <1>1, Zenon DEF TypeInv
<1>3. op[i].off \in Nat /\ op[i].off \in 0 .. MAXFILE
  BY <1>2, OpsFacts, PathFacts
<1>4. /\ size' \in [Inode -> 0 .. MAXFILE]
      /\ \A bn \in Nat : bn < size'[i] <=> bn < size[i] \/ bn < op[i].off
      /\ \A ip \in Inode : ip # i => size'[ip] = size[ip]
      /\ op' \in [Inode -> Ops] /\ op'[i] = Idle
      /\ \A ip \in Inode : ip # i => op'[ip] = op[ip]
      /\ \A ip \in Inode : OpInv(op'[ip])
  BY <1>1, <1>3, WriteEndFacts, Zenon
<1>5. TypeInv'
  BY <1>1, <1>4, Zenon DEF TypeInv
<1>6. Reached(Idle) = Reached(op[i])
  BY IdleFacts, Zenon DEF Reached
<1>7. Owned(used, addrs, ptr, op)'
  BY <1>4, <1>6, OwnedStays, Zenon
<1>8. Written(size'[i], Idle) \subseteq Written(size[i], op[i])
  BY <1>4, IdleFacts, Zenon DEF Written
<1>9. \A ip \in Inode : op'[ip].pc # "trunc" =>
         op[ip].pc # "trunc" /\ Written(size'[ip], op'[ip]) \subseteq Written(size[ip], op[ip])
  BY <1>4, <1>8, Zenon
<1>10. Filled(addrs, ptr, val, size, op)
  BY Zenon DEF IInv
<1>11. Filled(addrs, ptr, val, size', op')
  BY <1>9, <1>10, FilledKept, Zenon
<1>12. Filled(addrs, ptr, val, size, op)'
  BY <1>11, Zenon
<1> QED
  BY <1>5, <1>7, <1>12, Zenon DEF IInv

\* Block b of file i, at the place of block number off, is copied into: this
\* block number is written now, and no other block of any file was touched.
LEMMA FilledCopied ==
  ASSUME IInv, NEW i \in Inode, NEW off \in Nat, off < MAXFILE, op[i].pc # "trunc",
         NEW b, b = Of(addrs[i], ptr, Path(off)), b # 0,
         val' = [val EXCEPT ![b] = <<i, off>>], UNCHANGED <<ptr, addrs>>,
         Written(size'[i], op'[i]) \subseteq Written(size[i], op[i]) \cup {off},
         \A ip \in Inode : ip # i => size'[ip] = size[ip] /\ op'[ip] = op[ip]
  PROVE  Filled(addrs, ptr, val, size, op)'
<1>1. /\ ptr \in Ptrs /\ addrs \in [Inode -> Addrs] /\ op \in [Inode -> Ops] /\ size \in [Inode -> 0 .. MAXFILE]
      /\ \A ip \in Inode : OpInv(op[ip])
      /\ val \in [Block -> (Inode \X Nat) \cup {Zero}]
  BY Zenon DEF IInv, TypeInv
<1>2. NowhereElse(addrs, ptr, op) /\ Filled(addrs, ptr, val, size, op)
  BY Zenon DEF IInv, Owned
<1>3. Path(off) \in Place
  BY PathFacts, Zenon
<1>4. addrs[i] \in Addrs /\ op[i] \in Ops /\ OpInv(op[i])
  BY <1>1, Zenon
<1>5. Path(off) \in Reached(op[i])
  BY <1>3, <1>4, OpsFacts, Zenon
<1>6. b \in Block
  BY <1>1, <1>3, <1>4, OfFacts, AddrFacts, Zenon
<1>7. val'[b] = <<i, off>> /\ \A c \in Block : c # b => val'[c] = val[c]
  BY <1>1, <1>6, Zenon
<1>8. ASSUME NEW ip \in Inode, op[ip].pc # "trunc", NEW bn \in Written(size[ip], op[ip])
      PROVE  LET c == Of(addrs[ip], ptr, Path(bn)) IN c # 0 /\ val'[c] = <<ip, bn>>
  <2>1. addrs[ip] \in Addrs /\ op[ip] \in Ops /\ OpInv(op[ip]) /\ size[ip] \in 0 .. MAXFILE
    BY <1>1, Zenon
  <2>2. bn \in Nat /\ bn < MAXFILE /\ Path(bn) \in Place
    BY <2>1, WrittenFacts, Zenon
  <2>3. Path(bn) \in Reached(op[ip])
    BY <1>8, <2>1, <2>2, OpsFacts, Zenon
  <2>4. Of(addrs[ip], ptr, Path(bn)) # 0 /\ val[Of(addrs[ip], ptr, Path(bn))] = <<ip, bn>>
    BY <1>2, <1>8, Zenon DEF Filled
  <2>5. Of(addrs[ip], ptr, Path(bn)) \in Block
    BY <1>1, <2>1, <2>2, <2>4, OfFacts, AddrFacts, Zenon
  <2>6. CASE Of(addrs[ip], ptr, Path(bn)) # b
    BY <1>7, <2>4, <2>5, <2>6, Zenon
  <2>7. CASE Of(addrs[ip], ptr, Path(bn)) = b
    <3>1. ip = i /\ Path(bn) = Path(off)
      BY <1>2, <1>5, <2>3, <2>4, <2>7 DEF NowhereElse
    <3>2. bn = off
      BY <2>2, <3>1, PathFacts, Zenon
    <3> QED
      BY <1>7, <2>7, <3>1, <3>2, Zenon
  <2> QED
    BY <2>6, <2>7, Zenon
<1>9. ASSUME NEW ip \in Inode, op'[ip].pc # "trunc", NEW bn \in Written(size'[ip], op'[ip])
      PROVE  Of(addrs[ip], ptr, Path(bn)) # 0 /\ val'[Of(addrs[ip], ptr, Path(bn))] = <<ip, bn>>
  <2>1. CASE ip = i /\ bn = off
    BY <1>7, <2>1, Zenon
  <2>2. CASE ~(ip = i /\ bn = off)
    <3>1. op[ip].pc # "trunc" /\ bn \in Written(size[ip], op[ip])
      BY <1>9, <2>2, Zenon
    <3> QED
      BY <1>8, <3>1, Zenon
  <2> QED
    BY <2>1, <2>2, Zenon
<1>10. Filled(addrs, ptr, val', size', op')
  BY <1>9, Zenon DEF Filled
<1> QED
  BY <1>10, Zenon

\* either_copyin.
LEMMA copyin_keeps ==
  ASSUME IInv, NEW i \in Inode, copyin(i)
  PROVE  IInv'
<1>1. PICK off, b : off = op[i].off /\ b = Of(addrs[i], ptr, Path(off))
  BY Zenon
<1>2. /\ op[i].pc = "write" /\ b # 0
      /\ \/ /\ val' = [val EXCEPT ![b] = <<i, off>>]
            /\ \/ op[i].left = 1 /\ WriteEnd(i, off + 1)
               \/ /\ op[i].left # 1 /\ UNCHANGED size
                  /\ op' = [op EXCEPT ![i] = [op[i] EXCEPT !.off = @ + 1, !.left = @ - 1]]
         \/ WriteEnd(i, off) /\ UNCHANGED val
      /\ UNCHANGED <<used, ptr, addrs, truncs>>
  BY <1>1, AtOf, Zenon DEF copyin, Goto
<1>3. TypeInv
  BY Zenon DEF IInv
<1>4. /\ op \in [Inode -> Ops] /\ op[i] \in Ops /\ OpInv(op[i]) /\ size \in [Inode -> 0 .. MAXFILE]
      /\ val \in [Block -> (Inode \X Nat) \cup {Zero}]
      /\ \A ip \in Inode : OpInv(op[ip])
  BY <1>3, Zenon DEF TypeInv
<1>5. off \in Nat /\ op[i].left \in Nat /\ op[i].left >= 1 /\ off + op[i].left <= MAXFILE /\ MAXFILE \in Nat
  BY <1>1, <1>2, <1>4, OpsFacts, PathFacts, Zenon
<1>6. off < MAXFILE /\ off + 1 \in 0 .. MAXFILE
  BY <1>5
<1>7. CASE WriteEnd(i, off) /\ UNCHANGED val
  BY <1>1, <1>2, <1>7, write_stops, Zenon
<1>8. ASSUME val' = [val EXCEPT ![b] = <<i, off>>],
             op' \in [Inode -> Ops], \A ip \in Inode : OpInv(op'[ip]),
             size' \in [Inode -> 0 .. MAXFILE],
             op'[i].pc \in {"idle", "write"},
             Written(size'[i], op'[i]) \subseteq Written(size[i], op[i]) \cup {off},
             \A ip \in Inode : ip # i => size'[ip] = size[ip] /\ op'[ip] = op[ip]
      PROVE  IInv'
  <2>1. val' \in [Block -> (Inode \X Nat) \cup {Zero}]
    BY <1>4, <1>5, <1>8, Zenon
  <2>2. TypeInv'
    BY <1>2, <1>3, <1>8, <2>1, Zenon DEF TypeInv
  <2>3. Reached(op'[i]) = Reached(op[i])
    BY <1>2, <1>8, Zenon DEF Reached
  <2>4. Owned(used, addrs, ptr, op)'
    BY <1>2, <1>8, <2>3, OwnedStays, Zenon
  <2>5. Filled(addrs, ptr, val, size, op)'
    BY <1>1, <1>2, <1>5, <1>6, <1>8, FilledCopied, Zenon
  <2> QED
    BY <2>2, <2>4, <2>5, Zenon DEF IInv
<1>9. CASE val' = [val EXCEPT ![b] = <<i, off>>] /\ op[i].left = 1 /\ WriteEnd(i, off + 1)
  <2>1. /\ size' \in [Inode -> 0 .. MAXFILE]
        /\ \A bn \in Nat : bn < size'[i] <=> bn < size[i] \/ bn < off + 1
        /\ \A ip \in Inode : ip # i => size'[ip] = size[ip]
        /\ op' \in [Inode -> Ops] /\ op'[i] = Idle
        /\ \A ip \in Inode : ip # i => op'[ip] = op[ip]
        /\ \A ip \in Inode : OpInv(op'[ip])
    BY <1>3, <1>6, <1>9, WriteEndFacts, Zenon
  <2>2. Written(size'[i], op'[i]) \subseteq Written(size[i], op[i]) \cup {off}
    BY <1>1, <1>2, <1>5, <2>1, IdleFacts DEF Written
  <2> QED
    BY <1>8, <1>9, <2>1, <2>2, IdleFacts, Zenon
<1>10. CASE /\ val' = [val EXCEPT ![b] = <<i, off>>] /\ op[i].left # 1 /\ UNCHANGED size
            /\ op' = [op EXCEPT ![i] = [op[i] EXCEPT !.off = @ + 1, !.left = @ - 1]]
  <2>1. PICK q : q = [op[i] EXCEPT !.off = @ + 1, !.left = @ - 1]
    BY Zenon
  <2>2. q \in Ops /\ q.pc = "write" /\ q.off = off + 1 /\ q.left = op[i].left - 1
    BY <1>1, <1>2, <1>4, <1>5, <2>1, WriteOn, Zenon
  <2>3. OpInv(q)
    BY <1>5, <1>10, <2>2 DEF OpInv
  <2>4. op' = [op EXCEPT ![i] = q]
    BY <1>10, <2>1, Zenon
  <2>5. /\ op' \in [Inode -> Ops] /\ op'[i] = q
        /\ \A ip \in Inode : ip # i => op'[ip] = op[ip]
        /\ \A ip \in Inode : OpInv(op'[ip])
    BY <1>4, <2>2, <2>3, <2>4, GotoFacts, ZenonT(30)
  <2>6. Written(size'[i], q) \subseteq Written(size[i], op[i]) \cup {off}
    BY <1>1, <1>2, <1>5, <1>10, <2>2 DEF Written
  <2> QED
    BY <1>4, <1>8, <1>10, <2>2, <2>5, <2>6, Zenon
<1> QED
  BY <1>2, <1>7, <1>9, <1>10, Zenon

\* The end of itrunc.
LEMMA trunc_end_keeps ==
  ASSUME IInv, NEW i \in Inode, trunc_end(i)
  PROVE  IInv'
<1>1. /\ op[i].pc = "trunc" /\ \A n \in op[i].todo : Of(addrs[i], ptr, n) = 0
      /\ addrs' = [addrs EXCEPT ![i] = NoAddrs] /\ size' = [size EXCEPT ![i] = 0]
      /\ op' = [op EXCEPT ![i] = Idle] /\ UNCHANGED <<used, ptr, val, truncs>>
  BY AtOf, Zenon DEF trunc_end, Goto
<1>2. TypeInv /\ Owned(used, addrs, ptr, op) /\ Filled(addrs, ptr, val, size, op)
  BY Zenon DEF IInv
<1>3. /\ op \in [Inode -> Ops] /\ size \in [Inode -> 0 .. MAXFILE] /\ addrs \in [Inode -> Addrs]
      /\ used \in SUBSET Block /\ \A ip \in Inode : OpInv(op[ip])
  BY <1>2, Zenon DEF TypeInv
<1>4. /\ op' \in [Inode -> Ops] /\ op'[i] = Idle
      /\ \A ip \in Inode : ip # i => op'[ip] = op[ip]
      /\ \A ip \in Inode : OpInv(op'[ip])
  BY <1>1, <1>3, IdleFacts, GotoFacts, Zenon
<1>5. addrs' \in [Inode -> Addrs] /\ addrs'[i] = NoAddrs /\ \A ip \in Inode : ip # i => addrs'[ip] = addrs[ip]
  BY <1>1, <1>3, NoAddrsFacts, Zenon
<1>6. size' \in [Inode -> 0 .. MAXFILE] /\ size'[i] = 0 /\ \A ip \in Inode : ip # i => size'[ip] = size[ip]
  BY <1>1, <1>3, PathFacts
<1>7. TypeInv'
  BY <1>1, <1>2, <1>4, <1>5, <1>6, Zenon DEF TypeInv
<1>8. Owned(used, addrs', ptr, op')
  <2>1. 0 \notin used
    BY <1>3, AddrFacts, Zenon
  <2>2. \A m \in Reached(op[i]) : Of(addrs[i], ptr, m) = 0
    BY <1>1, Zenon DEF Reached
  <2>3. \A m \in Reached(op'[i]) : Of(addrs'[i], ptr, m) = 0
    BY <1>4, <1>5, IdleFacts, NoAddrsFacts, Zenon
  <2>4. \A ip \in Inode : ip # i => Reached(op'[ip]) = Reached(op[ip])
    BY <1>4, Zenon
  <2> QED
    BY <1>2, <1>5, <2>1, <2>2, <2>3, <2>4, OwnedNone, ZenonT(30)
<1>9. Filled(addrs', ptr, val, size', op')
  <2>1. Written(size'[i], op'[i]) = {}
    BY <1>4, <1>6, IdleFacts DEF Written
  <2>2. ASSUME NEW ip \in Inode, op'[ip].pc # "trunc", NEW bn \in Written(size'[ip], op'[ip])
        PROVE  Of(addrs'[ip], ptr, Path(bn)) # 0 /\ val[Of(addrs'[ip], ptr, Path(bn))] = <<ip, bn>>
    <3>1. ip # i
      BY <2>1, <2>2, Zenon
    <3>2. op[ip].pc # "trunc" /\ bn \in Written(size[ip], op[ip]) /\ addrs'[ip] = addrs[ip]
      BY <1>4, <1>5, <1>6, <2>2, <3>1, Zenon
    <3> QED
      BY <1>2, <3>2, Zenon DEF Filled
  <2> QED
    BY <2>2, Zenon DEF Filled
<1>10. Owned(used, addrs, ptr, op)' /\ Filled(addrs, ptr, val, size, op)'
  BY <1>1, <1>8, <1>9, Zenon
<1> QED
  BY <1>7, <1>10, Zenon DEF IInv

\* What bfree does: the place it comes to, and the block there.
LEMMA bfree_facts ==
  ASSUME TypeInv, NEW i \in Inode, bfree(i)
  PROVE  \E n \in op[i].todo : \E T \in SUBSET Place : \E b \in Block :
           /\ op[i].pc = "trunc" /\ n \in Place
           /\ b = Of(addrs[i], ptr, n)
           /\ T = {m \in op[i].todo : Before(n, m)}
           /\ \A m \in op[i].todo : Before(m, n) => Of(addrs[i], ptr, m) = 0
           /\ used' = used \ {b}
           /\ ptr' = [ptr EXCEPT ![b] = Junk]
           /\ val' = [val EXCEPT ![b] = Zero]
           /\ op' = [op EXCEPT ![i] = [op[i] EXCEPT !.todo = T]]
           /\ UNCHANGED <<addrs, size, truncs>>
<1>1. PICK n \in op[i].todo :
        /\ op[i].pc = "trunc" /\ Of(addrs[i], ptr, n) # 0
        /\ \A m \in op[i].todo : Before(m, n) => Of(addrs[i], ptr, m) = 0
        /\ used' = used \ {Of(addrs[i], ptr, n)}
        /\ ptr' = [ptr EXCEPT ![Of(addrs[i], ptr, n)] = Junk]
        /\ val' = [val EXCEPT ![Of(addrs[i], ptr, n)] = Zero]
        /\ op' = [op EXCEPT ![i] = [op[i] EXCEPT !.todo = {m \in op[i].todo : Before(n, m)}]]
        /\ UNCHANGED <<addrs, size, truncs>>
  BY AtOf, Zenon DEF bfree, Goto
<1>2. op[i] \in Ops /\ OpInv(op[i]) /\ addrs[i] \in Addrs /\ ptr \in Ptrs
  BY Zenon DEF TypeInv
<1>3. op[i].todo \in SUBSET Place
  BY <1>2, OpsFacts, Zenon
<1>4. n \in Place
  BY <1>3, Zenon
<1>5. Of(addrs[i], ptr, n) \in Block
  BY <1>1, <1>2, <1>4, OfFacts, AddrFacts, Zenon
<1>6. {m \in op[i].todo : Before(n, m)} \in SUBSET Place
  BY <1>3, Zenon
<1> QED
  BY <1>1, <1>4, <1>5, <1>6, Zenon

\* Two places with the same block are one.
LEMMA OnlyThere ==
  ASSUME NEW A, NEW P, NEW O, NowhereElse(A, P, O), NEW ip \in Inode, NEW jp \in Inode,
         NEW m \in Reached(O[ip]), NEW n \in Reached(O[jp]),
         Of(A[ip], P, m) # 0, Of(A[ip], P, m) = Of(A[jp], P, n)
  PROVE  ip = jp /\ m = n
BY Zenon DEF NowhereElse

\* bfree.
LEMMA bfree_keeps ==
  ASSUME IInv, NEW i \in Inode, bfree(i)
  PROVE  IInv'
<1>1. TypeInv /\ Owned(used, addrs, ptr, op) /\ Filled(addrs, ptr, val, size, op)
  BY Zenon DEF IInv
<1>2. PICK n \in op[i].todo, T \in SUBSET Place, b \in Block :
           /\ op[i].pc = "trunc" /\ n \in Place
           /\ b = Of(addrs[i], ptr, n)
           /\ T = {m \in op[i].todo : Before(n, m)}
           /\ \A m \in op[i].todo : Before(m, n) => Of(addrs[i], ptr, m) = 0
           /\ used' = used \ {b}
           /\ ptr' = [ptr EXCEPT ![b] = Junk]
           /\ val' = [val EXCEPT ![b] = Zero]
           /\ op' = [op EXCEPT ![i] = [op[i] EXCEPT !.todo = T]]
           /\ UNCHANGED <<addrs, size, truncs>>
  BY <1>1, bfree_facts, Zenon
<1>3. /\ op \in [Inode -> Ops] /\ size \in [Inode -> 0 .. MAXFILE] /\ addrs \in [Inode -> Addrs]
      /\ used \in SUBSET Block /\ ptr \in Ptrs /\ \A ip \in Inode : OpInv(op[ip])
      /\ val \in [Block -> (Inode \X Nat) \cup {Zero}]
  BY <1>1, Zenon DEF TypeInv
<1>4. op[i] \in Ops /\ OpInv(op[i]) /\ op[i].todo \in SUBSET Place /\ Reached(op[i]) = op[i].todo
  BY <1>2, <1>3, OpsFacts, Zenon
<1>5. PICK q : q = [op[i] EXCEPT !.todo = T]
  BY Zenon
<1>6. q \in Ops /\ q.pc = "trunc" /\ q.todo = T
  <2>1. q \in Ops /\ q.pc = op[i].pc /\ q.todo = T
    BY <1>4, <1>5, TruncOn
  <2> QED
    BY <1>2, <2>1, Zenon
<1>7. OpInv(q)
  <2>1. ASSUME NEW m \in T, NEW k \in Place, Before(m, k)
        PROVE  k \in T
    <3>1. m \in op[i].todo /\ Before(n, m) /\ m \in Place
      BY <1>2, <2>1, Zenon
    <3>2. k \in op[i].todo
      BY <1>2, <1>4, <2>1, <3>1, Zenon DEF OpInv
    <3>3. Before(n, k)
      BY <1>2, <2>1, <3>1, BeforeTrans, Zenon
    <3> QED
      BY <1>2, <3>2, <3>3, Zenon
  <2> QED
    BY <1>6, <2>1, Zenon DEF OpInv
<1>8. /\ op' \in [Inode -> Ops] /\ op'[i] = q
      /\ \A ip \in Inode : ip # i => op'[ip] = op[ip]
      /\ \A ip \in Inode : OpInv(op'[ip])
  <2>1. op' = [op EXCEPT ![i] = q]
    BY <1>2, <1>5, Zenon
  <2> QED
    BY <1>3, <1>6, <1>7, <2>1, GotoFacts, Zenon
<1>9. ptr' \in Ptrs /\ \A c \in Block : c # b => ptr'[c] = ptr[c]
  <2>1. Junk \in [Index -> Addr]
    BY ConstFacts DEF Junk, Block, Addr
  <2> QED
    BY <1>2, <1>3, <2>1, Zenon DEF Ptrs
<1>10. val' \in [Block -> (Inode \X Nat) \cup {Zero}] /\ \A c \in Block : c # b => val'[c] = val[c]
  BY <1>2, <1>3, Zenon
<1>11. used' \in SUBSET Block
  BY <1>2, <1>3, Zenon
<1>12. TypeInv'
  BY <1>1, <1>2, <1>8, <1>9, <1>10, <1>11, Zenon DEF TypeInv
<1>13. Reached(op'[i]) = T /\ \A ip \in Inode : ip # i => Reached(op'[ip]) = Reached(op[ip])
  BY <1>6, <1>8, Zenon DEF Reached
<1>14. n \notin T /\ T \subseteq op[i].todo
  BY <1>2, BeforeFacts, Zenon
<1>15. ASSUME NEW ip \in Inode, NEW m \in Reached(op'[ip])
       PROVE  m \in Reached(op[ip]) /\ Of(addrs[ip], ptr, m) # b
  <2>1. m \in Reached(op[ip]) /\ ~(ip = i /\ m = n)
    BY <1>4, <1>13, <1>14, <1>15, Zenon
  <2>2. NowhereElse(addrs, ptr, op)
    BY <1>1, Zenon DEF Owned
  <2>3. b # 0
    BY AddrFacts, Zenon
  <2> QED
    BY <1>2, <1>4, <2>1, <2>2, <2>3, OnlyThere
<1>16. ASSUME NEW ip \in Inode, NEW m \in Reached(op'[ip])
       PROVE  Of(addrs[ip], ptr', m) = Of(addrs[ip], ptr, m)
  <2>1. addrs[ip] \in Addrs /\ op'[ip] \in Ops /\ OpInv(op'[ip])
    BY <1>3, <1>8, Zenon
  <2>2. /\ Reached(op'[ip]) \in SUBSET Place
        /\ \A k \in Reached(op'[ip]) : Outer(k) \in Reached(op'[ip]) /\ Inner(k) \in Reached(op'[ip])
    BY <2>1, ReachedFacts, Zenon
  <2>3. ASSUME NEW k \in Reached(op'[ip]), Of(addrs[ip], ptr, k) # 0
        PROVE  ptr'[Of(addrs[ip], ptr, k)] = ptr[Of(addrs[ip], ptr, k)]
    <3>1. k \in Place
      BY <2>2, Zenon
    <3>2. Of(addrs[ip], ptr, k) \in Block
      BY <1>3, <2>1, <2>3, <3>1, OfFacts, AddrFacts, Zenon
    <3> QED
      BY <1>9, <1>15, <3>2, Zenon
  <2> QED
    BY <1>3, <1>9, <2>1, <2>2, <2>3, Frame
<1>17. Owned(used', addrs, ptr', op')
  <2>1. 0 \notin used /\ b # 0
    BY <1>3, AddrFacts, Zenon
  <2>2. \A m \in Reached(op[i]) : m = n \/ m \in Reached(op'[i]) \/ Of(addrs[i], ptr, m) = 0
    <3>1. ASSUME NEW m \in op[i].todo
          PROVE  m = n \/ m \in T \/ Of(addrs[i], ptr, m) = 0
      <4>1. m \in Place
        BY <1>4, Zenon
      <4>2. Before(m, n) \/ m = n \/ Before(n, m)
        BY <1>2, <4>1, BeforeFacts, Zenon
      <4> QED
        BY <1>2, <4>2, Zenon
    <3> QED
      BY <1>4, <1>13, <3>1, Zenon
  <2>3. n \in Reached(op[i]) /\ n \notin Reached(op'[i]) /\ Reached(op'[i]) \subseteq Reached(op[i])
    BY <1>4, <1>13, <1>14, Zenon
  <2>4. b = Of(addrs[i], ptr, n) /\ used' = used \ {b}
    BY <1>2, Zenon
  <2>5. \A ip \in Inode : ip # i => Reached(op'[ip]) = Reached(op[ip])
    BY <1>13, Zenon
  <2>6. \A ip \in Inode : \A m \in Reached(op'[ip]) : Of(addrs[ip], ptr', m) = Of(addrs[ip], ptr, m)
    BY <1>16, Zenon
  <2>7. Owned(used \ {b}, addrs, ptr', op')
    BY <1>1, <2>1, <2>2, <2>3, <2>4, <2>5, <2>6, OwnedLess, ZenonT(30)
  <2> QED
    BY <2>4, <2>7, Zenon
<1>18. Filled(addrs, ptr', val', size, op')
  <2>1. ASSUME NEW ip \in Inode, op'[ip].pc # "trunc"
        PROVE  op[ip].pc # "trunc" /\ op'[ip] = op[ip]
    BY <1>6, <1>8, <2>1, Zenon
  <2>2. ASSUME NEW ip \in Inode, op'[ip].pc # "trunc", NEW bn \in Written(size[ip], op'[ip])
        PROVE  /\ Of(addrs[ip], ptr', Path(bn)) = Of(addrs[ip], ptr, Path(bn))
               /\ val'[Of(addrs[ip], ptr, Path(bn))] = val[Of(addrs[ip], ptr, Path(bn))]
    <3>1. op[ip].pc # "trunc" /\ op'[ip] = op[ip] /\ op[ip] \in Ops /\ OpInv(op[ip]) /\ size[ip] \in 0 .. MAXFILE
          /\ addrs[ip] \in Addrs
      BY <1>3, <2>1, <2>2, Zenon
    <3>2. Path(bn) \in Place
      BY <2>2, <3>1, WrittenFacts, Zenon
    <3>3. Path(bn) \in Reached(op'[ip])
      BY <3>1, <3>2, OpsFacts, Zenon
    <3>4. Of(addrs[ip], ptr, Path(bn)) # 0
      BY <1>1, <2>2, <3>1, Zenon DEF Filled
    <3>5. Of(addrs[ip], ptr, Path(bn)) \in Block
      BY <1>3, <3>1, <3>2, <3>4, OfFacts, AddrFacts, Zenon
    <3> QED
      BY <1>10, <1>15, <1>16, <3>3, <3>5, Zenon
  <2> QED
    BY <1>1, <2>1, <2>2, FilledKept
<1>19. Owned(used, addrs, ptr, op)' /\ Filled(addrs, ptr, val, size, op)'
  BY <1>2, <1>17, <1>18, Zenon
<1> QED
  BY <1>12, <1>19, Zenon DEF IInv

\* Where bmap enters a block: at a place without one, below blocks that are there.
LEMMA MissingFacts ==
  ASSUME TypeInv, NEW i \in Inode, NEW off \in Nat, off < MAXFILE, Of(addrs[i], ptr, Path(off)) = 0,
         NEW n, n = Missing(i, off)
  PROVE  /\ n \in Place /\ Of(addrs[i], ptr, n) = 0
         /\ n[2] # Self => addrs[i][n[1]] # 0
         /\ n[3] # Self => Of(addrs[i], ptr, Inner(n)) # 0
<1>1. addrs[i] \in Addrs /\ ptr \in Ptrs
  BY Zenon DEF TypeInv
<1>2. PICK p \in Place : p = Path(off)
  BY PathFacts, Zenon
<1>3. Of(addrs[i], ptr, Outer(p)) = addrs[i][p[1]] /\ Of(addrs[i], ptr, p) = 0
  BY <1>1, <1>2, OfFacts, Zenon
<1>4. n = IF addrs[i][p[1]] = 0 THEN Outer(p) ELSE IF Of(addrs[i], ptr, Inner(p)) = 0 THEN Inner(p) ELSE p
  BY <1>2, <1>3, AtOf, Zenon DEF Missing
<1>5. CASE addrs[i][p[1]] = 0
  <2>1. n = Outer(p)
    BY <1>4, <1>5, ZenonT(30)
  <2>2. n \in Place /\ n[2] = Self /\ n[3] = Self
    BY <2>1, WayFacts
  <2> QED
    BY <1>3, <1>5, <2>1, <2>2, ZenonT(30)
<1>6. CASE addrs[i][p[1]] # 0 /\ Of(addrs[i], ptr, Inner(p)) = 0
  <2>1. n = Inner(p)
    BY <1>4, <1>6, Zenon
  <2>2. n \in Place /\ n[1] = p[1] /\ n[3] = Self
    BY <2>1, WayFacts
  <2> QED
    BY <1>6, <2>1, <2>2, Zenon
<1>7. CASE addrs[i][p[1]] # 0 /\ Of(addrs[i], ptr, Inner(p)) # 0
  <2>1. n = p
    BY <1>4, <1>7, Zenon
  <2> QED
    BY <1>3, <1>7, <2>1, Zenon
<1> QED
  BY <1>5, <1>6, <1>7, Zenon

\* What a step that enters block b at place n of file i does to that file: the
\* place changes, and no block but b and those of the file is written.
LEMMA EnterFacts ==
  ASSUME TypeInv, NEW i \in Inode, NEW n \in Place, NEW b \in Block,
         Unnamed(addrs[i], ptr, b), Apart(addrs[i], ptr), Of(addrs[i], ptr, n) = 0,
         n[2] # Self => addrs[i][n[1]] # 0,
         n[3] # Self => Of(addrs[i], ptr, Inner(n)) # 0,
         Enter(i, n, b)
  PROVE  /\ ptr' \in Ptrs /\ addrs' \in [Inode -> Addrs]
         /\ \A ip \in Inode : ip # i => addrs'[ip] = addrs[ip]
         /\ \A m \in Place : Of(addrs'[i], ptr', m) = IF m = n THEN b ELSE Of(addrs[i], ptr, m)
         /\ \A c \in Block : c # b /\ (\A m \in Place : Of(addrs[i], ptr, m) # c) => ptr'[c] = ptr[c]
<1>1. addrs \in [Inode -> Addrs] /\ addrs[i] \in Addrs /\ ptr \in Ptrs
  BY Zenon DEF TypeInv
<1>2. PICK o, k : o = addrs[i][n[1]] /\ k = Of(addrs[i], ptr, Inner(n))
  BY Zenon
<1>3. o = Of(addrs[i], ptr, Outer(n)) /\ o \in Addr /\ k \in Addr /\ o # b /\ k # b
  BY <1>1, <1>2, OfFacts, WayNamed
<1>4. /\ addrs' = IF n[2] = Self THEN [addrs EXCEPT ![i][n[1]] = b] ELSE addrs
      /\ ptr' = IF n[2] = Self THEN [ptr EXCEPT ![b] = NoPtrs]
                ELSE IF n[3] = Self THEN [[ptr EXCEPT ![b] = NoPtrs] EXCEPT ![o][n[2]] = b]
                ELSE [[ptr EXCEPT ![b] = NoPtrs] EXCEPT ![k][n[3]] = b]
  BY <1>2, <1>3, AtOf, Zenon DEF Enter, Zeroed
<1>5. CASE n[2] = Self
  <2>1. addrs' = [addrs EXCEPT ![i][n[1]] = b] /\ ptr' = [ptr EXCEPT ![b] = NoPtrs]
    BY <1>4, <1>5, Zenon
  <2>2. [addrs[i] EXCEPT ![n[1]] = b] \in Addrs
    BY <1>1, PlaceFacts, AddrFacts, Zenon DEF Addrs
  <2>3. /\ addrs' \in [Inode -> Addrs] /\ addrs'[i] = [addrs[i] EXCEPT ![n[1]] = b]
        /\ \A ip \in Inode : ip # i => addrs'[ip] = addrs[ip]
    BY <1>1, <2>1, <2>2, Zenon
  <2>4. ptr' \in Ptrs /\ Wiped(ptr, ptr', b)
    BY <1>1, <2>1, ZeroedFacts, Zenon
  <2>5. addrs[i][n[1]] = 0
    BY <1>1, <1>5, OfFacts, Zenon
  <2>6. \A m \in Place : Of(addrs'[i], ptr', m) = IF m = n THEN b ELSE Of(addrs[i], ptr, m)
    <3>1. addrs'[i] \in Addrs
      BY <2>3, Zenon
    <3>2. Put(addrs[i], addrs'[i], n[1], b)
      BY <1>1, <2>3, PlaceFacts, Zenon DEF Put, Addrs
    <3> QED
      BY <1>1, <1>5, <2>4, <2>5, <3>1, <3>2, EnterDirect
  <2>7. \A c \in Block : c # b => ptr'[c] = ptr[c]
    BY <2>4, Zenon DEF Wiped
  <2> QED
    BY <2>3, <2>4, <2>6, <2>7, Zenon
<1>6. CASE n[2] # Self /\ n[3] = Self
  <2>1. addrs' = addrs /\ ptr' = [[ptr EXCEPT ![b] = NoPtrs] EXCEPT ![o][n[2]] = b]
    BY <1>4, <1>6, Zenon
  <2>2. o \in Block /\ n[2] \in Index /\ o # 0
    BY <1>2, <1>3, <1>6, PlaceFacts, AddrFacts, Zenon
  <2>3. ptr' \in Ptrs /\ Linked(ptr, ptr', b, o, n[2])
    BY <1>1, <1>3, <2>1, <2>2, LinkedFacts, ZenonT(30)
  <2>4. \A m \in Place : Of(addrs[i], ptr', m) = IF m = n THEN b ELSE Of(addrs[i], ptr, m)
    BY <1>1, <1>2, <1>6, <2>2, <2>3, EnterIndirect
  <2>5. \A c \in Block : c # b /\ c # o => ptr'[c] = ptr[c]
    BY <2>3, Zenon DEF Linked
  <2>6. Outer(n) \in Place
    BY WayFacts, Zenon
  <2> QED
    BY <1>1, <1>3, <2>1, <2>3, <2>4, <2>5, <2>6, Zenon
<1>7. CASE n[3] # Self
  <2>1. n[2] # Self
    BY <1>7, PlaceFacts, Zenon
  <2>2. addrs' = addrs /\ ptr' = [[ptr EXCEPT ![b] = NoPtrs] EXCEPT ![k][n[3]] = b]
    BY <1>4, <1>7, <2>1, Zenon
  <2>3. k \in Block /\ n[3] \in Index /\ k # 0
    BY <1>2, <1>3, <1>7, PlaceFacts, AddrFacts, Zenon
  <2>4. ptr' \in Ptrs /\ Linked(ptr, ptr', b, k, n[3])
    BY <1>1, <1>3, <2>2, <2>3, LinkedFacts, ZenonT(30)
  <2>5. \A m \in Place : Of(addrs[i], ptr', m) = IF m = n THEN b ELSE Of(addrs[i], ptr, m)
    BY <1>1, <1>2, <1>7, <2>3, <2>4, EnterDoubly
  <2>6. \A c \in Block : c # b /\ c # k => ptr'[c] = ptr[c]
    BY <2>4, Zenon DEF Linked
  <2>7. Inner(n) \in Place
    BY WayFacts, Zenon
  <2> QED
    BY <1>1, <1>2, <2>2, <2>4, <2>5, <2>6, <2>7, Zenon
<1> QED
  BY <1>5, <1>6, <1>7, Zenon

\* bmap takes a block and enters it.
LEMMA bmap_enters ==
  ASSUME IInv, NEW i \in Inode, op[i].pc = "write", NEW off, off = op[i].off,
         Of(addrs[i], ptr, Path(off)) = 0, NEW b \in Block, b \notin used,
         used' = used \cup {b}, val' = [val EXCEPT ![b] = Zero],
         Enter(i, Missing(i, off), b), UNCHANGED <<size, op, truncs>>
  PROVE  IInv'
<1>1. TypeInv /\ Owned(used, addrs, ptr, op) /\ Filled(addrs, ptr, val, size, op)
  BY Zenon DEF IInv
<1>2. /\ op \in [Inode -> Ops] /\ size \in [Inode -> 0 .. MAXFILE] /\ addrs \in [Inode -> Addrs]
      /\ used \in SUBSET Block /\ ptr \in Ptrs /\ \A ip \in Inode : OpInv(op[ip])
      /\ val \in [Block -> (Inode \X Nat) \cup {Zero}]
  BY <1>1, Zenon DEF TypeInv
<1>3. InUse(used, addrs, ptr, op) /\ NowhereElse(addrs, ptr, op)
  BY <1>1, Zenon DEF Owned
<1>4. op[i] \in Ops /\ OpInv(op[i]) /\ addrs[i] \in Addrs
  BY <1>2, Zenon
<1>5. off \in Nat /\ off < MAXFILE /\ Reached(op[i]) = Place
  BY <1>4, OpsFacts, PathFacts
<1>6. PICK n : n = Missing(i, off)
  BY Zenon
<1>7. /\ n \in Place /\ Of(addrs[i], ptr, n) = 0
      /\ n[2] # Self => addrs[i][n[1]] # 0
      /\ n[3] # Self => Of(addrs[i], ptr, Inner(n)) # 0
  BY <1>1, <1>5, <1>6, MissingFacts, ZenonT(30)
<1>8. b # 0 /\ 0 \notin used
  BY <1>2, AddrFacts, Zenon
<1>9. ASSUME NEW ip \in Inode, NEW m \in Reached(op[ip])
      PROVE  Of(addrs[ip], ptr, m) # b
  BY <1>3, <1>8, Zenon DEF InUse
<1>10. Unnamed(addrs[i], ptr, b)
  BY <1>5, <1>9, Zenon DEF Unnamed
<1>11. Apart(addrs[i], ptr)
  BY <1>3, <1>5, ZenonT(30) DEF NowhereElse, Apart
<1>12. Enter(i, n, b)
  BY <1>6, Zenon
<1>13. /\ ptr' \in Ptrs /\ addrs' \in [Inode -> Addrs]
       /\ \A ip \in Inode : ip # i => addrs'[ip] = addrs[ip]
       /\ \A m \in Place : Of(addrs'[i], ptr', m) = IF m = n THEN b ELSE Of(addrs[i], ptr, m)
       /\ \A c \in Block : c # b /\ (\A m \in Place : Of(addrs[i], ptr, m) # c) => ptr'[c] = ptr[c]
  BY <1>1, <1>7, <1>10, <1>11, <1>12, EnterFacts
<1>14. ASSUME NEW ip \in Inode, ip # i, NEW m \in Reached(op[ip])
       PROVE  Of(addrs'[ip], ptr', m) = Of(addrs[ip], ptr, m)
  <2>1. addrs[ip] \in Addrs /\ op[ip] \in Ops /\ OpInv(op[ip]) /\ addrs'[ip] = addrs[ip]
    BY <1>2, <1>13, <1>14, Zenon
  <2>2. /\ Reached(op[ip]) \in SUBSET Place
        /\ \A k \in Reached(op[ip]) : Outer(k) \in Reached(op[ip]) /\ Inner(k) \in Reached(op[ip])
    BY <2>1, ReachedFacts, Zenon
  <2>3. ASSUME NEW k \in Reached(op[ip]), Of(addrs[ip], ptr, k) # 0
        PROVE  ptr'[Of(addrs[ip], ptr, k)] = ptr[Of(addrs[ip], ptr, k)]
    <3>1. k \in Place
      BY <2>2, Zenon
    <3>2. Of(addrs[ip], ptr, k) \in Block
      BY <1>2, <2>1, <2>3, <3>1, OfFacts, AddrFacts, ZenonT(30)
    <3>3. ASSUME NEW h \in Place
          PROVE  Of(addrs[i], ptr, h) # Of(addrs[ip], ptr, k)
      BY <1>3, <1>5, <1>14, <2>3, OnlyThere
    <3>4. Of(addrs[ip], ptr, k) # b
      BY <1>9, Zenon
    <3> QED
      BY <1>13, <3>2, <3>3, <3>4, Zenon
  <2>4. Of(addrs[ip], ptr', m) = Of(addrs[ip], ptr, m)
    <3>1. PICK A \in Addrs, Q \in Ptrs, S \in SUBSET Place :
            A = addrs[ip] /\ Q = ptr' /\ S = Reached(op[ip])
      BY <1>13, <2>1, <2>2, Zenon
    <3>2. ptr \in Ptrs /\ m \in S
      BY <1>2, <3>1, Zenon
    <3>3. \A k \in S : Outer(k) \in S /\ Inner(k) \in S
      BY <2>2, <3>1, Zenon
    <3>4. \A k \in S : Of(A, ptr, k) # 0 => Q[Of(A, ptr, k)] = ptr[Of(A, ptr, k)]
      BY <2>3, <3>1, Zenon
    <3>5. Of(A, Q, m) = Of(A, ptr, m)
      BY <3>2, <3>3, <3>4, Frame
    <3> QED
      BY <3>1, <3>5, Zenon
  <2> QED
    BY <2>1, <2>4, Zenon
<1>15. Owned(used \cup {b}, addrs', ptr', op)
  <2>1. /\ n \in Reached(op[i])
        /\ \A m \in Reached(op[i]) : Of(addrs'[i], ptr', m) = IF m = n THEN b ELSE Of(addrs[i], ptr, m)
    BY <1>5, <1>7, <1>13, Zenon
  <2> QED
    BY <1>1, <1>7, <1>8, <1>14, <2>1, OwnedMore, Zenon
<1>16. val' \in [Block -> (Inode \X Nat) \cup {Zero}] /\ \A c \in Block : c # b => val'[c] = val[c]
  BY <1>2, Zenon
<1>17. TypeInv'
  <2>1. used' \in SUBSET Block
    BY <1>2, Zenon
  <2> QED
    BY <1>1, <1>13, <1>16, <2>1, Zenon DEF TypeInv
<1>18. Filled(addrs', ptr', val', size, op)
  <2>1. ASSUME NEW ip \in Inode, op[ip].pc # "trunc", NEW bn \in Written(size[ip], op[ip])
        PROVE  Of(addrs'[ip], ptr', Path(bn)) # 0 /\ val'[Of(addrs'[ip], ptr', Path(bn))] = <<ip, bn>>
    <3>1. op[ip] \in Ops /\ OpInv(op[ip]) /\ size[ip] \in 0 .. MAXFILE /\ addrs[ip] \in Addrs
      BY <1>2, Zenon
    <3>2. Path(bn) \in Place /\ Path(bn) \in Reached(op[ip])
      BY <2>1, <3>1, WrittenFacts, OpsFacts, Zenon
    <3>3. Of(addrs[ip], ptr, Path(bn)) # 0 /\ val[Of(addrs[ip], ptr, Path(bn))] = <<ip, bn>>
      BY <1>1, <2>1, Zenon DEF Filled
    <3>4. Of(addrs[ip], ptr, Path(bn)) \in Block
      BY <1>2, <3>1, <3>2, <3>3, OfFacts, AddrFacts, Zenon
    <3>5. Of(addrs'[ip], ptr', Path(bn)) = Of(addrs[ip], ptr, Path(bn))
      BY <1>7, <1>13, <1>14, <3>2, <3>3, ZenonT(30)
    <3>6. Of(addrs[ip], ptr, Path(bn)) # b
      BY <1>9, <3>2, Zenon
    <3> QED
      BY <1>16, <3>3, <3>4, <3>5, <3>6, Zenon
  <2> QED
    BY <2>1, Zenon DEF Filled
<1>19. Owned(used, addrs, ptr, op)' /\ Filled(addrs, ptr, val, size, op)'
  BY <1>15, <1>18, Zenon
<1> QED
  BY <1>17, <1>19, Zenon DEF IInv

\* bmap: a block is entered, or there is none and the write stops.
LEMMA bmap_keeps ==
  ASSUME IInv, NEW i \in Inode, bmap(i)
  PROVE  IInv'
<1>1. /\ op[i].pc = "write" /\ Of(addrs[i], ptr, Path(op[i].off)) = 0
      /\ \/ \E b \in Addr :
              /\ balloc(b)
              /\ used' = used \cup {b} /\ val' = [val EXCEPT ![b] = Zero]
              /\ Enter(i, Missing(i, op[i].off), b)
              /\ UNCHANGED <<size, op>>
         \/ /\ WriteEnd(i, op[i].off)
            /\ UNCHANGED <<used, ptr, val, addrs>>
      /\ UNCHANGED truncs
  BY AtOf, Zenon DEF bmap
<1>2. CASE WriteEnd(i, op[i].off) /\ UNCHANGED <<used, ptr, val, addrs>>
  BY <1>1, <1>2, write_stops, Zenon
<1>3. ASSUME NEW b \in Addr, balloc(b), used' = used \cup {b}, val' = [val EXCEPT ![b] = Zero],
             Enter(i, Missing(i, op[i].off), b), UNCHANGED <<size, op>>
      PROVE  IInv'
  <2>1. b \in Block /\ b \notin used
    BY <1>3, Zenon DEF balloc
  <2> QED
    BY <1>1, <1>3, <2>1, bmap_enters, Zenon
<1> QED
  BY <1>1, <1>2, <1>3, Zenon

\* Every step of the specification keeps the invariant.
LEMMA NextInv ==
  IInv /\ [Next]_vars => IInv'
<1> SUFFICES ASSUME IInv, [Next]_vars PROVE IInv'
  BY Zenon
<1>1. CASE UNCHANGED vars
  BY <1>1, Zenon DEF vars, IInv, TypeInv
<1>2. ASSUME NEW i \in Inode, bmap(i) PROVE IInv'
  BY <1>2, bmap_keeps, Zenon
<1>3. ASSUME NEW i \in Inode, copyin(i) PROVE IInv'
  BY <1>3, copyin_keeps, ZenonT(30)
<1>4. ASSUME NEW i \in Inode, itrunc(i) PROVE IInv'
  BY <1>4, itrunc_keeps, Zenon
<1>5. ASSUME NEW i \in Inode, bfree(i) PROVE IInv'
  BY <1>5, bfree_keeps, Zenon
<1>6. ASSUME NEW i \in Inode, trunc_end(i) PROVE IInv'
  BY <1>6, trunc_end_keeps, Zenon
<1>7. ASSUME NEW i \in Inode, NEW off \in 0 .. MAXFILE, NEW n \in 1 .. MaxWrite, writei(i, off, n) PROVE IInv'
  BY <1>7, writei_keeps, Zenon
<1> QED
  BY <1>1, <1>2, <1>3, <1>4, <1>5, <1>6, <1>7, Zenon DEF Next

\* The invariant holds in all reachable states.
LEMMA BlocksInv ==
  Spec => []IInv
BY InitInv, NextInv, PTL DEF Spec

\* The invariant gives the types.
LEMMA InvTypes ==
  IInv => TypeOK
<1> SUFFICES ASSUME IInv PROVE TypeOK
  BY Zenon
<1>1. TypeInv
  BY Zenon DEF IInv
<1>2. \A ip \in Inode : op[ip].pc \in {"idle", "write", "trunc"}
  <2>1. \A ip \in Inode : op[ip] \in Ops
    BY <1>1, Zenon DEF TypeInv
  <2> QED
    BY <2>1, Zenon DEF Ops
<1> QED
  BY <1>1, <1>2, Zenon DEF TypeInv, TypeOK, Ptrs, Addrs

\* And that the blocks in use are shared out.
LEMMA InvPartitioned ==
  IInv => BlocksPartitioned
<1> SUFFICES ASSUME IInv PROVE BlocksPartitioned
  BY Zenon
<1>1. InUse(used, addrs, ptr, op) /\ Somewhere(used, addrs, ptr, op) /\ NowhereElse(addrs, ptr, op)
  BY Zenon DEF IInv, Owned
<1>2. 0 \notin used
  <2>1. used \in SUBSET Block
    BY Zenon DEF IInv, TypeInv
  <2> QED
    BY <2>1, AddrFacts, Zenon
<1>3. \A ip, n : n \in Places(ip) <=> n \in Reached(op[ip]) /\ Of(addrs[ip], ptr, n) # 0
  BY AtOf, Zenon DEF Places, Reached
<1>4. ASSUME NEW ip \in Inode, NEW n \in Places(ip)
      PROVE  At(ip, n) \in used
  BY <1>1, <1>3, AtOf, Zenon DEF InUse
<1>5. ASSUME NEW b \in used
      PROVE  \E ip \in Inode : \E n \in Places(ip) : b = At(ip, n)
  <2>1. PICK ip \in Inode : \E n \in Reached(op[ip]) : Of(addrs[ip], ptr, n) = b
    BY <1>1, Zenon DEF Somewhere
  <2>2. PICK n \in Reached(op[ip]) : Of(addrs[ip], ptr, n) = b
    BY <2>1, Zenon
  <2>3. n \in Places(ip)
    BY <1>2, <1>3, <2>2, Zenon
  <2> QED
    BY <2>2, <2>3, AtOf, Zenon
<1>6. used = UNION {{At(ip, n) : n \in Places(ip)} : ip \in Inode}
  BY <1>4, <1>5
<1>7. ASSUME NEW ip \in Inode, NEW jp \in Inode, NEW m \in Places(ip), NEW n \in Places(jp),
             At(ip, m) = At(jp, n)
      PROVE  ip = jp /\ m = n
  <2>1. m \in Reached(op[ip]) /\ n \in Reached(op[jp]) /\ Of(addrs[ip], ptr, m) # 0
    BY <1>3, Zenon
  <2>2. Of(addrs[ip], ptr, m) = Of(addrs[jp], ptr, n)
    BY <1>7, AtOf, Zenon
  <2> QED
    BY <1>1, <2>1, <2>2, OnlyThere
<1> QED
  BY <1>6, <1>7, Zenon DEF BlocksPartitioned

\* What bfree is called with is marked in the free map.
LEMMA FreesUsed ==
  ASSUME IInv, NEW i \in Inode, bfree(i)
  PROVE  used' # used
<1>1. TypeInv /\ InUse(used, addrs, ptr, op)
  BY Zenon DEF IInv, Owned
<1>2. PICK n \in op[i].todo, b \in Block :
        op[i].pc = "trunc" /\ b = Of(addrs[i], ptr, n) /\ used' = used \ {b}
  BY <1>1, bfree_facts, Zenon
<1>3. n \in Reached(op[i])
  BY <1>2, Zenon DEF Reached
<1>4. b \in used
  BY <1>1, <1>2, <1>3, AddrFacts, Zenon DEF InUse
<1> QED
  BY <1>2, <1>4, Zenon

\* readi gets what was written.
LEMMA InvReadsBack ==
  IInv => ReadsBackWhatWasWritten
<1> SUFFICES ASSUME IInv, NEW ip \in Inode, op[ip].pc # "trunc",
                    NEW off \in 0 .. MAXFILE, NEW n \in 1 .. MaxWrite, NEW r, r = readi(ip, off, n)
             PROVE  /\ \A k \in DOMAIN r : r[k] = <<ip, off + k - 1>>
                    /\ Len(r) # n => Len(r) < n /\ off + Len(r) >= size[ip]
  BY Zenon DEF ReadsBackWhatWasWritten
<1>1. size[ip] \in Nat /\ off \in Nat /\ n \in Nat
  BY PathFacts, BlocksAssumption DEF IInv, TypeInv
<1>2. Filled(addrs, ptr, val, size, op)
  BY Zenon DEF IInv
<1>3. PICK blocks : blocks = IF size[ip] - off < 0 THEN 0 ELSE IF n > size[ip] - off THEN size[ip] - off ELSE n
  BY Zenon
<1>4. blocks \in Nat /\ blocks <= n /\ (blocks # n => off + blocks >= size[ip])
      /\ (blocks > 0 => off + blocks <= size[ip])
  BY <1>1, <1>3
<1>5. r = [k \in 1 .. blocks |-> IF At(ip, Path(off + k - 1)) = 0 THEN Zero ELSE val[At(ip, Path(off + k - 1))]]
  BY <1>3, Zenon DEF readi
<1>6. DOMAIN r = 1 .. blocks
  BY <1>5, Zenon
<1>7. Len(r) = blocks
  BY <1>4, <1>5
<1>8. ASSUME NEW k \in 1 .. blocks
      PROVE  r[k] = <<ip, off + k - 1>>
  <2>1. off + k - 1 \in Nat /\ off + k - 1 < size[ip]
    BY <1>1, <1>4, <1>8
  <2>2. off + k - 1 \in Written(size[ip], op[ip])
    BY <2>1, Zenon DEF Written
  <2>3. At(ip, Path(off + k - 1)) # 0 /\ val[At(ip, Path(off + k - 1))] = <<ip, off + k - 1>>
    BY <1>2, <2>2, AtOf, Zenon DEF Filled
  <2>4. r[k] = IF At(ip, Path(off + k - 1)) = 0 THEN Zero ELSE val[At(ip, Path(off + k - 1))]
    BY <1>5, Zenon
  <2> QED
    BY <2>3, <2>4, Zenon
<1> QED
  BY <1>1, <1>4, <1>6, <1>7, <1>8

-----------------------------------------------------------------------------
(* Theorems. *)

\* Types, in every reachable state: no file is larger than MAXFILE, and balloc
\* hands out data blocks.
THEOREM BlocksTypes ==
  Spec => []TypeOK
BY BlocksInv, InvTypes, PTL

\* balloc, bmap and itrunc share out the blocks in use: none is leaked, and none
\* is at two places, whatever the files do at the same time.
THEOREM Partitioned ==
  Spec => []BlocksPartitioned
BY BlocksInv, InvPartitioned, PTL

\* readi gets back at every block what writei copied in, through direct, singly
\* and doubly indirect blocks.
THEOREM ReadsBack ==
  Spec => []ReadsBackWhatWasWritten
BY BlocksInv, InvReadsBack, PTL

\* bfree never panics: itrunc frees no block twice, and none that is free.
THEOREM NeverFreesFree ==
  Spec => NoFreeingFree
<1>1. IInv /\ [Next]_vars => [\A ip \in Inode : bfree(ip) => used' # used]_vars
  BY FreesUsed, Zenon
<1> QED
  BY <1>1, BlocksInv, PTL DEF Spec, NoFreeingFree
=============================================================================
