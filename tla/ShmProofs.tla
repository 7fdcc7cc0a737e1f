----------------------------- MODULE ShmProofs -----------------------------
(***************************************************************************)
(* Proofs about the shared-memory segments, for any number of processes,   *)
(* keys, pages and slots.                                                  *)
(***************************************************************************)
EXTENDS Shm, FiniteSetTheorems, TLAPS

\* Removing one of the mappings of a region: its type, and what the code of
\* shm_close and shm_cleanup (lines 118-123) does when the region is in order.
LEMMA RegionType ==
  ASSUME NEW r \in Region
  PROVE  Ref(r) \in Region /\ Unref(r) \in Region /\ FreedBy(r) \in SUBSET Page
BY DEF Region, PagePtr, Ref, Unref, FreedBy

\* The effect of releasing one mapping of a region that is in use.
LEMMA UnrefEffect ==
  ASSUME NEW r \in Region, r.ref_count > 0, r.page # NoPage, r.used = 1
  PROVE  /\ Unref(r).ref_count = r.ref_count - 1
         /\ Unref(r).key = r.key
         /\ r.ref_count = 1 => /\ Unref(r).used = 0 /\ Unref(r).page = NoPage
                               /\ FreedBy(r) = {r.page}
         /\ r.ref_count # 1 => /\ Unref(r).used = 1 /\ Unref(r).page = r.page
                               /\ FreedBy(r) = {}
BY DEF Region, Unref, FreedBy

\* One entry of one page table changes.
LEMMA PtUpdate ==
  ASSUME NEW V, NEW f \in [Proc -> [Slot -> V]], NEW p \in Proc, NEW s \in Slot,
         NEW v \in V
  PROVE  [f EXCEPT ![p][s] = v] \in [Proc -> [Slot -> V]]
BY Zenon

\* Every step keeps the types, growth over SHM_BASE included.
LEMMA TypeStep == TypeOK /\ [Next]_vars => TypeOK'
<1> SUFFICES ASSUME TypeOK, [Next]_vars PROVE TypeOK'
  BY Zenon
<1> USE DEF TypeOK, PagePtr
<1>1. CASE UNCHANGED vars
  BY <1>1, Zenon DEF vars
<1>2. ASSUME NEW p \in Proc, NEW k \in Key, shm_create(p, k) PROVE TypeOK'
  <2>1. reg' \in [Slot -> Region] /\ free' \in SUBSET Page
    BY <1>2 DEF shm_create, Region
  <2> QED
    BY <1>2, <2>1, Zenon DEF shm_create
<1>3. ASSUME NEW p \in Proc, NEW k \in Key, shm_get_fails(p, k) PROVE TypeOK'
  BY <1>3, Zenon DEF shm_get_fails, vars
<1>4. ASSUME NEW p \in Proc, NEW k \in Key, shm_get(p, k) PROVE TypeOK'
  <2>1. PICK s \in Slot : \/ UNCHANGED <<pt, reg>>
                          \/ /\ pt' = [pt EXCEPT ![p][s] = reg[s].page]
                             /\ reg' = [reg EXCEPT ![s] = Ref(reg[s])]
    BY <1>4, Zenon DEF shm_get
  <2>2. reg[s] \in Region /\ Ref(reg[s]) \in Region
    BY RegionType, Zenon
  <2>3. reg' \in [Slot -> Region]
    BY <2>1, <2>2, Zenon
  <2>4. reg[s].page \in PagePtr
    BY <2>2, Zenon DEF Region
  <2>5. PICK pg \in PagePtr : pt' = pt \/ pt' = [pt EXCEPT ![p][s] = pg]
    BY <2>1, <2>4, Zenon
  <2>6. pt' \in [Proc -> [Slot -> PagePtr]]
    <3>1. pt \in [Proc -> [Slot -> PagePtr]]
      BY Zenon
    <3> HIDE DEF PagePtr, TypeOK
    <3>2. [pt EXCEPT ![p][s] = pg] \in [Proc -> [Slot -> PagePtr]]
      BY <3>1, <2>5, PtUpdate, Zenon
    <3> QED
      BY <3>1, <3>2, <2>5, Zenon
  <2> QED
    BY <1>4, <2>3, <2>6, Zenon DEF shm_get
<1>5. ASSUME NEW p \in Proc, NEW k \in Key, shm_close(p, k) PROVE TypeOK'
  <2>1. PICK s \in Slot : \/ UNCHANGED <<reg, pt, free>>
                          \/ /\ pt' = [pt EXCEPT ![p][s] = NoPage]
                             /\ reg' = [reg EXCEPT ![s] = Unref(reg[s])]
                             /\ free' = free \cup FreedBy(reg[s])
    <3>1. 0 \in Slot
      BY ShmAssumption DEF Slot
    <3> QED
      BY <1>5, <3>1, Zenon DEF shm_close
  <2>2. Unref(reg[s]) \in Region /\ FreedBy(reg[s]) \in SUBSET Page
    BY RegionType, Zenon
  <2>3. reg' \in [Slot -> Region]
    BY <2>1, <2>2, Zenon
  <2>4. pt' \in [Proc -> [Slot -> PagePtr]] /\ free' \in SUBSET Page
    BY <2>1, <2>2
  <2> QED
    BY <1>5, <2>3, <2>4, Zenon DEF shm_close
<1>6. ASSUME NEW p \in Proc, NEW c \in Proc, kfork(p, c) PROVE TypeOK'
  <2> DEFINE src == IF big[p] THEN {s \in Slot : pt[p][s] # NoPage} ELSE {}
  <2>1. PICK copy \in [src -> free] :
          /\ pt' = [pt EXCEPT ![c] = [s \in Slot |-> IF s \in src THEN copy[s]
                                                                  ELSE NoPage]]
          /\ free' = free \ {copy[s] : s \in src}
    BY <1>6, Zenon DEF kfork
  <2>2. pt' \in [Proc -> [Slot -> PagePtr]] /\ free' \in SUBSET Page
    BY <2>1, Zenon
  <2> QED
    BY <1>6, <2>2, Zenon DEF kfork
<1>7. ASSUME NEW p \in Proc, kexit(p) PROVE TypeOK'
  BY <1>7, Zenon DEF kexit
<1>8. ASSUME NEW p \in Proc, freeproc(p) PROVE TypeOK'
  <2>1. reg' \in [Slot -> Region]
    BY <1>8, RegionType, Zenon DEF freeproc
  <2>2. free' \in SUBSET Page
    <3> DEFINE U == UNION {FreedBy(reg[s]) : s \in CleanupSlots(p)}
               R == {pt[p][s] : s \in Slot \ CleanupSlots(p)} \ {NoPage}
    <3>1. \A s \in Slot : FreedBy(reg[s]) \in SUBSET Page
      BY RegionType, Zenon
    <3>2. U \in SUBSET Page
      BY <3>1 DEF CleanupSlots
    <3>3. R \in SUBSET Page
      OBVIOUS
    <3>4. free' = free \cup (IF big[p] THEN R ELSE {}) \cup U
      BY <1>8, Zenon DEF freeproc
    <3> HIDE DEF U, R
    <3> QED
      BY <3>2, <3>3, <3>4, Zenon
  <2>3. pt' \in [Proc -> [Slot -> PagePtr]]
    BY <1>8, Zenon DEF freeproc, Unmapped
  <2> QED
    BY <1>8, <2>1, <2>2, <2>3, Zenon DEF freeproc
<1>9. ASSUME NEW p \in Proc, sbrk_lazy(p) PROVE TypeOK'
  BY <1>9, Zenon DEF sbrk_lazy
<1>10. ASSUME NEW p \in Proc, sbrk_shrink(p) PROVE TypeOK'
  BY <1>10 DEF sbrk_shrink, Unmapped
<1>11. ASSUME NEW p \in Proc, NEW s \in Slot, vmfault(p, s) PROVE TypeOK'
  BY <1>11 DEF vmfault
<1> QED
  BY <1>1, <1>2, <1>3, <1>4, <1>5, <1>6, <1>7, <1>8, <1>9, <1>10, <1>11 DEF Next

\* shminit leaves the regions well typed.
LEMMA TypeInit == Init => TypeOK
<1> SUFFICES ASSUME Init PROVE TypeOK
  BY Zenon
<1>1. reg \in [Slot -> Region]
  BY Zenon DEF Init, shminit, Region, PagePtr
<1> QED
  BY <1>1, Zenon DEF Init, TypeOK, PagePtr, Unmapped

\* Type correctness of the segments: ref_count stays a natural number.
THEOREM TypeCorrect == Spec => []TypeOK
BY TypeInit, TypeStep, PTL DEF Spec
-----------------------------------------------------------------------------
(***************************************************************************)
(* The inductive invariant.  Until a process grows over SHM_BASE: ref_count *)
(* counts the mappings (RefCountIsMappings), a mapping is of its slot's     *)
(* page (MapOK), pages are free or owned by one slot (PageOK), and the      *)
(* process table tells that fork starts from an empty page table (ProcOK).  *)
(***************************************************************************)
MapOK ==
  \A p \in Proc, s \in Slot :
    pt[p][s] # NoPage => reg[s].used = 1 /\ pt[p][s] = reg[s].page

PageOK ==
  /\ \A pg \in Page : pg \in free <=> \A s \in Slot : reg[s].page # pg
  /\ \A s, t \in Slot : reg[s].page # NoPage /\ reg[s].page = reg[t].page => s = t
  /\ \A s \in Slot : reg[s].used = 1 <=> reg[s].page # NoPage

ProcOK ==
  \A p \in Proc : /\ ~big[p]
                  /\ state[p] = "UNUSED" => \A s \in Slot : pt[p][s] = NoPage

Clean == RefCountIsMappings /\ MapOK /\ PageOK /\ ProcOK

\* Cardinalities of the set of mappers when one process joins or leaves it.
LEMMA MappersFinite == ASSUME NEW s PROVE IsFiniteSet(Mappers(s))
<1>1. Mappers(s) \subseteq Proc
  BY Zenon DEF Mappers
<1> QED
  BY <1>1, FS_Subset, ShmAssumption, Zenon

\* shm_get maps the segment for one more process.
LEMMA MappersJoin ==
  ASSUME NEW s, NEW p, p \notin Mappers(s), Mappers(s)' = Mappers(s) \cup {p}
  PROVE  Cardinality(Mappers(s)') = Cardinality(Mappers(s)) + 1
BY MappersFinite, FS_AddElement, Zenon

\* shm_close and shm_cleanup take one mapper away.
LEMMA MappersLeave ==
  ASSUME NEW s, NEW p, p \in Mappers(s), Mappers(s)' = Mappers(s) \ {p}
  PROVE  /\ Cardinality(Mappers(s)') = Cardinality(Mappers(s)) - 1
         /\ Cardinality(Mappers(s)) \in Nat \ {0}
<1>1. Cardinality(Mappers(s)') = Cardinality(Mappers(s)) - 1
  BY MappersFinite, FS_RemoveElement, Zenon
<1>2. Cardinality(Mappers(s)) \in Nat
  BY MappersFinite, FS_CardinalityType, Zenon
<1>3. Cardinality(Mappers(s)) # 0
  BY MappersFinite, FS_EmptySet, Zenon
<1> QED
  BY <1>1, <1>2, <1>3, Zenon

\* shm_create adds a segment that nobody maps.
LEMMA CreateStep ==
  ASSUME TypeOK, TypeOK', Clean, NEW p \in Proc, NEW k \in Key, shm_create(p, k)
  PROVE  Clean'
<1> USE DEF TypeOK, Clean
<1>1. UNCHANGED <<pt, state, big>>
  BY Zenon DEF shm_create
<1>2. CASE UNCHANGED <<reg, free>>
  BY <1>1, <1>2 DEF RefCountIsMappings, Mappers, MapOK, PageOK, ProcOK
<1>3. ASSUME NEW s \in Slot, reg[s].used = 0,
             reg' = [reg EXCEPT ![s] = [used |-> 0, key |-> k, page |-> NoPage,
                                        ref_count |-> 0]],
             free' = free
      PROVE  Clean'
  <2>1. reg[s].page = NoPage /\ \A q \in Proc : pt[q][s] = NoPage
    BY <1>3 DEF MapOK, PageOK
  <2>2. Mappers(s) = {} /\ \A t \in Slot : Mappers(t)' = Mappers(t)
    BY <1>1, <2>1, Zenon DEF Mappers
  <2>3. RefCountIsMappings'
    BY <1>3, <2>2, FS_EmptySet, Zenon DEF RefCountIsMappings
  <2>4. MapOK'
    BY <1>1, <1>3, <2>1 DEF MapOK
  <2>5. PageOK'
    BY <1>3, <2>1 DEF PageOK
  <2> QED
    BY <1>1, <2>3, <2>4, <2>5, Zenon DEF ProcOK
<1>4. ASSUME NEW s \in Slot, reg[s].used = 0, NEW pg \in free,
             reg' = [reg EXCEPT ![s] = [used |-> 1, key |-> k, page |-> pg,
                                        ref_count |-> 0]],
             free' = free \ {pg}
      PROVE  Clean'
  <2>1. reg[s].page = NoPage /\ \A q \in Proc : pt[q][s] = NoPage
    BY <1>4 DEF MapOK, PageOK
  <2>2. Mappers(s) = {} /\ \A t \in Slot : Mappers(t)' = Mappers(t)
    BY <1>1, <2>1, Zenon DEF Mappers
  <2>3. RefCountIsMappings'
    BY <1>4, <2>2, FS_EmptySet, Zenon DEF RefCountIsMappings
  <2>4. MapOK'
    BY <1>1, <1>4, <2>1 DEF MapOK
  <2>5. PageOK'
    BY <1>4, <2>1, ShmAssumption DEF PageOK
  <2> QED
    BY <1>1, <2>3, <2>4, <2>5, Zenon DEF ProcOK
<1> QED
  BY <1>2, <1>3, <1>4, Zenon DEF shm_create, alloc_slot
\* shm_get adds the caller to the mappers of the slot, once.
LEMMA GetStep ==
  ASSUME TypeOK, TypeOK', Clean, NEW p \in Proc, NEW k \in Key, shm_get(p, k)
  PROVE  Clean'
<1> USE DEF TypeOK, Clean
<1>1. UNCHANGED <<free, state, big>> /\ state[p] = "RUNNING"
  BY Zenon DEF shm_get
<1>2. CASE UNCHANGED <<pt, reg>>
  BY <1>1, <1>2 DEF RefCountIsMappings, Mappers, MapOK, PageOK, ProcOK
<1>3. ASSUME NEW s \in Slot, reg[s].used = 1, reg[s].page # NoPage, pt[p][s] = NoPage,
             pt' = [pt EXCEPT ![p][s] = reg[s].page],
             reg' = [reg EXCEPT ![s] = Ref(reg[s])]
      PROVE  Clean'
  <2>1. /\ \A t \in Slot : /\ reg'[t].used = reg[t].used
                           /\ reg'[t].page = reg[t].page
        /\ reg'[s].ref_count = reg[s].ref_count + 1
        /\ \A t \in Slot \ {s} : reg'[t] = reg[t]
    BY <1>3 DEF Ref, Region
  <2>2. \A q \in Proc, t \in Slot :
          pt'[q][t] = IF q = p /\ t = s THEN reg[s].page ELSE pt[q][t]
    BY <1>3, Zenon
  <2>3. /\ p \notin Mappers(s)
        /\ Mappers(s)' = Mappers(s) \cup {p}
        /\ \A t \in Slot \ {s} : Mappers(t)' = Mappers(t)
    BY <1>3, <2>2 DEF Mappers
  <2>4. RefCountIsMappings'
    BY <2>1, <2>3, MappersJoin DEF RefCountIsMappings
  <2>5. MapOK'
    BY <1>3, <2>1, <2>2 DEF MapOK
  <2>6. PageOK'
    <3>1. PageOK /\ free' = free
      BY <1>1, Zenon
    <3> HIDE DEF TypeOK, Clean
    <3> QED
      BY <2>1, <3>1 DEF PageOK
  <2>7. ProcOK'
    BY <1>1, <2>2 DEF ProcOK
  <2> QED
    BY <2>4, <2>5, <2>6, <2>7, Zenon
<1> QED
  BY <1>2, <1>3, Zenon DEF shm_get, find_slot_by_key, Holds

\* Removing p's mappings of a set of slots, each with the code's decrement and
\* release: what shm_close does for one slot and shm_cleanup for all of them.
LEMMA UnmapStep ==
  ASSUME TypeOK, TypeOK', RefCountIsMappings, MapOK, PageOK,
         NEW p \in Proc, NEW S \in SUBSET Slot, \A s \in S : pt[p][s] # NoPage,
         \A q \in Proc, t \in Slot :
           pt'[q][t] = IF q = p /\ t \in S THEN NoPage ELSE pt[q][t],
         \A t \in Slot : reg'[t] = IF t \in S THEN Unref(reg[t]) ELSE reg[t],
         free' = free \cup UNION {FreedBy(reg[s]) : s \in S}
  PROVE  RefCountIsMappings' /\ MapOK' /\ PageOK'
<1> USE DEF TypeOK
<1>1. ASSUME NEW s \in S
      PROVE  /\ reg[s] \in Region /\ reg[s].used = 1
             /\ reg[s].page # NoPage /\ reg[s].page \in Page
             /\ p \in Mappers(s) /\ Mappers(s)' = Mappers(s) \ {p}
             /\ reg[s].ref_count > 0
             /\ reg'[s].ref_count = Cardinality(Mappers(s)')
  <2>1. reg[s] \in Region /\ reg[s].used = 1 /\ reg[s].page # NoPage
    BY DEF MapOK, PageOK
  <2>2. reg[s].page \in Page
    BY <2>1, Zenon DEF Region, PagePtr
  <2>3. p \in Mappers(s) /\ Mappers(s)' = Mappers(s) \ {p}
    BY DEF Mappers
  <2>4. reg[s].ref_count > 0
    <3>1. Cardinality(Mappers(s)) \in Nat \ {0}
      BY <2>3, MappersLeave, Zenon
    <3>2. reg[s].ref_count = Cardinality(Mappers(s))
      BY Zenon DEF RefCountIsMappings
    <3> QED
      BY <3>1, <3>2
  <2>5. reg'[s].ref_count = reg[s].ref_count - 1
    BY <2>1, <2>4, UnrefEffect, Zenon
  <2> QED
    BY <2>1, <2>2, <2>3, <2>4, <2>5, MappersLeave, ZenonT(30) DEF RefCountIsMappings
<1>2. \A t \in Slot \ S : reg'[t] = reg[t] /\ Mappers(t)' = Mappers(t)
  BY DEF Mappers
<1>3. RefCountIsMappings'
  BY <1>1, <1>2 DEF RefCountIsMappings
<1>4. \A s \in S : /\ Mappers(s)' # {} => reg'[s].used = 1 /\ reg'[s].page = reg[s].page
                   /\ \/ reg'[s].used = 1 /\ reg'[s].page = reg[s].page /\ FreedBy(reg[s]) = {}
                      \/ reg'[s].used = 0 /\ reg'[s].page = NoPage /\ FreedBy(reg[s]) = {reg[s].page}
  <2> SUFFICES ASSUME NEW s \in S
               PROVE  /\ Mappers(s)' # {} => reg'[s].used = 1 /\ reg'[s].page = reg[s].page
                      /\ \/ reg'[s].used = 1 /\ reg'[s].page = reg[s].page /\ FreedBy(reg[s]) = {}
                         \/ reg'[s].used = 0 /\ reg'[s].page = NoPage /\ FreedBy(reg[s]) = {reg[s].page}
    BY Zenon
  <2>1. CASE reg[s].ref_count # 1
    BY <1>1, <2>1, UnrefEffect
  <2>2. CASE reg[s].ref_count = 1
    <3>1. Cardinality(Mappers(s)') = 0
      BY <1>1, <2>2, UnrefEffect
    <3>2. IsFiniteSet(Mappers(s)')
      BY <1>1, MappersFinite, FS_RemoveElement
    <3>3. Mappers(s)' = {}
      BY <3>1, <3>2, FS_EmptySet, Zenon
    <3> QED
      BY <1>1, <2>2, <3>3, UnrefEffect
  <2> QED
    BY <2>1, <2>2, Zenon
<1>5. MapOK'
  <2> SUFFICES ASSUME NEW q \in Proc, NEW t \in Slot, pt'[q][t] # NoPage
               PROVE  reg'[t].used = 1 /\ pt'[q][t] = reg'[t].page
    BY Zenon DEF MapOK
  <2>1. pt'[q][t] = pt[q][t] /\ q \in Mappers(t)'
    BY Zenon DEF Mappers
  <2>2. reg[t].used = 1 /\ pt[q][t] = reg[t].page
    BY <2>1, ZenonT(30) DEF MapOK
  <2>3. CASE t \in S
    <3>1. reg'[t].used = 1 /\ reg'[t].page = reg[t].page
      BY <1>4, <2>1, <2>3, Zenon
    <3> QED
      BY <2>1, <2>2, <3>1, Zenon
  <2>4. CASE t \notin S
    BY <1>2, <2>1, <2>2, <2>4
  <2> QED
    BY <2>3, <2>4, Zenon
<1>6. PageOK'
  <2>1. \A t \in Slot : reg'[t].used = 1 <=> reg'[t].page # NoPage
    <3> HIDE DEF TypeOK
    <3>1. \A t \in Slot \ S : reg'[t].used = 1 <=> reg'[t].page # NoPage
      BY <1>2, ZenonT(30) DEF PageOK
    <3>2. \A t \in S : reg'[t].used = 1 <=> reg'[t].page # NoPage
      BY <1>1, <1>4
    <3> QED
      BY <3>1, <3>2, Zenon
  <2>2. \A t \in Slot : reg'[t].page \in {reg[t].page, NoPage}
    BY <1>2, <1>4, Zenon
  <2>3. \A s, t \in Slot : reg'[s].page # NoPage /\ reg'[s].page = reg'[t].page => s = t
    BY <2>2 DEF PageOK
  <2>4. ASSUME NEW pg \in Page
        PROVE  pg \in free' <=> \A t \in Slot : reg'[t].page # pg
    <3>1. pg # NoPage
      BY ShmAssumption, Zenon
    <3>2. CASE pg \in free
      BY <2>2, <3>1, <3>2 DEF PageOK
    <3>3. CASE pg \notin free
      <4>1. PICK u \in Slot : reg[u].page = pg
        BY <3>3, Zenon DEF PageOK
      <4>2. \A t \in Slot \ {u} : reg[t].page # pg
        BY <3>1, <4>1, Zenon DEF PageOK
      <4>3. \A s \in S : pg \in FreedBy(reg[s]) <=> s = u /\ reg'[u].page = NoPage
        <5> HIDE DEF TypeOK
        <5> TAKE s \in S
        <5>1. CASE s = u
          BY <1>1, <1>4, <3>1, <4>1, <5>1, Zenon
        <5>2. CASE s # u
          <6>1. reg[s].page # pg
            BY <4>2, <5>2, Zenon
          <6> QED
            BY <1>4, <5>2, <6>1
        <5> QED
          BY <5>1, <5>2, Zenon
      <4>4. pg \in free' <=> \E s \in S : pg \in FreedBy(reg[s])
        BY <3>3
      <4>5. (\A t \in Slot : reg'[t].page # pg) <=> reg'[u].page = NoPage
        <5> HIDE DEF TypeOK
        <5>1. reg'[u].page \in {pg, NoPage} /\ \A t \in Slot \ {u} : reg'[t].page # pg
          BY <2>2, <3>1, <4>1, <4>2, Zenon
        <5> QED
          BY <3>1, <5>1, Zenon
      <4>6. reg'[u].page = NoPage => u \in S
        BY <1>2, <3>1, <4>1, Zenon
      <4> QED
        BY <4>3, <4>4, <4>5, <4>6, Zenon
    <3> QED
      BY <3>2, <3>3, Zenon
  <2> QED
    BY <2>1, <2>3, <2>4, Zenon DEF PageOK
<1> QED
  BY <1>3, <1>5, <1>6, Zenon
\* shm_close: UnmapStep for at most one slot.
LEMMA CloseStep ==
  ASSUME TypeOK, TypeOK', Clean, NEW p \in Proc, NEW k \in Key, shm_close(p, k)
  PROVE  Clean'
<1>1. UNCHANGED <<state, big>> /\ state[p] = "RUNNING"
  BY Zenon DEF shm_close
<1>2. CASE UNCHANGED <<reg, pt, free>>
  BY <1>1, <1>2 DEF Clean, RefCountIsMappings, Mappers, MapOK, PageOK, ProcOK
<1>3. ASSUME NEW s \in Slot, pt[p][s] # NoPage,
             pt' = [pt EXCEPT ![p][s] = NoPage],
             reg' = [reg EXCEPT ![s] = Unref(reg[s])],
             free' = free \cup FreedBy(reg[s])
      PROVE  Clean'
  <2>1. /\ \A q \in Proc, t \in Slot :
             pt'[q][t] = IF q = p /\ t \in {s} THEN NoPage ELSE pt[q][t]
        /\ \A t \in Slot : reg'[t] = IF t \in {s} THEN Unref(reg[t]) ELSE reg[t]
    BY <1>3 DEF TypeOK
  <2>2. free' = free \cup UNION {FreedBy(reg[t]) : t \in {s}}
    BY <1>3, Zenon
  <2>3. RefCountIsMappings' /\ MapOK' /\ PageOK'
    <3>1. {s} \in SUBSET Slot /\ \A t \in {s} : pt[p][t] # NoPage
      BY <1>3, Zenon
    <3> QED
      BY <2>1, <2>2, <3>1, UnmapStep, ZenonT(30) DEF Clean
  <2>4. ProcOK'
    BY <1>1, <2>1 DEF Clean, ProcOK
  <2> QED
    BY <2>3, <2>4, Zenon DEF Clean
<1> QED
  BY <1>2, <1>3, Zenon DEF shm_close

\* kfork: the parent's sz is below SHM_BASE, so the child starts unmapped.
LEMMA ForkStep ==
  ASSUME TypeOK, TypeOK', Clean, NEW p \in Proc, NEW c \in Proc, kfork(p, c)
  PROVE  Clean'
<1>1. ~big[p] /\ state[c] = "UNUSED"
  BY Zenon DEF Clean, ProcOK, kfork
<1>2. free' = free /\ \A q \in Proc, s \in Slot : pt'[q][s] = pt[q][s]
  <2>1. PICK copy \in [{} -> free] :
          /\ pt' = [pt EXCEPT ![c] = [s \in Slot |-> IF s \in {} THEN copy[s]
                                                                 ELSE NoPage]]
          /\ free' = free \ {copy[s] : s \in {}}
    BY <1>1, Zenon DEF kfork
  <2> QED
    BY <1>1, <2>1 DEF TypeOK, Clean, ProcOK
<1>3. reg' = reg /\ (\A q \in Proc : big'[q] = FALSE) /\ \A q \in Proc \ {c} : state'[q] = state[q]
  BY <1>1, ZenonT(30) DEF kfork, Clean, ProcOK, TypeOK
<1>4. state'[c] = "RUNNING"
  BY Zenon DEF kfork, TypeOK
<1>5. \A s \in Slot : Mappers(s)' = Mappers(s)
  BY <1>2, Zenon DEF Mappers
<1>6. RefCountIsMappings' /\ MapOK' /\ PageOK'
  BY <1>2, <1>3, <1>5 DEF Clean, RefCountIsMappings, MapOK, PageOK
<1>7. ProcOK'
  BY <1>2, <1>3, <1>4 DEF Clean, ProcOK
<1> QED
  BY <1>6, <1>7, Zenon DEF Clean

\* freeproc: UnmapStep for every slot the zombie still maps.
LEMMA ReapStep ==
  ASSUME TypeOK, TypeOK', Clean, NEW p \in Proc, freeproc(p)
  PROVE  Clean'
<1> DEFINE S == CleanupSlots(p)
<1>1. S \in SUBSET Slot /\ (\A s \in S : pt[p][s] # NoPage) /\ \A s \in Slot \ S : pt[p][s] = NoPage
  BY Zenon DEF CleanupSlots, Clean, MapOK
<1>2. \A q \in Proc, t \in Slot :
        /\ pt'[q][t] = IF q = p /\ t \in S THEN NoPage ELSE pt[q][t]
        /\ q = p => pt'[q][t] = NoPage
  BY <1>1, Zenon DEF freeproc, Unmapped, TypeOK
<1>3. \A t \in Slot : reg'[t] = IF t \in S THEN Unref(reg[t]) ELSE reg[t]
  BY Zenon DEF freeproc
<1>4. free' = free \cup UNION {FreedBy(reg[s]) : s \in S}
  BY Zenon DEF freeproc, Clean, ProcOK
<1>5. RefCountIsMappings' /\ MapOK' /\ PageOK'
  <2> HIDE DEF S
  <2> QED
    BY <1>1, <1>2, <1>3, <1>4, UnmapStep DEF Clean
<1>6. ProcOK'
  <2>1. (\A q \in Proc : big'[q] = FALSE) /\ \A q \in Proc \ {p} : state'[q] = state[q]
    BY ZenonT(30) DEF freeproc, Clean, ProcOK, TypeOK
  <2> QED
    BY <1>2, <2>1 DEF Clean, ProcOK
<1> QED
  BY <1>5, <1>6, Zenon DEF Clean

IInv == TypeOK /\ (~grown => Clean)

\* Every step keeps the invariant until a process grows over SHM_BASE.
LEMMA IInvStep == IInv /\ [Next]_vars => IInv'
<1> SUFFICES ASSUME IInv, [Next]_vars, ~grown' PROVE Clean'
  BY TypeStep, Zenon DEF IInv
<1>1. TypeOK /\ TypeOK'
  BY TypeStep, ZenonT(30) DEF IInv
<1>2. ~grown
  BY DEF Next, vars, shm_create, shm_get, shm_get_fails, shm_close, kfork, kexit,
         freeproc, sbrk_lazy, sbrk_shrink, vmfault
<1>3. Clean
  BY <1>2, Zenon DEF IInv
<1>4. \A p \in Proc : ~sbrk_lazy(p) /\ ~sbrk_shrink(p) /\ \A s \in Slot : ~vmfault(p, s)
  BY <1>3, ZenonT(30) DEF sbrk_lazy, sbrk_shrink, vmfault, Clean, ProcOK
<1>5. ASSUME NEW p \in Proc, kexit(p) PROVE Clean'
  <2>1. /\ UNCHANGED <<reg, pt, free, big>>
        /\ \A q \in Proc : state'[q] = "UNUSED" => state[q] = "UNUSED"
    BY <1>1, <1>5, Zenon DEF kexit, TypeOK
  <2> QED
    BY <1>3, <2>1 DEF Clean, RefCountIsMappings, Mappers, MapOK, PageOK, ProcOK
<1>6. ASSUME UNCHANGED vars PROVE Clean'
  BY <1>3, <1>6 DEF vars, Clean, RefCountIsMappings, Mappers, MapOK, PageOK, ProcOK
<1> QED
  BY <1>1, <1>3, <1>4, <1>5, <1>6, CreateStep, GetStep, CloseStep, ForkStep, ReapStep, ZenonT(30)
     DEF Next, shm_get_fails

\* After shminit no segment is in use and nobody maps one.
LEMMA IInvInit == Init => IInv
<1> SUFFICES ASSUME Init PROVE IInv
  BY Zenon
<1>1. TypeOK
  BY TypeInit, Zenon
<1>2. \A s \in Slot : /\ reg[s].used = 0 /\ reg[s].page = NoPage /\ reg[s].ref_count = 0
                      /\ \A p \in Proc : pt[p][s] = NoPage
  BY Zenon DEF Init, shminit, Unmapped
<1>3. \A s \in Slot : Mappers(s) = {}
  BY <1>2, Zenon DEF Mappers
<1>4. RefCountIsMappings /\ MapOK
  BY <1>2, <1>3, FS_EmptySet, Zenon DEF RefCountIsMappings, MapOK
<1>5. PageOK
  BY <1>2, ShmAssumption DEF PageOK, Init
<1>6. ProcOK
  BY <1>2, Zenon DEF ProcOK, Init
<1> QED
  BY <1>1, <1>4, <1>5, <1>6, Zenon DEF IInv, Clean

\* The inductive invariant holds throughout.
LEMMA ShmInv == Spec => []IInv
BY IInvInit, IInvStep, PTL DEF Spec

\* Until a process grows over SHM_BASE, ref_count of shm.c is the number of page
\* tables that map the segment.
THEOREM RefCounts == Spec => []RefCountExact
<1>1. IInv => RefCountExact
  BY Zenon DEF IInv, Clean, RefCountExact
<1> QED
  BY <1>1, ShmInv, PTL

\* Until then, no page table maps a page that shm_close or shm_cleanup gave back.
THEOREM NothingDangles == Spec => []NoDanglingMapping
<1>1. IInv => NoDanglingMapping
  BY DEF IInv, NoDanglingMapping, Clean, MapOK, PageOK, TypeOK, PagePtr
<1> QED
  BY <1>1, ShmInv, PTL

\* Until then, the pages are partitioned between the free list and the slots of
\* shm.reg: none is leaked, and none is in two places.
THEOREM PagesAccounted == Spec => []PagesPartitioned
<1>1. IInv => PagesPartitioned
  BY Zenon DEF IInv, Clean, PageOK, PagesPartitioned
<1> QED
  BY <1>1, ShmInv, PTL
-----------------------------------------------------------------------------
(* The registry from step to step. *)

\* shm_create fills a slot that was not in use, under a key that no slot has;
\* the other steps map, unmap or leave alone.
LEMMA RegStep ==
  ASSUME TypeOK, [Next]_vars
  PROVE  \/ \E k \in Key, s \in Slot : \E r :
              /\ NoSlot(k) /\ reg[s].used = 0 /\ r.key = k
              /\ reg' = [reg EXCEPT ![s] = r]
         \/ \A s \in Slot : reg'[s] \in {reg[s], Ref(reg[s]), Unref(reg[s])}
<1> DEFINE Fill == \E k \in Key, s \in Slot : \E r :
                     /\ NoSlot(k) /\ reg[s].used = 0 /\ r.key = k
                     /\ reg' = [reg EXCEPT ![s] = r]
           Keep == \A s \in Slot : reg'[s] \in {reg[s], Ref(reg[s]), Unref(reg[s])}
<1>0. reg' = reg => Keep
  BY Zenon
<1>1. ASSUME NEW p \in Proc, NEW k \in Key, shm_create(p, k) PROVE Fill \/ Keep
  <2>1. CASE reg' = reg
    BY <1>0, <2>1, Zenon
  <2>2. ASSUME NoSlot(k), NEW s \in Slot, alloc_slot(s), NEW r, r.key = k,
               reg' = [reg EXCEPT ![s] = r]
        PROVE  Fill
    BY <2>2, Zenon DEF alloc_slot
  <2>3. \A pg : [used |-> 0, key |-> k, page |-> pg, ref_count |-> 0].key = k
    BY Zenon
  <2>4. \A pg : [used |-> 1, key |-> k, page |-> pg, ref_count |-> 0].key = k
    BY Zenon
  <2> HIDE DEF Fill, Keep
  <2> QED
    BY <1>1, <2>1, <2>2, <2>3, <2>4, Zenon DEF shm_create
<1>2. ASSUME NEW p \in Proc, NEW k \in Key, shm_get(p, k) PROVE Keep
  BY <1>2, ZenonT(30) DEF shm_get, TypeOK
<1>3. ASSUME NEW p \in Proc, NEW k \in Key, shm_close(p, k) PROVE Keep
  BY <1>3, ZenonT(30) DEF shm_close, TypeOK
<1>4. ASSUME NEW p \in Proc, freeproc(p) PROVE Keep
  BY <1>4, Zenon DEF freeproc
<1>5. ASSUME NEW p \in Proc, NEW c \in Proc, kfork(p, c) PROVE reg' = reg
  BY <1>5, Zenon DEF kfork
<1>6. ASSUME NEW p \in Proc, kexit(p) \/ sbrk_lazy(p) \/ sbrk_shrink(p) PROVE reg' = reg
  BY <1>6, Zenon DEF kexit, sbrk_lazy, sbrk_shrink
<1>7. ASSUME NEW p \in Proc, NEW s \in Slot, vmfault(p, s) PROVE reg' = reg
  BY <1>7, Zenon DEF vmfault
<1>8. ASSUME NEW p \in Proc, NEW k \in Key, shm_get_fails(p, k) PROVE reg' = reg
  BY <1>8, Zenon DEF shm_get_fails, vars
<1>9. ASSUME UNCHANGED vars PROVE reg' = reg
  BY <1>9, Zenon DEF vars
<1> HIDE DEF Fill, Keep
<1>10. Fill \/ Keep
  BY <1>0, <1>1, <1>2, <1>3, <1>4, <1>5, <1>6, <1>7, <1>8, <1>9, ZenonT(30) DEF Next
<1> QED
  BY <1>10, Zenon DEF Fill, Keep

\* Mapping and unmapping never put a slot in use and never change its key.
LEMMA KeepsKey ==
  ASSUME NEW r, NEW q \in {r, Ref(r), Unref(r)}, r \in Region, q.used = 1
  PROVE  r.used = 1 /\ q.key = r.key
<1>1. CASE q = r
  BY <1>1, Zenon
<1>2. CASE q = Ref(r)
  BY <1>2, Zenon DEF Ref, Region
<1>3. CASE q = Unref(r)
  BY <1>3, Zenon DEF Unref, Region
<1> QED
  BY <1>1, <1>2, <1>3, Zenon

\* All users of a key meet in one slot, whatever the processes do, growth over
\* SHM_BASE included: shm_create looks for the key before it takes a slot.
THEOREM OneSlot == Spec => []OneSlotPerKey
<1>1. Init => TypeOK /\ OneSlotPerKey
  BY TypeInit DEF Init, shminit, OneSlotPerKey
<1>2. ASSUME TypeOK, OneSlotPerKey, [Next]_vars PROVE OneSlotPerKey'
  <2> SUFFICES ASSUME NEW s \in Slot, NEW t \in Slot, reg'[s].used = 1, reg'[t].used = 1,
                      reg'[s].key = reg'[t].key
               PROVE  s = t
    BY Zenon DEF OneSlotPerKey
  <2>1. CASE \A u \in Slot : reg'[u] \in {reg[u], Ref(reg[u]), Unref(reg[u])}
    <3>1. reg[s] \in Region /\ reg[t] \in Region
      BY <1>2, Zenon DEF TypeOK
    <3>2. reg[s].used = 1 /\ reg'[s].key = reg[s].key /\ reg[t].used = 1 /\ reg'[t].key = reg[t].key
      BY <2>1, <3>1, KeepsKey, Zenon
    <3> QED
      BY <1>2, <3>2, Zenon DEF OneSlotPerKey
  <2>2. ASSUME NEW k \in Key, NEW u \in Slot, NEW r, NoSlot(k), reg[u].used = 0, r.key = k,
               reg' = [reg EXCEPT ![u] = r]
        PROVE  s = t
    <3>1. /\ \A v \in Slot \ {u} : reg'[v] = reg[v]
          /\ reg'[u] = r
      BY <1>2, <2>2, Zenon DEF TypeOK
    <3>2. \A v \in Slot : ~(reg[v].used = 1 /\ reg[v].key = k)
      BY <2>2, Zenon DEF NoSlot, Holds
    <3> QED
      BY <1>2, <2>2, <3>1, <3>2 DEF OneSlotPerKey
  <2> QED
    BY <1>2, <2>1, <2>2, RegStep, Zenon
<1>3. TypeOK /\ [Next]_vars => TypeOK'
  BY TypeStep, Zenon
<1> QED
  BY <1>1, <1>2, <1>3, PTL DEF Spec

\* Until a process grows over SHM_BASE, whoever removes the last mapping of a
\* segment, by shm_close or in freeproc, gives up the slot.
THEOREM LastUnmap == Spec => LastUnmapReleases
<1>1. ASSUME IInv, IInv', [Next]_vars, ~grown', NEW s \in Slot, Mappers(s) # {}, Mappers(s)' = {}
      PROVE  reg'[s].used = 0
  <2>1. ~grown
    BY <1>1, Zenon DEF Next, vars, shm_create, shm_get, shm_get_fails, shm_close, kfork, kexit,
           freeproc, sbrk_lazy, sbrk_shrink, vmfault
  <2>2. TypeOK /\ Clean /\ Clean'
    BY <1>1, <2>1, Zenon DEF IInv
  <2>3. reg[s] \in Region /\ reg[s].used = 1 /\ reg[s].page # NoPage
    <3>1. PICK p \in Proc : pt[p][s] # NoPage
      BY <1>1, Zenon DEF Mappers
    <3>2. reg[s] \in Region /\ MapOK
      BY <2>2, Zenon DEF TypeOK, Clean
    <3> QED
      BY <3>1, <3>2, Zenon DEF MapOK
  <2>4. reg[s].ref_count = Cardinality(Mappers(s)) /\ reg[s].ref_count > 0
    <3>1. reg[s].ref_count = Cardinality(Mappers(s)) /\ reg[s].ref_count \in Nat
      BY <2>2, <2>3, Zenon DEF Clean, RefCountIsMappings, Region
    <3>2. Cardinality(Mappers(s)) # 0
      BY <1>1, MappersFinite, FS_EmptySet, Zenon
    <3> QED
      BY <3>1, <3>2
  <2>5. reg'[s].ref_count = 0
    <3>1. reg'[s].ref_count = Cardinality(Mappers(s)')
      BY <2>2, Zenon DEF Clean, RefCountIsMappings
    <3> QED
      BY <1>1, <3>1, FS_EmptySet, Zenon
  <2>6. CASE reg'[s] \in {reg[s], Ref(reg[s]), Unref(reg[s])}
    <3>1. reg'[s] # reg[s] /\ reg'[s] # Ref(reg[s])
      BY <2>3, <2>4, <2>5 DEF Ref, Region
    <3>2. reg'[s] = Unref(reg[s])
      BY <2>6, <3>1, ZenonT(30)
    <3>3. /\ Unref(reg[s]).ref_count = reg[s].ref_count - 1
          /\ reg[s].ref_count = 1 => Unref(reg[s]).used = 0
      BY <2>3, <2>4, UnrefEffect, Zenon
    <3>4. reg[s].ref_count \in Nat
      BY <2>3, Zenon DEF Region
    <3> QED
      BY <2>5, <3>2, <3>3, <3>4
  <2>7. ASSUME NEW u \in Slot, NEW r, reg[u].used = 0, reg' = [reg EXCEPT ![u] = r]
        PROVE  FALSE
    <3>1. u # s
      BY <2>3, <2>7
    <3>2. reg'[s] = reg[s]
      BY <2>2, <2>7, <3>1, Zenon DEF TypeOK
    <3> QED
      BY <2>4, <2>5, <3>2
  <2> QED
    BY <1>1, <2>2, <2>6, <2>7, RegStep, ZenonT(30)
<1>2. IInv /\ IInv' /\ [Next]_vars =>
        [~grown' => \A s \in Slot : Mappers(s) # {} /\ Mappers(s)' = {} => reg'[s].used = 0]_vars
  BY <1>1, Zenon
<1> QED
  BY <1>2, IInvInit, IInvStep, PTL DEF Spec, LastUnmapReleases
=============================================================================
