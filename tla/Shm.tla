-------------------------------- MODULE Shm --------------------------------
(***************************************************************************)
(* Shared-memory segments of Lab 3 (Task 3.1, kernel/shm.c).               *)
(*                                                                         *)
(* Every operation of shm.c runs from its first to its last access under   *)
(* shm.lock, so each is one atomic action.  The registry shm.reg is reg;   *)
(* pt[p][s] is the physical page that p's page table maps at SHMVA(s), or  *)
(* NoPage when the PTE is not valid; free is the page allocator's list.    *)
(*                                                                         *)
(* SHM_BASE is an ordinary user address.  sys_sbrk can move a process's sz *)
(* past it, and then page faults, fork and shrinking treat the segment     *)
(* addresses as heap.  big[p] says that p's sz lies above the segments,    *)
(* grown that this has happened to some process since boot.  After that    *)
(* ref_count can drift away from the mappings without end, and MaxRef      *)
(* bounds it.                                                              *)
(***************************************************************************)
EXTENDS Integers, FiniteSets

CONSTANTS Proc,        \* slots of the process table
          InitProc,    \* the process that userinit creates
          Key,         \* keys the programs use
          Page,        \* physical pages that kalloc can hand out
          NoPage,      \* the null pointer
          MAX_SHM,     \* slots of the registry
          MaxRef       \* bound on ref_count once a process has grown over SHM_BASE

ASSUME ShmAssumption ==
  /\ IsFiniteSet(Proc)
  /\ InitProc \in Proc
  /\ NoPage \notin Page
  /\ MAX_SHM \in Nat \ {0}
  /\ MaxRef \in Nat

Slot == 0 .. (MAX_SHM - 1)

VARIABLES reg, pt, free, state, big, grown

vars == <<reg, pt, free, state, big, grown>>

PagePtr == Page \cup {NoPage}

Region == [used : {0, 1}, key : Key \cup {0}, page : PagePtr,
           ref_count : Nat]

\* All PTEs of the segment addresses invalid.
Unmapped == [s \in Slot |-> NoPage]

\* shminit runs before any process does.
shminit ==
  reg = [s \in Slot |-> [used |-> 0, key |-> 0, page |-> NoPage,
                         ref_count |-> 0]]

Init ==
  /\ shminit
  /\ pt = [p \in Proc |-> Unmapped]
  /\ free = Page
  /\ state = [p \in Proc |-> IF p = InitProc THEN "RUNNING" ELSE "UNUSED"]
  /\ big = [p \in Proc |-> FALSE]
  /\ grown = FALSE

-----------------------------------------------------------------------------
(* The registry. *)

Holds(s, k) == reg[s].used = 1 /\ reg[s].key = k

\* The scan returns the first slot in use under the key, or -1 (NoSlot).
find_slot_by_key(k, s) == Holds(s, k) /\ \A t \in Slot : t < s => ~Holds(t, k)

\* Mutant: the scan passes over a segment that nobody maps yet.
NoMappedSlot(k) == \A s \in Slot : ~(Holds(s, k) /\ reg[s].ref_count > 0)

NoSlot(k) == \A s \in Slot : ~Holds(s, k)

\* The first slot that is not in use.
alloc_slot(s) == reg[s].used = 0 /\ \A t \in Slot : t < s => reg[t].used = 1

\* A region after one more process maps it.
Ref(r) == [r EXCEPT !.ref_count = @ + 1]

\* Mutants of Unref: no test of ref_count > 0; a slot given up one mapping too
\* early; the count tested before it is decremented.
UnrefUnguarded(r) ==
  IF r.ref_count = 1 /\ r.page # NoPage
  THEN [r EXCEPT !.ref_count = 0, !.page = NoPage, !.used = 0]
  ELSE [r EXCEPT !.ref_count = @ - 1]

UnrefEarly(r) ==
  IF r.ref_count <= 2 /\ r.page # NoPage
  THEN [r EXCEPT !.ref_count = @ - 1, !.page = NoPage, !.used = 0]
  ELSE [r EXCEPT !.ref_count = @ - 1]

UnrefTestFirst(r) ==
  IF r.ref_count = 0 /\ r.page # NoPage
  THEN [r EXCEPT !.page = NoPage, !.used = 0]
  ELSE [r EXCEPT !.ref_count = @ - 1]

\* A region after one of its mappings is removed: the last one gives up the slot.
Unref(r) ==
  LET n == IF r.ref_count > 0 THEN r.ref_count - 1 ELSE r.ref_count
      last == n = 0 /\ r.page # NoPage
  IN  [used |-> IF last THEN 0 ELSE r.used, key |-> r.key,
       page |-> IF last THEN NoPage ELSE r.page, ref_count |-> n]

\* Mutant: the kfree is missing.
FreedByNone(r) == {}

\* The page that kfree gets when a mapping of r is removed.
FreedBy(r) == IF Unref(r).page = NoPage THEN {r.page} \ {NoPage} ELSE {}

\* The key is there already; or no slot is free; or no page is free; or the
\* new segment gets a zeroed page and no mapping yet.
shm_create(p, k) ==
  /\ state[p] = "RUNNING"
  /\ \/ ~NoSlot(k) /\ UNCHANGED <<reg, free>>
     \/ NoSlot(k) /\ (\A s \in Slot : reg[s].used = 1) /\ UNCHANGED <<reg, free>>
     \/ /\ NoSlot(k)
        /\ free = {}
        /\ \E s \in Slot :
             /\ alloc_slot(s)
             /\ reg' = [reg EXCEPT ![s] = [used |-> 0, key |-> k,
                                           page |-> NoPage, ref_count |-> 0]]
        /\ UNCHANGED free
     \/ /\ NoSlot(k)
        /\ \E s \in Slot, pg \in free :
             /\ alloc_slot(s)
             /\ reg' = [reg EXCEPT ![s] = [used |-> 1, key |-> k,
                                           page |-> pg, ref_count |-> 0]]
             /\ free' = free \ {pg}
  /\ UNCHANGED <<pt, state, big, grown>>

\* Returns 0: no such segment, or mappages runs out of page-table pages.
shm_get_fails(p, k) ==
  /\ state[p] = "RUNNING"
  /\ \/ NoSlot(k)
     \/ \E s \in Slot : /\ find_slot_by_key(k, s)
                        /\ reg[s].page = NoPage \/ pt[p][s] = NoPage
  /\ UNCHANGED vars

\* Returns SHMVA(s).  A PTE that is valid already is left alone.
shm_get(p, k) ==
  /\ state[p] = "RUNNING"
  /\ \E s \in Slot :
       /\ find_slot_by_key(k, s)
       /\ reg[s].page # NoPage
       /\ \/ pt[p][s] # NoPage /\ UNCHANGED <<pt, reg>>
          \/ /\ pt[p][s] = NoPage
             /\ grown => reg[s].ref_count < MaxRef
             /\ pt' = [pt EXCEPT ![p][s] = reg[s].page]
             /\ reg' = [reg EXCEPT ![s] = Ref(@)]
  /\ UNCHANGED <<free, state, big, grown>>

\* Returns -1 for an unknown key, and 0 otherwise, mapped or not.
shm_close(p, k) ==
  /\ state[p] = "RUNNING"
  /\ \/ NoSlot(k) /\ UNCHANGED <<reg, pt, free>>
     \/ \E s \in Slot :
          /\ find_slot_by_key(k, s)
          /\ \/ pt[p][s] = NoPage /\ UNCHANGED <<reg, pt, free>>
             \/ /\ pt[p][s] # NoPage
                /\ pt' = [pt EXCEPT ![p][s] = NoPage]
                /\ reg' = [reg EXCEPT ![s] = Unref(reg[s])]
                /\ free' = free \cup FreedBy(reg[s])
  /\ UNCHANGED <<state, big, grown>>

\* Mutant: freeproc without the call of shm_cleanup.
NoCleanup(p) == {}

\* The slots whose mapping shm_cleanup removes from p's page table.
CleanupSlots(p) == {s \in Slot : reg[s].used = 1 /\ pt[p][s] # NoPage}

-----------------------------------------------------------------------------
(* The life of a process, as far as it touches the segments. *)

\* uvmcopy copies the range [0, sz).  The segments are outside it, unless the
\* parent has grown over them: then every valid PTE is copied to a new page.
kfork(p, c) ==
  /\ state[p] = "RUNNING" /\ state[c] = "UNUSED"
  /\ LET src == IF big[p] THEN {s \in Slot : pt[p][s] # NoPage} ELSE {}
     IN  \E copy \in [src -> free] :
           /\ \A s, t \in src : copy[s] = copy[t] => s = t
           /\ pt' = [pt EXCEPT ![c] = [s \in Slot |-> IF s \in src THEN copy[s]
                                                                   ELSE NoPage]]
           /\ free' = free \ {copy[s] : s \in src}
  /\ state' = [state EXCEPT ![c] = "RUNNING"]
  /\ big' = [big EXCEPT ![c] = big[p]]
  /\ UNCHANGED <<reg, grown>>

\* The zombie keeps its page table until it is waited for.
kexit(p) ==
  /\ state[p] = "RUNNING" /\ p # InitProc
  /\ state' = [state EXCEPT ![p] = "ZOMBIE"]
  /\ UNCHANGED <<reg, pt, free, big, grown>>

\* kwait reaps p: shm_cleanup, then proc_freepagetable frees [0, sz).
freeproc(p) ==
  /\ state[p] = "ZOMBIE"
  /\ LET mine == CleanupSlots(p)
         rest == IF big[p] THEN {pt[p][s] : s \in Slot \ mine} \ {NoPage} ELSE {}
     IN  /\ reg' = [s \in Slot |-> IF s \in mine THEN Unref(reg[s]) ELSE reg[s]]
         /\ free' = free \cup rest \cup UNION {FreedBy(reg[s]) : s \in mine}
  /\ pt' = [pt EXCEPT ![p] = Unmapped]
  /\ state' = [state EXCEPT ![p] = "UNUSED"]
  /\ big' = [big EXCEPT ![p] = FALSE]
  /\ UNCHANGED grown

\* A lazy sbrk moves sz past the segments without touching a page.
sbrk_lazy(p) ==
  /\ state[p] = "RUNNING" /\ ~big[p]
  /\ big' = [big EXCEPT ![p] = TRUE]
  /\ grown' = TRUE
  /\ UNCHANGED <<reg, pt, free, state>>

\* A fault below sz on an invalid PTE gives the process a page of its own.
vmfault(p, s) ==
  /\ state[p] = "RUNNING" /\ big[p] /\ pt[p][s] = NoPage
  /\ \E pg \in free : /\ pt' = [pt EXCEPT ![p][s] = pg]
                      /\ free' = free \ {pg}
  /\ UNCHANGED <<reg, state, big, grown>>

\* sbrk with a negative argument: growproc unmaps and frees the range given up.
sbrk_shrink(p) ==
  /\ state[p] = "RUNNING" /\ big[p]
  /\ free' = free \cup ({pt[p][s] : s \in Slot} \ {NoPage})
  /\ pt' = [pt EXCEPT ![p] = Unmapped]
  /\ big' = [big EXCEPT ![p] = FALSE]
  /\ UNCHANGED <<reg, state, grown>>

Next ==
  \/ \E p \in Proc, k \in Key : \/ shm_create(p, k)
                                \/ shm_get_fails(p, k)
                                \/ shm_get(p, k)
                                \/ shm_close(p, k)
  \/ \E p, c \in Proc : kfork(p, c)
  \/ \E p \in Proc : kexit(p) \/ freeproc(p) \/ sbrk_lazy(p) \/ sbrk_shrink(p)
  \/ \E p \in Proc, s \in Slot : vmfault(p, s)

Spec == Init /\ [][Next]_vars
-----------------------------------------------------------------------------
(* Properties. *)

\* Every variable keeps its type; in particular ref_count never goes negative,
\* which the test "ref_count > 0" of shm_close and shm_cleanup is there for.
TypeOK ==
  /\ reg \in [Slot -> Region]
  /\ pt \in [Proc -> [Slot -> PagePtr]]
  /\ free \in SUBSET Page
  /\ state \in [Proc -> {"UNUSED", "RUNNING", "ZOMBIE"}]
  /\ big \in [Proc -> BOOLEAN]
  /\ grown \in BOOLEAN

\* The processes whose page table maps segment s.
Mappers(s) == {p \in Proc : pt[p][s] # NoPage}

\* What shm.h says of ref_count, "mappings of the processes": it is the number
\* of page tables that map the segment, over any order of gets, closes, forks,
\* exits and reaps.
RefCountIsMappings == \A s \in Slot : reg[s].ref_count = Cardinality(Mappers(s))

\* RefCountIsMappings as long as no process has grown over SHM_BASE.
RefCountExact == ~grown => RefCountIsMappings

\* No page table maps a page that shm_close or shm_cleanup has given back to
\* kalloc, or the page of another segment than the slot's.
NoDanglingMapping ==
  ~grown => \A p \in Proc, s \in Slot :
              pt[p][s] # NoPage => /\ reg[s].used = 1
                                   /\ pt[p][s] = reg[s].page
                                   /\ pt[p][s] \notin free

\* The segments' pages and the free list partition the pages: create, close and
\* cleanup neither lose a page, nor free it twice, nor share it between slots.
PagesPartitioned ==
  ~grown =>
    /\ \A pg \in Page : pg \in free <=> \A s \in Slot : reg[s].page # pg
    /\ \A s, t \in Slot : reg[s].page # NoPage /\ reg[s].page = reg[t].page => s = t
    /\ \A s \in Slot : reg[s].used = 1 <=> reg[s].page # NoPage

\* All users of a key meet in one slot, even after growth over SHM_BASE.
OneSlotPerKey ==
  \A s, t \in Slot : reg[s].used = 1 /\ reg[t].used = 1 /\ reg[s].key = reg[t].key => s = t

\* A step that removes the last mapping of a segment frees its slot: the only
\* segment without users is one that nobody has mapped yet.
LastUnmapReleases ==
  [][~grown' => \A s \in Slot : Mappers(s) # {} /\ Mappers(s)' = {} => reg'[s].used = 0]_vars
=============================================================================
